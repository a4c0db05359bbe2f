---------------------------- MODULE AnswerProofs ----------------------------
(***************************************************************************)
(* What the answers to a client account for, and how often a summary can   *)
(* have been stored, for any clients, uploads, plans and handlers.  Both   *)
(* rest on Flow, the invariant of IngestProofs.                            *)
(***************************************************************************)
EXTENDS IngestProofs

MissingIn(f, u, n) == {j \in 1..n : f[<<u, j>>] = 0}

(* What a handler has not stored it has counted, and so have the answers.  *)
Accounted(c) ==
    /\ \A u \in 1..Len(acked[c]) :
          Cardinality(MissingIn(rows[c], u, Len(Summaries(c, u)))) <= acked[c][u].rejected
    /\ \A s \in Slots[c] : handler[c][s].pc = "store" =>
          Cardinality(MissingIn(rows[c], handler[c][s].u, handler[c][s].i - 1)) <= handler[c][s].rejected

RowsGrow == \A c \in Clients : \A x \in Items(c) : rows[c][x] <= rows'[c][x]

(* Missing summaries are finitely many. *)
LEMMA MissingFinite ==
    ASSUME NEW f, NEW u, NEW n \in Nat
    PROVE  IsFiniteSet(MissingIn(f, u, n)) /\ Cardinality(MissingIn(f, u, n)) \in Nat
  <1>1. IsFiniteSet(1..n)
    BY FS_Interval
  <1>2. MissingIn(f, u, n) \subseteq 1..n
    BY DEF MissingIn
  <1>3. IsFiniteSet(MissingIn(f, u, n))
    BY <1>1, <1>2, FS_Subset
  <1> QED BY <1>3, FS_CardinalityType

(* Storing more leaves fewer missing. *)
LEMMA MissingShrinks ==
    ASSUME Flow, Flow', RowsGrow, NEW c \in Clients, NEW u \in 1..Len(Uploads[c]),
           NEW n \in 0..Len(Summaries(c, u))
    PROVE  Cardinality(MissingIn(rows'[c], u, n)) <= Cardinality(MissingIn(rows[c], u, n))
  <1>1. n \in Nat /\ \A j \in 1..n : <<u, j>> \in Items(c)
    BY UploadTypes, ItemsOf
  <1>2. rows[c] \in [Items(c) -> Nat] /\ rows'[c] \in [Items(c) -> Nat]
    BY DEF Flow
  <1>3. \A x \in Items(c) : rows[c][x] <= rows'[c][x]
    BY DEF RowsGrow
  <1>4. MissingIn(rows'[c], u, n) \subseteq MissingIn(rows[c], u, n)
    BY <1>1, <1>2, <1>3 DEF MissingIn
  <1> QED BY <1>1, <1>4, MissingFinite, FS_Subset

(* One summary more is missing only if it was not stored. *)
LEMMA MissingNext ==
    ASSUME NEW f, NEW u, NEW i \in Nat \ {0}
    PROVE  /\ Cardinality(MissingIn(f, u, i)) <= Cardinality(MissingIn(f, u, i - 1)) + 1
           /\ f[<<u, i>>] # 0 => Cardinality(MissingIn(f, u, i)) = Cardinality(MissingIn(f, u, i - 1))
  <1>1. CASE f[<<u, i>>] # 0
    <2>1. MissingIn(f, u, i) = MissingIn(f, u, i - 1)
      BY <1>1 DEF MissingIn
    <2>2. Cardinality(MissingIn(f, u, i)) = Cardinality(MissingIn(f, u, i - 1))
      BY <2>1, Zenon
    <2>3. Cardinality(MissingIn(f, u, i)) \in Nat
      BY MissingFinite
    <2> QED BY <2>2, <2>3
  <1>2. CASE f[<<u, i>>] = 0
    <2>1. MissingIn(f, u, i) = MissingIn(f, u, i - 1) \cup {i} /\ i \notin MissingIn(f, u, i - 1)
      BY <1>2 DEF MissingIn
    <2>2. IsFiniteSet(MissingIn(f, u, i - 1)) /\ Cardinality(MissingIn(f, u, i - 1)) \in Nat
      BY MissingFinite
    <2>3. Cardinality(MissingIn(f, u, i - 1) \cup {i}) = Cardinality(MissingIn(f, u, i - 1)) + 1
      BY <2>1, <2>2, FS_AddElement
    <2>4. Cardinality(MissingIn(f, u, i)) = Cardinality(MissingIn(f, u, i - 1) \cup {i})
      BY <2>1, Zenon
    <2> QED BY <1>2, <2>2, <2>3, <2>4
  <1> QED BY <1>1, <1>2

(* Rows only grow. *)
LEMMA OneMoreRow ==
    ASSUME Flow, NEW c \in Clients, NEW x \in Items(c),
           rows' = rows \/ rows' = [rows EXCEPT ![c][x] = @ + 1]
    PROVE  RowsGrow
  <1>1. \A d \in Clients : rows[d] \in [Items(d) -> Nat]
    BY DEF Flow
  <1>2. CASE rows' = rows
    BY <1>1, <1>2 DEF RowsGrow
  <1>3. CASE rows' = [rows EXCEPT ![c][x] = @ + 1]
    <2>1. /\ \A d \in Clients : d # c => rows'[d] = rows[d]
          /\ \A y \in Items(c) : rows'[c][y] = IF y = x THEN rows[c][x] + 1 ELSE rows[c][y]
      BY <1>3, RowsStep
    <2> QED BY <1>1, <2>1 DEF RowsGrow
  <1> QED BY <1>2, <1>3

(* A call that stays where it is, while rows grow. *)
LEMMA AccountedCalls ==
    ASSUME Flow, Flow', RowsGrow, NEW d \in Clients, Accounted(d), NEW s \in Slots[d],
           handler'[d][s] = handler[d][s], handler'[d][s].pc = "store"
    PROVE  Cardinality(MissingIn(rows'[d], handler'[d][s].u, handler'[d][s].i - 1)) <= handler'[d][s].rejected
  <1> DEFINE h == handler[d][s]
  <1>1. handler'[d][s] = h /\ h.pc = "store"
    OBVIOUS
  <1>2. h \in Storing
    BY <1>1, HandlerKinds DEF At
  <1>3. h.u \in 1..Len(Uploads[d]) /\ h.i <= Len(Summaries(d, h.u)) + 1
    BY <1>1 DEF Flow, Calls, Busy, At
  <1>4. h.i - 1 \in 0..Len(Summaries(d, h.u)) /\ h.i - 1 \in Nat /\ h.rejected \in Nat
    BY <1>2, <1>3, UploadTypes, SMTT(30) DEF Storing
  <1>5. Cardinality(MissingIn(rows[d], h.u, h.i - 1)) <= h.rejected
    BY <1>1 DEF Accounted
  <1> HIDE DEF h
  <1>6. Cardinality(MissingIn(rows'[d], h.u, h.i - 1)) <= Cardinality(MissingIn(rows[d], h.u, h.i - 1))
    BY <1>3, <1>4, MissingShrinks
  <1>7. Cardinality(MissingIn(rows'[d], h.u, h.i - 1)) \in Nat /\ Cardinality(MissingIn(rows[d], h.u, h.i - 1)) \in Nat
    BY <1>4, MissingFinite
  <1>8. Cardinality(MissingIn(rows'[d], h.u, h.i - 1)) <= h.rejected
    BY <1>4, <1>5, <1>6, <1>7
  <1> QED BY <1>1, <1>8, Zenon

(* An answer that was given, while rows grow. *)
LEMMA AccountedAnswers ==
    ASSUME Flow, Flow', RowsGrow, NEW d \in Clients, Accounted(d), NEW u \in 1..Len(acked[d]),
           acked'[d][u] = acked[d][u]
    PROVE  Cardinality(MissingIn(rows'[d], u, Len(Summaries(d, u)))) <= acked'[d][u].rejected
  <1>1. acked[d] \in Seq([rejected : Nat, gaveUp : Nat]) /\ Calls(d) /\ client[d] \in Clients0
    BY DEF Flow
  <1>2. u \in 1..Len(Uploads[d]) /\ acked[d][u].rejected \in Nat
    <2>1. acked[d][u] \in [rejected : Nat, gaveUp : Nat]
      <3> DEFINE R == [rejected : Nat, gaveUp : Nat]
      <3>1. acked[d] \in Seq(R)
        BY <1>1
      <3> HIDE DEF R
      <3>2. acked[d][u] \in R
        BY <3>1
      <3> QED BY <3>2 DEF R
    <2>2. Len(acked[d]) <= Len(Uploads[d]) /\ Len(acked[d]) \in Nat /\ Len(Uploads[d]) \in Nat
      <3>1. Len(acked[d]) \in Nat
        BY <1>1
      <3>2. Len(acked[d]) = client[d].head - 1 /\ client[d].head <= Len(Uploads[d]) + 1 /\ client[d].head \in Nat
        BY <1>1 DEF Calls, Clients0
      <3> QED BY <3>1, <3>2, UploadTypes
    <2> QED BY <2>1, <2>2
  <1> DEFINE n == Len(Summaries(d, u))
  <1>3. n \in Nat /\ n \in 0..Len(Summaries(d, u))
    BY <1>2, UploadTypes
  <1>4. Cardinality(MissingIn(rows[d], u, n)) <= acked[d][u].rejected
    BY DEF Accounted
  <1> HIDE DEF n
  <1>5. Cardinality(MissingIn(rows'[d], u, n)) <= Cardinality(MissingIn(rows[d], u, n))
    BY <1>2, <1>3, MissingShrinks
  <1>6. Cardinality(MissingIn(rows'[d], u, n)) \in Nat /\ Cardinality(MissingIn(rows[d], u, n)) \in Nat
    BY <1>3, MissingFinite
  <1>7. Cardinality(MissingIn(rows'[d], u, n)) <= acked[d][u].rejected
    BY <1>2, <1>4, <1>5, <1>6
  <1> QED BY <1>7, Zenon DEF n

(* When one call moves and stores at most one more item, the accounts hold *)
(* if they do for that call and for the answers of its client.             *)
LEMMA AccountedStep ==
    ASSUME Flow, Flow', RowsGrow, \A d \in Clients : Accounted(d),
           NEW c \in Clients, NEW s \in Slots[c], NEW h, Moves(c, s, h),
           h.pc = "store" => Cardinality(MissingIn(rows'[c], h.u, h.i - 1)) <= h.rejected,
           \A u \in 1..Len(acked'[c]) :
              \/ u \in 1..Len(acked[c]) /\ acked'[c][u] = acked[c][u]
              \/ Cardinality(MissingIn(rows'[c], u, Len(Summaries(c, u)))) <= acked'[c][u].rejected
    PROVE  \A d \in Clients : Accounted(d)'
  <1>1. Moved(c, s, h)
    <2>1. Goto(c, s, h)
      BY DEF Moves
    <2> QED BY <2>1, GotoOne
  <1>2. ASSUME NEW d \in Clients, d # c PROVE Accounted(d)'
    <2>1. handler'[d] = handler[d] /\ acked'[d] = acked[d] /\ Accounted(d)
      BY <1>1, <1>2 DEF Moved, Moves
    <2>2. \A r \in Slots[d] : handler'[d][r].pc = "store" =>
             Cardinality(MissingIn(rows'[d], handler'[d][r].u, handler'[d][r].i - 1)) <= handler'[d][r].rejected
      BY <2>1, AccountedCalls
    <2>3. \A u \in 1..Len(acked'[d]) :
             Cardinality(MissingIn(rows'[d], u, Len(Summaries(d, u)))) <= acked'[d][u].rejected
      BY <2>1, AccountedAnswers
    <2> QED BY <2>2, <2>3 DEF Accounted
  <1>3. Accounted(c)'
    <2>1. Accounted(c) /\ \A r \in Slots[c] : handler'[c][r] = IF r = s THEN h ELSE handler[c][r]
      BY <1>1 DEF Moved
    <2>2. ASSUME NEW r \in Slots[c], handler'[c][r].pc = "store"
          PROVE  Cardinality(MissingIn(rows'[c], handler'[c][r].u, handler'[c][r].i - 1)) <= handler'[c][r].rejected
      <3>1. CASE r = s
        <4>1. handler'[c][r] = h
          BY <2>1, <3>1
        <4> QED BY <2>2, <4>1
      <3>2. CASE r # s
        <4>1. handler'[c][r] = handler[c][r]
          BY <2>1, <3>2
        <4> QED BY <2>1, <2>2, <4>1, AccountedCalls
      <3> QED BY <3>1, <3>2
    <2>3. ASSUME NEW u \in 1..Len(acked'[c])
          PROVE  Cardinality(MissingIn(rows'[c], u, Len(Summaries(c, u)))) <= acked'[c][u].rejected
      <3>1. CASE u \in 1..Len(acked[c]) /\ acked'[c][u] = acked[c][u]
        BY <2>1, <3>1, AccountedAnswers
      <3> QED BY <2>3, <3>1
    <2> QED BY <2>2, <2>3 DEF Accounted
  <1> QED BY <1>2, <1>3

(* storeSummary stores or counts. *)
LEMMA StoreSummaryAccounted ==
    ASSUME Flow, Flow', \A d \in Clients : Accounted(d), NEW c \in Clients, NEW s \in Slots[c], StoreSummary(c, s)
    PROVE  \A d \in Clients : Accounted(d)'
  <1> DEFINE h == handler[c][s]
             k == Summaries(c, h.u)[h.i]
             stored == h.accepted /\ Allowed(TenantOf[c], k, h.cap) /\ sinkOpen
             g == IF stored THEN [h EXCEPT !.i = @ + 1] ELSE NextRejected(h)
             x == <<h.u, h.i>>
  <1>1. /\ h \in Storing /\ h.u \in 1..Len(Uploads[c]) /\ h.i \in 1..Len(Summaries(c, h.u))
        /\ x \in Items(c)
        /\ stored => rows' = [rows EXCEPT ![c][x] = @ + 1]
        /\ ~stored => rows' = rows
        /\ g.pc = "store" /\ g.u = h.u /\ g.i = h.i + 1
        /\ g.rejected = h.rejected + IF stored THEN 0 ELSE 1
        /\ Moves(c, s, g)
    BY StoreSummaryMoves
  <1>2. acked' = acked
    BY DEF StoreSummary
  <1>3. handler[c][s].pc = "store"
    BY <1>1 DEF Storing
  <1>4. Cardinality(MissingIn(rows[c], h.u, h.i - 1)) <= h.rejected
    BY <1>3 DEF Accounted
  <1> HIDE DEF g, stored, h, x
  <1>5. RowsGrow
    BY <1>1, OneMoreRow
  <1>6. h.i \in Nat \ {0} /\ h.i - 1 \in Nat /\ h.i - 1 \in 0..Len(Summaries(c, h.u)) /\ h.rejected \in Nat
    BY <1>1, UploadTypes DEF Storing
  <1> DEFINE old == Cardinality(MissingIn(rows[c], h.u, h.i - 1))
             mid == Cardinality(MissingIn(rows'[c], h.u, h.i - 1))
             new == Cardinality(MissingIn(rows'[c], h.u, h.i))
  <1>7. mid <= old
    BY <1>1, <1>5, <1>6, MissingShrinks
  <1>8. old \in Nat /\ mid \in Nat /\ new \in Nat
    BY <1>6, MissingFinite
  <1>9. new <= mid + 1 /\ (rows'[c][<<h.u, h.i>>] # 0 => new = mid)
    BY <1>6, MissingNext
  <1>10. stored => rows'[c][<<h.u, h.i>>] # 0
    <2>1. ASSUME stored PROVE rows'[c][x] = rows[c][x] + 1
      BY <1>1, <2>1, RowsStep
    <2>2. rows[c][x] \in Nat
      BY <1>1 DEF Flow
    <2> QED BY <2>1, <2>2 DEF x
  <1> HIDE DEF old, mid, new
  <1>11. new <= g.rejected
    BY <1>1, <1>4, <1>6, <1>7, <1>8, <1>9, <1>10 DEF old
  <1>12. g.i - 1 = h.i
    BY <1>1, <1>6
  <1>13. Cardinality(MissingIn(rows'[c], g.u, g.i - 1)) <= g.rejected
    BY <1>1, <1>11, <1>12, Zenon DEF new
  <1> QED BY <1>1, <1>2, <1>5, <1>13, AccountedStep

(* The answer carries the handler's count. *)
LEMMA AnswerAccounted ==
    ASSUME Flow, Flow', \A d \in Clients : Accounted(d), NEW c \in Clients, NEW s \in Slots[c], Answer(c, s)
    PROVE  \A d \in Clients : Accounted(d)'
  <1> DEFINE h == handler[c][s]
             x == <<h.u, 0>>
             n == Len(Summaries(c, h.u))
             a == [rejected |-> h.rejected, gaveUp |-> client[c].gaveUp]
  <1>1. /\ Moves(c, s, NoHandler) /\ h \in Storing /\ h.u \in 1..Len(Uploads[c])
        /\ client[c].waiting # s => acked' = acked
        /\ client[c].waiting = s => h.u = client[c].head /\ acked'[c] = Append(acked[c], a)
    BY AnswerMoves
  <1>2. rows' = rows \/ rows' = [rows EXCEPT ![c][x] = @ + 1]
    BY DEF Answer
  <1>3. x \in Items(c) /\ n \in Nat
    BY <1>1, ItemsOf, UploadTypes
  <1>4. RowsGrow
    BY <1>2, <1>3, OneMoreRow
  <1>5. h.i - 1 = n
    <2>1. h.i <= n + 1 /\ h.i > n
      BY DEF Answer, Summaries, Flow, Calls
    <2>2. h.i \in Nat
      BY <1>1 DEF Storing
    <2>3. n \in Nat
      BY <1>3
    <2> HIDE DEF h, n
    <2> QED BY <2>1, <2>2, <2>3, SMTT(30)
  <1>6. Cardinality(MissingIn(rows[c], h.u, h.i - 1)) <= h.rejected
    BY <1>1 DEF Accounted, Storing
  <1>7. a.rejected = h.rejected /\ h.rejected \in Nat
    BY <1>1 DEF Storing
  <1> HIDE DEF h, x, n, a
  <1>8. Cardinality(MissingIn(rows[c], h.u, n)) <= h.rejected
    BY <1>5, <1>6, Zenon
  <1>9. Cardinality(MissingIn(rows'[c], h.u, n)) <= a.rejected
    <2>1. Cardinality(MissingIn(rows'[c], h.u, n)) <= Cardinality(MissingIn(rows[c], h.u, n))
      BY <1>1, <1>3, <1>4, MissingShrinks, SMTT(30) DEF n
    <2>2. Cardinality(MissingIn(rows'[c], h.u, n)) \in Nat /\ Cardinality(MissingIn(rows[c], h.u, n)) \in Nat
      BY <1>3, MissingFinite
    <2> QED BY <1>7, <1>8, <2>1, <2>2, SMTT(30)
  <1>10. ASSUME NEW u \in 1..Len(acked'[c])
         PROVE  \/ u \in 1..Len(acked[c]) /\ acked'[c][u] = acked[c][u]
                \/ Cardinality(MissingIn(rows'[c], u, Len(Summaries(c, u)))) <= acked'[c][u].rejected
    <2>1. CASE client[c].waiting # s
      BY <1>1, <2>1
    <2>2. CASE client[c].waiting = s
      <3>1. acked[c] \in Seq([rejected : Nat, gaveUp : Nat]) /\ Len(acked[c]) = client[c].head - 1 /\ client[c].head \in Nat
        BY DEF Flow, Calls, Clients0
      <3>2. acked'[c] = Append(acked[c], a) /\ h.u = client[c].head
        BY <1>1, <2>2
      <3>3. \/ u \in 1..Len(acked[c]) /\ acked'[c][u] = acked[c][u]
            \/ u = Len(acked[c]) + 1 /\ acked'[c][u] = a
        BY <3>1, <3>2, AppendAt
      <3>4. CASE u = Len(acked[c]) + 1 /\ acked'[c][u] = a
        <4>1. u = h.u
          BY <3>1, <3>2, <3>4
        <4>2. Len(Summaries(c, u)) = n
          BY <4>1, Zenon DEF n
        <4>3. MissingIn(rows'[c], u, Len(Summaries(c, u))) = MissingIn(rows'[c], h.u, n)
          BY <4>1, <4>2, Zenon
        <4> QED BY <1>9, <3>4, <4>3, Zenon
      <3> QED BY <3>3, <3>4
    <2> QED BY <2>1, <2>2
  <1>11. NoHandler.pc # "store"
    BY DEF NoHandler
  <1> QED BY <1>1, <1>4, <1>10, <1>11, AccountedStep

(* Every step keeps the accounts. *)
LEMMA AccountedKept ==
    Flow /\ Flow' /\ (\A c \in Clients : Accounted(c)) /\ [IngestNext]_allVars
        => \A c \in Clients : Accounted(c)'
  <1> SUFFICES ASSUME Flow, Flow', \A c \in Clients : Accounted(c), [IngestNext]_allVars
               PROVE  \A c \in Clients : Accounted(c)'
    OBVIOUS
  <1>0. rows' = rows => RowsGrow
    BY DEF Flow, RowsGrow
  <1>1. ASSUME handler' = handler, rows' = rows, acked' = acked PROVE \A c \in Clients : Accounted(c)'
    BY <1>1 DEF Accounted
  <1>2. ASSUME NEW c \in Clients, NEW s \in Slots[c], NEW h, Moves(c, s, h), h.pc # "store",
               rows' = rows, acked' = acked
        PROVE  \A d \in Clients : Accounted(d)'
    BY <1>0, <1>2, AccountedStep
  <1>3. ASSUME NEW c \in Clients, NEW s \in Slots[c], Send(c, s) PROVE \A d \in Clients : Accounted(d)'
    <2>1. PICK g : Goto(c, s, g) /\ g.pc = "auth"
      BY <1>3 DEF Send
    <2>2. rows' = rows /\ acked' = acked
      BY <1>3 DEF Send
    <2>3. Moved(c, s, g)
      BY <2>1, GotoOne
    <2>4. \A d \in Clients : \A r \in Slots[d] : handler'[d][r].pc = "store" => handler'[d][r] = handler[d][r]
      BY <2>1, <2>3 DEF Moved
    <2> QED BY <2>2, <2>4 DEF Accounted
  <1>4. ASSUME NEW c \in Clients, NEW s \in Slots[c], Deny(c, s) PROVE \A d \in Clients : Accounted(d)'
    <2>1. Refused(c, s) /\ rows' = rows /\ acked' = acked /\ limits' = limits
      BY <1>4 DEF Deny, Flow
    <2>2. Moves(c, s, NoHandler) /\ NoHandler.pc # "store"
      BY <2>1, RefusedMoves DEF NoHandler
    <2> QED BY <1>2, <2>1, <2>2
  <1>5. ASSUME NEW c \in Clients, NEW s \in Slots[c], NEW l, Admit(c, s, l) PROVE \A d \in Clients : Accounted(d)'
    <2>1. rows' = rows /\ acked' = acked
      BY <1>5 DEF Admit
    <2>2. \E h : Moves(c, s, h) /\ h.pc # "store"
      <3>1. NoHandler.pc # "store"
        BY DEF NoHandler
      <3> QED BY <1>5, <3>1, AdmitMoves
    <2> QED BY <1>2, <2>1, <2>2
  <1>6. ASSUME NEW c \in Clients, NEW s \in Slots[c], NEW l, ReadCap(c, s, l) PROVE \A d \in Clients : Accounted(d)'
    <2> DEFINE g == [pc |-> "store", u |-> handler[c][s].u, accepted |-> InSkew(handler[c][s].end),
                     cap |-> l.cap, i |-> 1, rejected |-> 0]
    <2>1. rows' = rows /\ acked' = acked
      BY <1>6 DEF ReadCap
    <2>2. Moves(c, s, g)
      BY <1>6, ReadCapMoves
    <2>6. g.i = 1 /\ g.rejected = 0
      OBVIOUS
    <2> HIDE DEF g
    <2>7. g.i - 1 = 0
      BY <2>6
    <2>3. MissingIn(rows'[c], g.u, 0) = {}
      BY DEF MissingIn
    <2>4. Cardinality(MissingIn(rows'[c], g.u, 0)) = 0
      BY <2>3, FS_EmptySet, Zenon
    <2>5. Cardinality(MissingIn(rows'[c], g.u, g.i - 1)) <= g.rejected
      BY <2>4, <2>6, <2>7, SMTT(30)
    <2> QED BY <1>0, <2>1, <2>2, <2>5, AccountedStep
  <1>7. ASSUME NEW c \in Clients, NEW s \in Slots[c], StoreSummary(c, s) PROVE \A d \in Clients : Accounted(d)'
    BY <1>7, StoreSummaryAccounted
  <1>8. ASSUME NEW c \in Clients, NEW s \in Slots[c], Answer(c, s) PROVE \A d \in Clients : Accounted(d)'
    BY <1>8, AnswerAccounted
  <1> QED BY <1>1, <1>3, <1>4, <1>5, <1>6, <1>7, <1>8
          DEF IngestNext, Step, GiveUp, ChangeLimits, SinkCloses, ingestVars, allVars

(* An upload leaves its client's ring only once each of its summaries is   *)
(* stored or counted in the answer, for any uploads and any number of      *)
(* attempts, handlers and faults.                                          *)
THEOREM AnswersAccount == IngestSpec => []AckedAccounted
  <1> DEFINE I == \A c \in Clients : Accounted(c)
  <1>1. I => AckedAccounted
    BY DEF Accounted, AckedAccounted, Lost, MissingIn, Summaries
  <1>2. IngestInit => I
    BY SMTT(30) DEF IngestInit, Accounted, NoHandler
  <1>3. Flow /\ Flow' /\ I /\ [IngestNext]_allVars => I'
    BY AccountedKept
  <1> HIDE DEF I
  <1> QED BY <1>1, <1>2, <1>3, IngestBase, PTL DEF IngestSpec
-----------------------------------------------------------------------------
(* A call that is yet to store item x: the windows, item 0, come last. *)
Will(h, x) == /\ h.pc # "none" /\ h.u = x[1]
              /\ h.pc = "store" /\ x[2] # 0 => h.i <= x[2]

OpenIn(f, c, x) == {s \in Slots[c] : Will(f[s], x)}

(* The attempts made at an upload so far, but for those refused. *)
Attempts(c, u) ==
    IF u < client[c].head THEN 1 + acked[c][u].gaveUp
    ELSE IF u = client[c].head THEN client[c].gaveUp + (IF client[c].waiting = 0 THEN 0 ELSE 1)
    ELSE 0

(* Copies stored and copies yet to come are no more than the attempts.     *)
Explained(c) ==
    \A x \in Items(c) : rows[c][x] + Cardinality(OpenIn(handler[c], c, x)) <= Attempts(c, x[1])

(* Open calls are finitely many. *)
LEMMA OpenFinite ==
    ASSUME NEW c \in Clients, NEW f, NEW x
    PROVE  IsFiniteSet(OpenIn(f, c, x)) /\ Cardinality(OpenIn(f, c, x)) \in Nat
  <1>1. IsFiniteSet(Slots[c])
    BY IngestAssumption
  <1>2. OpenIn(f, c, x) \subseteq Slots[c]
    BY DEF OpenIn
  <1>3. IsFiniteSet(OpenIn(f, c, x))
    BY <1>1, <1>2, FS_Subset
  <1> QED BY <1>3, FS_CardinalityType

(* How the open calls change when one moves. *)
LEMMA OpenStep ==
    ASSUME Flow, NEW c \in Clients, NEW s \in Slots[c], NEW g, Moved(c, s, g), NEW x
    PROVE  LET h == handler[c][s]
               before == Cardinality(OpenIn(handler[c], c, x))
               after == Cardinality(OpenIn(handler'[c], c, x))
           IN  /\ (Will(h, x) <=> Will(g, x)) => after = before
               /\ Will(h, x) /\ ~Will(g, x) => after = before - 1
               /\ ~Will(h, x) /\ Will(g, x) => after = before + 1
  <1> DEFINE h == handler[c][s]
             B == OpenIn(handler[c], c, x)
             A == OpenIn(handler'[c], c, x)
  <1>1. /\ \A r \in Slots[c] : r # s => handler'[c][r] = handler[c][r]
        /\ handler'[c][s] = g
    BY DEF Moved
  <1>2. \A r \in Slots[c] : r # s => (r \in A <=> r \in B)
    BY <1>1, Zenon DEF OpenIn
  <1>3. (s \in A <=> Will(g, x)) /\ (s \in B <=> Will(h, x))
    BY <1>1, Zenon DEF OpenIn
  <1>4. A \subseteq Slots[c] /\ B \subseteq Slots[c] /\ IsFiniteSet(A) /\ IsFiniteSet(B)
    BY OpenFinite DEF OpenIn
  <1> HIDE DEF A, B
  <1>5. Cardinality(A) \in Nat /\ Cardinality(B) \in Nat
    BY <1>4, FS_CardinalityType
  <1>6. ASSUME Will(h, x) <=> Will(g, x) PROVE Cardinality(A) = Cardinality(B)
    <2>0. s \in A <=> s \in B
      BY <1>3, <1>6, Zenon
    <2>1. A = B
      BY <1>2, <1>4, <2>0
    <2> QED BY <2>1
  <1>7. ASSUME Will(h, x), ~Will(g, x) PROVE Cardinality(A) = Cardinality(B) - 1
    <2>1. B = A \cup {s} /\ s \notin A
      BY <1>2, <1>3, <1>4, <1>7
    <2>2. Cardinality(A \cup {s}) = Cardinality(A) + 1
      BY <1>4, <2>1, FS_AddElement
    <2> QED BY <1>5, <2>1, <2>2
  <1>8. ASSUME ~Will(h, x), Will(g, x) PROVE Cardinality(A) = Cardinality(B) + 1
    <2>1. A = B \cup {s} /\ s \notin B
      BY <1>2, <1>3, <1>4, <1>8
    <2>2. Cardinality(B \cup {s}) = Cardinality(B) + 1
      BY <1>4, <2>1, FS_AddElement
    <2> QED BY <1>5, <2>1, <2>2
  <1> QED BY <1>6, <1>7, <1>8, Zenon DEF A, B

(* Counts are numbers. *)
LEMMA AttemptsNat ==
    ASSUME Flow, NEW c \in Clients, NEW u \in Nat \ {0}
    PROVE  Attempts(c, u) \in Nat
  <1>1. client[c] \in Clients0 /\ acked[c] \in Seq([rejected : Nat, gaveUp : Nat]) /\ Len(acked[c]) = client[c].head - 1
    BY DEF Flow, Calls
  <1>2. client[c].head \in Nat /\ client[c].gaveUp \in Nat
    BY <1>1 DEF Clients0
  <1>3. ASSUME u < client[c].head PROVE acked[c][u].gaveUp \in Nat
    <2> DEFINE R == [rejected : Nat, gaveUp : Nat]
    <2>0. acked[c] \in Seq(R)
      BY <1>1
    <2> HIDE DEF R
    <2>1. u \in 1..Len(acked[c])
      BY <1>1, <1>2, <1>3, <2>0
    <2>2. acked[c][u] \in R
      BY <2>0, <2>1
    <2> QED BY <2>2 DEF R
  <1> QED BY <1>2, <1>3 DEF Attempts

(* When one call of c moves, the balance of c decides. *)
LEMMA ExplainedStep ==
    ASSUME Flow, \A d \in Clients : Explained(d), NEW c \in Clients, NEW s \in Slots[c], NEW g, Moves(c, s, g),
           \A d \in Clients : d # c => rows'[d] = rows[d],
           \A x \in Items(c) :
              rows'[c][x] + Cardinality(OpenIn(handler'[c], c, x)) <= Attempts(c, x[1])'
    PROVE  \A d \in Clients : Explained(d)'
  <1>1. Moved(c, s, g)
    <2>1. Goto(c, s, g)
      BY DEF Moves
    <2> QED BY <2>1, GotoOne
  <1>2. ASSUME NEW d \in Clients, d # c PROVE Explained(d)'
    <2>1. handler'[d] = handler[d] /\ rows'[d] = rows[d] /\ client'[d] = client[d] /\ acked'[d] = acked[d]
      BY <1>1, <1>2 DEF Moved, Moves
    <2>2. \A u : Attempts(d, u)' = Attempts(d, u)
      BY <2>1 DEF Attempts
    <2> QED BY <2>1, <2>2 DEF Explained
  <1>3. Explained(c)'
    BY DEF Explained
  <1> QED BY <1>2, <1>3

(* A call that goes on without storing is as open as before. *)
LEMMA ExplainedSame ==
    ASSUME Flow, \A d \in Clients : Explained(d), NEW c \in Clients, NEW s \in Slots[c], NEW g, Moves(c, s, g),
           rows' = rows, client' = client, acked' = acked,
           \A x \in Items(c) : Will(handler[c][s], x) <=> Will(g, x)
    PROVE  \A d \in Clients : Explained(d)'
  <1>1. Moved(c, s, g)
    <2>1. Goto(c, s, g)
      BY DEF Moves
    <2> QED BY <2>1, GotoOne
  <1>2. ASSUME NEW x \in Items(c)
        PROVE  rows'[c][x] + Cardinality(OpenIn(handler'[c], c, x)) <= Attempts(c, x[1])'
    <2>1. Cardinality(OpenIn(handler'[c], c, x)) = Cardinality(OpenIn(handler[c], c, x))
      BY <1>1, OpenStep
    <2>2. Attempts(c, x[1])' = Attempts(c, x[1])
      BY DEF Attempts
    <2> QED BY <2>1, <2>2 DEF Explained
  <1> QED BY <1>2, ExplainedStep

(* A send is one attempt more, and one open call. *)
LEMMA SendExplained ==
    ASSUME Guard, Flow, \A d \in Clients : Explained(d), NEW c \in Clients, NEW s \in Slots[c], Send(c, s)
    PROVE  \A d \in Clients : Explained(d)'
  <1> DEFINE built == IF client[c].built = -1 THEN now ELSE client[c].built
             g == [pc |-> "auth", u |-> client[c].head, end |-> built + Upload(c).skew]
  <1>1. /\ client' = [client EXCEPT ![c].waiting = s, ![c].built = built] /\ Goto(c, s, g)
        /\ rows' = rows /\ acked' = acked /\ client[c].waiting = 0 /\ At(c, s, "none")
    BY DEF Send
  <1>2. g.pc = "auth" /\ g.u = client[c].head
    OBVIOUS
  <1> HIDE DEF g, built
  <1>3. Moved(c, s, g)
    BY <1>1, GotoOne
  <1>4. client \in [Clients -> Clients0] /\ client[c] \in Clients0 /\ s \in Nat /\ s # 0
    BY IngestAssumption DEF Flow
  <1>5. /\ client'[c].head = client[c].head /\ client'[c].waiting = s /\ client'[c].gaveUp = client[c].gaveUp
        /\ client[c].head \in Nat /\ client[c].gaveUp \in Nat
    BY <1>1, <1>4 DEF Clients0
  <1>6. \A d \in Clients : d # c => client'[d] = client[d]
    BY <1>1, <1>4
  <1>7. ASSUME NEW x \in Items(c)
        PROVE  rows'[c][x] + Cardinality(OpenIn(handler'[c], c, x)) <= Attempts(c, x[1])'
    <2> DEFINE before == Cardinality(OpenIn(handler[c], c, x))
               after == Cardinality(OpenIn(handler'[c], c, x))
    <2>1. ~Will(handler[c][s], x) /\ (Will(g, x) <=> x[1] = client[c].head)
      BY <1>1, <1>2 DEF Will, At
    <2>2. IF x[1] = client[c].head THEN after = before + 1 ELSE after = before
      BY <1>3, <2>1, OpenStep
    <2>3. before \in Nat /\ after \in Nat /\ rows[c][x] \in Nat
      BY OpenFinite DEF Flow
    <2>4. rows[c][x] + before <= Attempts(c, x[1])
      BY DEF Explained
    <2>5. x[1] \in Nat \ {0}
      BY ItemsOf, UploadTypes
    <2>6. Attempts(c, x[1]) \in Nat
      BY <2>5, AttemptsNat
    <2>7. Attempts(c, x[1])' = Attempts(c, x[1]) + IF x[1] = client[c].head THEN 1 ELSE 0
      <3>1. CASE x[1] = client[c].head
        BY <1>1, <1>4, <1>5, <2>5, <3>1 DEF Attempts
      <3>2. CASE x[1] # client[c].head
        <4>1. Attempts(c, x[1])' = Attempts(c, x[1])
          BY <1>1, <1>5, <2>5, <3>2 DEF Attempts
        <4> QED BY <2>6, <3>2, <4>1
      <3> QED BY <3>1, <3>2
    <2> HIDE DEF before, after
    <2>8. rows[c][x] + after <= Attempts(c, x[1])'
      BY <2>2, <2>3, <2>4, <2>6, <2>7
    <2> QED BY <1>1, <2>8 DEF after
  <1>8. ASSUME NEW d \in Clients, d # c PROVE Explained(d)'
    <2>1. handler'[d] = handler[d] /\ client'[d] = client[d] /\ rows'[d] = rows[d] /\ acked'[d] = acked[d]
      BY <1>1, <1>3, <1>6, <1>8 DEF Moved
    <2>2. \A u : Attempts(d, u)' = Attempts(d, u)
      BY <2>1 DEF Attempts
    <2> QED BY <2>1, <2>2 DEF Explained
  <1>9. Explained(c)'
    BY <1>7 DEF Explained
  <1> QED BY <1>8, <1>9

(* A refusal before anything was stored takes its attempt back. *)
LEMMA RefusedExplained ==
    ASSUME Flow, \A d \in Clients : Explained(d), NEW c \in Clients, NEW s \in Slots[c], Refused(c, s),
           handler[c][s] \in Arrived, Moves(c, s, NoHandler), rows' = rows, acked' = acked,
           client'[c] = [client[c] EXCEPT !.waiting = IF client[c].waiting = s THEN 0 ELSE client[c].waiting]
    PROVE  \A d \in Clients : Explained(d)'
  <1>1. Moved(c, s, NoHandler)
    <2>1. Goto(c, s, NoHandler)
      BY DEF Refused, Ends
    <2> QED BY <2>1, GotoOne
  <1>2. client[c] \in Clients0 /\ s # 0 /\ (client[c].waiting = s => handler[c][s].u = client[c].head)
    <2>1. client[c] \in Clients0 /\ Calls(c) /\ s # 0
      BY IngestAssumption DEF Flow
    <2> QED BY <2>1 DEF Calls
  <1>3. /\ client'[c].head = client[c].head /\ client'[c].gaveUp = client[c].gaveUp
        /\ client'[c].waiting = (IF client[c].waiting = s THEN 0 ELSE client[c].waiting)
        /\ client[c].head \in Nat /\ client[c].gaveUp \in Nat
    BY <1>2 DEF Clients0
  <1>4. ASSUME NEW x \in Items(c)
        PROVE  rows'[c][x] + Cardinality(OpenIn(handler'[c], c, x)) <= Attempts(c, x[1])'
    <2> DEFINE before == Cardinality(OpenIn(handler[c], c, x))
               after == Cardinality(OpenIn(handler'[c], c, x))
    <2>1. ~Will(NoHandler, x) /\ (Will(handler[c][s], x) <=> x[1] = handler[c][s].u)
      BY DEF Will, NoHandler, Arrived
    <2>2. IF x[1] = handler[c][s].u THEN after = before - 1 ELSE after = before
      BY <1>1, <2>1, OpenStep
    <2>3. before \in Nat /\ after \in Nat /\ rows[c][x] \in Nat
      BY OpenFinite DEF Flow
    <2>4. rows[c][x] + before <= Attempts(c, x[1])
      BY DEF Explained
    <2>5. x[1] \in Nat \ {0}
      BY ItemsOf, UploadTypes
    <2>6. Attempts(c, x[1]) \in Nat
      BY <2>5, AttemptsNat
    <2>7. \/ Attempts(c, x[1])' = Attempts(c, x[1])
          \/ x[1] = handler[c][s].u /\ Attempts(c, x[1])' = Attempts(c, x[1]) - 1
      <3>1. CASE x[1] = client[c].head /\ client[c].waiting = s
        BY <1>2, <1>3, <2>5, <3>1 DEF Attempts
      <3>2. CASE ~(x[1] = client[c].head /\ client[c].waiting = s)
        <4>1. Attempts(c, x[1])' = Attempts(c, x[1])
          BY <1>3, <2>5, <3>2 DEF Attempts
        <4> QED BY <4>1
      <3> QED BY <3>1, <3>2
    <2> HIDE DEF before, after
    <2>8. rows[c][x] + after <= Attempts(c, x[1])'
      BY <2>2, <2>3, <2>4, <2>6, <2>7
    <2> QED BY <2>8 DEF after
  <1> QED BY <1>4, ExplainedStep

(* Giving up turns the wait into an attempt given up. *)
LEMMA GiveUpExplained ==
    ASSUME Flow, \A d \in Clients : Explained(d), NEW c \in Clients, GiveUp(c)
    PROVE  \A d \in Clients : Explained(d)'
  <1>1. /\ client'[c] = [client[c] EXCEPT !.waiting = 0, !.gaveUp = client[c].gaveUp + 1]
        /\ \A d \in Clients : d # c => client'[d] = client[d]
    BY GiveUpFlow
  <1>2. rows' = rows /\ handler' = handler /\ acked' = acked /\ client[c].waiting # 0
    BY DEF GiveUp
  <1>3. client[c] \in Clients0
    BY DEF Flow
  <1>4. /\ client'[c].head = client[c].head /\ client'[c].gaveUp = client[c].gaveUp + 1
        /\ client'[c].waiting = 0 /\ client[c].gaveUp \in Nat
    BY <1>1, <1>3 DEF Clients0
  <1>5. ASSUME NEW d \in Clients, NEW u PROVE Attempts(d, u)' = Attempts(d, u)
    <2>1. CASE d = c
      BY <1>2, <1>4, <2>1 DEF Attempts
    <2>2. CASE d # c
      BY <1>1, <1>2, <2>2 DEF Attempts
    <2> QED BY <2>1, <2>2
  <1> QED BY <1>2, <1>5 DEF Explained

(* A summary is stored, or not, where it was open. *)
LEMMA StoreSummaryExplained ==
    ASSUME Flow, \A d \in Clients : Explained(d), NEW c \in Clients, NEW s \in Slots[c], StoreSummary(c, s)
    PROVE  \A d \in Clients : Explained(d)'
  <1> DEFINE h == handler[c][s]
             y == <<h.u, h.i>>
  <1>1. PICK g : /\ Moves(c, s, g) /\ g.pc = "store" /\ g.u = h.u /\ g.i = h.i + 1
                 /\ h \in Storing /\ y \in Items(c) /\ h.i \in 1..Len(Summaries(c, h.u))
                 /\ h.u \in 1..Len(Uploads[c])
                 /\ rows' = rows \/ rows' = [rows EXCEPT ![c][y] = @ + 1]
    BY StoreSummaryMoves
  <1>2. client' = client /\ acked' = acked
    BY DEF StoreSummary
  <1>3. Moved(c, s, g)
    <2>1. Goto(c, s, g)
      BY <1>1 DEF Moves
    <2> QED BY <2>1, GotoOne
  <1>4. h.pc = "store" /\ h.i \in Nat \ {0}
    BY <1>1 DEF Storing
  <1> HIDE DEF h
  <1>5. /\ \A d \in Clients : d # c => rows'[d] = rows[d]
        /\ \A x \in Items(c) : rows'[c][x] = rows[c][x] \/ (x = y /\ rows'[c][x] = rows[c][x] + 1)
    BY <1>1, RowsStep
  <1>6. ASSUME NEW x \in Items(c)
        PROVE  rows'[c][x] + Cardinality(OpenIn(handler'[c], c, x)) <= Attempts(c, x[1])'
    <2> DEFINE before == Cardinality(OpenIn(handler[c], c, x))
               after == Cardinality(OpenIn(handler'[c], c, x))
    <2>0. x = <<x[1], x[2]>> /\ x[1] \in Nat \ {0} /\ x[2] \in Nat
      BY ItemsOf, UploadTypes
    <2>1. CASE x = y
      <3>1. Will(h, x) /\ ~Will(g, x)
        BY <1>1, <1>4, <2>1 DEF Will
      <3>2. after = before - 1
        BY <1>3, <3>1, OpenStep DEF h
      <3>3. before \in Nat /\ after \in Nat /\ rows[c][x] \in Nat /\ Attempts(c, x[1]) \in Nat
        BY <2>0, OpenFinite, AttemptsNat DEF Flow
      <3>4. rows[c][x] + before <= Attempts(c, x[1])
        BY DEF Explained
      <3>5. Attempts(c, x[1])' = Attempts(c, x[1])
        BY <1>2 DEF Attempts
      <3> HIDE DEF before, after
      <3>6. rows'[c][x] + after <= Attempts(c, x[1])'
        BY <1>5, <3>2, <3>3, <3>4, <3>5, SMTT(30)
      <3> QED BY <3>6 DEF after
    <2>2. CASE x # y
      <3>1. Will(h, x) <=> Will(g, x)
        <4>1. CASE x[1] # h.u
          BY <1>1, <4>1 DEF Will
        <4>2. CASE x[1] = h.u
          <5>1. x[2] # h.i
            BY <2>0, <2>2, <4>2
          <5> QED BY <1>1, <1>4, <2>0, <4>2, <5>1 DEF Will
        <4> QED BY <4>1, <4>2
      <3>2. after = before
        BY <1>3, <3>1, OpenStep DEF h
      <3>3. rows'[c][x] = rows[c][x]
        BY <1>5, <2>2
      <3>4. Attempts(c, x[1])' = Attempts(c, x[1])
        BY <1>2 DEF Attempts
      <3> QED BY <3>2, <3>3, <3>4 DEF Explained
    <2> QED BY <2>1, <2>2
  <1> QED BY <1>1, <1>5, <1>6, ExplainedStep

(* The attempts an answer leaves behind: the one it answers has moved from *)
(* the client to the answer.                                               *)
LEMMA AnswerAttempts ==
    ASSUME Flow, NEW c \in Clients, NEW s \in Slots[c], Answer(c, s), NEW u \in Nat \ {0}
    PROVE  Attempts(c, u)' = Attempts(c, u)
  <1> DEFINE a == [rejected |-> handler[c][s].rejected, gaveUp |-> client[c].gaveUp]
             h == client[c].head
  <1>1. CASE client[c].waiting # s
    <2>1. client' = client /\ acked' = acked
      BY <1>1, AnswerMoves
    <2> QED BY <2>1 DEF Attempts
  <1>2. CASE client[c].waiting = s
    <2>1. /\ client'[c] = [head |-> h + 1, waiting |-> 0, built |-> -1, gaveUp |-> 0]
          /\ acked'[c] = Append(acked[c], a)
      BY <1>2, AnswerMoves
    <2>2. client'[c].head = h + 1 /\ client'[c].waiting = 0 /\ client'[c].gaveUp = 0
      BY <2>1
    <2>3. s # 0
      BY IngestAssumption
    <2>4. /\ acked[c] \in Seq([rejected : Nat, gaveUp : Nat]) /\ Len(acked[c]) = h - 1 /\ h \in Nat \ {0}
          /\ client[c].gaveUp \in Nat
      BY DEF Flow, Calls, Clients0
    <2>5. a.gaveUp = client[c].gaveUp
      OBVIOUS
    <2> HIDE DEF a
    <2>6. acked'[c][h] = a /\ (u < h => acked'[c][u] = acked[c][u])
      <3>1. Len(acked[c]) + 1 = h /\ h \in 1..(Len(acked[c]) + 1)
        BY <2>4, SMTT(30)
      <3>2. u < h => u \in 1..Len(acked[c])
        BY <2>4
      <3>3. acked'[c][Len(acked[c]) + 1] = a /\ \A v \in 1..Len(acked[c]) : acked'[c][v] = acked[c][v]
        <4>1. acked'[c] = Append(acked[c], a)
          BY <2>1, Zenon
        <4>2. /\ Append(acked[c], a)[Len(acked[c]) + 1] = a
              /\ \A v \in 1..Len(acked[c]) : Append(acked[c], a)[v] = acked[c][v]
          BY <2>4, AppendAt
        <4> QED BY <4>1, <4>2, Zenon
      <3> QED BY <3>1, <3>2, <3>3, Zenon
    <2>7. CASE u < h
      BY <2>2, <2>4, <2>6, <2>7, SMTT(30) DEF Attempts
    <2>8. CASE u = h
      BY <1>2, <2>2, <2>3, <2>4, <2>5, <2>6, <2>8, SMTT(30) DEF Attempts
    <2>9. CASE u > h
      BY <2>2, <2>4, <2>9 DEF Attempts
    <2> QED BY <2>4, <2>7, <2>8, <2>9
  <1> QED BY <1>1, <1>2

(* The upload's windows, item 0, are stored or not where they were open. *)
LEMMA AnswerExplained ==
    ASSUME Flow, \A d \in Clients : Explained(d), NEW c \in Clients, NEW s \in Slots[c], Answer(c, s)
    PROVE  \A d \in Clients : Explained(d)'
  <1> DEFINE h == handler[c][s]
             y == <<h.u, 0>>
  <1>1. Moves(c, s, NoHandler) /\ h \in Storing /\ h.u \in 1..Len(Uploads[c])
    BY AnswerMoves
  <1>2. /\ rows' = rows \/ rows' = [rows EXCEPT ![c][y] = @ + 1]
        /\ h.i > Len(Summaries(c, h.u))
    BY DEF Answer, Summaries
  <1>3. Moved(c, s, NoHandler)
    <2>1. Goto(c, s, NoHandler)
      BY DEF Answer, Ends
    <2> QED BY <2>1, GotoOne
  <1>4. y \in Items(c) /\ h.pc = "store" /\ h.i \in Nat
    BY <1>1, ItemsOf, UploadTypes DEF Storing
  <1> HIDE DEF h
  <1>5. /\ \A d \in Clients : d # c => rows'[d] = rows[d]
        /\ \A x \in Items(c) : rows'[c][x] = rows[c][x] \/ (x = y /\ rows'[c][x] = rows[c][x] + 1)
    BY <1>2, <1>4, RowsStep
  <1>6. ASSUME NEW x \in Items(c)
        PROVE  rows'[c][x] + Cardinality(OpenIn(handler'[c], c, x)) <= Attempts(c, x[1])'
    <2> DEFINE before == Cardinality(OpenIn(handler[c], c, x))
               after == Cardinality(OpenIn(handler'[c], c, x))
    <2>0. /\ x = <<x[1], x[2]>> /\ x[1] \in 1..Len(Uploads[c]) /\ x[1] \in Nat \ {0}
          /\ x[2] \in 0..Len(Summaries(c, x[1]))
      BY ItemsOf, UploadTypes
    <2>1. Attempts(c, x[1])' = Attempts(c, x[1])
      BY <2>0, AnswerAttempts
    <2>2. ~Will(NoHandler, x)
      BY DEF Will, NoHandler
    <2>3. before \in Nat /\ after \in Nat /\ rows[c][x] \in Nat /\ Attempts(c, x[1]) \in Nat
      BY <2>0, OpenFinite, AttemptsNat DEF Flow
    <2>4. rows[c][x] + before <= Attempts(c, x[1])
      BY DEF Explained
    <2>5. CASE x = y
      <3>1. Will(h, x)
        BY <1>4, <2>5 DEF Will
      <3>2. after = before - 1
        BY <1>3, <2>2, <3>1, OpenStep DEF h
      <3> HIDE DEF before, after
      <3>3. rows'[c][x] + after <= Attempts(c, x[1])'
        BY <1>5, <2>1, <2>3, <2>4, <3>2, SMTT(30)
      <3> QED BY <3>3 DEF after
    <2>6. CASE x # y
      <3>1. ~Will(h, x)
        <4>1. CASE x[1] # h.u
          BY <4>1 DEF Will
        <4>2. CASE x[1] = h.u
          <5>1. x[2] # 0 /\ x[2] \in Nat
            BY <2>0, <2>6, <4>2, UploadTypes
          <5>2. x[2] <= Len(Summaries(c, h.u)) /\ Len(Summaries(c, h.u)) \in Nat
            BY <2>0, <4>2, UploadTypes
          <5> QED BY <1>2, <1>4, <5>1, <5>2 DEF Will
        <4> QED BY <4>1, <4>2
      <3>2. after = before
        BY <1>3, <2>2, <3>1, OpenStep DEF h
      <3>3. rows'[c][x] = rows[c][x]
        BY <1>5, <2>6
      <3> QED BY <2>1, <2>4, <3>2, <3>3
    <2> QED BY <2>5, <2>6
  <1> QED BY <1>1, <1>5, <1>6, ExplainedStep

(* Every step keeps the copies explained. *)
LEMMA ExplainedKept ==
    Guard /\ Flow /\ (\A c \in Clients : Explained(c)) /\ [IngestNext]_allVars
        => \A c \in Clients : Explained(c)'
  <1> SUFFICES ASSUME Guard, Flow, \A c \in Clients : Explained(c), [IngestNext]_allVars
               PROVE  \A c \in Clients : Explained(c)'
    OBVIOUS
  <1>1. ASSUME client' = client, handler' = handler, rows' = rows, acked' = acked
        PROVE  \A c \in Clients : Explained(c)'
    <2>1. \A d \in Clients : \A u : Attempts(d, u)' = Attempts(d, u)
      BY <1>1 DEF Attempts
    <2> QED BY <1>1, <2>1 DEF Explained
  <1>2. ASSUME NEW c \in Clients, NEW s \in Slots[c], Refused(c, s), handler[c][s] \in Arrived,
               rows' = rows, acked' = acked, limits' = limits
        PROVE  \A d \in Clients : Explained(d)'
    <2>1. /\ Moves(c, s, NoHandler)
          /\ client'[c] = [client[c] EXCEPT !.waiting = IF client[c].waiting = s THEN 0 ELSE client[c].waiting]
      BY <1>2, RefusedMoves
    <2> QED BY <1>2, <2>1, RefusedExplained
  <1>3. ASSUME NEW c \in Clients, NEW s \in Slots[c], Deny(c, s) PROVE \A d \in Clients : Explained(d)'
    <2>1. Refused(c, s) /\ rows' = rows /\ acked' = acked /\ limits' = limits
      BY <1>3 DEF Deny, Flow
    <2>2. handler[c][s] \in Arrived
      BY <1>3, HandlerKinds DEF Deny
    <2> QED BY <1>2, <2>1, <2>2
  <1>4. ASSUME NEW c \in Clients, NEW s \in Slots[c], NEW l, Admit(c, s, l) PROVE \A d \in Clients : Explained(d)'
    <2> DEFINE g == [handler[c][s] EXCEPT !.pc = "cap"]
    <2>1. rows' = rows /\ acked' = acked /\ limits' = limits
      BY <1>4 DEF Admit
    <2>2. /\ handler[c][s] \in Arrived
          /\ \/ Refused(c, s)
             \/ Moves(c, s, g) /\ client' = client /\ g \in Arrived /\ g.pc = "cap" /\ g.u = handler[c][s].u
      BY <1>4, AdmitMoves
    <2>3. CASE Refused(c, s)
      BY <1>2, <2>1, <2>2, <2>3
    <2>4. CASE Moves(c, s, g) /\ client' = client /\ g \in Arrived /\ g.pc = "cap" /\ g.u = handler[c][s].u
      <3> HIDE DEF g
      <3>1. \A x \in Items(c) : Will(handler[c][s], x) <=> Will(g, x)
        BY <2>2, <2>4 DEF Will, Arrived
      <3> QED BY <2>1, <2>4, <3>1, ExplainedSame
    <2> QED BY <2>2, <2>3, <2>4
  <1>5. ASSUME NEW c \in Clients, NEW s \in Slots[c], NEW l, ReadCap(c, s, l) PROVE \A d \in Clients : Explained(d)'
    <2> DEFINE g == [pc |-> "store", u |-> handler[c][s].u, accepted |-> InSkew(handler[c][s].end),
                     cap |-> l.cap, i |-> 1, rejected |-> 0]
    <2>1. rows' = rows /\ acked' = acked
      BY <1>5 DEF ReadCap
    <2>2. handler[c][s] \in Arrived /\ Moves(c, s, g) /\ client' = client
      BY <1>5, ReadCapMoves
    <2>3. g.pc = "store" /\ g.u = handler[c][s].u /\ g.i = 1
      OBVIOUS
    <2> HIDE DEF g
    <2>4. ASSUME NEW x \in Items(c) PROVE Will(handler[c][s], x) <=> Will(g, x)
      <3>1. x[2] \in Nat
        BY ItemsOf, UploadTypes
      <3>2. handler[c][s].pc # "none" /\ handler[c][s].pc # "store"
        BY <2>2 DEF Arrived
      <3>3. x[2] # 0 => 1 <= x[2]
        BY <3>1
      <3> QED BY <2>3, <3>2, <3>3 DEF Will
    <2> QED BY <2>1, <2>2, <2>4, ExplainedSame
  <1>6. ASSUME NEW c \in Clients, NEW s \in Slots[c], Send(c, s) PROVE \A d \in Clients : Explained(d)'
    BY <1>6, SendExplained
  <1>7. ASSUME NEW c \in Clients, NEW s \in Slots[c], StoreSummary(c, s) PROVE \A d \in Clients : Explained(d)'
    BY <1>7, StoreSummaryExplained
  <1>8. ASSUME NEW c \in Clients, NEW s \in Slots[c], Answer(c, s) PROVE \A d \in Clients : Explained(d)'
    BY <1>8, AnswerExplained
  <1>9. ASSUME NEW c \in Clients, GiveUp(c) PROVE \A d \in Clients : Explained(d)'
    BY <1>9, GiveUpExplained
  <1> QED BY <1>1, <1>3, <1>4, <1>5, <1>6, <1>7, <1>8, <1>9
          DEF IngestNext, Step, ChangeLimits, SinkCloses, ingestVars, allVars

(* What is explained is within one copy per attempt. *)
LEMMA ExplainedBounds ==
    ASSUME Flow, \A c \in Clients : Explained(c)
    PROVE  CopiesExplained
  <1> SUFFICES ASSUME NEW c \in Clients, NEW x \in Items(c)
               PROVE  rows[c][x] <= 1 + (IF x[1] <= Len(acked[c]) THEN acked[c][x[1]].gaveUp
                                         ELSE IF x[1] = client[c].head THEN client[c].gaveUp ELSE 0)
    BY DEF CopiesExplained
  <1>1. rows[c][x] + Cardinality(OpenIn(handler[c], c, x)) <= Attempts(c, x[1])
    BY DEF Explained
  <1>2. x[1] \in Nat \ {0}
    BY ItemsOf, UploadTypes
  <1>3. Cardinality(OpenIn(handler[c], c, x)) \in Nat /\ rows[c][x] \in Nat /\ Attempts(c, x[1]) \in Nat
    BY <1>2, OpenFinite, AttemptsNat DEF Flow
  <1>4. rows[c][x] <= Attempts(c, x[1])
    BY <1>1, <1>3, SMTT(30)
  <1>5. client[c].head \in Nat /\ Len(acked[c]) = client[c].head - 1 /\ client[c].gaveUp \in Nat
    BY DEF Flow, Calls, Clients0
  <1> QED BY <1>2, <1>3, <1>4, <1>5, SMTT(30) DEF Attempts

(* No row is stored more often than its upload was tried: one copy for the *)
(* answer taken, and one for each attempt the client gave up on while the  *)
(* handler went on, for any uploads, handlers and faults.                  *)
THEOREM CopiesAreExplained == IngestSpec => []CopiesExplained
  <1> DEFINE I == \A c \in Clients : Explained(c)
  <1>1. Flow /\ I => CopiesExplained
    BY ExplainedBounds
  <1>2. IngestInit => I
    <2> SUFFICES ASSUME IngestInit, NEW c \in Clients, NEW x \in Items(c)
                 PROVE  rows[c][x] + Cardinality(OpenIn(handler[c], c, x)) <= Attempts(c, x[1])
      BY DEF Explained
    <2>1. rows[c][x] = 0 /\ client[c].head = 1 /\ client[c].waiting = 0 /\ client[c].gaveUp = 0
      BY DEF IngestInit
    <2>2. \A s \in Slots[c] : handler[c][s] = NoHandler
      BY DEF IngestInit
    <2>3. OpenIn(handler[c], c, x) = {}
      BY <2>2 DEF OpenIn, Will, NoHandler
    <2>4. Cardinality(OpenIn(handler[c], c, x)) = 0
      BY <2>3, FS_EmptySet, Zenon
    <2>5. x[1] \in Nat \ {0}
      BY ItemsOf, UploadTypes
    <2>6. Attempts(c, x[1]) = 0
      BY <2>1, <2>5 DEF Attempts
    <2> QED BY <2>1, <2>4, <2>6
  <1>3. Guard /\ Flow /\ I /\ [IngestNext]_allVars => I'
    BY ExplainedKept
  <1> HIDE DEF I
  <1> QED BY <1>1, <1>2, <1>3, IngestBase, PTL DEF IngestSpec
=============================================================================
