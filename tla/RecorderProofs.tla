--------------------------- MODULE RecorderProofs ---------------------------
(* Proofs about the Recorder for every number of requests, series, shards, *)
(* ring slots and Shutdown calls, when the host does not run two Shutdown  *)
(* calls at a time.  The invariant is built in layers, each inductive      *)
(* relative to the ones below it: who owns the ring (Base), the timers,    *)
(* the dropped counter, where each observation is, and what a graceful     *)
(* Shutdown has emptied.                                                   *)
EXTENDS Recorder, TLAPS, FiniteSetTheorems

LoopLabels   == {"register", "select", "swap", "upload", "exited"}
CallerLabels == {"idle", "wait", "swap", "drain", "upload", "pause", "shipped", "expired"}

(* The ring has one owner: the uploader until it exits, then the one       *)
(* Shutdown call in progress.                                              *)
Control ==
    /\ pc[Loop] \in LoopLabels
    /\ \A c \in Callers : pc[c] \in CallerLabels
    /\ pc[Loop] # "exited" => \A c \in Callers : pc[c] \in {"idle", "wait"}
    /\ \A c, d \in Callers : InShutdown(c) /\ InShutdown(d) => c = d

(* What is being sent is still the oldest entry, with the counter as it    *)
(* was stamped.                                                            *)
Uploading ==
    \A a \in Agents : pc[a] = "upload" =>
        ring # <<>> /\ req[a] = Head(ring) /\ stamped[a] = dropped

Base == TypeOK /\ Control /\ Uploading

(* The number of summaries of a window is a number: there are finitely     *)
(* many series.                                                            *)
LEMMA NumSummariesNat == ASSUME NEW w \in SUBSET Obs PROVE NumSummaries(w) \in Nat
  <1>1. {SeriesOf[o] : o \in w} \subseteq Series
    BY RecorderAssumption
  <1>2. IsFiniteSet({SeriesOf[o] : o \in w})
    BY <1>1, FS_Subset, RecorderAssumption
  <1> QED BY <1>2, FS_CardinalityType DEF NumSummaries

(* nextBackoff stays between the base and the ceiling. *)
LEMMA NextBackoffRange ==
    ASSUME NEW b \in BaseBackoff..MaxBackoff
    PROVE  NextBackoff(b) \in BaseBackoff..MaxBackoff
  BY RecorderAssumption DEF NextBackoff

(* At most one goroutine is between swapping shards and popping the ring. *)
LEMMA SoleOwner ==
    ASSUME Control, NEW a \in Agents, NEW b \in Agents,
           pc[a] \in {"swap", "drain", "upload", "pause"},
           pc[b] \in {"swap", "drain", "upload", "pause"}
    PROVE  a = b
  BY RecorderAssumption DEF Control, Agents, InShutdown, LoopLabels, CallerLabels

(* What PopOldest and the two ways of appending do to a pending queue. *)
LEMMA RingTail ==
    ASSUME NEW s \in Seq(SUBSET Obs), s # <<>>
    PROVE  /\ Tail(s) \in Seq(SUBSET Obs) /\ Len(Tail(s)) = Len(s) - 1
           /\ Head(s) \in SUBSET Obs /\ Len(s) > 0
           /\ \A i \in 1..Len(Tail(s)) : Tail(s)[i] = s[i + 1]
           /\ Head(s) = s[1]
  OBVIOUS

(* Appending a window keeps the older entries in their places. *)
LEMMA RingAppend ==
    ASSUME NEW s \in Seq(SUBSET Obs), NEW w \in SUBSET Obs
    PROVE  /\ Append(s, w) \in Seq(SUBSET Obs) /\ Len(Append(s, w)) = Len(s) + 1
           /\ \A i \in 1..Len(s) : Append(s, w)[i] = s[i]
           /\ Append(s, w)[Len(s) + 1] = w
           /\ Append(s, w) # <<>>
  OBVIOUS

(* A queue of length zero is the empty queue. *)
LEMMA RingEmpty ==
    ASSUME NEW s \in Seq(SUBSET Obs)
    PROVE  s = <<>> <=> Len(s) = 0
  OBVIOUS

(* A new Recorder satisfies the types and has one owner of its ring. *)
LEMMA BaseInit == Init => Base
  <1> SUFFICES ASSUME Init PROVE Base
    OBVIOUS
  <1> USE RecorderAssumption
  <1>1. TypeOK
    <2>1. ring \in Seq(SUBSET Obs) /\ Len(ring) <= Cap
      BY DEF Init
    <2>2. /\ pc \in [Agents -> PcLabels] /\ next \in [Agents -> 1..(NumShards + 1)]
          /\ window \in [Agents -> SUBSET Obs] /\ req \in [Agents -> SUBSET Obs]
          /\ stamped \in [Agents -> Nat]
      BY DEF Init, PcLabels
    <2>3. retry \in {Stopped} \cup 0..MaxBackoff /\ backoff \in BaseBackoff..MaxBackoff
      BY DEF Init
    <2> QED BY <2>1, <2>2, <2>3 DEF Init, TypeOK
  <1>2. Control
    BY DEF Init, Control, Agents, LoopLabels, CallerLabels, InShutdown
  <1>3. Uploading
    BY DEF Init, Uploading
  <1> QED BY <1>1, <1>2, <1>3 DEF Base

(* Push keeps the ring within its capacity and the counters numbers. *)
LEMMA PushType ==
    ASSUME TypeOK, NEW w \in SUBSET Obs, Push(w)
    PROVE  /\ ring' \in Seq(SUBSET Obs) /\ Len(ring') <= Cap
           /\ dropped' \in Nat /\ evictedSums' \in Nat /\ evicted' \subseteq Obs
           /\ ring' # <<>>
           /\ Len(ring') = 1 => ring = <<>>
  <1> USE RecorderAssumption
  <1>1. CASE Len(ring) = Cap
    <2>1. ring # <<>> /\ ring \in Seq(SUBSET Obs)
      BY <1>1 DEF TypeOK
    <2>2. /\ Tail(ring) \in Seq(SUBSET Obs) /\ Len(Tail(ring)) = Cap - 1
          /\ Head(ring) \in SUBSET Obs
      BY <1>1, <2>1, RingTail
    <2>3. NumSummaries(Head(ring)) \in Nat
      BY <2>2, NumSummariesNat
    <2>4. /\ ring' = Append(Tail(ring), w) /\ evicted' = evicted \cup Head(ring)
          /\ evictedSums' = evictedSums + NumSummaries(Head(ring))
          /\ dropped' = dropped + NumSummaries(Head(ring))
      BY <1>1 DEF Push, CountDropped
    <2>5. ring' \in Seq(SUBSET Obs) /\ Len(ring') = Cap /\ ring' # <<>>
      <3> DEFINE t == Tail(ring)
      <3>1. t \in Seq(SUBSET Obs) /\ Len(t) = Cap - 1 /\ ring' = Append(t, w)
        BY <2>2, <2>4
      <3> HIDE DEF t
      <3>2. ring' \in Seq(SUBSET Obs) /\ Len(ring') = Len(t) + 1 /\ ring' # <<>>
        BY <3>1, RingAppend
      <3> QED BY <3>1, <3>2
    <2> QED BY <2>2, <2>3, <2>4, <2>5 DEF TypeOK
  <1>2. CASE Len(ring) # Cap
    <2>1. /\ ring' = Append(ring, w) /\ dropped' = dropped /\ evicted' = evicted
          /\ evictedSums' = evictedSums
      BY <1>2 DEF Push
    <2>2. ring' \in Seq(SUBSET Obs) /\ Len(ring') = Len(ring) + 1 /\ ring' # <<>>
      BY <2>1, RingAppend DEF TypeOK
    <2>3. Len(ring') = 1 => ring = <<>>
      BY <2>2, RingEmpty DEF TypeOK
    <2> QED BY <1>2, <2>1, <2>2, <2>3 DEF TypeOK
  <1> QED BY <1>1, <1>2

(* Every step keeps the ring with its owner. *)
LEMMA BaseNext == SerialShutdowns /\ Base /\ [Next]_vars => Base'
  <1> SUFFICES ASSUME SerialShutdowns, Base, [Next]_vars PROVE Base'
    OBVIOUS
  <1> USE RecorderAssumption DEF ringVars, timerVars, ghostVars, lifeVars, localVars
  <1>1. ASSUME NEW o \in Obs, ObserveEnter(o) PROVE Base'
    <2>1. TypeOK'
      BY <1>1 DEF ObserveEnter, Base, TypeOK, Agents, PcLabels, Stopped
    <2>2. Control'
      BY <1>1 DEF ObserveEnter, Base, Control, TypeOK, Agents, InShutdown, LoopLabels, CallerLabels
    <2>3. Uploading'
      BY <1>1 DEF ObserveEnter, Base, Uploading, TypeOK, Agents
    <2> QED BY <2>1, <2>2, <2>3 DEF Base
  <1>2. ASSUME NEW o \in Obs, ObserveRecord(o) PROVE Base'
    <2>1. TypeOK'
      BY <1>2 DEF ObserveRecord, Base, TypeOK, Agents, PcLabels, Stopped
    <2>2. Control'
      BY <1>2 DEF ObserveRecord, Base, Control, TypeOK, Agents, InShutdown, LoopLabels, CallerLabels
    <2>3. Uploading'
      BY <1>2 DEF ObserveRecord, Base, Uploading, TypeOK, Agents
    <2> QED BY <2>1, <2>2, <2>3 DEF Base
  <1>3. CASE FlushTick
    <2>1. TypeOK'
      BY <1>3 DEF FlushTick, Base, TypeOK, Agents, PcLabels, Stopped
    <2>2. Control'
      BY <1>3 DEF FlushTick, Base, Control, TypeOK, Agents, InShutdown, LoopLabels, CallerLabels
    <2>3. Uploading'
      BY <1>3 DEF FlushTick, Base, Uploading, TypeOK, Agents
    <2> QED BY <2>1, <2>2, <2>3 DEF Base
  <1>4. CASE Register
    <2>1. TypeOK'
      BY <1>4 DEF Register, Goto, Base, TypeOK, Agents, PcLabels, Stopped
    <2>2. Control'
      BY <1>4 DEF Register, Goto, Base, Control, TypeOK, Agents, InShutdown, LoopLabels, CallerLabels
    <2>3. Uploading'
      BY <1>4 DEF Register, Goto, Base, Uploading, TypeOK, Agents
    <2> QED BY <2>1, <2>2, <2>3 DEF Base
  <1>5. CASE SelectFlush
    <2>1. TypeOK'
      BY <1>5 DEF SelectFlush, BeginFlush, Goto, Base, TypeOK, Agents, PcLabels, Stopped
    <2>2. Control'
      BY <1>5 DEF SelectFlush, BeginFlush, Goto, Base, Control, TypeOK, Agents, InShutdown, LoopLabels, CallerLabels
    <2>3. Uploading'
      BY <1>5 DEF SelectFlush, BeginFlush, Goto, Base, Uploading, TypeOK, Agents
    <2> QED BY <2>1, <2>2, <2>3 DEF Base
  <1>6. CASE SelectStop
    <2>1. TypeOK'
      BY <1>6 DEF SelectStop, LoopExit, Goto, Base, TypeOK, Agents, PcLabels, Stopped
    <2>2. Control'
      BY <1>6 DEF SelectStop, LoopExit, Goto, Base, Control, TypeOK, Agents, InShutdown, LoopLabels, CallerLabels
    <2>3. Uploading'
      BY <1>6 DEF SelectStop, LoopExit, Goto, Base, Uploading, TypeOK, Agents
    <2> QED BY <2>1, <2>2, <2>3 DEF Base
  <1>7. CASE SelectRetry
    <2>1. TypeOK'
      BY <1>7 DEF SelectRetry, BeginUpload, Goto, Base, TypeOK, Agents, PcLabels, Stopped
    <2>2. Control'
      <3>1. pc[Loop] = "select" /\ (pc' = pc \/ pc' = [pc EXCEPT ![Loop] = "upload"])
        BY <1>7 DEF SelectRetry, BeginUpload, Goto
      <3>2. CASE pc' = pc
        BY <3>2 DEF Base, Control, InShutdown
      <3>3. CASE pc' = [pc EXCEPT ![Loop] = "upload"]
        BY <3>1, <3>3 DEF Base, Control, TypeOK, Agents, InShutdown, LoopLabels, CallerLabels
      <3> QED BY <3>1, <3>2, <3>3
    <2>3. Uploading'
      BY <1>7 DEF SelectRetry, BeginUpload, Goto, Base, Uploading, TypeOK, Agents
    <2> QED BY <2>1, <2>2, <2>3 DEF Base
  <1>8. CASE LoopPanic
    <2>1. TypeOK'
      BY <1>8 DEF LoopPanic, LoopExit, Goto, Base, TypeOK, Agents, PcLabels, Stopped
    <2>2. Control'
      BY <1>8 DEF LoopPanic, LoopExit, Goto, Base, Control, TypeOK, Agents, InShutdown, LoopLabels, CallerLabels
    <2>3. Uploading'
      BY <1>8 DEF LoopPanic, LoopExit, Goto, Base, Uploading, TypeOK, Agents
    <2> QED BY <2>1, <2>2, <2>3 DEF Base
  <1>9. ASSUME NEW a \in Agents, SwapShard(a) PROVE Base'
    <2>1. TypeOK'
      BY <1>9 DEF SwapShard, Replaced, ShardMap, Base, TypeOK, Agents, PcLabels, Stopped
    <2>2. Control'
      BY <1>9 DEF SwapShard, Replaced, ShardMap, Base, Control, TypeOK, Agents, InShutdown, LoopLabels, CallerLabels
    <2>3. Uploading'
      BY <1>9 DEF SwapShard, Replaced, ShardMap, Base, Uploading, TypeOK, Agents
    <2> QED BY <2>1, <2>2, <2>3 DEF Base
  <1>10. ASSUME NEW a \in Agents, EndFlush(a) PROVE Base'
    <2>0. /\ pc' = [pc EXCEPT ![a] = IF a = Loop THEN "select" ELSE "drain"]
          /\ pc[a] = "swap"
      BY <1>10 DEF EndFlush, Goto
    <2>1. TypeOK'
      <3>1. /\ ring' \in Seq(SUBSET Obs) /\ Len(ring') <= Cap /\ evicted' \subseteq Obs
            /\ dropped' \in Nat /\ evictedSums' \in Nat
        <4>1. CASE window[a] = {}
          BY <1>10, <4>1 DEF EndFlush, Base, TypeOK
        <4>2. CASE window[a] # {}
          BY <1>10, <4>2, PushType DEF EndFlush, Base, TypeOK
        <4> QED BY <4>1, <4>2
      <3>2. flushTimer' \in {"armed", "due", "idle"} /\ retry' \in {Stopped} \cup 0..MaxBackoff
        BY <1>10 DEF EndFlush, Base, TypeOK, Kick
      <3>3. pc' \in [Agents -> PcLabels] /\ window' \in [Agents -> SUBSET Obs]
        BY <1>10, <2>0 DEF EndFlush, Base, TypeOK, PcLabels
      <3> QED BY <1>10, <3>1, <3>2, <3>3 DEF EndFlush, Base, TypeOK
    <2>2. Control'
      BY <2>0 DEF Base, Control, TypeOK, Agents, InShutdown, LoopLabels, CallerLabels
    <2>3. Uploading'
      BY <2>0, SoleOwner DEF Base, Uploading, TypeOK
    <2> QED BY <2>1, <2>2, <2>3 DEF Base
  <1>11. ASSUME NEW a \in Agents, UploadOk(a) PROVE Base'
    <2>0. /\ pc' = [pc EXCEPT ![a] = IF a = Loop THEN "select" ELSE "drain"]
          /\ pc[a] = "upload"
      BY <1>11 DEF UploadOk, Goto
    <2>1. TypeOK'
      <3>1. ring # <<>> /\ ring' = Tail(ring) /\ dropped' = 0
        BY <1>11, <2>0 DEF UploadOk, PopOldest, Base, Uploading, TypeOK
      <3>2. ring' \in Seq(SUBSET Obs) /\ Len(ring') <= Cap
        BY <3>1, RingTail DEF Base, TypeOK
      <3>3. /\ backoff' \in BaseBackoff..MaxBackoff /\ failedLast' \in BOOLEAN
            /\ retry' \in {Stopped} \cup 0..MaxBackoff
        <4>1. backoff' \in BaseBackoff..MaxBackoff /\ retry' \in {Stopped} \cup 0..MaxBackoff
          BY <1>11, SMTT(30) DEF UploadOk, Rearm, Base, TypeOK
        <4>2. failedLast' \in BOOLEAN
          BY <1>11, Zenon DEF UploadOk, Base, TypeOK
        <4> QED BY <4>1, <4>2
      <3>4. pc' \in [Agents -> PcLabels] /\ req' \in [Agents -> SUBSET Obs]
        BY <1>11, <2>0 DEF UploadOk, Base, TypeOK, PcLabels
      <3>5. acked' \subseteq Obs /\ reportedSums' \in Nat
        BY <1>11 DEF UploadOk, Base, TypeOK
      <3>6. UNCHANGED <<opc, shards, collectorUp, evicted, evictedSums, flushTimer,
                        closed, stop, ctxDone, next, window, stamped>>
        BY <1>11 DEF UploadOk
      <3>7. dropped' \in Nat
        BY <3>1
      <3> QED BY <3>2, <3>3, <3>4, <3>5, <3>6, <3>7 DEF Base, TypeOK
    <2>2. Control'
      BY <2>0 DEF Base, Control, TypeOK, Agents, InShutdown, LoopLabels, CallerLabels
    <2>3. Uploading'
      BY <2>0, SoleOwner DEF Base, Uploading, TypeOK
    <2> QED BY <2>1, <2>2, <2>3 DEF Base
  <1>12. ASSUME NEW a \in Agents, UploadFail(a) PROVE Base'
    <2>0. /\ pc' = [pc EXCEPT ![a] = IF a = Loop THEN "select" ELSE "pause"]
          /\ pc[a] = "upload"
      BY <1>12 DEF UploadFail, Goto
    <2>1. TypeOK'
      <3>1. /\ backoff' \in BaseBackoff..MaxBackoff /\ failedLast' \in BOOLEAN
            /\ retry' \in {Stopped} \cup 0..MaxBackoff
        <4>1. backoff' \in BaseBackoff..MaxBackoff /\ retry' \in {Stopped} \cup 0..MaxBackoff
          <5>1. backoff \in 0..MaxBackoff /\ NextBackoff(backoff) \in BaseBackoff..MaxBackoff
            BY NextBackoffRange DEF Base, TypeOK
          <5>2. (backoff' = backoff /\ retry' = retry)
                  \/ (backoff' = NextBackoff(backoff) /\ retry' = backoff)
            BY <1>12 DEF UploadFail
          <5> QED BY <5>1, <5>2 DEF Base, TypeOK
        <4>2. failedLast' \in BOOLEAN
          BY <1>12, Zenon DEF UploadFail, Base, TypeOK
        <4> QED BY <4>1, <4>2
      <3>2. pc' \in [Agents -> PcLabels] /\ req' \in [Agents -> SUBSET Obs]
        BY <1>12, <2>0 DEF UploadFail, Base, TypeOK, PcLabels
      <3> QED BY <1>12, <3>1, <3>2 DEF UploadFail, Base, TypeOK
    <2>2. Control'
      BY <2>0 DEF Base, Control, TypeOK, Agents, InShutdown, LoopLabels, CallerLabels
    <2>3. Uploading'
      BY <2>0, SoleOwner DEF Base, Uploading, TypeOK
    <2> QED BY <2>1, <2>2, <2>3 DEF Base
  <1>13. ASSUME NEW c \in Callers, ShutdownCall(c) PROVE Base'
    <2>1. TypeOK'
      BY <1>13 DEF ShutdownCall, Goto, Base, TypeOK, Agents, PcLabels, Stopped
    <2>2. Control'
      BY <1>13 DEF ShutdownCall, Goto, Base, Control, TypeOK, Agents, InShutdown, LoopLabels, CallerLabels
    <2>3. Uploading'
      BY <1>13 DEF ShutdownCall, Goto, Base, Uploading, TypeOK, Agents
    <2> QED BY <2>1, <2>2, <2>3 DEF Base
  <1>14. ASSUME NEW c \in Callers, ShutdownClose(c) PROVE Base'
    <2>1. TypeOK'
      BY <1>14 DEF ShutdownClose, BeginFlush, Goto, Base, TypeOK, Agents, PcLabels, Stopped
    <2>2. Control'
      BY <1>14 DEF ShutdownClose, BeginFlush, Goto, Base, Control, TypeOK, Agents, InShutdown, LoopLabels, CallerLabels
    <2>3. Uploading'
      BY <1>14 DEF ShutdownClose, BeginFlush, Goto, Base, Uploading, TypeOK, Agents
    <2> QED BY <2>1, <2>2, <2>3 DEF Base
  <1>15. ASSUME NEW c \in Callers, ShutdownDrain(c) PROVE Base'
    <2>1. TypeOK'
      BY <1>15 DEF ShutdownDrain, BeginUpload, Goto, Base, TypeOK, Agents, PcLabels, Stopped
    <2>2. Control'
      BY <1>15 DEF ShutdownDrain, BeginUpload, Goto, Base, Control, TypeOK, Agents, InShutdown, LoopLabels, CallerLabels
    <2>3. Uploading'
      BY <1>15 DEF ShutdownDrain, BeginUpload, Goto, Base, Uploading, TypeOK, Agents
    <2> QED BY <2>1, <2>2, <2>3 DEF Base
  <1>16. ASSUME NEW c \in Callers, ShutdownReturn(c) PROVE Base'
    <2>1. TypeOK'
      BY <1>16 DEF ShutdownReturn, Goto, Base, TypeOK, Agents, PcLabels, Stopped
    <2>2. Control'
      BY <1>16 DEF ShutdownReturn, Goto, Base, Control, TypeOK, Agents, InShutdown, LoopLabels, CallerLabels
    <2>3. Uploading'
      BY <1>16 DEF ShutdownReturn, Goto, Base, Uploading, TypeOK, Agents
    <2> QED BY <2>1, <2>2, <2>3 DEF Base
  <1>17. ASSUME NEW c \in Callers, ShutdownResume(c) PROVE Base'
    <2>1. TypeOK'
      BY <1>17 DEF ShutdownResume, Goto, Base, TypeOK, Agents, PcLabels, Stopped
    <2>2. Control'
      BY <1>17 DEF ShutdownResume, Goto, Base, Control, TypeOK, Agents, InShutdown, LoopLabels, CallerLabels
    <2>3. Uploading'
      BY <1>17 DEF ShutdownResume, Goto, Base, Uploading, TypeOK, Agents
    <2> QED BY <2>1, <2>2, <2>3 DEF Base
  <1>18. ASSUME NEW c \in Callers, CtxExpire(c) PROVE Base'
    <2>1. TypeOK'
      BY <1>18 DEF CtxExpire, Base, TypeOK, Agents, PcLabels, Stopped
    <2>2. Control'
      BY <1>18 DEF CtxExpire, Base, Control, TypeOK, Agents, InShutdown, LoopLabels, CallerLabels
    <2>3. Uploading'
      BY <1>18 DEF CtxExpire, Base, Uploading, TypeOK, Agents
    <2> QED BY <2>1, <2>2, <2>3 DEF Base
  <1>19. CASE CollectorFlips
    <2>1. TypeOK'
      BY <1>19 DEF CollectorFlips, Base, TypeOK, Agents, PcLabels, Stopped
    <2>2. Control'
      BY <1>19 DEF CollectorFlips, Base, Control, TypeOK, Agents, InShutdown, LoopLabels, CallerLabels
    <2>3. Uploading'
      BY <1>19 DEF CollectorFlips, Base, Uploading, TypeOK, Agents
    <2> QED BY <2>1, <2>2, <2>3 DEF Base
  <1>20. CASE UNCHANGED vars
    <2>1. TypeOK'
      BY <1>20 DEF vars, Base, TypeOK, Agents, PcLabels, Stopped
    <2>2. Control'
      BY <1>20 DEF vars, Base, Control, TypeOK, Agents, InShutdown, LoopLabels, CallerLabels
    <2>3. Uploading'
      BY <1>20 DEF vars, Base, Uploading, TypeOK, Agents
    <2> QED BY <2>1, <2>2, <2>3 DEF Base
  <1> QED BY <1>1, <1>2, <1>3, <1>4, <1>5, <1>6, <1>7, <1>8, <1>9, <1>10, <1>11, <1>12, <1>13, <1>14, <1>15, <1>16, <1>17, <1>18, <1>19, <1>20 DEF Next
-----------------------------------------------------------------------------
(* The timers.  Behind RetryArmedIffPending: the retry timer is stopped    *)
(* while an upload is in flight, and a failure leaves its upload pending.  *)
Timers ==
    /\ RetryArmedIffPending
    /\ BackoffRespected
    /\ pc[Loop] = "upload" => retry = Stopped
    /\ failedLast /\ pc[Loop] # "exited" => ring # <<>>

(* A new Recorder has nothing pending and its retry timer stopped. *)
LEMMA TimersInit == Init => Timers
  BY DEF Init, Timers, RetryArmedIffPending, BackoffRespected, Agents

(* run re-arms or stops the retry timer whenever the ring changes. *)
LEMMA TimersNext == SerialShutdowns /\ Base /\ Timers /\ [Next]_vars => Timers'
  <1> SUFFICES ASSUME Base, Timers, [Next]_vars PROVE Timers'
    OBVIOUS
  <1> USE RecorderAssumption
      DEF ringVars, timerVars, ghostVars, lifeVars, localVars, Stopped
  <1>0. CASE UNCHANGED <<ring, retry, backoff, failedLast>> /\ pc'[Loop] = pc[Loop]
    BY <1>0 DEF Timers, RetryArmedIffPending, BackoffRespected
  <1>1. ASSUME NEW o \in Obs, ObserveEnter(o) \/ ObserveRecord(o) PROVE Timers'
    BY <1>0, <1>1 DEF ObserveEnter, ObserveRecord
  <1>2. CASE FlushTick \/ CollectorFlips
    BY <1>0, <1>2 DEF FlushTick, CollectorFlips
  <1>3. CASE Register \/ SelectFlush
    <2>1. /\ UNCHANGED <<ring, retry, backoff, failedLast>>
          /\ pc[Loop] \in {"register", "select"} /\ pc'[Loop] \in {"select", "swap"}
      BY <1>3 DEF Register, SelectFlush, BeginFlush, Goto, Base, TypeOK, Agents
    <2> QED BY <2>1 DEF Timers, RetryArmedIffPending, BackoffRespected
  <1>4. CASE SelectStop \/ LoopPanic
    <2>1. UNCHANGED <<ring, retry, backoff, failedLast>> /\ pc'[Loop] = "exited"
      BY <1>4 DEF SelectStop, LoopPanic, LoopExit, Goto, Base, TypeOK, Agents
    <2> QED BY <2>1 DEF Timers, RetryArmedIffPending, BackoffRespected
  <1>5. CASE SelectRetry
    <2>1. pc[Loop] = "select" /\ ring # <<>>
      BY <1>5 DEF SelectRetry, Timers, RetryArmedIffPending
    <2>2. UNCHANGED <<ring, backoff, failedLast>> /\ retry' = Stopped /\ pc'[Loop] = "upload"
      BY <1>5, <2>1 DEF SelectRetry, BeginUpload, Goto, Base, TypeOK, Agents
    <2> QED BY <2>1, <2>2 DEF Timers, RetryArmedIffPending, BackoffRespected
  <1>6. ASSUME NEW a \in Agents, SwapShard(a) PROVE Timers'
    BY <1>0, <1>6 DEF SwapShard
  <1>7. ASSUME NEW c \in Callers,
               ShutdownCall(c) \/ ShutdownClose(c) \/ ShutdownDrain(c)
                 \/ ShutdownReturn(c) \/ ShutdownResume(c) \/ CtxExpire(c)
        PROVE  Timers'
    <2>1. UNCHANGED <<ring, retry, backoff, failedLast>> /\ pc'[Loop] = pc[Loop]
      BY <1>7 DEF ShutdownCall, ShutdownClose, ShutdownDrain, ShutdownReturn, ShutdownResume,
                  CtxExpire, BeginFlush, BeginUpload, Goto, Base, TypeOK, Agents
    <2> QED BY <1>0, <2>1
  <1>8. ASSUME NEW a \in Callers, EndFlush(a) \/ UploadOk(a) \/ UploadFail(a) PROVE Timers'
    <2>1. a # Loop /\ a \in Agents
      BY DEF Agents
    <2>2. UNCHANGED <<retry, backoff, failedLast>> /\ pc'[Loop] = pc[Loop] /\ pc[a] \notin {"idle", "wait"}
      BY <1>8, <2>1 DEF EndFlush, UploadOk, UploadFail, Goto, Base, TypeOK, Agents
    <2>3. pc[Loop] = "exited"
      BY <2>2 DEF Base, Control
    <2> QED BY <2>2, <2>3 DEF Timers, RetryArmedIffPending, BackoffRespected
  <1>9. CASE EndFlush(Loop)
    <2>1. pc[Loop] = "swap" /\ pc'[Loop] = "select" /\ UNCHANGED <<backoff, failedLast>>
          /\ retry' = Kick(window[Loop] # {})
      BY <1>9 DEF EndFlush, Goto, Base, TypeOK, Agents
    <2>2. CASE window[Loop] = {}
      <3>1. UNCHANGED <<ring, retry>>
        BY <1>9, <2>1, <2>2 DEF EndFlush, Kick
      <3> QED BY <2>1, <3>1 DEF Timers, RetryArmedIffPending, BackoffRespected
    <2>3. CASE window[Loop] # {}
      <3>1. ring' # <<>> /\ (Len(ring') = 1 => ring = <<>>)
        BY <1>9, <2>3, PushType DEF EndFlush, Base, TypeOK, Agents
      <3>2. (retry' = 0 /\ ring = <<>>) \/ (retry' = retry /\ Len(ring') # 1)
        <4>1. retry' = IF Len(ring') = 1 THEN 0 ELSE retry
          BY <1>9, <2>3 DEF EndFlush, Kick
        <4>2. CASE Len(ring') = 1
          BY <3>1, <4>1, <4>2
        <4>3. CASE Len(ring') # 1
          BY <4>1, <4>3
        <4> QED BY <4>2, <4>3
      <3>3. ring = <<>> => Len(ring') = 1
        BY <1>9, <2>3, RingAppend DEF EndFlush, Push, Base, TypeOK, Agents
      <3>4. RetryArmedIffPending'
        BY <2>1, <3>1, <3>2, <3>3 DEF Timers, RetryArmedIffPending
      <3>5. BackoffRespected'
        BY <2>1, <3>1, <3>2, <3>3 DEF Timers, RetryArmedIffPending, BackoffRespected
      <3> QED BY <2>1, <3>1, <3>4, <3>5 DEF Timers
    <2> QED BY <2>2, <2>3
  <1>10. CASE UploadOk(Loop)
    <2>1. /\ pc[Loop] = "upload" /\ pc'[Loop] = "select" /\ failedLast' = FALSE
          /\ retry' = IF ring' # <<>> THEN 0 ELSE retry
      BY <1>10 DEF UploadOk, Rearm, Goto, Base, TypeOK, Agents
    <2> QED BY <2>1 DEF Timers, RetryArmedIffPending, BackoffRespected
  <1>11. CASE UploadFail(Loop)
    <2>1. /\ pc[Loop] = "upload" /\ pc'[Loop] = "select" /\ ring' = ring
          /\ retry' = backoff /\ backoff' = NextBackoff(backoff)
      BY <1>11 DEF UploadFail, Goto, Base, TypeOK, Agents
    <2>2. ring # <<>> /\ backoff \in Nat \ {0}
      BY <2>1 DEF Base, Uploading, TypeOK, Agents
    <2>3. retry' \in Nat \ {0} /\ retry' # Stopped
      BY <2>1, <2>2 DEF Stopped
    <2>4. RetryArmedIffPending'
      BY <2>1, <2>2, <2>3 DEF RetryArmedIffPending
    <2>5. BackoffRespected'
      BY <2>1, <2>2, <2>3 DEF BackoffRespected, NextBackoff
    <2> QED BY <2>1, <2>2, <2>4, <2>5 DEF Timers
  <1>12. CASE UNCHANGED vars
    BY <1>0, <1>12 DEF vars
  <1> QED BY <1>1, <1>2, <1>3, <1>4, <1>5, <1>6, <1>7, <1>8, <1>9, <1>10, <1>11, <1>12
          DEF Next, Agents
-----------------------------------------------------------------------------
(* The dropped counter: evictions are either reported or still counted. *)
Counted == evictedSums = dropped + reportedSums

(* An eviction is counted when it happens and subtracted when it is reported. *)
LEMMA CountedNext == SerialShutdowns /\ Base /\ Counted /\ [Next]_vars => Counted'
  <1> SUFFICES ASSUME Base, Counted, [Next]_vars PROVE Counted'
    OBVIOUS
  <1> USE RecorderAssumption DEF ringVars, timerVars, ghostVars, lifeVars
  <1>0. CASE UNCHANGED <<evictedSums, dropped, reportedSums>>
    BY <1>0 DEF Counted
  <1>1. ASSUME NEW a \in Agents, EndFlush(a) PROVE Counted'
    <2>1. CASE UNCHANGED ringVars
      BY <1>0, <1>1, <2>1 DEF EndFlush
    <2>2. CASE Push(window[a]) /\ Len(ring) = Cap
      <3>1. ring # <<>>
        BY <2>2 DEF Base, TypeOK
      <3>2. NumSummaries(Head(ring)) \in Nat
        BY <3>1, RingTail, NumSummariesNat DEF Base, TypeOK
      <3> QED BY <1>1, <2>2, <3>2 DEF EndFlush, Push, CountDropped, Counted, Base, TypeOK
    <2>3. CASE Push(window[a]) /\ Len(ring) # Cap
      BY <1>0, <1>1, <2>3 DEF EndFlush, Push
    <2> QED BY <1>1, <2>1, <2>2, <2>3 DEF EndFlush
  <1>2. ASSUME NEW a \in Agents, UploadOk(a) PROVE Counted'
    BY <1>2 DEF UploadOk, Counted, Base, TypeOK
  <1>3. ASSUME NEW o \in Obs, ObserveEnter(o) \/ ObserveRecord(o) PROVE Counted'
    BY <1>0, <1>3 DEF ObserveEnter, ObserveRecord
  <1>4. ASSUME NEW a \in Agents, SwapShard(a) \/ UploadFail(a) PROVE Counted'
    BY <1>0, <1>4 DEF SwapShard, UploadFail
  <1>5. CASE FlushTick \/ Register \/ SelectFlush \/ SelectStop \/ SelectRetry
               \/ LoopPanic \/ CollectorFlips
    BY <1>0, <1>5 DEF FlushTick, Register, SelectFlush, SelectStop, SelectRetry, LoopPanic,
                      LoopExit, CollectorFlips
  <1>6. ASSUME NEW c \in Callers,
               ShutdownCall(c) \/ ShutdownClose(c) \/ ShutdownDrain(c)
                 \/ ShutdownReturn(c) \/ ShutdownResume(c) \/ CtxExpire(c)
        PROVE  Counted'
    BY <1>0, <1>6 DEF ShutdownCall, ShutdownClose, ShutdownDrain, ShutdownReturn,
                      ShutdownResume, CtxExpire
  <1>7. CASE UNCHANGED vars
    BY <1>0, <1>7 DEF vars
  <1> QED BY <1>1, <1>2, <1>3, <1>4, <1>5, <1>6, <1>7 DEF Next
-----------------------------------------------------------------------------
(* Where each observation is.  Behind Conservation: only a goroutine that  *)
(* is flushing holds a window (or the uploader that panicked with one).    *)
WindowsClear ==
    \A a \in Agents : window[a] # {} => pc[a] = "swap" \/ (a = Loop /\ pc[a] = "exited")

Placed == WindowsClear /\ Conservation

Un(s)   == UNION {s[i] : i \in 1..Len(s)}
Disj(s) == \A i, j \in 1..Len(s) : i # j => s[i] \cap s[j] = {}

(* Conservation's equations, over any five places. *)
Split(R, S, W, Q, A, E) ==
    /\ R = S \cup W \cup Q \cup A \cup E
    /\ S \cap (W \cup Q \cup A \cup E) = {}
    /\ W \cap (Q \cup A \cup E) = {}
    /\ Q \cap (A \cup E) = {}
    /\ A \cap E = {}

DisjointWindows == \A a, b \in Agents : a # b => window[a] \cap window[b] = {}

(* Conservation over the ring as a sequence: a partition, disjoint windows, disjoint entries. *)
LEMMA ConservationSplit ==
    Conservation <=> /\ Split(Recorded, shards, WindowObs, Un(ring), acked, evicted)
                     /\ DisjointWindows /\ Disj(ring)
  BY DEF Conservation, Split, Un, Disj, RingObs, DisjointWindows

(* Popping the oldest entry takes its observations, and only those. *)
LEMMA UnTail ==
    ASSUME NEW s \in Seq(SUBSET Obs), s # <<>>, Disj(s)
    PROVE  /\ Un(s) = Head(s) \cup Un(Tail(s))
           /\ Head(s) \cap Un(Tail(s)) = {}
           /\ Disj(Tail(s))
  <1> DEFINE t == Tail(s)
  <1>1. /\ Len(t) = Len(s) - 1 /\ Len(s) \in Nat \ {0} /\ Head(s) = s[1]
        /\ \A i \in 1..Len(t) : t[i] = s[i + 1]
    BY RingTail
  <1> HIDE DEF t
  <1>2. \A i \in 1..Len(t) : i + 1 \in 1..Len(s) /\ i + 1 # 1
    BY <1>1
  <1>3. Un(t) \subseteq Un(s) /\ Head(s) \subseteq Un(s)
    BY <1>1, <1>2 DEF Un
  <1>4. Un(s) \subseteq Head(s) \cup Un(t)
    <2> SUFFICES ASSUME NEW i \in 1..Len(s) PROVE s[i] \subseteq Head(s) \cup Un(t)
      BY DEF Un
    <2>1. CASE i = 1
      BY <1>1, <2>1
    <2>2. CASE i # 1
      <3>1. i - 1 \in 1..Len(t) /\ (i - 1) + 1 = i
        BY <1>1, <2>2
      <3> QED BY <1>1, <3>1 DEF Un
    <2> QED BY <2>1, <2>2
  <1>5. Head(s) \cap Un(t) = {}
    <2>1. \A i \in 1..Len(t) : s[1] \cap t[i] = {}
      BY <1>1, <1>2 DEF Disj
    <2> QED BY <1>1, <2>1 DEF Un
  <1>6. Disj(t)
    <2> SUFFICES ASSUME NEW i \in 1..Len(t), NEW j \in 1..Len(t), i # j
                 PROVE  t[i] \cap t[j] = {}
      BY DEF Disj
    <2>1. i + 1 # j + 1 /\ i + 1 \in 1..Len(s) /\ j + 1 \in 1..Len(s)
      BY <1>2
    <2> QED BY <1>1, <2>1 DEF Disj
  <1> QED BY <1>3, <1>4, <1>5, <1>6 DEF t

(* Appending a window adds its observations. *)
LEMMA UnAppend ==
    ASSUME NEW s \in Seq(SUBSET Obs), NEW w \in SUBSET Obs, Disj(s), w \cap Un(s) = {}
    PROVE  Un(Append(s, w)) = Un(s) \cup w /\ Disj(Append(s, w))
  <1> DEFINE t == Append(s, w)
  <1>1. /\ Len(t) = Len(s) + 1 /\ Len(s) \in Nat /\ t[Len(s) + 1] = w
        /\ \A i \in 1..Len(s) : t[i] = s[i]
    BY RingAppend
  <1> HIDE DEF t
  <1>2. \A i \in 1..Len(t) : i \in 1..Len(s) \/ i = Len(s) + 1
    BY <1>1
  <1>3. \A i \in 1..Len(s) : i \in 1..Len(t)
    BY <1>1
  <1>4. Len(s) + 1 \in 1..Len(t)
    BY <1>1
  <1>5. Un(t) = Un(s) \cup w
    BY <1>1, <1>2, <1>3, <1>4 DEF Un
  <1>6. \A i \in 1..Len(s) : w \cap s[i] = {}
    BY DEF Un
  <1>7. Disj(t)
    BY <1>1, <1>2, <1>6 DEF Disj
  <1> QED BY <1>5, <1>7 DEF t

(* Replacing one goroutine's window replaces its share of WindowObs. *)
LEMMA WindowReplace ==
    ASSUME window \in [Agents -> SUBSET Obs], NEW a \in Agents, NEW w \in SUBSET Obs,
           DisjointWindows, w \cap (WindowObs \ window[a]) = {},
           window' = [window EXCEPT ![a] = w]
    PROVE  WindowObs' = (WindowObs \ window[a]) \cup w /\ DisjointWindows'
  <1>1. \A b \in Agents : window'[b] = IF b = a THEN w ELSE window[b]
    OBVIOUS
  <1>2. \A b \in Agents : b # a => window[b] \cap window[a] = {} /\ window[b] \subseteq WindowObs
    BY DEF DisjointWindows, WindowObs
  <1>3. DisjointWindows'
    BY <1>1, <1>2 DEF DisjointWindows
  <1>4. WindowObs' \subseteq (WindowObs \ window[a]) \cup w
    BY <1>1, <1>2 DEF WindowObs
  <1>5. (WindowObs \ window[a]) \cup w \subseteq WindowObs'
    BY <1>1 DEF WindowObs
  <1> QED BY <1>3, <1>4, <1>5
(* Nothing is recorded at first. *)
LEMMA PlacedInit == Init => Placed
  <1> SUFFICES ASSUME Init PROVE Placed
    OBVIOUS
  <1>1. WindowsClear
    BY DEF Init, WindowsClear
  <1>2. /\ Recorded = {} /\ WindowObs = {} /\ RingObs = {} /\ Len(ring) = 0
        /\ \A a \in Agents : window[a] = {}
    BY DEF Init, Recorded, WindowObs, RingObs
  <1> QED BY <1>1, <1>2 DEF Init, Placed, Conservation

(* Every step moves an observation from one place to the next. *)
LEMMA PlacedNext == SerialShutdowns /\ Base /\ Placed /\ [Next]_vars => Placed'
  <1> SUFFICES ASSUME Base, Placed, [Next]_vars PROVE Placed'
    OBVIOUS
  <1> USE DEF ringVars, timerVars, ghostVars, lifeVars, localVars
  <1> DEFINE Here == Split(Recorded, shards, WindowObs, Un(ring), acked, evicted)
  <1>t. /\ window \in [Agents -> SUBSET Obs] /\ pc \in [Agents -> PcLabels]
        /\ ring \in Seq(SUBSET Obs) /\ Loop \in Agents /\ Callers \subseteq Agents
    BY DEF Base, TypeOK, Agents
  <1>h. Here /\ DisjointWindows /\ Disj(ring) /\ WindowsClear
    BY ConservationSplit DEF Placed
  <1>c. /\ Split(Recorded, shards, WindowObs, Un(ring), acked, evicted)'
        /\ DisjointWindows' /\ Disj(ring)' /\ WindowsClear'
        => Placed'
    BY ConservationSplit, PTL DEF Placed
  <1>0. ASSUME UNCHANGED <<opc, shards, window, ring, acked, evicted>>,
               \A a \in Agents : pc'[a] = pc[a] \/ window[a] = {} \/ (a = Loop /\ pc'[a] = "exited")
        PROVE  Placed'
    <2>1. WindowsClear'
      BY <1>0, <1>h DEF WindowsClear
    <2>2. Conservation'
      BY <1>0 DEF Placed, Conservation, Recorded, WindowObs, RingObs
    <2> QED BY <2>1, <2>2 DEF Placed
  <1>1. ASSUME NEW o \in Obs, ObserveEnter(o) PROVE Placed'
    <2>1. Recorded' = Recorded
      BY <1>1 DEF ObserveEnter, Recorded, Base, TypeOK
    <2>2. UNCHANGED <<shards, window, ring, acked, evicted, pc>>
      BY <1>1 DEF ObserveEnter
    <2>3. WindowsClear'
      BY <2>2, <1>h DEF WindowsClear
    <2>4. WindowObs' = WindowObs /\ RingObs' = RingObs
      BY <2>2 DEF WindowObs, RingObs
    <2>5. Conservation'
      BY <2>1, <2>2, <2>4, Zenon DEF Placed, Conservation
    <2> QED BY <2>3, <2>5 DEF Placed
  <1>2. ASSUME NEW o \in Obs, ObserveRecord(o) PROVE Placed'
    <2>1. o \notin Recorded /\ Recorded' = Recorded \cup {o}
      BY <1>2 DEF ObserveRecord, Recorded, Base, TypeOK
    <2>2. UNCHANGED <<window, ring, acked, evicted, pc>> /\ shards' = shards \cup {o}
      BY <1>2 DEF ObserveRecord
    <2>3. UNCHANGED <<WindowObs, Un(ring)>> /\ DisjointWindows' /\ Disj(ring)' /\ WindowsClear'
      BY <1>h, <2>2 DEF WindowObs, DisjointWindows, WindowsClear
    <2>4. Split(Recorded, shards, WindowObs, Un(ring), acked, evicted)'
      BY <1>h, <2>1, <2>2, <2>3 DEF Split
    <2> QED BY <1>c, <2>3, <2>4
  <1>3. ASSUME NEW a \in Agents, SwapShard(a) PROVE Placed'
    <2> DEFINE m == ShardMap(next[a])
    <2>1. m \subseteq shards /\ m \subseteq Obs
      BY DEF ShardMap, Base, TypeOK
    <2> HIDE DEF m
    <2>2. /\ shards' = shards \ m /\ window' = [window EXCEPT ![a] = window[a] \cup m]
          /\ UNCHANGED <<opc, ring, acked, evicted, pc>> /\ pc[a] = "swap"
      BY <1>3 DEF SwapShard, Replaced, m
    <2>3. (window[a] \cup m) \cap (WindowObs \ window[a]) = {} /\ window[a] \subseteq WindowObs
      BY <1>h, <2>1 DEF Split, WindowObs
    <2>4. WindowObs' = WindowObs \cup m /\ DisjointWindows'
      <3> DEFINE v == window[a] \cup m
      <3>1. v \in SUBSET Obs /\ v \cap (WindowObs \ window[a]) = {}
            /\ window' = [window EXCEPT ![a] = v]
        BY <1>t, <2>1, <2>2, <2>3
      <3> HIDE DEF v
      <3>2. WindowObs' = (WindowObs \ window[a]) \cup v /\ DisjointWindows'
        BY <1>t, <1>h, <3>1, WindowReplace
      <3> QED BY <2>3, <3>2 DEF v
    <2>5. Split(Recorded, shards, WindowObs, Un(ring), acked, evicted)'
      BY <1>h, <2>1, <2>2, <2>4 DEF Split, Recorded
    <2>6. WindowsClear' /\ Disj(ring)'
      BY <1>t, <1>h, <2>2 DEF WindowsClear
    <2> QED BY <1>c, <2>4, <2>5, <2>6
  <1>4. ASSUME NEW a \in Agents, EndFlush(a) PROVE Placed'
    <2> DEFINE w == window[a]
    <2>1. /\ window' = [window EXCEPT ![a] = {}] /\ UNCHANGED <<opc, shards, acked>>
          /\ \A b \in Agents : b # a => pc'[b] = pc[b]
      BY <1>4, <1>t DEF EndFlush, Goto
    <2>2. WindowObs' = WindowObs \ w /\ DisjointWindows' /\ w \subseteq WindowObs
      <3>1. w \subseteq WindowObs
        BY DEF WindowObs
      <3>2. {} \in SUBSET Obs /\ {} \cap (WindowObs \ window[a]) = {}
        OBVIOUS
      <3>3. WindowObs' = (WindowObs \ window[a]) \cup {} /\ DisjointWindows'
        BY <1>t, <1>h, <2>1, <3>2, WindowReplace
      <3> QED BY <3>1, <3>3
    <2>3. WindowsClear'
      BY <1>t, <1>h, <2>1 DEF WindowsClear
    <2>4. w \in SUBSET Obs /\ w \cap Un(ring) = {}
      BY <1>t, <1>h, <2>2 DEF Split
    <2>5. CASE UNCHANGED ringVars /\ w = {}
      <3>1. Split(Recorded, shards, WindowObs, Un(ring), acked, evicted)' /\ Disj(ring)'
        BY <1>h, <2>1, <2>2, <2>5 DEF Split, Recorded
      <3> QED BY <1>c, <2>2, <2>3, <3>1
    <2>6. CASE Push(w) /\ Len(ring) = Cap
      <3>1. ring # <<>>
        BY <2>6, RecorderAssumption DEF Base, TypeOK
      <3> DEFINE t == Tail(ring)
                 h == Head(ring)
      <3>2. /\ t \in Seq(SUBSET Obs) /\ Un(ring) = h \cup Un(t) /\ h \cap Un(t) = {}
            /\ Disj(t)
        BY <1>t, <1>h, <3>1, UnTail, RingTail
      <3>3. ring' = Append(t, w) /\ evicted' = evicted \cup h
        BY <2>6 DEF Push
      <3> HIDE DEF t, h
      <3>4. Un(ring') = Un(t) \cup w /\ Disj(ring')
        BY <2>4, <3>2, <3>3, UnAppend
      <3>5. Split(Recorded, shards, WindowObs, Un(ring), acked, evicted)'
        BY <1>h, <2>1, <2>2, <3>2, <3>3, <3>4 DEF Split, Recorded
      <3> QED BY <1>c, <2>2, <2>3, <3>4, <3>5
    <2>7. CASE Push(w) /\ Len(ring) # Cap
      <3>1. ring' = Append(ring, w) /\ evicted' = evicted
        BY <2>7 DEF Push
      <3>2. Un(ring') = Un(ring) \cup w /\ Disj(ring')
        BY <1>t, <1>h, <2>4, <3>1, UnAppend
      <3>3. Split(Recorded, shards, WindowObs, Un(ring), acked, evicted)'
        BY <1>h, <2>1, <2>2, <3>1, <3>2 DEF Split, Recorded
      <3> QED BY <1>c, <2>2, <2>3, <3>2, <3>3
    <2> QED BY <1>4, <2>5, <2>6, <2>7 DEF EndFlush
  <1>5. ASSUME NEW a \in Agents, UploadOk(a) PROVE Placed'
    <2>1. /\ pc[a] = "upload" /\ ring # <<>> /\ req[a] = Head(ring)
          /\ acked' = acked \cup Head(ring) /\ ring' = Tail(ring)
          /\ UNCHANGED <<opc, shards, window, evicted>>
          /\ \A b \in Agents : b # a => pc'[b] = pc[b]
      BY <1>5, <1>t DEF UploadOk, PopOldest, Goto, Base, Uploading
    <2>2. /\ Un(ring) = Head(ring) \cup Un(ring') /\ Head(ring) \cap Un(ring') = {}
          /\ Disj(ring')
      BY <1>t, <1>h, <2>1, UnTail
    <2>3. WindowObs' = WindowObs /\ DisjointWindows'
      BY <1>h, <2>1 DEF WindowObs, DisjointWindows
    <2>4. WindowsClear'
      <3>1. window[a] = {}
        BY <1>h, <2>1 DEF WindowsClear
      <3> QED BY <1>h, <2>1, <3>1 DEF WindowsClear
    <2>5. Split(Recorded, shards, WindowObs, Un(ring), acked, evicted)'
      BY <1>h, <2>1, <2>2, <2>3 DEF Split, Recorded
    <2> QED BY <1>c, <2>2, <2>3, <2>4, <2>5
  <1>6. ASSUME NEW a \in Agents, UploadFail(a) PROVE Placed'
    BY <1>0, <1>6, <1>t, <1>h DEF UploadFail, Goto, WindowsClear
  <1>7. CASE SelectFlush
    <2>1. window[Loop] = {}
      BY <1>7, <1>t, <1>h DEF SelectFlush, WindowsClear
    <2>2. window' = window
      BY <1>7, <1>t, <2>1 DEF SelectFlush, BeginFlush
    <2> QED BY <1>0, <1>7, <1>t, <2>1, <2>2 DEF SelectFlush, BeginFlush, Goto
  <1>8. ASSUME NEW c \in Callers, ShutdownClose(c) PROVE Placed'
    <2>1. window[c] = {}
      BY <1>8, <1>t, <1>h, RecorderAssumption DEF ShutdownClose, WindowsClear
    <2>2. window' = window
      BY <1>8, <1>t, <2>1 DEF ShutdownClose, BeginFlush
    <2> QED BY <1>0, <1>8, <1>t, <2>1, <2>2 DEF ShutdownClose, BeginFlush, Goto
  <1>9. CASE Register \/ SelectRetry
    <2>1. window[Loop] = {}
      BY <1>9, <1>t, <1>h DEF Register, SelectRetry, WindowsClear
    <2> QED BY <1>0, <1>9, <1>t, <2>1 DEF Register, SelectRetry, BeginUpload, Goto
  <1>10. CASE SelectStop \/ LoopPanic
    BY <1>0, <1>10, <1>t DEF SelectStop, LoopPanic, LoopExit, Goto
  <1>11. ASSUME NEW c \in Callers,
                ShutdownCall(c) \/ ShutdownDrain(c) \/ ShutdownReturn(c) \/ ShutdownResume(c)
         PROVE  Placed'
    <2>1. window[c] = {}
      BY <1>11, <1>t, <1>h, RecorderAssumption
         DEF ShutdownCall, ShutdownDrain, ShutdownReturn, ShutdownResume, WindowsClear
    <2> QED BY <1>0, <1>11, <1>t, <2>1
            DEF ShutdownCall, ShutdownDrain, ShutdownReturn, ShutdownResume, BeginUpload, Goto
  <1>12. CASE FlushTick \/ CollectorFlips \/ UNCHANGED vars
    BY <1>0, <1>12 DEF FlushTick, CollectorFlips, vars
  <1>13. ASSUME NEW c \in Callers, CtxExpire(c) PROVE Placed'
    BY <1>0, <1>13 DEF CtxExpire
  <1> QED BY <1>1, <1>2, <1>3, <1>4, <1>5, <1>6, <1>7, <1>8, <1>9, <1>10, <1>11, <1>12, <1>13
          DEF Next
-----------------------------------------------------------------------------
(* What a Shutdown after the host's own shutdown has emptied: once it is   *)
(* called nothing enters Observe, the shards behind its swap stay empty,   *)
(* and once it has returned nil the ring does too.                         *)
Emptied ==
    /\ \A c \in Callers : pc[c] # "idle" => \A o \in Obs : opc[o] # "entered"
    /\ \A c \in Callers : pc[c] = "swap" =>
            \A o \in shards : ShardOf[SeriesOf[o]] >= next[c]
    /\ \A c \in Callers : pc[c] \in {"drain", "upload", "pause", "shipped", "expired"} =>
            shards = {}
    /\ \A c \in Callers : pc[c] = "shipped" =>
            ring = <<>> /\ \A d \in Callers : window[d] = {}

(* No Shutdown has begun. *)
LEMMA EmptiedInit == Init => Emptied
  BY RecorderAssumption DEF Init, Emptied, Agents

(* Each stage of a graceful Shutdown keeps what the stages before it emptied. *)
LEMMA EmptiedNext ==
    SerialShutdowns /\ HostQuiesces /\ Base /\ Placed /\ Emptied /\ [Next]_vars => Emptied'
  <1> SUFFICES ASSUME SerialShutdowns, HostQuiesces, Base, Placed, Emptied, [Next]_vars
               PROVE  Emptied'
    OBVIOUS
  <1> USE DEF ringVars, timerVars, ghostVars, lifeVars, localVars
  <1>t. /\ window \in [Agents -> SUBSET Obs] /\ pc \in [Agents -> PcLabels]
        /\ next \in [Agents -> 1..(NumShards + 1)] /\ shards \subseteq Obs
        /\ Loop \in Agents /\ Callers \subseteq Agents /\ Loop \notin Callers
        /\ opc \in [Obs -> {"idle", "entered", "recorded", "refused"}]
    BY RecorderAssumption DEF Base, TypeOK, Agents
  <1>0. ASSUME UNCHANGED <<opc, shards, ring, window, next>>,
               \A c \in Callers : pc'[c] = pc[c]
        PROVE  Emptied'
    BY <1>0 DEF Emptied
  <1>1. ASSUME NEW o \in Obs, ObserveEnter(o) PROVE Emptied'
    <2>1. \A c \in Callers : pc[c] = "idle" /\ pc'[c] = "idle"
      BY <1>1 DEF ObserveEnter
    <2> QED BY <2>1 DEF Emptied
  <1>2. ASSUME NEW o \in Obs, ObserveRecord(o) PROVE Emptied'
    <2>1. \A c \in Callers : pc[c] = "idle" /\ pc'[c] = "idle"
      BY <1>2 DEF ObserveRecord, Emptied
    <2> QED BY <2>1 DEF Emptied
  <1>3. CASE FlushTick \/ CollectorFlips \/ UNCHANGED vars
    BY <1>0, <1>3 DEF FlushTick, CollectorFlips, vars
  <1>4. CASE Register \/ SelectStop \/ LoopPanic \/ SelectRetry
    BY <1>0, <1>4, <1>t
       DEF Register, SelectStop, LoopPanic, LoopExit, SelectRetry, BeginUpload, Goto
  <1>5. ASSUME pc[Loop] # "exited", UNCHANGED opc, \A c \in Callers : pc'[c] = pc[c]
        PROVE  Emptied'
    <2>1. \A c \in Callers : pc'[c] \in {"idle", "wait"}
      BY <1>5 DEF Base, Control
    <2> QED BY <1>5, <2>1 DEF Emptied
  <1>6. CASE SelectFlush
    BY <1>5, <1>6, <1>t DEF SelectFlush, BeginFlush, Goto
  <1>7. CASE SwapShard(Loop) \/ EndFlush(Loop) \/ UploadOk(Loop) \/ UploadFail(Loop)
    BY <1>5, <1>7, <1>t DEF SwapShard, EndFlush, UploadOk, UploadFail, Goto
  <1>8. ASSUME NEW c \in Callers, SwapShard(c) PROVE Emptied'
    <2>1. /\ pc[c] = "swap" /\ UNCHANGED <<opc, ring, pc>>
          /\ shards' = shards \ ShardMap(next[c])
          /\ window' = [window EXCEPT ![c] = window[c] \cup ShardMap(next[c])]
          /\ next' = [next EXCEPT ![c] = next[c] + 1]
      BY <1>8 DEF SwapShard, Replaced
    <2>2. \A d \in Callers : pc[d] = "swap" => d = c
      BY <2>1, <1>t, SoleOwner DEF Base
    <2>3. \A o \in shards' : ShardOf[SeriesOf[o]] >= next'[c]
      <3>1. next'[c] = next[c] + 1 /\ next[c] \in 1..(NumShards + 1)
        BY <1>t, <2>1
      <3>2. \A o \in shards' : /\ ShardOf[SeriesOf[o]] \in 1..NumShards
                               /\ ShardOf[SeriesOf[o]] # next[c]
                               /\ ShardOf[SeriesOf[o]] >= next[c]
        BY <1>t, <2>1, RecorderAssumption DEF ShardMap, Emptied
      <3> QED BY <3>1, <3>2, RecorderAssumption
    <2>4. ASSUME NEW d \in Callers, pc[d] = "shipped"
          PROVE  \A e \in Callers : window'[e] = {}
      <3>1. shards = {} /\ \A e \in Callers : window[e] = {}
        BY <2>4 DEF Emptied
      <3> QED BY <1>t, <2>1, <3>1 DEF ShardMap
    <2> QED BY <2>1, <2>2, <2>3, <2>4 DEF Emptied
  <1>9. ASSUME NEW c \in Callers, EndFlush(c) PROVE Emptied'
    <2>1. /\ pc[c] = "swap" /\ next[c] > NumShards /\ UNCHANGED <<opc, shards, next>>
          /\ pc' = [pc EXCEPT ![c] = "drain"] /\ window' = [window EXCEPT ![c] = {}]
          /\ window[c] = {} => ring' = ring
      BY <1>9, <1>t DEF EndFlush, Goto
    <2>2. shards' = {}
      <3>1. \A o \in shards : ShardOf[SeriesOf[o]] >= next[c]
                              /\ ShardOf[SeriesOf[o]] \in 1..NumShards
        BY <1>t, <2>1, RecorderAssumption DEF Emptied
      <3>2. next[c] \in Nat /\ NumShards \in Nat
        BY <1>t, RecorderAssumption
      <3>3. \A i \in 1..NumShards : ~(i >= next[c])
        BY <2>1, <3>2
      <3> QED BY <2>1, <3>1, <3>3, Zenon
    <2>3. ASSUME NEW d \in Callers, pc'[d] = "shipped"
          PROVE  ring' = <<>> /\ \A e \in Callers : window'[e] = {}
      <3>1. pc[d] = "shipped"
        BY <1>t, <2>1, <2>3
      <3> QED BY <1>t, <2>1, <3>1 DEF Emptied
    <2> QED BY <1>t, <2>1, <2>2, <2>3 DEF Emptied
  <1>10. ASSUME NEW c \in Callers, UploadOk(c) \/ UploadFail(c) PROVE Emptied'
    <2>1. /\ pc[c] = "upload" /\ UNCHANGED <<opc, shards, next, window>>
          /\ pc' = [pc EXCEPT ![c] = IF UploadOk(c) THEN "drain" ELSE "pause"]
      BY <1>10, <1>t DEF UploadOk, UploadFail, Goto
    <2>2. ring # <<>> /\ shards = {}
      BY <1>t, <2>1 DEF Base, Uploading, Emptied
    <2>3. \A d \in Callers : pc[d] # "shipped" /\ pc'[d] # "shipped"
      BY <1>t, <2>1, <2>2 DEF Emptied
    <2>4. \A d \in Callers : pc'[d] = "swap" => pc[d] = "swap"
      BY <1>t, <2>1
    <2>5. \A d \in Callers : pc'[d] # "idle" => pc[d] # "idle"
      BY <1>t, <2>1
    <2> QED BY <2>1, <2>2, <2>3, <2>4, <2>5 DEF Emptied
  <1>11. ASSUME NEW c \in Callers, ShutdownCall(c) PROVE Emptied'
    <2>1. /\ pc' = [pc EXCEPT ![c] = "wait"] /\ UNCHANGED <<opc, shards, ring, window, next>>
          /\ \A o \in Obs : opc[o] # "entered"
      BY <1>11 DEF ShutdownCall, Goto
    <2> QED BY <1>t, <2>1 DEF Emptied
  <1>12. ASSUME NEW c \in Callers, ShutdownClose(c) PROVE Emptied'
    <2>1. /\ pc' = [pc EXCEPT ![c] = "swap"] /\ UNCHANGED <<opc, shards, ring>>
          /\ pc[c] = "wait" /\ next' = [next EXCEPT ![c] = 1]
          /\ window' = [window EXCEPT ![c] = {}]
      BY <1>12 DEF ShutdownClose, BeginFlush, Goto
    <2>2. \A o \in shards : ShardOf[SeriesOf[o]] >= 1
      BY <1>t, RecorderAssumption
    <2> QED BY <1>t, <2>1, <2>2 DEF Emptied
  <1>13. ASSUME NEW c \in Callers, ShutdownDrain(c) \/ ShutdownResume(c) PROVE Emptied'
    <2>1. /\ pc[c] \in {"drain", "pause"} /\ UNCHANGED <<opc, shards, ring, window, next>>
          /\ \A d \in Callers : pc'[d] = pc[d] \/ (d = c /\ pc'[d] \in {"upload", "drain"})
      BY <1>13, <1>t DEF ShutdownDrain, ShutdownResume, BeginUpload, Goto
    <2> QED BY <2>1 DEF Emptied
  <1>14. ASSUME NEW c \in Callers, ShutdownReturn(c) PROVE Emptied'
    <2>1. /\ pc[c] = "drain" /\ UNCHANGED <<opc, shards, ring, window, next>>
          /\ \A d \in Callers : pc'[d] = pc[d] \/ (d = c /\ pc'[d] \in {"shipped", "expired"})
          /\ pc'[c] = "shipped" => ring = <<>>
      BY <1>14, <1>t DEF ShutdownReturn, DrainOver, Goto
    <2>2. \A d \in Callers : window[d] = {}
      BY <1>t, <2>1, SoleOwner DEF Base, Placed, WindowsClear
    <2> QED BY <2>1, <2>2 DEF Emptied
  <1>15. ASSUME NEW c \in Callers, CtxExpire(c) PROVE Emptied'
    BY <1>0, <1>15 DEF CtxExpire
  <1> QED BY <1>1, <1>2, <1>3, <1>4, <1>6, <1>7, <1>8, <1>9, <1>10, <1>11, <1>12, <1>13,
             <1>14, <1>15
          DEF Next, Agents
-----------------------------------------------------------------------------
(* Type correctness, with one owner of the ring at any time. *)
THEOREM RecorderTypes == ASSUME SerialShutdowns PROVE Spec => []TypeOK
  <1>1. Base => TypeOK
    BY DEF Base
  <1>2. Base /\ [Next]_vars => Base'
    BY BaseNext
  <1> QED BY <1>1, <1>2, BaseInit, PTL DEF Spec

(* The control invariant holds throughout. *)
LEMMA BaseAlways == ASSUME SerialShutdowns PROVE Spec => []Base
  <1>1. Base /\ [Next]_vars => Base'
    BY BaseNext
  <1> QED BY <1>1, BaseInit, PTL DEF Spec

(* Observations are in one place throughout. *)
LEMMA PlacedAlways == ASSUME SerialShutdowns PROVE Spec => []Placed
  <1>1. Base /\ Placed /\ [Next]_vars => Placed'
    BY PlacedNext
  <1> QED BY <1>1, BaseAlways, PlacedInit, PTL DEF Spec

(* However requests, flushes, outages, a panic and Shutdown interleave, no *)
(* recorded observation is lost or counted twice on its way to an          *)
(* acknowledged upload or a reported eviction.                             *)
THEOREM RecorderConserves == ASSUME SerialShutdowns PROVE Spec => []Conservation
  <1>1. Placed => Conservation
    BY DEF Placed
  <1> QED BY <1>1, PlacedAlways, PTL

(* The uploader never sleeps on pending work, and the kick after a flush   *)
(* never cuts a failure backoff short, for every ring of two slots or more.*)
THEOREM RecorderTimers ==
    ASSUME SerialShutdowns PROVE Spec => []RetriesOnTime
  <1>1. Timers => RetriesOnTime
    BY DEF Timers, RetriesOnTime
  <1>2. Base /\ Timers /\ [Next]_vars => Timers'
    BY TimersNext
  <1> QED BY <1>1, <1>2, BaseAlways, TimersInit, PTL DEF Spec

(* Every evicted summary is reported once in an acknowledged envelope or   *)
(* is still in the counter, which never borrows below zero.                *)
THEOREM RecorderCountsDrops == ASSUME SerialShutdowns PROVE Spec => []DropsAccounted
  <1>1. Init => Counted
    BY DEF Init, Counted
  <1>2. Base /\ Counted => DropsAccounted
    BY DEF Base, Uploading, Counted, DropsAccounted, TypeOK
  <1>3. Base /\ Counted /\ [Next]_vars => Counted'
    BY CountedNext
  <1> QED BY <1>1, <1>2, <1>3, BaseAlways, PTL DEF Spec

(* Shutdown returning nil, called after the host's own shutdown, has       *)
(* shipped or reported everything recorded.                                *)
THEOREM GracefulShutdownShips == ASSUME SerialShutdowns PROVE Spec => []NilShutdownShipped
  <1> DEFINE E == HostQuiesces => Emptied
  <1>1. Placed /\ E => NilShutdownShipped
    <2> SUFFICES ASSUME Placed, Emptied, NEW c \in Callers, pc[c] = "shipped"
                 PROVE  Recorded \subseteq acked \cup evicted \cup window[Loop]
      BY DEF NilShutdownShipped
    <2>1. shards = {} /\ ring = <<>> /\ \A d \in Callers : window[d] = {}
      BY DEF Emptied
    <2>2. RingObs = {}
      BY <2>1 DEF RingObs
    <2>3. WindowObs \subseteq window[Loop]
      BY <2>1 DEF WindowObs, Agents
    <2> QED BY <2>1, <2>2, <2>3 DEF Placed, Conservation
  <1>2. Init => E
    BY EmptiedInit
  <1>3. Base /\ Placed /\ E /\ [Next]_vars => E'
    BY EmptiedNext
  <1> QED BY <1>1, <1>2, <1>3, BaseAlways, PlacedAlways, PTL DEF Spec

(* No pending upload leaves the ring unless it was acknowledged or its     *)
(* eviction counted: a step that takes an observation out of the ring can  *)
(* only be a successful upload or an overflow, and both keep it in sight.  *)
THEOREM RecorderPopsWhatItSent == ASSUME SerialShutdowns PROVE Spec => PopsWhatItSent
  <1>1. ASSUME Base, Placed, [Next]_vars
        PROVE  [RingObs \subseteq RingObs' \cup acked' \cup evicted']_vars
    <2> USE DEF ringVars, timerVars, ghostVars, lifeVars, localVars
    <2>t. ring \in Seq(SUBSET Obs) /\ Disj(ring) /\ RingObs = Un(ring) /\ RingObs' = Un(ring')
          /\ window \in [Agents -> SUBSET Obs]
      <3>1. RingObs = Un(ring) /\ RingObs' = Un(ring')
        BY DEF RingObs, Un
      <3>2. Disj(ring)
        BY <1>1, ConservationSplit DEF Placed
      <3> QED BY <1>1, <3>1, <3>2 DEF Base, TypeOK
    <2>0. ASSUME ring' = ring PROVE RingObs \subseteq RingObs'
      BY <2>0, <2>t
    <2>1. ASSUME NEW a \in Agents, EndFlush(a) PROVE RingObs \subseteq RingObs' \cup evicted'
      <3>1. CASE ring' = ring
        BY <2>0, <3>1
      <3>2. CASE Push(window[a]) /\ window[a] # {}
        <4>0. window[a] \in SUBSET Obs /\ window[a] \cap Un(ring) = {}
          <5>1. WindowObs \cap RingObs = {}
            BY <1>1 DEF Placed, Conservation
          <5>2. window[a] \subseteq WindowObs
            BY DEF WindowObs
          <5> QED BY <2>t, <5>1, <5>2
        <4>1. CASE Len(ring) = Cap
          <5>1. ring # <<>>
            BY <4>1, RecorderAssumption DEF Base, TypeOK
          <5> DEFINE t == Tail(ring)
          <5>2. /\ Un(ring) = Head(ring) \cup Un(t) /\ Disj(t) /\ t \in Seq(SUBSET Obs)
                /\ ring' = Append(t, window[a]) /\ Head(ring) \subseteq evicted'
            BY <2>t, <3>2, <4>1, <5>1, UnTail, RingTail DEF Push
          <5> HIDE DEF t
          <5>3. Un(ring') = Un(t) \cup window[a]
            <6>1. window[a] \cap Un(t) = {}
              BY <4>0, <5>2
            <6>2. Un(Append(t, window[a])) = Un(t) \cup window[a]
              BY <4>0, <5>2, <6>1, UnAppend
            <6> QED BY <5>2, <6>2
          <5> QED BY <2>t, <5>2, <5>3
        <4>2. CASE Len(ring) # Cap
          <5>1. Un(ring') = Un(ring) \cup window[a]
            BY <2>t, <3>2, <4>0, <4>2, UnAppend DEF Push
          <5> QED BY <2>t, <5>1
        <4> QED BY <4>1, <4>2
      <3> QED BY <2>1, <3>1, <3>2 DEF EndFlush
    <2>2. ASSUME NEW a \in Agents, UploadOk(a) PROVE RingObs \subseteq RingObs' \cup acked'
      <3>1. ring # <<>> /\ ring' = Tail(ring) /\ Head(ring) \subseteq acked'
        BY <1>1, <2>2 DEF UploadOk, PopOldest, Base, Uploading
      <3> QED BY <2>t, <3>1, UnTail
    <2>3. ASSUME NEW a \in Agents, SwapShard(a) \/ UploadFail(a) PROVE ring' = ring
      BY <2>3 DEF SwapShard, UploadFail
    <2>4. ASSUME NEW o \in Obs, ObserveEnter(o) \/ ObserveRecord(o) PROVE ring' = ring
      BY <2>4 DEF ObserveEnter, ObserveRecord
    <2>5. ASSUME FlushTick \/ Register \/ SelectFlush \/ SelectStop \/ SelectRetry
                   \/ LoopPanic \/ CollectorFlips \/ UNCHANGED vars
          PROVE  ring' = ring
      BY <2>5 DEF FlushTick, Register, SelectFlush, SelectStop, SelectRetry, LoopPanic, LoopExit,
                  CollectorFlips, vars
    <2>6. ASSUME NEW c \in Callers,
                 ShutdownCall(c) \/ ShutdownClose(c) \/ ShutdownDrain(c)
                   \/ ShutdownReturn(c) \/ ShutdownResume(c) \/ CtxExpire(c)
          PROVE  ring' = ring
      BY <2>6 DEF ShutdownCall, ShutdownClose, ShutdownDrain, ShutdownReturn, ShutdownResume,
                  CtxExpire
    <2> QED BY <1>1, <2>0, <2>1, <2>2, <2>3, <2>4, <2>5, <2>6 DEF Next
  <1> QED BY <1>1, BaseAlways, PlacedAlways, PTL DEF Spec, PopsWhatItSent
=============================================================================
