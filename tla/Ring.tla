-------------------------------- MODULE Ring --------------------------------
(* buffer.Ring: the fixed array, head index and count behind the uploader's *)
(* pending queue.  One action per method; out is the method's result.      *)
EXTENDS Integers, Sequences

CONSTANTS
    Requests,   \* the upload requests pushed
    Nil,        \* the nil pointer
    Capacity    \* the argument of New

ASSUME RingAssumption == Capacity \in Int /\ Nil \notin Requests

VARIABLES buf, head, count, out

vars == <<buf, head, count, out>>

\* New clamps its argument, so len(buf) is at least one.
Slots == IF Capacity < 1 THEN 1 ELSE Capacity

\* New
Init ==
    /\ buf = [i \in 0..(Slots - 1) |-> Nil]
    /\ head = 0
    /\ count = 0
    /\ out = Nil

\* Mutant: the index of the newest entry instead of the first free slot.
TailSlotOfNewest(h, n) == (h + n - 1) % Slots

\* Push: tail := (head + count) % len(buf)
TailSlot(h, n) == (h + n) % Slots

\* Mutant: head runs past the end of the array instead of wrapping.
AdvanceNoWrap == head + 1

\* head = (head + 1) % len(buf)
Advance == (head + 1) % Slots

Push(r) ==
    IF count = Slots
    THEN /\ out' = buf[head]
         /\ buf' = [[buf EXCEPT ![head] = Nil] EXCEPT ![TailSlot(Advance, count - 1)] = r]
         /\ head' = Advance
         /\ UNCHANGED count
    ELSE /\ out' = Nil
         /\ buf' = [buf EXCEPT ![TailSlot(head, count)] = r]
         /\ count' = count + 1
         /\ UNCHANGED head

Peek ==
    /\ out' = IF count = 0 THEN Nil ELSE buf[head]
    /\ UNCHANGED <<buf, head, count>>

\* Mutant: the vacated slot keeps its pointer.
VacatedKept == buf

\* buf[head] = nil
Vacated == [buf EXCEPT ![head] = Nil]

PopOldest ==
    IF count = 0
    THEN out' = Nil /\ UNCHANGED <<buf, head, count>>
    ELSE /\ out' = buf[head]
         /\ buf' = Vacated
         /\ head' = Advance
         /\ count' = count - 1

Next == (\E r \in Requests : Push(r)) \/ Peek \/ PopOldest

Spec == Init /\ [][Next]_vars
-----------------------------------------------------------------------------
TypeOK ==
    /\ buf \in [0..(Slots - 1) -> Requests \cup {Nil}]
    /\ head \in 0..(Slots - 1)
    /\ count \in 0..Slots
    /\ out \in Requests \cup {Nil}

\* The k-th oldest pending entry's slot.
SlotOf(k) == (head + k - 1) % Slots

(* "the backing array never pins a dropped request": a slot holds a        *)
(* request exactly when it is one of the count slots from head on, however *)
(* often Push and PopOldest have wrapped around the array.                 *)
LiveSlotsOnly ==
    \A i \in 0..(Slots - 1) : buf[i] # Nil <=> \E k \in 1..count : i = SlotOf(k)

(* The array implements the drop-oldest queue, results included.           *)
Queue == INSTANCE DropOldestQueue WITH
            queue <- [k \in 1..count |-> buf[SlotOf(k)]]

ImplementsQueue == Queue!Spec
=============================================================================
