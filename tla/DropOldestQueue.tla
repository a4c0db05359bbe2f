--------------------------- MODULE DropOldestQueue ---------------------------
(* What package buffer promises: a bounded queue of pending uploads that   *)
(* evicts its oldest entry to make room for the newest, and hands the      *)
(* evicted entry back so that the loss can be counted.                     *)
EXTENDS Integers, Sequences

CONSTANTS Requests, Nil, Slots

VARIABLES
    queue,      \* pending requests, oldest first
    out         \* what the latest operation returned

Init == queue = <<>> /\ out = Nil

Push(r) ==
    \/ /\ Len(queue) < Slots
       /\ queue' = Append(queue, r)
       /\ out' = Nil
    \/ /\ Len(queue) = Slots
       /\ queue' = Append(Tail(queue), r)
       /\ out' = Head(queue)

Peek ==
    /\ UNCHANGED queue
    /\ out' = IF queue = <<>> THEN Nil ELSE Head(queue)

PopOldest ==
    \/ queue = <<>> /\ out' = Nil /\ UNCHANGED queue
    \/ queue # <<>> /\ out' = Head(queue) /\ queue' = Tail(queue)

Next == (\E r \in Requests : Push(r)) \/ Peek \/ PopOldest

Spec == Init /\ [][Next]_<<queue, out>>
=============================================================================
