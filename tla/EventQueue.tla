----------------------------- MODULE EventQueue -----------------------------
(***************************************************************************)
(* What a user of Card::read_flip_events may rely on: each completion is   *)
(* returned once, in the order the flips completed, none is lost between   *)
(* calls, and all are returned in the end.  The flips are numbered as they *)
(* complete.  EventStream implements this.                                 *)
(***************************************************************************)
EXTENDS Sequences, Naturals

VARIABLES
  waiting,    \* completions not yet returned, oldest first
  returned    \* those returned, oldest first

queue == <<waiting, returned>>

Init == waiting = <<>> /\ returned = <<>>

Complete ==
  /\ waiting' = Append(waiting, Len(returned) + Len(waiting) + 1)
  /\ UNCHANGED returned

(* One call: a batch of the oldest, at least one. *)
ReturnBatch ==
  \E n \in 1 .. Len(waiting) :
    /\ returned' = returned \o SubSeq(waiting, 1, n)
    /\ waiting' = SubSeq(waiting, n + 1, Len(waiting))

Next == Complete \/ ReturnBatch

Spec == Init /\ [][Next]_queue /\ WF_queue(ReturnBatch)

=============================================================================
