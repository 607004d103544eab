---------------------------- MODULE ByteStrings -----------------------------
(***************************************************************************)
(* parse_events on its own, on the byte strings its unit tests are about:  *)
(* whole events of any kind, followed by something that is none.           *)
(***************************************************************************)
EXTENDS ParseEvents, Subsequences

CONSTANTS
  Lengths,      \* lengths of the events that are no completions: at least HEADER
  FlipLengths,  \* lengths of completions: at least VBLANK_EVENT
  Tails         \* what may follow the last whole event

VARIABLE
  events    \* history: the whole events the byte string starts with

vars == <<parser, events>>

Events == {FlipWords(u, n) : u \in 1 .. 2, n \in FlipLengths} \union {OtherWords(n) : n \in Lengths}

(* The events one behind the other, and then the tail. *)
Written(es, tail) ==
  LET from[i \in 0 .. Len(es)] ==
        IF i = 0 THEN tail ELSE es[Len(es) + 1 - i] \o from[i - 1]
  IN  from[Len(es)]

Init ==
  /\ pc = "parse"
  /\ out = <<>>
  /\ events \in UNION {[1 .. n -> Events] : n \in 0 .. 3}
  /\ \E tail \in Tails : bytes = Written(events, tail)

Return == LoopOver /\ pc' = "idle" /\ UNCHANGED <<bytes, out, events>>

Next ==
  \/ OneEvent /\ UNCHANGED events
  \/ Return
  \/ pc # "parse" /\ UNCHANGED vars

Spec == Init /\ [][Next]_vars

-----------------------------------------------------------------------------
(* What is returned are exactly the completions among the whole events, in *)
(* order, whatever other events lie between them, however long a           *)
(* completion is, and whatever follows: an event cut off in its header or  *)
(* its body, a length that is zero, smaller than a header, or larger than  *)
(* what is left.  None of them makes the loop read outside the buffer.     *)
Completions ==
  LET flips == Among(events, {e \in ToSet(events) : e[1] = FLIP_COMPLETE})
  IN  [i \in DOMAIN flips |-> FlipEvent(flips[i])]

WholeEventsReturned ==
  /\ pc # "panic"
  /\ pc = "idle" => out = Completions

=============================================================================
