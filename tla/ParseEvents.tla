---------------------------- MODULE ParseEvents -----------------------------
(***************************************************************************)
(* parse_events (card.rs): the loop that takes the bytes read from a DRM   *)
(* card apart into page-flip completions.  A byte string is a sequence of  *)
(* 32-bit words, the unit of every field the loop looks at, and lengths    *)
(* are counted in words: a header is two of them, the type and the length. *)
(***************************************************************************)
EXTENDS Naturals, SequencesExt

VARIABLES
  pc,       \* "parse", "idle" (returned) or "panic"
  bytes,    \* what is left to parse
  out       \* the completions found

parser == <<pc, bytes, out>>

HEADER == 2              \* size_of DrmEvent
VBLANK_EVENT == 8        \* size_of DrmEventVblank
FLIP_COMPLETE == 2

(* A completion as the kernel writes it, in `len` words, and as the loop   *)
(* returns it.                                                             *)
FlipWords(user, len) ==
  <<FLIP_COMPLETE, len, user, 0, user, user, user, 1>> \o [i \in 1 .. len - VBLANK_EVENT |-> 0]

FlipEvent(b) ==
  [user_data |-> b[3], time_us |-> b[5] * 1000000 + b[6], sequence |-> b[7], crtc_id |-> b[8]]

(* Any other event: vblank, sequence, or one of the driver's own. *)
OtherWords(len) == <<1, len>> \o [i \in 1 .. len - HEADER |-> 0]

-----------------------------------------------------------------------------
Parsing == pc = "parse" /\ Len(bytes) >= HEADER

(* Fault: a length that is too large is believed. *)
WellFormedAnyLong(b) == b[2] >= HEADER

(* The length is at least a header and does not reach past the end. *)
WellFormed(b) == b[2] >= HEADER /\ b[2] <= Len(b)

(* Fault: the length of a completion has to be the one known today. *)
IsFlipExact(b) == b[1] = FLIP_COMPLETE /\ b[2] = VBLANK_EVENT

IsFlip(b) == b[1] = FLIP_COMPLETE /\ b[2] >= VBLANK_EVENT

(* What the slices of this turn need; Rust panics when it is not there. *)
SlicesFit(b) == b[2] <= Len(b) /\ (IsFlip(b) => VBLANK_EVENT <= Len(b))

Found(b) == IF IsFlip(b) /\ SlicesFit(b) THEN <<FlipEvent(b)>> ELSE <<>>

(* Fault: an event that is no completion ends the loop. *)
OneEventStops ==
  /\ Parsing /\ WellFormed(bytes)
  /\ pc' = IF SlicesFit(bytes) THEN "parse" ELSE "panic"
  /\ out' = out \o Found(bytes)
  /\ bytes' = IF IsFlip(bytes) THEN SubSeq(bytes, bytes[2] + 1, Len(bytes)) ELSE <<>>

(* One turn of the loop: a completion is kept, another event passed over. *)
OneEvent ==
  /\ Parsing /\ WellFormed(bytes)
  /\ pc' = IF SlicesFit(bytes) THEN "parse" ELSE "panic"
  /\ out' = out \o Found(bytes)
  /\ bytes' = SubSeq(bytes, bytes[2] + 1, Len(bytes))

(* Too little left for a header, or no event: the loop ends. *)
LoopOver == pc = "parse" /\ ~ (Len(bytes) >= HEADER /\ WellFormed(bytes))

=============================================================================
