------------------------------ MODULE WanaKms ------------------------------
(***************************************************************************)
(* wana-kms (wana-drm/src/bin/wana-kms.rs): two dumb buffers are painted   *)
(* by the CPU, the first is shown by a modeset, the two are flipped for a  *)
(* number of vertical blanks, and everything is torn down.  A failed flip  *)
(* or read ends the flip test, not the program.                            *)
(***************************************************************************)
EXTENDS Kms, FiniteSets

CONSTANT MaxFrames    \* bound: the largest --frames argument

ASSUME MaxFramesAssumption == MaxFrames \in Nat

VARIABLES
  pc,        \* where the program is
  frames,    \* the --frames argument
  dumb,      \* buffers with a handle (create_dumb .. destroy_dumb)
  mapped,    \* buffers mapped into the program
  painted,   \* buffers that hold the test pattern
  bufs,      \* `bufs`: the (buffer, framebuffer) pairs made so far
  making,    \* the buffer the creation loop is at
  n,         \* the flip the flip test is at
  received,  \* flip events received: the length of `times`
  report,    \* what the flip test logs at its end
  keptFbs,   \* history: framebuffers that rm_fb did not remove at the end
  keptDumb   \* history: buffers that destroy_dumb did not destroy there

kept == <<keptFbs, keptDumb>>
prog == <<pc, frames, dumb, mapped, painted, bufs, making, n, received, report, kept>>
vars == <<kms, prog>>

PCs == {"create", "map", "addfb", "modeset", "flip", "event", "measure",
        "hold", "teardown", "close", "done", "failed"}

(* "none": no flip test; "failed": a flip or a read was refused; "empty":  *)
(* "no events received"; "measured": flips and intervals.                  *)
Reports == {"none", "failed", "empty", "measured"}

TypeOK ==
  /\ KmsTypeOK
  /\ pc \in PCs
  /\ frames \in 0 .. MaxFrames
  /\ dumb \subseteq Buffers /\ mapped \subseteq Buffers /\ painted \subseteq Buffers
  /\ bufs \in Seq([buf : Buffers, fb : FbIds]) /\ Len(bufs) <= 2
  /\ making \in Buffers \union {NoBuffer}
  /\ n \in 0 .. frames
  /\ received \in 0 .. frames
  /\ report \in Reports
  /\ keptFbs \subseteq FbIds /\ keptDumb \subseteq Buffers

Init ==
  /\ ScreenOff
  /\ pc = "create"
  /\ frames \in 0 .. MaxFrames
  /\ dumb = {} /\ mapped = {} /\ painted = {}
  /\ bufs = <<>> /\ making = NoBuffer
  /\ n = 0 /\ received = 0
  /\ report = "none"
  /\ keptFbs = {} /\ keptDumb = {}

-----------------------------------------------------------------------------
(* show, its creation loop: create_dumb, then map_dumb and paint, then     *)
(* add_fb, for each of the two buffers.                                    *)
CreateDumb ==
  /\ pc = "create"
  /\ \E b \in Buffers \ dumb :
       /\ dumb' = dumb \union {b}
       /\ painted' = painted \ {b}
       /\ making' = b
  /\ pc' = "map"
  /\ UNCHANGED <<kms, frames, mapped, bufs, n, received, report, kept>>

(* Fault: only the buffer of the modeset is painted. *)
PaintFirstOnly ==
  /\ pc = "map"
  /\ mapped' = mapped \union {making}
  /\ painted' = IF bufs = <<>> THEN painted \union {making} ELSE painted
  /\ pc' = "addfb"
  /\ UNCHANGED <<kms, frames, dumb, bufs, making, n, received, report, kept>>

MapAndPaint ==
  /\ pc = "map"
  /\ mapped' = mapped \union {making}
  /\ painted' = painted \union {making}
  /\ pc' = "addfb"
  /\ UNCHANGED <<kms, frames, dumb, bufs, making, n, received, report, kept>>

AddDumbFb ==
  /\ pc = "addfb"
  /\ \E f \in FbIds :
       /\ AddFb(f, making)
       /\ bufs' = Append(bufs, [buf |-> making, fb |-> f])
  /\ making' = NoBuffer
  /\ pc' = IF Len(bufs) = 1 THEN "modeset" ELSE "create"
  /\ UNCHANGED <<frames, dumb, mapped, painted, n, received, report, kept>>

(* show: the modeset, and flip_test's return when there is nothing to do. *)
Modeset ==
  /\ pc = "modeset"
  /\ SetCrtc(bufs[1].fb)
  /\ pc' = IF frames = 0 THEN "hold" ELSE "flip"
  /\ UNCHANGED <<frames, dumb, mapped, painted, bufs, making, n, received, report, kept>>

(* Fault: flip n goes to framebuffer n % 2, the first to the one on screen. *)
FlipTargetSame == bufs[(n % 2) + 1].fb

(* flip_test: fbs[(n + 1) % fbs.len()]. *)
FlipTarget == bufs[((n + 1) % 2) + 1].fb

FlipNext ==
  /\ pc = "flip"
  /\ PageFlip(FlipTarget, n)
  /\ pc' = "event"
  /\ UNCHANGED <<frames, dumb, mapped, painted, bufs, making, n, received, report, kept>>

(* flip_test: read_flip_events after each flip, then the next one. *)
FlipEvent ==
  /\ pc = "event"
  /\ received' = received + Len(events)
  /\ ReadFlipEvents
  /\ n' = n + 1
  /\ pc' = IF n + 1 < frames THEN "flip" ELSE "measure"
  /\ UNCHANGED <<frames, dumb, mapped, painted, bufs, making, report, kept>>

(* Fault: a failure leaves the loop and the intervals are reported. *)
FlipTestBreaks ==
  /\ pc \in {"flip", "event"}
  /\ pc' = "measure"
  /\ UNCHANGED <<kms, frames, dumb, mapped, painted, bufs, making, n, received, report, kept>>

(* flip_test: a flip or a read fails, which is logged, and the test ends.  *)
(* After an interrupted read the flip may still be waiting.                *)
FlipTestFails ==
  /\ pc \in {"flip", "event"}
  /\ report' = "failed"
  /\ pc' = "hold"
  /\ UNCHANGED <<kms, frames, dumb, mapped, painted, bufs, making, n, received, kept>>

(* flip_test: intervals between consecutive events, if there are any. *)
Measure ==
  /\ pc = "measure"
  /\ report' = IF received >= 2 THEN "measured" ELSE "empty"
  /\ pc' = "hold"
  /\ UNCHANGED <<kms, frames, dumb, mapped, painted, bufs, making, n, received, kept>>

Hold ==
  /\ pc = "hold"
  /\ pc' = "teardown"
  /\ UNCHANGED <<kms, frames, dumb, mapped, painted, bufs, making, n, received, report, kept>>

(* Fault: the handle is destroyed and the mapping kept to the end. *)
TeardownKeepsMap ==
  /\ pc = "teardown" /\ bufs # <<>>
  /\ LET b == Head(bufs)
     IN  /\ RmFb(b.fb)
         /\ dumb' = dumb \ {b.buf}
  /\ bufs' = Tail(bufs)
  /\ UNCHANGED <<pc, frames, mapped, painted, making, n, received, report, kept>>

(* show, its last loop: drop(map), rm_fb, destroy_dumb for each buffer.    *)
(* The errors of the two are not looked at.                                *)
Teardown ==
  /\ pc = "teardown" /\ bufs # <<>>
  /\ LET b == Head(bufs)
     IN  /\ mapped' = mapped \ {b.buf}
         /\ \/ RmFb(b.fb) /\ UNCHANGED keptFbs
            \/ keptFbs' = keptFbs \union {b.fb} /\ UNCHANGED kms
         /\ \/ dumb' = dumb \ {b.buf} /\ UNCHANGED keptDumb
            \/ keptDumb' = keptDumb \union {b.buf} /\ UNCHANGED dumb
  /\ bufs' = Tail(bufs)
  /\ UNCHANGED <<pc, frames, painted, making, n, received, report>>

(* show returns ... *)
Done ==
  /\ pc = "teardown" /\ bufs = <<>>
  /\ pc' = "close"
  /\ UNCHANGED <<kms, frames, dumb, mapped, painted, bufs, making, n, received, report, kept>>

(* ... and run drops `out`: the card is closed, which frees what is left.  *)
Close ==
  /\ pc = "close"
  /\ CloseCard
  /\ dumb' = {}
  /\ pc' = "done"
  /\ UNCHANGED <<frames, mapped, painted, bufs, making, n, received, report, kept>>

(* show: an error before or at the modeset is returned; the mappings are   *)
(* dropped and the card is closed, which frees buffers and framebuffers.   *)
Fail ==
  /\ pc \in {"create", "map", "addfb", "modeset"}
  /\ CloseCard
  /\ dumb' = {} /\ mapped' = {}
  /\ bufs' = <<>> /\ making' = NoBuffer
  /\ pc' = "failed"
  /\ UNCHANGED <<frames, painted, n, received, report, kept>>

Program ==
  \/ CreateDumb \/ MapAndPaint \/ AddDumbFb \/ Modeset
  \/ FlipNext \/ FlipEvent \/ Measure \/ Hold \/ Teardown \/ Done \/ Close

DisplayVblank == Vblank /\ UNCHANGED prog

Ended == pc \in {"done", "failed"} /\ UNCHANGED vars

Next == Program \/ FlipTestFails \/ Fail \/ DisplayVblank \/ Ended

Spec == Init /\ [][Next]_vars

(* The program runs and the display refreshes; no failure is assumed. *)
FairSpec == Spec /\ WF_vars(Program) /\ WF_vars(DisplayVblank)

-----------------------------------------------------------------------------
(* The viewer only ever sees the finished pattern: no framebuffer reaches  *)
(* the screen, by the modeset or by any flip, before it is painted.        *)
OnlyPaintedShown == Displayed \subseteq painted

(* Every flip of the test changes the picture: it goes to the framebuffer  *)
(* that is not on the screen, however many flips went before.              *)
FlipsAlternate ==
  [][pc = "flip" /\ pc' = "event" => pending' # scanout]_vars

(* The program never keeps a mapping of a buffer it has destroyed.  When   *)
(* show returns, what is left is exactly what rm_fb and destroy_dumb did   *)
(* not take, and a screen that is still on shows such a framebuffer or     *)
(* waits for a flip to one, also when an interrupted read left a flip      *)
(* waiting at the teardown; and the end of run leaves nothing of it.       *)
TornDown ==
  /\ mapped \subseteq dumb
  /\ pc = "close" =>
       /\ live = keptFbs /\ dumb = keptDumb /\ mapped = {}
       /\ scanout # NoFb => {scanout, pending} \intersect keptFbs # {}
  /\ pc \in {"done", "failed"} =>
       live = {} /\ dumb = {} /\ scanout = NoFb /\ pending = NoFb

(* The flip test counts what happened: when it got to its end, each of the *)
(* `frames` flips was completed once and none is counted twice or still    *)
(* waiting.  "page flip: no events received" (wana-kms.rs:174) is wrong in *)
(* all its cases: it is only logged after a single flip, and its event was *)
(* received.                                                               *)
MeasuredAllFlips ==
  /\ report \in {"measured", "empty"} => received = frames /\ n = frames /\ pending = NoFb
  /\ report = "measured" => frames >= 2
  /\ report = "empty" => frames = 1

(* wana-kms ends. *)
Ends == <>(pc \in {"done", "failed"})

=============================================================================
