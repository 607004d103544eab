---------------------------- MODULE Presentation ----------------------------
(***************************************************************************)
(* What a viewer sees of wana-gl: the screen is off, then shows the frames *)
(* 0 .. Frames - 1, each one whole, in order and without a gap, and goes   *)
(* off again at the end or when the program gives up.  A screen that is    *)
(* blank between frames, shows a frame twice out of order or shows a       *)
(* buffer that is being drawn is not allowed.  WanaGl implements this.     *)
(***************************************************************************)
EXTENDS Integers

CONSTANT Frames

VARIABLES
  screen,   \* the number of the frame on the screen, or -1
  over      \* the screen has gone off for good

Init == screen = -1 /\ over = FALSE

ShowNext ==
  /\ ~ over
  /\ screen' = screen + 1 /\ screen' < Frames
  /\ UNCHANGED over

GoOff == ~ over /\ screen' = -1 /\ over' = TRUE

Next == ShowNext \/ GoOff

Spec == Init /\ [][Next]_<<screen, over>>

=============================================================================
