--------------------------- MODULE MCDisplayCalls ---------------------------
(***************************************************************************)
(* DisplayCalls on small inputs.                                           *)
(***************************************************************************)
EXTENDS DisplayCalls, Sequences

(* Three sizes, two with the same area, at two rates, preferred or not; a  *)
(* connector reports any list of up to four.                               *)
MCModes ==
  {[w |-> s[1], h |-> s[2], refresh |-> r, preferred |-> p] :
     s \in {<<2, 6>>, <<3, 4>>, <<2, 2>>}, r \in {60, 120}, p \in BOOLEAN}

MCLists == UNION {[1 .. n -> MCModes] : n \in 0 .. 4}

(* The number of one card begins with another's digits and is before the   *)
(* third's as a string.                                                    *)
MCCards == {<<1>>, <<2>>, <<1, 0>>}

P == INSTANCE ParseEvents WITH pc <- parsing

MCTails ==
  {<<>>, <<2>>} \union                                       \* less than a header
  {SubSeq(P!FlipWords(1, 8), 1, n) : n \in 2 .. 7} \union    \* a completion cut off
  {<<1, n, 0>> : n \in {0, 1, 4, 1073741823}} \union         \* lengths that lie
  {<<2, n, 0, 0>> : n \in {3, 4, 5}}                         \* completions too short to be one

(* Landscape, square and portrait modes, odd sizes, sizes at the limits of *)
(* ProbesRight, a bar display and one smaller than the border.             *)
MCSizes ==
  {<<640, 480>>, <<1280, 800>>, <<1366, 768>>, <<1920, 1080>>, <<1080, 1080>>, <<480, 854>>,
   <<801, 601>>, <<80, 160>>, <<90, 260>>, <<83, 101>>, <<80, 24>>, <<400, 1280>>, <<7, 9>>}

=============================================================================
