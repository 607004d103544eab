---------------------------- MODULE TestPattern -----------------------------
(***************************************************************************)
(* The picture both programs show: wana-kms paints it row by row with the  *)
(* CPU (paint), wana-gl draws it with a fragment shader (scene.rs), and    *)
(* the graphics test probes three pixels of either.  paint computes with   *)
(* u32, which wraps around in the release build; the shader's coordinates  *)
(* are pixel centres counted from the bottom, here multiplied by 300 so    *)
(* that its sixths and hundredths of the height are integers.              *)
(***************************************************************************)
EXTENDS Integers

CONSTANTS
  Word,       \* how many values a u32 has
  Sizes,      \* the modes' sizes, as <<width, height>>
  Progress    \* positions of the progress bar, in tenths

ASSUME SizesAssumption ==
  /\ Word \in Nat
  /\ \A s \in Sizes : \A i \in 1 .. 2 : s[i] \in Nat \ {0} /\ 2 * s[i] < Word
ASSUME ProgressAssumption == Progress \subseteq 0 .. 10

VARIABLES
  size,       \* width and height of the mode
  progress,   \* the bar of the frame the shader drew
  y,          \* rows painted
  row         \* the row painted last: a colour for each of Columns

vars == <<size, progress, y, row>>

BORDER_PX == 8

(* a - b in u32. *)
Minus(a, b) == IF b <= a THEN a - b ELSE a - b + Word

(* Fault: the right and the lower border are a pixel too wide. *)
OnBorderWide(w, h, px, py) ==
  px < BORDER_PX \/ py < BORDER_PX \/ px >= Minus(w, BORDER_PX) - 1 \/ py >= Minus(h, BORDER_PX) - 1

OnBorder(w, h, px, py) ==
  px < BORDER_PX \/ py < BORDER_PX \/ px >= Minus(w, BORDER_PX) \/ py >= Minus(h, BORDER_PX)

Side(h) == h \div 3

(* Fault: the square starts in the middle instead of being centred there. *)
InSquareUncentred(w, h, px, py) ==
  /\ px \in w \div 2 .. w \div 2 + Side(h) - 1
  /\ py \in h \div 2 .. h \div 2 + Side(h) - 1

InSquare(w, h, px, py) ==
  LET sx == Minus(w, Side(h)) \div 2
      sy == Minus(h, Side(h)) \div 2
  IN  px \in sx .. sx + Side(h) - 1 /\ py \in sy .. sy + Side(h) - 1

(* paint, one pixel. *)
Paint(w, h, px, py) ==
  IF OnBorder(w, h, px, py) THEN "border"
  ELSE IF InSquare(w, h, px, py) THEN "accent" ELSE "background"

-----------------------------------------------------------------------------
(* The shader: gl_FragCoord times 300, where py counts from the top. *)
FragX(px) == 300 * px + 150
FragY(h, py) == 300 * (h - py) - 150

OnShaderBorder(w, h, px, py) ==
  \/ FragX(px) < 300 * 8 \/ FragY(h, py) < 300 * 8
  \/ FragX(px) > 300 * w - 300 * 8 \/ FragY(h, py) > 300 * h - 300 * 8

Abs(n) == IF n < 0 THEN -n ELSE n

(* q = abs(p - res / 2) - (half_side - r), with half_side 50h and r 18h. *)
QX(w, h, px) == Abs(FragX(px) - 150 * w) - 32 * h
QY(h, py) == Abs(FragY(h, py) - 150 * h) - 32 * h

(* The distance d is at most `far` (far > -18h): by the larger of qx and   *)
(* qy beside the square, by Pythagoras off its rounded corners.            *)
Within(w, h, px, py, far) ==
  LET qx == QX(w, h, px)
      qy == QY(h, py)
  IN  /\ qx <= 18 * h + far /\ qy <= 18 * h + far
      /\ (qx > 0 /\ qy > 0) => qx * qx + qy * qy <= (18 * h + far) * (18 * h + far)

InBar(w, h, px, py, tenths) ==
  /\ Abs(FragY(h, py) - 30 * h) < 300 * 4
  /\ FragX(px) > 75 * w /\ FragX(px) < 75 * w + 15 * w * tenths

(* The colour of one fragment; at the edge of the square, half a pixel to  *)
(* each side, the two colours are blended.                                 *)
Shade(w, h, px, py, tenths) ==
  IF OnShaderBorder(w, h, px, py) THEN "border"
  ELSE IF InBar(w, h, px, py, tenths) THEN "bar"
  ELSE IF Within(w, h, px, py, -150) THEN "accent"
  ELSE IF Within(w, h, px, py, 149) THEN "blend" ELSE "background"

-----------------------------------------------------------------------------
(* The columns looked at: at the borders, around the edges of the square   *)
(* and at the probes.                                                      *)
Columns(w, h) ==
  LET sx == (w - Side(h)) \div 2
  IN  {0, 7, 8, w \div 10, w \div 4, sx - 2, sx - 1, sx, sx + 1, w \div 2,
       sx + Side(h) - 2, sx + Side(h) - 1, sx + Side(h), sx + Side(h) + 1,
       w - 9, w - 8, w - 1} \intersect (0 .. w - 1)

W == size[1]
H == size[2]

Init ==
  /\ size \in Sizes
  /\ progress \in Progress
  /\ y = 0
  /\ row = <<>>

(* paint, one turn of its outer loop. *)
PaintRow ==
  /\ y < H
  /\ row' = [px \in Columns(W, H) |-> Paint(W, H, px, y)]
  /\ y' = y + 1
  /\ UNCHANGED <<size, progress>>

Painted == y = H /\ UNCHANGED vars

Next == PaintRow \/ Painted

Spec == Init /\ [][Next]_vars

-----------------------------------------------------------------------------
Shader(px) == Shade(W, H, px, y - 1, progress)

(* The border is the same to the pixel on both paths: "8 px" in integers   *)
(* counted from the top and in fractions counted from the bottom.          *)
BordersAgree ==
  y > 0 => \A px \in DOMAIN row : row[px] = "border" <=> Shader(px) = "border"

(* Where the display is wide enough for the square, the paths differ only  *)
(* under the bar, where the shader blends, and off the rounded corners:    *)
(* halves and thirds rounded down never move an edge by a whole pixel.     *)
OffCorner(px) == QX(W, H, px) > 0 /\ QY(H, y - 1) > 0

SquaresAgree ==
  (y > 0 /\ Side(H) <= W) =>
    \A px \in DOMAIN row :
      \/ row[px] = Shader(px)
      \/ Shader(px) \in {"bar", "blend"}
      \/ OffCorner(px) /\ row[px] = "accent"

(* The probes of the boot tests: the middle, a tenth from the left, and    *)
(* the corner.                                                             *)
Probes(w, h) == {<<w \div 2, h \div 2>>, <<w \div 10, h \div 2>>, <<0, 0>>}

Wanted(w, h, probe) ==
  IF probe = <<0, 0>> THEN "border"
  ELSE IF probe = <<w \div 2, h \div 2>> THEN "accent" ELSE "background"

(* On a narrower one w - side wraps around in paint: the square starts far *)
(* off the display and no pixel of it is painted, though the shader draws  *)
(* it: "the same screenshot pixel checks" (scene.rs) do not apply there.   *)
SquareLost ==
  (y > 0 /\ Side(H) > W) => \A px \in DOMAIN row : row[px] # "accent"

(* The three probes tell the palette on both paths, whatever the position  *)
(* of the bar, on every display at least 80 pixels wide and 24 high that   *)
(* is at most twice as high as wide.                                       *)
ProbesRight ==
  (y > 0 /\ W >= 80 /\ H >= 24 /\ H <= 2 * W) =>
    \A px \in DOMAIN row :
      <<px, y - 1>> \in Probes(W, H) =>
        /\ row[px] = Wanted(W, H, <<px, y - 1>>)
        /\ Shader(px) = Wanted(W, H, <<px, y - 1>>)

(* How far the pictures of the two paths are the same, on every display:   *)
(* the border always, the square wherever it fits, and the probes of the   *)
(* boot tests on any display of a usual shape.                             *)
PicturesAgree == BordersAgree /\ SquaresAgree /\ SquareLost /\ ProbesRight

=============================================================================
