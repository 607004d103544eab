---------------------------- MODULE WanaGlProofs ----------------------------
(***************************************************************************)
(* wana-gl for any number of frames, buffers and framebuffer ids: the GPU, *)
(* the display and the program never share a buffer, two buffers and two   *)
(* framebuffers are enough besides those that could not be removed, every  *)
(* flip event is that of its own flip, nothing is dropped before what was  *)
(* made from it, and what the viewer sees is a behaviour of Presentation.  *)
(***************************************************************************)
EXTENDS WanaGl, FiniteSetTheorems, SequenceTheorems, TLAPS

RealPair == [bo : Buffers, fb : FbIds]

Rendering == {"draw", "finish", "swap", "lock"}
Presenting == {"present", "event", "retire"}
InLoop == Rendering \union {"addfb"} \union Presenting
Running == InLoop \union {"hold"}

(* Nothing but objects until the setup is over. *)
SetupInv ==
  pc = "setup" =>
    /\ n = 0 /\ shown = NoPair /\ cur = NoPair /\ locked = {} /\ gpu = {}
    /\ back = NoBuffer /\ front = NoBuffer /\ stuck = {}
    /\ live = {} /\ scanout = NoFb /\ pending = NoFb /\ events = <<>>

(* The pair on the screen is the one of the frame before, n - 1. *)
ShownInv ==
  /\ pc \in InLoop => n < Frames
  /\ pc = "hold" => n = Frames
  /\ pc \in Running =>
       IF n = 0 THEN shown = NoPair
       ELSE shown \in RealPair /\ fbOf[shown.fb] = shown.bo /\ content[shown.bo] = n - 1

(* The pair of this frame is another one. *)
CurInv ==
  /\ pc \in Rendering \union {"hold"} => cur = NoPair
  /\ pc = "addfb" =>
       cur.bo \in Buffers /\ cur.fb = NoFb /\ cur.bo # shown.bo /\ content[cur.bo] = n
  /\ pc \in Presenting =>
       /\ cur \in RealPair /\ cur.bo # shown.bo /\ cur.fb # shown.fb
       /\ fbOf[cur.fb] = cur.bo /\ content[cur.bo] = n

(* Locked buffers and live framebuffers are those of the two pairs, and    *)
(* the framebuffers that could not be removed.                             *)
OwnInv ==
  pc \in Running =>
    /\ locked = {shown.bo, cur.bo} \ {NoBuffer}
    /\ live = ({shown.fb, cur.fb} \ {NoFb}) \union stuck
    /\ shown.fb \notin stuck /\ cur.fb \notin stuck

(* What the display shows: the frame before, until the flip is over. *)
FlipWaits == scanout = shown.fb /\ pending = cur.fb /\ events = <<>> /\ token = n
FlipOver == scanout = cur.fb /\ pending = NoFb /\ events = <<n>>

ScreenInv ==
  /\ pc \in Running \ {"event", "retire"} =>
       scanout = shown.fb /\ pending = NoFb /\ events = <<>>
  /\ pc = "event" => n > 0 /\ (FlipWaits \/ FlipOver)
  /\ pc = "retire" =>
       /\ scanout = cur.fb /\ pending = NoFb /\ events = <<>>
       /\ n > 0 => got = <<n>>

(* The buffer drawn into is locked by nobody. *)
DrawnInv ==
  pc \in Running =>
    /\ IF pc \in {"finish", "swap"}
         THEN back \in Buffers \ locked /\ content[back] = n ELSE back = NoBuffer
    /\ IF pc = "lock"
         THEN front \in Buffers \ locked /\ content[front] = n ELSE front = NoBuffer
    /\ gpu \subseteq (IF pc = "finish" THEN {back} ELSE {})

(* After an error the display may still complete one flip. *)
EndInv ==
  pc \in {"drop", "exit"} =>
    /\ \E f, g \in FbIds \union {NoFb} : live \subseteq {f, g} \union stuck
    /\ \E a, b \in Buffers \union {NoBuffer} : locked \subseteq {a, b}
    /\ scanout = NoFb => pending = NoFb
    /\ scanout # NoFb =>
         fbOf[scanout] \in Buffers \ (gpu \union {back, front}) /\ content[fbOf[scanout]] < Frames
    /\ pending # NoFb =>
         /\ fbOf[pending] \in Buffers \ (gpu \union {back, front})
         /\ content[fbOf[pending]] = content[fbOf[scanout]] + 1
         /\ content[fbOf[pending]] < Frames

IInv ==
  /\ TypeOK /\ SetupInv /\ ShownInv /\ CurInv /\ OwnInv /\ ScreenInv /\ DrawnInv /\ EndInv

USE FramesAssumption, NoBufferAssumption, NoFbAssumption

LEMMA DrawStep == IInv /\ Draw => IInv'
<1> SUFFICES ASSUME IInv, Draw PROVE IInv'
  OBVIOUS
<1> USE DEF Draw, Render, outer, kms, objects
<1>1. TypeOK'
  BY DEF IInv, TypeOK, KmsTypeOK, PCs
<1>2. SetupInv'
  BY DEF SetupInv
<1>3. ShownInv'
  BY DEF IInv, ShownInv, OwnInv, InLoop, Running, Rendering
<1>4. CurInv'
  BY DEF IInv, CurInv, Rendering, Presenting
<1>5. OwnInv'
  BY DEF IInv, OwnInv, InLoop, Running, Rendering
<1>6. ScreenInv'
  BY DEF IInv, ScreenInv, InLoop, Running, Rendering
<1>7. DrawnInv'
  BY DEF IInv, TypeOK, DrawnInv, InLoop, Running, Rendering
<1>8. EndInv'
  BY DEF EndInv
<1>9. QED
  BY <1>1, <1>2, <1>3, <1>4, <1>5, <1>6, <1>7, <1>8 DEF IInv

LEMMA FinishStep == IInv /\ Finish => IInv'
<1> SUFFICES ASSUME IInv, Finish PROVE IInv'
  OBVIOUS
<1> USE DEF Finish, outer, kms, objects
<1>1. TypeOK'
  BY DEF IInv, TypeOK, KmsTypeOK, PCs, Fallible
<1>2. SetupInv'
  BY DEF SetupInv
<1>3. ShownInv'
  BY DEF IInv, ShownInv, InLoop, Running, Rendering
<1>4. CurInv'
  BY DEF IInv, CurInv, Rendering, Presenting
<1>5. OwnInv'
  BY DEF IInv, OwnInv, InLoop, Running, Rendering
<1>6. ScreenInv'
  BY DEF IInv, ScreenInv, InLoop, Running, Rendering
<1>7. DrawnInv'
  BY DEF IInv, DrawnInv, InLoop, Running, Rendering
<1>8. EndInv'
  BY DEF EndInv
<1>9. QED
  BY <1>1, <1>2, <1>3, <1>4, <1>5, <1>6, <1>7, <1>8 DEF IInv

LEMMA SwapStep == IInv /\ Swap => IInv'
<1> SUFFICES ASSUME IInv, Swap PROVE IInv'
  OBVIOUS
<1> USE DEF Swap, outer, kms, objects
<1>1. TypeOK'
  BY DEF IInv, TypeOK, KmsTypeOK, PCs, Fallible
<1>2. SetupInv'
  BY DEF SetupInv
<1>3. ShownInv'
  BY DEF IInv, ShownInv, InLoop, Running, Rendering
<1>4. CurInv'
  BY DEF IInv, CurInv, Rendering, Presenting
<1>5. OwnInv'
  BY DEF IInv, OwnInv, InLoop, Running, Rendering
<1>6. ScreenInv'
  BY DEF IInv, ScreenInv, InLoop, Running, Rendering
<1>7. DrawnInv'
  BY DEF IInv, DrawnInv, InLoop, Running, Rendering
<1>8. EndInv'
  BY DEF EndInv
<1>9. QED
  BY <1>1, <1>2, <1>3, <1>4, <1>5, <1>6, <1>7, <1>8 DEF IInv

LEMMA LockFrontStep == IInv /\ LockFront => IInv'
<1> SUFFICES ASSUME IInv, LockFront PROVE IInv'
  OBVIOUS
<1> USE DEF LockFront, outer, kms, objects
<1>1. TypeOK'
  BY DEF IInv, TypeOK, KmsTypeOK, DrawnInv, Running, InLoop, Rendering, PCs, Fallible, Pair
<1>2. SetupInv'
  BY DEF SetupInv
<1>3. ShownInv'
  BY DEF IInv, ShownInv, InLoop, Running, Rendering
<1>4. CurInv'
  BY DEF IInv, CurInv, OwnInv, DrawnInv, NoPair, InLoop, Running, Rendering, Presenting
<1>5. OwnInv'
  BY DEF IInv, OwnInv, CurInv, DrawnInv, NoPair, InLoop, Running, Rendering
<1>6. ScreenInv'
  BY DEF IInv, ScreenInv, InLoop, Running, Rendering
<1>7. DrawnInv'
  BY DEF IInv, DrawnInv, InLoop, Running, Rendering
<1>8. EndInv'
  BY DEF EndInv
<1>9. QED
  BY <1>1, <1>2, <1>3, <1>4, <1>5, <1>6, <1>7, <1>8 DEF IInv

LEMMA AddFrameFbStep == IInv /\ AddFrameFb => IInv'
<1> SUFFICES ASSUME IInv, AddFrameFb PROVE IInv'
  OBVIOUS
<1> USE DEF AddFrameFb, AddFb, outer, objects
<1>1. TypeOK'
  <2>1. cur.bo \in Buffers /\ cur \in Pair /\ pc' \in PCs
    BY DEF IInv, TypeOK, CurInv, PCs, Fallible
  <2>2. cur' \in Pair
    BY <2>1 DEF Pair
  <2>3. KmsTypeOK'
    BY <2>1 DEF IInv, TypeOK, KmsTypeOK
  <2>4. QED
    BY <2>1, <2>2, <2>3 DEF IInv, TypeOK
<1>2. SetupInv'
  BY DEF SetupInv
<1>3. ShownInv'
  BY DEF IInv, ShownInv, OwnInv, InLoop, Running
<1>4. CurInv'
  <2>1. PICK f \in FbIds : AddFb(f, cur.bo) /\ cur' = [cur EXCEPT !.fb = f]
    OBVIOUS
  <2>2. /\ pc = "addfb" /\ pc' = "present" /\ shown' = shown /\ content' = content /\ n' = n
        /\ cur \in Pair /\ cur.bo \in Buffers /\ cur.bo # shown.bo /\ content[cur.bo] = n
    BY DEF IInv, TypeOK, CurInv
  <2>3. cur'.bo = cur.bo /\ cur'.fb = f /\ cur' \in RealPair
    BY <2>1, <2>2 DEF Pair, RealPair
  <2>4. fbOf'[f] = cur.bo
    BY <2>1 DEF IInv, TypeOK, KmsTypeOK
  <2>5. f # shown.fb
    BY <2>1, <2>2 DEF IInv, OwnInv, InLoop, Running
  <2>6. QED
    BY <2>2, <2>3, <2>4, <2>5 DEF CurInv, Rendering, Presenting
<1>5. OwnInv'
  BY DEF IInv, OwnInv, CurInv, InLoop, Running
<1>6. ScreenInv'
  BY DEF IInv, ScreenInv, InLoop, Running
<1>7. DrawnInv'
  BY DEF IInv, DrawnInv, InLoop, Running
<1>8. EndInv'
  BY DEF EndInv
<1>9. QED
  BY <1>1, <1>2, <1>3, <1>4, <1>5, <1>6, <1>7, <1>8 DEF IInv

LEMMA ModesetStep == IInv /\ Modeset => IInv'
<1> SUFFICES ASSUME IInv, Modeset PROVE IInv'
  OBVIOUS
<1> USE DEF Modeset, SetCrtc, outer, objects
<1>1. TypeOK'
  BY DEF IInv, TypeOK, KmsTypeOK, PCs
<1>2. SetupInv'
  BY DEF SetupInv
<1>3. ShownInv'
  BY DEF IInv, ShownInv, InLoop, Running, Presenting
<1>4. CurInv'
  BY DEF IInv, CurInv, Rendering, Presenting
<1>5. OwnInv'
  BY DEF IInv, OwnInv, InLoop, Running, Presenting
<1>6. ScreenInv'
  BY DEF IInv, ScreenInv, InLoop, Running, Presenting
<1>7. DrawnInv'
  BY DEF IInv, DrawnInv, InLoop, Running, Presenting
<1>8. EndInv'
  BY DEF EndInv
<1>9. QED
  BY <1>1, <1>2, <1>3, <1>4, <1>5, <1>6, <1>7, <1>8 DEF IInv

LEMMA FlipStep == IInv /\ Flip => IInv'
<1> SUFFICES ASSUME IInv, Flip PROVE IInv'
  OBVIOUS
<1> USE DEF Flip, PageFlip, outer, objects
<1>1. TypeOK'
  BY DEF IInv, TypeOK, KmsTypeOK, PCs, Fallible
<1>2. SetupInv'
  BY DEF SetupInv
<1>3. ShownInv'
  BY DEF IInv, ShownInv, InLoop, Running, Presenting
<1>4. CurInv'
  BY DEF IInv, CurInv, Rendering, Presenting
<1>5. OwnInv'
  BY DEF IInv, OwnInv, InLoop, Running, Presenting
<1>6. ScreenInv'
  BY DEF IInv, ScreenInv, FlipWaits, InLoop, Running, Presenting
<1>7. DrawnInv'
  BY DEF IInv, DrawnInv, InLoop, Running, Presenting
<1>8. EndInv'
  BY DEF EndInv
<1>9. QED
  BY <1>1, <1>2, <1>3, <1>4, <1>5, <1>6, <1>7, <1>8 DEF IInv

LEMMA FlipEventStep == IInv /\ FlipEvent => IInv'
<1> SUFFICES ASSUME IInv, FlipEvent PROVE IInv'
  OBVIOUS
<1> USE DEF FlipEvent, ReadFlipEvents, outer, objects
<1>1. TypeOK'
  BY DEF IInv, TypeOK, KmsTypeOK, PCs
<1>2. SetupInv'
  BY DEF SetupInv
<1>3. ShownInv'
  BY DEF IInv, ShownInv, InLoop, Running, Presenting
<1>4. CurInv'
  BY DEF IInv, CurInv, Rendering, Presenting
<1>5. OwnInv'
  BY DEF IInv, OwnInv, InLoop, Running, Presenting
<1>6. ScreenInv'
  BY DEF IInv, ScreenInv, FlipWaits, FlipOver
<1>7. DrawnInv'
  BY DEF IInv, DrawnInv, InLoop, Running, Presenting
<1>8. EndInv'
  BY DEF EndInv
<1>9. QED
  BY <1>1, <1>2, <1>3, <1>4, <1>5, <1>6, <1>7, <1>8 DEF IInv

(* Removed or stuck, the framebuffer is no longer one of the loop's, and   *)
(* one that is not displayed leaves the display alone.                     *)
LEMMA TryRmFbDoes ==
  ASSUME NEW f \in live, f \notin stuck, stuck \subseteq live, KmsTypeOK, TryRmFb(f)
  PROVE  /\ KmsTypeOK' /\ stuck' \subseteq FbIds
         /\ live' = (live \ {f}) \union stuck' /\ stuck' \subseteq stuck \union {f}
         /\ UNCHANGED <<fbOf, token, events>>
         /\ f \notin {scanout, pending} => UNCHANGED <<scanout, pending>>
         /\ \/ UNCHANGED <<scanout, pending>>
            \/ scanout' = NoFb /\ pending' = NoFb
<1>1. CASE RmFb(f) /\ UNCHANGED stuck
  BY <1>1 DEF RmFb, KmsTypeOK
<1>2. CASE stuck' = stuck \union {f} /\ UNCHANGED kms
  BY <1>2 DEF kms, KmsTypeOK
<1>3. QED
  BY <1>1, <1>2 DEF TryRmFb

(* The first frame retires nothing.                                        *)
LEMMA RetireNone ==
  ASSUME IInv, Retire
  PROVE  /\ n = 0 <=> shown = NoPair
         /\ shown = NoPair => UNCHANGED <<kms, stuck, locked>>
         /\ shown # NoPair =>
              /\ shown \in RealPair /\ shown.fb \in live /\ shown.fb \notin stuck
              /\ stuck \subseteq live
              /\ TryRmFb(shown.fb) /\ locked' = locked \ {shown.bo}
<1>1. pc = "retire" /\ pc \in Running
  BY DEF Retire, Running, InLoop, Presenting
<1>2. n = 0 <=> shown = NoPair
  BY <1>1 DEF IInv, ShownInv, RealPair, NoPair
<1>3. shown # NoPair => shown \in RealPair /\ shown.fb \in FbIds
  BY <1>1, <1>2 DEF IInv, ShownInv, RealPair
<1>4. QED
  BY <1>1, <1>2, <1>3 DEF IInv, OwnInv, Retire

LEMMA RetireStep == IInv /\ Retire => IInv'
<1> SUFFICES ASSUME IInv, Retire PROVE IInv'
  OBVIOUS
<1>1. /\ pc = "retire" /\ shown' = cur /\ cur' = NoPair /\ n' = n + 1
      /\ pc' = (IF n + 1 < Frames THEN "draw" ELSE "hold")
      /\ UNCHANGED <<back, front, gpu, got, content, verdict, objects>>
  BY DEF Retire, Advance, outer
<1>2. /\ n \in Nat /\ n < Frames /\ pc \in Presenting /\ pc \in Running
      /\ cur \in RealPair /\ cur.bo # shown.bo /\ cur.fb # shown.fb
      /\ fbOf[cur.fb] = cur.bo /\ content[cur.bo] = n
      /\ scanout = cur.fb /\ pending = NoFb /\ events = <<>>
      /\ locked = {shown.bo, cur.bo} \ {NoBuffer}
      /\ live = ({shown.fb, cur.fb} \ {NoFb}) \union stuck
      /\ shown.fb \notin stuck /\ cur.fb \notin stuck
      /\ KmsTypeOK /\ stuck \subseteq FbIds
  BY <1>1 DEF IInv, TypeOK, ShownInv, CurInv, ScreenInv, OwnInv, Presenting, Running, InLoop
<1>3. cur.fb \in FbIds /\ cur.bo \in Buffers /\ cur.fb # NoFb /\ cur.bo # NoBuffer
  BY <1>2 DEF RealPair
<1>4. /\ KmsTypeOK' /\ stuck' \subseteq FbIds
      /\ UNCHANGED <<scanout, pending, fbOf, events>>
      /\ locked' = {cur.bo}
      /\ live' = {cur.fb} \union stuck' /\ cur.fb \notin stuck'
  <2>1. CASE shown = NoPair
    <3>1. UNCHANGED <<kms, stuck, locked>>
      BY <2>1, RetireNone
    <3>2. KmsTypeOK'
      BY <1>2, <3>1 DEF KmsTypeOK, kms
    <3>3. QED
      BY <1>2, <1>3, <2>1, <3>1, <3>2 DEF kms, NoPair
  <2>2. CASE shown # NoPair
    <3>1. /\ shown \in RealPair /\ shown.fb \in live /\ shown.fb \notin stuck
          /\ stuck \subseteq live
          /\ TryRmFb(shown.fb) /\ locked' = locked \ {shown.bo}
      BY <2>2, RetireNone
    <3>2. shown.fb \in FbIds /\ shown.bo \in Buffers /\ shown.fb # NoFb
      BY <3>1 DEF RealPair
    <3>3. PICK f : f = shown.fb
      OBVIOUS
    <3>4. /\ KmsTypeOK' /\ stuck' \subseteq FbIds
          /\ live' = (live \ {f}) \union stuck' /\ stuck' \subseteq stuck \union {f}
          /\ UNCHANGED <<fbOf, token, events>>
          /\ f \notin {scanout, pending} => UNCHANGED <<scanout, pending>>
      BY <1>2, <3>1, <3>3, TryRmFbDoes
    <3>5. f \notin {scanout, pending}
      BY <1>2, <3>2, <3>3
    <3>6. live \ {f} = {cur.fb} \union stuck
      BY <1>2, <1>3, <3>2, <3>3
    <3>7. stuck \subseteq live \ {f} /\ stuck \subseteq stuck'
      <4>1. stuck \subseteq stuck'
        BY <3>1 DEF TryRmFb
      <4>2. QED
        BY <3>6, <4>1
    <3>8. QED
      BY <1>2, <1>3, <3>1, <3>2, <3>3, <3>4, <3>5, <3>6, <3>7
  <2>3. QED
    BY <2>1, <2>2
<1>5. TypeOK'
  <2>1. cur \in Pair /\ NoPair \in Pair /\ pc' \in PCs /\ n' \in 0 .. Frames
    BY <1>1, <1>2 DEF RealPair, Pair, NoPair, PCs, Fallible
  <2>2. QED
    BY <1>1, <1>2, <1>3, <1>4, <2>1 DEF IInv, TypeOK
<1>6. SetupInv'
  BY <1>1 DEF SetupInv
<1>7. ShownInv'
  BY <1>1, <1>2, <1>4 DEF ShownInv, InLoop, Rendering, Presenting
<1>8. CurInv'
  BY <1>1 DEF CurInv, Presenting
<1>9. OwnInv'
  <2>1. NoFb \notin stuck'
    BY <1>4
  <2>2. QED
    BY <1>1, <1>3, <1>4, <2>1 DEF OwnInv, NoPair
<1>10. ScreenInv'
  BY <1>1, <1>2, <1>4 DEF ScreenInv
<1>11. DrawnInv'
  BY <1>1, <1>2, <1>4 DEF IInv, DrawnInv
<1>12. EndInv'
  BY <1>1 DEF EndInv
<1>13. QED
  BY <1>5, <1>6, <1>7, <1>8, <1>9, <1>10, <1>11, <1>12 DEF IInv

LEMMA TeardownStep == IInv /\ Teardown => IInv'
<1> SUFFICES ASSUME IInv, Teardown PROVE IInv'
  OBVIOUS
<1>1. /\ pc = "hold" /\ pc' = "drop" /\ verdict' = "ok" /\ shown' = NoPair
      /\ TryRmFb(shown.fb) /\ locked' = locked \ {shown.bo}
      /\ UNCHANGED <<n, back, front, gpu, cur, got, content, objects>>
  BY DEF Teardown
<1>2. /\ n = Frames /\ n \in Nat \ {0} /\ cur = NoPair /\ shown \in RealPair
      /\ fbOf[shown.fb] = shown.bo /\ content[shown.bo] = n - 1
      /\ scanout = shown.fb /\ pending = NoFb
      /\ locked = {shown.bo, cur.bo} \ {NoBuffer}
      /\ live = ({shown.fb, cur.fb} \ {NoFb}) \union stuck
      /\ shown.fb \notin stuck
      /\ back = NoBuffer /\ front = NoBuffer /\ gpu = {}
      /\ KmsTypeOK /\ stuck \subseteq FbIds
  BY <1>1 DEF IInv, TypeOK, ShownInv, CurInv, ScreenInv, OwnInv, DrawnInv, Rendering, Running,
       InLoop, Presenting
<1>3. /\ shown.fb \in FbIds /\ shown.bo \in Buffers /\ shown.fb # NoFb
      /\ cur.fb = NoFb /\ cur.bo = NoBuffer
  BY <1>2 DEF RealPair, NoPair
<1>4. /\ KmsTypeOK' /\ stuck' \subseteq FbIds /\ UNCHANGED fbOf
      /\ live' \subseteq stuck' /\ locked' = {}
      /\ \/ scanout' = shown.fb /\ pending' = NoFb
         \/ scanout' = NoFb /\ pending' = NoFb
  <2>1. PICK f : f = shown.fb
    OBVIOUS
  <2>2. f \in live /\ f \notin stuck /\ stuck \subseteq live /\ TryRmFb(f)
    BY <1>1, <1>2, <1>3, <2>1
  <2>3. /\ KmsTypeOK' /\ stuck' \subseteq FbIds
        /\ live' = (live \ {f}) \union stuck' /\ UNCHANGED <<fbOf, token, events>>
        /\ UNCHANGED <<scanout, pending>> \/ (scanout' = NoFb /\ pending' = NoFb)
    BY <1>2, <2>2, TryRmFbDoes
  <2>4. live \ {f} = stuck /\ stuck \subseteq stuck'
    <3>1. stuck \subseteq stuck'
      BY <2>2 DEF TryRmFb
    <3>2. QED
      BY <1>2, <1>3, <2>1, <3>1
  <2>5. QED
    BY <1>1, <1>2, <1>3, <2>1, <2>3, <2>4
<1>5. TypeOK'
  BY <1>1, <1>2, <1>3, <1>4 DEF IInv, TypeOK, PCs, Pair, NoPair
<1>6. SetupInv' /\ ShownInv' /\ CurInv' /\ OwnInv' /\ ScreenInv' /\ DrawnInv'
  BY <1>1 DEF SetupInv, ShownInv, CurInv, OwnInv, ScreenInv, DrawnInv, InLoop, Running,
       Rendering, Presenting
<1>7. EndInv'
  BY <1>1, <1>2, <1>3, <1>4 DEF EndInv
<1>8. QED
  BY <1>5, <1>6, <1>7 DEF IInv

LEMMA SetUpStep == IInv /\ SetUp => IInv'
<1> SUFFICES ASSUME IInv, SetUp PROVE IInv'
  OBVIOUS
<1> USE DEF SetUp, Make, kms, frame
<1>1. TypeOK'
  BY DEF IInv, TypeOK, KmsTypeOK, PCs, Fallible
<1>2. SetupInv'
  BY DEF IInv, SetupInv
<1>3. ShownInv'
  BY DEF IInv, SetupInv, ShownInv
<1>4. CurInv'
  BY DEF IInv, SetupInv, CurInv, Presenting
<1>5. OwnInv'
  BY DEF IInv, SetupInv, OwnInv, NoPair
<1>6. ScreenInv'
  BY DEF IInv, SetupInv, ScreenInv, NoPair
<1>7. DrawnInv'
  BY DEF IInv, SetupInv, DrawnInv
<1>8. EndInv'
  BY DEF EndInv
<1>9. QED
  BY <1>1, <1>2, <1>3, <1>4, <1>5, <1>6, <1>7, <1>8 DEF IInv

LEMMA FailStep == IInv /\ Fail => IInv'
<1> SUFFICES ASSUME IInv, Fail PROVE IInv'
  OBVIOUS
<1>1. /\ pc \in Fallible /\ pc' = "drop" /\ verdict' = "error"
      /\ UNCHANGED <<kms, n, front, locked, cur, shown, stuck, got>>
  BY DEF Fail
<1>2. TypeOK'
  <2>1. /\ back' \in Buffers \union {NoBuffer} /\ gpu' \subseteq Buffers
        /\ content' \in [Buffers -> 0 .. Frames]
    BY DEF Fail, Render, IInv, TypeOK
  <2>2. QED
    BY <1>1, <2>1 DEF IInv, TypeOK, KmsTypeOK, PCs, kms
<1>3. SetupInv' /\ ShownInv' /\ CurInv' /\ OwnInv' /\ ScreenInv' /\ DrawnInv'
  BY <1>1 DEF SetupInv, ShownInv, CurInv, OwnInv, ScreenInv, DrawnInv, InLoop, Running,
       Rendering, Presenting
<1>4. EndInv'
  <2> USE <1>1 DEF kms
  <2>1. CASE pc = "setup"
    BY <2>1 DEF IInv, SetupInv, EndInv
  <2>2. CASE pc \in {"draw", "swap", "lock", "addfb", "present"}
    <3>1. /\ pc \in Running \ {"event", "retire"} /\ n \in Nat /\ n < Frames
          /\ scanout = shown.fb /\ pending = NoFb
          /\ locked = {shown.bo, cur.bo} \ {NoBuffer}
          /\ live = ({shown.fb, cur.fb} \ {NoFb}) \union stuck
          /\ shown \in Pair /\ cur \in Pair
      BY <2>2 DEF IInv, TypeOK, ShownInv, ScreenInv, OwnInv, Running, InLoop, Rendering,
           Presenting
    <3>2. IF n = 0 THEN shown = NoPair
          ELSE shown \in RealPair /\ fbOf[shown.fb] = shown.bo /\ content[shown.bo] = n - 1
      BY <3>1 DEF IInv, ShownInv
    <3>3. scanout # NoFb =>
            /\ fbOf[scanout] = shown.bo /\ shown.bo \in Buffers /\ shown.bo \in locked
            /\ content[shown.bo] < Frames
      BY <3>1, <3>2 DEF RealPair, NoPair
    <3>4. back \notin locked /\ front \notin locked /\ gpu \intersect locked = {}
      BY <3>1 DEF IInv, DrawnInv
    <3>5. scanout # NoFb =>
            /\ shown.bo \notin gpu' \union {back', front'}
            /\ content'[shown.bo] = content[shown.bo]
      <4>1. CASE UNCHANGED <<back, gpu, content>>
        BY <3>3, <3>4, <4>1
      <4>2. CASE Render
        BY <3>3, <3>4, <4>2 DEF Render, IInv, TypeOK
      <4>3. QED
        BY <4>1, <4>2 DEF Fail
    <3>6. /\ \E f, g \in FbIds \union {NoFb} : live \subseteq {f, g} \union stuck
          /\ \E a, b \in Buffers \union {NoBuffer} : locked \subseteq {a, b}
      BY <3>1 DEF Pair
    <3>7. QED
      BY <3>1, <3>3, <3>5, <3>6 DEF EndInv
  <2>3. CASE pc = "event"
    <3>1. UNCHANGED <<back, gpu, content>>
      BY <2>3 DEF Fail
    <3>2. QED
      BY <2>3, <3>1 DEF EndInv, IInv, TypeOK, ShownInv, CurInv, ScreenInv, FlipWaits, FlipOver,
           OwnInv, DrawnInv, RealPair, Running, InLoop, Presenting
  <2>4. QED
    BY <2>1, <2>2, <2>3 DEF Fallible
<1>5. QED
  BY <1>2, <1>3, <1>4 DEF IInv

LEMMA DropObjectStep == IInv /\ DropObject => IInv'
<1> SUFFICES ASSUME IInv, DropObject PROVE IInv'
  OBVIOUS
<1> USE DEF DropObject, CloseCard, kms
<1>a. KmsTypeOK'
  <2>1. CASE CloseCard
    BY <2>1 DEF KmsTypeOK
  <2>2. CASE UNCHANGED kms
    BY <2>2 DEF IInv, TypeOK, KmsTypeOK
  <2>3. QED
    BY <2>1, <2>2
<1>1. TypeOK'
  BY <1>a DEF IInv, TypeOK
<1>2. SetupInv'
  BY DEF SetupInv
<1>3. ShownInv'
  BY DEF ShownInv, InLoop, Running, Rendering, Presenting
<1>4. CurInv'
  BY DEF IInv, CurInv, Presenting
<1>5. OwnInv'
  BY DEF OwnInv, InLoop, Running, Rendering, Presenting
<1>6. ScreenInv'
  BY DEF ScreenInv, InLoop, Running, Rendering, Presenting
<1>7. DrawnInv'
  BY DEF IInv, DrawnInv
<1>8. EndInv'
  BY DEF EndInv, IInv
<1>9. QED
  BY <1>1, <1>2, <1>3, <1>4, <1>5, <1>6, <1>7, <1>8 DEF IInv

LEMMA ExitStep == IInv /\ Exit => IInv'
<1> SUFFICES ASSUME IInv, Exit PROVE IInv'
  OBVIOUS
<1> USE DEF Exit, kms, objects, frame
<1>1. TypeOK'
  BY DEF IInv, TypeOK, KmsTypeOK, PCs
<1>2. SetupInv'
  BY DEF SetupInv
<1>3. ShownInv'
  BY DEF ShownInv, InLoop, Running, Rendering, Presenting
<1>4. CurInv'
  BY DEF CurInv, Rendering, Presenting
<1>5. OwnInv'
  BY DEF OwnInv, InLoop, Running, Rendering, Presenting
<1>6. ScreenInv'
  BY DEF ScreenInv, InLoop, Running, Rendering, Presenting
<1>7. DrawnInv'
  BY DEF DrawnInv, InLoop, Running, Rendering, Presenting
<1>8. EndInv'
  BY DEF EndInv, IInv
<1>9. QED
  BY <1>1, <1>2, <1>3, <1>4, <1>5, <1>6, <1>7, <1>8 DEF IInv

LEMMA GpuDoneStep == IInv /\ GpuDone => IInv'
<1> SUFFICES ASSUME IInv, GpuDone PROVE IInv'
  OBVIOUS
<1> USE DEF GpuDone, kms, objects, frame
<1>1. TypeOK'
  BY DEF IInv, TypeOK, KmsTypeOK
<1>2. SetupInv'
  BY DEF IInv, SetupInv
<1>3. ShownInv'
  BY DEF IInv, ShownInv
<1>4. CurInv'
  BY DEF IInv, CurInv
<1>5. OwnInv'
  BY DEF IInv, OwnInv
<1>6. ScreenInv'
  BY DEF IInv, ScreenInv, FlipWaits, FlipOver
<1>7. DrawnInv'
  BY DEF IInv, DrawnInv
<1>8. EndInv'
  BY DEF EndInv, IInv
<1>9. QED
  BY <1>1, <1>2, <1>3, <1>4, <1>5, <1>6, <1>7, <1>8 DEF IInv

LEMMA DisplayVblankStep == IInv /\ DisplayVblank => IInv'
<1> SUFFICES ASSUME IInv, DisplayVblank PROVE IInv'
  OBVIOUS
<1> USE DEF DisplayVblank, Vblank, objects, frame
<1>a. pc \in Running => pc = "event" /\ FlipWaits /\ cur.fb \in FbIds /\ n \in Nat
  BY DEF IInv, TypeOK, ScreenInv, CurInv, FlipOver, RealPair, InLoop, Running, Rendering
<1>b. pc \in Running => scanout' = cur.fb /\ pending' = NoFb /\ events' = <<n>>
  BY <1>a DEF FlipWaits
<1>1. TypeOK'
  BY DEF IInv, TypeOK, KmsTypeOK
<1>2. SetupInv'
  BY DEF IInv, SetupInv
<1>3. ShownInv'
  BY DEF IInv, ShownInv
<1>4. CurInv'
  BY DEF IInv, CurInv
<1>5. OwnInv'
  BY DEF IInv, OwnInv
<1>6. ScreenInv'
  BY <1>a, <1>b DEF IInv, ScreenInv, FlipOver, InLoop, Running, Presenting
<1>7. DrawnInv'
  BY DEF IInv, DrawnInv
<1>8. EndInv'
  BY DEF EndInv, IInv
<1>9. QED
  BY <1>1, <1>2, <1>3, <1>4, <1>5, <1>6, <1>7, <1>8 DEF IInv

LEMMA InitIInv == Init => IInv
<1> SUFFICES ASSUME Init PROVE IInv
  OBVIOUS
<1> USE DEF Init, ScreenOff, NoPair
<1>1. TypeOK
  BY DEF TypeOK, KmsTypeOK, PCs, Fallible, Pair
<1>2. SetupInv /\ EndInv
  BY DEF SetupInv, EndInv
<1>3. ShownInv /\ CurInv /\ OwnInv /\ ScreenInv /\ DrawnInv
  BY DEF ShownInv, CurInv, OwnInv, ScreenInv, DrawnInv, Presenting
<1>4. QED
  BY <1>1, <1>2, <1>3 DEF IInv

LEMMA NextIInv == IInv /\ [Next]_vars => IInv'
<1> SUFFICES ASSUME IInv, [Next]_vars PROVE IInv'
  OBVIOUS
<1>1. CASE UNCHANGED vars
  <2> USE <1>1 DEF vars, kms, frame, IInv
  <2>1. TypeOK'
    BY DEF TypeOK, KmsTypeOK
  <2>2. SetupInv' /\ ShownInv' /\ CurInv' /\ OwnInv'
    BY DEF SetupInv, ShownInv, CurInv, OwnInv
  <2>3. ScreenInv' /\ DrawnInv' /\ EndInv'
    BY DEF ScreenInv, FlipWaits, FlipOver, DrawnInv, EndInv
  <2>4. QED
    BY <2>1, <2>2, <2>3
<1>2. QED
  BY <1>1, DrawStep, FinishStep, SwapStep, LockFrontStep, AddFrameFbStep, ModesetStep, FlipStep,
       FlipEventStep, RetireStep, TeardownStep, SetUpStep, FailStep, DropObjectStep, ExitStep,
       GpuDoneStep, DisplayVblankStep DEF Next, Program, Ended

(* The invariant holds from the setup to the exit.                         *)
THEOREM Invariance == Spec => []IInv
<1>1. QED
  BY InitIInv, NextIInv, PTL DEF Spec

(* The variables of wana-gl keep their types.                              *)
THEOREM TypeCorrect == Spec => []TypeOK
<1>1. IInv => TypeOK
  BY DEF IInv
<1>2. QED
  BY <1>1, Invariance, PTL

-----------------------------------------------------------------------------
(* The GPU, the display and the program never work on the same buffer.     *)
THEOREM BuffersNeverShared == Spec => []NoTearing
<1>1. IInv => NoTearing
  <2> SUFFICES ASSUME IInv PROVE NoTearing
    OBVIOUS
  <2>1. CASE pc \in {"drop", "exit"}
    BY <2>1 DEF IInv, EndInv, NoTearing, Displayed
  <2>2. CASE pc = "setup"
    BY <2>2 DEF IInv, SetupInv, NoTearing, Displayed
  <2>3. CASE pc \in Running
    <3>1. Displayed \subseteq locked /\ locked \subseteq Buffers
      BY <2>3 DEF IInv, ShownInv, CurInv, OwnInv, ScreenInv, FlipWaits, FlipOver, Displayed,
           RealPair, NoPair, Running, InLoop
    <3>2. (gpu \union {back, front}) \intersect locked = {}
      BY <2>3, <3>1 DEF IInv, DrawnInv
    <3>3. QED
      BY <3>1, <3>2 DEF NoTearing
  <2>4. QED
    BY <2>1, <2>2, <2>3 DEF IInv, TypeOK, PCs, Fallible, Running, InLoop, Rendering, Presenting
<1>2. QED
  BY <1>1, Invariance, PTL

LEMMA AtMostTwo ==
  ASSUME NEW S, NEW a, NEW b, S \subseteq {a, b}
  PROVE  IsFiniteSet(S) /\ Cardinality(S) <= 2
<1>1. IsFiniteSet({a}) /\ Cardinality({a}) = 1
  BY FS_Singleton
<1>2. {a, b} = {a} \union {b}
  OBVIOUS
<1>3. IsFiniteSet({a, b}) /\ Cardinality({a, b}) <= 2 /\ Cardinality({a, b}) \in Nat
  <2>1. /\ IsFiniteSet({a} \union {b})
        /\ Cardinality({a} \union {b}) = IF b \in {a} THEN 1 ELSE 1 + 1
    BY <1>1, FS_AddElement
  <2>2. QED
    BY <1>2, <2>1
<1>4. QED
  BY <1>3, FS_Subset, FS_CardinalityType

(* Two buffers, and two framebuffers besides those that could not be       *)
(* removed, are enough for any number of frames, whatever fails.           *)
THEOREM TwoAreEnough == Spec => []TwoBuffersSuffice
<1>1. IInv => TwoBuffersSuffice
  <2> SUFFICES ASSUME IInv PROVE TwoBuffersSuffice
    OBVIOUS
  <2>1. (\E f, g : live \ stuck \subseteq {f, g}) /\ (\E a, b : locked \subseteq {a, b})
    <3>1. CASE pc \in {"drop", "exit"}
      BY <3>1 DEF IInv, EndInv
    <3>2. CASE pc = "setup"
      BY <3>2 DEF IInv, SetupInv
    <3>3. CASE pc \in Running
      BY <3>3 DEF IInv, OwnInv
    <3>4. QED
      BY <3>1, <3>2, <3>3 DEF IInv, TypeOK, PCs, Fallible, Running, InLoop, Rendering,
           Presenting
  <2>2. Cardinality(live \ stuck) <= 2 /\ Cardinality(locked) <= 2
    BY <2>1, AtMostTwo
  <2>3. pc = "draw" => locked \union {front} \subseteq {shown.bo, NoBuffer}
    BY DEF IInv, OwnInv, CurInv, DrawnInv, NoPair, Running, InLoop, Rendering
  <2>4. pc = "draw" => Buffers \ (locked \union {front}) # {}
    BY <2>3, BuffersAssumption
  <2>5. QED
    BY <2>2, <2>4 DEF TwoBuffersSuffice
<1>2. QED
  BY <1>1, Invariance, PTL

(* No event is that of an earlier flip, although user_data is ignored.     *)
THEOREM EventsMatch == Spec => []EventIsOwnFlip
<1>1. IInv => EventIsOwnFlip
  BY DEF IInv, ScreenInv, EventIsOwnFlip, Running, InLoop, Presenting
<1>2. QED
  BY <1>1, Invariance, PTL

-----------------------------------------------------------------------------
(* What is alive: in the setup what its steps have made, in the loop       *)
(* everything, and at the end nothing whose maker is gone, but for what    *)
(* Egl::new had made when it failed.                                       *)
MadeBy(s) == {Setup[i] : i \in 1 .. s - 1} \intersect Objects

Closed(S) == \A o \in S : MadeFrom[o] \subseteq S

SetupObjects ==
  pc = "setup" => stage \in 1 .. 13 /\ (egl <=> stage > 10) /\ alive = MadeBy(stage)

LoopObjects == pc \in Running => egl /\ alive = Objects

HalfInv ==
  /\ alive \ HalfMade \subseteq {"card", "device", "surface"} /\ HalfMade \subseteq alive
  /\ "surface" \in alive => "device" \in alive
  /\ "device" \in alive => "card" \in alive

EndObjects ==
  pc \in {"drop", "exit"} =>
    /\ egl => Closed(alive)
    /\ ~ egl => HalfInv
    /\ "card" \notin alive => live = {} /\ scanout = NoFb
    /\ pc = "exit" => "card" \notin alive /\ alive = HalfMade

ObjInv ==
  /\ alive \subseteq Objects /\ egl \in BOOLEAN
  /\ SetupObjects /\ LoopObjects /\ EndObjects

LEMMA ObjectsAre ==
  Objects = {"card", "device", "surface", "display", "context", "eglsurface", "vshader",
             "fshader", "program"}
BY DEF Objects, MadeFrom

LEMMA MadeFromIs ==
  /\ MadeFrom["card"] = {} /\ MadeFrom["device"] = {"card"}
  /\ MadeFrom["surface"] = {"device"} /\ MadeFrom["display"] = {"device"}
  /\ MadeFrom["context"] = {"display"} /\ MadeFrom["eglsurface"] = {"display", "surface"}
  /\ MadeFrom["vshader"] = {"context"} /\ MadeFrom["fshader"] = {"context"}
  /\ MadeFrom["program"] = {"context", "vshader", "fshader"}
BY DEF MadeFrom

LEMMA SetupIs ==
  /\ Len(Setup) = 13
  /\ Setup[1] = "card" /\ Setup[2] = "device" /\ Setup[3] = "surface"
  /\ Setup[4] = "platform" /\ Setup[5] = "display" /\ Setup[6] = "api"
  /\ Setup[7] = "config" /\ Setup[8] = "context" /\ Setup[9] = "eglsurface"
  /\ Setup[10] = "current" /\ Setup[11] = "vshader" /\ Setup[12] = "fshader"
  /\ Setup[13] = "program"
BY DEF Setup

LEMMA HalfMadeIs ==
  /\ egl => HalfMade = {}
  /\ ~ egl => HalfMade = MadeBy(stage) \intersect {"eglsurface", "context", "display"}
  /\ HalfMade \subseteq {"eglsurface", "context", "display"}
<1>1. Range(EglDrops) = {"eglsurface", "context", "display"}
  BY DEF Range, EglDrops
<1>2. Range(EglDrops) \subseteq Objects
  BY <1>1, ObjectsAre
<1>3. QED
  BY <1>1, <1>2 DEF HalfMade, MadeBy

(* Every step of the setup comes after those that make what it needs.      *)
LEMMA MadeInOrder ==
  ASSUME NEW s \in 1 .. 13
  PROVE  Closed(MadeBy(s))
<1> SUFFICES ASSUME NEW i \in 1 .. s - 1, Setup[i] \in Objects, NEW q \in MadeFrom[Setup[i]]
             PROVE  q \in MadeBy(s)
  BY DEF Closed, MadeBy
<1>1. i \in 1 .. 12
  OBVIOUS
<1>2. \E j \in 1 .. i - 1 : Setup[j] = q
  <2>1. CASE i \in 1 .. 4
    BY <2>1, SetupIs, MadeFromIs, ObjectsAre
  <2>2. CASE i \in 5 .. 8
    BY <2>2, SetupIs, MadeFromIs, ObjectsAre
  <2>3. CASE i \in 9 .. 12
    BY <2>3, SetupIs, MadeFromIs, ObjectsAre
  <2>4. QED
    BY <1>1, <2>1, <2>2, <2>3
<1>3. q \in Objects
  BY <1>1, SetupIs, MadeFromIs, ObjectsAre
<1>4. QED
  BY <1>2, <1>3 DEF MadeBy

(* Once the context is current, all it needs has been made.                *)
LEMMA MadeWhenCurrent ==
  /\ MadeBy(11) = {"card", "device", "surface", "display", "context", "eglsurface"}
  /\ MadeBy(12) = MadeBy(11) \union {"vshader"}
  /\ MadeBy(13) = MadeBy(12) \union {"fshader"}
<1>1. /\ 1 .. 11 - 1 = {1, 2, 3, 4, 5, 6, 7, 8, 9, 10}
      /\ 1 .. 12 - 1 = {1, 2, 3, 4, 5, 6, 7, 8, 9, 10, 11}
      /\ 1 .. 13 - 1 = {1, 2, 3, 4, 5, 6, 7, 8, 9, 10, 11, 12}
  OBVIOUS
<1>2. MadeBy(11) = {"card", "device", "surface", "display", "context", "eglsurface"}
  BY <1>1, SetupIs, ObjectsAre DEF MadeBy
<1>3. MadeBy(12) = MadeBy(11) \union {"vshader"}
  BY <1>1, <1>2, SetupIs, ObjectsAre DEF MadeBy
<1>4. MadeBy(13) = MadeBy(12) \union {"fshader"}
  BY <1>1, <1>2, <1>3, SetupIs, ObjectsAre DEF MadeBy
<1>5. QED
  BY <1>2, <1>3, <1>4

LEMMA MadeNext ==
  ASSUME NEW s \in 1 .. 12
  PROVE  MadeBy(s + 1) = MadeBy(s) \union ({Setup[s]} \intersect Objects)
<1>1. 1 .. (s + 1) - 1 = (1 .. s - 1) \union {s}
  OBVIOUS
<1>2. QED
  BY <1>1 DEF MadeBy

LEMMA SetUpObjects == ObjInv /\ SetUp => ObjInv'
<1> SUFFICES ASSUME ObjInv, SetUp PROVE ObjInv'
  OBVIOUS
<1>1. stage \in 1 .. 13 /\ (egl <=> stage > 10) /\ alive = MadeBy(stage)
  BY DEF ObjInv, SetupObjects, SetUp
<1>2. stage' = stage + 1 /\ egl' = (egl \/ Setup[stage] = "current")
      /\ alive' = alive \union ({Setup[stage]} \intersect Objects)
  BY DEF SetUp, Make
<1>3. CASE stage < 13
  <2>1. stage \in 1 .. 12 /\ pc' = "setup"
    BY <1>1, <1>3, SetupIs DEF SetUp
  <2>2. Setup[stage] = "current" <=> stage = 10
    BY <2>1, SetupIs
  <2>3. alive' = MadeBy(stage')
    BY <1>1, <1>2, <2>1, MadeNext
  <2>4. stage' \in 1 .. 13 /\ (egl' <=> stage' > 10)
    <3>1. egl' <=> stage > 10 \/ stage = 10
      BY <1>1, <1>2, <2>2, Zenon
    <3>2. stage' = stage + 1
      BY <1>2
    <3>3. QED
      BY <2>1, <3>1, <3>2
  <2>5. alive' \subseteq Objects /\ egl' \in BOOLEAN
    BY <1>2, <2>3 DEF MadeBy, ObjInv
  <2>6. QED
    BY <2>1, <2>3, <2>4, <2>5 DEF ObjInv, SetupObjects, LoopObjects, EndObjects, Running, InLoop,
         Rendering, Presenting
<1>4. CASE stage = 13
  <2>1. pc' = "draw" /\ egl' /\ egl' \in BOOLEAN
    <3>1. stage > 10
      BY <1>4
    <3>2. pc' = "draw"
      BY <1>4, SetupIs DEF SetUp
    <3>3. QED
      BY <1>1, <1>2, <3>1, <3>2, Zenon DEF ObjInv
  <2>2. alive' = MadeBy(13) \union {"program"}
    BY <1>1, <1>2, <1>4, SetupIs, ObjectsAre
  <2>3. alive' = Objects
    BY <2>2, MadeWhenCurrent, ObjectsAre
  <2>4. QED
    BY <2>1, <2>3 DEF ObjInv, SetupObjects, LoopObjects, EndObjects
<1>5. QED
  BY <1>1, <1>3, <1>4

LEMMA LoopClosed == Closed(Objects) /\ "card" \in Objects
BY ObjectsAre, MadeFromIs DEF Closed

(* What Egl::new had made when it failed, beside what run owns.            *)
LEMMA HalfAtFirst ==
  ASSUME ~ egl, stage \in 1 .. 10, alive = MadeBy(stage)
  PROVE  HalfInv
<1>1. Closed(alive)
  BY MadeInOrder
<1>2. alive \subseteq MadeBy(11)
  BY DEF MadeBy
<1>3. alive \subseteq {"card", "device", "surface", "display", "context", "eglsurface"}
  BY <1>2, MadeWhenCurrent
<1>4. QED
  BY <1>1, <1>3, HalfMadeIs, MadeFromIs DEF HalfInv, Closed

(* An error may come at any step of the setup, and anywhere in the loop.   *)
LEMMA FailObjects == IInv /\ ObjInv /\ Fail => ObjInv'
<1> SUFFICES ASSUME IInv, ObjInv, Fail PROVE ObjInv'
  OBVIOUS
<1>1. pc' = "drop" /\ UNCHANGED <<live, scanout, egl, stage>>
  BY DEF Fail, MakeFails, kms, objects
<1>2. /\ alive' \subseteq alive /\ ("card" \in alive => "card" \in alive')
      /\ egl => Closed(alive')
      /\ ~ egl => alive' = alive /\ HalfInv
  <2>1. CASE pc = "setup"
    <3>1. stage \in 1 .. 13 /\ (egl <=> stage > 10) /\ alive = MadeBy(stage)
      BY <2>1 DEF ObjInv, SetupObjects
    <3>2. alive' = IF stage = 13 THEN alive \ Shaders ELSE alive
      BY <2>1, <3>1, SetupIs DEF Fail, MakeFails
    <3>3. egl => stage = 11 \/ stage = 12 \/ stage = 13
      BY <3>1
    <3>4. Closed(MadeBy(11)) /\ Closed(MadeBy(12)) /\ Closed(MadeBy(13) \ Shaders)
      BY MadeWhenCurrent, MadeFromIs DEF Closed, Shaders
    <3>5. egl => Closed(alive')
      BY <3>1, <3>2, <3>3, <3>4
    <3>6. ~ egl => stage \in 1 .. 10
      BY <3>1
    <3>7. ~ egl => alive' = alive /\ HalfInv
      BY <3>1, <3>2, <3>6, HalfAtFirst
    <3>8. QED
      BY <3>2, <3>5, <3>7 DEF Shaders
  <2>2. CASE pc # "setup"
    <3>1. pc \in Running /\ alive' = alive
      BY <2>2 DEF Fail, Fallible, objects, Running, InLoop, Rendering, Presenting
    <3>2. QED
      BY <3>1, LoopClosed DEF ObjInv, LoopObjects
  <2>3. QED
    BY <2>1, <2>2
<1>3. "card" \notin alive => live = {} /\ scanout = NoFb
  <2>1. CASE pc = "setup"
    BY <2>1 DEF IInv, SetupInv
  <2>2. CASE pc # "setup"
    <3>1. pc \in Running
      BY <2>2 DEF Fail, Fallible, Running, InLoop, Rendering, Presenting
    <3>2. QED
      BY <3>1, LoopClosed DEF ObjInv, LoopObjects
  <2>3. QED
    BY <2>1, <2>2
<1>4. ~ egl' => HalfInv'
  BY <1>1, <1>2 DEF HalfInv, HalfMade
<1>5. QED
  BY <1>1, <1>2, <1>3, <1>4 DEF ObjInv, SetupObjects, LoopObjects, EndObjects, Running, InLoop,
       Rendering, Presenting

LEMMA DropOrderIs ==
  /\ egl => /\ DOMAIN DropOrder = 1 .. 6
            /\ DropOrder[1] = "eglsurface" /\ DropOrder[2] = "context"
            /\ DropOrder[3] = "display" /\ DropOrder[4] = "surface"
            /\ DropOrder[5] = "device" /\ DropOrder[6] = "card"
  /\ ~ egl => /\ DOMAIN DropOrder = 1 .. 3
              /\ DropOrder[1] = "surface" /\ DropOrder[2] = "device" /\ DropOrder[3] = "card"
<1>1. CASE egl
  <2>1. DropOrder = <<"eglsurface", "context", "display">> \o <<"surface", "device", "card">>
    BY <1>1 DEF DropOrder, EglDrops, RunDrops
  <2>2. /\ <<"eglsurface", "context", "display">> \in Seq(Objects)
        /\ <<"surface", "device", "card">> \in Seq(Objects)
    BY ObjectsAre
  <2>3. QED
    BY <1>1, <2>1, <2>2, ConcatProperties
<1>2. CASE ~ egl
  <2>1. DropOrder = <<>> \o <<"surface", "device", "card">>
    BY <1>2 DEF DropOrder, RunDrops
  <2>2. DropOrder = <<"surface", "device", "card">>
    BY <2>1
  <2>3. QED
    BY <1>2, <2>2
<1>3. QED
  BY <1>1, <1>2

LEMMA OfContextIs == OfContext = {"vshader", "fshader", "program"}
BY ObjectsAre, MadeFromIs DEF OfContext

(* Nothing alive was made from the object that is destroyed next.          *)
LEMMA DropKeepsClosed ==
  ASSUME alive \subseteq Objects, egl, Closed(alive), Drop
  PROVE  Closed(alive')
<1>1. PICK i \in Dropping :
        /\ \A j \in Dropping : i <= j
        /\ alive' = alive \ ({DropOrder[i]} \union
                               (IF DropOrder[i] = "context" THEN OfContext ELSE {}))
  BY DEF Drop
<1>2. i \in 1 .. 6 /\ DropOrder[i] \in alive
  BY <1>1, DropOrderIs DEF Dropping
<1>3. \A j \in 1 .. 6 : j < i => DropOrder[j] \notin alive
  <2>1. SUFFICES ASSUME NEW j \in 1 .. 6, j < i, DropOrder[j] \in alive PROVE FALSE
    OBVIOUS
  <2>2. j \in Dropping
    BY <2>1, DropOrderIs DEF Dropping
  <2>3. QED
    BY <1>1, <1>2, <2>1, <2>2
<1>4. ASSUME NEW p \in alive', NEW q \in MadeFrom[p] PROVE q \in alive'
  <2>1. p \in alive /\ p \in Objects /\ q \in alive
    BY <1>1, <1>4 DEF Closed
  <2>2. CASE i = 1
    BY <1>1, <1>4, <2>1, <2>2, DropOrderIs, ObjectsAre, MadeFromIs
  <2>3. CASE i = 2
    BY <1>1, <1>4, <2>1, <2>3, DropOrderIs, ObjectsAre, MadeFromIs, OfContextIs
  <2>4. CASE i = 3
    <3>1. DropOrder[1] \notin alive /\ DropOrder[2] \notin alive
      BY <1>3, <2>4
    <3>2. QED
      BY <1>1, <1>4, <2>1, <2>4, <3>1, DropOrderIs, ObjectsAre, MadeFromIs
  <2>5. CASE i = 4
    <3>1. DropOrder[1] \notin alive
      BY <1>3, <2>5
    <3>2. QED
      BY <1>1, <1>4, <2>1, <2>5, <3>1, DropOrderIs, ObjectsAre, MadeFromIs
  <2>6. CASE i = 5
    <3>1. DropOrder[3] \notin alive /\ DropOrder[4] \notin alive
      BY <1>3, <2>6
    <3>2. QED
      BY <1>1, <1>4, <2>1, <2>6, <3>1, DropOrderIs, ObjectsAre, MadeFromIs
  <2>7. CASE i = 6
    <3>1. DropOrder[5] \notin alive
      BY <1>3, <2>7
    <3>2. QED
      BY <1>1, <1>4, <2>1, <2>7, <3>1, DropOrderIs, ObjectsAre, MadeFromIs
  <2>8. QED
    BY <1>2, <2>2, <2>3, <2>4, <2>5, <2>6, <2>7
<1>5. QED
  BY <1>4 DEF Closed

(* Nor when Egl::new has failed, from those of the objects run owns.       *)
LEMMA DropKeepsHalf ==
  ASSUME ~ egl, HalfInv, Drop
  PROVE  HalfInv'
<1>1. PICK i \in Dropping :
        /\ \A j \in Dropping : i <= j
        /\ alive' = alive \ ({DropOrder[i]} \union
                               (IF DropOrder[i] = "context" THEN OfContext ELSE {}))
  BY DEF Drop
<1>2. i \in 1 .. 3 /\ DropOrder[i] \in alive
  BY <1>1, DropOrderIs DEF Dropping
<1>3. \A j \in 1 .. 3 : j < i => DropOrder[j] \notin alive
  <2>1. SUFFICES ASSUME NEW j \in 1 .. 3, j < i, DropOrder[j] \in alive PROVE FALSE
    OBVIOUS
  <2>2. j \in Dropping
    BY <2>1, DropOrderIs DEF Dropping
  <2>3. QED
    BY <1>1, <1>2, <2>1, <2>2
<1>4. DropOrder[i] \in {"card", "device", "surface"} /\ alive' = alive \ {DropOrder[i]}
  BY <1>1, <1>2, DropOrderIs
<1>5. HalfMade' = HalfMade /\ HalfMade \subseteq {"eglsurface", "context", "display"}
  BY HalfMadeIs DEF Drop, HalfMade
<1>6. alive' \ HalfMade \subseteq {"card", "device", "surface"} /\ HalfMade \subseteq alive'
  BY <1>4, <1>5 DEF HalfInv
<1>7. /\ "surface" \in alive' => "device" \in alive'
      /\ "device" \in alive' => "card" \in alive'
  <2>1. CASE i = 1
    BY <1>4, <2>1, DropOrderIs DEF HalfInv
  <2>2. CASE i = 2
    <3>1. "surface" \notin alive
      BY <1>3, <2>2, DropOrderIs
    <3>2. QED
      BY <1>4, <2>2, <3>1, DropOrderIs DEF HalfInv
  <2>3. CASE i = 3
    <3>1. "device" \notin alive
      BY <1>3, <2>3, DropOrderIs
    <3>2. QED
      BY <1>4, <2>3, <3>1, DropOrderIs DEF HalfInv
  <2>4. QED
    BY <1>2, <2>1, <2>2, <2>3
<1>8. QED
  BY <1>5, <1>6, <1>7 DEF HalfInv

LEMMA DropObjects == ObjInv /\ DropObject => ObjInv'
<1> SUFFICES ASSUME ObjInv, DropObject PROVE ObjInv'
  OBVIOUS
<1>1. pc = "drop" /\ pc' = "drop" /\ egl' = egl /\ Drop
  BY DEF DropObject, Drop
<1>2. alive' \subseteq alive
  BY <1>1 DEF Drop
<1>3. (egl' => Closed(alive')) /\ (~ egl' => HalfInv')
  BY <1>1, DropKeepsClosed, DropKeepsHalf DEF ObjInv, EndObjects
<1>4. "card" \notin alive' => live' = {} /\ scanout' = NoFb
  <2>1. CASE "card" \in Destroyed
    BY <2>1 DEF DropObject, CloseCard
  <2>2. CASE "card" \notin Destroyed
    <3>1. UNCHANGED <<live, scanout>>
      BY <2>2 DEF DropObject, kms
    <3>2. QED
      BY <1>1, <2>2, <3>1 DEF Destroyed, ObjInv, EndObjects
  <2>3. QED
    BY <2>1, <2>2
<1>5. QED
  BY <1>1, <1>2, <1>3, <1>4 DEF ObjInv, SetupObjects, LoopObjects, EndObjects, Running, InLoop,
       Rendering, Presenting

(* When no drop is to come, the card is closed and all that run and Egl    *)
(* own is gone.                                                            *)
LEMMA ExitObjects == ObjInv /\ Exit => ObjInv'
<1> SUFFICES ASSUME ObjInv, Exit PROVE ObjInv'
  OBVIOUS
<1>1. /\ pc = "drop" /\ pc' = "exit" /\ Dropping = {}
      /\ UNCHANGED <<alive, egl, stage, live, scanout>>
  BY DEF Exit, kms, objects
<1>2. "card" \notin alive
  BY <1>1, DropOrderIs DEF Dropping
<1>3. egl => alive = {}
  <2>1. SUFFICES ASSUME egl, NEW o \in alive PROVE FALSE
    OBVIOUS
  <2>2. \A i \in 1 .. 6 : DropOrder[i] \notin alive
    BY <1>1, <2>1, DropOrderIs DEF Dropping
  <2>3. o \in {"vshader", "fshader", "program"}
    BY <2>1, <2>2, DropOrderIs, ObjectsAre DEF ObjInv
  <2>4. "context" \in alive
    BY <1>1, <2>1, <2>3, MadeFromIs DEF ObjInv, EndObjects, Closed
  <2>5. QED
    BY <2>1, <2>2, <2>4, DropOrderIs
<1>4. ~ egl => alive = HalfMade
  <2>1. SUFFICES ASSUME ~ egl PROVE alive = HalfMade
    OBVIOUS
  <2>2. \A i \in 1 .. 3 : DropOrder[i] \notin alive
    BY <1>1, <2>1, DropOrderIs DEF Dropping
  <2>3. alive \intersect {"card", "device", "surface"} = {}
    BY <2>1, <2>2, DropOrderIs
  <2>4. QED
    BY <1>1, <2>1, <2>3 DEF ObjInv, EndObjects, HalfInv
<1>5. alive' = HalfMade' /\ (~ egl' => HalfInv')
  BY <1>1, <1>3, <1>4, HalfMadeIs DEF HalfMade, HalfInv, ObjInv, EndObjects
<1>6. QED
  BY <1>1, <1>2, <1>3, <1>5 DEF ObjInv, SetupObjects, LoopObjects, EndObjects, Running, InLoop,
       Rendering, Presenting, Closed

LEMMA NextObjInv == IInv /\ ObjInv /\ [Next]_vars => ObjInv'
<1> SUFFICES ASSUME IInv, ObjInv, [Next]_vars PROVE ObjInv'
  OBVIOUS
<1>1. CASE Draw \/ Finish \/ Swap \/ LockFront \/ AddFrameFb \/ Modeset \/ Flip \/ FlipEvent
           \/ Retire
  <2>1. pc \in Running /\ pc' \in Running /\ UNCHANGED objects
    BY <1>1 DEF Draw, Finish, Swap, LockFront, AddFrameFb, Modeset, Flip, FlipEvent, Retire,
         Advance, outer, Running, InLoop, Rendering, Presenting
  <2>2. QED
    BY <2>1 DEF ObjInv, SetupObjects, LoopObjects, EndObjects, objects, Running, InLoop, Rendering,
         Presenting
<1>2. CASE Teardown
  <2>1. pc \in Running /\ pc' = "drop" /\ UNCHANGED objects
    BY <1>2 DEF Teardown, Running
  <2>2. QED
    BY <2>1, LoopClosed DEF ObjInv, SetupObjects, LoopObjects, EndObjects, objects, Running, InLoop,
         Rendering, Presenting
<1>3. CASE DisplayVblank
  <2>1. UNCHANGED <<objects, pc>> /\ UNCHANGED live /\ pending # NoFb
    BY <1>3 DEF DisplayVblank, Vblank
  <2>2. pc \in {"drop", "exit"} => "card" \in alive
    BY <2>1 DEF IInv, EndInv, ObjInv, EndObjects
  <2>3. QED
    BY <2>1, <2>2 DEF ObjInv, SetupObjects, LoopObjects, EndObjects, HalfInv, HalfMade, objects
<1>4. CASE GpuDone \/ Ended \/ UNCHANGED vars
  BY <1>4 DEF GpuDone, Ended, vars, kms, objects, ObjInv, SetupObjects, LoopObjects, EndObjects,
       HalfInv, HalfMade
<1>5. QED
  BY <1>1, <1>2, <1>3, <1>4, SetUpObjects, FailObjects, DropObjects, ExitObjects DEF Next, Program

(* Whatever fails, and whenever: no object outlives what it was made from  *)
(* and none is left at the exit, but exactly for what Egl::new had made    *)
(* when it failed; and no run ends with a frame on the screen, with a      *)
(* framebuffer or with the card open.                                      *)
THEOREM CleanDrops == Spec => []DropsClean
<1>1. Init => ObjInv
  <2>1. MadeBy(1) = {}
    BY DEF MadeBy
  <2> SUFFICES ASSUME Init PROVE ObjInv
    OBVIOUS
  <2>2. stage = 1 /\ alive = {} /\ pc = "setup"
    BY DEF Init, NoObjects
  <2>3. ~ egl /\ egl \in BOOLEAN
    BY Zenon DEF Init, NoObjects
  <2>4. QED
    BY <2>1, <2>2, <2>3 DEF ObjInv, SetupObjects, LoopObjects, EndObjects, Running, InLoop,
         Rendering, Presenting
<1>2. IInv /\ ObjInv => DropsClean
  <2> SUFFICES ASSUME IInv, ObjInv PROVE DropsClean
    OBVIOUS
  <2>1. CASE pc = "setup"
    <3>1. stage \in 1 .. 13 /\ (egl <=> stage > 10) /\ alive = MadeBy(stage)
      BY <2>1 DEF ObjInv, SetupObjects
    <3>2. Closed(alive)
      BY <3>1, MadeInOrder
    <3>3. QED
      BY <2>1, <3>2 DEF DropsClean, Closed, IInv, SetupInv
  <2>2. CASE pc \in Running
    BY <2>2, LoopClosed DEF DropsClean, Closed, ObjInv, LoopObjects, Running, InLoop, Rendering,
         Presenting
  <2>3. CASE pc \in {"drop", "exit"}
    <3>1. \A o \in alive : MadeFrom[o] \subseteq alive \/ o \in HalfMade
      <4>1. CASE egl
        BY <2>3, <4>1 DEF ObjInv, EndObjects, Closed
      <4>2. CASE ~ egl
        BY <2>3, <4>2, MadeFromIs DEF ObjInv, EndObjects, HalfInv
      <4>3. QED
        BY <4>1, <4>2
    <3>2. QED
      BY <2>3, <3>1 DEF DropsClean, ObjInv, EndObjects
  <2>4. QED
    BY <2>1, <2>2, <2>3 DEF IInv, TypeOK, PCs, Fallible, Running, InLoop, Rendering, Presenting
<1>3. QED
  BY <1>1, <1>2, NextObjInv, Invariance, PTL DEF Spec

-----------------------------------------------------------------------------
(* What the viewer sees in the loop: the frame before, or this one once    *)
(* it has been put on the screen.                                          *)
Over == pc \in {"drop", "exit"} /\ scanout = NoFb

ShownNow == pc = "retire" \/ (pc = "event" /\ pending = NoFb)

LEMMA SeenInLoop ==
  IInv /\ pc \in Running \union {"setup"} => Screen = IF ShownNow THEN n ELSE n - 1
<1> SUFFICES ASSUME IInv, pc \in Running \union {"setup"}
             PROVE  Screen = IF ShownNow THEN n ELSE n - 1
  OBVIOUS
<1>1. CASE pc = "setup"
  BY <1>1 DEF IInv, SetupInv, Screen, ShownNow
<1>2. CASE pc \in Running
  <2>1. NoTearing
    BY <1>2 DEF IInv, TypeOK, ShownInv, CurInv, ScreenInv, FlipWaits, FlipOver, DrawnInv,
         NoTearing, Displayed, RealPair, NoPair, Running, InLoop
  <2>2. scanout # NoFb => fbOf[scanout] \notin gpu \union {back, front}
    BY <2>1 DEF NoTearing, Displayed
  <2>3. CASE ShownNow
    <3>1. scanout = cur.fb /\ cur.fb \in FbIds /\ content[fbOf[cur.fb]] = n
      BY <1>2, <2>3 DEF ShownNow, IInv, CurInv, ScreenInv, FlipWaits, FlipOver, RealPair,
           Presenting
    <3>2. QED
      BY <2>2, <2>3, <3>1 DEF Screen
  <2>4. CASE ~ ShownNow
    <3>1. scanout = shown.fb
      BY <1>2, <2>4 DEF ShownNow, IInv, ScreenInv, FlipWaits, FlipOver
    <3>2. IF n = 0 THEN scanout = NoFb
                   ELSE scanout # NoFb /\ content[fbOf[scanout]] = n - 1
      BY <1>2, <3>1 DEF IInv, ShownInv, RealPair, NoPair
    <3>3. QED
      BY <2>2, <2>4, <3>2 DEF Screen
  <2>5. QED
    BY <2>3, <2>4
<1>3. QED
  BY <1>1, <1>2

LEMMA SeenInLoopNext ==
  IInv' /\ pc' \in Running \union {"setup"} => Screen' = IF ShownNow' THEN n' ELSE n' - 1
<1>1. (IInv /\ pc \in Running \union {"setup"} => Screen = IF ShownNow THEN n ELSE n - 1)'
  BY SeenInLoop, PTL
<1>2. QED
  BY <1>1

(* At the end the screen shows a frame until it goes off for good.         *)
LEMMA SeenAtEnd ==
  IInv /\ pc \in {"drop", "exit"} =>
    Screen = IF scanout = NoFb THEN 0 - 1 ELSE content[fbOf[scanout]]
BY DEF IInv, EndInv, Screen

LEMMA SeenAtEndNext ==
  IInv' /\ pc' \in {"drop", "exit"} =>
    Screen' = IF scanout' = NoFb THEN 0 - 1 ELSE content'[fbOf'[scanout']]
<1>1. (IInv /\ pc \in {"drop", "exit"} =>
         Screen = IF scanout = NoFb THEN 0 - 1 ELSE content[fbOf[scanout]])'
  BY SeenAtEnd, PTL
<1>2. QED
  BY <1>1

(* The steps a viewer sees: the next frame, the end, or nothing new.       *)
Shows == ~ Over /\ ~ Over' /\ Screen' = Screen + 1 /\ Screen' < Frames
GoesOff == ~ Over /\ Over' /\ Screen' = 0 - 1
Same == (Over' <=> Over) /\ Screen' = Screen

LEMMA ViewerStep ==
  IInv /\ IInv' /\ [Next]_vars => Shows \/ GoesOff \/ Same
<1> SUFFICES ASSUME IInv, IInv', [Next]_vars PROVE Shows \/ GoesOff \/ Same
  OBVIOUS
<1> DEFINE Busy == Running \union {"setup"}
<1> USE DEF Shows, GoesOff, Same
<1>1. pc \in Busy => ~ Over
  BY DEF Over, Running, InLoop, Rendering, Presenting
<1>2. pc' \in Busy => ~ Over'
  BY DEF Over, Running, InLoop, Rendering, Presenting
<1>3. n \in Nat
  BY DEF IInv, TypeOK
<1>4. CASE SetUp \/ Draw \/ Finish \/ Swap \/ LockFront \/ AddFrameFb \/ Flip
  <2>1. pc \in Busy /\ pc' \in Busy /\ n' = n /\ ~ ShownNow
    BY <1>4 DEF SetUp, Draw, Finish, Swap, LockFront, AddFrameFb, Flip, frame, ShownNow,
         Running, InLoop, Rendering, Presenting
  <2>2. ~ ShownNow'
    BY <1>4 DEF SetUp, Draw, Finish, Swap, LockFront, AddFrameFb, Flip, PageFlip, ShownNow,
         IInv, CurInv, RealPair, Presenting
  <2>3. QED
    BY <1>1, <1>2, <2>1, <2>2, SeenInLoop, SeenInLoopNext
<1>5. CASE Modeset
  <2>1. pc \in Busy /\ pc' \in Busy /\ n = 0 /\ n' = n /\ ~ ShownNow /\ ShownNow'
    BY <1>5 DEF Modeset, ShownNow, Running, InLoop, Presenting
  <2>2. QED
    BY <1>1, <1>2, <2>1, SeenInLoop, SeenInLoopNext
<1>6. CASE FlipEvent
  <2>1. pc \in Busy /\ pc' \in Busy /\ n' = n /\ ShownNow /\ ShownNow'
    BY <1>6 DEF FlipEvent, ReadFlipEvents, ShownNow, IInv, ScreenInv, Running, InLoop,
         Presenting
  <2>2. QED
    BY <1>1, <1>2, <2>1, SeenInLoop, SeenInLoopNext
<1>7. CASE Retire
  <2>1. pc \in Busy /\ pc' \in Busy /\ n' = n + 1 /\ ShownNow /\ ~ ShownNow'
    BY <1>7 DEF Retire, Advance, ShownNow, Running, InLoop, Rendering, Presenting
  <2>2. QED
    BY <1>1, <1>2, <1>3, <2>1, SeenInLoop, SeenInLoopNext
<1>8. CASE Teardown
  <2>1. pc \in Busy /\ pc' = "drop" /\ content' = content /\ ~ ShownNow
    BY <1>8 DEF Teardown, ShownNow, Running
  <2>2. scanout = shown.fb /\ pending = NoFb
    BY <1>8 DEF Teardown, IInv, ScreenInv, Running, InLoop, Rendering, Presenting
  <2>3. CASE UNCHANGED kms
    <3>1. shown \in RealPair /\ scanout # NoFb
      BY <1>8, <2>2 DEF Teardown, IInv, ShownInv, RealPair, Running
    <3>2. UNCHANGED <<gpu, back, front, content>>
      BY <1>8 DEF Teardown
    <3>3. Screen' = Screen /\ ~ Over'
      BY <2>3, <3>1, <3>2 DEF Screen, Over, kms
    <3>4. QED
      BY <1>1, <2>1, <3>3
  <2>4. CASE RmFb(shown.fb)
    <3>1. scanout' = NoFb
      BY <2>2, <2>4 DEF RmFb
    <3>2. QED
      BY <1>1, <2>1, <3>1, SeenAtEndNext DEF Over
  <2>5. QED
    BY <1>8, <2>3, <2>4 DEF Teardown, TryRmFb
<1>9. CASE Fail
  <2>1. pc \in Busy /\ pc' = "drop" /\ UNCHANGED <<kms, front>>
    BY <1>9 DEF Fail, Fallible, Running, InLoop, Rendering, Presenting
  <2>2. Screen' = Screen
    <3>1. CASE UNCHANGED <<back, gpu, content>>
      BY <2>1, <3>1 DEF Screen, kms
    <3>2. CASE pc = "draw" /\ Render
      <4>1. CASE scanout = NoFb
        BY <2>1, <4>1 DEF Screen, kms
      <4>2. CASE scanout # NoFb
        <5>1. /\ scanout = shown.fb /\ shown \in RealPair /\ fbOf[shown.fb] = shown.bo
              /\ shown.bo \in locked
          BY <3>2, <4>2 DEF IInv, ShownInv, ScreenInv, OwnInv, NoPair, RealPair, Running,
               InLoop, Rendering
        <5>2. shown.bo \notin gpu \union {back, front}
          BY <3>2, <5>1 DEF IInv, DrawnInv, RealPair, Running, InLoop, Rendering
        <5>3. /\ shown.bo \notin gpu' \union {back', front'}
              /\ content'[shown.bo] = content[shown.bo]
          BY <2>1, <3>2, <5>1, <5>2 DEF Render, IInv, TypeOK, RealPair
        <5>4. QED
          BY <2>1, <5>1, <5>2, <5>3 DEF Screen, kms
      <4>3. QED
        BY <4>1, <4>2
    <3>3. QED
      BY <1>9, <3>1, <3>2 DEF Fail
  <2>3. CASE scanout = NoFb
    BY <1>1, <2>1, <2>2, <2>3 DEF Screen
  <2>4. CASE scanout # NoFb
    BY <1>1, <2>1, <2>2, <2>4 DEF Over, kms
  <2>5. QED
    BY <2>3, <2>4
<1>10. CASE DropObject
  <2>1. pc = "drop" /\ pc' = "drop" /\ content' = content
    BY <1>10 DEF DropObject
  <2>2. CASE CloseCard
    BY <2>1, <2>2, SeenAtEnd, SeenAtEndNext DEF CloseCard, Over
  <2>3. CASE UNCHANGED kms
    BY <2>1, <2>3, SeenAtEnd, SeenAtEndNext DEF kms, Over
  <2>4. QED
    BY <1>10, <2>2, <2>3 DEF DropObject
<1>11. CASE Exit
  BY <1>11, SeenAtEnd, SeenAtEndNext DEF Exit, kms, Over
<1>12. CASE GpuDone
  <2>1. CASE pc \in Busy
    <3>1. pc' = pc /\ n' = n /\ (ShownNow' <=> ShownNow)
      BY <1>12 DEF GpuDone, frame, kms, ShownNow
    <3>2. QED
      BY <1>1, <1>2, <2>1, <3>1, SeenInLoop, SeenInLoopNext
  <2>2. CASE pc \in {"drop", "exit"}
    BY <1>12, <2>2, SeenAtEnd, SeenAtEndNext DEF GpuDone, kms, Over
  <2>3. QED
    BY <2>1, <2>2 DEF IInv, TypeOK, PCs, Fallible, Running, InLoop, Rendering, Presenting
<1>13. CASE DisplayVblank
  <2>1. CASE pc \in Busy
    <3>1. pc = "event" /\ pc' = "event" /\ n' = n /\ n < Frames
      BY <1>13, <2>1 DEF DisplayVblank, Vblank, frame, IInv, SetupInv, ShownInv, ScreenInv,
           Running
    <3>2. ~ ShownNow /\ ShownNow'
      BY <1>13, <3>1 DEF DisplayVblank, Vblank, ShownNow
    <3>3. QED
      BY <1>1, <1>2, <1>3, <2>1, <3>1, <3>2, SeenInLoop, SeenInLoopNext
  <2>2. CASE pc \in {"drop", "exit"}
    <3>1. /\ pc' = pc /\ content' = content /\ fbOf' = fbOf
          /\ pending # NoFb /\ scanout' = pending /\ scanout # NoFb
          /\ content[fbOf[pending]] = content[fbOf[scanout]] + 1
          /\ content[fbOf[pending]] < Frames
      BY <1>13, <2>2 DEF DisplayVblank, Vblank, IInv, EndInv
    <3>2. QED
      BY <2>2, <3>1, SeenAtEnd, SeenAtEndNext DEF Over
  <2>3. QED
    BY <2>1, <2>2 DEF IInv, TypeOK, PCs, Fallible, Running, InLoop, Rendering, Presenting
<1>14. CASE UNCHANGED vars
  BY <1>14 DEF vars, kms, frame, Screen, Over
<1>15. QED
  BY <1>4, <1>5, <1>6, <1>7, <1>8, <1>9, <1>10, <1>11, <1>12, <1>13, <1>14 DEF Next, Program,
       Ended

(* Frame after frame, whole, in order and none left out: every behaviour   *)
(* of wana-gl is one of Presentation to the viewer.                        *)
THEOREM ShownInOrder == Spec => ShowsEveryFrame
<1>1. Init => Viewer!Init
  BY DEF Init, ScreenOff, Viewer!Init, Screen
<1>2. IInv /\ IInv' /\ [Next]_vars => [Viewer!Next]_<<Screen, Over>>
  <2> SUFFICES ASSUME IInv, IInv', [Next]_vars PROVE [Viewer!Next]_<<Screen, Over>>
    OBVIOUS
  <2>1. CASE Shows
    BY <2>1 DEF Shows, Viewer!Next, Viewer!ShowNext, Over
  <2>2. CASE GoesOff
    BY <2>2 DEF GoesOff, Viewer!Next, Viewer!GoOff, Over
  <2>3. CASE Same
    BY <2>3 DEF Same
  <2>4. QED
    BY <2>1, <2>2, <2>3, ViewerStep
<1>3. QED
  BY <1>1, <1>2, Invariance, PTL DEF Spec, ShowsEveryFrame, Viewer!Spec, Over

=============================================================================
