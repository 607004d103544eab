--------------------------- MODULE WanaKmsProofs ----------------------------
(***************************************************************************)
(* wana-kms for any number of flips, buffers and framebuffer ids: only the *)
(* pattern is shown, flips alternate and are counted once, and in the end   *)
(* nothing is left of the buffers and the screen, whatever fails.          *)
(***************************************************************************)
EXTENDS WanaKms, TLAPS

Entry == [buf : Buffers, fb : FbIds]

Making == {"create", "map", "addfb", "modeset"}
Flipping == {"flip", "event", "measure"}
Late == {"hold", "teardown", "close", "done"}

(* What has been made: the list is the framebuffers and the handles. *)
Count ==
  /\ pc = "modeset" \/ pc \in Flipping \/ pc = "hold" => Len(bufs) = 2
  /\ pc \in {"create", "map", "addfb"} => Len(bufs) < 2
  /\ making \in Buffers <=> pc \in {"map", "addfb"}
  /\ pc \in {"close", "done", "failed"} => bufs = <<>>

Distinct ==
  \A i, j \in DOMAIN bufs : i # j => bufs[i].fb # bufs[j].fb /\ bufs[i].buf # bufs[j].buf

(* All there is belongs to the list or could not be removed. *)
Owned ==
  /\ pc # "done" => live = {bufs[i].fb : i \in DOMAIN bufs} \union keptFbs
  /\ pc # "done" =>
       dumb = {bufs[i].buf : i \in DOMAIN bufs} \union ({making} \ {NoBuffer}) \union keptDumb
  /\ pc = "done" => live = {} /\ dumb = {} /\ scanout = NoFb /\ pending = NoFb
  /\ \A i \in DOMAIN bufs :
       bufs[i].buf # making /\ bufs[i].buf \notin keptDumb /\ bufs[i].fb \notin keptFbs
  /\ mapped \subseteq {bufs[i].buf : i \in DOMAIN bufs} \union ({making} \ {NoBuffer})
  /\ pc \notin {"teardown", "close", "done"} => keptFbs = {} /\ keptDumb = {}

Ready ==
  /\ \A i \in DOMAIN bufs : fbOf[bufs[i].fb] = bufs[i].buf /\ bufs[i].buf \in painted
  /\ pc = "addfb" => making \in painted
  /\ Displayed \subseteq painted

(* What is on the screen, and what the flip test has counted. *)
Flipped ==
  /\ pc \in Making \union {"failed"} =>
       scanout = NoFb /\ pending = NoFb /\ events = <<>> /\ n = 0 /\ received = 0
  /\ pc = "flip" =>
       /\ scanout = bufs[(n % 2) + 1].fb /\ pending = NoFb /\ events = <<>>
       /\ n < frames /\ received = n
  /\ pc = "event" =>
       /\ n < frames /\ received = n
       /\ \/ pending = bufs[((n + 1) % 2) + 1].fb /\ events = <<>>
          \/ /\ scanout = bufs[((n + 1) % 2) + 1].fb /\ pending = NoFb
             /\ Len(events) = 1
  /\ pc = "measure" => pending = NoFb /\ received = n /\ n = frames /\ frames >= 1
  /\ pc \notin Late => report = "none"

(* The display reads nothing the program could not take from it. *)
Attached ==
  /\ pending # NoFb => pending \in live
  /\ scanout # NoFb /\ pending = NoFb => scanout \in live

IInv ==
  /\ TypeOK /\ Count /\ Distinct /\ Owned /\ Ready /\ Flipped /\ Attached
  /\ MeasuredAllFlips

USE NoBufferAssumption, NoFbAssumption, MaxFramesAssumption

LEMMA CreateDumbStep == IInv /\ CreateDumb => IInv'
<1> SUFFICES ASSUME IInv, CreateDumb PROVE IInv'
  OBVIOUS
<1> USE DEF CreateDumb, kms, kept, IInv
<1>1. TypeOK'
  BY DEF TypeOK, KmsTypeOK, PCs
<1>2. Count'
  BY DEF Count, Flipping
<1>3. Distinct'
  BY DEF Distinct
<1>4. Owned'
  BY DEF TypeOK, Owned, Count
<1>5. Ready'
  BY DEF Ready, Owned, Flipped, Displayed, Making
<1>6. Flipped'
  BY DEF Flipped, Making, Late
<1>7. Attached'
  BY DEF Attached
<1>8. MeasuredAllFlips'
  BY DEF MeasuredAllFlips
<1>9. QED
  BY <1>1, <1>2, <1>3, <1>4, <1>5, <1>6, <1>7, <1>8

LEMMA MapAndPaintStep == IInv /\ MapAndPaint => IInv'
<1> SUFFICES ASSUME IInv, MapAndPaint PROVE IInv'
  OBVIOUS
<1> USE DEF MapAndPaint, kms, kept, IInv
<1>1. TypeOK'
  BY DEF TypeOK, KmsTypeOK, PCs, Count
<1>2. Count'
  BY DEF Count, Flipping
<1>3. Distinct'
  BY DEF Distinct
<1>4. Owned'
  BY DEF Owned, Count
<1>5. Ready'
  BY DEF Ready, Displayed
<1>6. Flipped'
  BY DEF Flipped, Making, Late
<1>7. Attached'
  BY DEF Attached
<1>8. MeasuredAllFlips'
  BY DEF MeasuredAllFlips
<1>9. QED
  BY <1>1, <1>2, <1>3, <1>4, <1>5, <1>6, <1>7, <1>8

LEMMA AddDumbFbStep == IInv /\ AddDumbFb => IInv'
<1> SUFFICES ASSUME IInv, AddDumbFb PROVE IInv'
  OBVIOUS
<1> USE DEF AddDumbFb, AddFb, kms, kept, IInv
<1>a. Len(bufs) \in Nat /\ Len(bufs') = Len(bufs) + 1 /\ Len(bufs) < 2
  BY DEF Count
<1>b. Len(bufs) = 0 \/ Len(bufs) = 1
  <2> DEFINE made == Len(bufs)
  <2>1. made \in Nat /\ made < 2
    BY <1>a
  <2> HIDE DEF made
  <2>2. made = 0 \/ made = 1
    BY <2>1
  <2>3. QED
    BY <2>2 DEF made
<1>1. TypeOK'
  BY DEF TypeOK, KmsTypeOK, PCs, Count
<1>2. Count'
  <2>1. CASE Len(bufs) = 1
    <3>1. pc' = "modeset" /\ making' \notin Buffers
      BY <2>1
    <3>2. Len(bufs') = 2
      BY <2>1, <1>a
    <3>3. QED
      BY <3>1, <3>2 DEF Count
  <2>2. CASE Len(bufs) = 0
    <3>1. pc' = "create" /\ making' \notin Buffers
      BY <2>2
    <3>2. Len(bufs') < 2
      BY <2>2, <1>a
    <3>3. QED
      BY <3>1, <3>2 DEF Count, Flipping
  <2>3. QED
    BY <1>b, <2>1, <2>2
<1>3. Distinct'
  BY DEF Distinct, Owned
<1>4. Owned'
  BY DEF TypeOK, Owned, Count
<1>5. Ready'
  BY DEF TypeOK, KmsTypeOK, Ready, Owned, Displayed
<1>6. Flipped'
  BY DEF Flipped, Making, Late
<1>7. Attached'
  BY DEF Attached
<1>8. MeasuredAllFlips'
  BY DEF MeasuredAllFlips
<1>9. QED
  BY <1>1, <1>2, <1>3, <1>4, <1>5, <1>6, <1>7, <1>8

LEMMA ModesetStep == IInv /\ Modeset => IInv'
<1> SUFFICES ASSUME IInv, Modeset PROVE IInv'
  OBVIOUS
<1> USE DEF Modeset, SetCrtc, kms, kept, IInv
<1>1. TypeOK'
  BY DEF TypeOK, KmsTypeOK, PCs
<1>2. Count'
  BY DEF Count
<1>3. Distinct'
  BY DEF Distinct
<1>4. Owned'
  BY DEF Owned
<1>5. Ready'
  BY DEF Ready, Owned, Displayed
<1>6. Flipped'
  BY DEF TypeOK, Flipped, Making, Late
<1>7. Attached'
  BY DEF Attached
<1>8. MeasuredAllFlips'
  BY DEF MeasuredAllFlips
<1>9. QED
  BY <1>1, <1>2, <1>3, <1>4, <1>5, <1>6, <1>7, <1>8

LEMMA FlipNextStep == IInv /\ FlipNext => IInv'
<1> SUFFICES ASSUME IInv, FlipNext PROVE IInv'
  OBVIOUS
<1> USE DEF FlipNext, PageFlip, FlipTarget, kms, kept, IInv
<1>1. TypeOK'
  BY DEF TypeOK, KmsTypeOK, PCs
<1>2. Count'
  BY DEF Count, Flipping
<1>3. Distinct'
  BY DEF Distinct
<1>4. Owned'
  BY DEF Owned
<1>5. Ready'
  BY DEF Ready, Owned, Count, Flipped, Displayed
<1>6. Flipped'
  BY DEF Flipped, Making, Late
<1>7. Attached'
  BY DEF Attached
<1>8. MeasuredAllFlips'
  BY DEF TypeOK, MeasuredAllFlips, Flipped
<1>9. QED
  BY <1>1, <1>2, <1>3, <1>4, <1>5, <1>6, <1>7, <1>8

LEMMA FlipEventStep == IInv /\ FlipEvent => IInv'
<1> SUFFICES ASSUME IInv, FlipEvent PROVE IInv'
  OBVIOUS
<1> USE DEF FlipEvent, ReadFlipEvents, kms, kept, IInv
<1>a. frames \in Nat /\ n \in Nat /\ n < frames /\ received = n
  BY DEF TypeOK, Flipped
<1>b. scanout = bufs[((n + 1) % 2) + 1].fb /\ pending = NoFb /\ Len(events) = 1
  BY DEF Flipped
<1>c. received' = n + 1 /\ n' = n + 1 /\ n + 1 \in 0 .. frames /\ events' = <<>>
  BY <1>a, <1>b
<1>1. TypeOK'
  BY <1>a, <1>c DEF TypeOK, KmsTypeOK, PCs
<1>2. Count'
  BY DEF Count, Flipping
<1>3. Distinct'
  BY DEF Distinct
<1>4. Owned'
  BY DEF Owned
<1>5. Ready'
  BY DEF Ready, Displayed
<1>6. Flipped'
  BY <1>a, <1>b, <1>c DEF Flipped, Making, Late
<1>7. Attached'
  BY DEF Attached
<1>8. MeasuredAllFlips'
  BY DEF TypeOK, MeasuredAllFlips, Flipped
<1>9. QED
  BY <1>1, <1>2, <1>3, <1>4, <1>5, <1>6, <1>7, <1>8

LEMMA FlipTestFailsStep == IInv /\ FlipTestFails => IInv'
<1> SUFFICES ASSUME IInv, FlipTestFails PROVE IInv'
  OBVIOUS
<1> USE DEF FlipTestFails, kms, kept, IInv
<1>1. TypeOK'
  BY DEF TypeOK, KmsTypeOK, PCs, Reports
<1>2. Count'
  BY DEF Count, Flipping
<1>3. Distinct'
  BY DEF Distinct
<1>4. Owned'
  BY DEF Owned
<1>5. Ready'
  BY DEF Ready, Displayed
<1>6. Flipped'
  BY DEF Flipped, Making, Late
<1>7. Attached'
  BY DEF Attached
<1>8. MeasuredAllFlips'
  BY DEF MeasuredAllFlips
<1>9. QED
  BY <1>1, <1>2, <1>3, <1>4, <1>5, <1>6, <1>7, <1>8

LEMMA MeasureStep == IInv /\ Measure => IInv'
<1> SUFFICES ASSUME IInv, Measure PROVE IInv'
  OBVIOUS
<1> USE DEF Measure, kms, kept, IInv
<1>1. TypeOK'
  BY DEF TypeOK, KmsTypeOK, PCs, Reports
<1>2. Count'
  BY DEF Count, Flipping
<1>3. Distinct'
  BY DEF Distinct
<1>4. Owned'
  BY DEF Owned
<1>5. Ready'
  BY DEF Ready, Displayed
<1>6. Flipped'
  BY DEF Flipped, Making, Late
<1>7. Attached'
  BY DEF Attached
<1>8. MeasuredAllFlips'
  BY DEF TypeOK, MeasuredAllFlips, Flipped
<1>9. QED
  BY <1>1, <1>2, <1>3, <1>4, <1>5, <1>6, <1>7, <1>8

LEMMA HoldStep == IInv /\ Hold => IInv'
<1> SUFFICES ASSUME IInv, Hold PROVE IInv'
  OBVIOUS
<1> USE DEF Hold, kms, kept, IInv
<1>1. TypeOK'
  BY DEF TypeOK, KmsTypeOK, PCs
<1>2. Count'
  BY DEF Count
<1>3. Distinct'
  BY DEF Distinct
<1>4. Owned'
  BY DEF Owned
<1>5. Ready'
  BY DEF Ready, Displayed
<1>6. Flipped'
  BY DEF Flipped, Making, Late
<1>7. Attached'
  BY DEF Attached
<1>8. MeasuredAllFlips'
  BY DEF MeasuredAllFlips
<1>9. QED
  BY <1>1, <1>2, <1>3, <1>4, <1>5, <1>6, <1>7, <1>8

LEMMA TeardownStep == IInv /\ Teardown => IInv'
<1> SUFFICES ASSUME IInv, Teardown PROVE IInv'
  OBVIOUS
<1> DEFINE b == Head(bufs)
<1>1. /\ pc = "teardown" /\ bufs # <<>> /\ bufs' = Tail(bufs) /\ mapped' = mapped \ {b.buf}
      /\ \/ RmFb(b.fb) /\ UNCHANGED keptFbs
         \/ keptFbs' = keptFbs \union {b.fb} /\ UNCHANGED kms
      /\ \/ dumb' = dumb \ {b.buf} /\ UNCHANGED keptDumb
         \/ keptDumb' = keptDumb \union {b.buf} /\ UNCHANGED dumb
      /\ UNCHANGED <<pc, frames, painted, making, n, received, report>>
  BY DEF Teardown
<1>2. /\ bufs \in Seq(Entry) /\ bufs' \in Seq(Entry) /\ b = bufs[1] /\ b \in Entry
      /\ 1 \in DOMAIN bufs /\ Len(bufs') <= 2
      /\ \A i \in DOMAIN bufs' : i + 1 \in DOMAIN bufs /\ i + 1 # 1 /\ bufs'[i] = bufs[i + 1]
      /\ \A i \in DOMAIN bufs :
           i = 1 \/ \E j \in DOMAIN bufs' : i = j + 1 /\ bufs'[j] = bufs[i]
  <2>1. bufs \in Seq(Entry) /\ Len(bufs) <= 2
    BY DEF IInv, TypeOK, Entry
  <2>2. Len(bufs) \in 1 .. 2 /\ DOMAIN bufs = 1 .. Len(bufs)
    <3>1. Len(bufs) \in Nat /\ DOMAIN bufs = 1 .. Len(bufs)
      BY <2>1
    <3>2. Len(bufs) # 0
      BY <1>1, <2>1
    <3> DEFINE k == Len(bufs)
    <3>3. k \in Nat /\ k # 0 /\ k <= 2
      BY <2>1, <3>1, <3>2
    <3> HIDE DEF k
    <3>4. k \in 1 .. 2
      BY <3>3
    <3>5. QED
      BY <3>1, <3>4 DEF k
  <2>3. /\ bufs' \in Seq(Entry) /\ DOMAIN bufs' = 1 .. Len(bufs) - 1
        /\ Len(bufs') = Len(bufs) - 1
        /\ \A i \in 1 .. Len(bufs) - 1 : bufs'[i] = bufs[i + 1]
    BY <1>1, <2>1
  <2>4. b = bufs[1] /\ b \in Entry
    BY <2>1, <2>2
  <2>5. \A i \in DOMAIN bufs' : i + 1 \in DOMAIN bufs /\ i + 1 # 1 /\ bufs'[i] = bufs[i + 1]
    BY <2>2, <2>3
  <2>6. ASSUME NEW i \in DOMAIN bufs, i # 1
        PROVE  \E j \in DOMAIN bufs' : i = j + 1 /\ bufs'[j] = bufs[i]
    <3>1. i = 2 /\ Len(bufs) = 2 /\ 1 \in DOMAIN bufs' /\ 1 + 1 = 2
      BY <2>2, <2>3, <2>6
    <3>2. QED
      BY <2>5, <3>1
  <2>7. Len(bufs') <= 2 /\ 1 \in DOMAIN bufs
    BY <2>2, <2>3
  <2>8. QED
    BY <2>1, <2>3, <2>4, <2>5, <2>6, <2>7
<1>3. making = NoBuffer
  BY <1>1 DEF IInv, TypeOK, Count
<1>4. /\ {bufs'[i].fb : i \in DOMAIN bufs'} = {bufs[i].fb : i \in DOMAIN bufs} \ {b.fb}
      /\ {bufs'[i].buf : i \in DOMAIN bufs'} = {bufs[i].buf : i \in DOMAIN bufs} \ {b.buf}
  BY <1>2 DEF IInv, Distinct
<1>5. /\ KmsTypeOK' /\ live' \subseteq live /\ UNCHANGED <<fbOf, events>>
      /\ live' = {bufs'[i].fb : i \in DOMAIN bufs'} \union keptFbs'
      /\ \A i \in DOMAIN bufs' : bufs'[i].fb \notin keptFbs'
      /\ keptFbs' \subseteq FbIds
      /\ {scanout', pending'} \subseteq {scanout, pending, NoFb}
  <2>1. /\ live = {bufs[i].fb : i \in DOMAIN bufs} \union keptFbs
        /\ \A i \in DOMAIN bufs : bufs[i].fb \notin keptFbs
        /\ b.fb \notin keptFbs /\ b.fb \in FbIds /\ keptFbs \subseteq FbIds /\ KmsTypeOK
    BY <1>1, <1>2 DEF IInv, TypeOK, Owned, Entry
  <2>2. \A i \in DOMAIN bufs' : bufs'[i].fb # b.fb /\ bufs'[i].fb \notin keptFbs
    BY <1>2, <2>1 DEF IInv, Distinct
  <2> DEFINE old == {bufs[i].fb : i \in DOMAIN bufs}
             new == {bufs'[i].fb : i \in DOMAIN bufs'}
  <2>3. /\ new = old \ {b.fb} /\ b.fb \in old /\ live = old \union keptFbs
        /\ b.fb \notin keptFbs
    BY <1>2, <1>4, <2>1
  <2> HIDE DEF old, new, b
  <2>4. CASE RmFb(b.fb) /\ UNCHANGED keptFbs
    <3>1. /\ KmsTypeOK' /\ live' \subseteq live /\ UNCHANGED <<fbOf, events>>
          /\ live' = new \union keptFbs' /\ keptFbs' \subseteq FbIds
          /\ {scanout', pending'} \subseteq {scanout, pending, NoFb}
      BY <2>1, <2>3, <2>4 DEF RmFb, KmsTypeOK
    <3>2. QED
      BY <2>2, <2>4, <3>1 DEF new
  <2>5. CASE keptFbs' = keptFbs \union {b.fb} /\ UNCHANGED kms
    <3>1. /\ KmsTypeOK' /\ live' \subseteq live /\ UNCHANGED <<fbOf, events>>
          /\ live' = new \union keptFbs' /\ keptFbs' \subseteq FbIds
          /\ {scanout', pending'} \subseteq {scanout, pending, NoFb}
      BY <2>1, <2>3, <2>5 DEF kms, KmsTypeOK
    <3>2. QED
      BY <2>2, <2>5, <3>1 DEF new
  <2>6. QED
    BY <1>1, <2>4, <2>5
<1>6. /\ dumb' = {bufs'[i].buf : i \in DOMAIN bufs'} \union keptDumb'
      /\ \A i \in DOMAIN bufs' : bufs'[i].buf \notin keptDumb'
      /\ keptDumb' \subseteq Buffers /\ dumb' \subseteq Buffers
      /\ mapped' \subseteq {bufs'[i].buf : i \in DOMAIN bufs'} /\ mapped' \subseteq Buffers
  <2>1. /\ dumb = {bufs[i].buf : i \in DOMAIN bufs} \union keptDumb
        /\ \A i \in DOMAIN bufs : bufs[i].buf \notin keptDumb
        /\ mapped \subseteq {bufs[i].buf : i \in DOMAIN bufs}
        /\ b.buf \notin keptDumb /\ b.buf \in Buffers /\ keptDumb \subseteq Buffers
        /\ dumb \subseteq Buffers /\ mapped \subseteq Buffers
    BY <1>1, <1>2, <1>3 DEF IInv, TypeOK, Owned, Entry
  <2>2. \A i \in DOMAIN bufs' : bufs'[i].buf # b.buf /\ bufs'[i].buf \notin keptDumb
    BY <1>2, <2>1 DEF IInv, Distinct
  <2> DEFINE old == {bufs[i].buf : i \in DOMAIN bufs}
             new == {bufs'[i].buf : i \in DOMAIN bufs'}
  <2>3. /\ new = old \ {b.buf} /\ b.buf \in old
        /\ dumb = old \union keptDumb /\ mapped \subseteq old
    BY <1>2, <1>4, <2>1
  <2> HIDE DEF old, new, b
  <2>4. CASE dumb' = dumb \ {b.buf} /\ UNCHANGED keptDumb
    <3>1. /\ dumb' = new \union keptDumb' /\ keptDumb' \subseteq Buffers
          /\ dumb' \subseteq Buffers
          /\ mapped' \subseteq new /\ mapped' \subseteq Buffers
      BY <1>1, <2>1, <2>3, <2>4
    <3>2. QED
      BY <2>2, <2>4, <3>1 DEF new
  <2>5. CASE keptDumb' = keptDumb \union {b.buf} /\ UNCHANGED dumb
    <3>1. /\ dumb' = new \union keptDumb' /\ keptDumb' \subseteq Buffers
          /\ dumb' \subseteq Buffers
          /\ mapped' \subseteq new /\ mapped' \subseteq Buffers
      BY <1>1, <2>1, <2>3, <2>5
    <3>2. QED
      BY <2>2, <2>5, <3>1 DEF new
  <2>6. QED
    BY <1>1, <2>4, <2>5
<1>7. TypeOK'
  BY <1>1, <1>2, <1>5, <1>6 DEF IInv, TypeOK, Entry
<1>8. Count'
  BY <1>1 DEF IInv, Count, Flipping
<1>9. Distinct'
  BY <1>2 DEF IInv, Distinct
<1>10. Owned'
  BY <1>1, <1>2, <1>3, <1>5, <1>6 DEF Owned, IInv, TypeOK, Entry
<1>11. Ready'
  <2>1. Displayed' \subseteq Displayed
    BY <1>5 DEF Displayed
  <2>2. QED
    BY <1>1, <1>2, <1>5, <2>1 DEF IInv, Ready
<1>12. Flipped'
  BY <1>1 DEF IInv, Flipped, Making, Late
<1>13. Attached'
  <2>1. CASE RmFb(b.fb)
    BY <2>1 DEF RmFb, IInv, Attached
  <2>2. CASE UNCHANGED kms
    BY <2>2 DEF kms, IInv, Attached
  <2>3. QED
    BY <1>1, <2>1, <2>2
<1>14. MeasuredAllFlips'
  <2>1. pending = NoFb => pending' = NoFb
    BY <1>1 DEF RmFb, kms
  <2>2. QED
    BY <1>1, <2>1 DEF IInv, MeasuredAllFlips
<1>15. QED
  BY <1>7, <1>8, <1>9, <1>10, <1>11, <1>12, <1>13, <1>14 DEF IInv

LEMMA CloseStep == IInv /\ Close => IInv'
<1> SUFFICES ASSUME IInv, Close PROVE IInv'
  OBVIOUS
<1> USE DEF Close, CloseCard, kms, kept, IInv
<1>1. TypeOK'
  BY DEF TypeOK, KmsTypeOK, PCs
<1>2. Count'
  BY DEF Count, Flipping
<1>3. Distinct'
  BY DEF Distinct
<1>4. Owned'
  BY DEF Owned
<1>5. Ready'
  BY DEF Ready, Displayed, Count
<1>6. Flipped'
  BY DEF Flipped, Making, Late
<1>7. Attached'
  BY DEF Attached
<1>8. MeasuredAllFlips'
  BY DEF MeasuredAllFlips
<1>9. QED
  BY <1>1, <1>2, <1>3, <1>4, <1>5, <1>6, <1>7, <1>8

LEMMA DoneStep == IInv /\ Done => IInv'
<1> SUFFICES ASSUME IInv, Done PROVE IInv'
  OBVIOUS
<1> USE DEF Done, kms, kept, IInv
<1>1. TypeOK'
  BY DEF TypeOK, KmsTypeOK, PCs
<1>2. Count'
  BY DEF Count, Flipping
<1>3. Distinct'
  BY DEF Distinct
<1>4. Owned'
  BY DEF Owned
<1>5. Ready'
  BY DEF Ready, Displayed
<1>6. Flipped'
  BY DEF Flipped, Making, Late
<1>7. Attached'
  BY DEF Attached
<1>8. MeasuredAllFlips'
  BY DEF MeasuredAllFlips
<1>9. QED
  BY <1>1, <1>2, <1>3, <1>4, <1>5, <1>6, <1>7, <1>8

LEMMA FailStep == IInv /\ Fail => IInv'
<1> SUFFICES ASSUME IInv, Fail PROVE IInv'
  OBVIOUS
<1> USE DEF Fail, CloseCard, kms, kept, IInv
<1>1. TypeOK'
  BY DEF TypeOK, KmsTypeOK, PCs
<1>2. Count'
  BY DEF Count, Flipping
<1>3. Distinct'
  BY DEF Distinct
<1>4. Owned'
  BY DEF Owned
<1>5. Ready'
  BY DEF Ready, Displayed
<1>6. Flipped'
  BY DEF Flipped, Making, Late
<1>7. Attached'
  BY DEF Attached
<1>8. MeasuredAllFlips'
  BY DEF MeasuredAllFlips
<1>9. QED
  BY <1>1, <1>2, <1>3, <1>4, <1>5, <1>6, <1>7, <1>8

LEMMA DisplayVblankStep == IInv /\ DisplayVblank => IInv'
<1> SUFFICES ASSUME IInv, DisplayVblank PROVE IInv'
  OBVIOUS
<1> USE DEF DisplayVblank, Vblank, prog, kms, kept, IInv
<1>1. TypeOK'
  BY DEF TypeOK, KmsTypeOK
<1>2. Count'
  BY DEF Count
<1>3. Distinct'
  BY DEF Distinct
<1>4. Owned'
  BY DEF Owned
<1>5. Ready'
  BY DEF Ready, Displayed
<1>6. Flipped'
  BY DEF Flipped
<1>7. Attached'
  BY DEF Attached
<1>8. MeasuredAllFlips'
  BY DEF MeasuredAllFlips
<1>9. QED
  BY <1>1, <1>2, <1>3, <1>4, <1>5, <1>6, <1>7, <1>8

LEMMA InitIInv == Init => IInv
<1> SUFFICES ASSUME Init PROVE IInv
  OBVIOUS
<1> USE DEF Init, ScreenOff
<1>1. TypeOK
  BY DEF TypeOK, KmsTypeOK, PCs, Reports
<1>2. Count /\ Distinct /\ Owned
  BY DEF Count, Distinct, Owned, Flipping
<1>3. Ready
  BY DEF Ready, Displayed
<1>4. Flipped /\ Attached /\ MeasuredAllFlips
  BY DEF Flipped, Attached, MeasuredAllFlips
<1>5. QED
  BY <1>1, <1>2, <1>3, <1>4 DEF IInv

LEMMA NextIInv == IInv /\ [Next]_vars => IInv'
<1> SUFFICES ASSUME IInv, [Next]_vars PROVE IInv'
  OBVIOUS
<1>1. CASE Program
  BY <1>1, CreateDumbStep, MapAndPaintStep, AddDumbFbStep, ModesetStep, FlipNextStep,
     FlipEventStep, MeasureStep, HoldStep, TeardownStep, DoneStep, CloseStep
     DEF Program
<1>2. CASE FlipTestFails \/ Fail \/ DisplayVblank
  BY <1>2, FlipTestFailsStep, FailStep, DisplayVblankStep
<1>3. CASE UNCHANGED vars
  <2> USE <1>3 DEF vars, kms, prog, kept, IInv
  <2>1. TypeOK'
    BY DEF TypeOK, KmsTypeOK
  <2>2. Count' /\ Distinct'
    BY DEF Count, Distinct
  <2>3. Owned' /\ Ready'
    BY DEF Owned, Ready, Displayed
  <2>4. Flipped' /\ Attached' /\ MeasuredAllFlips'
    BY DEF Flipped, Attached, MeasuredAllFlips
  <2>5. QED
    BY <2>1, <2>2, <2>3, <2>4
<1>4. QED
  BY <1>1, <1>2, <1>3 DEF Next, Ended

(* The invariant of wana-kms. *)
THEOREM Invariance == Spec => []IInv
BY InitIInv, NextIInv, PTL DEF Spec

(* Types: at most two buffers, `n` and `received` never above --frames. *)
THEOREM TypeCorrect == Spec => []TypeOK
<1>1. IInv => TypeOK
  BY DEF IInv
<1>2. QED
  BY <1>1, Invariance, PTL

(* What show puts on the screen has been painted before (wana-kms.rs, show *)
(* and flip_test), whatever fails.                                         *)
THEOREM OnlyPatternShown == Spec => []OnlyPaintedShown
<1>1. IInv => OnlyPaintedShown
  BY DEF IInv, Ready, OnlyPaintedShown
<1>2. QED
  BY <1>1, Invariance, PTL

(* No mapping outlives its buffer; the last loop of show leaves exactly    *)
(* what rm_fb and destroy_dumb refused to take, and the end of run, or of  *)
(* a failed show, nothing at all.                                          *)
THEOREM LeavesNothing == Spec => []TornDown
<1>1. IInv => TornDown
  <2> SUFFICES ASSUME IInv PROVE TornDown
    OBVIOUS
  <2>1. mapped \subseteq dumb
    <3>1. CASE pc = "done"
      <4>1. bufs = <<>> /\ making = NoBuffer
        BY <3>1 DEF IInv, TypeOK, Count
      <4>2. QED
        BY <4>1 DEF IInv, Owned
    <3>2. CASE pc # "done"
      BY <3>2 DEF IInv, Owned
    <3>3. QED
      BY <3>1, <3>2
  <2>2. ASSUME pc \in {"close", "failed"}
        PROVE  live = keptFbs /\ dumb = keptDumb /\ mapped = {}
    <3>1. bufs = <<>> /\ making \notin Buffers
      BY <2>2 DEF IInv, Count
    <3>2. making = NoBuffer
      BY <3>1 DEF IInv, TypeOK
    <3>3. /\ {bufs[i].fb : i \in DOMAIN bufs} = {}
          /\ {bufs[i].buf : i \in DOMAIN bufs} = {}
      BY <3>1
    <3>4. QED
      BY <2>2, <3>2, <3>3 DEF IInv, Owned
  <2>3. pc = "close" /\ scanout # NoFb => {scanout, pending} \intersect keptFbs # {}
    BY <2>2 DEF IInv, Attached
  <2>4. pc = "failed" => live = {} /\ dumb = {} /\ scanout = NoFb /\ pending = NoFb
    BY <2>2 DEF IInv, Owned, Attached
  <2>5. pc = "done" => live = {} /\ dumb = {} /\ scanout = NoFb /\ pending = NoFb
    BY DEF IInv, Owned
  <2>6. QED
    BY <2>1, <2>2, <2>3, <2>4, <2>5 DEF TornDown
<1>2. QED
  BY <1>1, Invariance, PTL

(* flip_test counts every flip once, and says "no events received" only of *)
(* a single flip whose event was received.                                 *)
THEOREM MeasuredRight == Spec => []MeasuredAllFlips
<1>1. IInv => MeasuredAllFlips
  BY DEF IInv
<1>2. QED
  BY <1>1, Invariance, PTL

(* fbs[(n + 1) % 2] is never the framebuffer on the screen. *)
THEOREM AlternatingFlips == Spec => FlipsAlternate
<1>1. IInv /\ [Next]_vars => [pc = "flip" /\ pc' = "event" => pending' # scanout]_vars
  <2> SUFFICES ASSUME IInv, Next, pc = "flip", pc' = "event"
               PROVE pending' # scanout
    OBVIOUS
  <2>1. FlipNext
    BY DEF Next, Program, CreateDumb, MapAndPaint, AddDumbFb, Modeset, FlipEvent, Measure,
           Hold, Teardown, Done, Close, FlipTestFails, Fail, DisplayVblank, Ended, prog
  <2>2. pending' = bufs[((n + 1) % 2) + 1].fb /\ scanout = bufs[(n % 2) + 1].fb
    BY <2>1 DEF FlipNext, PageFlip, FlipTarget, IInv, Flipped
  <2>3. n \in Nat /\ Len(bufs) = 2
    BY DEF IInv, TypeOK, Count, Flipping
  <2>4. DOMAIN bufs = {1, 2}
    BY <2>3
  <2>5. (n % 2) + 1 # ((n + 1) % 2) + 1 /\ (n % 2) + 1 \in {1, 2} /\ ((n + 1) % 2) + 1 \in {1, 2}
    BY <2>3
  <2>6. QED
    BY <2>2, <2>4, <2>5 DEF IInv, Distinct
<1>2. QED
  BY <1>1, Invariance, PTL DEF Spec, FlipsAlternate

=============================================================================
