------------------------------- MODULE WanaGl -------------------------------
(***************************************************************************)
(* wana-gl (wana-render/src/bin/wana-gl.rs): the setup of its objects,     *)
(* then the frame loop: each frame is drawn by the GPU into a buffer of    *)
(* the GBM surface, locked, wrapped in a framebuffer and shown by a        *)
(* modeset or a page flip, and the buffer before it goes back to the       *)
(* surface.  At the end, or after the first error, everything is dropped.  *)
(* The program, the GPU and the display run concurrently on the buffers.   *)
(***************************************************************************)
EXTENDS Kms, GlObjects, FiniteSets

CONSTANTS
  Frames,    \* the --frames argument, at least 1
  MaxStuck   \* bound: how often removing a framebuffer fails

ASSUME FramesAssumption == Frames \in Nat \ {0}
ASSUME MaxStuckAssumption == MaxStuck \in Nat

(* A GBM surface has more than one buffer. *)
ASSUME BuffersAssumption == \E a, b \in Buffers : a # b

VARIABLES
  pc,       \* where the program is in its loop
  n,        \* the frame it is at
  back,     \* the buffer EGL renders into, chosen at the first draw
  front,    \* the swapped buffer that lock_front will return
  locked,   \* buffers locked by lock_front and not released
  gpu,      \* buffers with GPU work not finished
  cur,      \* (bo, fb) of this frame
  shown,    \* `shown`, the (bo, fb) of the frame before
  stuck,    \* history: the framebuffers whose removal failed
  got,      \* the events returned by the last read
  verdict,  \* what run returns: "none" so far, "ok" or "error"
  content   \* content[b]: the number of the frame drawn into b last

outer == <<objects, verdict>>
frame == <<n, back, front, locked, cur, shown, stuck, got>>
vars == <<kms, objects, pc, frame, gpu, verdict, content>>

Pair == [bo : Buffers \union {NoBuffer}, fb : FbIds \union {NoFb}]
NoPair == [bo |-> NoBuffer, fb |-> NoFb]

Fallible == {"setup", "draw", "swap", "lock", "addfb", "present", "event"}
PCs == Fallible \union {"finish", "retire", "hold", "drop", "exit"}

TypeOK ==
  /\ KmsTypeOK
  /\ pc \in PCs
  /\ verdict \in {"none", "ok", "error"}
  /\ n \in 0 .. Frames
  /\ back \in Buffers \union {NoBuffer}
  /\ front \in Buffers \union {NoBuffer}
  /\ locked \subseteq Buffers
  /\ gpu \subseteq Buffers
  /\ cur \in Pair /\ shown \in Pair
  /\ stuck \subseteq FbIds
  /\ got \in Seq(Nat)
  /\ content \in [Buffers -> 0 .. Frames]

Init ==
  /\ ScreenOff /\ NoObjects
  /\ pc = "setup" /\ verdict = "none" /\ n = 0
  /\ back = NoBuffer /\ front = NoBuffer
  /\ locked = {} /\ gpu = {}
  /\ cur = NoPair /\ shown = NoPair
  /\ stuck = {}
  /\ got = <<>>
  /\ content = [b \in Buffers |-> 0]

-----------------------------------------------------------------------------
(* run, before its loop: output::find, then the objects one after another. *)
SetUp ==
  /\ pc = "setup"
  /\ Make
  /\ pc' = IF stage = Len(Setup) THEN "draw" ELSE "setup"
  /\ UNCHANGED <<kms, frame, gpu, verdict, content>>

(* glDrawArrays: EGL takes a buffer that is neither locked nor waiting to  *)
(* be locked and the GPU starts on it.                                     *)
Render ==
  \E b \in Buffers \ (locked \union {front}) :
    /\ back' = b
    /\ gpu' = gpu \union {b}
    /\ content' = [content EXCEPT ![b] = n]

(* scene.draw. *)
Draw ==
  /\ pc = "draw"
  /\ Render
  /\ pc' = "finish"
  /\ UNCHANGED <<kms, n, front, locked, cur, shown, stuck, got, outer>>

(* The GPU finishes the work on a buffer, on its own time. *)
GpuDone ==
  /\ \E b \in gpu : gpu' = gpu \ {b}
  /\ UNCHANGED <<kms, objects, pc, frame, verdict, content>>

(* Fault: the frame is swapped without waiting for the GPU. *)
FinishSkipped ==
  /\ pc = "finish"
  /\ pc' = "swap"
  /\ UNCHANGED <<kms, n, back, front, locked, gpu, cur, shown, stuck, got, content, outer>>

(* glFinish waits for the GPU. *)
Finish ==
  /\ pc = "finish" /\ gpu = {}
  /\ pc' = "swap"
  /\ UNCHANGED <<kms, n, back, front, locked, gpu, cur, shown, stuck, got, content, outer>>

(* egl.swap: the buffer drawn becomes the front buffer. *)
Swap ==
  /\ pc = "swap"
  /\ front' = back
  /\ back' = NoBuffer
  /\ pc' = "lock"
  /\ UNCHANGED <<kms, n, locked, gpu, cur, shown, stuck, got, content, outer>>

(* surface.lock_front. *)
LockFront ==
  /\ pc = "lock"
  /\ locked' = locked \union {front}
  /\ cur' = [cur EXCEPT !.bo = front]
  /\ front' = NoBuffer
  /\ pc' = "addfb"
  /\ UNCHANGED <<kms, n, back, gpu, shown, stuck, got, content, outer>>

(* card.add_fb_handle on the locked buffer. *)
AddFrameFb ==
  /\ pc = "addfb"
  /\ \E f \in FbIds : AddFb(f, cur.bo) /\ cur' = [cur EXCEPT !.fb = f]
  /\ pc' = "present"
  /\ UNCHANGED <<n, back, front, locked, gpu, shown, stuck, got, content, outer>>

(* The first frame is shown by a modeset. *)
Modeset ==
  /\ pc = "present" /\ n = 0
  /\ SetCrtc(cur.fb)
  /\ pc' = "retire"
  /\ UNCHANGED <<n, back, front, locked, gpu, cur, shown, stuck, got, content, outer>>

(* Fault: the program does not wait for the flip it asked for. *)
FlipWithoutWait ==
  /\ pc = "present" /\ n > 0
  /\ PageFlip(cur.fb, n)
  /\ pc' = "retire"
  /\ UNCHANGED <<n, back, front, locked, gpu, cur, shown, stuck, got, content, outer>>

(* Every later one by a page flip with the frame number as user_data. *)
Flip ==
  /\ pc = "present" /\ n > 0
  /\ PageFlip(cur.fb, n)
  /\ pc' = "event"
  /\ UNCHANGED <<n, back, front, locked, gpu, cur, shown, stuck, got, content, outer>>

(* card.read_flip_events: whatever flip events come, none is looked at. *)
FlipEvent ==
  /\ pc = "event"
  /\ ReadFlipEvents
  /\ got' = events
  /\ pc' = "retire"
  /\ UNCHANGED <<n, back, front, locked, gpu, cur, shown, stuck, content, outer>>

Advance ==
  /\ n' = n + 1
  /\ pc' = IF n + 1 < Frames THEN "draw" ELSE "hold"

(* Fault: the buffer just shown is retired instead of the one before it. *)
RetireCurrent ==
  /\ pc = "retire"
  /\ RmFb(cur.fb) /\ locked' = locked \ {cur.bo}
  /\ cur' = NoPair
  /\ Advance
  /\ UNCHANGED <<back, front, shown, stuck, gpu, got, content, outer>>

(* Fault: the old framebuffer is not removed. *)
RetireKeepsFb ==
  /\ pc = "retire"
  /\ locked' = locked \ {shown.bo}
  /\ shown' = cur
  /\ cur' = NoPair
  /\ Advance
  /\ UNCHANGED <<kms, back, front, stuck, gpu, got, content, outer>>

(* let _ = card.rm_fb: an error is not looked at, the framebuffer is kept. *)
TryRmFb(f) ==
  \/ RmFb(f) /\ UNCHANGED stuck
  \/ /\ Cardinality(stuck) < MaxStuck
     /\ stuck' = stuck \union {f}
     /\ UNCHANGED kms

(* shown.replace: the pair before, if any, loses its framebuffer, and its  *)
(* buffer goes back to the surface whether or not the framebuffer went.    *)
Retire ==
  /\ pc = "retire"
  /\ \/ shown = NoPair /\ UNCHANGED <<kms, stuck, locked>>
     \/ shown # NoPair /\ TryRmFb(shown.fb) /\ locked' = locked \ {shown.bo}
  /\ shown' = cur
  /\ cur' = NoPair
  /\ Advance
  /\ UNCHANGED <<back, front, gpu, got, content, outer>>

(* After the hold: shown.take, the last pair is given up. *)
Teardown ==
  /\ pc = "hold"
  /\ TryRmFb(shown.fb)
  /\ locked' = locked \ {shown.bo}
  /\ shown' = NoPair
  /\ pc' = "drop" /\ verdict' = "ok"
  /\ UNCHANGED <<n, back, front, gpu, cur, got, content, objects>>

(* A call returns an error and run returns it.  scene.draw asks for errors *)
(* after it has drawn, so the GPU may be at work then.  Reading events     *)
(* also fails when a signal interrupts it.                                 *)
Fail ==
  /\ pc \in Fallible
  /\ IF pc = "setup" THEN MakeFails ELSE UNCHANGED objects
  /\ \/ UNCHANGED <<back, gpu, content>>
     \/ pc = "draw" /\ Render
  /\ pc' = "drop"
  /\ verdict' = "error"
  /\ UNCHANGED <<kms, n, front, locked, cur, shown, stuck, got>>

(* The values of run are dropped one by one.  The buffers go with the GBM  *)
(* surface; the screen, if a frame is still on it, when the card closes.   *)
DropObject ==
  /\ pc = "drop"
  /\ Drop
  /\ IF "surface" \in Destroyed
       THEN locked' = {} /\ back' = NoBuffer /\ front' = NoBuffer
       ELSE UNCHANGED <<locked, back, front>>
  /\ IF "card" \in Destroyed THEN CloseCard ELSE UNCHANGED kms
  /\ UNCHANGED <<pc, n, cur, shown, stuck, got, gpu, verdict, content>>

Exit ==
  /\ pc = "drop" /\ Dropping = {}
  /\ pc' = "exit"
  /\ UNCHANGED <<kms, objects, frame, gpu, verdict, content>>

Program ==
  \/ SetUp \/ Draw \/ Finish \/ Swap \/ LockFront \/ AddFrameFb
  \/ Modeset \/ Flip \/ FlipEvent \/ Retire \/ Teardown
  \/ DropObject \/ Exit

DisplayVblank == Vblank /\ UNCHANGED <<objects, pc, frame, gpu, verdict, content>>

Ended == pc = "exit" /\ UNCHANGED vars

Next == Program \/ Fail \/ GpuDone \/ DisplayVblank \/ Ended

Spec == Init /\ [][Next]_vars

(* The program runs, the GPU finishes what it was given, and the display   *)
(* keeps refreshing.  No failure is assumed: a read that blocks for ever   *)
(* is not rescued by a signal.                                             *)
FairSpec ==
  Spec /\ WF_vars(Program) /\ WF_vars(GpuDone) /\ WF_vars(DisplayVblank)

-----------------------------------------------------------------------------
(* The GPU, the display and the program never work on the same buffer: no  *)
(* buffer is drawn into, or was left with unfinished work, while it is on  *)
(* the screen or about to be.                                              *)
NoTearing == (gpu \union {back, front}) \intersect Displayed = {}

(* The loop holds at most two buffers and, of the framebuffers it could    *)
(* remove, two; it never asks the surface for a buffer it does not have,   *)
(* for a surface of two buffers or more.  A framebuffer whose removal was  *)
(* refused stays, for nobody looks at the answer: each such error costs    *)
(* one framebuffer and no buffer.                                          *)
TwoBuffersSuffice ==
  /\ Cardinality(live \ stuck) <= 2 /\ Cardinality(locked) <= 2
  /\ pc = "draw" => Buffers \ (locked \union {front}) # {}

(* read_flip_events does not look at user_data; it need not: the events it *)
(* returns are exactly the completion of the flip issued before it, so the *)
(* next flip is never refused because the last one still waits.            *)
EventIsOwnFlip ==
  /\ (pc = "retire" /\ n > 0) => got = <<n>> /\ scanout = cur.fb
  /\ (pc = "present" /\ n > 0) => scanout = shown.fb /\ pending = NoFb

(* What the viewer sees.                                                   *)
Screen ==
  IF scanout = NoFb THEN 0 - 1
  ELSE IF fbOf[scanout] \in gpu \union {back, front} THEN 0 - 2
  ELSE content[fbOf[scanout]]

(* Whatever fails, and whenever: no object is destroyed before what was    *)
(* made from it, and none is left at the end, except for what Egl::new had *)
(* made when it failed, and exactly that, its EGL surface included, under  *)
(* which the GBM surface goes ("EGL surface dropped first", gbm.rs:119);   *)
(* and the program does not exit with a frame on the screen, a framebuffer *)
(* left or the card open.                                                  *)
DropsClean ==
  /\ \A o \in alive :
       MadeFrom[o] \subseteq alive \/ (pc \in {"drop", "exit"} /\ o \in HalfMade)
  /\ scanout # NoFb => "card" \in alive
  /\ pc = "exit" => live = {} /\ alive = HalfMade

Viewer == INSTANCE Presentation
            WITH screen <- Screen, over <- pc \in {"drop", "exit"} /\ scanout = NoFb

(* Frame after frame, whole and in order: WanaGl implements Presentation.  *)
ShowsEveryFrame == Viewer!Spec

(* wana-gl ends: it never waits for a flip event that does not come.       *)
Ends == <>(pc = "exit")

=============================================================================
