----------------------------- MODULE GlObjects ------------------------------
(***************************************************************************)
(* The objects wana-gl makes before its first frame and drops at its end:  *)
(* the card, the GBM device and surface (gbm.rs), the EGL display, context *)
(* and window surface (egl.rs) and the shader program (scene.rs, gl.rs).   *)
(* Each is made from others.  Rust drops the values of `run` in reverse,   *)
(* but a value that was never returned is not dropped: when Egl::new fails *)
(* half way, what it had made by then stays.                               *)
(***************************************************************************)
EXTENDS Naturals, SequencesExt

VARIABLES
  stage,     \* index into Setup of the step that comes next
  alive,     \* the objects that exist
  egl        \* Egl::new has returned the value whose drop frees EGL's objects

objects == <<stage, alive, egl>>

(* The steps of the setup in order; an error at any of them ends it. *)
Setup ==
  <<"card", "device", "surface", "platform", "display", "api", "config",
    "context", "eglsurface", "current", "vshader", "fshader", "program">>

(* The steps that make an object, and the objects it is made from. *)
MadeFrom ==
  [card       |-> {},
   device     |-> {"card"},
   surface    |-> {"device"},
   display    |-> {"device"},
   context    |-> {"display"},
   eglsurface |-> {"display", "surface"},
   vshader    |-> {"context"},
   fshader    |-> {"context"},
   program    |-> {"context", "vshader", "fshader"}]

Objects == DOMAIN MadeFrom

(* What Egl::drop frees, and what the locals of run free after it. *)
EglDrops == <<"eglsurface", "context", "display">>
RunDrops == <<"surface", "device", "card">>

NoObjects == stage = 1 /\ alive = {} /\ egl = FALSE

SetupDone == stage > Len(Setup)

Shaders == {"vshader", "fshader"}

(* One step of the setup succeeds.  The two shaders of a program are       *)
(* deleted after linking but never detached: they live as long as it does. *)
Make ==
  /\ ~ SetupDone
  /\ stage' = stage + 1
  /\ alive' = alive \union ({Setup[stage]} \intersect Objects)
  /\ egl' = (egl \/ Setup[stage] = "current")

(* One fails: what it made itself is gone again, a shader that does not    *)
(* compile included, and a program that does not link takes its shaders    *)
(* with it; but the vertex shader stays when the fragment shader does not  *)
(* compile.                                                                *)
MakeFails ==
  /\ ~ SetupDone
  /\ alive' = IF Setup[stage] = "program" THEN alive \ Shaders ELSE alive
  /\ UNCHANGED <<stage, egl>>

(* Fault: the locals are dropped in the order they were made. *)
DropOrderForward == Reverse((IF egl THEN EglDrops ELSE <<>>) \o RunDrops)

(* The drops still to come, in order: the objects the values of run own. *)
DropOrder == (IF egl THEN EglDrops ELSE <<>>) \o RunDrops

Dropping == {i \in DOMAIN DropOrder : DropOrder[i] \in alive}

OfContext == {o \in Objects : "context" \in MadeFrom[o]}

(* The next object is destroyed.  A context ends its shaders and programs. *)
Drop ==
  /\ \E i \in Dropping :
       /\ \A j \in Dropping : i <= j
       /\ LET o == DropOrder[i]
          IN  alive' = alive \ ({o} \union (IF o = "context" THEN OfContext ELSE {}))
  /\ UNCHANGED <<stage, egl>>

Destroyed == alive \ alive'

(* What Egl::new had made when it failed: nobody owns it, nobody drops it. *)
HalfMade ==
  IF egl THEN {} ELSE {Setup[i] : i \in 1 .. stage - 1} \intersect Range(EglDrops)

=============================================================================
