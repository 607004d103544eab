-------------------------------- MODULE Kms --------------------------------
(***************************************************************************)
(* One CRTC of a DRM card as wana-drm's Card drives it (card.rs): frame-   *)
(* buffers over buffers, the modeset, page flips and their events.  The    *)
(* operations are the ioctls that the methods of Card issue; what the      *)
(* kernel does with them, and the vertical blank, is modelled from how the *)
(* code relies on it.  A framebuffer id that was removed may be handed out *)
(* again.  Each operation here succeeds; a caller's error path is its own. *)
(***************************************************************************)
EXTENDS Naturals, Sequences

CONSTANTS
  Buffers,    \* the buffer objects that may be shown
  NoBuffer,   \* no buffer
  FbIds,      \* framebuffer ids the kernel can hand out
  NoFb        \* no framebuffer

ASSUME NoBufferAssumption == NoBuffer \notin Buffers
ASSUME NoFbAssumption == NoFb \notin FbIds

VARIABLES
  live,       \* the framebuffers that exist for the client
  fbOf,       \* fbOf[f]: the buffer behind f while f exists or is displayed
  scanout,    \* the framebuffer on the screen
  pending,    \* the framebuffer of a flip that waits for the vertical blank
  token,      \* the user_data of the flip issued last
  events      \* completed flips not yet read from the card, as user_data

kms == <<live, fbOf, scanout, pending, token, events>>

KmsTypeOK ==
  /\ live \subseteq FbIds
  /\ fbOf \in [FbIds -> Buffers \union {NoBuffer}]
  /\ scanout \in FbIds \union {NoFb}
  /\ pending \in FbIds \union {NoFb}
  /\ token \in Nat
  /\ events \in Seq(Nat)

ScreenOff ==
  /\ live = {}
  /\ fbOf = [f \in FbIds |-> NoBuffer]
  /\ scanout = NoFb
  /\ pending = NoFb
  /\ token = 0
  /\ events = <<>>

(* The buffers the display reads, now or after the next vertical blank. *)
Displayed == {fbOf[f] : f \in {scanout, pending} \ {NoFb}}

(* Card::add_fb_handle, ADDFB: the kernel picks an id that is not in use,  *)
(* by the client or still by the display.                                  *)
AddFb(f, b) ==
  /\ f \notin live \union {scanout, pending}
  /\ live' = live \union {f}
  /\ fbOf' = [fbOf EXCEPT ![f] = b]
  /\ UNCHANGED <<scanout, pending, token, events>>

(* Card::rm_fb, RMFB: removing the framebuffer that the CRTC was last set  *)
(* to turns the screen off and cancels a flip to it; one that a waiting    *)
(* flip replaces stays on the screen until then.                           *)
RmFb(f) ==
  LET off == f = pending \/ (f = scanout /\ pending = NoFb)
  IN  /\ f \in live
      /\ live' = live \ {f}
      /\ scanout' = IF off THEN NoFb ELSE scanout
      /\ pending' = IF off THEN NoFb ELSE pending
      /\ UNCHANGED <<fbOf, token, events>>

(* Card::set_crtc, SETCRTC: returns once the framebuffer is on the screen. *)
SetCrtc(f) ==
  /\ f \in live
  /\ scanout' = f
  /\ UNCHANGED <<live, fbOf, pending, token, events>>

(* Fault: the flip is requested without DRM_MODE_PAGE_FLIP_EVENT. *)
PageFlipNoEvent(f, user) ==
  /\ f \in live
  /\ scanout # NoFb /\ pending = NoFb
  /\ scanout' = f
  /\ token' = user
  /\ UNCHANGED <<live, fbOf, pending, events>>

(* Card::page_flip, PAGE_FLIP with an event: refused while the screen is   *)
(* off or another flip waits.                                              *)
PageFlip(f, user) ==
  /\ f \in live
  /\ scanout # NoFb /\ pending = NoFb
  /\ pending' = f
  /\ token' = user
  /\ UNCHANGED <<live, fbOf, scanout, events>>

(* The vertical blank completes the flip and queues its event. *)
Vblank ==
  /\ pending # NoFb
  /\ scanout' = pending
  /\ pending' = NoFb
  /\ events' = Append(events, token)
  /\ UNCHANGED <<live, fbOf, token>>

(* Card::read_flip_events: blocks until there is an event and returns all. *)
ReadFlipEvents ==
  /\ events # <<>>
  /\ events' = <<>>
  /\ UNCHANGED <<live, fbOf, scanout, pending, token>>

(* The card's file is closed: the kernel removes what the client created.  *)
CloseCard ==
  /\ live' = {}
  /\ fbOf' = [f \in FbIds |-> NoBuffer]
  /\ scanout' = NoFb
  /\ pending' = NoFb
  /\ token' = 0
  /\ events' = <<>>

=============================================================================
