--------------------------- MODULE MCGraphicsTest ---------------------------
(***************************************************************************)
(* GraphicsTest with the lines make graphics-boot-test waits for, and four *)
(* guests: one that works, one whose frame has wrong pixels, one that does *)
(* not get as far as its frame, and one that holds two frames in a row.    *)
(***************************************************************************)
EXTENDS GraphicsTest

Good(frame) ==
  <<frame, "modeset", "nl", "holding", "nl", "dark", "exited", "nl", "down", "nl">>

MCPrograms ==
  {Good("right"), Good("wrong"), <<"down", "nl">>,
   <<"right", "holding", "nl", "wrong", "holding", "nl", "modeset", "nl">>}

=============================================================================
