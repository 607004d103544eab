---------------------------- MODULE MCOutputFind ----------------------------
(***************************************************************************)
(* OutputFind with two cards of up to two connectors: a firmware display   *)
(* with one connector, a card without dumb buffers, a card whose firmware  *)
(* left the second connector lit, and a card whose first encoder can only  *)
(* use its second CRTC and whose second connector has no encoder.          *)
(***************************************************************************)
EXTENDS OutputFind

Card(opens, dumb, conns, crtcs, encoders, current, possible, crtcOf) ==
  [opens |-> opens, dumb |-> dumb, conns |-> conns, crtcs |-> crtcs,
   encoders |-> encoders, current |-> current,
   possible |-> possible, crtcOf |-> crtcOf]

Firmware ==
  Card(TRUE, TRUE, <<1>>, <<41>>, <<<<1>>, <<>>>>, <<None, None>>, <<{1}>>, <<None>>)

NoDumb ==
  Card(TRUE, FALSE, <<1>>, <<41>>, <<<<1>>, <<>>>>, <<None, None>>, <<{1}>>, <<None>>)

Lit ==
  Card(TRUE, TRUE, <<1, 2>>, <<41, 42>>, <<<<1>>, <<2>>>>, <<None, 2>>,
       <<{1, 2}, {1, 2}>>, <<None, 42>>)

Partial ==
  Card(TRUE, TRUE, <<2, 1>>, <<41, 42>>, <<<<1>>, <<>>>>, <<None, None>>, <<{2}>>, <<None>>)

MCHardware == {Firmware, NoDumb, Lit, Partial}

=============================================================================
