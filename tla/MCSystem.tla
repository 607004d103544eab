------------------------------ MODULE MCSystem ------------------------------
(***************************************************************************)
(* System with command lines of up to MaxWords of these words: every       *)
(* option, usable and unusable values, a misspelt option and a word that   *)
(* is not for wana-init.                                                   *)
(***************************************************************************)
EXTENDS System

Word(k, v) == [key |-> k, value |-> v]

MCWords ==
  {Word("log", "error"), Word("log", "debug"),
   Word("test", "poweroff"), Word("test", "halt"),
   Word("shell", "no"), Word("shell", "on"),
   Word("run", "/usr/bin/wana-gl"),
   Word("colour", "1"), Word("foreign", "quiet")}

=============================================================================
