---------------------------- MODULE MCLogConsole ----------------------------
(***************************************************************************)
(* LogConsole with two processes.  A message of two lines that ends with *)
(* a newline, and one that is nothing but newlines.                        *)
(***************************************************************************)
EXTENDS LogConsole

MCMessages == {<<"text", "text", "empty">>, <<"empty", "empty">>}

=============================================================================
