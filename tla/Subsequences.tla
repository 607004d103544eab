---------------------------- MODULE Subsequences ----------------------------
(***************************************************************************)
(* The part of a sequence that lies in a set.  It is SelectSeq with a set  *)
(* for the test, written as a recursive function: the proof system knows   *)
(* no definition of SelectSeq, and no fact about an operator that takes a  *)
(* test can be cited.                                                      *)
(***************************************************************************)
EXTENDS Naturals, Sequences

(* The elements of s that are in S, in their order. *)
Among(s, S) ==
  LET upTo[i \in 0 .. Len(s)] ==
        IF i = 0 THEN <<>>
        ELSE IF s[i] \in S THEN Append(upTo[i - 1], s[i]) ELSE upTo[i - 1]
  IN  upTo[Len(s)]

=============================================================================
