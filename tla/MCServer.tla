------------------------------ MODULE MCServer ------------------------------
(***************************************************************************)
(* Instances of HgServer for TLC.                                          *)
(***************************************************************************)
EXTENDS HgServer

CONSTANTS a, b, d

\* One posts a form, one has sent more than it declares, one makes no sense.
Mixed ==
  a :> [lines |-> <<"get", "len1">>, body |-> 1, extra |-> 0] @@
  b :> [lines |-> <<"get", "len0">>, body |-> 0, extra |-> 1] @@
  d :> [lines |-> <<"get", "nocolon">>, body |-> 0, extra |-> 0]
\* Between CR and LF, before what nobody asked for, and at the ends.
MixedCuts == a :> {4, 9} @@ b :> {8, 9} @@ d :> {8}
=============================================================================
