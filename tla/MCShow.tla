------------------------------- MODULE MCShow -------------------------------
(***************************************************************************)
(* An instance of HgShow for TLC.                                          *)
(***************************************************************************)
EXTENDS HgShow

CONSTANTS i1, i2, i3

WalkOrder == <<i1, i2, i3>>
=============================================================================
