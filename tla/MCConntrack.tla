----------------------------- MODULE MCConntrack ----------------------------
(***************************************************************************)
(* Instances of HgConntrack for TLC.                                       *)
(***************************************************************************)
EXTENDS HgConntrack

CONSTANTS a, b, x, y

\* 257 = 0x0101 reads the same both ways; 258 = 0x0102 and 513 = 0x0201 swap.
\* Client a asks two addresses from one port in turn and the portal from
\* another; client b uses the same port as a.
AloneTargets == {<<a, 257, x>>, <<a, 257, Portal>>, <<a, 258, x>>, <<a, 258, y>>, <<b, 257, y>>}
\* Two connections of one client whose ports are each other's swap.
SwapTargets == {<<a, 258, x>>, <<a, 513, y>>}
=============================================================================
