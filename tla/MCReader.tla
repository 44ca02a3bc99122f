------------------------------ MODULE MCReader ------------------------------
(***************************************************************************)
(* Instances of HgReader for TLC.                                          *)
(***************************************************************************)
EXTENDS HgReader

CONSTANTS a, i1, i2, zero

OneLease == {<<a, i1>>}
NoLimits == {Unlimited}
DistinctOctets == [i \in IP |-> IF i = i1 THEN 1 ELSE IF i = i2 THEN 2 ELSE 0]
DistinctBytes == [m \in MAC |-> 3]
=============================================================================
