------------------------------ MODULE MCPolicy ------------------------------
(***************************************************************************)
(* Instances of HgPolicy for TLC.                                          *)
(***************************************************************************)
EXTENDS HgPolicy

\* One of the daemon's own rules, one with both ports wild, one for any protocol.
EditedRules == {L4(TCP, 0, 443), L4(UDP, 0, 0), L4(0, 68, 67)}
\* Subnets of addresses of three bits; 5 has host bits set for /1, and /0 is all.
EditedCidrs == {<<5, 1>>, <<3, 3>>, <<2, 0>>}
ConfCidrs == {<<7, 2>>}
=============================================================================
