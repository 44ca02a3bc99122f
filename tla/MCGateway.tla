------------------------------ MODULE MCGateway -----------------------------
(***************************************************************************)
(* Instances of HgGateway for TLC.                                         *)
(***************************************************************************)
EXTENDS HgGateway

CONSTANTS a, b, i1, i2, zero

\* One home address per device, none shared.
HomeLeases == {<<a, i1>>, <<b, i2>>}
\* Both devices may be given the one address.
SharedLeases == {a, b} \X {i1}
\* Device a roams between two addresses, nobody else uses them (no run: README, "moved").
RoamingLeases == {<<a, i1>>, <<a, i2>>}
OneLease == {<<a, i1>>}

\* No limit, or one of two limits, the same in both directions.
NoLimits == {Unlimited}
TwoLimits == {[d |-> n, u |-> n] : n \in 1 .. 2}

\* Rate ids all distinct: two addresses, two MACs, and 0 for "no limit".
DistinctOctets == [i \in IP |-> IF i = i1 THEN 1 ELSE IF i = i2 THEN 2 ELSE 0]
DistinctBytes == [m \in MAC |-> IF m = a THEN 3 ELSE 4]
\* Of these, b's MAC ends like its address.
MixedBytes == [m \in MAC |-> IF m = a THEN 3 ELSE 2]
\* Two addresses of different subnets, 10.0.1.1 and 10.0.2.1, say (no run).
SameOctet == [i \in IP |-> 1]
=============================================================================
