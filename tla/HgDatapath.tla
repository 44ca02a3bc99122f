----------------------------- MODULE HgDatapath -----------------------------
(***************************************************************************)
(* The two TC programs of hg_tc.bpf.c, hg_tc_ingress and hg_tc_egress, run *)
(* by several CPUs at once.  Each map operation is a step of its own, so   *)
(* the programs interleave with each other and with hgctl as they do in    *)
(* the kernel.  What a packet carries beyond its addresses is abstracted:  *)
(* where the code branches on the destination or the protocol, the model   *)
(* chooses.  EDT timestamps are the subject of HgEdt; here the shaper only *)
(* may or may not drop.                                                    *)
(***************************************************************************)
EXTENDS HgMaps

CONSTANT CPU

VARIABLE cpu   \* what each CPU is running

(***************************************************************************)
(* pc is the next step of the program, in the order of its code:           *)
(*   bypass  hg_bypass lookup       bind   hg_mac_ip lookup                *)
(*   fwd     hg_mac_ip update       rev    hg_ip_mac update                *)
(*   portal  portal address test    resolve hg_ip_mac lookup (egress)      *)
(*   auth    hg_clients lookup      expiry clock read and test             *)
(*   expire  hg_clients delete      mark   hg_counters state               *)
(*   shape   apply_edt_shaping      count  hg_counters lookup and update   *)
(*   preauth the allow-lists        done   the verdict is returned         *)
(***************************************************************************)
IngressPc == {"bypass", "bind", "fwd", "rev", "portal", "auth", "expiry",
              "expire", "mark", "shape", "count", "preauth"}
EgressPc == {"bypass", "resolve", "auth", "shape", "count", "preauth"}
HoldsSession == {"expiry", "expire", "mark", "shape", "count"}

\* pass: accepted unauthenticated or bypassed; forward: accepted as a client's;
\* portal: to hawkgated, as addressed or by DNAT; shot: dropped.
Verdict == {"pass", "forward", "portal", "shot"}

Idle == [dir |-> "none", pc |-> "idle", mac |-> None, ip |-> None,
         sess |-> None, arr |-> 0, ver |-> "none"]

\* arr, the time the packet arrived, is a history field.
Program ==
  [dir: {"none", "in", "out"},
   pc: {"idle", "done"} \cup IngressPc \cup EgressPc,
   mac: MAC \cup {None}, ip: IP \cup {None}, sess: Session \cup {None},
   arr: Nat, ver: Verdict \cup {"none"}]

\* What the record of a program has, by the step it is at.
NeedsMac == {"bind", "fwd", "rev", "portal", "auth"} \cup HoldsSession
ProgramOK(j) ==
  /\ j.pc # "idle" => j.ip \in IP
  /\ (j.pc \in NeedsMac \/ j.dir = "in" \/ j.ver = "portal") => j.mac \in MAC
  /\ j.pc \in HoldsSession => j.sess \in Session

DatapathTypeOK ==
  /\ cpu \in [CPU -> Program]
  /\ \A c \in CPU : ProgramOK(cpu[c])

DatapathInit == cpu = [c \in CPU |-> Idle]

Goto(c, l) == cpu' = [cpu EXCEPT ![c].pc = l]
Decide(c, v) == cpu' = [cpu EXCEPT ![c].pc = "done", ![c].ver = v]

(***************************************************************************)
(* Packets come in: device m sends from i, or the gateway sends to i.      *)
(* They are IPv4; by then the EtherType check has passed or dropped the    *)
(* rest, and egress has handed the portal's own answers to                 *)
(* snat_from_conntrack, before either looks at any map of this model.      *)
(***************************************************************************)
Ingress(c, m, i) ==
  /\ cpu[c].pc = "idle"
  /\ cpu' = [cpu EXCEPT ![c] = [Idle EXCEPT !.dir = "in", !.pc = "bypass",
                                            !.mac = m, !.ip = i, !.arr = now]]
  /\ UNCHANGED <<now, maps>>

Egress(c, i) ==
  /\ cpu[c].pc = "idle"
  /\ cpu' = [cpu EXCEPT ![c] = [Idle EXCEPT !.dir = "out", !.pc = "bypass",
                                            !.ip = i, !.arr = now]]
  /\ UNCHANGED <<now, maps>>

\* Step 2 of the ingress policy, step 3 of the egress policy.
StaticBypass(c) ==
  /\ cpu[c].pc = "bypass"
  /\ \/ cpu[c].ip \in bypass /\ Decide(c, "pass")
     \/ /\ cpu[c].ip \notin bypass
        /\ Goto(c, IF cpu[c].dir = "in" THEN "bind" ELSE "resolve")
  /\ UNCHANGED <<now, maps>>

(***************************************************************************)
(* Step 3 of ingress: the bindings are written only when the MAC's IP is   *)
(* new, and both updates may fail unnoticed.                               *)
(***************************************************************************)
\* Mutant of NeedsBinding: an address that changed is not noticed.
MNeedsBinding(m, i) == mac_ip[m] = None

NeedsBinding(m, i) == mac_ip[m] = None \/ mac_ip[m] # i

BindLookup(c) ==
  /\ cpu[c].pc = "bind"
  /\ Goto(c, IF NeedsBinding(cpu[c].mac, cpu[c].ip) THEN "fwd" ELSE "portal")
  /\ UNCHANGED <<now, maps>>

\* Mutant of BindForward: the reverse binding is forgotten.
MBindForward(c) ==
  /\ cpu[c].pc = "fwd"
  /\ mac_ip' = UpdateIfFits(mac_ip, cpu[c].mac, cpu[c].ip, MaxBindings)
  /\ Goto(c, "portal")
  /\ UNCHANGED <<now, clients, counters, rates, ip_mac, bypass>>

BindForward(c) ==
  /\ cpu[c].pc = "fwd"
  /\ mac_ip' = UpdateIfFits(mac_ip, cpu[c].mac, cpu[c].ip, MaxBindings)
  /\ Goto(c, "rev")
  /\ UNCHANGED <<now, clients, counters, rates, ip_mac, bypass>>

\* Mutant of BindReverse: the forward entry's value is stored.
MBindReverse(c) ==
  /\ cpu[c].pc = "rev"
  /\ ip_mac' = UpdateIfFits(ip_mac, cpu[c].ip, cpu[c].ip, MaxBindings)
  /\ Goto(c, "portal")
  /\ UNCHANGED <<now, clients, counters, rates, mac_ip, bypass>>

BindReverse(c) ==
  /\ cpu[c].pc = "rev"
  /\ ip_mac' = UpdateIfFits(ip_mac, cpu[c].ip, cpu[c].mac, MaxBindings)
  /\ Goto(c, "portal")
  /\ UNCHANGED <<now, clients, counters, rates, mac_ip, bypass>>

\* Step 4 of ingress: to the portal's port, to another port of the portal's
\* address, or elsewhere.
PortalTraffic(c) ==
  /\ cpu[c].pc = "portal"
  /\ \/ Decide(c, "portal")
     \/ Decide(c, "shot")
     \/ Goto(c, "auth")
  /\ UNCHANGED <<now, maps>>

\* Step 4 of egress: an unbound destination is nobody's.
Resolve(c) ==
  /\ cpu[c].pc = "resolve"
  /\ \/ ip_mac[cpu[c].ip] = None /\ Goto(c, "preauth")
     \/ /\ ip_mac[cpu[c].ip] # None
        /\ cpu' = [cpu EXCEPT ![c].pc = "auth", ![c].mac = ip_mac[cpu[c].ip]]
  /\ UNCHANGED <<now, maps>>

\* Step 5: the session, by MAC.  Only ingress looks at its expiry.
AuthLookup(c) ==
  /\ cpu[c].pc = "auth"
  /\ \/ clients[cpu[c].mac] = None /\ Goto(c, "preauth")
     \/ /\ clients[cpu[c].mac] # None
        /\ cpu' = [cpu EXCEPT
                     ![c].pc = IF cpu[c].dir = "in" THEN "expiry" ELSE "shape",
                     ![c].sess = clients[cpu[c].mac]]
  /\ UNCHANGED <<now, maps>>

ExpiryCheck(c) ==
  /\ cpu[c].pc = "expiry"
  /\ Goto(c, IF Expired(cpu[c].sess) THEN "expire" ELSE "shape")
  /\ UNCHANGED <<now, maps>>

\* Mutant of ExpireDelete: the session is only reported as expired.
MExpireDelete(c) ==
  /\ cpu[c].pc = "expire"
  /\ Goto(c, "mark")
  /\ UNCHANGED <<now, maps>>

\* Whatever element is now under the key is the one that goes.
ExpireDelete(c) ==
  /\ cpu[c].pc = "expire"
  /\ clients' = [clients EXCEPT ![cpu[c].mac] = None]
  /\ Goto(c, "mark")
  /\ UNCHANGED <<now, counters, rates, mac_ip, ip_mac, bypass>>

\* Mutant of ExpireMark: the counter goes with the session.
MExpireMark(c) ==
  /\ cpu[c].pc = "mark"
  /\ counters' = [counters EXCEPT ![cpu[c].ip] = None]
  /\ Decide(c, "shot")
  /\ UNCHANGED <<now, clients, rates, mac_ip, ip_mac, bypass>>

ExpireMark(c) ==
  /\ cpu[c].pc = "mark"
  /\ counters' = IF counters[cpu[c].ip] = None THEN counters
                 ELSE [counters EXCEPT ![cpu[c].ip] = "EXPIRE"]
  /\ Decide(c, "shot")
  /\ UNCHANGED <<now, clients, rates, mac_ip, ip_mac, bypass>>

\* An upload above its limit may exceed the horizon and be dropped; a download
\* never is.
Shape(c) ==
  /\ cpu[c].pc = "shape"
  /\ \/ Goto(c, "count")
     \/ /\ cpu[c].dir = "in"
        /\ AppliedLimit(cpu[c].sess).u # 0
        /\ Decide(c, "shot")
  /\ UNCHANGED <<now, maps>>

\* The counter is looked up under the packet's address.
Account(c) ==
  /\ cpu[c].pc = "count"
  /\ Decide(c, IF counters[cpu[c].ip] = None THEN "shot" ELSE "forward")
  /\ UNCHANGED <<now, maps>>

\* Steps 6, 6a and 7 of ingress, 5 to 6 of egress: an allowed protocol or a
\* walled-garden address, plain HTTP to be redirected, or neither.
PreAuth(c) ==
  /\ cpu[c].pc = "preauth"
  /\ \/ Decide(c, "pass")
     \/ Decide(c, "shot")
     \/ cpu[c].dir = "in" /\ Decide(c, "portal")
  /\ UNCHANGED <<now, maps>>

\* One step of the program that CPU c runs.
ProgramStep(c) ==
  \/ StaticBypass(c) \/ BindLookup(c) \/ BindForward(c) \/ BindReverse(c)
  \/ PortalTraffic(c) \/ Resolve(c) \/ AuthLookup(c) \/ ExpiryCheck(c)
  \/ ExpireDelete(c) \/ ExpireMark(c) \/ Shape(c) \/ Account(c) \/ PreAuth(c)

\* The program has returned and the CPU is free.
Return(c) ==
  /\ cpu[c].pc = "done"
  /\ cpu' = [cpu EXCEPT ![c] = Idle]
  /\ UNCHANGED <<now, maps>>
=============================================================================
