----------------------------- MODULE HgGateway ------------------------------
(***************************************************************************)
(* The running gateway: the kernel programs on every CPU (HgDatapath), the *)
(* hgctl processes (HgCtl), of which hawkgated starts at most one at a     *)
(* time, and around them the LAN, where devices obtain and lose addresses, *)
(* send, and log in through the portal.                                    *)
(***************************************************************************)
EXTENDS HgDatapath, HgCtl

CONSTANTS
  Leases,       \* which device may be given which address: <<m, i>>
  Unspecified,  \* 0.0.0.0, the source of DHCP requests; in IP if they occur
  Daemon,       \* the process slot of hawkgated's own hgctl; others: operators
  Commands,     \* operator commands that occur
  Traffic,      \* directions that occur: "up", "down"
  MaxTime       \* bound: the clock stops here

ASSUME LeasesAssumption == Leases \subseteq MAC \X (IP \ {Unspecified})
ASSUME CommandsAssumption == Commands \subseteq Command
ASSUME TrafficAssumption == Traffic \subseteq {"up", "down"}
ASSUME MaxTimeAssumption == MaxTime \in Nat

VARIABLES
  addr,    \* the address each device holds
  heard,   \* devices whose packet from that address has reached hawkgated
  who      \* history: the device whose login the daemon is serving

env == <<addr, heard, who>>
vars == <<now, maps, cpu, ctl, env>>

EnvTypeOK ==
  /\ addr \in [MAC -> IP \cup {None}]
  /\ heard \in SUBSET {m \in MAC : addr[m] # None}
  /\ who \in MAC \cup {None}

TypeOK == MapsTypeOK /\ DatapathTypeOK /\ CtlTypeOK /\ EnvTypeOK

Init ==
  /\ MapsInit
  /\ DatapathInit
  /\ CtlInit
  /\ addr = [m \in MAC |-> None]
  /\ heard = {}
  /\ who = None

(***************************************************************************)
(* The LAN and the clock.                                                  *)
(***************************************************************************)
Tick ==
  /\ now < MaxTime
  /\ now' = now + 1
  /\ UNCHANGED <<maps, cpu, ctl, env>>

\* A lease moves to m, which leaves the address it held.
Lease(m, i) ==
  /\ <<m, i>> \in Leases
  /\ \A n \in MAC : addr[n] # i
  /\ addr' = [addr EXCEPT ![m] = i]
  /\ heard' = heard \ {m}
  /\ UNCHANGED <<now, maps, cpu, ctl, who>>

Release(m) ==
  /\ addr[m] # None
  /\ addr' = [addr EXCEPT ![m] = None]
  /\ heard' = heard \ {m}
  /\ UNCHANGED <<now, maps, cpu, ctl, who>>

\* A device without an address sends DHCP requests only.
Upload(c, m) ==
  /\ "up" \in Traffic
  /\ \/ addr[m] # None /\ Ingress(c, m, addr[m])
     \/ addr[m] = None /\ Unspecified \in IP /\ Ingress(c, m, Unspecified)
  /\ UNCHANGED <<ctl, env>>

Download(c) ==
  /\ "down" \in Traffic
  /\ \E i \in IP \ {Unspecified} : Egress(c, i)
  /\ UNCHANGED <<ctl, env>>

Run(c) == ProgramStep(c) /\ UNCHANGED <<ctl, env>>

\* The verdict takes effect.  A packet let through to the portal makes the
\* device known to hawkgated, if it still has the address.
Deliver(c) ==
  /\ Return(c)
  /\ heard' = IF cpu[c].ver = "portal" /\ addr[cpu[c].mac] = cpu[c].ip
              THEN heard \cup {cpu[c].mac} ELSE heard
  /\ UNCHANGED <<ctl, addr, who>>

(***************************************************************************)
(* hawkgated: handle_auth, after the password has been accepted, spawns    *)
(* `hgctl add -c` for the peer address of the connection and waits.        *)
(***************************************************************************)
\* Mutant of Login: the peer address of another connection is taken.
MLogin(m) ==
  /\ m \in heard
  /\ Daemon \in Proc
  /\ \E n \in heard, exp \in Timeout, lim \in Limit :
       Add(Daemon, "add_ip", m, addr[n], exp, lim)
  /\ who' = m
  /\ UNCHANGED <<cpu, addr, heard>>

Login(m) ==
  /\ m \in heard
  /\ Daemon \in Proc
  /\ \E exp \in Timeout, lim \in Limit : Add(Daemon, "add_ip", m, addr[m], exp, lim)
  /\ who' = m
  /\ UNCHANGED <<cpu, addr, heard>>

\* Someone runs hgctl by hand or from a script.
Operator(p) ==
  /\ p # Daemon
  /\ \E cmd \in Commands :
       \/ \E l \in Leases :
            \/ \E exp \in Timeout, lim \in Limit : Add(p, cmd, l[1], l[2], exp, lim)
            \/ Del(p, cmd, l[1], l[2])
            \/ cmd = "map_del" /\ MapDel(p, l[1])
       \/ \E i \in IP \ {Unspecified} : Bypass(p, cmd, i)
  /\ UNCHANGED <<cpu, env>>

Ctl(p) == CtlStep(p) /\ UNCHANGED <<cpu, env>>

Wait(p) ==
  /\ Reap(p)
  /\ who' = IF p = Daemon THEN None ELSE who
  /\ UNCHANGED <<cpu, addr, heard>>

Next ==
  \/ Tick
  \/ \E m \in MAC : Release(m) \/ Login(m) \/ \E i \in IP : Lease(m, i)
  \/ \E c \in CPU : Run(c) \/ Deliver(c) \/ Download(c) \/ \E m \in MAC : Upload(c, m)
  \/ \E p \in Proc : Operator(p) \/ Ctl(p) \/ Wait(p)

Spec == Init /\ [][Next]_vars

\* A TC program runs to completion in softirq context: it cannot block, loop
\* or be left half-way.  Nothing is assumed of devices, operators or clock.
FairSpec == Spec /\ \A c \in CPU : WF_vars(Run(c) \/ Deliver(c))

-----------------------------------------------------------------------------
(***************************************************************************)
(* Properties.                                                             *)
(***************************************************************************)
ValidAt(s, t) == s.expiry = 0 \/ t <= s.expiry

\* An upload is forwarded as a client's only under a session that had not
\* expired when the packet arrived (hg_tc.bpf.c, step 5 of the ingress policy),
\* whatever expires, is renewed or is deleted meanwhile.
NoExpiredUpload ==
  \A c \in CPU : (cpu[c].pc = "done" /\ cpu[c].dir = "in" /\ cpu[c].ver = "forward")
                   => ValidAt(cpu[c].sess, cpu[c].arr)

\* Does not hold (README): the same of downloads; a session's end stops traffic
\* in both directions.
NoExpiredDownload ==
  \A c \in CPU : (cpu[c].pc = "done" /\ cpu[c].dir = "out" /\ cpu[c].ver = "forward")
                   => ValidAt(cpu[c].sess, cpu[c].arr)

\* No client is authenticated and cut off: a device with a session has a
\* counter under the address it holds, without which both programs drop every
\* packet of it (the "counter missing" branches).
SessionIsServed ==
  Quiescent => \A m \in MAC : (clients[m] # None /\ addr[m] # None)
                                => counters[addr[m]] # None

\* hg_reader.c takes a counter in state AUTH_OK for an active client, and the
\* portal then hides its login page: some device of that address has a session,
\* unless a CPU is about to mark the counter expired.
ActiveCounterHasSession ==
  Quiescent => \A i \in IP : counters[i] = "AUTH_OK" =>
    \/ \E m \in MAC : <<m, i>> \in Leases /\ clients[m] # None
    \/ \E c \in CPU : cpu[c].pc = "mark" /\ cpu[c].ip = i

\* A finished `del` has left nothing of the client: no session, no profile of
\* its own, no counter under any address it may hold.
DelLeavesNothing ==
  \A p \in Proc : (ctl[p].pc = "exit" /\ ctl[p].cmd \in DelCommand /\ ctl[p].rc = "SUCCESS")
    => /\ clients[ctl[p].mac] = None
       /\ ctl[p].sess # None => rates[ctl[p].sess.rate] = None
       /\ \A i \in IP : <<ctl[p].mac, i>> \in Leases => counters[i] = None

\* Every client is shaped by the limits its own `add` gave.
OwnRateLimits ==
  Quiescent => \A m \in MAC : clients[m] # None => AppliedLimit(clients[m]) = clients[m].lim

\* A device the portal has heard is bound both ways to the address it holds
\* ("binding guaranteed by prior traffic", hg_bpf_ctrl.cpp).
BindingFollowsTraffic ==
  \A m \in heard : ip_mac[addr[m]] = m /\ mac_ip[m] = addr[m]

\* The session of a login goes to the device that logged in.
LoginAuthenticatesSender ==
  \A p \in Proc \cap {Daemon} :
    ctl[p].pc \in {"clock", "client", "counter", "rate"} => ctl[p].mac = who

\* A login from a device the portal has heard does not fail for want of a
\* binding.
LoginResolves ==
  \A p \in Proc \cap {Daemon} : ~(ctl[p].rc = "FAILED" /\ ctl[p].mac = None)

\* Does not hold (README): the delete of step 5 removes an expired session,
\* never a fresh one ("expired? -> delete", the ingress policy).
DeletesOnlyExpired ==
  \A c \in CPU : cpu[c].pc = "expire" =>
    clients[cpu[c].mac] = None \/ Expired(clients[cpu[c].mac])

\* A device that keeps sending unauthenticated or authenticated traffic does
\* not keep an expired session: each such packet reaches the lookup of step 5.
AtAuth(m) == \E c \in CPU : cpu[c].pc = "auth" /\ cpu[c].dir = "in" /\ cpu[c].mac = m
HoldsExpired(m) == clients[m] # None /\ Expired(clients[m])
ExpiredIsReaped == \A m \in MAC : []<>AtAuth(m) => []<>~HoldsExpired(m)
-----------------------------------------------------------------------------
(***************************************************************************)
(* What all of it amounts to: the promises of HgAccess.  A device's access *)
(* is its session's expiry; counters, profiles and bindings are how the    *)
(* gateway keeps the promises, and are not seen.                           *)
(***************************************************************************)
OrderKind(cmd) ==
  CASE cmd \in AddCommand -> "grant"
    [] cmd \in DelCommand -> "revoke"
    [] cmd = "map_del" -> "drop"
    [] cmd = "bypass_add" -> "exempt"
    [] cmd = "bypass_del" -> "include"
    [] OTHER -> "none"

\* The step after which each command has given or taken access.
OrderStage(pc) ==
  CASE pc = "idle" -> "none"
    [] pc = "client" -> "ready"
    [] pc \in {"counter", "rollback", "rate", "unbind", "uncounter"} -> "done"
    [] pc = "exit" -> "ended"
    [] OTHER -> "open"

OwnersOf(i) == {m \in MAC : <<m, i>> \in Leases}

OrderOf(j) ==
  LET kind == OrderKind(j.cmd)
      stage == OrderStage(j.pc)
      ended == stage = "ended"
  IN [kind |-> kind,
      stage |-> stage,
      of |-> CASE ended \/ kind \notin {"grant", "revoke", "drop"} -> {}
               [] j.pc = "resolve" /\ j.cmd # "add_mac" -> OwnersOf(j.ip)
               [] OTHER -> {j.mac},
      at |-> IF ~ended /\ kind \in {"exempt", "include"} THEN j.ip ELSE None,
      exp |-> IF ended THEN 0 ELSE j.exp,
      until |-> IF kind = "grant" /\ stage \in {"ready", "done"}
                THEN {j.sess.expiry} ELSE {},
      rc |-> IF ended THEN j.rc ELSE "none"]

PacketStage(pc) ==
  CASE pc = "idle" -> "none"
    [] pc \in {"expiry", "expire", "shape", "count", "preauth"} -> "seen"
    [] pc = "mark" -> "expired"
    [] pc = "done" -> "out"
    [] OTHER -> "held"

AccessOf(s) == IF s = None THEN {} ELSE {s.expiry}

PacketOf(j) ==
  [stage |-> PacketStage(j.pc), dir |-> j.dir,
   mac |-> IF j.dir = "in" THEN j.mac ELSE None,
   ip |-> j.ip, arr |-> j.arr, saw |-> AccessOf(j.sess), ver |-> j.ver]

Grants == [m \in MAC |-> AccessOf(clients[m])]
Orders == [p \in Proc |-> OrderOf(ctl[p])]
Packets == [c \in CPU |-> PacketOf(cpu[c])]

Access == INSTANCE HgAccess WITH
  access <- Grants, exempt <- bypass, order <- Orders, packet <- Packets

\* The gateway keeps the promises of HgAccess.
ImplementsAccess == Access!Spec
=============================================================================
