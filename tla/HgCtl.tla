------------------------------- MODULE HgCtl --------------------------------
(***************************************************************************)
(* hgctl: the commands of hg_cli.c and hg_control.c that change the maps.  *)
(* Every invocation is a process of its own, and every map operation is a  *)
(* step, so invocations interleave with packets and with one another:      *)
(* nothing in the code excludes that.                                      *)
(*                                                                         *)
(* Commands:                                                               *)
(*   add_both  add -m -c      add_mac  add -m        add_ip  add -c        *)
(*   del_mac   del -m         del_ip   del -c                              *)
(*   map_del   map-del --map hg_clients                                    *)
(*   bypass_add, bypass_del                                                *)
(* Malformed arguments and maps that are not pinned fail before any change *)
(* and are left out.                                                       *)
(***************************************************************************)
EXTENDS HgMaps

CONSTANTS
  Proc,        \* hgctl processes that may exist at a time
  LastOctet,   \* [IP -> RateId]: the last octet of an address
  LastByte     \* [MAC -> RateId]: the last byte of a MAC

ASSUME RateIdAssumption == LastOctet \in [IP -> RateId] /\ LastByte \in [MAC -> RateId]

VARIABLE ctl   \* [Proc -> invocation]

AddCommand == {"add_both", "add_mac", "add_ip"}
DelCommand == {"del_mac", "del_ip"}
Command == AddCommand \cup DelCommand \cup {"map_del", "bypass_add", "bypass_del"}

(***************************************************************************)
(* pc is the next map operation:                                           *)
(*   resolve   hg_mac_ip or hg_ip_mac lookup for the missing address       *)
(*   clock     get_boottime_ns          client    hg_clients insert        *)
(*   counter   hg_counters insert       rollback  hg_clients delete        *)
(*   rate      hg_rates insert          peek      hg_clients lookup        *)
(*   unrate    hg_rates delete          unclient  hg_clients delete        *)
(*   unbind    hg_mac_ip lookup         uncounter hg_counters delete       *)
(*   single    the one operation of map_del, bypass_add and bypass_del     *)
(*   exit      the process has its exit status in rc                       *)
(***************************************************************************)
CtlPc == {"idle", "resolve", "clock", "client", "counter", "rollback", "rate",
          "peek", "unrate", "unclient", "unbind", "uncounter", "single", "exit"}

NoCommand == [pc |-> "idle", cmd |-> "none", mac |-> None, ip |-> None, exp |-> 0,
              sess |-> None, rc |-> "none"]

\* exp is -e; sess the session an add builds, or a del has read.
Invocation ==
  [pc: CtlPc, cmd: Command \cup {"none"}, mac: MAC \cup {None}, ip: IP \cup {None},
   exp: Nat, sess: Session \cup {None}, rc: {"SUCCESS", "FAILED", "none"}]

\* What the record of an invocation has, by the step it is at.
AddPc == {"clock", "client", "counter", "rollback", "rate"}
DelPc == {"peek", "unrate", "unclient", "unbind", "uncounter"}
InvocationOK(j) ==
  /\ j.pc \in AddPc => j.mac \in MAC /\ j.ip \in IP
  /\ j.pc \in AddPc \/ (j.pc = "resolve" /\ j.cmd \in AddCommand) \/ j.pc = "unrate"
       => j.sess \in Session
  /\ j.pc \in DelPc => j.mac \in MAC
  /\ j.pc = "uncounter" => j.ip \in IP
  /\ j.pc = "resolve" => \/ j.cmd \in {"add_ip", "del_ip"} /\ j.ip \in IP
                         \/ j.cmd = "add_mac" /\ j.mac \in MAC
  /\ j.pc = "single" => \/ j.cmd = "map_del" /\ j.mac \in MAC
                        \/ j.cmd \in {"bypass_add", "bypass_del"} /\ j.ip \in IP

CtlTypeOK ==
  /\ ctl \in [Proc -> Invocation]
  /\ \A p \in Proc : InvocationOK(ctl[p])

CtlInit == ctl = [p \in Proc |-> NoCommand]

CtlGoto(p, l) == ctl' = [ctl EXCEPT ![p].pc = l]
Exit(p, rc) == ctl' = [ctl EXCEPT ![p].pc = "exit", ![p].rc = rc]

\* Mutant of RateIdFor: the first octet, which all addresses of a LAN share.
MRateIdFor(cmd, m, i, lim) ==
  IF lim.d = 0 \/ lim.u = 0 THEN NoLimitId ELSE CHOOSE r \in RateId : r # NoLimitId

(***************************************************************************)
(* parse_add: a profile of its own only when both limits are given; its id *)
(* is the last octet of -c or, without -c, the last byte of -m.            *)
(***************************************************************************)
RateIdFor(cmd, m, i, lim) ==
  IF lim.d = 0 \/ lim.u = 0 THEN NoLimitId
  ELSE IF cmd = "add_mac" THEN LastByte[m] ELSE LastOctet[i]

\* The command names m, i or both; the other is None until it is resolved.
Add(p, cmd, m, i, exp, lim) ==
  /\ ctl[p].pc = "idle"
  /\ cmd \in AddCommand
  /\ ctl' = [ctl EXCEPT ![p] =
       [NoCommand EXCEPT
          !.pc = IF cmd = "add_both" THEN "clock" ELSE "resolve",
          !.cmd = cmd,
          !.mac = IF cmd = "add_ip" THEN None ELSE m,
          !.ip = IF cmd = "add_mac" THEN None ELSE i,
          !.exp = exp,
          !.sess = [expiry |-> 0, rate |-> RateIdFor(cmd, m, i, lim), lim |-> lim]]]
  /\ UNCHANGED <<now, maps>>

Del(p, cmd, m, i) ==
  /\ ctl[p].pc = "idle"
  /\ cmd \in DelCommand
  /\ ctl' = [ctl EXCEPT ![p] =
       [NoCommand EXCEPT
          !.pc = IF cmd = "del_ip" THEN "resolve" ELSE "peek",
          !.cmd = cmd,
          !.mac = IF cmd = "del_ip" THEN None ELSE m,
          !.ip = IF cmd = "del_ip" THEN i ELSE None]]
  /\ UNCHANGED <<now, maps>>

MapDel(p, m) ==
  /\ ctl[p].pc = "idle"
  /\ ctl' = [ctl EXCEPT ![p] = [NoCommand EXCEPT !.pc = "single", !.cmd = "map_del",
                                                 !.mac = m]]
  /\ UNCHANGED <<now, maps>>

Bypass(p, cmd, i) ==
  /\ ctl[p].pc = "idle"
  /\ cmd \in {"bypass_add", "bypass_del"}
  /\ ctl' = [ctl EXCEPT ![p] = [NoCommand EXCEPT !.pc = "single", !.cmd = cmd, !.ip = i]]
  /\ UNCHANGED <<now, maps>>

(***************************************************************************)
(* Finding the address that was not given.  No binding, no command.        *)
(***************************************************************************)
ResolveMac(p) ==   \* add -c and del -c
  /\ ctl[p].pc = "resolve"
  /\ ctl[p].cmd \in {"add_ip", "del_ip"}
  /\ LET m == ip_mac[ctl[p].ip] IN
       \/ m = None /\ Exit(p, "FAILED")
       \/ /\ m # None
          /\ ctl' = [ctl EXCEPT ![p].mac = m,
                       ![p].pc = IF ctl[p].cmd = "add_ip" THEN "clock" ELSE "peek",
                       ![p].ip = IF ctl[p].cmd = "add_ip" THEN @ ELSE None]
  /\ UNCHANGED <<now, maps>>

ResolveIp(p) ==    \* add -m
  /\ ctl[p].pc = "resolve"
  /\ ctl[p].cmd = "add_mac"
  /\ LET i == mac_ip[ctl[p].mac] IN
       \/ i = None /\ Exit(p, "FAILED")
       \/ i # None /\ ctl' = [ctl EXCEPT ![p].ip = i, ![p].pc = "clock"]
  /\ UNCHANGED <<now, maps>>

(***************************************************************************)
(* add_action after the addresses are known.                               *)
(***************************************************************************)
ReadClock(p) ==
  /\ ctl[p].pc = "clock"
  /\ ctl' = [ctl EXCEPT ![p].pc = "client", ![p].sess.expiry = ExpiryAt(ctl[p].exp)]
  /\ UNCHANGED <<now, maps>>

InsertClient(p) ==
  /\ ctl[p].pc = "client"
  /\ \/ /\ Fits(clients, ctl[p].mac, MaxClients)
        /\ clients' = [clients EXCEPT ![ctl[p].mac] = ctl[p].sess]
        /\ CtlGoto(p, "counter")
     \/ /\ ~Fits(clients, ctl[p].mac, MaxClients)
        /\ Exit(p, "FAILED")
        /\ UNCHANGED clients
  /\ UNCHANGED <<now, counters, rates, mac_ip, ip_mac, bypass>>

InsertCounter(p) ==
  /\ ctl[p].pc = "counter"
  /\ \/ /\ Fits(counters, ctl[p].ip, MaxCounters)
        /\ counters' = [counters EXCEPT ![ctl[p].ip] = "AUTH_OK"]
        /\ CtlGoto(p, "rate")
     \/ /\ ~Fits(counters, ctl[p].ip, MaxCounters)
        /\ CtlGoto(p, "rollback")
        /\ UNCHANGED counters
  /\ UNCHANGED <<now, clients, rates, mac_ip, ip_mac, bypass>>

\* Mutant of Rollback: the session stays.
MRollback(p) ==
  /\ ctl[p].pc = "rollback"
  /\ Exit(p, "FAILED")
  /\ UNCHANGED <<now, maps>>

Rollback(p) ==
  /\ ctl[p].pc = "rollback"
  /\ clients' = [clients EXCEPT ![ctl[p].mac] = None]
  /\ Exit(p, "FAILED")
  /\ UNCHANGED <<now, counters, rates, mac_ip, ip_mac, bypass>>

\* A full rate map is a warning: the client is authenticated without a limit.
InsertRate(p) ==
  /\ ctl[p].pc = "rate"
  /\ rates' = UpdateIfFits(rates, ctl[p].sess.rate, ctl[p].sess.lim, MaxRates)
  /\ Exit(p, "SUCCESS")
  /\ UNCHANGED <<now, clients, counters, mac_ip, ip_mac, bypass>>

(***************************************************************************)
(* del_action: the profile, the client, then the counter of the address    *)
(* the MAC is bound to at that moment.  It always reports success.         *)
(***************************************************************************)
\* Mutant of PeekClient: the profile is not looked for.
MPeekClient(p) ==
  /\ ctl[p].pc = "peek"
  /\ ctl' = [ctl EXCEPT ![p].pc = "unclient", ![p].sess = clients[ctl[p].mac]]
  /\ UNCHANGED <<now, maps>>

PeekClient(p) ==
  /\ ctl[p].pc = "peek"
  /\ LET s == clients[ctl[p].mac] IN
       ctl' = [ctl EXCEPT ![p].pc = IF s = None THEN "unclient" ELSE "unrate",
                          ![p].sess = s]
  /\ UNCHANGED <<now, maps>>

DeleteRate(p) ==
  /\ ctl[p].pc = "unrate"
  /\ rates' = [rates EXCEPT ![ctl[p].sess.rate] = None]
  /\ CtlGoto(p, "unclient")
  /\ UNCHANGED <<now, clients, counters, mac_ip, ip_mac, bypass>>

DeleteClient(p) ==
  /\ ctl[p].pc = "unclient"
  /\ clients' = [clients EXCEPT ![ctl[p].mac] = None]
  /\ CtlGoto(p, "unbind")
  /\ UNCHANGED <<now, counters, rates, mac_ip, ip_mac, bypass>>

\* Mutant of CurrentIp: the counter is left behind.
MCurrentIp(p) ==
  /\ ctl[p].pc = "unbind"
  /\ Exit(p, "SUCCESS")
  /\ UNCHANGED <<now, maps>>

CurrentIp(p) ==
  /\ ctl[p].pc = "unbind"
  /\ LET i == mac_ip[ctl[p].mac] IN
       \/ i = None /\ Exit(p, "SUCCESS")
       \/ i # None /\ ctl' = [ctl EXCEPT ![p].ip = i, ![p].pc = "uncounter"]
  /\ UNCHANGED <<now, maps>>

DeleteCounter(p) ==
  /\ ctl[p].pc = "uncounter"
  /\ counters' = [counters EXCEPT ![ctl[p].ip] = None]
  /\ Exit(p, "SUCCESS")
  /\ UNCHANGED <<now, clients, rates, mac_ip, ip_mac, bypass>>

(***************************************************************************)
(* The commands of one map operation.                                      *)
(***************************************************************************)
MapDelStep(p) ==
  /\ ctl[p].pc = "single"
  /\ ctl[p].cmd = "map_del"
  /\ clients' = [clients EXCEPT ![ctl[p].mac] = None]
  /\ Exit(p, IF clients[ctl[p].mac] = None THEN "FAILED" ELSE "SUCCESS")
  /\ UNCHANGED <<now, counters, rates, mac_ip, ip_mac, bypass>>

BypassFits(i) == i \in bypass \/ Cardinality(bypass) < MaxBypass

BypassStep(p) ==
  /\ ctl[p].pc = "single"
  /\ \/ /\ ctl[p].cmd = "bypass_add"
        /\ BypassFits(ctl[p].ip)
        /\ bypass' = bypass \cup {ctl[p].ip}
        /\ Exit(p, "SUCCESS")
     \/ /\ ctl[p].cmd = "bypass_add"
        /\ ~BypassFits(ctl[p].ip)
        /\ Exit(p, "FAILED")
        /\ UNCHANGED bypass
     \/ /\ ctl[p].cmd = "bypass_del"
        /\ bypass' = bypass \ {ctl[p].ip}
        /\ Exit(p, IF ctl[p].ip \in bypass THEN "SUCCESS" ELSE "FAILED")
  /\ UNCHANGED <<now, clients, counters, rates, mac_ip, ip_mac>>

\* One step of a running command.
CtlStep(p) ==
  \/ ResolveMac(p) \/ ResolveIp(p) \/ ReadClock(p) \/ InsertClient(p)
  \/ InsertCounter(p) \/ Rollback(p) \/ InsertRate(p) \/ PeekClient(p)
  \/ DeleteRate(p) \/ DeleteClient(p) \/ CurrentIp(p) \/ DeleteCounter(p)
  \/ MapDelStep(p) \/ BypassStep(p)

\* The parent has waited for the process.
Reap(p) ==
  /\ ctl[p].pc = "exit"
  /\ ctl' = [ctl EXCEPT ![p] = NoCommand]
  /\ UNCHANGED <<now, maps>>

Quiescent == \A p \in Proc : ctl[p].pc \in {"idle", "exit"}
=============================================================================
