--------------------------- MODULE HgGatewayProofs --------------------------
(***************************************************************************)
(* Proofs about HgGateway, for any sets of devices, addresses, CPUs and    *)
(* hgctl processes, any leases and any map capacities.                     *)
(***************************************************************************)
EXTENDS HgGateway, TLAPS, FiniteSetTheorems

USE DEF maps

-----------------------------------------------------------------------------
(***************************************************************************)
(* Types.                                                                  *)
(***************************************************************************)
LEMMA ProgramPcs ==
  {"idle", "bypass", "bind", "fwd", "rev", "portal", "resolve", "auth", "expiry",
   "expire", "mark", "shape", "count", "preauth", "done"}
     \subseteq {"idle", "done"} \cup IngressPc \cup EgressPc
BY DEF IngressPc, EgressPc

LEMMA CtlPcs ==
  {"idle", "resolve", "clock", "client", "counter", "rollback", "rate", "peek", "unrate",
   "unclient", "unbind", "uncounter", "single", "exit"} \subseteq CtlPc
BY DEF CtlPc

LEMMA MapUpdate ==
  ASSUME NEW K, NEW V, NEW map \in [K -> V], NEW k \in K, NEW v \in V, NEW max
  PROVE  UpdateIfFits(map, k, v, max) \in [K -> V]
BY DEF UpdateIfFits

\* Giving one CPU another well-formed record keeps the type.
LEMMA CpuUpdate ==
  ASSUME DatapathTypeOK, NEW c \in CPU, NEW j \in Program, ProgramOK(j),
         cpu' = [cpu EXCEPT ![c] = j]
  PROVE  DatapathTypeOK'
BY DEF DatapathTypeOK

LEMMA GotoType ==
  ASSUME DatapathTypeOK, NEW c \in CPU,
         NEW l \in {"idle", "done"} \cup IngressPc \cup EgressPc,
         cpu[c].pc # "idle",
         l \in NeedsMac => cpu[c].mac \in MAC,
         l \in HoldsSession => cpu[c].sess \in Session,
         Goto(c, l)
  PROVE  DatapathTypeOK'
<1> DEFINE j == [cpu[c] EXCEPT !.pc = l]
<1>1. /\ cpu[c] \in Program /\ ProgramOK(cpu[c])
  BY DEF DatapathTypeOK
<1>2. /\ j \in Program
      /\ j.pc = l /\ j.mac = cpu[c].mac /\ j.ip = cpu[c].ip /\ j.sess = cpu[c].sess
      /\ j.dir = cpu[c].dir /\ j.ver = cpu[c].ver
  BY <1>1 DEF Program
<1>3. cpu' = [cpu EXCEPT ![c] = j]
  BY DEF Goto, DatapathTypeOK
<1> HIDE DEF j
<1>4. ProgramOK(j)
  BY <1>1, <1>2 DEF ProgramOK
<1> QED
  BY <1>2, <1>3, <1>4, CpuUpdate

LEMMA DecideType ==
  ASSUME DatapathTypeOK, NEW c \in CPU, NEW v \in Verdict,
         cpu[c].pc # "idle",
         v = "portal" => cpu[c].mac \in MAC,
         Decide(c, v)
  PROVE  DatapathTypeOK'
<1> DEFINE j == [cpu[c] EXCEPT !.pc = "done", !.ver = v]
<1>1. /\ cpu[c] \in Program /\ ProgramOK(cpu[c])
  BY DEF DatapathTypeOK
<1>2. /\ j \in Program
      /\ j.pc = "done" /\ j.mac = cpu[c].mac /\ j.ip = cpu[c].ip /\ j.sess = cpu[c].sess
      /\ j.dir = cpu[c].dir /\ j.ver = v
  BY <1>1, ProgramPcs DEF Program
<1>3. cpu' = [cpu EXCEPT ![c] = j]
  BY DEF Decide, DatapathTypeOK
<1> HIDE DEF j
<1>4. ProgramOK(j)
  BY <1>1, <1>2 DEF ProgramOK, NeedsMac, HoldsSession
<1> QED
  BY <1>2, <1>3, <1>4, CpuUpdate

LEMMA ArriveType ==
  ASSUME DatapathTypeOK, now \in Nat, NEW c \in CPU, NEW m \in MAC, NEW i \in IP,
         Ingress(c, m, i)
  PROVE  DatapathTypeOK'
<1> DEFINE j == [Idle EXCEPT !.dir = "in", !.pc = "bypass", !.mac = m, !.ip = i, !.arr = now]
<1>1. /\ j \in Program
      /\ j.pc = "bypass" /\ j.mac = m /\ j.ip = i /\ j.ver = "none"
  BY ProgramPcs DEF Program, Idle
<1> HIDE DEF j
<1>2. ProgramOK(j)
  BY <1>1 DEF ProgramOK, NeedsMac, HoldsSession
<1> QED
  BY <1>1, <1>2, CpuUpdate DEF Ingress, j

LEMMA IdleType ==
  ASSUME DatapathTypeOK, NEW c \in CPU, cpu' = [cpu EXCEPT ![c] = Idle]
  PROVE  DatapathTypeOK'
<1>1. Idle \in Program /\ ProgramOK(Idle)
  BY ProgramPcs DEF Program, Idle, ProgramOK, NeedsMac, HoldsSession
<1> QED
  BY <1>1, CpuUpdate

\* The programs keep the types of the maps and of the CPUs.
LEMMA ProgramType ==
  ASSUME MapsTypeOK, DatapathTypeOK, NEW c \in CPU, ProgramStep(c)
  PROVE  MapsTypeOK' /\ DatapathTypeOK'
<1> DEFINE j == cpu[c]
<1>1. j \in Program /\ ProgramOK(j)
  BY DEF DatapathTypeOK
<1>2. {"pass", "forward", "portal", "shot"} \subseteq Verdict
  BY DEF Verdict
<1>3. CASE StaticBypass(c)
  <2>1. MapsTypeOK'
    BY <1>3 DEF StaticBypass, MapsTypeOK
  <2>2. CASE Decide(c, "pass")
    BY <1>2, <1>3, <2>1, <2>2, DecideType DEF StaticBypass
  <2>3. CASE j.dir = "in" /\ Goto(c, "bind")
    BY <1>1, <1>3, <2>1, <2>3, GotoType, ProgramPcs DEF StaticBypass, ProgramOK, HoldsSession
  <2>4. CASE Goto(c, "resolve")
    BY <1>3, <2>1, <2>4, GotoType, ProgramPcs DEF StaticBypass, NeedsMac, HoldsSession
  <2> QED
    BY <1>3, <2>2, <2>3, <2>4 DEF StaticBypass
<1>4. CASE BindLookup(c)
  <2>1. MapsTypeOK' /\ j.mac \in MAC /\ j.pc # "idle"
    BY <1>1, <1>4 DEF BindLookup, MapsTypeOK, ProgramOK, NeedsMac
  <2>2. Goto(c, "fwd") \/ Goto(c, "portal")
    BY <1>4 DEF BindLookup
  <2> QED
    BY <2>1, <2>2, GotoType, ProgramPcs DEF HoldsSession
<1>5. CASE BindForward(c)
  <2>1. j.mac \in MAC /\ j.ip \in IP
    BY <1>1, <1>5 DEF BindForward, ProgramOK, NeedsMac
  <2>2. MapsTypeOK'
    BY <1>5, <2>1, MapUpdate DEF BindForward, MapsTypeOK
  <2> QED
    BY <1>5, <2>1, <2>2, GotoType, ProgramPcs DEF BindForward, HoldsSession
<1>6. CASE BindReverse(c)
  <2>1. j.mac \in MAC /\ j.ip \in IP
    BY <1>1, <1>6 DEF BindReverse, ProgramOK, NeedsMac
  <2>2. MapsTypeOK'
    BY <1>6, <2>1, MapUpdate DEF BindReverse, MapsTypeOK
  <2> QED
    BY <1>6, <2>1, <2>2, GotoType, ProgramPcs DEF BindReverse, HoldsSession
<1>7. CASE PortalTraffic(c)
  <2>1. MapsTypeOK' /\ j.mac \in MAC /\ j.pc # "idle"
    BY <1>1, <1>7 DEF PortalTraffic, MapsTypeOK, ProgramOK, NeedsMac
  <2>2. Decide(c, "portal") \/ Decide(c, "shot") \/ Goto(c, "auth")
    BY <1>7 DEF PortalTraffic
  <2> QED
    BY <1>2, <2>1, <2>2, GotoType, DecideType, ProgramPcs DEF HoldsSession
<1>8. CASE Resolve(c)
  <2>1. MapsTypeOK' /\ j.pc = "resolve" /\ j.ip \in IP
    BY <1>1, <1>8 DEF Resolve, MapsTypeOK, ProgramOK
  <2>2. CASE Goto(c, "preauth")
    BY <2>1, <2>2, GotoType, ProgramPcs DEF NeedsMac, HoldsSession
  <2>3. CASE /\ ip_mac[j.ip] # None
             /\ cpu' = [cpu EXCEPT ![c].pc = "auth", ![c].mac = ip_mac[j.ip]]
    <3>1. ip_mac[j.ip] \in MAC
      BY <2>1, <2>3 DEF MapsTypeOK
    <3> DEFINE k == [j EXCEPT !.pc = "auth", !.mac = ip_mac[j.ip]]
    <3>2. /\ k \in Program /\ k.pc = "auth" /\ k.mac \in MAC /\ k.ip = j.ip
      BY <1>1, <3>1, ProgramPcs DEF Program
    <3>3. cpu' = [cpu EXCEPT ![c] = k]
      BY <2>3 DEF DatapathTypeOK
    <3> HIDE DEF k
    <3>4. ProgramOK(k)
      BY <2>1, <3>2 DEF ProgramOK, HoldsSession
    <3> QED
      BY <2>1, <3>2, <3>3, <3>4, CpuUpdate
  <2> QED
    BY <1>8, <2>2, <2>3 DEF Resolve
<1>9. CASE AuthLookup(c)
  <2>1. MapsTypeOK' /\ j.pc = "auth" /\ j.mac \in MAC /\ j.ip \in IP
    BY <1>1, <1>9 DEF AuthLookup, MapsTypeOK, ProgramOK, NeedsMac
  <2>2. CASE Goto(c, "preauth")
    BY <2>1, <2>2, GotoType, ProgramPcs DEF NeedsMac, HoldsSession
  <2>3. ASSUME NEW l \in {"expiry", "shape"}, clients[j.mac] # None,
               cpu' = [cpu EXCEPT ![c].pc = l, ![c].sess = clients[j.mac]]
        PROVE  DatapathTypeOK'
    <3>1. clients[j.mac] \in Session
      BY <2>1, <2>3 DEF MapsTypeOK
    <3> DEFINE k == [j EXCEPT !.pc = l, !.sess = clients[j.mac]]
    <3>2. l \in {"idle", "done"} \cup IngressPc \cup EgressPc
      BY ProgramPcs
    <3>3. /\ k \in Program /\ k.pc = l /\ k.mac = j.mac /\ k.ip = j.ip /\ k.sess \in Session
      BY <1>1, <3>1, <3>2 DEF Program
    <3>4. cpu' = [cpu EXCEPT ![c] = k]
      BY <2>3 DEF DatapathTypeOK
    <3> HIDE DEF k
    <3>5. ProgramOK(k)
      BY <2>1, <3>3 DEF ProgramOK
    <3> QED
      BY <3>3, <3>4, <3>5, CpuUpdate
  <2> QED
    BY <1>9, <2>1, <2>2, <2>3 DEF AuthLookup
<1>10. CASE ExpiryCheck(c)
  <2>1. MapsTypeOK' /\ j.mac \in MAC /\ j.sess \in Session /\ j.pc # "idle"
    BY <1>1, <1>10 DEF ExpiryCheck, MapsTypeOK, ProgramOK, NeedsMac, HoldsSession
  <2>2. Goto(c, "expire") \/ Goto(c, "shape")
    BY <1>10 DEF ExpiryCheck
  <2> QED
    BY <2>1, <2>2, GotoType, ProgramPcs
<1>11. CASE ExpireDelete(c)
  <2>1. MapsTypeOK' /\ j.mac \in MAC /\ j.sess \in Session /\ j.pc # "idle"
    BY <1>1, <1>11 DEF ExpireDelete, MapsTypeOK, ProgramOK, NeedsMac, HoldsSession
  <2> QED
    BY <1>11, <2>1, GotoType, ProgramPcs DEF ExpireDelete
<1>12. CASE ExpireMark(c)
  <2>1. MapsTypeOK'
    BY <1>12 DEF ExpireMark, MapsTypeOK, CounterState
  <2> QED
    BY <1>2, <1>12, <2>1, DecideType DEF ExpireMark
<1>13. CASE Shape(c)
  <2>1. MapsTypeOK' /\ j.mac \in MAC /\ j.sess \in Session /\ j.pc # "idle"
    BY <1>1, <1>13 DEF Shape, MapsTypeOK, ProgramOK, NeedsMac, HoldsSession
  <2>2. Goto(c, "count") \/ Decide(c, "shot")
    BY <1>13 DEF Shape
  <2> QED
    BY <1>2, <2>1, <2>2, GotoType, DecideType, ProgramPcs
<1>14. CASE Account(c)
  <2>1. MapsTypeOK' /\ j.pc # "idle"
    BY <1>14 DEF Account, MapsTypeOK
  <2>2. Decide(c, "shot") \/ Decide(c, "forward")
    BY <1>14 DEF Account
  <2> QED
    BY <1>2, <2>1, <2>2, DecideType
<1>15. CASE PreAuth(c)
  <2>1. MapsTypeOK' /\ j.pc # "idle"
    BY <1>15 DEF PreAuth, MapsTypeOK
  <2>2. Decide(c, "pass") \/ Decide(c, "shot") \/ (j.mac \in MAC /\ Decide(c, "portal"))
    BY <1>1, <1>15 DEF PreAuth, ProgramOK
  <2> QED
    BY <1>2, <2>1, <2>2, DecideType
<1> QED
  BY <1>3, <1>4, <1>5, <1>6, <1>7, <1>8, <1>9, <1>10, <1>11, <1>12, <1>13, <1>14, <1>15
     DEF ProgramStep

\* The same for one hgctl process.
LEMMA CtlUpdate ==
  ASSUME CtlTypeOK, NEW p \in Proc, NEW j \in Invocation, InvocationOK(j),
         ctl' = [ctl EXCEPT ![p] = j]
  PROVE  CtlTypeOK'
BY DEF CtlTypeOK

LEMMA CtlGotoType ==
  ASSUME CtlTypeOK, NEW p \in Proc, NEW l \in CtlPc, CtlGoto(p, l),
         InvocationOK(ctl[p]) =>
           /\ l \in AddPc => ctl[p].mac \in MAC /\ ctl[p].ip \in IP /\ ctl[p].sess \in Session
           /\ l \in DelPc => ctl[p].mac \in MAC /\ l # "unrate" /\ l # "uncounter"
           /\ l # "resolve" /\ l # "single"
  PROVE  CtlTypeOK'
<1> DEFINE j == [ctl[p] EXCEPT !.pc = l]
<1>1. /\ ctl[p] \in Invocation /\ InvocationOK(ctl[p])
  BY DEF CtlTypeOK
<1>2. /\ j \in Invocation
      /\ j.pc = l /\ j.cmd = ctl[p].cmd /\ j.mac = ctl[p].mac /\ j.ip = ctl[p].ip
      /\ j.sess = ctl[p].sess
  BY <1>1 DEF Invocation
<1>3. ctl' = [ctl EXCEPT ![p] = j]
  BY DEF CtlGoto, CtlTypeOK
<1> HIDE DEF j
<1>4. InvocationOK(j)
  BY <1>1, <1>2 DEF InvocationOK, DelPc
<1> QED
  BY <1>2, <1>3, <1>4, CtlUpdate

LEMMA ExitType ==
  ASSUME CtlTypeOK, NEW p \in Proc, NEW rc \in {"SUCCESS", "FAILED"}, Exit(p, rc)
  PROVE  CtlTypeOK'
<1> DEFINE j == [ctl[p] EXCEPT !.pc = "exit", !.rc = rc]
<1>1. ctl[p] \in Invocation
  BY DEF CtlTypeOK
<1>2. j \in Invocation /\ j.pc = "exit"
  BY <1>1, CtlPcs DEF Invocation
<1>3. ctl' = [ctl EXCEPT ![p] = j]
  BY DEF Exit, CtlTypeOK
<1> HIDE DEF j
<1>4. InvocationOK(j)
  BY <1>2 DEF InvocationOK, AddPc, DelPc
<1> QED
  BY <1>2, <1>3, <1>4, CtlUpdate

\* A process that starts or has been reaped.
LEMMA AddType ==
  ASSUME CtlTypeOK, NEW p \in Proc, NEW cmd, NEW m \in MAC, NEW i \in IP,
         NEW exp \in Timeout, NEW lim \in Limit, Add(p, cmd, m, i, exp, lim)
  PROVE  CtlTypeOK'
<1> DEFINE r == RateIdFor(cmd, m, i, lim)
           s == [expiry |-> 0, rate |-> r, lim |-> lim]
           j == [NoCommand EXCEPT
                   !.pc = IF cmd = "add_both" THEN "clock" ELSE "resolve",
                   !.cmd = cmd,
                   !.mac = IF cmd = "add_ip" THEN None ELSE m,
                   !.ip = IF cmd = "add_mac" THEN None ELSE i,
                   !.exp = exp,
                   !.sess = s]
<1>1. r \in RateId
  BY RateAssumption, RateIdAssumption DEF RateIdFor
<1> HIDE DEF r
<1>2. s \in Session
  BY <1>1 DEF Session
<1> HIDE DEF s
<1>3. cmd \in AddCommand /\ cmd \in Command /\ exp \in Nat
  BY TimeoutAssumption DEF Add, Command
<1>4. /\ j \in Invocation
      /\ j.pc = IF cmd = "add_both" THEN "clock" ELSE "resolve"
      /\ j.cmd = cmd /\ j.sess = s
      /\ j.mac = IF cmd = "add_ip" THEN None ELSE m
      /\ j.ip = IF cmd = "add_mac" THEN None ELSE i
  BY <1>2, <1>3, CtlPcs DEF Invocation, NoCommand
<1>5. ctl' = [ctl EXCEPT ![p] = j]
  BY DEF Add, r, s
<1> HIDE DEF j
<1>6. InvocationOK(j)
  BY <1>2, <1>3, <1>4 DEF InvocationOK, AddPc, DelPc, AddCommand
<1> QED
  BY <1>4, <1>5, <1>6, CtlUpdate

LEMMA DelType ==
  ASSUME CtlTypeOK, NEW p \in Proc, NEW cmd, NEW m \in MAC, NEW i \in IP, Del(p, cmd, m, i)
  PROVE  CtlTypeOK'
<1> DEFINE j == [NoCommand EXCEPT
                   !.pc = IF cmd = "del_ip" THEN "resolve" ELSE "peek",
                   !.cmd = cmd,
                   !.mac = IF cmd = "del_ip" THEN None ELSE m,
                   !.ip = IF cmd = "del_ip" THEN i ELSE None]
<1>1. cmd \in DelCommand /\ cmd \in Command
  BY DEF Del, Command
<1>2. /\ j \in Invocation
      /\ j.pc = IF cmd = "del_ip" THEN "resolve" ELSE "peek"
      /\ j.cmd = cmd
      /\ j.mac = IF cmd = "del_ip" THEN None ELSE m
      /\ j.ip = IF cmd = "del_ip" THEN i ELSE None
  BY <1>1, CtlPcs DEF Invocation, NoCommand
<1>3. ctl' = [ctl EXCEPT ![p] = j]
  BY DEF Del
<1> HIDE DEF j
<1>4. InvocationOK(j)
  BY <1>1, <1>2 DEF InvocationOK, AddPc, DelPc, AddCommand, DelCommand
<1> QED
  BY <1>2, <1>3, <1>4, CtlUpdate

LEMMA SingleType ==
  ASSUME CtlTypeOK, NEW p \in Proc, NEW m, NEW i, NEW cmd,
         \/ m \in MAC /\ MapDel(p, m)
         \/ i \in IP /\ Bypass(p, cmd, i)
  PROVE  CtlTypeOK'
<1>1. CASE m \in MAC /\ MapDel(p, m)
  <2> DEFINE j == [NoCommand EXCEPT !.pc = "single", !.cmd = "map_del", !.mac = m]
  <2>1. j \in Invocation /\ j.pc = "single" /\ j.cmd = "map_del" /\ j.mac = m
    BY <1>1, CtlPcs DEF Invocation, NoCommand, Command
  <2> HIDE DEF j
  <2>2. InvocationOK(j)
    BY <1>1, <2>1 DEF InvocationOK, AddPc, DelPc
  <2> QED
    BY <1>1, <2>1, <2>2, CtlUpdate DEF MapDel, j
<1>2. CASE i \in IP /\ Bypass(p, cmd, i)
  <2> DEFINE j == [NoCommand EXCEPT !.pc = "single", !.cmd = cmd, !.ip = i]
  <2>1. cmd \in {"bypass_add", "bypass_del"}
    BY <1>2 DEF Bypass
  <2>2. j \in Invocation /\ j.pc = "single" /\ j.cmd = cmd /\ j.ip = i
    BY <1>2, <2>1, CtlPcs DEF Invocation, NoCommand, Command
  <2> HIDE DEF j
  <2>3. InvocationOK(j)
    BY <1>2, <2>1, <2>2 DEF InvocationOK, AddPc, DelPc
  <2> QED
    BY <1>2, <2>2, <2>3, CtlUpdate DEF Bypass, j
<1> QED
  BY <1>1, <1>2

LEMMA ReapType ==
  ASSUME CtlTypeOK, NEW p \in Proc, Reap(p)
  PROVE  CtlTypeOK'
<1>1. NoCommand \in Invocation /\ InvocationOK(NoCommand)
  BY CtlPcs DEF Invocation, NoCommand, InvocationOK, AddPc, DelPc
<1> QED
  BY <1>1, CtlUpdate DEF Reap

\* The commands keep the types of the maps and of the processes.
LEMMA CtlStepType ==
  ASSUME MapsTypeOK, CtlTypeOK, NEW p \in Proc, CtlStep(p)
  PROVE  MapsTypeOK' /\ CtlTypeOK'
<1> DEFINE j == ctl[p]
<1>1. j \in Invocation /\ InvocationOK(j)
  BY DEF CtlTypeOK
<1>2. CASE ResolveMac(p)
  <2>1. MapsTypeOK' /\ j.pc = "resolve" /\ j.cmd \in {"add_ip", "del_ip"} /\ j.ip \in IP
    BY <1>1, <1>2 DEF ResolveMac, MapsTypeOK, InvocationOK
  <2>2. CASE Exit(p, "FAILED")
    BY <2>1, <2>2, ExitType
  <2> DEFINE m == ip_mac[j.ip]
             k == [j EXCEPT !.mac = m,
                            !.pc = IF j.cmd = "add_ip" THEN "clock" ELSE "peek",
                            !.ip = IF j.cmd = "add_ip" THEN @ ELSE None]
  <2>3. CASE m # None /\ ctl' = [ctl EXCEPT ![p] = k]
    <3>1. m \in MAC
      BY <2>1, <2>3 DEF MapsTypeOK
    <3> HIDE DEF m
    <3>2. /\ k \in Invocation
          /\ k.pc = IF j.cmd = "add_ip" THEN "clock" ELSE "peek"
          /\ k.cmd = j.cmd /\ k.mac = m /\ k.sess = j.sess
          /\ j.cmd = "add_ip" => k.ip = j.ip
      BY <1>1, <2>1, <3>1, CtlPcs DEF Invocation
    <3>3. ctl' = [ctl EXCEPT ![p] = k]
      BY <2>3
    <3> HIDE DEF k
    <3>4. InvocationOK(k)
      BY <1>1, <2>1, <3>1, <3>2 DEF InvocationOK, AddPc, DelPc, AddCommand
    <3> QED
      BY <2>1, <3>2, <3>3, <3>4, CtlUpdate
  <2>4. ASSUME m # None,
               ctl' = [ctl EXCEPT ![p].mac = m,
                         ![p].pc = IF j.cmd = "add_ip" THEN "clock" ELSE "peek",
                         ![p].ip = IF j.cmd = "add_ip" THEN @ ELSE None]
        PROVE  ctl' = [ctl EXCEPT ![p] = k]
    BY <2>4 DEF CtlTypeOK
  <2> QED
    BY <1>2, <2>2, <2>3, <2>4 DEF ResolveMac
<1>3. CASE ResolveIp(p)
  <2>1. MapsTypeOK' /\ j.pc = "resolve" /\ j.cmd = "add_mac" /\ j.mac \in MAC
    BY <1>1, <1>3 DEF ResolveIp, MapsTypeOK, InvocationOK
  <2>2. CASE Exit(p, "FAILED")
    BY <2>1, <2>2, ExitType
  <2> DEFINE i == mac_ip[j.mac]
             k == [j EXCEPT !.ip = i, !.pc = "clock"]
  <2>3. CASE i # None /\ ctl' = [ctl EXCEPT ![p].ip = i, ![p].pc = "clock"]
    <3>1. i \in IP
      BY <2>1, <2>3 DEF MapsTypeOK
    <3>2. ctl' = [ctl EXCEPT ![p] = k]
      BY <2>3 DEF CtlTypeOK
    <3> HIDE DEF i
    <3>3. /\ k \in Invocation
          /\ k.pc = "clock" /\ k.cmd = j.cmd /\ k.mac = j.mac /\ k.ip = i /\ k.sess = j.sess
      BY <1>1, <3>1, CtlPcs DEF Invocation
    <3> HIDE DEF k
    <3>4. InvocationOK(k)
      BY <1>1, <2>1, <3>1, <3>3 DEF InvocationOK, AddPc, DelPc, AddCommand
    <3> QED
      BY <2>1, <3>2, <3>3, <3>4, CtlUpdate
  <2> QED
    BY <1>3, <2>2, <2>3 DEF ResolveIp
<1>4. CASE ReadClock(p)
  <2>1. MapsTypeOK' /\ j.pc = "clock" /\ j.mac \in MAC /\ j.ip \in IP /\ j.sess \in Session
    BY <1>1, <1>4 DEF ReadClock, MapsTypeOK, InvocationOK, AddPc
  <2> DEFINE e == ExpiryAt(j.exp)
             s == [j.sess EXCEPT !.expiry = e]
             k == [j EXCEPT !.pc = "client", !.sess = s]
  <2>2. e \in Nat
    BY <1>1 DEF ExpiryAt, MapsTypeOK, Invocation
  <2>3. ctl' = [ctl EXCEPT ![p] = k]
    BY <1>1, <1>4 DEF ReadClock, CtlTypeOK, Invocation
  <2> HIDE DEF e
  <2>4. s \in Session
    BY <2>1, <2>2 DEF Session
  <2> HIDE DEF s
  <2>5. /\ k \in Invocation
        /\ k.pc = "client" /\ k.cmd = j.cmd /\ k.mac = j.mac /\ k.ip = j.ip /\ k.sess = s
    BY <1>1, <2>4, CtlPcs DEF Invocation
  <2> HIDE DEF k
  <2>6. InvocationOK(k)
    BY <2>1, <2>4, <2>5 DEF InvocationOK, AddPc, DelPc
  <2> QED
    BY <2>1, <2>3, <2>5, <2>6, CtlUpdate
<1>5. CASE InsertClient(p)
  <2>1. j.pc = "client" /\ j.mac \in MAC /\ j.ip \in IP /\ j.sess \in Session
    BY <1>1, <1>5 DEF InsertClient, InvocationOK, AddPc
  <2>2. MapsTypeOK'
    BY <1>5, <2>1 DEF InsertClient, MapsTypeOK
  <2>3. CtlGoto(p, "counter") \/ Exit(p, "FAILED")
    BY <1>5 DEF InsertClient
  <2> QED
    BY <2>1, <2>2, <2>3, CtlGotoType, ExitType, CtlPcs DEF DelPc
<1>6. CASE InsertCounter(p)
  <2>1. j.pc = "counter" /\ j.mac \in MAC /\ j.ip \in IP /\ j.sess \in Session
    BY <1>1, <1>6 DEF InsertCounter, InvocationOK, AddPc
  <2>2. MapsTypeOK'
    BY <1>6, <2>1 DEF InsertCounter, MapsTypeOK, CounterState
  <2>3. CtlGoto(p, "rate") \/ CtlGoto(p, "rollback")
    BY <1>6 DEF InsertCounter
  <2> QED
    BY <2>1, <2>2, <2>3, CtlGotoType, CtlPcs DEF DelPc
<1>7. CASE Rollback(p)
  <2>1. MapsTypeOK' /\ Exit(p, "FAILED")
    BY <1>7 DEF Rollback, MapsTypeOK
  <2> QED
    BY <2>1, ExitType
<1>8. CASE InsertRate(p)
  <2>1. j.sess \in Session
    BY <1>1, <1>8 DEF InsertRate, InvocationOK, AddPc
  <2>2. j.sess.rate \in RateId /\ j.sess.lim \in Limit
    BY <2>1 DEF Session
  <2>3. MapsTypeOK'
    BY <1>8, <2>2, MapUpdate DEF InsertRate, MapsTypeOK
  <2> QED
    BY <1>8, <2>3, ExitType DEF InsertRate
<1>9. CASE PeekClient(p)
  <2>1. MapsTypeOK' /\ j.pc = "peek" /\ j.mac \in MAC
    BY <1>1, <1>9 DEF PeekClient, MapsTypeOK, InvocationOK, DelPc
  <2> DEFINE s == clients[j.mac]
             k == [j EXCEPT !.pc = IF s = None THEN "unclient" ELSE "unrate", !.sess = s]
  <2>2. s \in Session \cup {None}
    BY <2>1 DEF MapsTypeOK
  <2>3. ctl' = [ctl EXCEPT ![p] = k]
    BY <1>9 DEF PeekClient, CtlTypeOK
  <2> HIDE DEF s
  <2>4. /\ k \in Invocation
        /\ k.pc = IF s = None THEN "unclient" ELSE "unrate"
        /\ k.cmd = j.cmd /\ k.mac = j.mac /\ k.ip = j.ip /\ k.sess = s
    BY <1>1, <2>2, CtlPcs DEF Invocation
  <2> HIDE DEF k
  <2>5. InvocationOK(k)
    BY <2>1, <2>2, <2>4 DEF InvocationOK, AddPc, DelPc
  <2> QED
    BY <2>1, <2>3, <2>4, <2>5, CtlUpdate
<1>10. CASE DeleteRate(p)
  <2>1. j.pc = "unrate" /\ j.mac \in MAC
    BY <1>1, <1>10 DEF DeleteRate, InvocationOK, DelPc
  <2>2. MapsTypeOK'
    BY <1>10 DEF DeleteRate, MapsTypeOK
  <2> QED
    BY <1>10, <2>1, <2>2, CtlGotoType, CtlPcs DEF DeleteRate, AddPc
<1>11. CASE DeleteClient(p)
  <2>1. j.pc = "unclient" /\ j.mac \in MAC
    BY <1>1, <1>11 DEF DeleteClient, InvocationOK, DelPc
  <2>2. MapsTypeOK'
    BY <1>11 DEF DeleteClient, MapsTypeOK
  <2> QED
    BY <1>11, <2>1, <2>2, CtlGotoType, CtlPcs DEF DeleteClient, AddPc
<1>12. CASE CurrentIp(p)
  <2>1. MapsTypeOK' /\ j.pc = "unbind" /\ j.mac \in MAC
    BY <1>1, <1>12 DEF CurrentIp, MapsTypeOK, InvocationOK, DelPc
  <2>2. CASE Exit(p, "SUCCESS")
    BY <2>1, <2>2, ExitType
  <2> DEFINE i == mac_ip[j.mac]
             k == [j EXCEPT !.ip = i, !.pc = "uncounter"]
  <2>3. CASE i # None /\ ctl' = [ctl EXCEPT ![p].ip = i, ![p].pc = "uncounter"]
    <3>1. i \in IP
      BY <2>1, <2>3 DEF MapsTypeOK
    <3>2. ctl' = [ctl EXCEPT ![p] = k]
      BY <2>3 DEF CtlTypeOK
    <3> HIDE DEF i
    <3>3. k \in Invocation /\ k.pc = "uncounter" /\ k.mac = j.mac /\ k.ip = i
      BY <1>1, <3>1, CtlPcs DEF Invocation
    <3> HIDE DEF k
    <3>4. InvocationOK(k)
      BY <2>1, <3>1, <3>3 DEF InvocationOK, AddPc, DelPc
    <3> QED
      BY <2>1, <3>2, <3>3, <3>4, CtlUpdate
  <2> QED
    BY <1>12, <2>2, <2>3 DEF CurrentIp
<1>13. CASE DeleteCounter(p)
  <2>1. MapsTypeOK' /\ Exit(p, "SUCCESS")
    BY <1>13 DEF DeleteCounter, MapsTypeOK
  <2> QED
    BY <2>1, ExitType
<1>14. CASE MapDelStep(p)
  <2>1. MapsTypeOK' /\ (Exit(p, "FAILED") \/ Exit(p, "SUCCESS"))
    BY <1>14 DEF MapDelStep, MapsTypeOK
  <2> QED
    BY <2>1, ExitType
<1>15. CASE BypassStep(p)
  <2>1. j.pc = "single" /\ j.cmd \in {"bypass_add", "bypass_del"} /\ j.ip \in IP
    BY <1>1, <1>15 DEF BypassStep, InvocationOK
  <2>2. MapsTypeOK' /\ (Exit(p, "FAILED") \/ Exit(p, "SUCCESS"))
    BY <1>15, <2>1 DEF BypassStep, MapsTypeOK
  <2> QED
    BY <2>2, ExitType
<1> QED
  BY <1>2, <1>3, <1>4, <1>5, <1>6, <1>7, <1>8, <1>9, <1>10, <1>11, <1>12, <1>13, <1>14,
     <1>15 DEF CtlStep

\* The commands an operator may run for a lease.
OperatorFor(p, cmd, m, i) ==
  /\ <<m, i>> \in Leases
  /\ \/ \E exp \in Timeout, lim \in Limit : Add(p, cmd, m, i, exp, lim)
     \/ Del(p, cmd, m, i)
     \/ cmd = "map_del" /\ MapDel(p, m)

LEMMA OperatorCases ==
  ASSUME NEW p \in Proc, Operator(p)
  PROVE  \E cmd \in Commands :
           \/ \E m \in MAC, i \in IP \ {Unspecified} : OperatorFor(p, cmd, m, i)
           \/ \E i \in IP \ {Unspecified} : Bypass(p, cmd, i)
<1>1. PICK cmd \in Commands :
        \/ \E l \in Leases :
             \/ \E exp \in Timeout, lim \in Limit : Add(p, cmd, l[1], l[2], exp, lim)
             \/ Del(p, cmd, l[1], l[2])
             \/ cmd = "map_del" /\ MapDel(p, l[1])
        \/ \E i \in IP \ {Unspecified} : Bypass(p, cmd, i)
  BY DEF Operator
<1>2. ASSUME NEW l \in Leases,
             \/ \E exp \in Timeout, lim \in Limit : Add(p, cmd, l[1], l[2], exp, lim)
             \/ Del(p, cmd, l[1], l[2])
             \/ cmd = "map_del" /\ MapDel(p, l[1])
      PROVE  \E m \in MAC, i \in IP \ {Unspecified} : OperatorFor(p, cmd, m, i)
  <2>1. PICK m \in MAC, i \in IP \ {Unspecified} : l = <<m, i>>
    BY LeasesAssumption
  <2>2. l[1] = m /\ l[2] = i
    BY <2>1
  <2> QED
    BY <1>2, <2>1, <2>2 DEF OperatorFor
<1> QED
  BY <1>1, <1>2

LEMMA TypeStep ==
  ASSUME TypeOK, [Next]_vars
  PROVE  TypeOK'
<1>1. MapsTypeOK /\ DatapathTypeOK /\ CtlTypeOK /\ EnvTypeOK /\ now \in Nat
  BY DEF TypeOK, MapsTypeOK
<1>2. ASSUME UNCHANGED <<now, maps>> PROVE MapsTypeOK'
  BY <1>1, <1>2 DEF MapsTypeOK
<1>3. ASSUME UNCHANGED cpu PROVE DatapathTypeOK'
  BY <1>1, <1>3 DEF DatapathTypeOK
<1>4. ASSUME UNCHANGED ctl PROVE CtlTypeOK'
  BY <1>1, <1>4 DEF CtlTypeOK
<1>5. ASSUME UNCHANGED env PROVE EnvTypeOK'
  BY <1>1, <1>5 DEF EnvTypeOK, env
<1>6. CASE Tick
  <2>1. MapsTypeOK'
    BY <1>1, <1>6 DEF Tick, MapsTypeOK
  <2> QED
    BY <1>3, <1>4, <1>5, <1>6, <2>1 DEF Tick, TypeOK
<1>7. ASSUME NEW m \in MAC, Release(m) PROVE TypeOK'
  <2>1. EnvTypeOK'
    BY <1>1, <1>7 DEF Release, EnvTypeOK
  <2> QED
    BY <1>2, <1>3, <1>4, <1>7, <2>1 DEF Release, TypeOK
<1>8. ASSUME NEW m \in MAC, NEW i \in IP, Lease(m, i) PROVE TypeOK'
  <2>1. EnvTypeOK'
    BY <1>1, <1>8 DEF Lease, EnvTypeOK
  <2> QED
    BY <1>2, <1>3, <1>4, <1>8, <2>1 DEF Lease, TypeOK
<1>9. ASSUME NEW m \in MAC, Login(m) PROVE TypeOK'
  <2>1. Daemon \in Proc /\ m \in heard /\ addr[m] \in IP
    BY <1>1, <1>9 DEF Login, EnvTypeOK
  <2>2. PICK exp \in Timeout, lim \in Limit : Add(Daemon, "add_ip", m, addr[m], exp, lim)
    BY <1>9 DEF Login
  <2>3. CtlTypeOK'
    BY <1>1, <2>1, <2>2, AddType
  <2>4. EnvTypeOK'
    BY <1>1, <1>9 DEF Login, EnvTypeOK
  <2> QED
    BY <1>2, <1>3, <1>9, <2>2, <2>3, <2>4 DEF Login, Add, TypeOK
<1>10. ASSUME NEW c \in CPU, Run(c) PROVE TypeOK'
  BY <1>1, <1>4, <1>5, <1>10, ProgramType DEF Run, TypeOK
<1>11. ASSUME NEW c \in CPU, Deliver(c) PROVE TypeOK'
  <2>1. cpu[c].pc # "idle" /\ ProgramOK(cpu[c])
    BY <1>1, <1>11 DEF Deliver, Return, DatapathTypeOK
  <2>2. cpu[c].ip # None /\ (cpu[c].ver = "portal" => cpu[c].mac \in MAC)
    BY <2>1, NoneAssumption DEF ProgramOK
  <2>3. EnvTypeOK'
    BY <1>1, <1>11, <2>2 DEF Deliver, EnvTypeOK
  <2>4. DatapathTypeOK'
    BY <1>1, <1>11, IdleType DEF Deliver, Return
  <2> QED
    BY <1>2, <1>4, <1>11, <2>3, <2>4 DEF Deliver, Return, TypeOK
<1>12. ASSUME NEW c \in CPU, Download(c) PROVE TypeOK'
  <2>1. PICK i \in IP : Egress(c, i)
    BY <1>12 DEF Download
  <2> DEFINE j == [Idle EXCEPT !.dir = "out", !.pc = "bypass", !.ip = i, !.arr = now]
  <2>2. j \in Program /\ ProgramOK(j)
    <3>1. /\ j \in Program
          /\ j.pc = "bypass" /\ j.ip = i /\ j.dir = "out" /\ j.ver = "none"
      BY <1>1, ProgramPcs DEF Program, Idle
    <3> HIDE DEF j
    <3> QED
      BY <3>1 DEF ProgramOK, NeedsMac, HoldsSession
  <2>3. DatapathTypeOK'
    BY <1>1, <2>1, <2>2, CpuUpdate DEF Egress
  <2> QED
    BY <1>2, <1>4, <1>5, <1>12, <2>1, <2>3 DEF Download, Egress, TypeOK
<1>13. ASSUME NEW c \in CPU, NEW m \in MAC, Upload(c, m) PROVE TypeOK'
  <2>1. PICK i \in IP : Ingress(c, m, i)
    BY <1>1, <1>13 DEF Upload, EnvTypeOK
  <2>2. DatapathTypeOK'
    BY <1>1, <2>1, ArriveType
  <2> QED
    BY <1>2, <1>4, <1>5, <1>13, <2>1, <2>2 DEF Upload, Ingress, TypeOK
<1>14. ASSUME NEW p \in Proc, Operator(p) PROVE TypeOK'
  <2>1. PICK cmd \in Commands :
          \/ \E m \in MAC, i \in IP \ {Unspecified} : OperatorFor(p, cmd, m, i)
          \/ \E i \in IP \ {Unspecified} : Bypass(p, cmd, i)
    BY <1>14, OperatorCases
  <2>2. ASSUME NEW m \in MAC, NEW i \in IP, OperatorFor(p, cmd, m, i)
        PROVE  CtlTypeOK' /\ UNCHANGED <<now, maps>>
    <3>1. CASE \E exp \in Timeout, lim \in Limit : Add(p, cmd, m, i, exp, lim)
      <4>1. PICK exp \in Timeout, lim \in Limit : Add(p, cmd, m, i, exp, lim)
        BY <3>1
      <4> QED
        BY <1>1, <4>1, AddType DEF Add
    <3>2. CASE Del(p, cmd, m, i)
      BY <1>1, <3>2, DelType DEF Del
    <3>3. CASE MapDel(p, m)
      BY <1>1, <3>3, SingleType DEF MapDel
    <3> QED
      BY <2>2, <3>1, <3>2, <3>3 DEF OperatorFor
  <2>3. ASSUME NEW i \in IP, Bypass(p, cmd, i) PROVE CtlTypeOK' /\ UNCHANGED <<now, maps>>
    BY <1>1, <2>3, SingleType DEF Bypass
  <2> QED
    BY <1>2, <1>3, <1>5, <1>14, <2>1, <2>2, <2>3 DEF Operator, TypeOK
<1>15. ASSUME NEW p \in Proc, Ctl(p) PROVE TypeOK'
  BY <1>1, <1>3, <1>5, <1>15, CtlStepType DEF Ctl, TypeOK
<1>16. ASSUME NEW p \in Proc, Wait(p) PROVE TypeOK'
  <2>1. CtlTypeOK'
    BY <1>1, <1>16, ReapType DEF Wait
  <2>2. EnvTypeOK'
    BY <1>1, <1>16 DEF Wait, EnvTypeOK
  <2> QED
    BY <1>2, <1>3, <1>16, <2>1, <2>2 DEF Wait, Reap, TypeOK
<1>17. CASE UNCHANGED vars
  BY <1>2, <1>3, <1>4, <1>5, <1>17 DEF vars, TypeOK
<1> QED
  BY <1>6, <1>7, <1>8, <1>9, <1>10, <1>11, <1>12, <1>13, <1>14, <1>15, <1>16, <1>17
     DEF Next

LEMMA InitType == Init => TypeOK
<1> SUFFICES ASSUME Init PROVE TypeOK
  OBVIOUS
<1>1. MapsTypeOK
  BY DEF Init, MapsInit, MapsTypeOK
<1>2. Idle \in Program /\ ProgramOK(Idle)
  BY ProgramPcs DEF Program, Idle, ProgramOK, NeedsMac, HoldsSession
<1>3. DatapathTypeOK
  BY <1>2 DEF Init, DatapathInit, DatapathTypeOK
<1>4. NoCommand \in Invocation /\ InvocationOK(NoCommand)
  BY CtlPcs DEF Invocation, NoCommand, InvocationOK, AddPc, DelPc
<1>5. CtlTypeOK
  BY <1>4 DEF Init, CtlInit, CtlTypeOK
<1> QED
  BY <1>1, <1>3, <1>5 DEF Init, EnvTypeOK, TypeOK

\* Every map keeps its element type, and every program and command has at each
\* step the addresses and the session that the step reads.
THEOREM TypeCorrect == Spec => []TypeOK
BY InitType, TypeStep, PTL DEF Spec

-----------------------------------------------------------------------------
(***************************************************************************)
(* NoExpiredUpload.  The test of step 5 reads the clock after the packet   *)
(* has arrived, and works on the CPU's own copy of the session: what the   *)
(* other CPUs and hgctl do to the map in between cannot matter.            *)
(***************************************************************************)
UploadOK(j, t) ==
  /\ j.arr <= t
  /\ j.dir = "in" /\ j.pc \in {"shape", "count"} => ValidAt(j.sess, j.arr)
  /\ j.dir = "in" /\ j.pc = "done" /\ j.ver = "forward" => ValidAt(j.sess, j.arr)

UploadInv == TypeOK /\ \A c \in CPU : UploadOK(cpu[c], now)

\* What one step of a program does to the record of its CPU.
LEMMA UploadProgram ==
  ASSUME TypeOK, NEW c \in CPU, UploadOK(cpu[c], now), ProgramStep(c)
  PROVE  UploadOK(cpu'[c], now)
<1> DEFINE j == cpu[c]
<1>1. j \in Program /\ ProgramOK(j) /\ cpu \in [CPU -> Program] /\ now \in Nat
  BY DEF TypeOK, DatapathTypeOK, MapsTypeOK
<1>2. ASSUME NEW l, Goto(c, l), l \notin {"shape", "count", "done"}
      PROVE  UploadOK(cpu'[c], now)
  <2>1. /\ cpu'[c].pc = l /\ cpu'[c].arr = j.arr
    BY <1>1, <1>2 DEF Goto, Program
  <2> QED
    BY <1>2, <2>1 DEF UploadOK
<1>3. ASSUME NEW v, Decide(c, v), v # "forward"
      PROVE  UploadOK(cpu'[c], now)
  <2>1. /\ cpu'[c].pc = "done" /\ cpu'[c].arr = j.arr /\ cpu'[c].ver = v
    BY <1>1, <1>3 DEF Decide, Program
  <2> QED
    BY <1>3, <2>1 DEF UploadOK
<1>4. CASE StaticBypass(c)
  BY <1>2, <1>3, <1>4 DEF StaticBypass
<1>5. CASE BindLookup(c)
  BY <1>2, <1>5 DEF BindLookup
<1>6. CASE BindForward(c)
  BY <1>2, <1>6 DEF BindForward
<1>7. CASE BindReverse(c)
  BY <1>2, <1>7 DEF BindReverse
<1>8. CASE PortalTraffic(c)
  BY <1>2, <1>3, <1>8 DEF PortalTraffic
<1>9. CASE Resolve(c)
  <2>1. CASE Goto(c, "preauth")
    BY <1>2, <2>1
  <2>2. CASE cpu' = [cpu EXCEPT ![c].pc = "auth", ![c].mac = ip_mac[cpu[c].ip]]
    <3>1. cpu'[c].pc = "auth" /\ cpu'[c].arr = j.arr
      BY <1>1, <2>2 DEF Program
    <3> QED
      BY <3>1 DEF UploadOK
  <2> QED
    BY <1>9, <2>1, <2>2 DEF Resolve
<1>10. CASE AuthLookup(c)
  <2>1. CASE Goto(c, "preauth")
    BY <1>2, <2>1
  <2>2. ASSUME NEW l, l = IF j.dir = "in" THEN "expiry" ELSE "shape",
               cpu' = [cpu EXCEPT ![c].pc = l, ![c].sess = clients[j.mac]]
        PROVE  UploadOK(cpu'[c], now)
    <3>1. cpu'[c].pc = l /\ cpu'[c].arr = j.arr /\ cpu'[c].dir = j.dir
      BY <1>1, <2>2 DEF Program
    <3> QED
      BY <2>2, <3>1 DEF UploadOK
  <2> QED
    BY <1>10, <2>1, <2>2 DEF AuthLookup
<1>11. CASE ExpiryCheck(c)
  <2>1. CASE Goto(c, "expire")
    BY <1>2, <2>1
  <2>2. CASE ~Expired(j.sess) /\ Goto(c, "shape")
    <3>1. /\ cpu'[c].pc = "shape" /\ cpu'[c].arr = j.arr /\ cpu'[c].dir = j.dir
          /\ cpu'[c].sess = j.sess
      BY <1>1, <2>2 DEF Goto, Program
    <3>2. j.sess \in Session
      BY <1>1, <1>11 DEF ExpiryCheck, ProgramOK, HoldsSession
    <3>3. j.sess.expiry \in Nat /\ j.arr \in Nat
      BY <1>1, <3>2 DEF Session, Program
    <3>4. ValidAt(j.sess, j.arr)
      BY <1>1, <2>2, <3>3 DEF Expired, ValidAt, UploadOK
    <3> QED
      BY <3>1, <3>4 DEF UploadOK
  <2> QED
    BY <1>11, <2>1, <2>2 DEF ExpiryCheck
<1>12. CASE ExpireDelete(c)
  BY <1>2, <1>12 DEF ExpireDelete
<1>13. CASE ExpireMark(c)
  BY <1>3, <1>13 DEF ExpireMark
<1>14. CASE Shape(c)
  <2>1. CASE Decide(c, "shot")
    BY <1>3, <2>1
  <2>2. CASE Goto(c, "count")
    <3>1. /\ cpu'[c].pc = "count" /\ cpu'[c].arr = j.arr /\ cpu'[c].dir = j.dir
          /\ cpu'[c].sess = j.sess
      BY <1>1, <2>2 DEF Goto, Program
    <3> QED
      BY <1>14, <3>1 DEF Shape, UploadOK
  <2> QED
    BY <1>14, <2>1, <2>2 DEF Shape
<1>15. CASE Account(c)
  <2>1. CASE Decide(c, "shot")
    BY <1>3, <2>1
  <2>2. CASE Decide(c, "forward")
    <3>1. /\ cpu'[c].pc = "done" /\ cpu'[c].arr = j.arr /\ cpu'[c].dir = j.dir
          /\ cpu'[c].sess = j.sess
      BY <1>1, <2>2 DEF Decide, Program
    <3> QED
      BY <1>15, <3>1 DEF Account, UploadOK
  <2> QED
    BY <1>15, <2>1, <2>2 DEF Account
<1>16. CASE PreAuth(c)
  BY <1>3, <1>16 DEF PreAuth
<1> QED
  BY <1>4, <1>5, <1>6, <1>7, <1>8, <1>9, <1>10, <1>11, <1>12, <1>13, <1>14, <1>15, <1>16
     DEF ProgramStep

\* The other CPUs' records are untouched.
LEMMA ProgramFrame ==
  ASSUME DatapathTypeOK, NEW c \in CPU, NEW d \in CPU, d # c, ProgramStep(c)
  PROVE  cpu'[d] = cpu[d] /\ UNCHANGED now
<1>1. cpu \in [CPU -> Program]
  BY DEF DatapathTypeOK
<1>2. ASSUME NEW l, Goto(c, l) PROVE cpu'[d] = cpu[d]
  BY <1>1, <1>2 DEF Goto
<1>3. ASSUME NEW v, Decide(c, v) PROVE cpu'[d] = cpu[d]
  BY <1>1, <1>3 DEF Decide
<1>4. StaticBypass(c) \/ BindLookup(c) \/ PortalTraffic(c) \/ ExpiryCheck(c)
        \/ Shape(c) \/ Account(c) \/ PreAuth(c) => cpu'[d] = cpu[d] /\ UNCHANGED now
  BY <1>2, <1>3 DEF StaticBypass, BindLookup, PortalTraffic, ExpiryCheck, Shape, Account, PreAuth
<1>5. BindForward(c) \/ BindReverse(c) \/ ExpireDelete(c) \/ ExpireMark(c)
        => cpu'[d] = cpu[d] /\ UNCHANGED now
  BY <1>2, <1>3 DEF BindForward, BindReverse, ExpireDelete, ExpireMark
<1>6. Resolve(c) \/ AuthLookup(c) => cpu'[d] = cpu[d] /\ UNCHANGED now
  BY <1>1, <1>2 DEF Resolve, AuthLookup
<1> QED
  BY <1>4, <1>5, <1>6 DEF ProgramStep

LEMMA UploadStep ==
  ASSUME UploadInv, [Next]_vars
  PROVE  UploadInv'
<1>1. TypeOK /\ TypeOK'
  BY TypeStep DEF UploadInv
<1>2. /\ cpu \in [CPU -> Program] /\ now \in Nat /\ DatapathTypeOK
      /\ \A c \in CPU : cpu[c].arr \in Nat /\ UploadOK(cpu[c], now)
  BY <1>1 DEF TypeOK, MapsTypeOK, DatapathTypeOK, UploadInv, Program
<1>3. ASSUME UNCHANGED cpu, now' \in Nat, now <= now' PROVE UploadInv'
  BY <1>1, <1>2, <1>3 DEF UploadInv, UploadOK
<1>4. ASSUME NEW c \in CPU, NEW j, cpu' = [cpu EXCEPT ![c] = j], UploadOK(j, now),
             UNCHANGED now
      PROVE  UploadInv'
  <2>1. \A d \in CPU : cpu'[d] = IF d = c THEN j ELSE cpu[d]
    BY <1>2, <1>4
  <2> QED
    BY <1>1, <1>2, <1>4, <2>1 DEF UploadInv
<1>5. CASE Tick
  BY <1>2, <1>3, <1>5 DEF Tick
<1>6. CASE \E m \in MAC : Release(m) \/ Login(m) \/ \E i \in IP : Lease(m, i)
  <2>1. UNCHANGED <<now, cpu>>
    BY <1>6 DEF Release, Login, Lease, Add
  <2> QED
    BY <1>2, <1>3, <2>1
<1>7. ASSUME NEW c \in CPU, Run(c) PROVE UploadInv'
  <2>1. ProgramStep(c) /\ UNCHANGED now
    BY <1>7 DEF Run, ProgramStep, StaticBypass, BindLookup, BindForward, BindReverse,
       PortalTraffic, Resolve, AuthLookup, ExpiryCheck, ExpireDelete, ExpireMark, Shape,
       Account, PreAuth
  <2>2. UploadOK(cpu'[c], now)
    BY <1>1, <1>2, <2>1, UploadProgram
  <2>3. \A d \in CPU : d # c => cpu'[d] = cpu[d]
    BY <1>2, <2>1, ProgramFrame
  <2> QED
    BY <1>1, <1>2, <2>1, <2>2, <2>3 DEF UploadInv
<1>8. ASSUME NEW c \in CPU, Deliver(c) PROVE UploadInv'
  <2>1. UploadOK(Idle, now)
    BY <1>2 DEF UploadOK, Idle
  <2> QED
    BY <1>4, <1>8, <2>1 DEF Deliver, Return
<1>9. ASSUME NEW c \in CPU, NEW i \in IP, Egress(c, i) PROVE UploadInv'
  <2> DEFINE j == [Idle EXCEPT !.dir = "out", !.pc = "bypass", !.ip = i, !.arr = now]
  <2>1. UploadOK(j, now)
    BY <1>2 DEF UploadOK, Idle
  <2> QED
    BY <1>4, <1>9, <2>1 DEF Egress
<1>10. ASSUME NEW c \in CPU, NEW m, NEW i, Ingress(c, m, i) PROVE UploadInv'
  <2> DEFINE j == [Idle EXCEPT !.dir = "in", !.pc = "bypass", !.mac = m, !.ip = i,
                               !.arr = now]
  <2>1. UploadOK(j, now)
    BY <1>2 DEF UploadOK, Idle
  <2> QED
    BY <1>4, <1>10, <2>1 DEF Ingress
<1>11. ASSUME NEW p \in Proc, Operator(p) \/ Ctl(p) \/ Wait(p) PROVE UploadInv'
  <2>1. UNCHANGED <<now, cpu>>
    BY <1>11 DEF Operator, Add, Del, MapDel, Bypass, Ctl, CtlStep, ResolveMac, ResolveIp,
       ReadClock, InsertClient, InsertCounter, Rollback, InsertRate, PeekClient, DeleteRate,
       DeleteClient, CurrentIp, DeleteCounter, MapDelStep, BypassStep, Wait, Reap
  <2> QED
    BY <1>2, <1>3, <2>1
<1>12. CASE UNCHANGED vars
  BY <1>2, <1>3, <1>12 DEF vars
<1> QED
  BY <1>5, <1>6, <1>7, <1>8, <1>9, <1>10, <1>11, <1>12 DEF Next, Download, Upload

\* However packets, commands and the clock interleave, no upload is forwarded
\* under a session that had expired when it arrived.
THEOREM UploadCorrect == Spec => []NoExpiredUpload
<1>1. Init => UploadInv
  <2> SUFFICES ASSUME Init PROVE UploadInv
    OBVIOUS
  <2>1. TypeOK /\ now = 0
    BY InitType DEF Init, MapsInit
  <2>2. UploadOK(Idle, now)
    BY <2>1 DEF UploadOK, Idle
  <2> QED
    BY <2>1, <2>2 DEF UploadInv, Init, DatapathInit
<1>2. UploadInv => NoExpiredUpload
  BY DEF UploadInv, UploadOK, NoExpiredUpload
<1> QED
  BY <1>1, <1>2, UploadStep, PTL DEF Spec

-----------------------------------------------------------------------------
(***************************************************************************)
(* Bindings and logins, if no address is ever given to two devices: whom a *)
(* login authenticates, for any number of CPUs, devices and operators; and *)
(* for one CPU, that the portal's devices are bound and their logins find  *)
(* the binding.                                                            *)
(***************************************************************************)
\* No address changes hands; a device may still roam between addresses.
OwnAddresses == \A l, k \in Leases : l[2] = k[2] => l[1] = k[1]

Owns(m, i) == <<m, i>> \in Leases

LEMMA OneOwner ==
  ASSUME OwnAddresses, NEW m, NEW n, NEW i, Owns(m, i), Owns(n, i)
  PROVE  m = n
<1>1. <<m, i>>[1] = m /\ <<m, i>>[2] = i /\ <<n, i>>[1] = n /\ <<n, i>>[2] = i
  OBVIOUS
<1> QED
  BY <1>1 DEF OwnAddresses, Owns

-----------------------------------------------------------------------------
(***************************************************************************)
(* The invariant.                                                          *)
(***************************************************************************)
AddrLeased == \A m \in MAC : addr[m] # None => Owns(m, addr[m])

\* A packet from a device carries an address of its own, or is a DHCP request.
SourceOK(j) ==
  /\ j.pc \in {"bind", "fwd", "rev", "expiry", "expire", "mark"} => j.dir = "in"
  /\ j.pc = "resolve" => j.dir # "in"
  /\ j.dir = "in" /\ j.ip # Unspecified => Owns(j.mac, j.ip)
SourcesOwn == \A c \in CPU : SourceOK(cpu[c])

BindingsOwn ==
  /\ \A i \in IP \ {Unspecified} : ip_mac[i] # None => Owns(ip_mac[i], i)
  /\ \A m \in MAC : mac_ip[m] \in {None, Unspecified} \/ Owns(m, mac_ip[m])

\* The hgctl of a login works for an address of the device that logged in.
LoginOK(j, m) ==
  j.pc # "idle" =>
    /\ j.cmd = "add_ip" /\ j.pc \in AddPc \cup {"resolve", "exit"}
    /\ Owns(m, j.ip) /\ j.mac \in {None, m}
LoginOwn == Daemon \in Proc => LoginOK(ctl[Daemon], who)

\* This much needs no condition on the leases.
SourceInv == TypeOK /\ AddrLeased /\ SourcesOwn /\ BindingsOwn

LoginInv == TypeOK /\ AddrLeased /\ SourcesOwn /\ BindingsOwn /\ LoginOwn

-----------------------------------------------------------------------------
(***************************************************************************)
(* The programs.                                                           *)
(***************************************************************************)
LEMMA SourceProgram ==
  ASSUME TypeOK, NEW c \in CPU, SourceOK(cpu[c]), ProgramStep(c)
  PROVE  SourceOK(cpu'[c])
<1> DEFINE j == cpu[c]
<1>1. j \in Program /\ cpu \in [CPU -> Program]
  BY DEF TypeOK, DatapathTypeOK
<1>2. ASSUME NEW l, Goto(c, l),
             l \in {"bind", "fwd", "rev", "expiry", "expire", "mark"} => j.dir = "in",
             l = "resolve" => j.dir # "in"
      PROVE  SourceOK(cpu'[c])
  <2>1. /\ cpu'[c].pc = l /\ cpu'[c].dir = j.dir /\ cpu'[c].mac = j.mac /\ cpu'[c].ip = j.ip
    BY <1>1, <1>2 DEF Goto, Program
  <2> QED
    BY <1>2, <2>1 DEF SourceOK
<1>3. ASSUME NEW v, Decide(c, v) PROVE SourceOK(cpu'[c])
  <2>1. /\ cpu'[c].pc = "done" /\ cpu'[c].dir = j.dir /\ cpu'[c].mac = j.mac
        /\ cpu'[c].ip = j.ip
    BY <1>1, <1>3 DEF Decide, Program
  <2> QED
    BY <2>1 DEF SourceOK
<1>4. CASE StaticBypass(c)
  BY <1>2, <1>3, <1>4 DEF StaticBypass
<1>5. CASE BindLookup(c) \/ BindForward(c) \/ BindReverse(c)
  BY <1>2, <1>5 DEF BindLookup, BindForward, BindReverse, SourceOK
<1>6. CASE PortalTraffic(c) \/ PreAuth(c) \/ Shape(c) \/ Account(c)
  BY <1>2, <1>3, <1>6 DEF PortalTraffic, PreAuth, Shape, Account
<1>7. CASE ExpiryCheck(c) \/ ExpireDelete(c) \/ ExpireMark(c)
  BY <1>2, <1>3, <1>7 DEF ExpiryCheck, ExpireDelete, ExpireMark, SourceOK
<1>8. CASE Resolve(c)
  <2>1. CASE Goto(c, "preauth")
    BY <1>2, <2>1
  <2>2. ASSUME NEW m, cpu' = [cpu EXCEPT ![c].pc = "auth", ![c].mac = m]
        PROVE  SourceOK(cpu'[c])
    <3>1. cpu'[c].pc = "auth" /\ cpu'[c].dir = j.dir
      BY <1>1, <2>2 DEF Program
    <3> QED
      BY <1>8, <3>1 DEF Resolve, SourceOK
  <2> QED
    BY <1>8, <2>1, <2>2 DEF Resolve
<1>9. CASE AuthLookup(c)
  <2>1. CASE Goto(c, "preauth")
    BY <1>2, <2>1
  <2>2. ASSUME NEW l, NEW s, l = IF j.dir = "in" THEN "expiry" ELSE "shape",
               cpu' = [cpu EXCEPT ![c].pc = l, ![c].sess = s]
        PROVE  SourceOK(cpu'[c])
    <3>1. /\ cpu'[c].pc = l /\ cpu'[c].dir = j.dir /\ cpu'[c].mac = j.mac
          /\ cpu'[c].ip = j.ip
      BY <1>1, <2>2 DEF Program
    <3> QED
      BY <1>9, <2>2, <3>1 DEF SourceOK, AuthLookup
  <2> QED
    BY <1>9, <2>1, <2>2 DEF AuthLookup
<1> QED
  BY <1>4, <1>5, <1>6, <1>7, <1>8, <1>9 DEF ProgramStep

\* Two steps of a program write bindings.
LEMMA ProgramBindings ==
  ASSUME NEW c \in CPU, ProgramStep(c)
  PROVE  BindForward(c) \/ BindReverse(c) \/ UNCHANGED <<mac_ip, ip_mac>>
<1>1. StaticBypass(c) \/ BindLookup(c) \/ PortalTraffic(c) \/ Resolve(c)
        => UNCHANGED <<mac_ip, ip_mac>>
  BY DEF StaticBypass, BindLookup, PortalTraffic, Resolve
<1>2. AuthLookup(c) \/ ExpiryCheck(c) \/ ExpireDelete(c) \/ ExpireMark(c) \/ Shape(c)
        \/ Account(c) \/ PreAuth(c) => UNCHANGED <<mac_ip, ip_mac>>
  BY DEF AuthLookup, ExpiryCheck, ExpireDelete, ExpireMark, Shape, Account, PreAuth
<1> QED
  BY <1>1, <1>2 DEF ProgramStep

LEMMA ProgramKeeps ==
  ASSUME SourceInv, NEW c \in CPU, ProgramStep(c), UNCHANGED <<ctl, env>>
  PROVE  SourcesOwn' /\ BindingsOwn'
<1>1. cpu \in [CPU -> Program] /\ TypeOK /\ DatapathTypeOK /\ SourceOK(cpu[c])
  BY DEF SourceInv, TypeOK, DatapathTypeOK, SourcesOwn
<1>2. SourcesOwn'
  <2>1. SourceOK(cpu'[c])
    BY <1>1, SourceProgram
  <2>2. \A d \in CPU \ {c} : cpu'[d] = cpu[d]
    BY <1>1, ProgramFrame
  <2> QED
    BY <2>1, <2>2 DEF SourceInv, SourcesOwn
<1>3. CASE BindReverse(c)
  <2>1. /\ cpu[c].dir = "in" /\ cpu[c].ip \in IP
        /\ cpu[c].ip # Unspecified => Owns(cpu[c].mac, cpu[c].ip)
    BY <1>1, <1>3 DEF BindReverse, SourceOK, DatapathTypeOK, ProgramOK
  <2>2. \A i \in IP : ip_mac'[i] = ip_mac[i] \/ (i = cpu[c].ip /\ ip_mac'[i] = cpu[c].mac)
    BY <1>1, <1>3, <2>1 DEF BindReverse, UpdateIfFits, TypeOK, MapsTypeOK
  <2>3. UNCHANGED mac_ip
    BY <1>3 DEF BindReverse
  <2>4. BindingsOwn'
    BY <2>1, <2>2, <2>3 DEF SourceInv, BindingsOwn
  <2> QED
    BY <1>2, <2>4
<1>4. CASE BindForward(c)
  <2>1. /\ cpu[c].dir = "in" /\ cpu[c].mac \in MAC /\ cpu[c].ip \in IP
        /\ cpu[c].ip # Unspecified => Owns(cpu[c].mac, cpu[c].ip)
    BY <1>1, <1>4 DEF BindForward, SourceOK, DatapathTypeOK, ProgramOK, NeedsMac
  <2>2. \A m \in MAC : mac_ip'[m] = mac_ip[m] \/ (m = cpu[c].mac /\ mac_ip'[m] = cpu[c].ip)
    BY <1>1, <1>4, <2>1 DEF BindForward, UpdateIfFits, TypeOK, MapsTypeOK
  <2>3. UNCHANGED ip_mac
    BY <1>4 DEF BindForward
  <2>4. BindingsOwn'
    BY <2>1, <2>2, <2>3 DEF SourceInv, BindingsOwn
  <2> QED
    BY <1>2, <2>4
<1>5. CASE UNCHANGED <<mac_ip, ip_mac>>
  BY <1>2, <1>5 DEF SourceInv, BindingsOwn
<1> QED
  BY <1>3, <1>4, <1>5, ProgramBindings

-----------------------------------------------------------------------------
(***************************************************************************)
(* The hgctl of a login.                                                   *)
(***************************************************************************)
\* The address of a login is bound to the device that logged in.
LEMMA LoginStep ==
  ASSUME OwnAddresses, LoginInv, Daemon \in Proc, CtlStep(Daemon)
  PROVE  LoginOK(ctl'[Daemon], who)
<1> DEFINE j == ctl[Daemon]
<1>1. j \in Invocation /\ InvocationOK(j) /\ ctl \in [Proc -> Invocation]
  BY DEF LoginInv, TypeOK, CtlTypeOK
<1>2. j.pc # "idle" => /\ j.cmd = "add_ip" /\ j.pc \in AddPc \cup {"resolve", "exit"}
                       /\ Owns(who, j.ip) /\ j.mac \in {None, who}
  BY DEF LoginInv, LoginOwn, LoginOK
<1>3. ASSUME NEW l \in AddPc, CtlGoto(Daemon, l), j.pc # "idle"
      PROVE  LoginOK(ctl'[Daemon], who)
  <2>1. /\ ctl'[Daemon].pc = l /\ ctl'[Daemon].cmd = j.cmd
        /\ ctl'[Daemon].mac = j.mac /\ ctl'[Daemon].ip = j.ip
    BY <1>1, <1>3 DEF CtlGoto, Invocation
  <2> QED
    BY <1>2, <1>3, <2>1 DEF LoginOK
<1>4. ASSUME NEW rc, Exit(Daemon, rc), j.pc # "idle"
      PROVE  LoginOK(ctl'[Daemon], who)
  <2>1. ctl' = [ctl EXCEPT ![Daemon].pc = "exit", ![Daemon].rc = rc]
    BY <1>4 DEF Exit
  <2>2. /\ ctl'[Daemon].pc = "exit" /\ ctl'[Daemon].cmd = j.cmd
        /\ ctl'[Daemon].mac = j.mac /\ ctl'[Daemon].ip = j.ip
    BY <1>1, <2>1 DEF Invocation
  <2> QED
    BY <1>2, <1>4, <2>2 DEF LoginOK
<1>5. CASE ResolveMac(Daemon)
  <2>1. CASE Exit(Daemon, "FAILED")
    BY <1>4, <1>5, <2>1 DEF ResolveMac
  <2>2. CASE /\ ip_mac[j.ip] # None
             /\ ctl' = [ctl EXCEPT ![Daemon].mac = ip_mac[j.ip],
                          ![Daemon].pc = IF j.cmd = "add_ip" THEN "clock" ELSE "peek",
                          ![Daemon].ip = IF j.cmd = "add_ip" THEN @ ELSE None]
    <3>1. j.cmd = "add_ip" /\ Owns(who, j.ip)
      BY <1>2, <1>5 DEF ResolveMac
    <3>2. j.ip \in IP \ {Unspecified}
      BY <3>1, LeasesAssumption DEF Owns
    <3>3. ip_mac[j.ip] = who
      BY <2>2, <3>1, <3>2 DEF LoginInv, BindingsOwn, OwnAddresses, Owns
    <3>4. /\ ctl'[Daemon].pc = "clock" /\ ctl'[Daemon].cmd = j.cmd
          /\ ctl'[Daemon].mac = ip_mac[j.ip] /\ ctl'[Daemon].ip = j.ip
      BY <1>1, <2>2, <3>1 DEF Invocation
    <3> QED
      BY <3>1, <3>3, <3>4 DEF LoginOK, AddPc
  <2> QED
    BY <1>5, <2>1, <2>2 DEF ResolveMac
<1>6. CASE ReadClock(Daemon)
  <2>1. PICK e : ctl' = [ctl EXCEPT ![Daemon].pc = "client", ![Daemon].sess.expiry = e]
    BY <1>6 DEF ReadClock
  <2>2. /\ ctl'[Daemon].pc = "client" /\ ctl'[Daemon].cmd = j.cmd
        /\ ctl'[Daemon].mac = j.mac /\ ctl'[Daemon].ip = j.ip
    BY <1>1, <2>1 DEF Invocation
  <2> QED
    BY <1>2, <1>6, <2>2 DEF ReadClock, LoginOK, AddPc
<1>7. CASE InsertClient(Daemon) \/ InsertCounter(Daemon)
  BY <1>3, <1>4, <1>7 DEF InsertClient, InsertCounter, AddPc
<1>8. CASE Rollback(Daemon) \/ InsertRate(Daemon)
  BY <1>4, <1>8 DEF Rollback, InsertRate
<1>9. ~ResolveIp(Daemon)
  BY <1>2 DEF ResolveIp
<1>10. /\ ~PeekClient(Daemon) /\ ~DeleteRate(Daemon) /\ ~DeleteClient(Daemon)
       /\ ~CurrentIp(Daemon) /\ ~DeleteCounter(Daemon)
       /\ ~MapDelStep(Daemon) /\ ~BypassStep(Daemon)
  BY <1>2 DEF PeekClient, DeleteRate, DeleteClient, CurrentIp, DeleteCounter, MapDelStep,
     BypassStep, AddPc
<1> QED
  BY <1>5, <1>6, <1>7, <1>8, <1>9, <1>10 DEF CtlStep

\* The hgctl of an operator leaves the daemon's, and all bindings, alone.
LEMMA CtlFrame ==
  ASSUME CtlTypeOK, NEW p \in Proc, CtlStep(p)
  PROVE  UNCHANGED <<mac_ip, ip_mac>> /\ \A q \in Proc \ {p} : ctl'[q] = ctl[q]
<1>1. ctl \in [Proc -> Invocation]
  BY DEF CtlTypeOK
<1>2. ASSUME NEW l, CtlGoto(p, l) PROVE \A q \in Proc \ {p} : ctl'[q] = ctl[q]
  BY <1>1, <1>2 DEF CtlGoto
<1>3. ASSUME NEW rc, Exit(p, rc) PROVE \A q \in Proc \ {p} : ctl'[q] = ctl[q]
  BY <1>1, <1>3 DEF Exit
<1>4. CASE ResolveMac(p) \/ ResolveIp(p) \/ ReadClock(p) \/ PeekClient(p) \/ CurrentIp(p)
  BY <1>1, <1>3, <1>4 DEF ResolveMac, ResolveIp, ReadClock, PeekClient, CurrentIp
<1>5. CASE InsertClient(p) \/ InsertCounter(p) \/ Rollback(p) \/ InsertRate(p)
  BY <1>2, <1>3, <1>5 DEF InsertClient, InsertCounter, Rollback, InsertRate
<1>6. CASE DeleteRate(p) \/ DeleteClient(p) \/ DeleteCounter(p)
  BY <1>2, <1>3, <1>6 DEF DeleteRate, DeleteClient, DeleteCounter
<1>7. CASE MapDelStep(p) \/ BypassStep(p)
  BY <1>3, <1>7 DEF MapDelStep, BypassStep
<1> QED
  BY <1>4, <1>5, <1>6, <1>7 DEF CtlStep

\* Who starts a command touches no other process.
LEMMA OperatorFrame ==
  ASSUME NEW p \in Proc, Operator(p)
  PROVE  \E j : ctl' = [ctl EXCEPT ![p] = j]
<1>1. \A cmd, m, i, exp, lim : Add(p, cmd, m, i, exp, lim) => \E j : ctl' = [ctl EXCEPT ![p] = j]
  BY Zenon DEF Add
<1>2. \A cmd, m, i : Del(p, cmd, m, i) => \E j : ctl' = [ctl EXCEPT ![p] = j]
  BY Zenon DEF Del
<1>3. \A m, cmd, i : MapDel(p, m) \/ Bypass(p, cmd, i) => \E j : ctl' = [ctl EXCEPT ![p] = j]
  BY Zenon DEF MapDel, Bypass
<1> QED
  BY <1>1, <1>2, <1>3 DEF Operator

-----------------------------------------------------------------------------
(***************************************************************************)
(* Every step keeps the invariant.                                         *)
(***************************************************************************)
LEMMA SourceNext ==
  ASSUME SourceInv, [Next]_vars
  PROVE  SourceInv'
<1>1. /\ TypeOK /\ TypeOK' /\ DatapathTypeOK /\ CtlTypeOK /\ EnvTypeOK
      /\ cpu \in [CPU -> Program] /\ ctl \in [Proc -> Invocation]
      /\ addr \in [MAC -> IP \cup {None}]
  BY TypeStep DEF SourceInv, TypeOK, DatapathTypeOK, CtlTypeOK, EnvTypeOK
<1>2. ASSUME UNCHANGED addr PROVE AddrLeased'
  BY <1>2 DEF SourceInv, AddrLeased
<1>3. ASSUME UNCHANGED cpu PROVE SourcesOwn'
  BY <1>3 DEF SourceInv, SourcesOwn
<1>4. ASSUME UNCHANGED <<mac_ip, ip_mac>> PROVE BindingsOwn'
  BY <1>4 DEF SourceInv, BindingsOwn
<1>5. ASSUME UNCHANGED <<addr, cpu, mac_ip, ip_mac>> PROVE SourceInv'
  BY <1>1, <1>2, <1>3, <1>4, <1>5 DEF SourceInv
<1>6. CASE Tick \/ UNCHANGED vars
  BY <1>5, <1>6 DEF Tick, env, vars
<1>7. ASSUME NEW m \in MAC, Release(m) \/ \E i \in IP : Lease(m, i) PROVE SourceInv'
  <2>1. UNCHANGED <<cpu, mac_ip, ip_mac>>
    BY <1>7 DEF Release, Lease
  <2>2. PICK i \in IP \cup {None} : addr' = [addr EXCEPT ![m] = i] /\ (i # None => Owns(m, i))
    BY <1>7 DEF Release, Lease, Owns
  <2>3. AddrLeased'
    BY <1>1, <2>2 DEF SourceInv, AddrLeased
  <2> QED
    BY <1>1, <1>3, <1>4, <2>1, <2>3 DEF SourceInv
<1>8. ASSUME NEW m \in MAC, Login(m) PROVE SourceInv'
  BY <1>5, <1>8 DEF Login, Add
<1>9. ASSUME NEW c \in CPU, Run(c) PROVE SourceInv'
  <2>1. ProgramStep(c) /\ UNCHANGED <<ctl, env>>
    BY <1>9 DEF Run
  <2>2. SourcesOwn' /\ BindingsOwn'
    BY <2>1, ProgramKeeps
  <2> QED
    BY <1>1, <1>2, <2>1, <2>2 DEF SourceInv, env
<1>10. ASSUME NEW c \in CPU, NEW j, cpu' = [cpu EXCEPT ![c] = j], SourceOK(j),
              UNCHANGED <<maps, addr>>
       PROVE  SourceInv'
  <2>1. \A d \in CPU : cpu'[d] = IF d = c THEN j ELSE cpu[d]
    BY <1>1, <1>10
  <2>2. SourcesOwn'
    BY <1>10, <2>1 DEF SourceInv, SourcesOwn
  <2> QED
    BY <1>1, <1>2, <1>4, <1>10, <2>2 DEF SourceInv
<1>11. ASSUME NEW c \in CPU, Deliver(c) PROVE SourceInv'
  <2>1. SourceOK(Idle)
    BY NoneAssumption DEF SourceOK, Idle
  <2> QED
    BY <1>10, <1>11, <2>1 DEF Deliver, Return
<1>12. ASSUME NEW c \in CPU, Download(c) PROVE SourceInv'
  <2>1. PICK i \in IP \ {Unspecified} : Egress(c, i) /\ UNCHANGED <<ctl, env>>
    BY <1>12 DEF Download
  <2> DEFINE j == [Idle EXCEPT !.dir = "out", !.pc = "bypass", !.ip = i, !.arr = now]
  <2>2. SourceOK(j)
    BY DEF SourceOK, Idle
  <2> QED
    BY <1>10, <2>1, <2>2 DEF Egress, env
<1>13. ASSUME NEW c \in CPU, NEW m \in MAC, Upload(c, m) PROVE SourceInv'
  <2>1. PICK i : /\ Ingress(c, m, i) /\ UNCHANGED <<ctl, env>>
                 /\ i # Unspecified => i = addr[m] /\ addr[m] # None
    BY <1>13 DEF Upload
  <2> DEFINE j == [Idle EXCEPT !.dir = "in", !.pc = "bypass", !.mac = m, !.ip = i,
                               !.arr = now]
  <2>2. i # Unspecified => Owns(m, i)
    BY <2>1 DEF SourceInv, AddrLeased
  <2>3. SourceOK(j)
    BY <2>2 DEF SourceOK, Idle
  <2> QED
    BY <1>10, <2>1, <2>3 DEF Ingress, env
<1>14. ASSUME NEW p \in Proc, Operator(p) PROVE SourceInv'
  BY <1>5, <1>14 DEF Operator, Add, Del, MapDel, Bypass, env
<1>15. ASSUME NEW p \in Proc, Ctl(p) PROVE SourceInv'
  <2>1. CtlStep(p) /\ UNCHANGED <<cpu, addr>>
    BY <1>15 DEF Ctl, env
  <2> QED
    BY <1>1, <1>5, <2>1, CtlFrame
<1>16. ASSUME NEW p \in Proc, Wait(p) PROVE SourceInv'
  BY <1>5, <1>16 DEF Wait, Reap
<1> QED
  BY <1>6, <1>7, <1>8, <1>9, <1>11, <1>12, <1>13, <1>14, <1>15, <1>16 DEF Next

LEMMA LoginNext ==
  ASSUME OwnAddresses, LoginInv, [Next]_vars
  PROVE  LoginInv'
<1>1. /\ CtlTypeOK /\ EnvTypeOK /\ ctl \in [Proc -> Invocation] /\ SourceInv
  BY DEF LoginInv, SourceInv, TypeOK, CtlTypeOK
<1>2. SUFFICES LoginOwn'
  BY <1>1, SourceNext DEF LoginInv, SourceInv
<1>3. CASE UNCHANGED <<ctl, who>>
  BY <1>3 DEF LoginInv, LoginOwn
<1>4. CASE Tick \/ UNCHANGED vars
  BY <1>3, <1>4 DEF Tick, env, vars
<1>5. ASSUME NEW m \in MAC, Release(m) \/ \E i \in IP : Lease(m, i) PROVE LoginOwn'
  BY <1>3, <1>5 DEF Release, Lease
<1>6. ASSUME NEW m \in MAC, Login(m) PROVE LoginOwn'
  <2>1. PICK exp \in Timeout, lim \in Limit : Add(Daemon, "add_ip", m, addr[m], exp, lim)
    BY <1>6 DEF Login
  <2>2. who' = m /\ m \in heard /\ Daemon \in Proc
    BY <1>6 DEF Login
  <2>3. Owns(m, addr[m])
    BY <1>1, <2>2 DEF LoginInv, AddrLeased, EnvTypeOK
  <2>4. PICK s : ctl' = [ctl EXCEPT ![Daemon] =
                   [NoCommand EXCEPT !.pc = "resolve", !.cmd = "add_ip", !.mac = None,
                                     !.ip = addr[m], !.exp = exp, !.sess = s]]
    BY <2>1 DEF Add
  <2>5. /\ ctl'[Daemon].pc = "resolve" /\ ctl'[Daemon].cmd = "add_ip"
        /\ ctl'[Daemon].mac = None /\ ctl'[Daemon].ip = addr[m]
    BY <1>1, <2>2, <2>4 DEF NoCommand
  <2> QED
    BY <2>2, <2>3, <2>5 DEF LoginOwn, LoginOK
<1>7. ASSUME NEW c \in CPU,
             Run(c) \/ Deliver(c) \/ Download(c) \/ \E m \in MAC : Upload(c, m)
      PROVE  LoginOwn'
  BY <1>3, <1>7 DEF Run, Deliver, Download, Upload, env
<1>8. ASSUME NEW p \in Proc, Operator(p) PROVE LoginOwn'
  <2>1. UNCHANGED who /\ p # Daemon
    BY <1>8 DEF Operator, env
  <2>2. \E j : ctl' = [ctl EXCEPT ![p] = j]
    BY <1>8, OperatorFrame
  <2> QED
    BY <1>1, <2>1, <2>2 DEF LoginInv, LoginOwn
<1>9. ASSUME NEW p \in Proc, Ctl(p) PROVE LoginOwn'
  <2>1. CtlStep(p) /\ UNCHANGED who
    BY <1>9 DEF Ctl, env
  <2>2. \A q \in Proc \ {p} : ctl'[q] = ctl[q]
    BY <1>1, <2>1, CtlFrame
  <2>3. CASE p = Daemon
    BY <2>1, <2>3, LoginStep DEF LoginOwn
  <2>4. CASE p # Daemon
    BY <2>1, <2>2, <2>4 DEF LoginInv, LoginOwn
  <2> QED
    BY <2>3, <2>4
<1>10. ASSUME NEW p \in Proc, Wait(p) PROVE LoginOwn'
  <2>1. /\ ctl' = [ctl EXCEPT ![p] = NoCommand]
        /\ who' = IF p = Daemon THEN None ELSE who
    BY <1>10 DEF Wait, Reap
  <2>2. CASE p = Daemon
    BY <1>1, <2>1, <2>2 DEF LoginOwn, LoginOK, NoCommand
  <2>3. CASE p # Daemon
    BY <1>1, <2>1, <2>3 DEF LoginInv, LoginOwn
  <2> QED
    BY <2>2, <2>3
<1> QED
  BY <1>4, <1>5, <1>6, <1>7, <1>8, <1>9, <1>10 DEF Next

LEMMA LoginInit == Init => LoginInv
<1> SUFFICES ASSUME Init PROVE LoginInv
  OBVIOUS
<1>1. TypeOK /\ AddrLeased /\ BindingsOwn
  BY InitType DEF Init, MapsInit, AddrLeased, BindingsOwn
<1>2. SourceOK(Idle)
  BY DEF SourceOK, Idle
<1>3. SourcesOwn
  BY <1>2 DEF Init, DatapathInit, SourcesOwn
<1>4. LoginOwn
  BY DEF Init, CtlInit, LoginOwn, LoginOK, NoCommand
<1> QED
  BY <1>1, <1>3, <1>4 DEF LoginInv

LEMMA LoginSender == LoginInv => LoginAuthenticatesSender
<1> SUFFICES ASSUME LoginInv, Daemon \in Proc,
                    ctl[Daemon].pc \in {"clock", "client", "counter", "rate"}
             PROVE  ctl[Daemon].mac = who
  BY DEF LoginAuthenticatesSender
<1>1. ctl[Daemon].mac \in {None, who}
  BY DEF LoginInv, LoginOwn, LoginOK
<1>2. ctl[Daemon].mac \in MAC
  BY DEF LoginInv, TypeOK, CtlTypeOK, InvocationOK, AddPc
<1> QED
  BY <1>1, <1>2, NoneAssumption

\* If no address is ever given to two devices, a login authenticates the device
\* that logged in, however it roams, and whatever other packets, CPUs, commands
\* and logins do in between.
THEOREM LoginCorrect ==
  ASSUME OwnAddresses
  PROVE  Spec => []LoginAuthenticatesSender
<1>1. LoginInv /\ [Next]_vars => LoginInv'
  BY LoginNext
<1> QED
  BY <1>1, LoginInit, LoginSender, PTL DEF Spec

-----------------------------------------------------------------------------
(***************************************************************************)
(* Devices the portal has heard.                                           *)
(***************************************************************************)
\* No two packets are under way at once.
OneCPU == \A c, d \in CPU : c = d

\* hg_mac_ip and hg_ip_mac take every device and every address.
RoomForBindings ==
  /\ IsFiniteSet(MAC) /\ Cardinality(MAC) <= MaxBindings
  /\ IsFiniteSet(IP) /\ Cardinality(IP) <= MaxBindings

PastBinding == {"portal", "auth", "expiry", "expire", "mark", "shape", "count", "preauth"}

Bound(m, i) == mac_ip[m] = i /\ (i # Unspecified => ip_mac[i] = m)

\* A packet under way comes from the address its device still has, if the
\* portal knows the device there; and after step 3 its addresses are bound.
PacketBound(j) ==
  /\ j.pc = "portal" \/ j.ver = "portal" => j.dir = "in"
  /\ j.dir = "in" /\ j.mac \in heard => addr[j.mac] = j.ip
  /\ j.dir = "in" /\ j.pc = "rev" => mac_ip[j.mac] = j.ip
  /\ j.dir = "in" /\ (j.pc \in PastBinding \/ j.ver = "portal") => Bound(j.mac, j.ip)
PacketsBound == \A c \in CPU : PacketBound(cpu[c])

\* The two maps agree, except between their two updates.
BothWays ==
  \A m \in MAC : mac_ip[m] \notin {None, Unspecified} =>
    ip_mac[mac_ip[m]] = m \/ \E c \in CPU : cpu[c].pc = "rev" /\ cpu[c].mac = m

\* A login that has still to look its address up will find it.
LoginBound ==
  Daemon \in Proc =>
    /\ ctl[Daemon].pc = "resolve" => ip_mac[ctl[Daemon].ip] # None
    /\ ctl[Daemon].rc = "FAILED" => ctl[Daemon].mac # None

BoundInv == LoginInv /\ PacketsBound /\ BothWays /\ BindingFollowsTraffic /\ LoginBound

LEMMA RoomFits ==
  ASSUME NEW S, IsFiniteSet(S), NEW max \in Nat, Cardinality(S) <= max,
         NEW map, DOMAIN map = S, NEW k \in S
  PROVE  Fits(map, k, max)
<1> SUFFICES ASSUME map[k] = None
             PROVE  Cardinality({x \in S : map[x] # None}) < max
  BY DEF Fits
<1> DEFINE T == {x \in S : map[x] # None}
<1>1. T \subseteq S \ {k}
  OBVIOUS
<1>2. IsFiniteSet(S \ {k}) /\ Cardinality(S \ {k}) = Cardinality(S) - 1
  BY FS_RemoveElement
<1>3. Cardinality(T) <= Cardinality(S \ {k})
  BY <1>1, <1>2, FS_Subset
<1>4. Cardinality(S) \in Nat /\ Cardinality(T) \in Nat
  BY <1>1, <1>2, FS_Subset, FS_CardinalityType
<1> QED
  BY <1>2, <1>3, <1>4

\* With room for it a binding is written.
LEMMA BindingsFit ==
  ASSUME TypeOK, RoomForBindings, NEW m \in MAC, NEW i \in IP
  PROVE  /\ UpdateIfFits(mac_ip, m, i, MaxBindings) = [mac_ip EXCEPT ![m] = i]
         /\ UpdateIfFits(ip_mac, i, m, MaxBindings) = [ip_mac EXCEPT ![i] = m]
<1>1. DOMAIN mac_ip = MAC /\ DOMAIN ip_mac = IP /\ MaxBindings \in Nat
  BY CapacityAssumption DEF TypeOK, MapsTypeOK
<1> QED
  BY <1>1, RoomFits DEF RoomForBindings, UpdateIfFits

\* What one step of a program does to its own packet, and to the bindings.
LEMMA BoundProgram ==
  ASSUME OwnAddresses, OneCPU, RoomForBindings, BoundInv, NEW c \in CPU, ProgramStep(c),
         UNCHANGED env
  PROVE  /\ PacketsBound' /\ BothWays' /\ BindingFollowsTraffic'
         /\ \A i \in IP : ip_mac[i] # None => ip_mac'[i] # None
<1> DEFINE j == cpu[c]
<1>1. /\ j \in Program /\ cpu \in [CPU -> Program] /\ ProgramOK(j) /\ TypeOK
      /\ SourceOK(j) /\ PacketBound(j) /\ \A d \in CPU : d = c
      /\ mac_ip \in [MAC -> IP \cup {None}] /\ ip_mac \in [IP -> MAC \cup {None}]
  BY DEF BoundInv, LoginInv, TypeOK, DatapathTypeOK, MapsTypeOK, SourcesOwn, PacketsBound, OneCPU
<1>2. /\ \A m \in heard : addr[m] \in IP /\ addr[m] # Unspecified /\ Owns(m, addr[m]) /\ m \in MAC
      /\ \A m \in heard : ip_mac[addr[m]] = m /\ mac_ip[m] = addr[m]
  BY LeasesAssumption DEF BoundInv, LoginInv, TypeOK, EnvTypeOK, AddrLeased,
     BindingFollowsTraffic, Owns
<1>3. addr' = addr /\ heard' = heard
  BY DEF env
<1>4. ASSUME UNCHANGED <<mac_ip, ip_mac>>, j.pc # "rev", PacketBound(cpu[c])'
      PROVE  PacketsBound' /\ BothWays' /\ BindingFollowsTraffic'
  <2>1. BothWays'
    BY <1>1, <1>4 DEF BoundInv, BothWays
  <2>2. PacketsBound' /\ BindingFollowsTraffic'
    BY <1>1, <1>2, <1>3, <1>4 DEF PacketsBound, BindingFollowsTraffic
  <2> QED
    BY <2>1, <2>2
<1>5. ASSUME NEW l, Goto(c, l), UNCHANGED <<mac_ip, ip_mac>>, j.pc # "rev", l # "rev",
             l = "portal" => j.dir = "in",
             j.dir = "in" /\ l \in PastBinding => Bound(j.mac, j.ip)
      PROVE  PacketsBound' /\ BothWays' /\ BindingFollowsTraffic'
  <2>1. /\ cpu'[c].pc = l /\ cpu'[c].dir = j.dir /\ cpu'[c].mac = j.mac /\ cpu'[c].ip = j.ip
        /\ cpu'[c].ver = j.ver
    BY <1>1, <1>5 DEF Goto, Program
  <2>2. PacketBound(cpu[c])'
    BY <1>1, <1>3, <1>5, <2>1 DEF PacketBound, Bound
  <2> QED
    BY <1>4, <1>5, <2>2
<1>6. ASSUME NEW v, Decide(c, v), UNCHANGED <<mac_ip, ip_mac>>, j.pc # "rev",
             v = "portal" => j.dir = "in" /\ j.pc \in PastBinding
      PROVE  PacketsBound' /\ BothWays' /\ BindingFollowsTraffic'
  <2>1. /\ cpu'[c].pc = "done" /\ cpu'[c].dir = j.dir /\ cpu'[c].mac = j.mac
        /\ cpu'[c].ip = j.ip /\ cpu'[c].ver = v
    BY <1>1, <1>6 DEF Decide, Program
  <2>2. PacketBound(cpu[c])'
    BY <1>1, <1>3, <1>6, <2>1 DEF PacketBound, Bound, PastBinding
  <2> QED
    BY <1>4, <1>6, <2>2
<1>7. CASE BindForward(c)
  <2>1. /\ j.pc = "fwd" /\ j.dir = "in" /\ j.mac \in MAC /\ j.ip \in IP
        /\ mac_ip' = [mac_ip EXCEPT ![j.mac] = j.ip] /\ ip_mac' = ip_mac /\ Goto(c, "rev")
    BY <1>1, <1>7, BindingsFit DEF BindForward, SourceOK, ProgramOK, NeedsMac
  <2>2. /\ cpu'[c].pc = "rev" /\ cpu'[c].dir = j.dir /\ cpu'[c].mac = j.mac /\ cpu'[c].ip = j.ip
        /\ cpu'[c].ver = j.ver
    BY <1>1, <2>1 DEF Goto, Program
  <2>3. \A m \in MAC : mac_ip'[m] = IF m = j.mac THEN j.ip ELSE mac_ip[m]
    BY <1>1, <2>1
  <2>4. PacketBound(cpu[c])'
    BY <1>1, <1>3, <2>1, <2>2, <2>3 DEF PacketBound, Bound, PastBinding
  <2>5. BothWays'
    BY <1>1, <2>1, <2>2, <2>3 DEF BoundInv, BothWays
  <2>6. BindingFollowsTraffic'
    BY <1>1, <1>2, <1>3, <2>1, <2>3 DEF BindingFollowsTraffic, PacketBound
  <2> QED
    BY <1>1, <2>1, <2>4, <2>5, <2>6 DEF PacketsBound
<1>8. CASE BindReverse(c)
  <2>1. /\ j.pc = "rev" /\ j.dir = "in" /\ j.mac \in MAC /\ j.ip \in IP
        /\ j.ip # Unspecified => Owns(j.mac, j.ip)
        /\ ip_mac' = [ip_mac EXCEPT ![j.ip] = j.mac] /\ mac_ip' = mac_ip /\ Goto(c, "portal")
    BY <1>1, <1>8, BindingsFit DEF BindReverse, SourceOK, ProgramOK, NeedsMac
  <2>2. /\ cpu'[c].pc = "portal" /\ cpu'[c].dir = j.dir /\ cpu'[c].mac = j.mac
        /\ cpu'[c].ip = j.ip /\ cpu'[c].ver = j.ver
    BY <1>1, <2>1 DEF Goto, Program
  <2>3. \A i \in IP : ip_mac'[i] = IF i = j.ip THEN j.mac ELSE ip_mac[i]
    BY <1>1, <2>1
  <2>4. mac_ip[j.mac] = j.ip
    BY <1>1, <2>1 DEF PacketBound
  <2>5. PacketBound(cpu[c])'
    BY <1>1, <1>3, <2>1, <2>2, <2>3, <2>4 DEF PacketBound, Bound, PastBinding
  <2>6. BothWays'
    <3>1. ASSUME NEW m \in MAC, mac_ip[m] \notin {None, Unspecified}
          PROVE  ip_mac'[mac_ip[m]] = m
      <4>1. mac_ip[m] \in IP /\ Owns(m, mac_ip[m])
        BY <1>1, <3>1 DEF BoundInv, LoginInv, BindingsOwn
      <4>2. CASE mac_ip[m] = j.ip
        BY <2>1, <2>3, <3>1, <4>1, <4>2, OneOwner
      <4>3. CASE mac_ip[m] # j.ip
        BY <1>1, <2>3, <2>4, <3>1, <4>1, <4>3 DEF BoundInv, BothWays
      <4> QED
        BY <4>2, <4>3
    <3> QED
      BY <2>1, <3>1 DEF BothWays
  <2>7. BindingFollowsTraffic'
    <3>1. ASSUME NEW m \in heard PROVE ip_mac'[addr[m]] = m
      BY <1>2, <2>1, <2>3, <3>1, OneOwner
    <3> QED
      BY <1>2, <1>3, <2>1, <3>1 DEF BindingFollowsTraffic
  <2>8. \A i \in IP : ip_mac[i] # None => ip_mac'[i] # None
    BY <2>1, <2>3, NoneAssumption
  <2>9. PacketsBound'
    BY <1>1, <2>5 DEF PacketsBound
  <2> QED
    BY <2>6, <2>7, <2>8, <2>9
<1>9. CASE BindLookup(c)
  <2>1. UNCHANGED <<mac_ip, ip_mac>> /\ j.pc = "bind" /\ j.dir = "in" /\ j.mac \in MAC
    BY <1>1, <1>9 DEF BindLookup, SourceOK, ProgramOK, NeedsMac
  <2>2. CASE Goto(c, "fwd")
    BY <1>5, <2>1, <2>2 DEF PastBinding
  <2>3. CASE ~NeedsBinding(j.mac, j.ip) /\ Goto(c, "portal")
    <3>1. mac_ip[j.mac] = j.ip /\ j.ip # None
      BY <2>3 DEF NeedsBinding
    <3>2. Bound(j.mac, j.ip)
      BY <1>1, <2>1, <3>1 DEF BoundInv, BothWays, Bound
    <3> QED
      BY <1>5, <2>1, <2>3, <3>2
  <2> QED
    BY <1>9, <2>1, <2>2, <2>3 DEF BindLookup
<1>10. CASE StaticBypass(c)
  BY <1>1, <1>5, <1>6, <1>10 DEF StaticBypass, PastBinding
<1>11. CASE PortalTraffic(c)
  BY <1>1, <1>5, <1>6, <1>11 DEF PortalTraffic, PastBinding, PacketBound
<1>12. CASE Resolve(c)
  <2>1. /\ UNCHANGED <<mac_ip, ip_mac>> /\ j.pc = "resolve" /\ j.dir # "in"
    BY <1>1, <1>12 DEF Resolve, SourceOK
  <2>2. CASE Goto(c, "preauth")
    BY <1>5, <2>1, <2>2
  <2>3. ASSUME NEW m, cpu' = [cpu EXCEPT ![c].pc = "auth", ![c].mac = m]
        PROVE  PacketsBound' /\ BothWays' /\ BindingFollowsTraffic'
    <3>1. cpu'[c].pc = "auth" /\ cpu'[c].dir = j.dir /\ cpu'[c].ver = j.ver
      BY <1>1, <2>3 DEF Program
    <3>2. PacketBound(cpu[c])'
      BY <1>1, <2>1, <3>1 DEF PacketBound
    <3> QED
      BY <1>4, <2>1, <3>2
  <2> QED
    BY <1>12, <2>1, <2>2, <2>3 DEF Resolve
<1>13. CASE AuthLookup(c)
  <2>1. UNCHANGED <<mac_ip, ip_mac>> /\ j.pc = "auth"
    BY <1>13 DEF AuthLookup
  <2>2. CASE Goto(c, "preauth")
    BY <1>1, <1>5, <2>1, <2>2 DEF PacketBound, PastBinding
  <2>3. ASSUME NEW l \in {"expiry", "shape"}, NEW s,
               cpu' = [cpu EXCEPT ![c].pc = l, ![c].sess = s]
        PROVE  PacketsBound' /\ BothWays' /\ BindingFollowsTraffic'
    <3>1. /\ cpu'[c].pc = l /\ cpu'[c].dir = j.dir /\ cpu'[c].mac = j.mac
          /\ cpu'[c].ip = j.ip /\ cpu'[c].ver = j.ver
      BY <1>1, <2>3 DEF Program
    <3>2. PacketBound(cpu[c])'
      BY <1>1, <1>3, <2>1, <3>1 DEF PacketBound, Bound, PastBinding
    <3> QED
      BY <1>4, <2>1, <3>2
  <2> QED
    BY <1>13, <2>1, <2>2, <2>3 DEF AuthLookup
<1>14. CASE ExpiryCheck(c) \/ ExpireDelete(c) \/ ExpireMark(c)
  BY <1>1, <1>5, <1>6, <1>14
     DEF ExpiryCheck, ExpireDelete, ExpireMark, PacketBound, PastBinding
<1>15. CASE Shape(c) \/ Account(c) \/ PreAuth(c)
  BY <1>1, <1>5, <1>6, <1>15 DEF Shape, Account, PreAuth, PacketBound, PastBinding
<1>16. ~BindReverse(c) => \A i \in IP : ip_mac[i] # None => ip_mac'[i] # None
  BY ProgramBindings DEF BindForward
<1>17. /\ BindForward(c) \/ BindReverse(c) => PacketsBound' /\ BothWays' /\ BindingFollowsTraffic'
       /\ BindReverse(c) => \A i \in IP : ip_mac[i] # None => ip_mac'[i] # None
  BY <1>7, <1>8
<1> QED
  BY <1>16, <1>17, <1>9, <1>10, <1>11, <1>12, <1>13, <1>14, <1>15, <1>16 DEF ProgramStep

\* The hgctl of a login knows its device after its first step.
LEMMA LoginFinds ==
  ASSUME BoundInv, Daemon \in Proc, CtlStep(Daemon)
  PROVE  ctl'[Daemon].mac # None /\ ctl'[Daemon].pc # "resolve"
<1> DEFINE j == ctl[Daemon]
<1>1. /\ j \in Invocation /\ InvocationOK(j) /\ ctl \in [Proc -> Invocation]
      /\ j.pc = "resolve" => ip_mac[j.ip] # None
      /\ j.pc # "idle" => j.cmd = "add_ip" /\ j.pc \in AddPc \cup {"resolve", "exit"}
      /\ j.pc \in AddPc => j.mac # None
  BY NoneAssumption DEF BoundInv, LoginInv, TypeOK, CtlTypeOK, LoginBound, LoginOwn, LoginOK,
     InvocationOK
<1>2. ASSUME NEW l \in AddPc, CtlGoto(Daemon, l), j.mac # None
      PROVE  ctl'[Daemon].mac # None /\ ctl'[Daemon].pc # "resolve"
  BY <1>1, <1>2 DEF CtlGoto, Invocation, AddPc
<1>3. ASSUME NEW rc, Exit(Daemon, rc), j.mac # None
      PROVE  ctl'[Daemon].mac # None /\ ctl'[Daemon].pc # "resolve"
  <2>1. ctl' = [ctl EXCEPT ![Daemon].pc = "exit", ![Daemon].rc = rc]
    BY <1>3 DEF Exit
  <2> QED
    BY <1>1, <1>3, <2>1 DEF Invocation
<1>4. CASE ResolveMac(Daemon)
  <2>1. /\ ip_mac[j.ip] # None
        /\ ctl' = [ctl EXCEPT ![Daemon].mac = ip_mac[j.ip],
                     ![Daemon].pc = IF j.cmd = "add_ip" THEN "clock" ELSE "peek",
                     ![Daemon].ip = IF j.cmd = "add_ip" THEN @ ELSE None]
    BY <1>1, <1>4 DEF ResolveMac
  <2>2. ctl'[Daemon].mac = ip_mac[j.ip] /\ ctl'[Daemon].pc \in {"clock", "peek"}
    BY <1>1, <2>1 DEF Invocation
  <2> QED
    BY <2>1, <2>2
<1>5. CASE ReadClock(Daemon)
  <2>1. PICK e : ctl' = [ctl EXCEPT ![Daemon].pc = "client", ![Daemon].sess.expiry = e]
    BY <1>5 DEF ReadClock
  <2>2. ctl'[Daemon].pc = "client" /\ ctl'[Daemon].mac = j.mac
    BY <1>1, <2>1 DEF Invocation
  <2> QED
    BY <1>1, <1>5, <2>2 DEF ReadClock, AddPc
<1>6. CASE InsertClient(Daemon) \/ InsertCounter(Daemon)
  BY <1>1, <1>2, <1>3, <1>6 DEF InsertClient, InsertCounter, AddPc
<1>7. CASE Rollback(Daemon) \/ InsertRate(Daemon)
  BY <1>1, <1>3, <1>7 DEF Rollback, InsertRate, AddPc
<1>8. ~ResolveIp(Daemon)
  BY <1>1 DEF ResolveIp
<1>9. /\ ~PeekClient(Daemon) /\ ~DeleteRate(Daemon) /\ ~DeleteClient(Daemon)
      /\ ~CurrentIp(Daemon) /\ ~DeleteCounter(Daemon)
      /\ ~MapDelStep(Daemon) /\ ~BypassStep(Daemon)
  BY <1>1 DEF PeekClient, DeleteRate, DeleteClient, CurrentIp, DeleteCounter, MapDelStep,
     BypassStep, AddPc
<1> QED
  BY <1>4, <1>5, <1>6, <1>7, <1>8, <1>9 DEF CtlStep

LEMMA BoundNext ==
  ASSUME OwnAddresses, OneCPU, RoomForBindings, BoundInv, [Next]_vars
  PROVE  BoundInv'
<1>1. /\ LoginInv /\ LoginInv' /\ TypeOK /\ CtlTypeOK
      /\ cpu \in [CPU -> Program] /\ ctl \in [Proc -> Invocation]
      /\ addr \in [MAC -> IP \cup {None}]
      /\ heard \subseteq MAC /\ \A m \in heard : addr[m] # None
  BY LoginNext DEF BoundInv, LoginInv, TypeOK, DatapathTypeOK, CtlTypeOK, EnvTypeOK
<1>2. ASSUME UNCHANGED <<mac_ip, ip_mac, cpu, addr, heard>>
      PROVE  PacketsBound' /\ BothWays' /\ BindingFollowsTraffic'
  <2>1. PacketsBound'
    BY <1>2 DEF BoundInv, PacketsBound, PacketBound, Bound
  <2>2. BothWays' /\ BindingFollowsTraffic'
    BY <1>2 DEF BoundInv, BothWays, BindingFollowsTraffic
  <2> QED
    BY <2>1, <2>2
<1>3. ASSUME UNCHANGED ctl, \A i \in IP : ip_mac[i] # None => ip_mac'[i] # None
      PROVE  LoginBound'
  <2>1. Daemon \in Proc /\ ctl[Daemon].pc = "resolve" => ctl[Daemon].ip \in IP
    BY <1>1 DEF LoginInv, CtlTypeOK, InvocationOK, LoginOwn, LoginOK
  <2> QED
    BY <1>3, <2>1 DEF BoundInv, LoginBound
<1>4. CASE Tick \/ UNCHANGED vars
  <2>1. UNCHANGED <<mac_ip, ip_mac, cpu, addr, heard, ctl>>
    BY <1>4 DEF Tick, env, vars
  <2> QED
    BY <1>1, <1>2, <1>3, <2>1 DEF BoundInv
<1>5. ASSUME NEW m \in MAC, Release(m) \/ \E i \in IP : Lease(m, i) PROVE BoundInv'
  <2>1. UNCHANGED <<mac_ip, ip_mac, cpu, ctl>> /\ heard' = heard \ {m}
    BY <1>5 DEF Release, Lease
  <2>2. \A n \in heard' : addr'[n] = addr[n]
    BY <1>1, <1>5, <2>1 DEF Release, Lease
  <2>3. PacketsBound'
    BY <2>1, <2>2 DEF BoundInv, PacketsBound, PacketBound, Bound
  <2>4. BothWays' /\ BindingFollowsTraffic'
    BY <2>1, <2>2 DEF BoundInv, BothWays, BindingFollowsTraffic
  <2> QED
    BY <1>1, <1>3, <2>1, <2>3, <2>4 DEF BoundInv
<1>6. ASSUME NEW m \in MAC, Login(m) PROVE BoundInv'
  <2>1. PICK exp \in Timeout, lim \in Limit : Add(Daemon, "add_ip", m, addr[m], exp, lim)
    BY <1>6 DEF Login
  <2>2. UNCHANGED <<mac_ip, ip_mac, cpu, addr, heard>> /\ m \in heard /\ Daemon \in Proc
    BY <1>6, <2>1 DEF Login, Add
  <2>3. PICK s : ctl' = [ctl EXCEPT ![Daemon] =
                   [NoCommand EXCEPT !.pc = "resolve", !.cmd = "add_ip", !.mac = None,
                                     !.ip = addr[m], !.exp = exp, !.sess = s]]
    BY <2>1 DEF Add
  <2>4. ctl'[Daemon].ip = addr[m] /\ ctl'[Daemon].rc = "none"
    BY <1>1, <2>2, <2>3 DEF NoCommand
  <2>5. ip_mac[addr[m]] # None
    BY <1>1, <2>2, NoneAssumption DEF BoundInv, BindingFollowsTraffic
  <2>6. LoginBound'
    BY <2>2, <2>4, <2>5 DEF LoginBound
  <2> QED
    BY <1>1, <1>2, <2>2, <2>6 DEF BoundInv
<1>7. ASSUME NEW c \in CPU, Run(c) PROVE BoundInv'
  <2>1. ProgramStep(c) /\ UNCHANGED env /\ UNCHANGED ctl
    BY <1>7 DEF Run
  <2> QED
    BY <1>1, <1>3, <2>1, BoundProgram DEF BoundInv
<1>8. ASSUME NEW c \in CPU, NEW j, cpu' = [cpu EXCEPT ![c] = j], cpu[c].pc \in {"idle", "done"},
             UNCHANGED <<maps, ctl, addr>>, PacketBound(cpu[c])', BindingFollowsTraffic'
      PROVE  BoundInv'
  <2>1. \A d \in CPU : d = c
    BY DEF OneCPU
  <2>2. PacketsBound'
    BY <1>8, <2>1 DEF PacketsBound
  <2>3. BothWays'
    BY <1>8, <2>1 DEF BoundInv, BothWays
  <2> QED
    BY <1>1, <1>3, <1>8, <2>2, <2>3 DEF BoundInv
<1>9. ASSUME NEW c \in CPU, Deliver(c) PROVE BoundInv'
  <2>1. /\ cpu[c].pc = "done" /\ cpu' = [cpu EXCEPT ![c] = Idle] /\ UNCHANGED <<maps, ctl, addr>>
        /\ heard' = IF cpu[c].ver = "portal" /\ addr[cpu[c].mac] = cpu[c].ip
                    THEN heard \cup {cpu[c].mac} ELSE heard
    BY <1>9 DEF Deliver, Return
  <2>2. PacketBound(cpu[c])'
    BY <1>1, <2>1 DEF PacketBound, Idle
  <2>3. BindingFollowsTraffic'
    <3>1. CASE cpu[c].ver = "portal" /\ addr[cpu[c].mac] = cpu[c].ip
      <4>1. cpu[c].dir = "in" /\ PacketBound(cpu[c]) /\ cpu[c].mac \in MAC /\ cpu[c].ip \in IP
        BY <1>1, <2>1, <3>1 DEF BoundInv, PacketsBound, PacketBound, TypeOK, DatapathTypeOK,
           ProgramOK
      <4>2. cpu[c].ip # Unspecified
        BY <1>1, <3>1, <4>1, LeasesAssumption, NoneAssumption DEF LoginInv, AddrLeased, Owns
      <4> QED
        BY <2>1, <3>1, <4>1, <4>2 DEF BoundInv, BindingFollowsTraffic, PacketBound, Bound
    <3>2. CASE ~(cpu[c].ver = "portal" /\ addr[cpu[c].mac] = cpu[c].ip)
      BY <2>1, <3>2 DEF BoundInv, BindingFollowsTraffic
    <3> QED
      BY <3>1, <3>2
  <2> QED
    BY <1>8, <2>1, <2>2, <2>3
<1>10. ASSUME NEW c \in CPU, Download(c) PROVE BoundInv'
  <2>1. PICK i \in IP : Egress(c, i) /\ UNCHANGED <<ctl, env>>
    BY <1>10 DEF Download
  <2> DEFINE j == [Idle EXCEPT !.dir = "out", !.pc = "bypass", !.ip = i, !.arr = now]
  <2>2. cpu' = [cpu EXCEPT ![c] = j] /\ cpu[c].pc = "idle" /\ UNCHANGED <<maps, ctl, addr, heard>>
    BY <2>1 DEF Egress, env
  <2>3. cpu'[c].pc = "bypass" /\ cpu'[c].dir = "out" /\ cpu'[c].ver = "none"
    BY <1>1, <2>2 DEF Idle
  <2> HIDE DEF j
  <2>4. PacketBound(cpu[c])'
    BY <2>3 DEF PacketBound
  <2>5. BindingFollowsTraffic'
    BY <2>2 DEF BoundInv, BindingFollowsTraffic
  <2> QED
    BY <1>8, <2>2, <2>4, <2>5
<1>11. ASSUME NEW c \in CPU, NEW m \in MAC, Upload(c, m) PROVE BoundInv'
  <2>1. PICK i : /\ Ingress(c, m, i) /\ UNCHANGED <<ctl, env>>
                 /\ i = addr[m] \/ addr[m] = None
    BY <1>11 DEF Upload
  <2> DEFINE j == [Idle EXCEPT !.dir = "in", !.pc = "bypass", !.mac = m, !.ip = i,
                               !.arr = now]
  <2>2. cpu' = [cpu EXCEPT ![c] = j] /\ cpu[c].pc = "idle" /\ UNCHANGED <<maps, ctl, addr, heard>>
    BY <2>1 DEF Ingress, env
  <2>3. /\ cpu'[c].pc = "bypass" /\ cpu'[c].dir = "in" /\ cpu'[c].ver = "none"
        /\ cpu'[c].mac = m /\ cpu'[c].ip = i
    BY <1>1, <2>2 DEF Idle
  <2> HIDE DEF j
  <2>4. PacketBound(cpu[c])'
    BY <1>1, <2>1, <2>2, <2>3 DEF PacketBound, PastBinding
  <2>5. BindingFollowsTraffic'
    BY <2>2 DEF BoundInv, BindingFollowsTraffic
  <2> QED
    BY <1>8, <2>2, <2>4, <2>5
<1>12. ASSUME NEW p \in Proc \ {Daemon}, Operator(p) PROVE BoundInv'
  <2>1. UNCHANGED <<mac_ip, ip_mac, cpu, addr, heard>>
    BY <1>12 DEF Operator, Add, Del, MapDel, Bypass, env
  <2>2. \E j : ctl' = [ctl EXCEPT ![p] = j]
    BY <1>12, OperatorFrame
  <2>3. LoginBound'
    BY <1>1, <2>1, <2>2 DEF BoundInv, LoginBound
  <2> QED
    BY <1>1, <1>2, <2>1, <2>3 DEF BoundInv
<1>13. ASSUME NEW p \in Proc, Ctl(p) PROVE BoundInv'
  <2>1. CtlStep(p) /\ UNCHANGED <<cpu, addr, heard>>
    BY <1>13 DEF Ctl, env
  <2>2. UNCHANGED <<mac_ip, ip_mac>> /\ \A q \in Proc \ {p} : ctl'[q] = ctl[q]
    BY <1>1, <2>1, CtlFrame
  <2>3. LoginBound'
    <3>1. CASE p = Daemon
      BY <2>1, <3>1, LoginFinds DEF LoginBound
    <3>2. CASE p # Daemon
      BY <2>2, <3>2 DEF BoundInv, LoginBound
    <3> QED
      BY <3>1, <3>2
  <2> QED
    BY <1>1, <1>2, <2>1, <2>2, <2>3 DEF BoundInv
<1>14. ASSUME NEW p \in Proc, Wait(p) PROVE BoundInv'
  <2>1. ctl' = [ctl EXCEPT ![p] = NoCommand] /\ UNCHANGED <<mac_ip, ip_mac, cpu, addr, heard>>
    BY <1>14 DEF Wait, Reap
  <2>2. NoCommand.pc = "idle" /\ NoCommand.rc = "none"
    BY DEF NoCommand
  <2>3. LoginBound'
    BY <1>1, <2>1, <2>2 DEF BoundInv, LoginBound
  <2> QED
    BY <1>1, <1>2, <2>1, <2>3 DEF BoundInv
<1>15. \A p \in Proc : Operator(p) => p # Daemon
  BY DEF Operator
<1> QED
  BY <1>4, <1>5, <1>6, <1>7, <1>9, <1>10, <1>11, <1>12, <1>13, <1>14, <1>15 DEF Next

LEMMA BoundInit == Init => BoundInv
<1> SUFFICES ASSUME Init PROVE BoundInv
  OBVIOUS
<1>1. LoginInv /\ BothWays /\ BindingFollowsTraffic
  BY LoginInit DEF Init, MapsInit, BothWays, BindingFollowsTraffic
<1>2. PacketBound(Idle)
  BY DEF PacketBound, Idle, PastBinding
<1>3. PacketsBound
  BY <1>2 DEF Init, DatapathInit, PacketsBound
<1>4. LoginBound
  BY DEF Init, CtlInit, LoginBound, NoCommand
<1> QED
  BY <1>1, <1>3, <1>4 DEF BoundInv

\* If no address is ever given to two devices, every device that has reached the
\* portal is bound both ways to the address it holds, however it roams, as long
\* as one CPU runs the programs and the maps do not fill.
THEOREM BindingCorrect ==
  ASSUME OwnAddresses, OneCPU, RoomForBindings
  PROVE  Spec => []BindingFollowsTraffic
<1>1. BoundInv /\ [Next]_vars => BoundInv'
  BY BoundNext
<1>2. BoundInv => BindingFollowsTraffic
  BY DEF BoundInv
<1> QED
  BY <1>1, <1>2, BoundInit, PTL DEF Spec

\* Under the same conditions no login fails for want of a binding.
THEOREM ResolveCorrect ==
  ASSUME OwnAddresses, OneCPU, RoomForBindings
  PROVE  Spec => []LoginResolves
<1>1. BoundInv /\ [Next]_vars => BoundInv'
  BY BoundNext
<1>2. BoundInv => LoginResolves
  BY DEF BoundInv, LoginBound, LoginResolves
<1> QED
  BY <1>1, <1>2, BoundInit, PTL DEF Spec

-----------------------------------------------------------------------------
(***************************************************************************)
(* The steps of the gateway, as seen from the maps.                        *)
(***************************************************************************)
\* The process has moved on to l and otherwise kept what it knew.
Moved(p, l) ==
  /\ ctl'[p].pc = l
  /\ ctl'[p].mac = ctl[p].mac /\ ctl'[p].ip = ctl[p].ip /\ ctl'[p].sess = ctl[p].sess

LEMMA GotoMoves ==
  ASSUME CtlTypeOK, NEW p \in Proc, NEW l, CtlGoto(p, l)
  PROVE  Moved(p, l) /\ ctl'[p].cmd = ctl[p].cmd /\ ctl'[p].exp = ctl[p].exp
BY DEF CtlTypeOK, CtlGoto, Moved, Invocation

LEMMA ExitMoves ==
  ASSUME CtlTypeOK, NEW p \in Proc, NEW rc, Exit(p, rc)
  PROVE  /\ Moved(p, "exit") /\ ctl'[p].cmd = ctl[p].cmd /\ ctl'[p].exp = ctl[p].exp
         /\ ctl'[p].rc = rc
<1>1. ctl \in [Proc -> Invocation] /\ ctl[p] \in Invocation
  BY DEF CtlTypeOK
<1>2. ctl' = [ctl EXCEPT ![p].pc = "exit", ![p].rc = rc]
  BY DEF Exit
<1> QED
  BY <1>1, <1>2 DEF Moved, Invocation

\* Where each step of a command leads.
LEMMA AddMoves ==
  ASSUME CtlTypeOK, NEW p \in Proc
  PROVE  /\ ResolveMac(p) =>
              \/ Moved(p, "exit") /\ ctl'[p].rc = "FAILED"
              \/ /\ ip_mac[ctl[p].ip] # None
                 /\ ctl'[p].pc = IF ctl[p].cmd = "add_ip" THEN "clock" ELSE "peek"
                 /\ ctl'[p].mac = ip_mac[ctl[p].ip] /\ ctl'[p].sess = ctl[p].sess
                 /\ ctl[p].cmd = "add_ip" => ctl'[p].ip = ctl[p].ip
         /\ ResolveIp(p) =>
              \/ Moved(p, "exit") /\ ctl'[p].rc = "FAILED"
              \/ /\ mac_ip[ctl[p].mac] # None
                 /\ ctl'[p].pc = "clock" /\ ctl'[p].ip = mac_ip[ctl[p].mac]
                 /\ ctl'[p].mac = ctl[p].mac /\ ctl'[p].sess = ctl[p].sess
         /\ ReadClock(p) =>
              /\ ctl'[p].pc = "client" /\ ctl'[p].mac = ctl[p].mac /\ ctl'[p].ip = ctl[p].ip
              /\ ctl'[p].sess = [ctl[p].sess EXCEPT !.expiry = ExpiryAt(ctl[p].exp)]
         /\ ResolveMac(p) \/ ResolveIp(p) \/ ReadClock(p) =>
              ctl'[p].cmd = ctl[p].cmd /\ ctl'[p].exp = ctl[p].exp
         /\ InsertClient(p) => Moved(p, "counter") \/ (UNCHANGED clients /\ Moved(p, "exit"))
         /\ InsertCounter(p) =>
              Moved(p, "rate") \/ (UNCHANGED counters /\ Moved(p, "rollback"))
         /\ Rollback(p) \/ InsertRate(p) => Moved(p, "exit")
         /\ InsertClient(p) \/ InsertCounter(p) \/ Rollback(p) \/ InsertRate(p) =>
              ctl'[p].cmd = ctl[p].cmd /\ ctl'[p].exp = ctl[p].exp
<1>1. ctl \in [Proc -> Invocation] /\ ctl[p] \in Invocation
  BY DEF CtlTypeOK
<1>2. ASSUME ResolveMac(p)
      PROVE  /\ ctl'[p].cmd = ctl[p].cmd /\ ctl'[p].exp = ctl[p].exp
             /\ \/ Moved(p, "exit") /\ ctl'[p].rc = "FAILED"
                \/ /\ ip_mac[ctl[p].ip] # None
                   /\ ctl'[p].pc = IF ctl[p].cmd = "add_ip" THEN "clock" ELSE "peek"
                   /\ ctl'[p].mac = ip_mac[ctl[p].ip] /\ ctl'[p].sess = ctl[p].sess
                   /\ ctl[p].cmd = "add_ip" => ctl'[p].ip = ctl[p].ip
  <2>1. CASE Exit(p, "FAILED")
    BY <2>1, ExitMoves
  <2> DEFINE l == IF ctl[p].cmd = "add_ip" THEN "clock" ELSE "peek"
             i == IF ctl[p].cmd = "add_ip" THEN ctl[p].ip ELSE None
             m == ip_mac[ctl[p].ip]
  <2>2. Exit(p, "FAILED") \/ (m # None /\ ctl' = [ctl EXCEPT ![p].mac = m, ![p].pc = l, ![p].ip = i])
    BY <1>1, <1>2 DEF ResolveMac
  <2>3. ctl[p].cmd = "add_ip" => i = ctl[p].ip
    OBVIOUS
  <2> HIDE DEF i, l, m
  <2>4. CASE m # None /\ ctl' = [ctl EXCEPT ![p].mac = m, ![p].pc = l, ![p].ip = i]
    <3>1. /\ ctl'[p].cmd = ctl[p].cmd /\ ctl'[p].exp = ctl[p].exp
          /\ ctl'[p].pc = l /\ ctl'[p].mac = m /\ ctl'[p].sess = ctl[p].sess /\ ctl'[p].ip = i
      BY <1>1, <2>4 DEF Invocation
    <3> QED
      BY <2>3, <2>4, <3>1 DEF l, m
  <2> QED
    BY <2>1, <2>2, <2>4
<1>3. ASSUME ResolveIp(p)
      PROVE  /\ ctl'[p].cmd = ctl[p].cmd /\ ctl'[p].exp = ctl[p].exp
             /\ \/ Moved(p, "exit") /\ ctl'[p].rc = "FAILED"
                \/ /\ mac_ip[ctl[p].mac] # None
                   /\ ctl'[p].pc = "clock" /\ ctl'[p].ip = mac_ip[ctl[p].mac]
                   /\ ctl'[p].mac = ctl[p].mac /\ ctl'[p].sess = ctl[p].sess
  <2>1. CASE Exit(p, "FAILED")
    BY <2>1, ExitMoves
  <2>2. ASSUME NEW i, ctl' = [ctl EXCEPT ![p].ip = i, ![p].pc = "clock"]
        PROVE  /\ ctl'[p].cmd = ctl[p].cmd /\ ctl'[p].exp = ctl[p].exp
               /\ ctl'[p].pc = "clock" /\ ctl'[p].ip = i
               /\ ctl'[p].mac = ctl[p].mac /\ ctl'[p].sess = ctl[p].sess
    BY <1>1, <2>2 DEF Invocation
  <2> QED
    BY <1>3, <2>1, <2>2 DEF ResolveIp
<1>4. ASSUME ReadClock(p)
      PROVE  /\ ctl'[p].cmd = ctl[p].cmd /\ ctl'[p].exp = ctl[p].exp
             /\ ctl'[p].pc = "client" /\ ctl'[p].mac = ctl[p].mac /\ ctl'[p].ip = ctl[p].ip
             /\ ctl'[p].sess = [ctl[p].sess EXCEPT !.expiry = ExpiryAt(ctl[p].exp)]
  <2>1. PICK e : e = ExpiryAt(ctl[p].exp)
    OBVIOUS
  <2>2. ctl' = [ctl EXCEPT ![p].pc = "client", ![p].sess.expiry = e]
    BY <1>4, <2>1 DEF ReadClock
  <2>3. /\ ctl'[p].cmd = ctl[p].cmd /\ ctl'[p].exp = ctl[p].exp
        /\ ctl'[p].pc = "client" /\ ctl'[p].mac = ctl[p].mac /\ ctl'[p].ip = ctl[p].ip
        /\ ctl'[p].sess = [ctl[p].sess EXCEPT !.expiry = e]
    BY <1>1, <2>2 DEF Invocation
  <2> QED
    BY <2>1, <2>3
<1>5. ASSUME InsertClient(p) \/ InsertCounter(p) \/ Rollback(p) \/ InsertRate(p)
      PROVE  /\ ctl'[p].cmd = ctl[p].cmd /\ ctl'[p].exp = ctl[p].exp
             /\ InsertClient(p) => Moved(p, "counter") \/ (UNCHANGED clients /\ Moved(p, "exit"))
             /\ InsertCounter(p) =>
                  Moved(p, "rate") \/ (UNCHANGED counters /\ Moved(p, "rollback"))
             /\ Rollback(p) \/ InsertRate(p) => Moved(p, "exit")
  BY <1>5, GotoMoves, ExitMoves DEF InsertClient, InsertCounter, Rollback, InsertRate
<1> QED
  BY <1>2, <1>3, <1>4, <1>5

LEMMA DelMoves ==
  ASSUME CtlTypeOK, NEW p \in Proc
  PROVE  /\ PeekClient(p) =>
              /\ ctl'[p].mac = ctl[p].mac /\ ctl'[p].sess = clients[ctl[p].mac]
              /\ ctl'[p].pc = IF ctl'[p].sess = None THEN "unclient" ELSE "unrate"
         /\ CurrentIp(p) =>
              \/ mac_ip[ctl[p].mac] = None /\ Moved(p, "exit") /\ ctl'[p].rc = "SUCCESS"
              \/ /\ mac_ip[ctl[p].mac] # None
                 /\ ctl'[p].pc = "uncounter" /\ ctl'[p].ip = mac_ip[ctl[p].mac]
                 /\ ctl'[p].mac = ctl[p].mac /\ ctl'[p].sess = ctl[p].sess
         /\ DeleteRate(p) => Moved(p, "unclient")
         /\ DeleteClient(p) => Moved(p, "unbind")
         /\ DeleteCounter(p) \/ MapDelStep(p) \/ BypassStep(p) => Moved(p, "exit")
         /\ (PeekClient(p) \/ CurrentIp(p) \/ DeleteRate(p) \/ DeleteClient(p)
             \/ DeleteCounter(p) \/ MapDelStep(p) \/ BypassStep(p)) =>
              ctl'[p].cmd = ctl[p].cmd /\ ctl'[p].exp = ctl[p].exp
<1>1. ctl \in [Proc -> Invocation] /\ ctl[p] \in Invocation
  BY DEF CtlTypeOK
<1>2. ASSUME PeekClient(p)
      PROVE  /\ ctl'[p].mac = ctl[p].mac /\ ctl'[p].sess = clients[ctl[p].mac]
             /\ ctl'[p].pc = IF ctl'[p].sess = None THEN "unclient" ELSE "unrate"
             /\ ctl'[p].cmd = ctl[p].cmd /\ ctl'[p].exp = ctl[p].exp
  <2>1. PICK s : s = clients[ctl[p].mac]
    OBVIOUS
  <2>2. PICK l : l = IF s = None THEN "unclient" ELSE "unrate"
    OBVIOUS
  <2>3. ctl' = [ctl EXCEPT ![p].pc = l, ![p].sess = s]
    BY <1>2, <2>1, <2>2 DEF PeekClient
  <2>4. /\ ctl'[p].mac = ctl[p].mac /\ ctl'[p].sess = s /\ ctl'[p].pc = l
        /\ ctl'[p].cmd = ctl[p].cmd /\ ctl'[p].exp = ctl[p].exp
    BY <1>1, <2>3 DEF Invocation
  <2> QED
    BY <2>1, <2>2, <2>4
<1>3. ASSUME CurrentIp(p)
      PROVE  /\ ctl'[p].cmd = ctl[p].cmd /\ ctl'[p].exp = ctl[p].exp
             /\ \/ mac_ip[ctl[p].mac] = None /\ Moved(p, "exit") /\ ctl'[p].rc = "SUCCESS"
                \/ /\ mac_ip[ctl[p].mac] # None
                   /\ ctl'[p].pc = "uncounter" /\ ctl'[p].ip = mac_ip[ctl[p].mac]
                   /\ ctl'[p].mac = ctl[p].mac /\ ctl'[p].sess = ctl[p].sess
  <2>1. CASE Exit(p, "SUCCESS") /\ mac_ip[ctl[p].mac] = None
    BY <2>1, ExitMoves
  <2>2. ASSUME NEW i, ctl' = [ctl EXCEPT ![p].ip = i, ![p].pc = "uncounter"]
        PROVE  /\ ctl'[p].cmd = ctl[p].cmd /\ ctl'[p].exp = ctl[p].exp
               /\ ctl'[p].pc = "uncounter" /\ ctl'[p].ip = i
               /\ ctl'[p].mac = ctl[p].mac /\ ctl'[p].sess = ctl[p].sess
    BY <1>1, <2>2 DEF Invocation
  <2> QED
    BY <1>3, <2>1, <2>2 DEF CurrentIp
<1>4. /\ DeleteRate(p) => CtlGoto(p, "unclient")
      /\ DeleteClient(p) => CtlGoto(p, "unbind")
      /\ DeleteCounter(p) \/ MapDelStep(p) \/ BypassStep(p) =>
           Exit(p, "FAILED") \/ Exit(p, "SUCCESS")
  BY DEF DeleteRate, DeleteClient, DeleteCounter, MapDelStep, BypassStep
<1>5. /\ DeleteRate(p) => Moved(p, "unclient") /\ ctl'[p].cmd = ctl[p].cmd /\ ctl'[p].exp = ctl[p].exp
      /\ DeleteClient(p) => Moved(p, "unbind") /\ ctl'[p].cmd = ctl[p].cmd /\ ctl'[p].exp = ctl[p].exp
      /\ DeleteCounter(p) \/ MapDelStep(p) \/ BypassStep(p) =>
           Moved(p, "exit") /\ ctl'[p].cmd = ctl[p].cmd /\ ctl'[p].exp = ctl[p].exp
  BY <1>4, GotoMoves, ExitMoves
<1> QED
  BY <1>2, <1>3, <1>5

\* An invocation that has just been started, by a login or by an operator.
Fresh(j) ==
  /\ j.pc \in {"resolve", "clock", "peek", "single"}
  /\ j.cmd \in Commands \cup {"add_ip"}
  /\ j.pc = "clock" => j.cmd = "add_both"
  /\ j.pc = "peek" => j.cmd = "del_mac"
  /\ j.pc = "resolve" => j.cmd \in {"add_ip", "add_mac", "del_ip"}
  /\ j.pc = "single" => j.cmd \notin AddCommand \cup DelCommand
  /\ j.cmd = "del_ip" => j.ip # Unspecified
  /\ j.cmd \in AddCommand =>
       /\ j.exp \in Timeout /\ j.sess.expiry = 0 /\ j.sess.lim \in Limit
       /\ \E m \in MAC, i \in IP :
            /\ Owns(m, i) /\ j.sess.rate = RateIdFor(j.cmd, m, i, j.sess.lim)
            /\ j.cmd # "add_ip" => j.mac = m
            /\ j.cmd # "add_mac" => j.ip = i

LEMMA AddIsFresh ==
  ASSUME CtlTypeOK, NEW p \in Proc, NEW cmd \in Commands \cup {"add_ip"},
         NEW m \in MAC, NEW i \in IP, Owns(m, i), NEW exp \in Timeout, NEW lim \in Limit,
         Add(p, cmd, m, i, exp, lim)
  PROVE  Fresh(ctl'[p]) /\ ctl'[p].cmd = cmd /\ \A q \in Proc \ {p} : ctl'[q] = ctl[q]
<1> DEFINE s == [expiry |-> 0, rate |-> RateIdFor(cmd, m, i, lim), lim |-> lim]
           j == [NoCommand EXCEPT
                   !.pc = IF cmd = "add_both" THEN "clock" ELSE "resolve",
                   !.cmd = cmd,
                   !.mac = IF cmd = "add_ip" THEN None ELSE m,
                   !.ip = IF cmd = "add_mac" THEN None ELSE i,
                   !.exp = exp,
                   !.sess = s]
<1>1. ctl' = [ctl EXCEPT ![p] = j] /\ cmd \in AddCommand
  BY DEF Add
<1>2. s.expiry = 0 /\ s.rate = RateIdFor(cmd, m, i, lim) /\ s.lim = lim
  OBVIOUS
<1> HIDE DEF s
<1>3. /\ j.pc = IF cmd = "add_both" THEN "clock" ELSE "resolve"
      /\ j.cmd = cmd /\ j.sess = s /\ j.exp = exp
      /\ cmd # "add_ip" => j.mac = m
      /\ cmd # "add_mac" => j.ip = i
  BY DEF NoCommand
<1> HIDE DEF j
<1>4. Fresh(j)
  <2>1. cmd \in {"add_both", "add_mac", "add_ip"}
    BY <1>1 DEF AddCommand
  <2>2. j.cmd # "del_ip" /\ j.pc \in {"clock", "resolve"}
    BY <1>3, <2>1
  <2>3. j.pc = "clock" => j.cmd = "add_both"
    BY <1>3
  <2>4. j.sess.rate = RateIdFor(j.cmd, m, i, j.sess.lim)
    BY <1>2, <1>3
  <2> QED
    BY <1>2, <1>3, <2>1, <2>2, <2>3, <2>4 DEF Fresh
<1>5. ctl \in [Proc -> Invocation]
  BY DEF CtlTypeOK
<1> QED
  BY <1>1, <1>3, <1>4, <1>5

LEMMA OperatorIsFresh ==
  ASSUME CtlTypeOK, NEW p \in Proc, Operator(p)
  PROVE  /\ Fresh(ctl'[p]) /\ ctl'[p].cmd \in Commands
         /\ \A q \in Proc \ {p} : ctl'[q] = ctl[q]
<1>1. ctl \in [Proc -> Invocation]
  BY DEF CtlTypeOK
<1>2. PICK cmd \in Commands :
        \/ \E m \in MAC, i \in IP \ {Unspecified} : OperatorFor(p, cmd, m, i)
        \/ \E i \in IP \ {Unspecified} : Bypass(p, cmd, i)
  BY OperatorCases
<1>3. ASSUME NEW m \in MAC, NEW i \in IP \ {Unspecified}, <<m, i>> \in Leases,
             NEW exp \in Timeout, NEW lim \in Limit, Add(p, cmd, m, i, exp, lim)
      PROVE  /\ Fresh(ctl'[p]) /\ ctl'[p].cmd \in Commands
             /\ \A q \in Proc \ {p} : ctl'[q] = ctl[q]
  BY <1>3, AddIsFresh DEF Owns
<1>4. ASSUME NEW j, ctl' = [ctl EXCEPT ![p] = j], j.cmd = cmd, cmd \notin AddCommand,
             \/ j.pc = "single" /\ cmd \notin DelCommand
             \/ j.pc = "peek" /\ cmd = "del_mac"
             \/ j.pc = "resolve" /\ cmd = "del_ip" /\ j.ip # Unspecified
      PROVE  /\ Fresh(ctl'[p]) /\ ctl'[p].cmd \in Commands
             /\ \A q \in Proc \ {p} : ctl'[q] = ctl[q]
  <2>1. ctl'[p] = j /\ \A q \in Proc \ {p} : ctl'[q] = ctl[q]
    BY <1>1, <1>4
  <2>2. Fresh(j)
    BY <1>4 DEF Fresh, DelCommand
  <2> QED
    BY <1>4, <2>1, <2>2
<1>5. ASSUME NEW m, NEW i \in IP \ {Unspecified}, Del(p, cmd, m, i)
      PROVE  /\ Fresh(ctl'[p]) /\ ctl'[p].cmd \in Commands
             /\ \A q \in Proc \ {p} : ctl'[q] = ctl[q]
  <2> DEFINE j == [NoCommand EXCEPT
                     !.pc = IF cmd = "del_ip" THEN "resolve" ELSE "peek",
                     !.cmd = cmd,
                     !.mac = IF cmd = "del_ip" THEN None ELSE m,
                     !.ip = IF cmd = "del_ip" THEN i ELSE None]
  <2>1. /\ j.pc = IF cmd = "del_ip" THEN "resolve" ELSE "peek"
        /\ j.cmd = cmd
        /\ cmd = "del_ip" => j.ip = i
    BY DEF NoCommand
  <2>2. ctl' = [ctl EXCEPT ![p] = j] /\ cmd \in {"del_mac", "del_ip"}
    BY <1>5 DEF Del, DelCommand
  <2> HIDE DEF j
  <2> QED
    BY <1>4, <1>5, <2>1, <2>2 DEF AddCommand
<1>6. ASSUME NEW m, cmd = "map_del", MapDel(p, m)
      PROVE  /\ Fresh(ctl'[p]) /\ ctl'[p].cmd \in Commands
             /\ \A q \in Proc \ {p} : ctl'[q] = ctl[q]
  <2> DEFINE j == [NoCommand EXCEPT !.pc = "single", !.cmd = "map_del", !.mac = m]
  <2>1. j.pc = "single" /\ j.cmd = "map_del"
    BY DEF NoCommand
  <2>2. ctl' = [ctl EXCEPT ![p] = j]
    BY <1>6 DEF MapDel
  <2> HIDE DEF j
  <2> QED
    BY <1>4, <1>6, <2>1, <2>2 DEF AddCommand, DelCommand
<1>7. ASSUME NEW i, Bypass(p, cmd, i)
      PROVE  /\ Fresh(ctl'[p]) /\ ctl'[p].cmd \in Commands
             /\ \A q \in Proc \ {p} : ctl'[q] = ctl[q]
  <2> DEFINE j == [NoCommand EXCEPT !.pc = "single", !.cmd = cmd, !.ip = i]
  <2>1. j.pc = "single" /\ j.cmd = cmd
    BY DEF NoCommand
  <2>2. ctl' = [ctl EXCEPT ![p] = j] /\ cmd \in {"bypass_add", "bypass_del"}
    BY <1>7 DEF Bypass
  <2> HIDE DEF j
  <2> QED
    BY <1>4, <2>1, <2>2 DEF AddCommand, DelCommand
<1> QED
  BY <1>2, <1>3, <1>5, <1>6, <1>7 DEF OperatorFor

\* The kinds of step that matter to the maps: the LAN, the clock or a packet that
\* arrives or leaves; a program; a command that starts or is reaped; a command.
Elsewhere ==
  /\ UNCHANGED <<maps, ctl>>
  /\ \A c \in CPU : \/ cpu'[c] = cpu[c]
                    \/ /\ cpu[c].pc \in {"idle", "done"}
                       /\ cpu'[c].pc \in {"idle", "bypass"} /\ cpu'[c].sess = None
Programs == UNCHANGED ctl /\ \E c \in CPU : ProgramStep(c)
Only(p) == UNCHANGED cpu /\ \A q \in Proc \ {p} : ctl'[q] = ctl[q]
Turnover(p) ==
  /\ UNCHANGED maps /\ Only(p) /\ ctl[p].pc \in {"idle", "exit"}
  /\ Fresh(ctl'[p]) \/ ctl'[p] = NoCommand
  /\ p = Daemon \/ ctl'[p].cmd \in Commands \cup {"none"}
Commanded(p) == UNCHANGED <<mac_ip, ip_mac>> /\ Only(p) /\ CtlStep(p)

LEMMA SourceKinds ==
  ASSUME SourceInv, [Next]_vars
  PROVE  Elsewhere \/ Programs \/ \E p \in Proc : Turnover(p) \/ Commanded(p)
<1>1. /\ TypeOK /\ DatapathTypeOK /\ CtlTypeOK /\ EnvTypeOK
      /\ cpu \in [CPU -> Program] /\ ctl \in [Proc -> Invocation]
  BY DEF SourceInv, TypeOK, DatapathTypeOK, CtlTypeOK
<1>2. ASSUME UNCHANGED <<maps, ctl, cpu>> PROVE Elsewhere
  BY <1>2 DEF Elsewhere
<1>3. CASE Tick \/ UNCHANGED vars
  BY <1>2, <1>3 DEF Tick, vars
<1>4. ASSUME NEW m \in MAC, Release(m) \/ \E i \in IP : Lease(m, i) PROVE Elsewhere
  BY <1>2, <1>4 DEF Release, Lease
<1>5. ASSUME NEW m \in MAC, Login(m) PROVE \E p \in Proc : Turnover(p)
  <2>1. PICK exp \in Timeout, lim \in Limit : Add(Daemon, "add_ip", m, addr[m], exp, lim)
    BY <1>5 DEF Login
  <2>2. /\ Daemon \in Proc /\ m \in heard /\ UNCHANGED <<maps, cpu>>
    BY <1>5, <2>1 DEF Login, Add
  <2>3. Owns(m, addr[m]) /\ addr[m] \in IP
    BY <1>1, <2>2, LeasesAssumption DEF SourceInv, AddrLeased, EnvTypeOK, Owns
  <2>4. Fresh(ctl'[Daemon]) /\ \A q \in Proc \ {Daemon} : ctl'[q] = ctl[q]
    BY <1>1, <2>1, <2>2, <2>3, AddIsFresh
  <2>5. ctl[Daemon].pc = "idle"
    BY <2>1 DEF Add
  <2> QED
    BY <2>2, <2>4, <2>5 DEF Turnover, Only
<1>6. ASSUME NEW c \in CPU, Run(c) PROVE Programs
  BY <1>6 DEF Run, Programs
<1>7. ASSUME NEW c \in CPU, NEW j, cpu' = [cpu EXCEPT ![c] = j],
             cpu[c].pc \in {"idle", "done"},
             j.pc \in {"idle", "bypass"}, j.sess = None, UNCHANGED <<maps, ctl>>
      PROVE  Elsewhere
  BY <1>1, <1>7 DEF Elsewhere
<1>8. ASSUME NEW c \in CPU, Deliver(c) PROVE Elsewhere
  <2>1. Idle.pc = "idle" /\ Idle.sess = None
    BY DEF Idle
  <2> QED
    BY <1>7, <1>8, <2>1 DEF Deliver, Return
<1>9. ASSUME NEW c \in CPU, Download(c) PROVE Elsewhere
  <2>1. PICK i \in IP : Egress(c, i) /\ UNCHANGED <<ctl, env>>
    BY <1>9 DEF Download
  <2> DEFINE j == [Idle EXCEPT !.dir = "out", !.pc = "bypass", !.ip = i, !.arr = now]
  <2>2. j.pc = "bypass" /\ j.sess = None
    BY DEF Idle
  <2>3. cpu' = [cpu EXCEPT ![c] = j] /\ UNCHANGED <<maps, ctl>> /\ cpu[c].pc = "idle"
    BY <2>1 DEF Egress
  <2> HIDE DEF j
  <2> QED
    BY <1>7, <2>2, <2>3
<1>10. ASSUME NEW c \in CPU, NEW m \in MAC, Upload(c, m) PROVE Elsewhere
  <2>1. PICK i : Ingress(c, m, i) /\ UNCHANGED <<ctl, env>>
    BY <1>10 DEF Upload
  <2> DEFINE j == [Idle EXCEPT !.dir = "in", !.pc = "bypass", !.mac = m, !.ip = i,
                               !.arr = now]
  <2>2. j.pc = "bypass" /\ j.sess = None
    BY DEF Idle
  <2>3. cpu' = [cpu EXCEPT ![c] = j] /\ UNCHANGED <<maps, ctl>> /\ cpu[c].pc = "idle"
    BY <2>1 DEF Ingress
  <2> HIDE DEF j
  <2> QED
    BY <1>7, <2>2, <2>3
<1>11. ASSUME NEW p \in Proc, Operator(p) PROVE Turnover(p)
  <2>1. UNCHANGED <<maps, cpu>> /\ ctl[p].pc = "idle"
    BY <1>11 DEF Operator, Add, Del, MapDel, Bypass
  <2> QED
    BY <1>1, <1>11, <2>1, OperatorIsFresh, Zenon DEF Turnover, Only
<1>12. ASSUME NEW p \in Proc, Ctl(p) PROVE Commanded(p)
  BY <1>1, <1>12, CtlFrame DEF Ctl, Commanded, Only
<1>13. ASSUME NEW p \in Proc, Wait(p) PROVE Turnover(p)
  <2>1. /\ ctl' = [ctl EXCEPT ![p] = NoCommand] /\ ctl[p].pc = "exit"
        /\ UNCHANGED <<maps, cpu>>
    BY <1>13 DEF Wait, Reap
  <2>2. NoCommand.cmd = "none"
    BY DEF NoCommand
  <2> QED
    BY <1>1, <2>1, <2>2 DEF Turnover, Only
<1> QED
  BY <1>3, <1>4, <1>5, <1>6, <1>8, <1>9, <1>10, <1>11, <1>12, <1>13 DEF Next

LEMMA KindsOfStep ==
  ASSUME LoginInv, [Next]_vars
  PROVE  Elsewhere \/ Programs \/ \E p \in Proc : Turnover(p) \/ Commanded(p)
BY SourceKinds DEF LoginInv, SourceInv

\* All that a program does to sessions and counters is to end and to mark them.
LEMMA ProgramEffect ==
  ASSUME TypeOK, NEW c \in CPU, ProgramStep(c)
  PROVE  /\ UNCHANGED <<now, rates>>
         /\ UNCHANGED clients \/ cpu[c].pc = "expire"
         /\ \A m \in MAC : clients'[m] \in {clients[m], None}
         /\ \A i \in IP : /\ counters'[i] = None <=> counters[i] = None
                          /\ counters'[i] = "AUTH_OK" => counters[i] = "AUTH_OK"
<1>1. /\ clients \in [MAC -> Session \cup {None}]
      /\ counters \in [IP -> CounterState \cup {None}]
  BY DEF TypeOK, MapsTypeOK
<1>2. StaticBypass(c) \/ BindLookup(c) \/ BindForward(c) \/ BindReverse(c) \/ PortalTraffic(c)
        => UNCHANGED <<now, rates, clients, counters>>
  BY DEF StaticBypass, BindLookup, BindForward, BindReverse, PortalTraffic
<1>3. Resolve(c) \/ AuthLookup(c) \/ ExpiryCheck(c) \/ Shape(c) \/ Account(c) \/ PreAuth(c)
        => UNCHANGED <<now, rates, clients, counters>>
  BY DEF Resolve, AuthLookup, ExpiryCheck, Shape, Account, PreAuth
<1>4. CASE UNCHANGED <<now, rates, clients, counters>>
  BY <1>4
<1>5. CASE ExpireDelete(c)
  BY <1>1, <1>5 DEF ExpireDelete
<1>6. CASE ExpireMark(c)
  BY <1>1, <1>6, NoneAssumption DEF ExpireMark
<1> QED
  BY <1>2, <1>3, <1>4, <1>5, <1>6 DEF ProgramStep

\* The two steps that do: the counters change in the second only.
LEMMA ExpirySteps ==
  ASSUME NEW c \in CPU, ProgramStep(c)
  PROVE  /\ cpu[c].pc = "expire" => ExpireDelete(c)
         /\ cpu[c].pc = "mark" => ExpireMark(c)
<1>1. StaticBypass(c) \/ BindLookup(c) \/ BindForward(c) \/ BindReverse(c)
        \/ PortalTraffic(c) \/ Resolve(c) => cpu[c].pc \notin {"expire", "mark"}
  BY DEF StaticBypass, BindLookup, BindForward, BindReverse, PortalTraffic, Resolve
<1>2. AuthLookup(c) \/ ExpiryCheck(c) \/ Shape(c) \/ Account(c) \/ PreAuth(c)
        => cpu[c].pc \notin {"expire", "mark"}
  BY DEF AuthLookup, ExpiryCheck, Shape, Account, PreAuth
<1>3. (ExpireDelete(c) => cpu[c].pc # "mark") /\ (ExpireMark(c) => cpu[c].pc # "expire")
  BY DEF ExpireDelete, ExpireMark
<1> QED
  BY <1>1, <1>2, <1>3 DEF ProgramStep

LEMMA CountersKept ==
  ASSUME NEW c \in CPU, ProgramStep(c), cpu[c].pc # "mark"
  PROVE  UNCHANGED counters
<1>1. StaticBypass(c) \/ BindLookup(c) \/ BindForward(c) \/ BindReverse(c)
        \/ PortalTraffic(c) \/ Resolve(c) => UNCHANGED counters
  BY DEF StaticBypass, BindLookup, BindForward, BindReverse, PortalTraffic, Resolve
<1>2. AuthLookup(c) \/ ExpiryCheck(c) \/ ExpireDelete(c) \/ Shape(c) \/ Account(c)
        \/ PreAuth(c) => UNCHANGED counters
  BY DEF AuthLookup, ExpiryCheck, ExpireDelete, Shape, Account, PreAuth
<1>3. ~ExpireMark(c)
  BY DEF ExpireMark
<1> QED
  BY <1>1, <1>2, <1>3 DEF ProgramStep

\* Where a program comes to write the reverse binding or to expire a session,
\* and where it has its session from.
LEMMA ProgramMoves ==
  ASSUME DatapathTypeOK, NEW c \in CPU, ProgramStep(c)
  PROVE  /\ cpu'[c].pc = "rev" => BindForward(c) /\ cpu'[c].mac = cpu[c].mac
         /\ cpu'[c].pc = "expire" => cpu[c].pc = "expiry" /\ Expired(cpu[c].sess)
         /\ cpu'[c].pc = "mark" => cpu[c].pc = "expire"
         /\ \/ cpu'[c].sess = cpu[c].sess
            \/ cpu[c].mac \in MAC /\ cpu'[c].sess = clients[cpu[c].mac] /\ cpu'[c].sess # None
<1>1. cpu \in [CPU -> Program] /\ cpu[c] \in Program /\ ProgramOK(cpu[c])
  BY DEF DatapathTypeOK
<1>2. \A l : Goto(c, l) =>
        cpu'[c].pc = l /\ cpu'[c].mac = cpu[c].mac /\ cpu'[c].sess = cpu[c].sess
  BY <1>1 DEF Goto, Program
<1>3. \A v : Decide(c, v) => cpu'[c].pc = "done" /\ cpu'[c].sess = cpu[c].sess
  BY <1>1 DEF Decide, Program
<1>4. CASE StaticBypass(c) \/ BindLookup(c) \/ PortalTraffic(c) \/ Shape(c)
  BY <1>2, <1>3, <1>4 DEF StaticBypass, BindLookup, PortalTraffic, Shape
<1>5. CASE BindForward(c) \/ BindReverse(c)
  BY <1>2, <1>5 DEF BindForward, BindReverse
<1>6. CASE ExpiryCheck(c)
  BY <1>2, <1>6 DEF ExpiryCheck
<1>7. CASE ExpireDelete(c)
  BY <1>2, <1>7 DEF ExpireDelete
<1>8. CASE ExpireMark(c) \/ Account(c) \/ PreAuth(c)
  BY <1>3, <1>8 DEF ExpireMark, Account, PreAuth
<1>9. CASE Resolve(c)
  <2>1. ASSUME NEW m, cpu' = [cpu EXCEPT ![c].pc = "auth", ![c].mac = m]
        PROVE  cpu'[c].pc = "auth" /\ cpu'[c].sess = cpu[c].sess
    BY <1>1, <2>1 DEF Program
  <2> QED
    BY <1>2, <1>9, <2>1 DEF Resolve
<1>10. CASE AuthLookup(c)
  <2>1. ASSUME NEW l, NEW s, cpu' = [cpu EXCEPT ![c].pc = l, ![c].sess = s]
        PROVE  cpu'[c].pc = l /\ cpu'[c].sess = s
    BY <1>1, <2>1 DEF Program
  <2>2. cpu[c].mac \in MAC
    BY <1>1, <1>10 DEF AuthLookup, ProgramOK, NeedsMac
  <2> QED
    BY <1>2, <1>10, <2>1, <2>2 DEF AuthLookup
<1> QED
  BY <1>4, <1>5, <1>6, <1>7, <1>8, <1>9, <1>10 DEF ProgramStep

-----------------------------------------------------------------------------
(***************************************************************************)
(* What a command at work has in hand, if no address is given to two       *)
(* devices: an add works for a device and an address of that device, a del *)
(* removes the counter of an address of its device - or of 0.0.0.0, the    *)
(* address a DHCP request has bound the device to.                         *)
(***************************************************************************)
FlowOK(j) ==
  /\ j.cmd \in Commands \cup {"none", "add_ip"}
  /\ j.pc \in AddPc => /\ j.cmd \in AddCommand
                       /\ Owns(j.mac, j.ip) \/ (j.cmd = "add_mac" /\ j.ip = Unspecified)
  /\ j.pc \in DelPc => j.cmd \in DelCommand
  /\ j.pc = "uncounter" => Owns(j.mac, j.ip) \/ j.ip = Unspecified
  /\ j.pc = "resolve" => /\ j.cmd \in {"add_ip", "add_mac", "del_ip"}
                         /\ j.cmd # "add_mac" => j.ip # Unspecified
  /\ j.pc = "single" => j.cmd \notin AddCommand \cup DelCommand

WorkInv == SourceInv /\ \A p \in Proc : FlowOK(ctl[p])
FlowInv == LoginInv /\ \A p \in Proc : FlowOK(ctl[p])

LEMMA FlowStep ==
  ASSUME WorkInv, NEW p \in Proc, CtlStep(p)
  PROVE  FlowOK(ctl'[p])
<1> DEFINE j == ctl[p]
           k == ctl'[p]
<1>1. CtlTypeOK /\ MapsTypeOK /\ FlowOK(j) /\ InvocationOK(j) /\ BindingsOwn
  BY DEF WorkInv, SourceInv, TypeOK, CtlTypeOK
<1>2. ASSUME NEW l, Moved(p, l), k.cmd = j.cmd,
             \/ l = "exit"
             \/ l \in AddPc /\ j.pc \in AddPc
             \/ l \in DelPc \ {"uncounter"} /\ j.pc \in DelPc
      PROVE  FlowOK(k)
  BY <1>1, <1>2 DEF Moved, FlowOK, AddPc, DelPc
<1>3. CASE ResolveMac(p)
  <2>1. k.cmd = j.cmd /\ j.cmd \in {"add_ip", "del_ip"} /\ j.pc = "resolve"
    BY <1>1, <1>3, AddMoves DEF ResolveMac
  <2>2. CASE Moved(p, "exit")
    BY <1>2, <2>1, <2>2
  <2>3. CASE /\ ip_mac[j.ip] # None
             /\ k.pc = IF j.cmd = "add_ip" THEN "clock" ELSE "peek"
             /\ k.mac = ip_mac[j.ip]
             /\ j.cmd = "add_ip" => k.ip = j.ip
    <3>1. j.ip \in IP \ {Unspecified}
      BY <1>1, <2>1 DEF FlowOK, InvocationOK
    <3>2. Owns(ip_mac[j.ip], j.ip)
      BY <1>1, <2>3, <3>1 DEF BindingsOwn
    <3>3. CASE j.cmd = "add_ip"
      <4>1. k.pc = "clock" /\ k.ip = j.ip /\ Owns(k.mac, k.ip)
        BY <2>1, <2>3, <3>2, <3>3
      <4> QED
        BY <1>1, <2>1, <3>3, <4>1 DEF FlowOK, AddPc, DelPc, AddCommand
    <3>4. CASE j.cmd = "del_ip"
      <4>1. k.pc = "peek"
        BY <2>3, <3>4
      <4> QED
        BY <1>1, <2>1, <3>4, <4>1 DEF FlowOK, AddPc, DelPc, DelCommand
    <3> QED
      BY <2>1, <3>3, <3>4
  <2> QED
    BY <1>1, <1>3, <2>2, <2>3, AddMoves
<1>4. CASE ResolveIp(p)
  <2>1. k.cmd = j.cmd /\ j.cmd = "add_mac" /\ j.pc = "resolve" /\ j.mac \in MAC
    BY <1>1, <1>4, AddMoves DEF ResolveIp, InvocationOK
  <2>2. CASE Moved(p, "exit")
    BY <1>2, <2>1, <2>2
  <2>3. CASE mac_ip[j.mac] # None /\ k.pc = "clock" /\ k.ip = mac_ip[j.mac] /\ k.mac = j.mac
    <3>1. Owns(k.mac, k.ip) \/ k.ip = Unspecified
      BY <1>1, <2>1, <2>3 DEF BindingsOwn
    <3> QED
      BY <1>1, <2>1, <2>3, <3>1 DEF FlowOK, AddPc, DelPc, AddCommand
  <2> QED
    BY <1>1, <1>4, <2>2, <2>3, AddMoves
<1>5. CASE ReadClock(p)
  <2>1. k.cmd = j.cmd /\ k.pc = "client" /\ k.mac = j.mac /\ k.ip = j.ip /\ j.pc \in AddPc
    BY <1>1, <1>5, AddMoves DEF ReadClock, AddPc
  <2> QED
    BY <1>1, <2>1 DEF FlowOK, AddPc, DelPc
<1>6. CASE InsertClient(p) \/ InsertCounter(p) \/ Rollback(p) \/ InsertRate(p)
  <2>1. j.pc \in AddPc /\ k.cmd = j.cmd
    BY <1>1, <1>6, AddMoves DEF InsertClient, InsertCounter, Rollback, InsertRate, AddPc
  <2>2. Moved(p, "exit") \/ Moved(p, "counter") \/ Moved(p, "rate") \/ Moved(p, "rollback")
    BY <1>1, <1>6, AddMoves
  <2> QED
    BY <1>2, <2>1, <2>2 DEF AddPc
<1>7. CASE PeekClient(p)
  <2>1. k.cmd = j.cmd /\ j.pc \in DelPc /\ k.pc \in {"unclient", "unrate"}
    BY <1>1, <1>7, DelMoves DEF PeekClient, DelPc
  <2> QED
    BY <1>1, <2>1 DEF FlowOK, AddPc, DelPc
<1>8. CASE CurrentIp(p)
  <2>1. k.cmd = j.cmd /\ j.pc \in DelPc /\ j.mac \in MAC
    BY <1>1, <1>8, DelMoves DEF CurrentIp, DelPc, InvocationOK
  <2>2. CASE Moved(p, "exit")
    BY <1>2, <2>1, <2>2
  <2>3. CASE mac_ip[j.mac] # None /\ k.pc = "uncounter" /\ k.ip = mac_ip[j.mac] /\ k.mac = j.mac
    <3>1. Owns(k.mac, k.ip) \/ k.ip = Unspecified
      BY <1>1, <2>1, <2>3 DEF BindingsOwn
    <3> QED
      BY <1>1, <2>1, <2>3, <3>1 DEF FlowOK, AddPc, DelPc
  <2> QED
    BY <1>1, <1>8, <2>2, <2>3, DelMoves
<1>9. CASE DeleteRate(p) \/ DeleteClient(p) \/ DeleteCounter(p) \/ MapDelStep(p) \/ BypassStep(p)
  <2>1. /\ k.cmd = j.cmd
        /\ \/ Moved(p, "exit")
           \/ j.pc \in DelPc /\ (Moved(p, "unclient") \/ Moved(p, "unbind"))
    BY <1>1, <1>9, DelMoves DEF DeleteRate, DeleteClient, DelPc
  <2> QED
    BY <1>2, <2>1 DEF DelPc
<1> QED
  BY <1>3, <1>4, <1>5, <1>6, <1>7, <1>8, <1>9 DEF CtlStep

LEMMA WorkNext ==
  ASSUME WorkInv, [Next]_vars
  PROVE  WorkInv'
<1>1. SourceInv /\ SourceInv' /\ \A p \in Proc : FlowOK(ctl[p])
  BY SourceNext DEF WorkInv
<1>2. CASE UNCHANGED ctl
  BY <1>1, <1>2 DEF WorkInv
<1>3. ASSUME NEW p \in Proc, \A q \in Proc \ {p} : ctl'[q] = ctl[q], FlowOK(ctl'[p])
      PROVE  WorkInv'
  BY <1>1, <1>3 DEF WorkInv
<1>4. ASSUME NEW p \in Proc, Turnover(p) PROVE WorkInv'
  <2>1. \A q \in Proc \ {p} : ctl'[q] = ctl[q]
    BY <1>4 DEF Turnover, Only
  <2>2. CASE ctl'[p] = NoCommand
    <3>1. FlowOK(NoCommand)
      BY DEF FlowOK, NoCommand, AddPc, DelPc
    <3> QED
      BY <1>3, <2>1, <2>2, <3>1
  <2>3. CASE Fresh(ctl'[p])
    <3> DEFINE j == ctl'[p]
    <3>1. j.pc = "clock" => /\ j.cmd \in AddCommand
                           /\ Owns(j.mac, j.ip)
      BY <2>3 DEF Fresh, AddCommand
    <3>2. j.pc = "peek" => j.cmd \in DelCommand
      BY <2>3 DEF Fresh, DelCommand
    <3>3. j.pc = "resolve" /\ j.cmd # "add_mac" => j.ip # Unspecified
      BY <2>3, LeasesAssumption DEF Fresh, AddCommand, Owns
    <3>4. FlowOK(j)
      BY <2>3, <3>1, <3>2, <3>3 DEF FlowOK, Fresh, AddPc, DelPc
    <3> QED
      BY <1>3, <2>1, <3>4
  <2> QED
    BY <1>4, <2>2, <2>3 DEF Turnover
<1>5. ASSUME NEW p \in Proc, Commanded(p) PROVE WorkInv'
  <2>1. FlowOK(ctl'[p])
    BY <1>5, FlowStep DEF Commanded
  <2> QED
    BY <1>3, <1>5, <2>1 DEF Commanded, Only
<1> QED
  BY <1>1, <1>2, <1>4, <1>5, SourceKinds DEF Elsewhere, Programs

LEMMA FlowNext ==
  ASSUME OwnAddresses, FlowInv, [Next]_vars
  PROVE  FlowInv'
<1>1. WorkInv /\ LoginInv
  BY DEF FlowInv, WorkInv, LoginInv, SourceInv
<1> QED
  BY <1>1, WorkNext, LoginNext DEF FlowInv, WorkInv

LEMMA FlowInit == Init => FlowInv
<1>1. FlowOK(NoCommand)
  BY DEF FlowOK, NoCommand, AddPc, DelPc
<1> QED
  BY <1>1, LoginInit DEF Init, CtlInit, FlowInv

-----------------------------------------------------------------------------
(***************************************************************************)
(* ImplementsAccess.  What a program knows of its packet by the step it is *)
(* at: whose session it may use, and that it has one or none.              *)
(***************************************************************************)
SeenOK(j, t) ==
  /\ j.pc # "idle" => j.dir \in {"in", "out"}
  /\ j.pc = "portal" => j.dir = "in"
  /\ j.dir = "out" => j.ip # Unspecified
  /\ j.dir = "out" /\ j.pc = "auth" => Owns(j.mac, j.ip)
  /\ j.pc \notin HoldsSession \cup {"done"} => j.sess = None
  /\ j.pc = "expire" => j.sess.expiry # 0 /\ t > j.sess.expiry

AccessInv == WorkInv /\ UploadInv /\ \A c \in CPU : SeenOK(cpu[c], now)

LEMMA SeenProgram ==
  ASSUME SourceInv, NEW c \in CPU, SeenOK(cpu[c], now), ProgramStep(c)
  PROVE  SeenOK(cpu'[c], now)
<1> DEFINE j == cpu[c]
           k == cpu'[c]
<1>1. /\ j \in Program /\ ProgramOK(j) /\ cpu \in [CPU -> Program] /\ SourceOK(j)
      /\ BindingsOwn
  BY DEF SourceInv, TypeOK, DatapathTypeOK, SourcesOwn
<1>2. ASSUME NEW l, Goto(c, l), j.pc # "idle", l \notin {"auth", "expire"},
             l = "portal" => j.dir = "in",
             l \notin HoldsSession \cup {"done"} => j.sess = None
      PROVE  SeenOK(k, now)
  <2>1. k.pc = l /\ k.dir = j.dir /\ k.ip = j.ip /\ k.mac = j.mac /\ k.sess = j.sess
    BY <1>1, <1>2 DEF Goto, Program
  <2> QED
    BY <1>2, <2>1 DEF SeenOK
<1>3. ASSUME NEW v, Decide(c, v), j.pc # "idle" PROVE SeenOK(k, now)
  <2>1. k.pc = "done" /\ k.dir = j.dir /\ k.ip = j.ip /\ k.mac = j.mac /\ k.sess = j.sess
    BY <1>1, <1>3 DEF Decide, Program
  <2> QED
    BY <1>3, <2>1 DEF SeenOK
<1>4. CASE StaticBypass(c)
  BY <1>2, <1>3, <1>4 DEF StaticBypass, HoldsSession, SeenOK
<1>5. CASE BindLookup(c) \/ BindForward(c) \/ BindReverse(c)
  <2>1. j.dir = "in" /\ j.sess = None /\ j.pc # "idle"
    BY <1>1, <1>5 DEF BindLookup, BindForward, BindReverse, SourceOK, SeenOK, HoldsSession
  <2> QED
    BY <1>2, <1>5, <2>1 DEF BindLookup, BindForward, BindReverse
<1>6. CASE PortalTraffic(c)
  <2>1. j.pc = "portal" /\ j.dir = "in" /\ j.sess = None
    BY <1>6 DEF PortalTraffic, SeenOK, HoldsSession
  <2>2. CASE Goto(c, "auth")
    <3>1. k.pc = "auth" /\ k.dir = j.dir /\ k.sess = j.sess
      BY <1>1, <2>2 DEF Goto, Program
    <3> QED
      BY <2>1, <3>1 DEF SeenOK
  <2> QED
    BY <1>3, <1>6, <2>1, <2>2 DEF PortalTraffic
<1>7. CASE Resolve(c)
  <2>1. j.pc = "resolve" /\ j.dir = "out" /\ j.sess = None /\ j.ip \in IP \ {Unspecified}
    BY <1>1, <1>7 DEF Resolve, SeenOK, SourceOK, HoldsSession, ProgramOK
  <2>2. CASE Goto(c, "preauth")
    BY <1>2, <2>1, <2>2
  <2>3. ASSUME NEW m, m = ip_mac[j.ip], m # None,
               cpu' = [cpu EXCEPT ![c].pc = "auth", ![c].mac = m]
        PROVE  SeenOK(k, now)
    <3>1. k.pc = "auth" /\ k.dir = j.dir /\ k.sess = j.sess /\ k.mac = m /\ k.ip = j.ip
      BY <1>1, <2>3 DEF Program
    <3>2. Owns(m, j.ip)
      BY <1>1, <2>1, <2>3 DEF BindingsOwn
    <3> QED
      BY <2>1, <3>1, <3>2 DEF SeenOK
  <2> QED
    BY <1>7, <2>2, <2>3 DEF Resolve
<1>8. CASE AuthLookup(c)
  <2>1. j.pc = "auth" /\ j.sess = None
    BY <1>8 DEF AuthLookup, SeenOK, HoldsSession
  <2>2. CASE Goto(c, "preauth")
    BY <1>2, <2>1, <2>2
  <2>3. ASSUME NEW l \in {"expiry", "shape"}, NEW s,
               cpu' = [cpu EXCEPT ![c].pc = l, ![c].sess = s]
        PROVE  SeenOK(k, now)
    <3>1. k.pc = l /\ k.dir = j.dir /\ k.ip = j.ip
      BY <1>1, <2>3 DEF Program
    <3> QED
      BY <2>1, <2>3, <3>1 DEF SeenOK, HoldsSession
  <2> QED
    BY <1>8, <2>2, <2>3 DEF AuthLookup
<1>9. CASE ExpiryCheck(c)
  <2>1. CASE Expired(j.sess) /\ Goto(c, "expire")
    <3>1. k.pc = "expire" /\ k.dir = j.dir /\ k.ip = j.ip /\ k.sess = j.sess
      BY <1>1, <2>1 DEF Goto, Program
    <3> QED
      BY <1>9, <2>1, <3>1 DEF ExpiryCheck, SeenOK, HoldsSession, Expired
  <2> QED
    BY <1>2, <1>9, <2>1 DEF ExpiryCheck, HoldsSession
<1>10. CASE ExpireDelete(c)
  BY <1>2, <1>10 DEF ExpireDelete, HoldsSession
<1>11. CASE ExpireMark(c) \/ Account(c) \/ PreAuth(c)
  BY <1>3, <1>11 DEF ExpireMark, Account, PreAuth
<1>12. CASE Shape(c)
  BY <1>2, <1>3, <1>12 DEF Shape, HoldsSession
<1> QED
  BY <1>4, <1>5, <1>6, <1>7, <1>8, <1>9, <1>10, <1>11, <1>12 DEF ProgramStep

LEMMA AccessKept ==
  ASSUME AccessInv, [Next]_vars
  PROVE  AccessInv'
<1>1. /\ WorkInv' /\ UploadInv' /\ SourceInv /\ DatapathTypeOK /\ now \in Nat
      /\ cpu \in [CPU -> Program] /\ \A c \in CPU : SeenOK(cpu[c], now) /\ ProgramOK(cpu[c])
  BY WorkNext, UploadStep
     DEF AccessInv, WorkInv, SourceInv, TypeOK, DatapathTypeOK, MapsTypeOK
<1>2. ASSUME UNCHANGED cpu, now' \in Nat, now <= now' PROVE AccessInv'
  <2>1. ASSUME NEW c \in CPU PROVE SeenOK(cpu[c], now')
    <3>1. cpu[c].pc = "expire" => cpu[c].sess.expiry \in Nat
      BY <1>1 DEF ProgramOK, HoldsSession, Session
    <3> QED
      BY <1>1, <1>2, <3>1 DEF SeenOK
  <2> QED
    BY <1>1, <1>2, <2>1 DEF AccessInv
<1>3. ASSUME NEW c \in CPU, NEW j, cpu' = [cpu EXCEPT ![c] = j], SeenOK(j, now), UNCHANGED now
      PROVE  AccessInv'
  <2>1. \A d \in CPU : cpu'[d] = IF d = c THEN j ELSE cpu[d]
    BY <1>1, <1>3
  <2> QED
    BY <1>1, <1>3, <2>1 DEF AccessInv
<1>4. CASE Tick \/ UNCHANGED vars
  BY <1>1, <1>2, <1>4 DEF Tick, vars
<1>5. CASE \E m \in MAC : Release(m) \/ Login(m) \/ \E i \in IP : Lease(m, i)
  <2>1. UNCHANGED <<now, cpu>>
    BY <1>5 DEF Release, Login, Lease, Add
  <2> QED
    BY <1>1, <1>2, <2>1
<1>6. ASSUME NEW c \in CPU, Run(c) PROVE AccessInv'
  <2>1. ProgramStep(c) /\ SeenOK(cpu'[c], now) /\ UNCHANGED now
    BY <1>1, <1>6, SeenProgram, ProgramEffect DEF Run, SourceInv
  <2>2. \A d \in CPU : d # c => cpu'[d] = cpu[d]
    BY <1>1, <2>1, ProgramFrame
  <2> QED
    BY <1>1, <2>1, <2>2 DEF AccessInv
<1>7. ASSUME NEW c \in CPU, Deliver(c) PROVE AccessInv'
  <2>1. SeenOK(Idle, now)
    BY DEF SeenOK, Idle, HoldsSession
  <2> QED
    BY <1>3, <1>7, <2>1 DEF Deliver, Return
<1>8. ASSUME NEW c \in CPU, Download(c) PROVE AccessInv'
  <2>1. PICK i \in IP \ {Unspecified} : Egress(c, i)
    BY <1>8 DEF Download
  <2> DEFINE j == [Idle EXCEPT !.dir = "out", !.pc = "bypass", !.ip = i, !.arr = now]
  <2>2. SeenOK(j, now)
    BY DEF SeenOK, Idle, HoldsSession
  <2> QED
    BY <1>3, <2>1, <2>2 DEF Egress
<1>9. ASSUME NEW c \in CPU, NEW m \in MAC, Upload(c, m) PROVE AccessInv'
  <2>1. PICK i : Ingress(c, m, i)
    BY <1>9 DEF Upload
  <2> DEFINE j == [Idle EXCEPT !.dir = "in", !.pc = "bypass", !.mac = m, !.ip = i,
                               !.arr = now]
  <2>2. SeenOK(j, now)
    BY DEF SeenOK, Idle, HoldsSession
  <2> QED
    BY <1>3, <2>1, <2>2 DEF Ingress
<1>10. ASSUME NEW p \in Proc, Operator(p) \/ Ctl(p) \/ Wait(p) PROVE AccessInv'
  <2>1. UNCHANGED <<now, cpu>>
    BY <1>10 DEF Operator, Add, Del, MapDel, Bypass, Ctl, CtlStep, ResolveMac, ResolveIp,
       ReadClock, InsertClient, InsertCounter, Rollback, InsertRate, PeekClient, DeleteRate,
       DeleteClient, CurrentIp, DeleteCounter, MapDelStep, BypassStep, Wait, Reap
  <2> QED
    BY <1>1, <1>2, <2>1
<1> QED
  BY <1>4, <1>5, <1>6, <1>7, <1>8, <1>9, <1>10 DEF Next

\* What a step leaves alone leaves its part of the promises alone.
LEMMA AccessUntouched ==
  /\ UNCHANGED clients => UNCHANGED Grants
  /\ UNCHANGED ctl => UNCHANGED Orders
  /\ UNCHANGED cpu => UNCHANGED Packets
BY DEF Grants, Orders, Packets

LEMMA GrantsUpdate ==
  ASSUME MapsTypeOK, NEW m \in MAC, NEW s, clients' = [clients EXCEPT ![m] = s]
  PROVE  Grants' = [Grants EXCEPT ![m] = AccessOf(s)]
BY DEF MapsTypeOK, Grants

LEMMA OrdersUpdate ==
  ASSUME NEW p \in Proc, \A q \in Proc \ {p} : ctl'[q] = ctl[q]
  PROVE  Orders' = [Orders EXCEPT ![p] = OrderOf(ctl'[p])]
BY DEF Orders

LEMMA PacketsUpdate ==
  ASSUME DatapathTypeOK, NEW c \in CPU, NEW k, cpu' = [cpu EXCEPT ![c] = k]
  PROVE  Packets' = [Packets EXCEPT ![c] = PacketOf(k)]
BY DEF DatapathTypeOK, Packets

-----------------------------------------------------------------------------
(***************************************************************************)
(* Packets.                                                                *)
(***************************************************************************)
LEMMA PacketStages ==
  /\ PacketStage("idle") = "none" /\ PacketStage("done") = "out"
  /\ PacketStage("mark") = "expired"
  /\ \A pc \in {"expiry", "expire", "shape", "count", "preauth"} : PacketStage(pc) = "seen"
  /\ \A pc \in {"bypass", "bind", "fwd", "rev", "portal", "resolve", "auth"} :
       PacketStage(pc) = "held"
BY DEF PacketStage

\* Moving on is seen only if the stage is another.
LEMMA GotoPacket ==
  ASSUME DatapathTypeOK, NEW c \in CPU, NEW l, Goto(c, l)
  PROVE  Packets' = [Packets EXCEPT ![c] = [Packets[c] EXCEPT !.stage = PacketStage(l)]]
<1> DEFINE k == [cpu[c] EXCEPT !.pc = l]
<1>1. cpu[c] \in Program
  BY DEF DatapathTypeOK
<1>2. /\ k.pc = l /\ k.dir = cpu[c].dir /\ k.mac = cpu[c].mac /\ k.ip = cpu[c].ip
      /\ k.arr = cpu[c].arr /\ k.sess = cpu[c].sess /\ k.ver = cpu[c].ver
  BY <1>1 DEF Program
<1>3. cpu' = [cpu EXCEPT ![c] = k]
  BY DEF Goto, DatapathTypeOK
<1> HIDE DEF k
<1>4. PacketOf(k) = [Packets[c] EXCEPT !.stage = PacketStage(l)]
  BY <1>2 DEF Packets, PacketOf
<1> QED
  BY <1>3, <1>4, PacketsUpdate

LEMMA SameStage ==
  ASSUME DatapathTypeOK, NEW c \in CPU, NEW l, Goto(c, l), PacketStage(l) = PacketStage(cpu[c].pc)
  PROVE  UNCHANGED Packets
<1>1. Packets[c] = [Packets[c] EXCEPT !.stage = PacketStage(l)]
  BY DEF Packets, PacketOf
<1>2. Packets = [Packets EXCEPT ![c] = Packets[c]]
  BY DEF Packets
<1> QED
  BY <1>1, <1>2, GotoPacket

\* A packet judged, and one that has seen access.
LEMMA PacketUpdates ==
  ASSUME NEW c \in CPU, NEW k,
         k.dir = cpu[c].dir, k.mac = cpu[c].mac, k.ip = cpu[c].ip, k.arr = cpu[c].arr
  PROVE  /\ k.pc = "done" /\ k.sess = cpu[c].sess =>
              PacketOf(k) = Access!Judged(Packets[c], k.ver)
         /\ PacketStage(k.pc) = "seen" /\ k.ver = cpu[c].ver =>
              PacketOf(k) = Access!Seen(Packets[c], AccessOf(k.sess))
<1> DEFINE d == IF k.dir = "in" THEN k.mac ELSE None
           g == AccessOf(cpu[c].sess)
           h == AccessOf(k.sess)
           y == k.ver
<1>1. Packets[c] = [stage |-> PacketStage(cpu[c].pc), dir |-> k.dir, mac |-> d, ip |-> k.ip,
                    arr |-> k.arr, saw |-> g, ver |-> cpu[c].ver]
  BY DEF Packets, PacketOf
<1>2. PacketOf(k) = [stage |-> PacketStage(k.pc), dir |-> k.dir, mac |-> d, ip |-> k.ip,
                     arr |-> k.arr, saw |-> h, ver |-> y]
  BY DEF PacketOf
<1>3. k.sess = cpu[c].sess => h = g
  OBVIOUS
<1>4. k.pc = "done" => PacketStage(k.pc) = "out"
  BY PacketStages
<1> HIDE DEF d, g, h, y
<1>5. PICK r : r = [Packets[c] EXCEPT !.stage = "out"]
  OBVIOUS
<1>6. PICK s : s = [Packets[c] EXCEPT !.stage = "seen"]
  OBVIOUS
<1>7. /\ r = [stage |-> "out", dir |-> k.dir, mac |-> d, ip |-> k.ip, arr |-> k.arr,
             saw |-> g, ver |-> cpu[c].ver]
      /\ s = [stage |-> "seen", dir |-> k.dir, mac |-> d, ip |-> k.ip, arr |-> k.arr,
             saw |-> g, ver |-> cpu[c].ver]
  BY <1>1, <1>5, <1>6
<1>8. /\ [r EXCEPT !.ver = y] = [stage |-> "out", dir |-> k.dir, mac |-> d, ip |-> k.ip,
                                 arr |-> k.arr, saw |-> g, ver |-> y]
      /\ [s EXCEPT !.saw = h] = [stage |-> "seen", dir |-> k.dir, mac |-> d, ip |-> k.ip,
                                 arr |-> k.arr, saw |-> h, ver |-> cpu[c].ver]
  BY <1>7
<1>9. /\ Access!Judged(Packets[c], y) = [r EXCEPT !.ver = y]
      /\ Access!Seen(Packets[c], h) = [s EXCEPT !.saw = h]
  BY <1>5, <1>6 DEF Access!Judged, Access!Seen
<1>10. /\ k.pc = "done" /\ k.sess = cpu[c].sess => PacketOf(k) = Access!Judged(Packets[c], y)
       /\ PacketStage(k.pc) = "seen" /\ y = cpu[c].ver =>
            PacketOf(k) = Access!Seen(Packets[c], h)
  BY <1>2, <1>3, <1>4, <1>8, <1>9
<1> QED
  BY <1>10 DEF y, h

LEMMA GotoSeen ==
  ASSUME DatapathTypeOK, NEW c \in CPU, NEW l, Goto(c, l), PacketStage(l) = "seen"
  PROVE  Packets' = [Packets EXCEPT ![c] = Access!Seen(Packets[c], AccessOf(cpu[c].sess))]
<1> DEFINE k == [cpu[c] EXCEPT !.pc = l]
<1>1. cpu[c] \in Program
  BY DEF DatapathTypeOK
<1>2. /\ k.pc = l /\ k.dir = cpu[c].dir /\ k.mac = cpu[c].mac /\ k.ip = cpu[c].ip
      /\ k.arr = cpu[c].arr /\ k.sess = cpu[c].sess /\ k.ver = cpu[c].ver
  BY <1>1 DEF Program
<1>3. cpu' = [cpu EXCEPT ![c] = k]
  BY DEF Goto, DatapathTypeOK
<1> HIDE DEF k
<1>4. PacketOf(k) = Access!Seen(Packets[c], AccessOf(cpu[c].sess))
  BY <1>2, PacketUpdates
<1> QED
  BY <1>3, <1>4, PacketsUpdate

LEMMA JudgePacket ==
  ASSUME DatapathTypeOK, NEW c \in CPU, NEW v, Decide(c, v), UNCHANGED <<now, clients, bypass, ctl>>,
         v \in Access!Outcomes(Packets[c])
  PROVE  Access!Judge(c)
<1> DEFINE k == [cpu[c] EXCEPT !.pc = "done", !.ver = v]
<1>1. cpu[c] \in Program
  BY DEF DatapathTypeOK
<1>2. /\ k.pc = "done" /\ k.dir = cpu[c].dir /\ k.mac = cpu[c].mac /\ k.ip = cpu[c].ip
      /\ k.arr = cpu[c].arr /\ k.sess = cpu[c].sess /\ k.ver = v
  BY <1>1 DEF Program
<1>3. cpu' = [cpu EXCEPT ![c] = k]
  BY DEF Decide, DatapathTypeOK
<1> HIDE DEF k
<1>4. PacketOf(k) = Access!Judged(Packets[c], v)
  BY <1>2, PacketUpdates
<1>5. Packets' = [Packets EXCEPT ![c] = Access!Judged(Packets[c], v)]
  BY <1>3, <1>4, PacketsUpdate
<1> QED
  BY <1>5, AccessUntouched DEF Access!Judge, Access!Hold

\* Every step of a program looks, expires, judges, or cannot be told.
LEMMA ProgramImplements ==
  ASSUME AccessInv, NEW c \in CPU, ProgramStep(c), UNCHANGED ctl
  PROVE  Access!PacketStep(c) \/ UNCHANGED Access!avars
<1> DEFINE j == cpu[c]
           k == Packets[c]
<1>1. /\ MapsTypeOK /\ DatapathTypeOK /\ j \in Program /\ ProgramOK(j) /\ now \in Nat
      /\ SeenOK(j, now) /\ SourceOK(j) /\ UploadOK(j, now)
  BY DEF AccessInv, WorkInv, SourceInv, TypeOK, DatapathTypeOK, MapsTypeOK, SourcesOwn, UploadInv
<1>2. /\ k.stage = PacketStage(j.pc) /\ k.dir = j.dir /\ k.ip = j.ip /\ k.arr = j.arr
      /\ j.dir = "in" => k.mac = j.mac
      /\ k.saw = AccessOf(j.sess)
  BY DEF Packets, PacketOf
<1> HIDE DEF k
<1>3. ASSUME NEW l, Goto(c, l), PacketStage(l) = PacketStage(j.pc),
             UNCHANGED <<now, clients, bypass>>
      PROVE  UNCHANGED Access!avars
  BY <1>1, <1>3, SameStage, AccessUntouched DEF Access!avars
<1>4. ASSUME NEW v, Decide(c, v), UNCHANGED <<now, clients, bypass>>, v \in Access!Outcomes(k)
      PROVE  Access!PacketStep(c)
  BY <1>1, <1>4, JudgePacket DEF Access!PacketStep, k
<1>5. CASE StaticBypass(c)
  <2>1. CASE j.ip \in bypass /\ Decide(c, "pass")
    <3>1. "pass" \in Access!Outcomes(k)
      BY <1>2, <1>5, <2>1, PacketStages DEF StaticBypass, Access!Outcomes
    <3> QED
      BY <1>4, <1>5, <2>1, <3>1 DEF StaticBypass
  <2> QED
    BY <1>3, <1>5, <2>1, PacketStages DEF StaticBypass
<1>6. CASE BindLookup(c) \/ BindForward(c) \/ BindReverse(c)
  BY <1>3, <1>6, PacketStages DEF BindLookup, BindForward, BindReverse
<1>7. CASE PortalTraffic(c)
  <2>1. j.pc = "portal" /\ j.dir = "in" /\ UNCHANGED <<now, maps>>
    BY <1>1, <1>7 DEF PortalTraffic, SeenOK
  <2>2. {"portal", "shot"} \subseteq Access!Outcomes(k)
    BY <1>2, <2>1, PacketStages DEF Access!Outcomes
  <2> QED
    BY <1>3, <1>4, <1>7, <2>1, <2>2, PacketStages DEF PortalTraffic
<1>8. CASE Resolve(c)
  <2>1. /\ j.pc = "resolve" /\ j.dir = "out" /\ j.sess = None
        /\ UNCHANGED <<now, maps>>
    BY <1>1, <1>8 DEF Resolve, SeenOK, SourceOK, HoldsSession
  <2>2. CASE Goto(c, "preauth")
    <3>1. Packets' = [Packets EXCEPT ![c] = Access!Seen(k, {})]
      BY <1>1, <2>1, <2>2, GotoSeen, PacketStages DEF k, AccessOf
    <3>2. Access!Look(c)
      BY <1>2, <2>1, <3>1, AccessUntouched, PacketStages DEF Access!Look, Access!Hold, k
    <3> QED
      BY <3>2 DEF Access!PacketStep
  <2>3. ASSUME NEW m, cpu' = [cpu EXCEPT ![c].pc = "auth", ![c].mac = m]
        PROVE  UNCHANGED Access!avars
    <3> DEFINE h == [j EXCEPT !.pc = "auth", !.mac = m]
    <3>1. /\ h.pc = "auth" /\ h.dir = j.dir /\ h.ip = j.ip /\ h.arr = j.arr
          /\ h.sess = j.sess /\ h.ver = j.ver
      BY <1>1 DEF Program
    <3>2. cpu' = [cpu EXCEPT ![c] = h]
      BY <1>1, <2>3 DEF DatapathTypeOK
    <3> HIDE DEF h
    <3>3. PacketOf(h) = Packets[c]
      BY <2>1, <3>1, PacketStages DEF Packets, PacketOf
    <3>4. Packets' = [Packets EXCEPT ![c] = Packets[c]]
      BY <1>1, <3>2, <3>3, PacketsUpdate
    <3>5. UNCHANGED Packets
      BY <3>4 DEF Packets
    <3> QED
      BY <2>1, <3>5, AccessUntouched DEF Access!avars
  <2> QED
    BY <1>8, <2>2, <2>3 DEF Resolve
<1>9. CASE AuthLookup(c)
  <2>1. /\ j.pc = "auth" /\ j.sess = None /\ j.mac \in MAC /\ j.dir \in {"in", "out"}
        /\ UNCHANGED <<now, maps>>
        /\ j.dir = "out" => Owns(j.mac, j.ip)
    BY <1>1, <1>9 DEF AuthLookup, SeenOK, HoldsSession, ProgramOK, NeedsMac
  <2>2. IF j.dir = "in" THEN j.mac = k.mac ELSE j.mac \in Access!Owners(k.ip)
    BY <1>2, <2>1 DEF Access!Owners, Owns
  <2>3. SUFFICES Packets' = [Packets EXCEPT ![c] = Access!Seen(k, Grants[j.mac])]
    BY <1>2, <2>1, <2>2, <2>3, AccessUntouched, PacketStages
       DEF Access!PacketStep, Access!Look, Access!Hold, k
  <2>4. Grants[j.mac] = AccessOf(clients[j.mac])
    BY <2>1 DEF Grants
  <2>5. CASE clients[j.mac] = None /\ Goto(c, "preauth")
    BY <1>1, <2>1, <2>4, <2>5, GotoSeen, PacketStages DEF k, AccessOf
  <2>6. ASSUME NEW l \in {"expiry", "shape"}, NEW s, s = clients[j.mac],
               cpu' = [cpu EXCEPT ![c].pc = l, ![c].sess = s]
        PROVE  Packets' = [Packets EXCEPT ![c] = Access!Seen(k, Grants[j.mac])]
    <3> DEFINE h == [j EXCEPT !.pc = l, !.sess = s]
    <3>1. /\ h.pc = l /\ h.dir = j.dir /\ h.ip = j.ip /\ h.mac = j.mac /\ h.arr = j.arr
          /\ h.sess = s /\ h.ver = j.ver
      BY <1>1 DEF Program
    <3>2. cpu' = [cpu EXCEPT ![c] = h]
      BY <1>1, <2>6 DEF DatapathTypeOK
    <3> HIDE DEF h
    <3>3. PacketOf(h) = Access!Seen(k, Grants[j.mac])
      <4>1. PacketStage(h.pc) = "seen" /\ Grants[j.mac] = AccessOf(h.sess)
        BY <2>4, <2>6, <3>1, PacketStages
      <4> QED
        BY <3>1, <4>1, PacketUpdates DEF k
    <3> QED
      BY <1>1, <3>2, <3>3, PacketsUpdate
  <2> QED
    BY <1>9, <2>5, <2>6 DEF AuthLookup
<1>10. CASE ExpiryCheck(c)
  BY <1>3, <1>10, PacketStages DEF ExpiryCheck
<1>11. CASE ExpireDelete(c)
  <2>1. /\ j.pc = "expire" /\ j.dir = "in" /\ j.mac \in MAC /\ j.sess \in Session
        /\ j.sess.expiry # 0 /\ now > j.sess.expiry /\ Goto(c, "mark")
        /\ clients' = [clients EXCEPT ![j.mac] = None] /\ UNCHANGED <<now, bypass>>
    BY <1>1, <1>11 DEF ExpireDelete, SeenOK, SourceOK, ProgramOK, NeedsMac, HoldsSession
  <2>2. k.saw = {j.sess.expiry}
    BY <1>2, <2>1, ElementAssumption DEF AccessOf
  <2>3. Packets' = [Packets EXCEPT ![c] = [k EXCEPT !.stage = "expired"]]
    BY <1>1, <2>1, GotoPacket, PacketStages DEF k
  <2>4. Grants' = [Grants EXCEPT ![j.mac] = {}]
    BY <1>1, <2>1, GrantsUpdate DEF AccessOf
  <2>5. Access!Expire(c)
    BY <1>2, <2>1, <2>2, <2>3, <2>4, AccessUntouched, PacketStages
       DEF Access!Expire, Access!Hold, k
  <2> QED
    BY <2>5 DEF Access!PacketStep
<1>12. CASE ExpireMark(c)
  <2>1. "shot" \in Access!Outcomes(k)
    BY <1>2, <1>12, PacketStages DEF ExpireMark, Access!Outcomes
  <2> QED
    BY <1>4, <1>12, <2>1 DEF ExpireMark
<1>13. CASE Shape(c) \/ Account(c)
  <2>1. /\ j.pc \in {"shape", "count"} /\ j.sess \in Session /\ j.dir \in {"in", "out"}
        /\ j.dir = "in" => ValidAt(j.sess, j.arr)
        /\ UNCHANGED <<now, maps>>
    BY <1>1, <1>13 DEF Shape, Account, ProgramOK, HoldsSession, SeenOK, UploadOK
  <2>2. k.saw = {j.sess.expiry} /\ k.stage = "seen"
    BY <1>2, <2>1, ElementAssumption, PacketStages DEF AccessOf
  <2>3. {"shot", "forward"} \subseteq Access!Outcomes(k)
    BY <1>2, <2>1, <2>2 DEF Access!Outcomes, ValidAt
  <2> QED
    BY <1>3, <1>4, <1>13, <2>1, <2>3, PacketStages DEF Shape, Account
<1>14. CASE PreAuth(c)
  <2>1. j.pc = "preauth" /\ j.sess = None /\ UNCHANGED <<now, maps>>
    BY <1>1, <1>14 DEF PreAuth, SeenOK, HoldsSession
  <2>2. k.saw = {} /\ k.stage = "seen"
    BY <1>2, <2>1, PacketStages DEF AccessOf
  <2>3. /\ {"pass", "shot"} \subseteq Access!Outcomes(k)
        /\ j.dir = "in" => "portal" \in Access!Outcomes(k)
    BY <1>2, <2>2 DEF Access!Outcomes
  <2> QED
    BY <1>4, <1>14, <2>1, <2>3 DEF PreAuth
<1> QED
  BY <1>5, <1>6, <1>7, <1>8, <1>9, <1>10, <1>11, <1>12, <1>13, <1>14 DEF ProgramStep

-----------------------------------------------------------------------------
(***************************************************************************)
(* Orders: what the record of an invocation amounts to at each of its      *)
(* steps.                                                                  *)
(***************************************************************************)
Order(kind, stage, D, i, t, e, rc) ==
  [kind |-> kind, stage |-> stage, of |-> D, at |-> i, exp |-> t, until |-> e, rc |-> rc]

LEMMA OrderFields ==
  ASSUME NEW kind, NEW stage, NEW D, NEW i, NEW t, NEW e, NEW rc, NEW o,
         o = Order(kind, stage, D, i, t, e, rc)
  PROVE  /\ o.kind = kind /\ o.stage = stage /\ o.of = D /\ o.at = i /\ o.exp = t
         /\ o.until = e /\ o.rc = rc
BY DEF Order

LEMMA OrderMoves ==
  ASSUME NEW kind, NEW stage, NEW D, NEW i, NEW t, NEW e, NEW rc, NEW o,
         o = Order(kind, stage, D, i, t, e, rc)
  PROVE  /\ Access!Done(o) = Order(kind, "done", D, i, t, e, rc)
         /\ \A E : Access!Meant(o, E) = Order(kind, stage, E, i, t, e, rc)
         /\ \A f : Access!Dated(o, f) = Order(kind, "ready", D, i, t, f, rc)
         /\ \A r : Access!Ended(o, r) = Order(kind, "ended", {}, None, 0, {}, r)
<1>1. Access!Done(o) = Order(kind, "done", D, i, t, e, rc)
  BY DEF Order, Access!Done
<1>2. ASSUME NEW E PROVE Access!Meant(o, E) = Order(kind, stage, E, i, t, e, rc)
  BY DEF Order, Access!Meant
<1>3. ASSUME NEW f PROVE Access!Dated(o, f) = Order(kind, "ready", D, i, t, f, rc)
  <2>1. PICK r : r = [o EXCEPT !.stage = "ready"]
    OBVIOUS
  <2>2. r = Order(kind, "ready", D, i, t, e, rc)
    BY <2>1 DEF Order
  <2>3. [r EXCEPT !.until = f] = Order(kind, "ready", D, i, t, f, rc)
    BY <2>2 DEF Order
  <2> QED
    BY <2>1, <2>3 DEF Access!Dated
<1>4. ASSUME NEW r PROVE Access!Ended(o, r) = Order(kind, "ended", {}, None, 0, {}, r)
  BY DEF Order, Access!Ended
<1> QED
  BY <1>1, <1>2, <1>3, <1>4

LEMMA OrderStages ==
  /\ OrderStage("idle") = "none" /\ OrderStage("client") = "ready" /\ OrderStage("exit") = "ended"
  /\ \A pc \in {"counter", "rollback", "rate", "unbind", "uncounter"} : OrderStage(pc) = "done"
  /\ \A pc \in {"resolve", "clock", "peek", "unrate", "unclient", "single"} :
       OrderStage(pc) = "open"
BY DEF OrderStage

LEMMA OrderKinds ==
  /\ \A cmd \in AddCommand : OrderKind(cmd) = "grant"
  /\ \A cmd \in DelCommand : OrderKind(cmd) = "revoke"
  /\ OrderKind("map_del") = "drop" /\ OrderKind("bypass_add") = "exempt"
  /\ OrderKind("bypass_del") = "include" /\ OrderKind("none") = "none"
BY DEF OrderKind, AddCommand, DelCommand

LEMMA OrderEnded ==
  ASSUME NEW j, j.pc = "exit"
  PROVE  OrderOf(j) = Order(OrderKind(j.cmd), "ended", {}, None, 0, {}, j.rc)
BY OrderStages DEF OrderOf, Order

LEMMA OrderResolve ==
  ASSUME NEW j, j.pc = "resolve", j.cmd # "add_mac", j.cmd \in AddCommand \cup DelCommand
  PROVE  OrderOf(j) = Order(OrderKind(j.cmd), "open", OwnersOf(j.ip), None, j.exp, {}, "none")
<1>1. OrderKind(j.cmd) \in {"grant", "revoke"} /\ OrderStage(j.pc) = "open"
  BY OrderKinds, OrderStages
<1> QED
  BY <1>1 DEF OrderOf, Order

LEMMA OrderOpen ==
  ASSUME NEW j, j.pc \in {"resolve", "clock", "peek", "unrate", "unclient"},
         j.pc # "resolve" \/ j.cmd = "add_mac", j.cmd \in AddCommand \cup DelCommand
  PROVE  OrderOf(j) = Order(OrderKind(j.cmd), "open", {j.mac}, None, j.exp, {}, "none")
<1>1. OrderKind(j.cmd) \in {"grant", "revoke"} /\ OrderStage(j.pc) = "open"
  BY OrderKinds, OrderStages
<1> QED
  BY <1>1 DEF OrderOf, Order

LEMMA OrderMade ==
  ASSUME NEW j, j.pc \in {"client", "counter", "rollback", "rate"}, j.cmd \in AddCommand
  PROVE  OrderOf(j) = Order("grant", OrderStage(j.pc), {j.mac}, None, j.exp,
                            {j.sess.expiry}, "none")
<1>1. OrderKind(j.cmd) = "grant" /\ OrderStage(j.pc) \in {"ready", "done"}
  BY OrderKinds, OrderStages
<1> QED
  BY <1>1 DEF OrderOf, Order

LEMMA OrderRevoked ==
  ASSUME NEW j, j.pc \in {"unbind", "uncounter"}, j.cmd \in DelCommand
  PROVE  OrderOf(j) = Order("revoke", "done", {j.mac}, None, j.exp, {}, "none")
<1>1. OrderKind(j.cmd) = "revoke" /\ OrderStage(j.pc) = "done"
  BY OrderKinds, OrderStages
<1> QED
  BY <1>1 DEF OrderOf, Order

LEMMA OrderSingle ==
  ASSUME NEW j, j.pc = "single", j.cmd \in {"map_del", "bypass_add", "bypass_del"}
  PROVE  OrderOf(j) = IF j.cmd = "map_del"
                      THEN Order("drop", "open", {j.mac}, None, j.exp, {}, "none")
                      ELSE Order(OrderKind(j.cmd), "open", {}, j.ip, j.exp, {}, "none")
<1>1. /\ OrderStage(j.pc) = "open"
      /\ j.cmd = "map_del" => OrderKind(j.cmd) = "drop"
      /\ j.cmd # "map_del" => OrderKind(j.cmd) \in {"exempt", "include"}
  BY OrderKinds, OrderStages
<1> QED
  BY <1>1 DEF OrderOf, Order

LEMMA OrderNone == OrderOf(NoCommand) = Access!NoOrder
<1>1. NoCommand.pc = "idle" /\ NoCommand.cmd = "none" /\ NoCommand.exp = 0
  BY DEF NoCommand
<1>2. OrderStage("idle") = "none" /\ OrderKind("none") = "none"
  BY OrderStages, OrderKinds
<1> QED
  BY <1>1, <1>2 DEF OrderOf, Access!NoOrder

\* Every step of a command is a step of its order, or cannot be told.
LEMMA CommandImplements ==
  ASSUME AccessInv, NEW p \in Proc, CtlStep(p), UNCHANGED cpu
  PROVE  Access!OrderStep(p) \/ UNCHANGED Access!avars
<1> DEFINE j == ctl[p]
           k == ctl'[p]
           o == Orders[p]
<1>1. /\ MapsTypeOK /\ CtlTypeOK /\ j \in Invocation /\ InvocationOK(j) /\ FlowOK(j)
      /\ BindingsOwn
  BY DEF AccessInv, WorkInv, SourceInv, TypeOK, CtlTypeOK
<1>2. /\ o = OrderOf(j) /\ Access!Give(p, OrderOf(k)) /\ UNCHANGED Packets
  BY <1>1, CtlFrame, OrdersUpdate, AccessUntouched DEF Orders, Access!Give
<1>3. ASSUME OrderOf(k) = OrderOf(j), UNCHANGED <<now, clients, bypass>>
      PROVE  UNCHANGED Access!avars
  <2>1. Orders' = [Orders EXCEPT ![p] = Orders[p]]
    BY <1>2, <1>3 DEF Access!Give
  <2>2. UNCHANGED Orders
    BY <2>1 DEF Orders
  <2> QED
    BY <1>2, <1>3, <2>2, AccessUntouched DEF Access!avars
<1> HIDE DEF o
<1>4. CASE ResolveMac(p)
  <2>1. /\ j.pc = "resolve" /\ j.cmd \in {"add_ip", "del_ip"} /\ j.ip \in IP \ {Unspecified}
        /\ UNCHANGED <<now, maps>>
    BY <1>1, <1>4 DEF ResolveMac, InvocationOK, FlowOK
  <2>2. PICK kind \in {"grant", "revoke"} : kind = OrderKind(j.cmd)
    BY <2>1, OrderKinds DEF AddCommand, DelCommand
  <2>3. o = Order(kind, "open", OwnersOf(j.ip), None, j.exp, {}, "none")
    <3>1. j.cmd \in AddCommand \cup DelCommand /\ j.cmd # "add_mac"
      BY <2>1 DEF AddCommand, DelCommand
    <3> QED
      BY <1>2, <2>1, <2>2, <3>1, OrderResolve
  <2>4. o.kind = kind /\ o.stage = "open" /\ o.of = OwnersOf(j.ip)
    BY <2>3, OrderFields
  <2>5. k.cmd = j.cmd /\ k.exp = j.exp
    BY <1>1, <1>4, AddMoves
  <2>6. CASE Moved(p, "exit") /\ k.rc = "FAILED"
    <3>1. OrderOf(k) = Access!Ended(o, "FAILED")
      BY <2>2, <2>3, <2>5, <2>6, OrderEnded, OrderMoves DEF Moved
    <3>2. Access!Fail(p)
      BY <1>2, <2>1, <2>4, <3>1, AccessUntouched DEF Access!Fail, Access!At, o
    <3> QED
      BY <3>2 DEF Access!OrderStep
  <2>7. CASE /\ ip_mac[j.ip] # None
             /\ k.pc = IF j.cmd = "add_ip" THEN "clock" ELSE "peek"
             /\ k.mac = ip_mac[j.ip]
    <3>1. k.mac \in OwnersOf(j.ip)
      BY <1>1, <2>1, <2>7 DEF BindingsOwn, MapsTypeOK, OwnersOf, Owns
    <3>2. k.pc \in {"clock", "peek"} /\ k.cmd \in AddCommand \cup DelCommand
      BY <2>1, <2>5, <2>7 DEF AddCommand, DelCommand
    <3>3. OrderOf(k) = Order(kind, "open", {k.mac}, None, j.exp, {}, "none")
      BY <2>2, <2>5, <3>2, OrderOpen
    <3>4. OrderOf(k) = Access!Meant(o, {k.mac})
      BY <2>3, <3>3, OrderMoves
    <3>5. Access!Identify(p)
      BY <1>2, <2>1, <2>4, <3>1, <3>4, AccessUntouched DEF Access!Identify, Access!At, o
    <3> QED
      BY <3>5 DEF Access!OrderStep
  <2> QED
    BY <1>1, <1>4, <2>6, <2>7, AddMoves
<1>5. CASE ResolveIp(p)
  <2>1. /\ j.pc = "resolve" /\ j.cmd = "add_mac" /\ UNCHANGED <<now, maps>>
        /\ j.cmd \in AddCommand
    BY <1>5 DEF ResolveIp, AddCommand
  <2>2. o = Order("grant", "open", {j.mac}, None, j.exp, {}, "none")
    BY <1>2, <2>1, OrderOpen, OrderKinds
  <2>3. o.kind = "grant" /\ o.stage = "open"
    BY <2>2, OrderFields
  <2>4. k.cmd = j.cmd /\ k.exp = j.exp
    BY <1>1, <1>5, AddMoves
  <2>5. CASE Moved(p, "exit") /\ k.rc = "FAILED"
    <3>1. OrderOf(k) = Access!Ended(o, "FAILED")
      BY <2>1, <2>2, <2>4, <2>5, OrderEnded, OrderMoves, OrderKinds DEF Moved
    <3>2. Access!Fail(p)
      BY <1>2, <2>1, <2>3, <3>1, AccessUntouched DEF Access!Fail, Access!At, o
    <3> QED
      BY <3>2 DEF Access!OrderStep
  <2>6. CASE k.pc = "clock" /\ k.mac = j.mac
    <3>1. OrderOf(k) = OrderOf(j)
      BY <1>2, <2>1, <2>2, <2>4, <2>6, OrderOpen, OrderKinds
    <3> QED
      BY <1>3, <2>1, <3>1
  <2> QED
    BY <1>1, <1>5, <2>5, <2>6, AddMoves
<1>6. CASE ReadClock(p)
  <2>1. /\ j.pc = "clock" /\ j.cmd \in AddCommand /\ j.sess \in Session /\ UNCHANGED <<now, maps>>
    BY <1>1, <1>6 DEF ReadClock, InvocationOK, FlowOK, AddPc
  <2>2. o = Order("grant", "open", {j.mac}, None, j.exp, {}, "none")
    BY <1>2, <2>1, OrderOpen, OrderKinds
  <2>3. o.kind = "grant" /\ o.stage = "open" /\ o.exp = j.exp
    BY <2>2, OrderFields
  <2>4. PICK e : e = IF j.exp > 0 THEN now + j.exp ELSE 0
    OBVIOUS
  <2>5. /\ k.cmd = j.cmd /\ k.exp = j.exp /\ k.pc = "client" /\ k.mac = j.mac
        /\ k.sess = [j.sess EXCEPT !.expiry = e]
    BY <1>1, <1>6, <2>4, AddMoves DEF ExpiryAt
  <2>6. k.sess.expiry = e
    BY <2>1, <2>5 DEF Session
  <2>7. OrderOf(k) = Access!Dated(o, {e})
    <3>1. /\ k.cmd \in AddCommand /\ k.pc \in {"client", "counter", "rollback", "rate"}
          /\ OrderStage(k.pc) = "ready"
      BY <2>1, <2>5, OrderStages
    <3>2. OrderOf(k) = Order("grant", "ready", {k.mac}, None, k.exp, {k.sess.expiry}, "none")
      BY <3>1, OrderMade
    <3>3. Access!Dated(o, {e}) = Order("grant", "ready", {j.mac}, None, j.exp, {e}, "none")
      BY <2>2, OrderMoves
    <3>4. {k.sess.expiry} = {e} /\ {k.mac} = {j.mac}
      BY <2>5, <2>6
    <3> QED
      BY <2>5, <3>2, <3>3, <3>4
  <2>8. Access!Prepare(p)
    BY <1>2, <2>1, <2>3, <2>4, <2>7, AccessUntouched DEF Access!Prepare, Access!At, o
  <2> QED
    BY <2>8 DEF Access!OrderStep
<1>7. CASE InsertClient(p)
  <2>1. /\ j.pc = "client" /\ j.cmd \in AddCommand /\ j.mac \in MAC /\ j.sess \in Session
        /\ UNCHANGED <<now, bypass>>
    BY <1>1, <1>7 DEF InsertClient, InvocationOK, FlowOK, AddPc
  <2>2. o = Order("grant", "ready", {j.mac}, None, j.exp, {j.sess.expiry}, "none")
    BY <1>2, <2>1, OrderMade, OrderStages
  <2>3. o.kind = "grant" /\ o.stage = "ready" /\ o.of = {j.mac} /\ o.until = {j.sess.expiry}
    BY <2>2, OrderFields
  <2>4. CASE clients' = [clients EXCEPT ![j.mac] = j.sess] /\ CtlGoto(p, "counter")
    <3>1. Grants' = [Grants EXCEPT ![j.mac] = o.until]
      <4>1. AccessOf(j.sess) = {j.sess.expiry}
        BY <2>1, ElementAssumption DEF AccessOf
      <4>2. Grants' = [Grants EXCEPT ![j.mac] = AccessOf(j.sess)]
        BY <1>1, <2>1, <2>4, GrantsUpdate
      <4> QED
        BY <2>3, <4>1, <4>2
    <3>2. k.pc = "counter" /\ k.mac = j.mac /\ k.cmd = j.cmd /\ k.exp = j.exp /\ k.sess = j.sess
      BY <1>1, <2>4, GotoMoves DEF Moved
    <3>3. OrderOf(k) = Access!Done(o)
      <4>1. k.cmd \in AddCommand /\ k.pc \in {"client", "counter", "rollback", "rate"}
        BY <2>1, <3>2
      <4>2. OrderOf(k) = Order("grant", "done", {j.mac}, None, j.exp, {j.sess.expiry}, "none")
        BY <3>2, <4>1, OrderMade, OrderStages
      <4> QED
        BY <2>2, <4>2, OrderMoves
    <3>4. Access!Grant(p)
      BY <1>2, <2>1, <2>3, <3>1, <3>3, AccessUntouched DEF Access!Grant, Access!At, o
    <3> QED
      BY <3>4 DEF Access!OrderStep
  <2>5. CASE UNCHANGED clients /\ Exit(p, "FAILED")
    <3>1. OrderOf(k) = Access!Ended(o, "FAILED")
      BY <1>1, <2>1, <2>2, <2>5, ExitMoves, OrderEnded, OrderMoves, OrderKinds DEF Moved
    <3>2. Access!Fail(p)
      BY <1>2, <2>1, <2>3, <2>5, <3>1, AccessUntouched DEF Access!Fail, Access!At, o
    <3> QED
      BY <3>2 DEF Access!OrderStep
  <2> QED
    BY <1>7, <2>4, <2>5 DEF InsertClient
<1>8. CASE InsertCounter(p)
  <2>1. /\ j.pc = "counter" /\ j.cmd \in AddCommand /\ UNCHANGED <<now, clients, bypass>>
    BY <1>1, <1>8 DEF InsertCounter, FlowOK, AddPc
  <2>2. /\ k.pc \in {"rate", "rollback"} /\ k.mac = j.mac /\ k.cmd = j.cmd /\ k.exp = j.exp
        /\ k.sess = j.sess
    BY <1>1, <1>8, GotoMoves DEF InsertCounter, Moved
  <2>3. OrderOf(k) = OrderOf(j)
    <3> DEFINE made == Order("grant", "done", {j.mac}, None, j.exp, {j.sess.expiry}, "none")
    <3>1. OrderOf(j) = made
      BY <2>1, OrderMade, OrderStages
    <3>2. /\ k.cmd \in AddCommand /\ k.pc \in {"client", "counter", "rollback", "rate"}
          /\ OrderStage(k.pc) = "done"
      BY <2>1, <2>2, OrderStages
    <3>3. OrderOf(k) = made
      BY <2>2, <3>2, OrderMade
    <3> QED
      BY <3>1, <3>3
  <2> QED
    BY <1>3, <2>1, <2>3
<1>9. CASE Rollback(p) \/ InsertRate(p)
  <2>1. /\ j.pc \in {"rollback", "rate"} /\ j.cmd \in AddCommand /\ j.mac \in MAC
        /\ UNCHANGED <<now, bypass>>
    BY <1>1, <1>9 DEF Rollback, InsertRate, InvocationOK, FlowOK, AddPc
  <2>2. o = Order("grant", "done", {j.mac}, None, j.exp, {j.sess.expiry}, "none")
    BY <1>2, <2>1, OrderMade, OrderStages
  <2>3. o.kind = "grant" /\ o.stage = "done" /\ o.of = {j.mac}
    BY <2>2, OrderFields
  <2>4. ASSUME NEW rc, Exit(p, rc) PROVE OrderOf(k) = Access!Ended(o, rc)
    BY <1>1, <2>1, <2>2, <2>4, ExitMoves, OrderEnded, OrderMoves, OrderKinds DEF Moved
  <2>5. CASE Rollback(p)
    <3>1. Grants' = [Grants EXCEPT ![j.mac] = {}]
      BY <1>1, <2>1, <2>5, GrantsUpdate DEF AccessOf, Rollback
    <3>2. Access!Withdraw(p)
      BY <1>2, <2>1, <2>3, <2>4, <2>5, <3>1
         DEF Access!Withdraw, Access!At, o, Rollback
    <3> QED
      BY <3>2 DEF Access!OrderStep
  <2>6. CASE InsertRate(p)
    <3>1. Access!Succeed(p)
      BY <1>2, <2>1, <2>3, <2>4, <2>6, AccessUntouched
         DEF Access!Succeed, Access!At, o, InsertRate
    <3> QED
      BY <3>1 DEF Access!OrderStep
  <2> QED
    BY <1>9, <2>5, <2>6
<1>10. CASE PeekClient(p) \/ DeleteRate(p)
  <2>1. /\ j.pc \in {"peek", "unrate"} /\ j.cmd \in DelCommand /\ UNCHANGED <<now, clients, bypass>>
    BY <1>1, <1>10 DEF PeekClient, DeleteRate, FlowOK, DelPc
  <2>2. /\ k.pc \in {"unrate", "unclient"} /\ k.mac = j.mac /\ k.cmd = j.cmd /\ k.exp = j.exp
    BY <1>1, <1>10, DelMoves DEF Moved
  <2>3. OrderOf(k) = OrderOf(j)
    <3> DEFINE open == Order(OrderKind(j.cmd), "open", {j.mac}, None, j.exp, {}, "none")
    <3>1. OrderOf(j) = open
      BY <2>1, OrderOpen
    <3>2. k.cmd \in DelCommand /\ k.pc \in {"unrate", "unclient"}
      BY <2>1, <2>2
    <3>3. OrderOf(k) = open
      BY <2>2, <3>2, OrderOpen
    <3> QED
      BY <3>1, <3>3
  <2> QED
    BY <1>3, <2>1, <2>3
<1>11. CASE DeleteClient(p)
  <2>1. /\ j.pc = "unclient" /\ j.cmd \in DelCommand /\ j.mac \in MAC
        /\ clients' = [clients EXCEPT ![j.mac] = None] /\ UNCHANGED <<now, bypass>>
    BY <1>1, <1>11 DEF DeleteClient, InvocationOK, FlowOK, DelPc
  <2>2. o = Order("revoke", "open", {j.mac}, None, j.exp, {}, "none")
    BY <1>2, <2>1, OrderOpen, OrderKinds
  <2>3. o.kind = "revoke" /\ o.stage = "open" /\ o.of = {j.mac}
    BY <2>2, OrderFields
  <2>4. Grants' = [Grants EXCEPT ![j.mac] = {}]
    BY <1>1, <2>1, GrantsUpdate DEF AccessOf
  <2>5. k.pc = "unbind" /\ k.mac = j.mac /\ k.cmd = j.cmd /\ k.exp = j.exp
    BY <1>1, <1>11, DelMoves DEF Moved
  <2>6. OrderOf(k) = Access!Done(o)
    <3>1. k.cmd \in DelCommand /\ k.pc \in {"unbind", "uncounter"}
      BY <2>1, <2>5
    <3>2. OrderOf(k) = Order("revoke", "done", {j.mac}, None, j.exp, {}, "none")
      BY <2>5, <3>1, OrderRevoked
    <3> QED
      BY <2>2, <3>2, OrderMoves
  <2>7. Access!Revoke(p)
    BY <1>2, <2>1, <2>3, <2>4, <2>6 DEF Access!Revoke, Access!At, o
  <2> QED
    BY <2>7 DEF Access!OrderStep
<1>12. CASE CurrentIp(p) \/ DeleteCounter(p)
  <2>1. /\ j.pc \in {"unbind", "uncounter"} /\ j.cmd \in DelCommand
        /\ UNCHANGED <<now, clients, bypass>>
    BY <1>1, <1>12 DEF CurrentIp, DeleteCounter, FlowOK, DelPc
  <2>2. o = Order("revoke", "done", {j.mac}, None, j.exp, {}, "none")
    BY <1>2, <2>1, OrderRevoked
  <2>3. o.kind = "revoke" /\ o.stage = "done"
    BY <2>2, OrderFields
  <2>4. k.mac = j.mac /\ k.cmd = j.cmd /\ k.exp = j.exp
    BY <1>1, <1>12, DelMoves DEF Moved
  <2>5. CASE k.pc = "exit" /\ k.rc = "SUCCESS"
    <3>1. OrderOf(k) = Access!Ended(o, "SUCCESS")
      BY <2>1, <2>2, <2>4, <2>5, OrderEnded, OrderMoves, OrderKinds
    <3>2. Access!Succeed(p)
      BY <1>2, <2>1, <2>3, <3>1, AccessUntouched DEF Access!Succeed, Access!At, o
    <3> QED
      BY <3>2 DEF Access!OrderStep
  <2>6. CASE k.pc = "uncounter"
    <3>1. OrderOf(k) = OrderOf(j)
      BY <1>2, <2>1, <2>2, <2>4, <2>6, OrderRevoked
    <3> QED
      BY <1>3, <2>1, <3>1
  <2>7. DeleteCounter(p) => k.pc = "exit" /\ k.rc = "SUCCESS"
    BY <1>1, ExitMoves DEF DeleteCounter, Moved
  <2> QED
    BY <1>1, <1>12, <2>5, <2>6, <2>7, DelMoves DEF Moved
<1>13. CASE MapDelStep(p)
  <2>1. /\ j.pc = "single" /\ j.cmd = "map_del" /\ j.mac \in MAC
        /\ clients' = [clients EXCEPT ![j.mac] = None] /\ UNCHANGED <<now, bypass>>
    BY <1>1, <1>13 DEF MapDelStep, InvocationOK
  <2> DEFINE rc == IF clients[j.mac] = None THEN "FAILED" ELSE "SUCCESS"
  <2>2. o = Order("drop", "open", {j.mac}, None, j.exp, {}, "none")
    BY <1>2, <2>1, OrderSingle
  <2>3. o.kind = "drop" /\ o.stage = "open" /\ o.of = {j.mac}
    BY <2>2, OrderFields
  <2>4. /\ Grants' = [Grants EXCEPT ![j.mac] = {}]
        /\ Grants[j.mac] = {} <=> clients[j.mac] = None
    BY <1>1, <2>1, GrantsUpdate DEF AccessOf, Grants
  <2>5. Exit(p, rc)
    BY <1>13 DEF MapDelStep
  <2>6. rc = IF Grants[j.mac] = {} THEN "FAILED" ELSE "SUCCESS"
    BY <2>4
  <2> HIDE DEF rc
  <2>7. OrderOf(k) = Access!Ended(o, rc)
    BY <1>1, <2>1, <2>2, <2>5, ExitMoves, OrderEnded, OrderMoves, OrderKinds DEF Moved
  <2>8. Access!Drop(p)
    BY <1>2, <2>1, <2>3, <2>4, <2>6, <2>7 DEF Access!Drop, Access!At, o
  <2> QED
    BY <2>8 DEF Access!OrderStep
<1>14. CASE BypassStep(p)
  <2>1. j.pc = "single" /\ UNCHANGED <<now, clients>>
    BY <1>14 DEF BypassStep
  <2>2. ASSUME NEW rc, Exit(p, rc), j.cmd \in {"bypass_add", "bypass_del"}
        PROVE  /\ o.kind = OrderKind(j.cmd) /\ o.stage = "open" /\ o.at = j.ip
               /\ OrderOf(k) = Access!Ended(o, rc)
    <3>1. o = Order(OrderKind(j.cmd), "open", {}, j.ip, j.exp, {}, "none")
      BY <1>2, <2>1, <2>2, OrderSingle
    <3> QED
      BY <1>1, <2>2, <3>1, OrderFields, ExitMoves, OrderEnded, OrderMoves DEF Moved
  <2>3. CASE j.cmd = "bypass_add" /\ bypass' = bypass \cup {j.ip} /\ Exit(p, "SUCCESS")
    <3>1. Access!Exempt(p)
      BY <1>2, <2>1, <2>2, <2>3, OrderKinds, AccessUntouched DEF Access!Exempt, Access!At, o
    <3> QED
      BY <3>1 DEF Access!OrderStep
  <2>4. ASSUME NEW rc, rc = (IF j.ip \in bypass THEN "SUCCESS" ELSE "FAILED"),
               j.cmd = "bypass_del", bypass' = bypass \ {j.ip}, Exit(p, rc)
        PROVE  Access!Include(p)
    BY <1>2, <2>1, <2>2, <2>4, OrderKinds, AccessUntouched DEF Access!Include, Access!At, o
  <2>5. CASE j.cmd = "bypass_add" /\ UNCHANGED bypass /\ Exit(p, "FAILED")
    <3>1. Access!Fail(p)
      BY <1>2, <2>1, <2>2, <2>5, OrderKinds, AccessUntouched DEF Access!Fail, Access!At, o
    <3> QED
      BY <3>1 DEF Access!OrderStep
  <2> QED
    BY <1>14, <2>3, <2>4, <2>5 DEF BypassStep, Access!OrderStep
<1> QED
  BY <1>4, <1>5, <1>6, <1>7, <1>8, <1>9, <1>10, <1>11, <1>12, <1>13, <1>14 DEF CtlStep

\* A command begins with its order, and is forgotten with it.
LEMMA TargetsKnown ==
  /\ \A m \in MAC : {m} \in Access!Targets
  /\ \A i \in IP : OwnersOf(i) \in Access!Targets
BY DEF Access!Targets, Access!Owners, OwnersOf

LEMMA CommandBegins ==
  ASSUME CtlTypeOK, NEW p \in Proc, NEW k, ctl[p].pc = "idle", ctl' = [ctl EXCEPT ![p] = k],
         UNCHANGED <<now, maps, cpu>>,
         \/ \E D \in Access!Targets, t \in Timeout :
              OrderOf(k) = Order("grant", "open", D, None, t, {}, "none")
         \/ \E D \in Access!Targets : OrderOf(k) = Order("revoke", "open", D, None, 0, {}, "none")
         \/ \E m \in MAC : OrderOf(k) = Order("drop", "open", {m}, None, 0, {}, "none")
         \/ \E kind \in {"exempt", "include"}, i \in IP :
              OrderOf(k) = Order(kind, "open", {}, i, 0, {}, "none")
  PROVE  Access!OrderStep(p)
<1>1. ctl \in [Proc -> Invocation]
  BY DEF CtlTypeOK
<1>2. ctl'[p] = k /\ \A q \in Proc \ {p} : ctl'[q] = ctl[q]
  BY <1>1
<1>3. Access!Give(p, OrderOf(k))
  BY <1>2, OrdersUpdate DEF Access!Give
<1>4. Orders[p].stage = "none"
  BY OrderStages DEF Orders, OrderOf
<1>5. \A kind, D, i, t : Access!Opened(kind, D, i, t) = Order(kind, "open", D, i, t, {}, "none")
  BY DEF Access!Opened, Order
<1>6. Access!Request(p)
  BY <1>3, <1>4, <1>5, AccessUntouched DEF Access!Request
<1> QED
  BY <1>6 DEF Access!OrderStep

LEMMA AddBegins ==
  ASSUME CtlTypeOK, NEW p \in Proc, NEW cmd, NEW m \in MAC, NEW i \in IP,
         NEW exp \in Timeout, NEW lim \in Limit, Add(p, cmd, m, i, exp, lim), UNCHANGED cpu
  PROVE  Access!OrderStep(p)
<1> DEFINE s == [expiry |-> 0, rate |-> RateIdFor(cmd, m, i, lim), lim |-> lim]
           k == [NoCommand EXCEPT
                   !.pc = IF cmd = "add_both" THEN "clock" ELSE "resolve",
                   !.cmd = cmd,
                   !.mac = IF cmd = "add_ip" THEN None ELSE m,
                   !.ip = IF cmd = "add_mac" THEN None ELSE i,
                   !.exp = exp,
                   !.sess = s]
<1>1. cmd \in AddCommand /\ ctl[p].pc = "idle" /\ ctl' = [ctl EXCEPT ![p] = k]
      /\ UNCHANGED <<now, maps, cpu>>
  BY DEF Add
<1> HIDE DEF s
<1>2. /\ k.pc = IF cmd = "add_both" THEN "clock" ELSE "resolve"
      /\ k.cmd = cmd /\ k.exp = exp
      /\ cmd # "add_ip" => k.mac = m
      /\ cmd # "add_mac" => k.ip = i
  BY DEF NoCommand
<1> HIDE DEF k
<1>3. CASE cmd = "add_ip"
  <2>1. k.pc = "resolve" /\ k.cmd # "add_mac" /\ k.cmd \in AddCommand \cup DelCommand /\ k.ip = i
    BY <1>1, <1>2, <1>3
  <2>2. OrderOf(k) = Order("grant", "open", OwnersOf(i), None, exp, {}, "none")
    BY <1>1, <1>2, <2>1, OrderResolve, OrderKinds
  <2> QED
    BY <1>1, <2>2, TargetsKnown, CommandBegins
<1>4. CASE cmd # "add_ip"
  <2>1. /\ k.pc \in {"resolve", "clock", "peek", "unrate", "unclient"}
        /\ k.pc # "resolve" \/ k.cmd = "add_mac"
        /\ k.cmd \in AddCommand \cup DelCommand
    BY <1>1, <1>2, <1>4 DEF AddCommand
  <2>2. OrderOf(k) = Order("grant", "open", {m}, None, exp, {}, "none")
    BY <1>1, <1>2, <1>4, <2>1, OrderOpen, OrderKinds
  <2> QED
    BY <1>1, <2>2, TargetsKnown, CommandBegins
<1> QED
  BY <1>3, <1>4

LEMMA DelBegins ==
  ASSUME CtlTypeOK, NEW p \in Proc, NEW cmd, NEW m \in MAC, NEW i \in IP,
         Del(p, cmd, m, i), UNCHANGED cpu
  PROVE  Access!OrderStep(p)
<1> DEFINE k == [NoCommand EXCEPT
                   !.pc = IF cmd = "del_ip" THEN "resolve" ELSE "peek",
                   !.cmd = cmd,
                   !.mac = IF cmd = "del_ip" THEN None ELSE m,
                   !.ip = IF cmd = "del_ip" THEN i ELSE None]
<1>1. cmd \in DelCommand /\ ctl[p].pc = "idle" /\ ctl' = [ctl EXCEPT ![p] = k]
      /\ UNCHANGED <<now, maps, cpu>>
  BY DEF Del
<1>2. /\ k.pc = IF cmd = "del_ip" THEN "resolve" ELSE "peek"
      /\ k.cmd = cmd /\ k.exp = 0
      /\ cmd # "del_ip" => k.mac = m
      /\ cmd = "del_ip" => k.ip = i
  BY DEF NoCommand
<1> HIDE DEF k
<1>3. CASE cmd = "del_ip"
  <2>1. k.pc = "resolve" /\ k.cmd # "add_mac" /\ k.cmd \in AddCommand \cup DelCommand /\ k.ip = i
    BY <1>1, <1>2, <1>3
  <2>2. OrderOf(k) = Order("revoke", "open", OwnersOf(i), None, 0, {}, "none")
    BY <1>1, <1>2, <2>1, OrderResolve, OrderKinds
  <2> QED
    BY <1>1, <2>2, TargetsKnown, CommandBegins
<1>4. CASE cmd # "del_ip"
  <2>1. /\ k.pc \in {"resolve", "clock", "peek", "unrate", "unclient"} /\ k.pc # "resolve"
        /\ k.cmd \in AddCommand \cup DelCommand
    BY <1>1, <1>2, <1>4
  <2>2. OrderOf(k) = Order("revoke", "open", {m}, None, 0, {}, "none")
    BY <1>1, <1>2, <1>4, <2>1, OrderOpen, OrderKinds
  <2> QED
    BY <1>1, <2>2, TargetsKnown, CommandBegins
<1> QED
  BY <1>3, <1>4

LEMMA SingleBegins ==
  ASSUME CtlTypeOK, NEW p \in Proc, NEW m, NEW i, NEW cmd,
         \/ m \in MAC /\ MapDel(p, m)
         \/ i \in IP /\ Bypass(p, cmd, i),
         UNCHANGED cpu
  PROVE  Access!OrderStep(p)
<1>1. CASE m \in MAC /\ MapDel(p, m)
  <2> DEFINE k == [NoCommand EXCEPT !.pc = "single", !.cmd = "map_del", !.mac = m]
  <2>1. k.pc = "single" /\ k.cmd = "map_del" /\ k.mac = m /\ k.exp = 0
    BY DEF NoCommand
  <2>2. ctl[p].pc = "idle" /\ ctl' = [ctl EXCEPT ![p] = k] /\ UNCHANGED <<now, maps, cpu>>
    BY <1>1 DEF MapDel
  <2> HIDE DEF k
  <2>3. OrderOf(k) = Order("drop", "open", {m}, None, 0, {}, "none")
    BY <2>1, OrderSingle
  <2> QED
    BY <1>1, <2>2, <2>3, CommandBegins
<1>2. CASE i \in IP /\ Bypass(p, cmd, i)
  <2> DEFINE k == [NoCommand EXCEPT !.pc = "single", !.cmd = cmd, !.ip = i]
  <2>1. k.pc = "single" /\ k.cmd = cmd /\ k.ip = i /\ k.exp = 0
    BY DEF NoCommand
  <2>2. /\ cmd \in {"bypass_add", "bypass_del"} /\ ctl[p].pc = "idle"
        /\ ctl' = [ctl EXCEPT ![p] = k] /\ UNCHANGED <<now, maps, cpu>>
    BY <1>2 DEF Bypass
  <2> HIDE DEF k
  <2>3. OrderOf(k) = Order(OrderKind(cmd), "open", {}, i, 0, {}, "none")
    BY <2>1, <2>2, OrderSingle
  <2>4. OrderKind(cmd) \in {"exempt", "include"}
    BY <2>2, OrderKinds
  <2> QED
    BY <1>2, <2>2, <2>3, <2>4, CommandBegins
<1> QED
  BY <1>1, <1>2

LEMMA ReapImplements ==
  ASSUME CtlTypeOK, NEW p \in Proc, Reap(p), UNCHANGED cpu
  PROVE  Access!OrderStep(p)
<1>1. ctl \in [Proc -> Invocation] /\ ctl[p].pc = "exit" /\ UNCHANGED <<now, maps>>
  BY DEF Reap, CtlTypeOK
<1>2. ctl'[p] = NoCommand /\ \A q \in Proc \ {p} : ctl'[q] = ctl[q]
  BY <1>1 DEF Reap
<1>3. Orders' = [Orders EXCEPT ![p] = Access!NoOrder]
  BY <1>2, OrdersUpdate, OrderNone
<1>4. Orders[p].stage = "ended"
  BY <1>1, OrderStages DEF Orders, OrderOf
<1>5. Access!Forget(p)
  BY <1>1, <1>3, <1>4, AccessUntouched DEF Access!Forget, Access!Give
<1> QED
  BY <1>5 DEF Access!OrderStep

-----------------------------------------------------------------------------
(***************************************************************************)
(* The steps of the rest of the gateway, and all of them.                  *)
(***************************************************************************)
LEMMA IdlePacket == PacketOf(Idle) = Access!NoPacket
<1>1. /\ Idle.pc = "idle" /\ Idle.dir = "none" /\ Idle.ip = None /\ Idle.arr = 0
      /\ Idle.sess = None /\ Idle.ver = "none"
  BY DEF Idle
<1>2. PacketStage("idle") = "none" /\ AccessOf(None) = {}
  BY PacketStages DEF AccessOf
<1> QED
  BY <1>1, <1>2 DEF PacketOf, Access!NoPacket

LEMMA ArriveImplements ==
  ASSUME DatapathTypeOK, NEW c \in CPU, NEW i \in IP, UNCHANGED ctl,
         Egress(c, i) \/ \E m \in MAC : Ingress(c, m, i)
  PROVE  Access!PacketStep(c)
<1>1. cpu[c].pc = "idle" /\ UNCHANGED <<now, clients, bypass>>
  BY DEF Egress, Ingress
<1>2. Packets[c].stage = "none"
  BY <1>1, PacketStages DEF Packets, PacketOf
<1>3. PacketStage("bypass") = "held" /\ AccessOf(None) = {}
  BY PacketStages DEF AccessOf
<1>4. ASSUME NEW m \in MAC, Ingress(c, m, i)
      PROVE  Access!Hold(c, Access!Arrived("in", m, i, now))
  <2> DEFINE k == [Idle EXCEPT !.dir = "in", !.pc = "bypass", !.mac = m, !.ip = i, !.arr = now]
  <2>1. /\ k.dir = "in" /\ k.pc = "bypass" /\ k.mac = m /\ k.ip = i /\ k.arr = now
        /\ k.sess = None /\ k.ver = "none"
    BY DEF Idle
  <2>2. cpu' = [cpu EXCEPT ![c] = k]
    BY <1>4 DEF Ingress
  <2> HIDE DEF k
  <2>3. PacketOf(k) = Access!Arrived("in", m, i, now)
    BY <1>3, <2>1 DEF PacketOf, Access!Arrived
  <2> QED
    BY <2>2, <2>3, PacketsUpdate DEF Access!Hold
<1>5. ASSUME Egress(c, i)
      PROVE  Access!Hold(c, Access!Arrived("out", None, i, now))
  <2> DEFINE k == [Idle EXCEPT !.dir = "out", !.pc = "bypass", !.ip = i, !.arr = now]
  <2>1. /\ k.dir = "out" /\ k.pc = "bypass" /\ k.ip = i /\ k.arr = now
        /\ k.sess = None /\ k.ver = "none"
    BY DEF Idle
  <2>2. cpu' = [cpu EXCEPT ![c] = k]
    BY <1>5 DEF Egress
  <2> HIDE DEF k
  <2>3. PacketOf(k) = Access!Arrived("out", None, i, now)
    BY <1>3, <2>1 DEF PacketOf, Access!Arrived
  <2> QED
    BY <2>2, <2>3, PacketsUpdate DEF Access!Hold
<1>6. Access!Arrive(c)
  BY <1>1, <1>2, <1>4, <1>5, AccessUntouched DEF Access!Arrive
<1> QED
  BY <1>6 DEF Access!PacketStep

LEMMA LeaveImplements ==
  ASSUME DatapathTypeOK, NEW c \in CPU, UNCHANGED ctl, Return(c)
  PROVE  Access!PacketStep(c)
<1>1. cpu[c].pc = "done" /\ UNCHANGED <<now, clients, bypass>> /\ cpu' = [cpu EXCEPT ![c] = Idle]
  BY DEF Return
<1>2. Packets[c].stage = "out"
  BY <1>1, PacketStages DEF Packets, PacketOf
<1>3. Packets' = [Packets EXCEPT ![c] = Access!NoPacket]
  BY <1>1, IdlePacket, PacketsUpdate
<1>4. Access!Leave(c)
  BY <1>1, <1>2, <1>3, AccessUntouched DEF Access!Leave, Access!Hold
<1> QED
  BY <1>4 DEF Access!PacketStep

LEMMA StepImplements ==
  ASSUME AccessInv, [Next]_vars
  PROVE  [Access!Next]_(Access!avars)
<1>1. /\ MapsTypeOK /\ DatapathTypeOK /\ CtlTypeOK /\ AddrLeased
      /\ addr \in [MAC -> IP \cup {None}]
  BY DEF AccessInv, WorkInv, SourceInv, TypeOK, EnvTypeOK
<1>2. ASSUME UNCHANGED <<now, maps, cpu, ctl>> PROVE UNCHANGED Access!avars
  BY <1>2, AccessUntouched DEF Access!avars
<1>3. CASE UNCHANGED vars
  BY <1>2, <1>3 DEF vars
<1>4. CASE Tick
  <2>1. Access!Tick
    BY <1>4, AccessUntouched DEF Tick, Access!Tick
  <2> QED
    BY <2>1 DEF Access!Next
<1>5. CASE \E m \in MAC : Release(m) \/ \E i \in IP : Lease(m, i)
  BY <1>2, <1>5 DEF Release, Lease
<1>6. ASSUME NEW m \in MAC, Login(m) PROVE Access!Next
  <2>1. addr[m] \in IP /\ Daemon \in Proc /\ UNCHANGED cpu
    BY <1>1, <1>6 DEF Login, AccessInv, WorkInv, SourceInv, TypeOK, EnvTypeOK
  <2>2. Access!OrderStep(Daemon)
    BY <1>1, <1>6, <2>1, AddBegins DEF Login
  <2> QED
    BY <2>1, <2>2 DEF Access!Next
<1>7. ASSUME NEW c \in CPU, Run(c) \/ Deliver(c) \/ Download(c) \/ \E m \in MAC : Upload(c, m)
      PROVE  Access!Next \/ UNCHANGED Access!avars
  <2>1. CASE Run(c)
    BY <2>1, ProgramImplements DEF Run, Access!Next
  <2>2. CASE Deliver(c)
    BY <1>1, <2>2, LeaveImplements DEF Deliver, Access!Next
  <2>3. CASE Download(c)
    BY <1>1, <2>3, ArriveImplements DEF Download, Access!Next
  <2>4. ASSUME NEW m \in MAC, Upload(c, m) PROVE Access!Next
    <3>1. PICK i \in IP : Ingress(c, m, i) /\ UNCHANGED ctl
      BY <1>1, <2>4 DEF Upload
    <3> QED
      BY <1>1, <3>1, ArriveImplements DEF Access!Next
  <2> QED
    BY <1>7, <2>1, <2>2, <2>3, <2>4
<1>8. ASSUME NEW p \in Proc, Operator(p) \/ Ctl(p) \/ Wait(p)
      PROVE  Access!Next \/ UNCHANGED Access!avars
  <2>1. CASE Operator(p)
    <3>1. PICK cmd \in Commands :
            \/ \E m \in MAC, i \in IP \ {Unspecified} : OperatorFor(p, cmd, m, i)
            \/ \E i \in IP \ {Unspecified} : Bypass(p, cmd, i)
      BY <2>1, OperatorCases
    <3>2. UNCHANGED cpu
      BY <2>1 DEF Operator
    <3>3. Access!OrderStep(p)
      BY <1>1, <3>1, <3>2, AddBegins, DelBegins, SingleBegins DEF OperatorFor
    <3> QED
      BY <3>3 DEF Access!Next
  <2>2. CASE Ctl(p)
    BY <2>2, CommandImplements DEF Ctl, Access!Next
  <2>3. CASE Wait(p)
    BY <1>1, <2>3, ReapImplements DEF Wait, Access!Next
  <2> QED
    BY <1>8, <2>1, <2>2, <2>3
<1> QED
  BY <1>3, <1>4, <1>5, <1>6, <1>7, <1>8 DEF Next

LEMMA AccessInit == Init => AccessInv /\ Access!Init
<1> SUFFICES ASSUME Init PROVE AccessInv /\ Access!Init
  OBVIOUS
<1>1. WorkInv
  BY FlowInit DEF FlowInv, WorkInv, LoginInv, SourceInv
<1>2. \A c \in CPU : cpu[c] = Idle
  BY DEF Init, DatapathInit
<1>3. TypeOK
  BY InitType
<1>4. \A c \in CPU : SeenOK(cpu[c], now)
  <2>1. SeenOK(Idle, now)
    BY DEF SeenOK, Idle, HoldsSession
  <2> QED
    BY <1>2, <2>1
<1>5. UploadInv
  <2>1. UploadOK(Idle, now)
    BY DEF UploadOK, Idle, Init, MapsInit
  <2> QED
    BY <1>2, <1>3, <2>1 DEF UploadInv
<1>6. Packets = [c \in CPU |-> Access!NoPacket]
  BY <1>2, IdlePacket DEF Packets
<1>7. Orders = [p \in Proc |-> Access!NoOrder]
  BY OrderNone DEF Init, CtlInit, Orders
<1>8. Grants = [m \in MAC |-> {}]
  BY DEF Init, MapsInit, Grants, AccessOf
<1> QED
  BY <1>1, <1>4, <1>5, <1>6, <1>7, <1>8 DEF AccessInv, Access!Init, Init, MapsInit

(***************************************************************************)
(* The gateway (hg_tc.bpf.c, hg_cli.c and hg_control.c on one set of maps) *)
(* keeps the promises of HgAccess: whatever commands, logins and packets   *)
(* are under way, every step of it changes who has access, ends an order   *)
(* or decides about a packet as the abstract specification allows.         *)
(***************************************************************************)
THEOREM AccessRefinement == Spec => ImplementsAccess
<1>1. AccessInv /\ [Next]_vars => AccessInv' /\ [Access!Next]_(Access!avars)
  BY AccessKept, StepImplements
<1> QED
  BY <1>1, AccessInit, PTL DEF Spec, ImplementsAccess, Access!Spec
=============================================================================
