--------------------------- MODULE HgSessionProofs --------------------------
(***************************************************************************)
(* What `hgctl add`, `hgctl del` and the expiry of step 5 leave in the     *)
(* maps: sessions, counters and rate profiles belong together, under the   *)
(* conditions each theorem names.  And what a page request can be told     *)
(* about the device that asks: the reader looks at one map after the       *)
(* other, while the device's session is added, expires, is deleted or      *)
(* taken back.                                                             *)
(***************************************************************************)
EXTENDS HgReader, HgGatewayProofs

USE DEF maps

-----------------------------------------------------------------------------
(***************************************************************************)
(* SessionIsServed.                                                        *)
(***************************************************************************)
\* Every device has one address, and nobody else has it.
OneHome == OwnAddresses /\ \A l, k \in Leases : l[1] = k[1] => l[2] = k[2]

LEMMA OneAddress ==
  ASSUME OneHome, NEW m, NEW i, NEW k, Owns(m, i), Owns(m, k)
  PROVE  i = k
<1>1. <<m, i>>[1] = m /\ <<m, i>>[2] = i /\ <<m, k>>[1] = m /\ <<m, k>>[2] = k
  OBVIOUS
<1> QED
  BY <1>1 DEF OneHome, Owns

\* Nothing else runs beside a `del`: there are none, or one hgctl at a time.
DelAlone == Commands \cap DelCommand = {} \/ \A p, q \in Proc : p = q

LEMMA NoneBeside ==
  ASSUME DelAlone, FlowInv, NEW p \in Proc, NEW q \in Proc, ctl[p].cmd \in DelCommand
  PROVE  q = p
<1>1. ctl[p].cmd \in Commands
  BY DEF FlowInv, FlowOK, DelCommand
<1> QED
  BY <1>1 DEF DelAlone

\* Where `add -m` is used no device is seen without an address: it would take
\* 0.0.0.0 for the address of a device whose last packet was a DHCP request.
AddressesSeen == "add_mac" \in Commands => Unspecified \notin IP

LEMMA WorksForOwn ==
  ASSUME AddressesSeen, FlowInv, NEW p \in Proc, ctl[p].pc \in AddPc
  PROVE  Owns(ctl[p].mac, ctl[p].ip)
<1>1. ctl[p].ip \in IP /\ FlowOK(ctl[p])
  BY DEF FlowInv, LoginInv, TypeOK, CtlTypeOK, InvocationOK
<1> QED
  BY <1>1 DEF FlowOK, AddressesSeen

\* A session has the counter it needs, or its `add` is about to insert the
\* counter or to take the session back.
Inserting(p, m) == ctl[p].pc \in {"counter", "rollback"} /\ ctl[p].mac = m
Served ==
  \A m \in MAC : clients[m] # None =>
    \/ \A i \in IP : Owns(m, i) => counters[i] # None
    \/ \E p \in Proc : Inserting(p, m)

\* A `del` that has deleted the session goes on to the counter; nobody has
\* inserted a session in between.
NotRevived ==
  \A p \in Proc : ctl[p].pc \in {"unbind", "uncounter"} => clients[ctl[p].mac] = None

ServedInv == FlowInv /\ Served /\ NotRevived

LEMMA ServedStep ==
  ASSUME OneHome, DelAlone, AddressesSeen, ServedInv, NEW p \in Proc, Commanded(p)
  PROVE  Served' /\ NotRevived'
<1> DEFINE j == ctl[p]
           k == ctl'[p]
<1>1. /\ CtlTypeOK /\ MapsTypeOK /\ FlowInv /\ InvocationOK(j) /\ FlowOK(j)
      /\ \A q \in Proc \ {p} : ctl'[q] = ctl[q]
      /\ clients \in [MAC -> Session \cup {None}]
      /\ counters \in [IP -> CounterState \cup {None}]
  BY DEF ServedInv, FlowInv, LoginInv, TypeOK, CtlTypeOK, MapsTypeOK, Commanded, Only
<1>2. CtlStep(p) /\ OwnAddresses
  BY DEF Commanded, OneHome
<1>3. \A q \in Proc : ctl[q].pc \in {"unbind", "uncounter"} => q = p
  <2>1. ASSUME NEW q \in Proc, ctl[q].pc \in {"unbind", "uncounter"} PROVE q = p
    <3>1. ctl[q].cmd \in DelCommand
      BY <1>1, <2>1 DEF FlowInv, FlowOK, DelPc
    <3> QED
      BY <1>1, <3>1, NoneBeside
  <2> QED
    BY <2>1
<1>4. ASSUME k.pc \in {"unbind", "uncounter"} => clients'[k.mac] = None PROVE NotRevived'
  BY <1>1, <1>3, <1>4 DEF NotRevived
<1>5. ASSUME j.pc \notin {"counter", "rollback"}, UNCHANGED counters,
             \A m \in MAC : clients'[m] \in {clients[m], None}
      PROVE  Served'
  BY <1>1, <1>5 DEF ServedInv, Served, Inserting
<1>6. CASE ResolveMac(p) \/ ResolveIp(p) \/ ReadClock(p)
  <2>1. UNCHANGED <<clients, counters>> /\ j.pc \in {"resolve", "clock"}
    BY <1>6 DEF ResolveMac, ResolveIp, ReadClock
  <2>2. k.pc \notin {"unbind", "uncounter"}
    BY <1>1, <1>6, AddMoves DEF Moved
  <2> QED
    BY <1>4, <1>5, <2>1, <2>2
<1>7. CASE InsertClient(p)
  <2>1. j.pc = "client" /\ j.mac \in MAC /\ UNCHANGED counters
    BY <1>1, <1>7 DEF InsertClient, InvocationOK, AddPc
  <2>2. CASE UNCHANGED clients /\ Moved(p, "exit")
    BY <1>4, <1>5, <2>1, <2>2 DEF Moved
  <2>3. CASE Moved(p, "counter")
    <3>1. \A m \in MAC \ {j.mac} : clients'[m] = clients[m]
      BY <1>1, <1>7, <2>1 DEF InsertClient
    <3>2. k.pc = "counter" /\ k.mac = j.mac
      BY <2>3 DEF Moved
    <3>3. Served'
      <4>1. \A q \in Proc, m \in MAC : Inserting(q, m) => Inserting(q, m)'
        BY <1>1, <2>1 DEF Inserting
      <4> QED
        BY <2>1, <3>1, <3>2, <4>1 DEF ServedInv, Served, Inserting
    <3> QED
      BY <1>4, <2>3, <3>3 DEF Moved
  <2> QED
    BY <1>1, <1>7, <2>2, <2>3, AddMoves
<1>8. CASE InsertCounter(p)
  <2>1. /\ j.pc = "counter" /\ j.mac \in MAC /\ j.ip \in IP /\ UNCHANGED clients
        /\ Owns(j.mac, j.ip)
    BY <1>1, <1>8, WorksForOwn DEF InsertCounter, InvocationOK, AddPc
  <2>2. CASE UNCHANGED counters /\ Moved(p, "rollback")
    <3>1. \A q \in Proc, m \in MAC : Inserting(q, m) => Inserting(q, m)'
      BY <1>1, <2>2 DEF Inserting, Moved
    <3>2. Served'
      BY <2>1, <2>2, <3>1 DEF ServedInv, Served, Inserting
    <3> QED
      BY <1>4, <2>2, <3>2 DEF Moved
  <2>3. CASE Moved(p, "rate")
    <3>1. counters' = [counters EXCEPT ![j.ip] = "AUTH_OK"]
      <4>1. ~CtlGoto(p, "rollback")
        BY <1>1, <2>3, GotoMoves DEF Moved
      <4> QED
        BY <1>8, <4>1 DEF InsertCounter
    <3>2. counters'[j.ip] # None /\ \A i \in IP \ {j.ip} : counters'[i] = counters[i]
      BY <1>1, <2>1, <3>1, NoneAssumption
    <3>3. \A i \in IP : Owns(j.mac, i) => counters'[i] # None
      BY <2>1, <3>2, OneAddress
    <3>4. \A q \in Proc, m \in MAC \ {j.mac} : Inserting(q, m) => Inserting(q, m)'
      BY <1>1 DEF Inserting
    <3>5. \A i \in IP : counters[i] # None => counters'[i] # None
      BY <3>2
    <3>6. Served'
      BY <2>1, <3>3, <3>4, <3>5 DEF ServedInv, Served, Inserting
    <3> QED
      BY <1>4, <2>3, <3>6 DEF Moved
  <2> QED
    BY <1>1, <1>8, <2>2, <2>3, AddMoves
<1>9. CASE Rollback(p)
  <2>1. /\ j.pc = "rollback" /\ j.mac \in MAC /\ UNCHANGED counters
        /\ clients' = [clients EXCEPT ![j.mac] = None]
    BY <1>1, <1>9 DEF Rollback, InvocationOK, AddPc
  <2>2. clients'[j.mac] = None /\ \A m \in MAC \ {j.mac} : clients'[m] = clients[m]
    BY <1>1, <2>1
  <2>3. \A q \in Proc, m \in MAC \ {j.mac} : Inserting(q, m) => Inserting(q, m)'
    BY <1>1 DEF Inserting
  <2>4. Served'
    BY <2>1, <2>2, <2>3 DEF ServedInv, Served
  <2> QED
    BY <1>1, <1>4, <1>9, <2>4, AddMoves DEF Moved
<1>10. CASE InsertRate(p) \/ PeekClient(p) \/ DeleteRate(p)
  <2>1. UNCHANGED <<clients, counters>> /\ j.pc \in {"rate", "peek", "unrate"}
    BY <1>10 DEF InsertRate, PeekClient, DeleteRate
  <2>2. k.pc \notin {"unbind", "uncounter"}
    BY <1>1, <1>10, AddMoves, DelMoves DEF Moved
  <2> QED
    BY <1>4, <1>5, <2>1, <2>2
<1>11. CASE DeleteClient(p)
  <2>1. /\ j.pc = "unclient" /\ j.mac \in MAC /\ UNCHANGED counters
        /\ clients' = [clients EXCEPT ![j.mac] = None]
    BY <1>1, <1>11 DEF DeleteClient, InvocationOK, DelPc
  <2>2. k.mac = j.mac
    BY <1>1, <1>11, DelMoves DEF Moved
  <2> QED
    BY <1>1, <1>4, <1>5, <2>1, <2>2
<1>12. CASE CurrentIp(p)
  <2>1. UNCHANGED <<clients, counters>> /\ j.pc = "unbind"
    BY <1>12 DEF CurrentIp
  <2>2. k.mac = j.mac
    BY <1>1, <1>12, DelMoves DEF Moved
  <2> QED
    BY <1>4, <1>5, <2>1, <2>2 DEF ServedInv, NotRevived
<1>13. CASE DeleteCounter(p)
  <2>1. /\ j.pc = "uncounter" /\ j.mac \in MAC /\ j.ip \in IP /\ UNCHANGED clients
        /\ counters' = [counters EXCEPT ![j.ip] = None]
        /\ clients[j.mac] = None
        /\ Owns(j.mac, j.ip) \/ j.ip = Unspecified
    BY <1>1, <1>13 DEF DeleteCounter, InvocationOK, DelPc, ServedInv, NotRevived, FlowOK
  <2>2. \A i \in IP \ {j.ip} : counters'[i] = counters[i]
    BY <1>1, <2>1
  <2>3. \A m \in MAC \ {j.mac} : ~Owns(m, j.ip)
    BY <1>2, <2>1, OneOwner, LeasesAssumption DEF Owns
  <2>4. \A q \in Proc, m \in MAC : Inserting(q, m) => Inserting(q, m)'
    BY <1>1, <2>1 DEF Inserting
  <2>5. Served'
    BY <2>1, <2>2, <2>3, <2>4 DEF ServedInv, Served
  <2> QED
    BY <1>1, <1>4, <1>13, <2>5, DelMoves DEF Moved
<1>14. CASE MapDelStep(p) \/ BypassStep(p)
  <2>1. UNCHANGED counters /\ j.pc = "single" /\ \A m \in MAC : clients'[m] \in {clients[m], None}
    BY <1>1, <1>14 DEF MapDelStep, BypassStep
  <2>2. k.pc = "exit"
    BY <1>1, <1>14, DelMoves DEF Moved
  <2> QED
    BY <1>4, <1>5, <2>1, <2>2
<1> QED
  BY <1>2, <1>6, <1>7, <1>8, <1>9, <1>10, <1>11, <1>12, <1>13, <1>14 DEF CtlStep

LEMMA ServedNext ==
  ASSUME OneHome, DelAlone, AddressesSeen, ServedInv, [Next]_vars
  PROVE  ServedInv'
<1>1. FlowInv /\ FlowInv' /\ LoginInv /\ TypeOK /\ CtlTypeOK
  BY FlowNext DEF ServedInv, FlowInv, OneHome, LoginInv, TypeOK
<1>2. CASE Elsewhere
  <2>1. Served' /\ NotRevived'
    BY <1>2 DEF Elsewhere, ServedInv, Served, NotRevived, Inserting
  <2> QED
    BY <1>1, <2>1 DEF ServedInv
<1>3. CASE Programs
  <2>1. PICK c \in CPU : ProgramStep(c) /\ UNCHANGED ctl
    BY <1>3 DEF Programs
  <2>2. /\ \A m \in MAC : clients'[m] \in {clients[m], None}
        /\ \A i \in IP : counters'[i] = None <=> counters[i] = None
    BY <1>1, <2>1, ProgramEffect
  <2>3. Served'
    BY <2>1, <2>2 DEF ServedInv, Served, Inserting
  <2>4. \A p \in Proc : ctl[p].pc \in {"unbind", "uncounter"} => ctl[p].mac \in MAC
    BY <1>1 DEF CtlTypeOK, InvocationOK, DelPc
  <2>5. NotRevived'
    BY <2>1, <2>2, <2>4 DEF ServedInv, NotRevived
  <2> QED
    BY <1>1, <2>3, <2>5 DEF ServedInv
<1>4. ASSUME NEW p \in Proc, Turnover(p) PROVE ServedInv'
  <2>1. /\ UNCHANGED <<clients, counters>> /\ \A q \in Proc \ {p} : ctl'[q] = ctl[q]
        /\ ctl[p].pc \in {"idle", "exit"}
    BY <1>4 DEF Turnover, Only
  <2>2. ctl'[p].pc \notin {"unbind", "uncounter"}
    BY <1>4 DEF Turnover, Fresh, NoCommand
  <2>3. Served'
    BY <2>1 DEF ServedInv, Served, Inserting
  <2>4. NotRevived'
    BY <2>1, <2>2 DEF ServedInv, NotRevived
  <2> QED
    BY <1>1, <2>3, <2>4 DEF ServedInv
<1>5. ASSUME NEW p \in Proc, Commanded(p) PROVE ServedInv'
  BY <1>1, <1>5, ServedStep DEF ServedInv
<1> QED
  BY <1>1, <1>2, <1>3, <1>4, <1>5, KindsOfStep

LEMMA ServedInit == Init => ServedInv
BY FlowInit DEF Init, MapsInit, CtlInit, NoCommand, ServedInv, Served, NotRevived

\* If every device has one address of its own, nothing runs beside a `del`, and
\* `add -m` is not used for devices without an address, no device is ever left
\* with a session and without a counter, whatever inserts fail and roll back, and
\* whatever expires or is deleted meanwhile.
THEOREM SessionServed ==
  ASSUME OneHome, DelAlone, AddressesSeen
  PROVE  Spec => []SessionIsServed
<1>1. ServedInv /\ [Next]_vars => ServedInv'
  BY ServedNext
<1>2. ServedInv => SessionIsServed
  <2> SUFFICES ASSUME ServedInv, Quiescent, NEW m \in MAC, clients[m] # None, addr[m] # None
               PROVE  counters[addr[m]] # None
    BY DEF SessionIsServed
  <2>1. Owns(m, addr[m]) /\ addr[m] \in IP
    BY DEF ServedInv, FlowInv, LoginInv, AddrLeased, TypeOK, EnvTypeOK
  <2>2. ~\E p \in Proc : Inserting(p, m)
    BY DEF Quiescent, Inserting
  <2> QED
    BY <2>1, <2>2 DEF ServedInv, Served
<1> QED
  BY <1>1, <1>2, ServedInit, PTL DEF Spec

-----------------------------------------------------------------------------
(***************************************************************************)
(* DelLeavesNothing.  The counter is deleted under the address that        *)
(* hg_mac_ip has for the MAC: it goes only if every counter belongs to a   *)
(* device that is bound, and bound to its own address.                     *)
(***************************************************************************)
\* No client is added with both addresses given: a binding was looked up.
AddsResolve == "add_both" \notin Commands

\* No device is seen sending without an address.
NoRequests == Unspecified \notin IP

CountedAreBound ==
  \A i \in IP, m \in MAC : counters[i] # None /\ Owns(m, i) => mac_ip[m] # None

\* The reverse binding is written after the forward one.
ForwardFirst ==
  /\ \A i \in IP : ip_mac[i] # None => mac_ip[ip_mac[i]] # None
  /\ \A c \in CPU : cpu[c].pc = "rev" => mac_ip[cpu[c].mac] # None

AddsBound == \A p \in Proc : ctl[p].pc \in AddPc => mac_ip[ctl[p].mac] # None

ProfileGone(j) == j.sess # None => rates[j.sess.rate] = None
Gone(j) ==
  clients[j.mac] = None /\ ProfileGone(j) /\ \A i \in IP : Owns(j.mac, i) => counters[i] = None
DelOK(j) ==
  /\ j.pc \in {"unclient", "unbind", "uncounter"} => ProfileGone(j)
  /\ j.pc = "exit" /\ j.cmd \in DelCommand /\ j.rc = "SUCCESS" => j.mac \in MAC /\ Gone(j)
DelsOK == \A p \in Proc : DelOK(ctl[p])

DelInv == ServedInv /\ CountedAreBound /\ ForwardFirst /\ AddsBound /\ DelsOK

LEMMA DelProgram ==
  ASSUME RoomForBindings, DelInv, Programs
  PROVE  CountedAreBound' /\ ForwardFirst' /\ AddsBound' /\ DelsOK'
<1>1. PICK c \in CPU : ProgramStep(c) /\ UNCHANGED ctl
  BY DEF Programs
<1>2. /\ TypeOK /\ CtlTypeOK /\ DatapathTypeOK /\ ProgramOK(cpu[c]) /\ cpu \in [CPU -> Program]
      /\ mac_ip \in [MAC -> IP \cup {None}] /\ ip_mac \in [IP -> MAC \cup {None}]
  BY DEF DelInv, ServedInv, FlowInv, LoginInv, TypeOK, CtlTypeOK, DatapathTypeOK, MapsTypeOK
<1>3. /\ UNCHANGED rates
      /\ \A m \in MAC : clients'[m] \in {clients[m], None}
      /\ \A i \in IP : counters'[i] = None <=> counters[i] = None
  BY <1>1, <1>2, ProgramEffect
<1>4. /\ \A m \in MAC : mac_ip[m] # None => mac_ip'[m] # None
      /\ BindForward(c) => mac_ip'[cpu[c].mac] # None
  <2>1. CASE BindForward(c)
    <3>1. cpu[c].mac \in MAC /\ cpu[c].ip \in IP
      BY <1>2, <2>1 DEF BindForward, ProgramOK, NeedsMac
    <3>2. mac_ip' = [mac_ip EXCEPT ![cpu[c].mac] = cpu[c].ip]
      BY <1>2, <2>1, <3>1, BindingsFit DEF BindForward
    <3> QED
      BY <1>2, <3>1, <3>2, NoneAssumption
  <2>2. CASE ~BindForward(c)
    BY <1>1, <2>2, ProgramBindings DEF BindReverse
  <2> QED
    BY <2>1, <2>2
<1>5. CountedAreBound'
  BY <1>3, <1>4 DEF DelInv, CountedAreBound
<1>6. AddsBound'
  <2>1. \A p \in Proc : ctl[p].pc \in AddPc => ctl[p].mac \in MAC
    BY <1>2 DEF CtlTypeOK, InvocationOK
  <2> QED
    BY <1>1, <1>4, <2>1 DEF DelInv, AddsBound
<1>7. DelsOK'
  BY <1>1, <1>3 DEF DelInv, DelsOK, DelOK, Gone, ProfileGone
<1>8. \A d \in CPU : cpu'[d].pc = "rev" => mac_ip'[cpu'[d].mac] # None
  <2>1. \A d \in CPU \ {c} : cpu'[d] = cpu[d]
    BY <1>1, <1>2, ProgramFrame
  <2>2. \A d \in CPU : cpu[d].pc = "rev" => cpu[d].mac \in MAC
    BY <1>2 DEF DatapathTypeOK, ProgramOK, NeedsMac
  <2>3. cpu'[c].pc = "rev" => mac_ip'[cpu'[c].mac] # None
    BY <1>1, <1>2, <1>4, ProgramMoves
  <2> QED
    BY <1>4, <2>1, <2>2, <2>3 DEF DelInv, ForwardFirst
<1>9. \A i \in IP : ip_mac'[i] # None => mac_ip'[ip_mac'[i]] # None
  <2>1. CASE BindReverse(c)
    <3>1. cpu[c].mac \in MAC /\ cpu[c].ip \in IP /\ mac_ip[cpu[c].mac] # None /\ mac_ip' = mac_ip
      BY <1>2, <2>1 DEF BindReverse, ProgramOK, NeedsMac, DelInv, ForwardFirst
    <3>2. ip_mac' = [ip_mac EXCEPT ![cpu[c].ip] = cpu[c].mac]
      BY <1>2, <2>1, <3>1, BindingsFit DEF BindReverse
    <3>3. \A i \in IP : ip_mac'[i] = IF i = cpu[c].ip THEN cpu[c].mac ELSE ip_mac[i]
      BY <1>2, <3>2
    <3> QED
      BY <3>1, <3>3 DEF DelInv, ForwardFirst
  <2>2. CASE UNCHANGED ip_mac
    BY <1>2, <1>4, <2>2 DEF DelInv, ForwardFirst
  <2> QED
    BY <1>1, <2>1, <2>2, ProgramBindings DEF BindForward
<1> QED
  BY <1>5, <1>6, <1>7, <1>8, <1>9 DEF ForwardFirst

LEMMA DelCommanded ==
  ASSUME OneHome, DelAlone, NoRequests, DelInv, NEW p \in Proc, Commanded(p)
  PROVE  CountedAreBound' /\ ForwardFirst' /\ AddsBound' /\ DelsOK'
<1> DEFINE j == ctl[p]
           k == ctl'[p]
<1>1. /\ CtlTypeOK /\ MapsTypeOK /\ FlowInv /\ InvocationOK(j) /\ FlowOK(j) /\ DelOK(j)
      /\ \A q \in Proc \ {p} : ctl'[q] = ctl[q]
      /\ UNCHANGED <<mac_ip, ip_mac, cpu>> /\ CtlStep(p)
      /\ clients \in [MAC -> Session \cup {None}]
      /\ counters \in [IP -> CounterState \cup {None}]
      /\ rates \in [RateId -> Limit \cup {None}]
      /\ mac_ip \in [MAC -> IP \cup {None}] /\ j.sess \in Session \cup {None}
  BY DEF DelInv, ServedInv, FlowInv, LoginInv, TypeOK, CtlTypeOK, MapsTypeOK, Commanded, Only,
     DelsOK, Invocation
<1>2. OwnAddresses /\ AddressesSeen
  BY DEF OneHome, AddressesSeen, NoRequests
<1>3. ForwardFirst'
  BY <1>1 DEF DelInv, ForwardFirst
<1>4. ASSUME UNCHANGED counters PROVE CountedAreBound'
  BY <1>1, <1>4 DEF DelInv, CountedAreBound
<1>5. ASSUME k.pc \in AddPc => mac_ip[k.mac] # None PROVE AddsBound'
  BY <1>1, <1>5 DEF DelInv, AddsBound
<1>6. ASSUME NEW q \in Proc \ {p} PROVE DelOK(ctl[q])'
  <2>1. ctl[q].cmd \notin DelCommand
    BY <1>1, <1>6, NoneBeside
  <2>2. ctl[q].pc \notin {"unclient", "unbind", "uncounter"}
    BY <1>1, <2>1 DEF FlowInv, FlowOK, DelPc
  <2> QED
    BY <1>1, <2>1, <2>2 DEF DelOK
<1>7. ASSUME DelOK(ctl[p])' PROVE DelsOK'
  BY <1>6, <1>7 DEF DelsOK
<1>8. ASSUME k.pc \notin {"unclient", "unbind", "uncounter"}, k.cmd = j.cmd,
             k.pc # "exit" \/ k.cmd \notin DelCommand \/ k.rc = "FAILED"
      PROVE  DelsOK'
  BY <1>7, <1>8 DEF DelOK
<1>9. j.pc \in AddPc => j.cmd \notin DelCommand
  BY <1>1 DEF FlowOK, AddCommand, DelCommand
<1>10. CASE ResolveMac(p)
  <2>1. /\ j.pc = "resolve" /\ j.cmd \in {"add_ip", "del_ip"} /\ UNCHANGED counters
        /\ k.cmd = j.cmd /\ j.ip \in IP
    BY <1>1, <1>10, AddMoves DEF ResolveMac, InvocationOK
  <2>2. \/ k.pc = "exit" /\ k.rc = "FAILED"
        \/ /\ k.pc \in {"clock", "peek"} /\ k.mac = ip_mac[j.ip] /\ ip_mac[j.ip] # None
    BY <1>1, <1>10, AddMoves DEF Moved
  <2>3. k.pc \in AddPc => mac_ip[k.mac] # None
    BY <2>1, <2>2 DEF AddPc, DelInv, ForwardFirst
  <2> QED
    BY <1>3, <1>4, <1>5, <1>8, <2>1, <2>2, <2>3
<1>11. CASE ResolveIp(p)
  <2>1. /\ j.pc = "resolve" /\ j.cmd = "add_mac" /\ UNCHANGED counters /\ k.cmd = j.cmd
        /\ k.mac = j.mac
    BY <1>1, <1>11, AddMoves DEF ResolveIp, Moved
  <2>2. k.pc = "exit" \/ (k.pc = "clock" /\ mac_ip[j.mac] # None)
    BY <1>1, <1>11, AddMoves DEF Moved
  <2>3. k.pc \in AddPc => mac_ip[k.mac] # None
    BY <2>1, <2>2 DEF AddPc
  <2> QED
    BY <1>3, <1>4, <1>5, <1>8, <2>1, <2>2, <2>3 DEF DelCommand
<1>12. CASE ReadClock(p) \/ InsertClient(p) \/ Rollback(p) \/ InsertRate(p)
  <2>1. /\ j.pc \in AddPc /\ UNCHANGED counters
    BY <1>12 DEF ReadClock, InsertClient, Rollback, InsertRate, AddPc
  <2>2. k.mac = j.mac /\ k.cmd = j.cmd /\ k.pc \in AddPc \cup {"exit"}
    BY <1>1, <1>12, AddMoves DEF Moved, AddPc
  <2>3. k.pc \in AddPc => mac_ip[k.mac] # None
    BY <2>1, <2>2 DEF DelInv, AddsBound
  <2> QED
    BY <1>3, <1>4, <1>5, <1>8, <1>9, <2>1, <2>2, <2>3 DEF AddPc
<1>13. CASE InsertCounter(p)
  <2>1. j.pc \in AddPc /\ j.ip \in IP /\ j.mac \in MAC /\ Owns(j.mac, j.ip)
    BY <1>1, <1>2, <1>13, WorksForOwn DEF InsertCounter, AddPc, InvocationOK
  <2>2. k.mac = j.mac /\ k.cmd = j.cmd /\ k.pc \in {"rate", "rollback"}
    BY <1>1, <1>13, AddMoves DEF Moved
  <2>3. mac_ip[j.mac] # None
    BY <2>1 DEF DelInv, AddsBound
  <2>4. \A i \in IP \ {j.ip} : counters'[i] = counters[i]
    BY <1>1, <1>13 DEF InsertCounter
  <2>5. CountedAreBound'
    <3>1. ASSUME NEW i \in IP, NEW m \in MAC, counters'[i] # None, Owns(m, i)
          PROVE  mac_ip[m] # None
      <4>1. CASE i = j.ip
        BY <1>2, <2>1, <2>3, <3>1, <4>1, OneOwner
      <4>2. CASE i # j.ip
        BY <2>4, <3>1, <4>2 DEF DelInv, CountedAreBound
      <4> QED
        BY <4>1, <4>2
    <3> QED
      BY <1>1, <3>1 DEF CountedAreBound
  <2> QED
    BY <1>3, <1>5, <1>8, <2>2, <2>3, <2>5
<1>14. CASE PeekClient(p)
  <2>1. /\ UNCHANGED counters
        /\ (k.pc = "unclient" /\ k.sess = None) \/ k.pc = "unrate"
    BY <1>1, <1>14, DelMoves DEF PeekClient
  <2>2. DelOK(ctl[p])'
    BY <2>1 DEF DelOK, ProfileGone
  <2> QED
    BY <1>3, <1>4, <1>5, <1>7, <2>1, <2>2 DEF AddPc
<1>15. CASE DeleteRate(p)
  <2>1. /\ UNCHANGED counters /\ k.pc = "unclient" /\ k.sess = j.sess /\ j.sess \in Session
        /\ rates' = [rates EXCEPT ![j.sess.rate] = None]
    BY <1>1, <1>15, DelMoves DEF DeleteRate, Moved, InvocationOK
  <2>2. rates'[j.sess.rate] = None
    BY <1>1, <2>1 DEF Session
  <2>3. DelOK(ctl[p])'
    BY <2>1, <2>2 DEF DelOK, ProfileGone
  <2> QED
    BY <1>3, <1>4, <1>5, <1>7, <2>1, <2>3 DEF AddPc
<1>16. CASE DeleteClient(p)
  <2>1. /\ UNCHANGED <<counters, rates>> /\ k.pc = "unbind" /\ k.sess = j.sess
        /\ j.pc = "unclient"
    BY <1>1, <1>16, DelMoves DEF DeleteClient, Moved
  <2>2. DelOK(ctl[p])'
    BY <1>1, <2>1 DEF DelOK, ProfileGone
  <2> QED
    BY <1>3, <1>4, <1>5, <1>7, <2>1, <2>2 DEF AddPc
<1>17. CASE CurrentIp(p)
  <2>1. /\ UNCHANGED <<clients, counters, rates>> /\ k.mac = j.mac /\ k.sess = j.sess
        /\ j.pc = "unbind" /\ j.mac \in MAC
        /\ \/ k.pc = "exit" /\ mac_ip[j.mac] = None
           \/ k.pc = "uncounter"
    BY <1>1, <1>17, DelMoves DEF CurrentIp, Moved, InvocationOK, DelPc
  <2>2. clients[j.mac] = None /\ (j.sess # None => rates[j.sess.rate] = None)
    BY <1>1, <2>1 DEF DelInv, ServedInv, NotRevived, DelOK, ProfileGone
  <2>3. mac_ip[j.mac] = None => \A i \in IP : Owns(j.mac, i) => counters[i] = None
    BY <2>1 DEF DelInv, CountedAreBound
  <2>4. DelOK(ctl[p])'
    BY <2>1, <2>2, <2>3 DEF DelOK, Gone, ProfileGone
  <2> QED
    BY <1>3, <1>4, <1>5, <1>7, <2>1, <2>4 DEF AddPc
<1>18. CASE DeleteCounter(p)
  <2>1. /\ UNCHANGED <<clients, rates>> /\ k.mac = j.mac /\ k.sess = j.sess /\ k.pc = "exit"
        /\ j.pc = "uncounter" /\ j.mac \in MAC /\ j.ip \in IP
        /\ counters' = [counters EXCEPT ![j.ip] = None]
    BY <1>1, <1>18, DelMoves DEF DeleteCounter, Moved, InvocationOK, DelPc
  <2>2. clients[j.mac] = None /\ (j.sess # None => rates[j.sess.rate] = None)
    BY <1>1, <2>1 DEF DelInv, ServedInv, NotRevived, DelOK, ProfileGone
  <2>3. Owns(j.mac, j.ip)
    BY <1>1, <2>1 DEF FlowOK, NoRequests
  <2>4. \A i \in IP : counters'[i] = IF i = j.ip THEN None ELSE counters[i]
    BY <1>1, <2>1
  <2>5. \A i \in IP : Owns(j.mac, i) => counters'[i] = None
    BY <2>3, <2>4, OneAddress
  <2>6. DelOK(ctl[p])'
    BY <2>1, <2>2, <2>5 DEF DelOK, Gone, ProfileGone
  <2>7. CountedAreBound'
    BY <1>1, <2>4 DEF DelInv, CountedAreBound
  <2> QED
    BY <1>3, <1>5, <1>7, <2>1, <2>6, <2>7 DEF AddPc
<1>19. CASE MapDelStep(p) \/ BypassStep(p)
  <2>1. UNCHANGED counters /\ j.pc = "single" /\ k.pc = "exit" /\ k.cmd = j.cmd
    BY <1>1, <1>19, DelMoves DEF MapDelStep, BypassStep, Moved
  <2>2. k.cmd \notin DelCommand
    BY <1>1, <2>1 DEF FlowOK
  <2> QED
    BY <1>3, <1>4, <1>5, <1>8, <2>1, <2>2 DEF AddPc
<1> QED
  BY <1>1, <1>10, <1>11, <1>12, <1>13, <1>14, <1>15, <1>16, <1>17, <1>18, <1>19 DEF CtlStep

LEMMA DelNext ==
  ASSUME OneHome, DelAlone, RoomForBindings, AddsResolve, NoRequests, DelInv, [Next]_vars
  PROVE  DelInv'
<1>1. ServedInv /\ ServedInv' /\ LoginInv
  BY ServedNext DEF DelInv, ServedInv, FlowInv, AddressesSeen, NoRequests
<1>2. CASE Elsewhere
  <2>1. CountedAreBound' /\ AddsBound'
    BY <1>2 DEF Elsewhere, DelInv, CountedAreBound, AddsBound
  <2>2. ForwardFirst'
    BY <1>2 DEF Elsewhere, DelInv, ForwardFirst
  <2>3. DelsOK'
    BY <1>2 DEF Elsewhere, DelInv, DelsOK, DelOK, Gone, ProfileGone
  <2> QED
    BY <1>1, <2>1, <2>2, <2>3 DEF DelInv
<1>3. CASE Programs
  BY <1>1, <1>3, DelProgram DEF DelInv
<1>4. ASSUME NEW p \in Proc, Turnover(p) PROVE DelInv'
  <2>1. /\ UNCHANGED <<maps, cpu>> /\ \A q \in Proc \ {p} : ctl'[q] = ctl[q]
    BY <1>4 DEF Turnover, Only
  <2>2. ctl'[p].pc \notin AddPc \cup {"unclient", "unbind", "uncounter", "exit"}
    BY <1>4 DEF Turnover, Fresh, NoCommand, AddPc, AddsResolve
  <2>3. CountedAreBound' /\ ForwardFirst'
    BY <2>1 DEF DelInv, CountedAreBound, ForwardFirst
  <2>4. AddsBound'
    BY <2>1, <2>2 DEF DelInv, AddsBound
  <2>5. DelOK(ctl[p])'
    BY <2>2 DEF DelOK
  <2>6. DelsOK'
    BY <2>1, <2>5 DEF DelInv, DelsOK, DelOK, Gone, ProfileGone
  <2> QED
    BY <1>1, <2>3, <2>4, <2>6 DEF DelInv
<1>5. ASSUME NEW p \in Proc, Commanded(p) PROVE DelInv'
  BY <1>1, <1>5, DelCommanded DEF DelInv
<1> QED
  BY <1>1, <1>2, <1>3, <1>4, <1>5, KindsOfStep

LEMMA DelInit == Init => DelInv
<1> SUFFICES ASSUME Init PROVE DelInv
  OBVIOUS
<1>1. ServedInv /\ CountedAreBound
  BY ServedInit DEF Init, MapsInit, CountedAreBound
<1>2. ForwardFirst
  BY DEF Init, MapsInit, DatapathInit, Idle, ForwardFirst
<1>3. AddsBound /\ DelsOK
  BY DEF Init, CtlInit, NoCommand, AddsBound, AddPc, DelsOK, DelOK
<1> QED
  BY <1>1, <1>2, <1>3 DEF DelInv

\* If every device has one address of its own and has been seen with it before it
\* is added, a `del` beside which nothing runs leaves nothing of its client.
THEOREM DelCorrect ==
  ASSUME OneHome, DelAlone, RoomForBindings, AddsResolve, NoRequests
  PROVE  Spec => []DelLeavesNothing
<1>1. DelInv /\ [Next]_vars => DelInv'
  BY DelNext
<1>2. DelInv => DelLeavesNothing
  BY DEF DelInv, DelsOK, DelOK, Gone, ProfileGone, DelLeavesNothing, Owns
<1> QED
  BY <1>1, <1>2, DelInit, PTL DEF Spec

-----------------------------------------------------------------------------
(***************************************************************************)
(* ActiveCounterHasSession.  A session may end without its counter: when   *)
(* map-del deletes it, or when it expires under a packet from 0.0.0.0.     *)
(***************************************************************************)
NoMapDel == "map_del" \notin Commands
NeverExpires == Timeout \subseteq {0}

\* Then no session expires.
EndlessSessions ==
  /\ \A m \in MAC : clients[m] # None => clients[m].expiry = 0
  /\ \A p \in Proc : ctl[p].cmd \in AddCommand => ctl[p].exp = 0 /\ ctl[p].sess.expiry = 0
  /\ \A c \in CPU : /\ cpu[c].pc \notin {"expire", "mark"}
                    /\ cpu[c].sess # None => cpu[c].sess.expiry = 0

\* A counter in state AUTH_OK has its session, or the `del` of the session is about
\* to delete it, or its expiry to mark it.
Deleting(p, i) == ctl[p].pc \in {"unbind", "uncounter"} /\ Owns(ctl[p].mac, i)
Marking(c, i) == cpu[c].pc = "mark" /\ cpu[c].ip = i
Active ==
  \A i \in IP : counters[i] = "AUTH_OK" =>
    \/ \E m \in MAC : Owns(m, i) /\ clients[m] # None
    \/ \E p \in Proc : Deleting(p, i)
    \/ \E c \in CPU : Marking(c, i)

\* An `add` takes its session back only while there is no room for the counter.
NoRoom(j) == ~Fits(counters, j.ip, MaxCounters)
Inserted ==
  \A p \in Proc : /\ ctl[p].pc = "rollback" => NoRoom(ctl[p])
                  /\ ctl[p].pc = "counter" => clients[ctl[p].mac] # None \/ NoRoom(ctl[p])

ActiveInv == DelInv /\ EndlessSessions /\ Active /\ Inserted

LEMMA StaysFull ==
  ASSUME NEW i \in IP, DOMAIN counters = IP, DOMAIN counters' = IP,
         ~Fits(counters, i, MaxCounters),
         \A k \in IP : counters'[k] = None <=> counters[k] = None
  PROVE  ~Fits(counters, i, MaxCounters)'
<1>1. {k \in DOMAIN counters' : counters'[k] # None} = {k \in DOMAIN counters : counters[k] # None}
  OBVIOUS
<1> QED
  BY <1>1 DEF Fits

LEMMA EndlessNext ==
  ASSUME NeverExpires, ActiveInv, [Next]_vars
  PROVE  EndlessSessions'
<1>1. /\ LoginInv /\ TypeOK /\ CtlTypeOK /\ DatapathTypeOK
      /\ clients \in [MAC -> Session \cup {None}]
  BY DEF ActiveInv, DelInv, ServedInv, FlowInv, LoginInv, TypeOK, CtlTypeOK, DatapathTypeOK, MapsTypeOK
<1>2. CASE Elsewhere
  BY <1>2 DEF Elsewhere, ActiveInv, EndlessSessions
<1>3. CASE Programs
  <2>1. PICK c \in CPU : ProgramStep(c) /\ UNCHANGED ctl
    BY <1>3 DEF Programs
  <2>2. UNCHANGED clients
    BY <1>1, <2>1, ProgramEffect DEF ActiveInv, EndlessSessions
  <2>3. \A d \in CPU \ {c} : cpu'[d] = cpu[d]
    BY <1>1, <2>1, ProgramFrame
  <2>4. cpu[c].pc = "expiry" => cpu[c].sess # None
    BY <1>1, ElementAssumption DEF DatapathTypeOK, ProgramOK, HoldsSession
  <2>5. cpu'[c].pc \notin {"expire", "mark"} /\ (cpu'[c].sess # None => cpu'[c].sess.expiry = 0)
    BY <1>1, <2>1, <2>4, ProgramMoves DEF ActiveInv, EndlessSessions, Expired
  <2> QED
    BY <2>1, <2>2, <2>3, <2>5 DEF ActiveInv, EndlessSessions
<1>4. ASSUME NEW p \in Proc, Turnover(p) PROVE EndlessSessions'
  <2>1. UNCHANGED <<clients, cpu>> /\ \A q \in Proc \ {p} : ctl'[q] = ctl[q]
    BY <1>4 DEF Turnover, Only
  <2>2. ctl'[p].cmd \in AddCommand => ctl'[p].exp = 0 /\ ctl'[p].sess.expiry = 0
    <3>1. NoCommand.cmd \notin AddCommand
      BY DEF NoCommand, AddCommand
    <3>2. Fresh(ctl'[p]) /\ ctl'[p].cmd \in AddCommand
            => ctl'[p].exp \in Timeout /\ ctl'[p].sess.expiry = 0
      BY DEF Fresh
    <3> QED
      BY <1>4, <3>1, <3>2 DEF Turnover, NeverExpires
  <2> QED
    BY <2>1, <2>2 DEF ActiveInv, EndlessSessions
<1>5. ASSUME NEW p \in Proc, Commanded(p) PROVE EndlessSessions'
  <2>1. /\ UNCHANGED cpu /\ \A q \in Proc \ {p} : ctl'[q] = ctl[q]
        /\ CtlStep(p) /\ InvocationOK(ctl[p]) /\ FlowOK(ctl[p])
    BY <1>1, <1>5 DEF Commanded, Only, CtlTypeOK, ActiveInv, DelInv, ServedInv, FlowInv
  <2>2. CASE ReadClock(p)
    <3>1. /\ UNCHANGED clients /\ ctl[p].cmd \in AddCommand /\ ctl[p].sess \in Session
          /\ ctl[p].exp = 0 /\ ctl[p].sess.expiry = 0
      BY <2>1, <2>2 DEF ReadClock, InvocationOK, FlowOK, AddPc, ActiveInv, EndlessSessions
    <3>2. ctl'[p].cmd = ctl[p].cmd /\ ctl'[p].exp = 0
      BY <1>1, <2>2, <3>1, AddMoves
    <3>3. ExpiryAt(0) = 0
      BY DEF ExpiryAt
    <3>4. ctl'[p].sess = [ctl[p].sess EXCEPT !.expiry = 0]
      BY <1>1, <2>2, <3>1, <3>3, AddMoves
    <3>5. ctl'[p].sess.expiry = 0
      BY <3>1, <3>4 DEF Session
    <3> QED
      BY <2>1, <3>1, <3>2, <3>5 DEF ActiveInv, EndlessSessions
  <2>3. CASE /\ \A m \in MAC : clients'[m] \in {clients[m], None} \/ clients'[m].expiry = 0
             /\ ctl'[p].cmd = ctl[p].cmd /\ ctl'[p].exp = ctl[p].exp
             /\ ctl'[p].sess = ctl[p].sess \/ ctl[p].cmd \notin AddCommand
    BY <2>1, <2>3 DEF ActiveInv, EndlessSessions
  <2>4. ResolveMac(p) \/ ResolveIp(p)
          => /\ UNCHANGED clients /\ ctl'[p].cmd = ctl[p].cmd /\ ctl'[p].exp = ctl[p].exp
             /\ ctl'[p].sess = ctl[p].sess
    BY <1>1, AddMoves DEF ResolveMac, ResolveIp, Moved
  <2>5. InsertClient(p)
          => /\ ctl'[p].cmd = ctl[p].cmd /\ ctl'[p].exp = ctl[p].exp /\ ctl'[p].sess = ctl[p].sess
             /\ \A m \in MAC : clients'[m] = clients[m] \/ clients'[m].expiry = 0
    <3> SUFFICES ASSUME InsertClient(p)
                 PROVE  /\ ctl'[p].cmd = ctl[p].cmd /\ ctl'[p].exp = ctl[p].exp
                        /\ ctl'[p].sess = ctl[p].sess
                        /\ \A m \in MAC : clients'[m] = clients[m] \/ clients'[m].expiry = 0
      OBVIOUS
    <3>1. ctl[p].sess.expiry = 0
      BY <2>1 DEF InsertClient, FlowOK, AddPc, ActiveInv, EndlessSessions
    <3>2. \A m \in MAC : clients'[m] \in {clients[m], ctl[p].sess}
      BY <1>1 DEF InsertClient
    <3> QED
      BY <1>1, <3>1, <3>2, AddMoves DEF Moved
  <2>6. InsertCounter(p) \/ Rollback(p) \/ InsertRate(p)
          => /\ ctl'[p].cmd = ctl[p].cmd /\ ctl'[p].exp = ctl[p].exp /\ ctl'[p].sess = ctl[p].sess
             /\ \A m \in MAC : clients'[m] \in {clients[m], None}
    BY <1>1, AddMoves DEF InsertCounter, Rollback, InsertRate, Moved
  <2>7. PeekClient(p) \/ DeleteRate(p) \/ DeleteClient(p) \/ CurrentIp(p) \/ DeleteCounter(p)
          => /\ ctl'[p].cmd = ctl[p].cmd /\ ctl'[p].exp = ctl[p].exp
             /\ ctl[p].cmd \notin AddCommand
             /\ \A m \in MAC : clients'[m] \in {clients[m], None}
    <3>1. PeekClient(p) \/ DeleteRate(p) \/ DeleteClient(p) \/ CurrentIp(p) \/ DeleteCounter(p)
            => ctl[p].cmd \notin AddCommand
      BY <2>1 DEF PeekClient, DeleteRate, DeleteClient, CurrentIp, DeleteCounter, FlowOK, DelPc,
         AddCommand, DelCommand
    <3>2. PeekClient(p) \/ DeleteRate(p) \/ DeleteClient(p) \/ CurrentIp(p) \/ DeleteCounter(p)
            => \A m \in MAC : clients'[m] \in {clients[m], None}
      BY <1>1 DEF PeekClient, DeleteRate, DeleteClient, CurrentIp, DeleteCounter
    <3> QED
      BY <1>1, <3>1, <3>2, DelMoves
  <2>8. MapDelStep(p) \/ BypassStep(p)
          => /\ ctl'[p].cmd = ctl[p].cmd /\ ctl'[p].exp = ctl[p].exp
             /\ ctl'[p].sess = ctl[p].sess
             /\ \A m \in MAC : clients'[m] \in {clients[m], None}
    BY <1>1, DelMoves DEF MapDelStep, BypassStep, Moved
  <2> QED
    BY <2>1, <2>2, <2>3, <2>4, <2>5, <2>6, <2>7, <2>8 DEF CtlStep
<1> QED
  BY <1>1, <1>2, <1>3, <1>4, <1>5, KindsOfStep

LEMMA ActiveCommanded ==
  ASSUME OneHome, DelAlone, NoRequests, NoMapDel, DelInv, Active, Inserted,
         NEW p \in Proc, Commanded(p)
  PROVE  Active' /\ Inserted'
<1> DEFINE j == ctl[p]
           k == ctl'[p]
<1>1. /\ CtlTypeOK /\ FlowInv /\ InvocationOK(j) /\ FlowOK(j)
      /\ \A q \in Proc \ {p} : ctl'[q] = ctl[q]
      /\ UNCHANGED <<mac_ip, ip_mac, cpu>> /\ CtlStep(p)
      /\ clients \in [MAC -> Session \cup {None}]
      /\ counters \in [IP -> CounterState \cup {None}]
  BY DEF DelInv, ServedInv, FlowInv, LoginInv, TypeOK, CtlTypeOK, MapsTypeOK,
     Commanded, Only
<1>2. OwnAddresses /\ AddressesSeen
  BY DEF OneHome, AddressesSeen, NoRequests
<1>3. \A q \in Proc : ctl[q].pc \in {"counter", "rollback"} =>
        ctl[q].mac \in MAC /\ ctl[q].ip \in IP /\ Owns(ctl[q].mac, ctl[q].ip)
  BY <1>1, <1>2, WorksForOwn DEF CtlTypeOK, InvocationOK, AddPc
<1>4. \A q \in Proc \ {p} : j.cmd \in DelCommand => FALSE
  BY <1>1, NoneBeside
<1>5. j.pc \in DelPc => j.cmd \in DelCommand
  BY <1>1 DEF FlowOK
<1>6. ASSUME UNCHANGED <<clients, counters>>, j.pc \notin {"counter", "unbind", "uncounter"},
             k.pc \notin {"counter", "rollback"}
      PROVE  Active' /\ Inserted'
  <2>1. Active'
    BY <1>1, <1>6 DEF Active, Deleting, Marking
  <2>2. Inserted'
    BY <1>1, <1>6 DEF Inserted, NoRoom, Fits
  <2> QED
    BY <2>1, <2>2
<1>7. CASE ResolveMac(p) \/ ResolveIp(p) \/ ReadClock(p)
  <2>1. UNCHANGED <<clients, counters>> /\ j.pc \in {"resolve", "clock"}
    BY <1>7 DEF ResolveMac, ResolveIp, ReadClock
  <2>2. k.pc \notin {"counter", "rollback"}
    BY <1>1, <1>7, AddMoves DEF Moved
  <2> QED
    BY <1>6, <2>1, <2>2
<1>8. CASE InsertClient(p)
  <2>1. j.pc = "client" /\ j.mac \in MAC /\ UNCHANGED counters /\ j.sess # None
    BY <1>1, <1>8, ElementAssumption DEF InsertClient, InvocationOK, AddPc
  <2>2. CASE UNCHANGED clients /\ Moved(p, "exit")
    BY <1>6, <2>1, <2>2 DEF Moved
  <2>3. CASE Moved(p, "counter")
    <3>1. clients' = [clients EXCEPT ![j.mac] = j.sess]
      <4>1. ~Exit(p, "FAILED")
        BY <1>1, <2>3, ExitMoves DEF Moved
      <4> QED
        BY <1>8, <4>1 DEF InsertClient
    <3>2. clients'[j.mac] # None /\ \A m \in MAC : clients[m] # None => clients'[m] # None
      BY <1>1, <2>1, <3>1
    <3>3. Active'
      BY <1>1, <2>1, <3>2 DEF Active, Deleting, Marking
    <3>4. k.pc = "counter" /\ k.mac = j.mac
      BY <2>3 DEF Moved
    <3>5. Inserted'
      BY <1>1, <1>3, <2>1, <3>2, <3>4 DEF Inserted, NoRoom, Fits
    <3> QED
      BY <3>3, <3>5
  <2> QED
    BY <1>1, <1>8, <2>2, <2>3, AddMoves
<1>9. CASE InsertCounter(p)
  <2>1. j.pc = "counter" /\ UNCHANGED clients
    BY <1>9 DEF InsertCounter
  <2>2. CASE ~Fits(counters, j.ip, MaxCounters) /\ UNCHANGED counters /\ CtlGoto(p, "rollback")
    <3>1. k.pc = "rollback" /\ k.ip = j.ip
      BY <1>1, <2>2, GotoMoves DEF Moved
    <3>2. Active'
      BY <1>1, <2>1, <2>2, <3>1 DEF Active, Deleting, Marking
    <3>3. Inserted'
      BY <1>1, <2>1, <2>2, <3>1 DEF Inserted, NoRoom, Fits
    <3> QED
      BY <3>2, <3>3
  <2>3. CASE /\ Fits(counters, j.ip, MaxCounters) /\ CtlGoto(p, "rate")
             /\ counters' = [counters EXCEPT ![j.ip] = "AUTH_OK"]
    <3>1. k.pc = "rate" /\ j.mac \in MAC /\ j.ip \in IP /\ Owns(j.mac, j.ip)
      BY <1>1, <1>3, <2>1, <2>3, GotoMoves DEF Moved
    <3>2. clients[j.mac] # None
      BY <2>1, <2>3 DEF Inserted, NoRoom
    <3>3. \A i \in IP : counters'[i] = IF i = j.ip THEN "AUTH_OK" ELSE counters[i]
      BY <1>1, <2>3, <3>1
    <3>4. Active'
      BY <1>1, <2>1, <3>1, <3>2, <3>3 DEF Active, Deleting, Marking
    <3>5. ASSUME NEW q \in Proc \ {p}, ctl[q].pc \in {"counter", "rollback"}, NoRoom(ctl[q])
          PROVE  NoRoom(ctl[q])'
      <4>1. PICK i \in IP : i = ctl[q].ip
        BY <1>3, <3>5
      <4>2. ~Fits(counters, i, MaxCounters)
        BY <3>5, <4>1 DEF NoRoom
      <4>3. counters[j.ip] # None
        BY <2>3, <4>2 DEF Fits
      <4>4. \A l \in IP : counters'[l] = None <=> counters[l] = None
        BY <3>3, <4>3, NoneAssumption
      <4>5. DOMAIN counters = IP /\ DOMAIN counters' = IP
        BY <1>1, <2>3
      <4>6. ~Fits(counters', i, MaxCounters)
        BY <4>2, <4>4, <4>5, StaysFull
      <4> QED
        BY <1>1, <4>1, <4>6 DEF NoRoom
    <3>6. Inserted'
      BY <1>1, <2>1, <3>1, <3>5 DEF Inserted
    <3> QED
      BY <3>4, <3>6
  <2> QED
    BY <1>9, <2>2, <2>3 DEF InsertCounter
<1>10. CASE Rollback(p)
  <2>1. /\ j.pc = "rollback" /\ UNCHANGED counters /\ j.mac \in MAC /\ j.ip \in IP
        /\ Owns(j.mac, j.ip) /\ clients' = [clients EXCEPT ![j.mac] = None]
    BY <1>3, <1>10 DEF Rollback
  <2>2. NoRoom(j) /\ counters[j.ip] = None
    BY <2>1 DEF Inserted, NoRoom, Fits
  <2>3. clients'[j.mac] = None /\ \A m \in MAC \ {j.mac} : clients'[m] = clients[m]
    BY <1>1, <2>1
  <2>4. k.pc = "exit"
    BY <1>1, <1>10, AddMoves DEF Moved
  <2>5. Active'
    <3>1. \A i \in IP : counters[i] = "AUTH_OK" => ~Owns(j.mac, i)
      BY <2>1, <2>2, OneAddress, NoneAssumption
    <3> QED
      BY <1>1, <2>1, <2>3, <3>1 DEF Active, Deleting, Marking
  <2>6. Inserted'
    <3>1. ASSUME NEW q \in Proc \ {p}, ctl[q].pc = "counter", ctl[q].mac = j.mac
          PROVE  NoRoom(ctl[q])
      <4>1. ctl[q].ip = j.ip
        BY <1>3, <2>1, <3>1, OneAddress
      <4> QED
        BY <2>2, <4>1 DEF NoRoom
    <3> QED
      BY <1>1, <1>3, <2>1, <2>3, <2>4, <3>1 DEF Inserted, NoRoom, Fits
  <2> QED
    BY <2>5, <2>6
<1>11. CASE InsertRate(p) \/ PeekClient(p) \/ DeleteRate(p)
  <2>1. UNCHANGED <<clients, counters>> /\ j.pc \in {"rate", "peek", "unrate"}
    BY <1>11 DEF InsertRate, PeekClient, DeleteRate
  <2>2. k.pc \notin {"counter", "rollback"}
    BY <1>1, <1>11, AddMoves, DelMoves DEF Moved
  <2> QED
    BY <1>6, <2>1, <2>2
<1>12. CASE DeleteClient(p)
  <2>1. /\ j.pc = "unclient" /\ UNCHANGED counters /\ j.mac \in MAC
        /\ clients' = [clients EXCEPT ![j.mac] = None]
    BY <1>1, <1>12 DEF DeleteClient, InvocationOK, DelPc
  <2>2. k.pc = "unbind" /\ k.mac = j.mac /\ Proc = {p}
    BY <1>1, <1>4, <1>5, <1>12, <2>1, DelMoves DEF Moved, DelPc
  <2>3. \A m \in MAC \ {j.mac} : clients'[m] = clients[m]
    BY <1>1, <2>1
  <2>4. Active'
    BY <1>1, <2>1, <2>2, <2>3 DEF Active, Deleting, Marking
  <2> QED
    BY <2>2, <2>4 DEF Inserted
<1>13. CASE CurrentIp(p)
  <2>1. /\ j.pc = "unbind" /\ UNCHANGED <<clients, counters>> /\ j.mac \in MAC
        /\ k.mac = j.mac /\ Proc = {p}
    BY <1>1, <1>4, <1>5, <1>13, DelMoves DEF CurrentIp, InvocationOK, DelPc, Moved
  <2>2. k.pc = "uncounter" \/ (k.pc = "exit" /\ mac_ip[j.mac] = None)
    BY <1>1, <1>13, DelMoves DEF Moved
  <2>3. mac_ip[j.mac] = None => \A i \in IP : Owns(j.mac, i) => counters[i] # "AUTH_OK"
    BY <2>1, NoneAssumption DEF DelInv, CountedAreBound
  <2>4. Active'
    BY <1>1, <2>1, <2>2, <2>3 DEF Active, Deleting, Marking
  <2> QED
    BY <2>1, <2>2, <2>4 DEF Inserted
<1>14. CASE DeleteCounter(p)
  <2>1. /\ j.pc = "uncounter" /\ UNCHANGED clients /\ j.mac \in MAC /\ j.ip \in IP
        /\ counters' = [counters EXCEPT ![j.ip] = None]
        /\ k.pc = "exit" /\ Proc = {p}
    BY <1>1, <1>4, <1>5, <1>14, DelMoves DEF DeleteCounter, InvocationOK, DelPc, Moved
  <2>2. Owns(j.mac, j.ip)
    BY <1>1, <2>1 DEF FlowOK, NoRequests
  <2>3. \A i \in IP : counters'[i] = IF i = j.ip THEN None ELSE counters[i]
    BY <1>1, <2>1
  <2>4. \A i \in IP : counters'[i] = "AUTH_OK" => ~Owns(j.mac, i)
    BY <2>2, <2>3, OneAddress, NoneAssumption
  <2>5. Active'
    BY <1>1, <2>1, <2>3, <2>4, NoneAssumption DEF Active, Deleting, Marking
  <2> QED
    BY <2>1, <2>5 DEF Inserted
<1>15. CASE MapDelStep(p) \/ BypassStep(p)
  <2>1. ~MapDelStep(p)
    BY <1>1 DEF MapDelStep, FlowOK, NoMapDel
  <2>2. UNCHANGED <<clients, counters>> /\ j.pc = "single"
    BY <1>15, <2>1 DEF BypassStep
  <2>3. k.pc = "exit"
    BY <1>1, <1>15, DelMoves DEF Moved
  <2> QED
    BY <1>6, <2>2, <2>3
<1> QED
  BY <1>1, <1>7, <1>8, <1>9, <1>10, <1>11, <1>12, <1>13, <1>14, <1>15 DEF CtlStep

\* A program leaves Active and Inserted as they are, unless it lets the session of
\* an `add` expire before the counter is there.
LEMMA ActiveProgram ==
  ASSUME OneHome, NoRequests, DelInv, Active, Inserted,
         NEW c \in CPU, ProgramStep(c), UNCHANGED ctl,
         cpu[c].pc = "expire" => \A p \in Proc : ~Inserting(p, cpu[c].mac)
  PROVE  Active' /\ Inserted'
<1> DEFINE j == cpu[c]
<1>1. /\ TypeOK /\ MapsTypeOK' /\ CtlTypeOK /\ DatapathTypeOK /\ ProgramOK(j) /\ SourceOK(j)
      /\ cpu \in [CPU -> Program] /\ j \in Program
      /\ clients \in [MAC -> Session \cup {None}]
      /\ counters \in [IP -> CounterState \cup {None}]
  <2>1. LoginInv /\ TypeOK /\ MapsTypeOK /\ DatapathTypeOK /\ CtlTypeOK
    BY DEF DelInv, ServedInv, FlowInv, LoginInv, TypeOK
  <2>2. MapsTypeOK'
    BY <2>1, ProgramType
  <2> QED
    BY <2>1, <2>2 DEF LoginInv, SourcesOwn, MapsTypeOK, DatapathTypeOK
<1>2. /\ UNCHANGED clients \/ j.pc = "expire"
      /\ \A m \in MAC : clients'[m] \in {clients[m], None}
      /\ \A i \in IP : /\ counters'[i] = None <=> counters[i] = None
                       /\ counters'[i] = "AUTH_OK" => counters[i] = "AUTH_OK"
  BY <1>1, ProgramEffect
<1>3. \A d \in CPU \ {c} : cpu'[d] = cpu[d]
  BY <1>1, ProgramFrame
<1>4. ASSUME NEW p \in Proc, ctl[p].pc \in {"counter", "rollback"}, NoRoom(ctl[p])
      PROVE  NoRoom(ctl[p])'
  <2>1. PICK i \in IP : i = ctl[p].ip
    BY <1>1, <1>4 DEF CtlTypeOK, InvocationOK, AddPc
  <2>2. DOMAIN counters = IP /\ DOMAIN counters' = IP
    BY <1>1 DEF MapsTypeOK
  <2>3. ~Fits(counters', i, MaxCounters)
    BY <1>2, <1>4, <2>1, <2>2, StaysFull DEF NoRoom
  <2> QED
    BY <2>1, <2>3 DEF NoRoom
<1>5. CASE ExpireDelete(c)
  <2>1. /\ j.pc = "expire" /\ j.mac \in MAC /\ j.ip \in IP /\ Owns(j.mac, j.ip)
        /\ clients' = [clients EXCEPT ![j.mac] = None] /\ UNCHANGED counters
    BY <1>1, <1>5 DEF ExpireDelete, ProgramOK, NeedsMac, HoldsSession, SourceOK, NoRequests
  <2>2. cpu'[c].pc = "mark" /\ cpu'[c].ip = j.ip
    BY <1>1, <1>5 DEF ExpireDelete, Goto, Program
  <2>3. \A m \in MAC \ {j.mac} : clients'[m] = clients[m]
    BY <1>1, <2>1
  <2>4. Active'
    <3>1. ASSUME NEW i \in IP, NEW m \in MAC, Owns(m, i), clients[m] # None, ~Marking(c, i)'
          PROVE  clients'[m] # None
      BY <2>1, <2>2, <2>3, <3>1, OneAddress DEF Marking
    <3>2. \A i \in IP, d \in CPU : Marking(d, i) => Marking(d, i)'
      BY <1>3, <2>1 DEF Marking
    <3>3. \A i \in IP, p \in Proc : Deleting(p, i) => Deleting(p, i)'
      BY DEF Deleting
    <3> QED
      BY <2>1, <3>1, <3>2, <3>3 DEF Active
  <2>5. Inserted'
    BY <1>1, <1>4, <2>1, <2>3 DEF Inserted, Inserting, CtlTypeOK, InvocationOK, AddPc
  <2> QED
    BY <2>4, <2>5
<1>6. CASE ExpireMark(c)
  <2>1. /\ j.pc = "mark" /\ j.ip \in IP /\ UNCHANGED clients
        /\ counters'[j.ip] # "AUTH_OK"
    BY <1>1, <1>6, NoneAssumption DEF ExpireMark, ProgramOK
  <2>2. \A i \in IP, d \in CPU : i # j.ip /\ Marking(d, i) => Marking(d, i)'
    BY <1>3 DEF Marking
  <2>3. \A i \in IP, p \in Proc : Deleting(p, i) => Deleting(p, i)'
    BY DEF Deleting
  <2>4. Active'
    BY <1>2, <2>1, <2>2, <2>3 DEF Active
  <2> QED
    BY <1>4, <2>1, <2>4 DEF Inserted
<1>7. CASE j.pc \notin {"expire", "mark"}
  <2>1. \A i \in IP, d \in CPU : Marking(d, i) => Marking(d, i)'
    BY <1>3, <1>7 DEF Marking
  <2>2. \A i \in IP, p \in Proc : Deleting(p, i) => Deleting(p, i)'
    BY DEF Deleting
  <2>3. Active'
    BY <1>2, <1>7, <2>1, <2>2 DEF Active
  <2> QED
    BY <1>2, <1>4, <1>7, <2>3 DEF Inserted
<1> QED
  BY <1>5, <1>6, <1>7, ExpirySteps

\* Nor does a step that is not a program's break them.
LEMMA ActiveOther ==
  ASSUME OneHome, DelAlone, NoRequests, NoMapDel, DelInv, Active, Inserted,
         Elsewhere \/ \E p \in Proc : Turnover(p) \/ Commanded(p)
  PROVE  Active' /\ Inserted'
<1>1. CASE Elsewhere
  <2>1. Inserted'
    BY <1>1 DEF Elsewhere, Inserted, NoRoom, Fits
  <2>2. \A i \in IP : /\ \A c \in CPU : Marking(c, i) => Marking(c, i)'
                      /\ \A p \in Proc : Deleting(p, i) => Deleting(p, i)'
    BY <1>1 DEF Elsewhere, Marking, Deleting
  <2>3. Active'
    BY <1>1, <2>2 DEF Elsewhere, Active
  <2> QED
    BY <2>1, <2>3
<1>2. ASSUME NEW p \in Proc, Turnover(p) PROVE Active' /\ Inserted'
  <2>1. /\ UNCHANGED <<clients, counters, cpu>> /\ \A q \in Proc \ {p} : ctl'[q] = ctl[q]
        /\ ctl[p].pc \in {"idle", "exit"}
    BY <1>2 DEF Turnover, Only
  <2>2. ctl'[p].pc \notin {"counter", "rollback"}
    BY <1>2 DEF Turnover, Fresh, NoCommand
  <2>3. Active'
    BY <2>1 DEF Active, Deleting, Marking
  <2>4. Inserted'
    BY <2>1, <2>2 DEF Inserted, NoRoom, Fits
  <2> QED
    BY <2>3, <2>4
<1> QED
  BY <1>1, <1>2, ActiveCommanded

LEMMA ActiveNext ==
  ASSUME OneHome, DelAlone, RoomForBindings, AddsResolve, NoRequests, NoMapDel, NeverExpires,
         ActiveInv, [Next]_vars
  PROVE  ActiveInv'
<1>1. DelInv /\ DelInv' /\ EndlessSessions' /\ LoginInv
  BY DelNext, EndlessNext DEF ActiveInv, DelInv, ServedInv, FlowInv
<1>2. CASE Programs
  <2>1. PICK c \in CPU : ProgramStep(c) /\ UNCHANGED ctl
    BY <1>2 DEF Programs
  <2>2. cpu[c].pc # "expire"
    BY DEF ActiveInv, EndlessSessions
  <2> QED
    BY <1>1, <2>1, <2>2, ActiveProgram DEF ActiveInv
<1>3. CASE Elsewhere \/ \E p \in Proc : Turnover(p) \/ Commanded(p)
  BY <1>1, <1>3, ActiveOther DEF ActiveInv
<1> QED
  BY <1>1, <1>2, <1>3, KindsOfStep

LEMMA ActiveInit == Init => ActiveInv
<1> SUFFICES ASSUME Init PROVE ActiveInv
  OBVIOUS
<1>1. DelInv /\ Active
  BY DelInit, NoneAssumption DEF Init, MapsInit, Active
<1>2. EndlessSessions
  BY DEF Init, MapsInit, DatapathInit, CtlInit, Idle, NoCommand, EndlessSessions, AddCommand
<1>3. Inserted
  BY DEF Init, CtlInit, NoCommand, Inserted
<1> QED
  BY <1>1, <1>2, <1>3 DEF ActiveInv

\* Under the conditions of DelCorrect, and if sessions end only by `del`, whom the
\* reader takes for an active client has a session.
THEOREM ActiveCorrect ==
  ASSUME OneHome, DelAlone, RoomForBindings, AddsResolve, NoRequests, NoMapDel, NeverExpires
  PROVE  Spec => []ActiveCounterHasSession
<1>1. ActiveInv /\ [Next]_vars => ActiveInv'
  BY ActiveNext
<1>2. ActiveInv => ActiveCounterHasSession
  BY DEF ActiveInv, Active, Deleting, Marking, Owns, ActiveCounterHasSession, Quiescent
<1> QED
  BY <1>1, <1>2, ActiveInit, PTL DEF Spec

-----------------------------------------------------------------------------
(***************************************************************************)
(* OwnRateLimits.  A profile's id is one byte of an address: two devices   *)
(* may share one, and one `add` may overwrite the profile of another.      *)
(***************************************************************************)
\* The ids that an `add` of device m may take.
OwnIds(m) == {LastByte[m]} \cup {LastOctet[i] : i \in {k \in IP : Owns(m, k)}}

\* Limits are given for both directions or for none, and no two devices have an id
\* in common, nor with the clients that have no limit.
OwnProfiles ==
  /\ \A lim \in Limit : lim.d = 0 \/ lim.u = 0 => lim = Unlimited
  /\ \A m \in MAC : NoLimitId \notin OwnIds(m)
  /\ \A m, n \in MAC : m # n => OwnIds(m) \cap OwnIds(n) = {}

\* hg_rates takes a profile for every id: 256 entries, and an id is one byte.
RoomForProfiles == IsFiniteSet(RateId) /\ Cardinality(RateId) <= MaxRates

\* One `add` at a time: operators leave it to the portal, or there is one hgctl.
OneAdder == Commands \cap AddCommand = {} \/ \A p, q \in Proc : p = q

\* Only the portal adds on its own account.
Callers == \A p \in Proc : p = Daemon \/ ctl[p].cmd \in Commands \cup {"none"}

SessOwn(m, s) == (s.rate = NoLimitId /\ s.lim = Unlimited) \/ s.rate \in OwnIds(m)
SessionsOwn == \A m \in MAC : clients[m] # None => SessOwn(m, clients[m])

\* The session an `add` is about to make, or a `del` has read, belongs to the device.
HandOwn(j) ==
  /\ j.pc \in AddPc \cup {"unrate"} => SessOwn(j.mac, j.sess)
  /\ j.pc = "resolve" /\ j.cmd = "add_mac" => SessOwn(j.mac, j.sess)
  /\ j.pc = "resolve" /\ j.cmd = "add_ip" =>
       \A m \in MAC : Owns(m, j.ip) => SessOwn(m, j.sess)
HandsOwn == \A p \in Proc : HandOwn(ctl[p])

PlainIsPlain == rates[NoLimitId] \in {None, Unlimited}

\* A session has its limit, or its `add` is about to insert the profile or to take
\* the session back, or a `del` that has deleted the profile is about to delete it.
Changing(p, m) == ctl[p].pc \in {"counter", "rollback", "rate", "unclient"} /\ ctl[p].mac = m
Limited ==
  \A m \in MAC : clients[m] # None =>
    AppliedLimit(clients[m]) = clients[m].lim \/ \E p \in Proc : Changing(p, m)

\* What an `add` has inserted, nobody has replaced.
StillThere(j) == j.pc \in {"counter", "rollback", "rate"} => clients[j.mac] \in {None, j.sess}
StillTheres == \A p \in Proc : StillThere(ctl[p])

LimitInv ==
  FlowInv /\ Callers /\ SessionsOwn /\ HandsOwn /\ PlainIsPlain /\ Limited /\ StillTheres

LEMMA OneAtAdd ==
  ASSUME OneAdder, LimitInv, NEW p \in Proc, NEW q \in Proc,
         ctl[p].cmd \in AddCommand, ctl[q].cmd \in AddCommand
  PROVE  q = p
BY DEF OneAdder, LimitInv, Callers, AddCommand

\* Sessions of two devices have no profile in common but that of no limit.
LEMMA OwnProfile ==
  ASSUME OwnProfiles, NEW m \in MAC, NEW n \in MAC, n # m, NEW s, NEW t,
         SessOwn(m, s), SessOwn(n, t), t.rate = s.rate
  PROVE  s.rate = NoLimitId /\ s.lim = Unlimited /\ t.lim = Unlimited
BY DEF OwnProfiles, SessOwn

LEMMA ProfileFits ==
  ASSUME RoomForProfiles, TypeOK, NEW r \in RateId, NEW lim
  PROVE  UpdateIfFits(rates, r, lim, MaxRates) = [rates EXCEPT ![r] = lim]
<1>1. DOMAIN rates = RateId /\ MaxRates \in Nat
  BY CapacityAssumption DEF TypeOK, MapsTypeOK
<1> QED
  BY <1>1, RoomFits DEF RoomForProfiles, UpdateIfFits

LEMMA FreshHand ==
  ASSUME OwnAddresses, OwnProfiles, NEW j, Fresh(j)
  PROVE  HandOwn(j)
<1>1. CASE j.cmd \in AddCommand
  <2>1. PICK m \in MAC, i \in IP :
          /\ Owns(m, i) /\ j.sess.rate = RateIdFor(j.cmd, m, i, j.sess.lim)
          /\ j.cmd # "add_ip" => j.mac = m
          /\ j.cmd # "add_mac" => j.ip = i
    BY <1>1 DEF Fresh
  <2>2. SessOwn(m, j.sess)
    <3>1. j.sess.lim \in Limit
      BY <1>1 DEF Fresh
    <3>2. LastByte[m] \in OwnIds(m) /\ LastOctet[i] \in OwnIds(m)
      BY <2>1 DEF OwnIds
    <3> QED
      BY <2>1, <3>1, <3>2 DEF SessOwn, RateIdFor, OwnProfiles
  <2>3. \A n \in MAC : Owns(n, i) => n = m
    BY <2>1, OneOwner
  <2> QED
    BY <2>1, <2>2, <2>3 DEF HandOwn, Fresh, AddPc
<1>2. CASE j.cmd \notin AddCommand
  BY <1>2 DEF HandOwn, Fresh, AddPc, AddCommand
<1> QED
  BY <1>1, <1>2

LEMMA LimitCommanded ==
  ASSUME OwnAddresses, OneAdder, OwnProfiles, RoomForProfiles, LimitInv,
         NEW p \in Proc, Commanded(p)
  PROVE  SessionsOwn' /\ HandsOwn' /\ PlainIsPlain' /\ Limited' /\ StillTheres'
<1> DEFINE j == ctl[p]
           k == ctl'[p]
           Flux == {"counter", "rollback", "rate", "unclient"}
           Inserts == {"counter", "rollback", "rate"}
<1>1. /\ TypeOK /\ CtlTypeOK /\ FlowInv /\ InvocationOK(j) /\ FlowOK(j) /\ HandOwn(j)
      /\ \A q \in Proc \ {p} : ctl'[q] = ctl[q]
      /\ UNCHANGED <<mac_ip, ip_mac, cpu>> /\ CtlStep(p)
      /\ clients \in [MAC -> Session \cup {None}]
      /\ rates \in [RateId -> Limit \cup {None}]
  BY DEF LimitInv, FlowInv, LoginInv, TypeOK, CtlTypeOK, MapsTypeOK, Commanded, Only, HandsOwn
<1>2. \A q \in Proc : ctl[q].pc \in AddPc => ctl[q].mac \in MAC /\ ctl[q].sess \in Session
  BY <1>1 DEF CtlTypeOK, InvocationOK
<1>3. ASSUME HandOwn(ctl[p])' PROVE HandsOwn'
  BY <1>1, <1>3 DEF LimitInv, HandsOwn, HandOwn, SessOwn
<1>4. ASSUME UNCHANGED rates, \A m \in MAC : clients'[m] \in {clients[m], None}
      PROVE  SessionsOwn' /\ PlainIsPlain'
  BY <1>4 DEF LimitInv, SessionsOwn, PlainIsPlain
<1>5. ASSUME \A m \in MAC : clients'[m] \in {clients[m], None},
             k.pc \in Inserts => j.pc \in Inserts /\ k.mac = j.mac /\ k.sess = j.sess
      PROVE  StillTheres'
  <2>1. ASSUME NEW q \in Proc, ctl[q].pc \in Inserts PROVE clients'[ctl[q].mac] \in {None, ctl[q].sess}
    BY <1>2, <1>5, <2>1 DEF LimitInv, StillTheres, StillThere, AddPc
  <2> QED
    BY <1>1, <1>5, <2>1 DEF StillTheres, StillThere
<1>6. ASSUME UNCHANGED rates, \A m \in MAC : clients'[m] \in {clients[m], None},
             j.pc \in Flux => (k.pc \in Flux /\ k.mac = j.mac) \/ clients'[j.mac] = None
      PROVE  Limited'
  <2>1. ASSUME NEW m \in MAC, clients'[m] # None
        PROVE  AppliedLimit(clients[m])' = clients'[m].lim \/ \E q \in Proc : Changing(q, m)'
    <3>1. clients'[m] = clients[m] /\ AppliedLimit(clients[m])' = AppliedLimit(clients[m])
      BY <1>6, <2>1 DEF AppliedLimit
    <3>2. \A q \in Proc : Changing(q, m) => Changing(q, m)'
      BY <1>1, <1>6, <2>1 DEF Changing
    <3> QED
      BY <2>1, <3>1, <3>2 DEF LimitInv, Limited
  <2> QED
    BY <2>1 DEF Limited
<1>7. CASE ResolveMac(p)
  <2>1. /\ j.pc = "resolve" /\ j.cmd \in {"add_ip", "del_ip"} /\ UNCHANGED <<clients, rates>>
        /\ k.cmd = j.cmd /\ k.sess = j.sess /\ j.ip \in IP /\ j.ip # Unspecified
    BY <1>1, <1>7, AddMoves DEF ResolveMac, InvocationOK, FlowOK, Moved
  <2>2. \/ k.pc = "exit"
        \/ /\ k.pc = IF j.cmd = "add_ip" THEN "clock" ELSE "peek"
           /\ k.mac = ip_mac[j.ip] /\ ip_mac[j.ip] # None
    BY <1>1, <1>7, AddMoves DEF Moved
  <2>3. ip_mac[j.ip] # None => ip_mac[j.ip] \in MAC /\ Owns(ip_mac[j.ip], j.ip)
    BY <2>1 DEF LimitInv, FlowInv, LoginInv, BindingsOwn, TypeOK, MapsTypeOK
  <2>4. HandOwn(ctl[p])'
    <3>1. k.pc = "clock" => SessOwn(k.mac, k.sess)
      BY <1>1, <2>1, <2>2, <2>3 DEF HandOwn
    <3>2. k.pc \in {"exit", "clock", "peek"}
      BY <2>2
    <3> QED
      BY <3>1, <3>2 DEF HandOwn, AddPc, SessOwn
  <2> QED
    BY <1>3, <1>4, <1>5, <1>6, <2>1, <2>2, <2>4
<1>8. CASE ResolveIp(p)
  <2>1. /\ j.pc = "resolve" /\ j.cmd = "add_mac" /\ UNCHANGED <<clients, rates>>
        /\ k.sess = j.sess /\ k.mac = j.mac /\ k.pc \in {"exit", "clock"}
    BY <1>1, <1>8, AddMoves DEF ResolveIp, Moved
  <2>2. HandOwn(ctl[p])'
    BY <1>1, <2>1 DEF HandOwn, AddPc, SessOwn
  <2> QED
    BY <1>3, <1>4, <1>5, <1>6, <2>1, <2>2
<1>9. CASE ReadClock(p)
  <2>1. /\ j.pc = "clock" /\ UNCHANGED <<clients, rates>> /\ j.sess \in Session
        /\ k.pc = "client" /\ k.mac = j.mac
        /\ k.sess = [j.sess EXCEPT !.expiry = ExpiryAt(j.exp)]
    BY <1>1, <1>9, AddMoves DEF ReadClock, InvocationOK, AddPc
  <2>2. k.sess.rate = j.sess.rate /\ k.sess.lim = j.sess.lim
    BY <2>1 DEF Session
  <2>3. HandOwn(ctl[p])'
    BY <1>1, <2>1, <2>2 DEF HandOwn, AddPc, SessOwn
  <2> QED
    BY <1>3, <1>4, <1>5, <1>6, <2>1, <2>3
<1>10. CASE InsertClient(p)
  <2>1. /\ j.pc = "client" /\ j.mac \in MAC /\ j.sess \in Session /\ UNCHANGED rates
        /\ SessOwn(j.mac, j.sess) /\ j.cmd \in AddCommand
    BY <1>1, <1>10 DEF InsertClient, InvocationOK, AddPc, HandOwn, FlowOK
  <2>2. CASE UNCHANGED clients /\ Moved(p, "exit")
    <3>1. HandOwn(ctl[p])'
      BY <2>2 DEF Moved, HandOwn, AddPc
    <3> QED
      BY <1>3, <1>4, <1>5, <1>6, <2>1, <2>2, <3>1 DEF Moved
  <2>3. CASE Moved(p, "counter") /\ clients' = [clients EXCEPT ![j.mac] = j.sess]
    <3>1. \A m \in MAC : clients'[m] = IF m = j.mac THEN j.sess ELSE clients[m]
      BY <1>1, <2>1, <2>3
    <3>2. k.pc = "counter" /\ k.mac = j.mac /\ k.sess = j.sess
      BY <2>3 DEF Moved
    <3>3. SessionsOwn'
      <4>1. \A m \in MAC : clients'[m] # None => SessOwn(m, clients'[m])
        BY <2>1, <3>1 DEF LimitInv, SessionsOwn
      <4> QED
        BY <4>1 DEF SessionsOwn, SessOwn
    <3>4. PlainIsPlain'
      BY <2>1 DEF LimitInv, PlainIsPlain
    <3>5. HandOwn(ctl[p])'
      BY <1>1, <2>1, <3>2 DEF HandOwn, AddPc, SessOwn
    <3>6. Limited'
      <4>1. ASSUME NEW m \in MAC, clients'[m] # None
            PROVE  AppliedLimit(clients[m])' = clients'[m].lim \/ \E q \in Proc : Changing(q, m)'
        <5>1. CASE m = j.mac
          BY <3>2, <5>1 DEF Changing
        <5>2. CASE m # j.mac
          <6>1. clients'[m] = clients[m] /\ AppliedLimit(clients[m])' = AppliedLimit(clients[m])
            BY <2>1, <3>1, <5>2 DEF AppliedLimit
          <6>2. \A q \in Proc : Changing(q, m) => Changing(q, m)'
            BY <1>1, <2>1 DEF Changing
          <6> QED
            BY <4>1, <6>1, <6>2 DEF LimitInv, Limited
        <5> QED
          BY <5>1, <5>2
      <4> QED
        BY <4>1 DEF Limited
    <3>7. StillTheres'
      <4>1. \A q \in Proc \ {p} : ctl[q].pc \notin Inserts
        BY <1>1, <2>1, OneAtAdd DEF FlowInv, FlowOK, AddPc
      <4> QED
        BY <1>1, <2>1, <3>1, <3>2, <4>1 DEF StillTheres, StillThere
    <3> QED
      BY <1>3, <3>3, <3>4, <3>5, <3>6, <3>7
  <2> QED
    BY <1>1, <1>10, <2>2, <2>3, ExitMoves, GotoMoves DEF InsertClient
<1>11. CASE InsertCounter(p)
  <2>1. /\ j.pc = "counter" /\ UNCHANGED <<clients, rates>> /\ k.pc \in {"rate", "rollback"}
        /\ k.mac = j.mac /\ k.sess = j.sess
    BY <1>1, <1>11, AddMoves DEF InsertCounter, Moved
  <2>2. HandOwn(ctl[p])'
    BY <1>1, <2>1 DEF HandOwn, AddPc, SessOwn
  <2> QED
    BY <1>3, <1>4, <1>5, <1>6, <2>1, <2>2
<1>12. CASE Rollback(p)
  <2>1. /\ j.pc = "rollback" /\ UNCHANGED rates /\ k.pc = "exit" /\ j.mac \in MAC
        /\ clients' = [clients EXCEPT ![j.mac] = None]
    BY <1>1, <1>12, AddMoves DEF Rollback, Moved, InvocationOK, AddPc
  <2>2. clients'[j.mac] = None /\ \A m \in MAC : clients'[m] \in {clients[m], None}
    BY <1>1, <2>1
  <2>3. HandOwn(ctl[p])'
    BY <2>1 DEF HandOwn, AddPc
  <2> QED
    BY <1>3, <1>4, <1>5, <1>6, <2>1, <2>2, <2>3
<1>13. CASE InsertRate(p)
  <2>1. /\ j.pc = "rate" /\ UNCHANGED clients /\ k.pc = "exit" /\ j.mac \in MAC
        /\ j.sess \in Session /\ SessOwn(j.mac, j.sess)
        /\ rates' = UpdateIfFits(rates, j.sess.rate, j.sess.lim, MaxRates)
    BY <1>1, <1>13, AddMoves DEF InsertRate, Moved, InvocationOK, AddPc, HandOwn
  <2>2. j.sess.rate \in RateId /\ j.sess.lim \in Limit /\ j.sess.lim # None
    BY <2>1, ElementAssumption DEF Session
  <2>3. rates' = [rates EXCEPT ![j.sess.rate] = j.sess.lim]
    BY <1>1, <2>1, <2>2, ProfileFits
  <2>4. \A r \in RateId : rates'[r] = IF r = j.sess.rate THEN j.sess.lim ELSE rates[r]
    BY <1>1, <2>2, <2>3
  <2>5. PlainIsPlain'
    <3>1. j.sess.rate = NoLimitId => j.sess.lim = Unlimited
      BY <2>1 DEF SessOwn, OwnProfiles
    <3> QED
      BY <2>4, <3>1, RateAssumption DEF LimitInv, PlainIsPlain
  <2>6. SessionsOwn'
    BY <2>1 DEF LimitInv, SessionsOwn, SessOwn
  <2>7. HandOwn(ctl[p])'
    BY <2>1 DEF HandOwn, AddPc
  <2>8. Limited'
    <3>1. ASSUME NEW m \in MAC, clients[m] # None
          PROVE  AppliedLimit(clients[m])' = clients[m].lim \/ \E q \in Proc : Changing(q, m)'
      <4> DEFINE t == clients[m]
      <4>1. t.rate \in RateId /\ SessOwn(m, t) /\ t' = t
        BY <1>1, <2>1, <3>1 DEF Session, LimitInv, SessionsOwn
      <4>2. CASE m = j.mac
        <5>1. t = j.sess
          BY <2>1, <3>1, <4>2 DEF LimitInv, StillTheres, StillThere
        <5> QED
          BY <2>1, <2>2, <2>4, <4>1, <5>1 DEF AppliedLimit
      <4>3. CASE m # j.mac /\ t.rate = j.sess.rate
        <5>1. j.sess.lim = Unlimited /\ t.lim = Unlimited
          BY <2>1, <4>1, <4>3, OwnProfile
        <5> QED
          BY <2>2, <2>4, <4>1, <4>3, <5>1 DEF AppliedLimit
      <4>4. CASE m # j.mac /\ t.rate # j.sess.rate
        <5>1. AppliedLimit(t)' = AppliedLimit(t)
          BY <2>4, <4>1, <4>4 DEF AppliedLimit
        <5>2. \A q \in Proc : Changing(q, m) => Changing(q, m)'
          BY <1>1, <4>4 DEF Changing
        <5> QED
          BY <3>1, <4>1, <5>1, <5>2 DEF LimitInv, Limited
      <4> QED
        BY <4>2, <4>3, <4>4
    <3> QED
      BY <2>1, <3>1 DEF Limited
  <2> QED
    BY <1>3, <1>5, <2>1, <2>5, <2>6, <2>7, <2>8
<1>14. CASE PeekClient(p)
  <2>1. /\ j.pc = "peek" /\ UNCHANGED <<clients, rates>> /\ k.mac = j.mac /\ j.mac \in MAC
        /\ k.sess = clients[j.mac]
        /\ k.pc = IF k.sess = None THEN "unclient" ELSE "unrate"
    BY <1>1, <1>14, DelMoves DEF PeekClient, InvocationOK, DelPc
  <2>2. k.pc = "unrate" => SessOwn(k.mac, k.sess)
    BY <2>1 DEF LimitInv, SessionsOwn
  <2>3. HandOwn(ctl[p])'
    BY <2>1, <2>2 DEF HandOwn, AddPc, SessOwn
  <2> QED
    BY <1>3, <1>4, <1>5, <1>6, <2>1, <2>3
<1>15. CASE DeleteRate(p)
  <2>1. /\ j.pc = "unrate" /\ UNCHANGED clients /\ k.pc = "unclient" /\ k.mac = j.mac
        /\ j.mac \in MAC /\ j.sess \in Session /\ SessOwn(j.mac, j.sess)
        /\ rates' = [rates EXCEPT ![j.sess.rate] = None]
    BY <1>1, <1>15, DelMoves DEF DeleteRate, Moved, InvocationOK, DelPc, HandOwn
  <2>2. j.sess.rate \in RateId
    BY <2>1 DEF Session
  <2>3. \A r \in RateId : rates'[r] = IF r = j.sess.rate THEN None ELSE rates[r]
    BY <1>1, <2>1, <2>2
  <2>4. PlainIsPlain'
    BY <2>3, RateAssumption DEF LimitInv, PlainIsPlain
  <2>5. SessionsOwn'
    BY <2>1 DEF LimitInv, SessionsOwn, SessOwn
  <2>6. HandOwn(ctl[p])'
    BY <2>1 DEF HandOwn, AddPc
  <2>7. Limited'
    <3>1. ASSUME NEW m \in MAC, clients[m] # None
          PROVE  AppliedLimit(clients[m])' = clients[m].lim \/ \E q \in Proc : Changing(q, m)'
      <4> DEFINE t == clients[m]
      <4>1. t.rate \in RateId /\ SessOwn(m, t) /\ t' = t
        BY <1>1, <2>1, <3>1 DEF Session, LimitInv, SessionsOwn
      <4>2. CASE m = j.mac
        BY <2>1, <4>2 DEF Changing
      <4>3. CASE m # j.mac /\ t.rate = j.sess.rate
        <5>1. t.lim = Unlimited
          BY <2>1, <4>1, <4>3, OwnProfile
        <5> QED
          BY <2>3, <4>1, <4>3, <5>1 DEF AppliedLimit
      <4>4. CASE m # j.mac /\ t.rate # j.sess.rate
        <5>1. AppliedLimit(t)' = AppliedLimit(t)
          BY <2>3, <4>1, <4>4 DEF AppliedLimit
        <5>2. \A q \in Proc : Changing(q, m) => Changing(q, m)'
          BY <1>1, <4>4 DEF Changing
        <5> QED
          BY <3>1, <4>1, <5>1, <5>2 DEF LimitInv, Limited
      <4> QED
        BY <4>2, <4>3, <4>4
    <3> QED
      BY <2>1, <3>1 DEF Limited
  <2> QED
    BY <1>3, <1>5, <2>1, <2>4, <2>5, <2>6, <2>7
<1>16. CASE DeleteClient(p)
  <2>1. /\ j.pc = "unclient" /\ UNCHANGED rates /\ k.pc = "unbind" /\ j.mac \in MAC
        /\ clients' = [clients EXCEPT ![j.mac] = None]
    BY <1>1, <1>16, DelMoves DEF DeleteClient, Moved, InvocationOK, DelPc
  <2>2. clients'[j.mac] = None /\ \A m \in MAC : clients'[m] \in {clients[m], None}
    BY <1>1, <2>1
  <2>3. HandOwn(ctl[p])'
    BY <2>1 DEF HandOwn, AddPc
  <2> QED
    BY <1>3, <1>4, <1>5, <1>6, <2>1, <2>2, <2>3
<1>17. CASE CurrentIp(p) \/ DeleteCounter(p) \/ BypassStep(p)
  <2>1. /\ j.pc \in {"unbind", "uncounter", "single"} /\ UNCHANGED <<clients, rates>>
        /\ k.pc \in {"uncounter", "exit"}
    BY <1>1, <1>17, DelMoves DEF CurrentIp, DeleteCounter, BypassStep, Moved
  <2>2. HandOwn(ctl[p])'
    BY <2>1 DEF HandOwn, AddPc
  <2> QED
    BY <1>3, <1>4, <1>5, <1>6, <2>1, <2>2
<1>18. CASE MapDelStep(p)
  <2>1. /\ j.pc = "single" /\ UNCHANGED rates /\ k.pc = "exit"
        /\ \A m \in MAC : clients'[m] \in {clients[m], None}
    BY <1>1, <1>18, DelMoves DEF MapDelStep, Moved
  <2>2. HandOwn(ctl[p])'
    BY <2>1 DEF HandOwn, AddPc
  <2> QED
    BY <1>3, <1>4, <1>5, <1>6, <2>1, <2>2
<1> QED
  BY <1>1, <1>7, <1>8, <1>9, <1>10, <1>11, <1>12, <1>13, <1>14, <1>15, <1>16, <1>17, <1>18
     DEF CtlStep

LEMMA CommandKept ==
  ASSUME CtlTypeOK, NEW p \in Proc, CtlStep(p)
  PROVE  ctl'[p].cmd = ctl[p].cmd
<1>1. /\ ResolveMac(p) \/ ResolveIp(p) \/ ReadClock(p) => ctl'[p].cmd = ctl[p].cmd
      /\ InsertClient(p) \/ InsertCounter(p) \/ Rollback(p) \/ InsertRate(p) =>
           ctl'[p].cmd = ctl[p].cmd
  BY AddMoves
<1>2. (PeekClient(p) \/ CurrentIp(p) \/ DeleteRate(p) \/ DeleteClient(p)
       \/ DeleteCounter(p) \/ MapDelStep(p) \/ BypassStep(p)) => ctl'[p].cmd = ctl[p].cmd
  BY DelMoves
<1> QED
  BY <1>1, <1>2 DEF CtlStep

LEMMA LimitNext ==
  ASSUME OwnAddresses, OneAdder, OwnProfiles, RoomForProfiles, LimitInv, [Next]_vars
  PROVE  LimitInv'
<1>1. FlowInv /\ FlowInv' /\ LoginInv /\ TypeOK /\ CtlTypeOK
  BY FlowNext DEF LimitInv, FlowInv, LoginInv, TypeOK
<1>2. CASE Elsewhere
  <2>1. Callers' /\ SessionsOwn' /\ HandsOwn' /\ PlainIsPlain' /\ StillTheres'
    BY <1>2 DEF Elsewhere, LimitInv, Callers, SessionsOwn, HandsOwn, HandOwn, SessOwn,
                PlainIsPlain, StillTheres, StillThere
  <2>2. Limited'
    BY <1>2 DEF Elsewhere, LimitInv, Limited, Changing, AppliedLimit
  <2> QED
    BY <1>1, <2>1, <2>2 DEF LimitInv
<1>3. CASE Programs
  <2>1. PICK c \in CPU : ProgramStep(c) /\ UNCHANGED ctl
    BY <1>3 DEF Programs
  <2>2. UNCHANGED rates /\ \A m \in MAC : clients'[m] \in {clients[m], None}
    BY <1>1, <2>1, ProgramEffect
  <2>3. Callers' /\ HandsOwn' /\ PlainIsPlain'
    BY <2>1, <2>2 DEF LimitInv, Callers, HandsOwn, HandOwn, SessOwn, PlainIsPlain
  <2>4. SessionsOwn'
    BY <2>2 DEF LimitInv, SessionsOwn, SessOwn
  <2>5. Limited'
    BY <2>1, <2>2 DEF LimitInv, Limited, Changing, AppliedLimit
  <2>6. \A p \in Proc : ctl[p].pc \in AddPc => ctl[p].mac \in MAC
    BY <1>1 DEF CtlTypeOK, InvocationOK
  <2>7. StillTheres'
    BY <2>1, <2>2, <2>6 DEF LimitInv, StillTheres, StillThere, AddPc
  <2> QED
    BY <1>1, <2>3, <2>4, <2>5, <2>7 DEF LimitInv
<1>4. ASSUME NEW p \in Proc, Turnover(p) PROVE LimitInv'
  <2>1. /\ UNCHANGED <<clients, rates>> /\ \A q \in Proc \ {p} : ctl'[q] = ctl[q]
        /\ ctl[p].pc \in {"idle", "exit"}
        /\ p = Daemon \/ ctl'[p].cmd \in Commands \cup {"none"}
    BY <1>4 DEF Turnover, Only
  <2>2. ctl'[p].pc \notin {"counter", "rollback", "rate"}
    BY <1>4 DEF Turnover, Fresh, NoCommand
  <2>3. Callers'
    BY <2>1 DEF LimitInv, Callers
  <2>4. HandOwn(ctl[p])'
    <3>1. HandOwn(NoCommand)
      BY DEF HandOwn, NoCommand, AddPc
    <3>2. HandOwn(ctl'[p])
      BY <1>4, <3>1, FreshHand DEF Turnover
    <3> QED
      BY <3>2 DEF HandOwn, SessOwn
  <2>5. HandsOwn' /\ SessionsOwn' /\ PlainIsPlain'
    BY <2>1, <2>4 DEF LimitInv, HandsOwn, HandOwn, SessionsOwn, SessOwn, PlainIsPlain
  <2>6. Limited'
    BY <2>1 DEF LimitInv, Limited, Changing, AppliedLimit
  <2>7. StillTheres'
    BY <2>1, <2>2 DEF LimitInv, StillTheres, StillThere
  <2> QED
    BY <1>1, <2>3, <2>5, <2>6, <2>7 DEF LimitInv
<1>5. ASSUME NEW p \in Proc, Commanded(p) PROVE LimitInv'
  <2>1. ctl'[p].cmd = ctl[p].cmd /\ \A q \in Proc \ {p} : ctl'[q] = ctl[q]
    BY <1>1, <1>5, CommandKept DEF Commanded, Only
  <2>2. Callers'
    BY <2>1 DEF LimitInv, Callers
  <2> QED
    BY <1>1, <1>5, <2>2, LimitCommanded DEF LimitInv
<1> QED
  BY <1>1, <1>2, <1>3, <1>4, <1>5, KindsOfStep

LEMMA LimitInit == Init => LimitInv
<1> SUFFICES ASSUME Init PROVE LimitInv
  OBVIOUS
<1>1. FlowInv
  BY FlowInit
<1>2. SessionsOwn /\ PlainIsPlain /\ Limited
  BY RateAssumption DEF Init, MapsInit, SessionsOwn, PlainIsPlain, Limited
<1>3. Callers /\ HandsOwn /\ StillTheres
  BY DEF Init, CtlInit, NoCommand, Callers, HandsOwn, HandOwn, StillTheres, StillThere, AddPc
<1> QED
  BY <1>1, <1>2, <1>3 DEF LimitInv

\* If the ids of the devices' addresses are apart, hg_rates has room for every id
\* and one `add` runs at a time, every client is shaped by the limits its own
\* `add` gave, whatever `del` deletes, expires or is overtaken meanwhile.
THEOREM LimitsCorrect ==
  ASSUME OwnAddresses, OneAdder, OwnProfiles, RoomForProfiles
  PROVE  Spec => []OwnRateLimits
<1>1. LimitInv /\ [Next]_vars => LimitInv'
  BY LimitNext
<1>2. LimitInv => OwnRateLimits
  BY DEF LimitInv, Limited, Changing, OwnRateLimits, Quiescent
<1> QED
  BY <1>1, <1>2, LimitInit, PTL DEF Spec

-----------------------------------------------------------------------------
(***************************************************************************)
(* The request.                                                            *)
(***************************************************************************)
ReadRecord ==
  [pc: {"idle", "counter", "owner", "client", "expiry", "answer"},
   mac: MAC \cup {None}, ip: IP \cup {None}, st: CounterState \cup {"none"},
   own: MAC \cup {None}, sess: Session \cup {None}, had: BOOLEAN, gap: BOOLEAN]

\* Device m asks from address i.
Asks(m, i) == rd.pc # "idle" /\ rd.mac = m /\ rd.ip = i

\* The request is a device's, from an address of its own, and its history has been
\* brought up to date; no add is at work beside the expiry of the same client, but
\* after raced has been set.
RequestOK ==
  /\ rd \in ReadRecord
  /\ rd.pc # "idle" => \E m \in MAC, i \in IP : Asks(m, i) /\ Owns(m, i)
  /\ rd.pc = "counter" => rd.st = "none"
  /\ rd.pc \in {"counter", "owner"} => rd.sess = None
  /\ rd.pc = "client" => rd.own \in MAC
  /\ \A m \in MAC, i \in IP : Asks(m, i) =>
       (Authorised(m, i) => rd.had) /\ (Unauthorised(m) => rd.gap)
  /\ ~raced => \A m \in MAC : ~(Adding(m) /\ Expiring(m))

\* What a step of the gateway does to the request: the history grows.
LEMMA Watching ==
  ASSUME rd \in ReadRecord, Watched, NEW m \in MAC, NEW i \in IP, Asks(m, i)
  PROVE  /\ rd' \in ReadRecord /\ Asks(m, i)'
         /\ rd'.pc = rd.pc /\ rd'.st = rd.st /\ rd'.own = rd.own /\ rd'.sess = rd.sess
         /\ rd'.had <=> rd.had \/ Authorised(m, i)'
         /\ rd'.gap <=> rd.gap \/ Unauthorised(m)'
<1>1. PICK h \in BOOLEAN, g \in BOOLEAN :
        /\ rd' = [rd EXCEPT !.had = h, !.gap = g]
        /\ h <=> rd.had \/ Authorised(m, i)'
        /\ g <=> rd.gap \/ Unauthorised(m)'
  <2> DEFINE h == rd.had \/ \E n \in MAC, k \in IP : n = rd.mac /\ k = rd.ip /\ Authorised(n, k)'
             g == rd.gap \/ \E n \in MAC : n = rd.mac /\ Unauthorised(n)'
  <2>1. rd' = [rd EXCEPT !.had = h, !.gap = g]
    BY DEF Watched, Asks
  <2>2. h <=> rd.had \/ Authorised(m, i)'
    BY DEF Asks
  <2>3. g <=> rd.gap \/ Unauthorised(m)'
    BY DEF Asks
  <2>4. h \in BOOLEAN /\ g \in BOOLEAN
    OBVIOUS
  <2> HIDE DEF h, g
  <2> QED
    BY <2>1, <2>2, <2>3, <2>4
<1>2. /\ rd' \in ReadRecord
      /\ rd'.pc = rd.pc /\ rd'.mac = rd.mac /\ rd'.ip = rd.ip /\ rd'.st = rd.st
      /\ rd'.own = rd.own /\ rd'.sess = rd.sess /\ rd'.had = h /\ rd'.gap = g
  BY <1>1 DEF ReadRecord
<1> QED
  BY <1>1, <1>2 DEF Asks

\* A lookup leaves who asks, and the history, alone.
Looked(l) ==
  /\ rd' \in ReadRecord /\ rd'.pc = l
  /\ rd'.mac = rd.mac /\ rd'.ip = rd.ip /\ rd'.had = rd.had /\ rd'.gap = rd.gap

LEMMA Looks ==
  ASSUME TypeOK, RequestOK
  PROVE  /\ LookCounter =>
              \/ counters[rd.ip] = None /\ Looked("answer") /\ rd'.st = rd.st /\ rd'.sess = rd.sess
              \/ /\ counters[rd.ip] # None /\ Looked("owner") /\ rd'.st = counters[rd.ip]
                 /\ rd'.sess = rd.sess
         /\ LookOwner =>
              /\ Looked(IF ip_mac[rd.ip] = None THEN "expiry" ELSE "client")
              /\ rd'.st = rd.st /\ rd'.own = ip_mac[rd.ip] /\ rd'.sess = rd.sess
         /\ LookClient =>
              Looked("expiry") /\ rd'.st = rd.st /\ rd'.sess = clients[rd.own]
         /\ FillStats =>
              /\ Looked("answer")
              /\ rd'.st = IF ReadsExpired(rd.sess) THEN "EXPIRE" ELSE rd.st
<1>1. /\ rd \in ReadRecord
      /\ clients \in [MAC -> Session \cup {None}]
      /\ counters \in [IP -> CounterState \cup {None}]
      /\ ip_mac \in [IP -> MAC \cup {None}]
      /\ rd.pc # "idle" => rd.ip \in IP
      /\ rd.pc = "client" => rd.own \in MAC
  BY DEF RequestOK, Asks, TypeOK, MapsTypeOK
<1>2. ASSUME LookCounter, counters[rd.ip] = None
      PROVE  Looked("answer") /\ rd'.st = rd.st /\ rd'.sess = rd.sess
  <2>1. rd' = [rd EXCEPT !.pc = "answer"]
    BY <1>2 DEF LookCounter
  <2> QED
    BY <1>1, <2>1 DEF ReadRecord, Looked
<1>3. ASSUME LookCounter, counters[rd.ip] # None
      PROVE  Looked("owner") /\ rd'.st = counters[rd.ip] /\ rd'.sess = rd.sess
  <2>1. PICK s \in CounterState : s = counters[rd.ip]
    BY <1>1, <1>3 DEF LookCounter
  <2>2. rd' = [rd EXCEPT !.st = s, !.pc = "owner"]
    BY <1>3, <2>1 DEF LookCounter
  <2>3. Looked("owner") /\ rd'.st = s /\ rd'.sess = rd.sess
    BY <1>1, <2>2 DEF ReadRecord, Looked
  <2> QED
    BY <2>1, <2>3
<1>4. ASSUME LookOwner
      PROVE  /\ Looked(IF ip_mac[rd.ip] = None THEN "expiry" ELSE "client")
             /\ rd'.st = rd.st /\ rd'.own = ip_mac[rd.ip] /\ rd'.sess = rd.sess
  <2>1. PICK o \in MAC \cup {None} : o = ip_mac[rd.ip]
    BY <1>1, <1>4 DEF LookOwner
  <2>2. PICK l \in {"expiry", "client"} : l = IF o = None THEN "expiry" ELSE "client"
    OBVIOUS
  <2>3. rd' = [rd EXCEPT !.own = o, !.pc = l]
    BY <1>4, <2>1, <2>2 DEF LookOwner
  <2>4. Looked(l) /\ rd'.st = rd.st /\ rd'.own = o /\ rd'.sess = rd.sess
    BY <1>1, <2>3 DEF ReadRecord, Looked
  <2> QED
    BY <2>1, <2>2, <2>4
<1>5. ASSUME LookClient
      PROVE  Looked("expiry") /\ rd'.st = rd.st /\ rd'.sess = clients[rd.own]
  <2>1. PICK s \in Session \cup {None} : s = clients[rd.own]
    BY <1>1, <1>5 DEF LookClient
  <2>2. rd' = [rd EXCEPT !.sess = s, !.pc = "expiry"]
    BY <1>5, <2>1 DEF LookClient
  <2>3. Looked("expiry") /\ rd'.st = rd.st /\ rd'.sess = s
    BY <1>1, <2>2 DEF ReadRecord, Looked
  <2> QED
    BY <2>1, <2>3
<1>6. ASSUME FillStats
      PROVE  /\ Looked("answer")
             /\ rd'.st = IF ReadsExpired(rd.sess) THEN "EXPIRE" ELSE rd.st
  <2>1. PICK s \in CounterState \cup {"none"} :
          s = IF ReadsExpired(rd.sess) THEN "EXPIRE" ELSE rd.st
    BY <1>1 DEF ReadRecord, CounterState
  <2>2. rd' = [rd EXCEPT !.pc = "answer", !.st = s]
    BY <1>6, <2>1 DEF FillStats
  <2>3. Looked("answer") /\ rd'.st = s
    BY <1>1, <2>2 DEF ReadRecord, Looked
  <2> QED
    BY <2>1, <2>3
<1> QED
  BY <1>2, <1>3, <1>4, <1>5, <1>6

\* History that no step of the gateway has changed.
LEMMA Unchanged ==
  ASSUME UNCHANGED vars, NEW m \in MAC, NEW i \in IP
  PROVE  /\ Authorised(m, i)' <=> Authorised(m, i)
         /\ Unauthorised(m)' <=> Unauthorised(m)
         /\ Adding(m)' <=> Adding(m)
         /\ Expiring(m)' <=> Expiring(m)
BY DEF vars, env, Authorised, Unauthorised, Adding, Expiring, Removing, ValidAt

LEMMA RequestNext ==
  ASSUME LoginInv, RequestOK, [Reading \/ GatewayStep]_allVars
  PROVE  RequestOK'
<1>1. rd \in ReadRecord /\ TypeOK
  BY DEF RequestOK, LoginInv
<1>2. CASE GatewayStep
  <2>1. Watched
    BY <1>2 DEF GatewayStep
  <2>2. ~raced' => ~raced /\ \A m \in MAC : ~(Adding(m)' /\ Expiring(m)')
    BY <2>1 DEF Watched
  <2>3. CASE rd.pc = "idle"
    <3>1. rd' = rd
      BY <2>1, <2>3 DEF Watched
    <3> QED
      BY <1>1, <2>2, <2>3, <3>1 DEF RequestOK, Asks
  <2>4. CASE rd.pc # "idle"
    <3>1. PICK m \in MAC, i \in IP : Asks(m, i) /\ Owns(m, i)
      BY <2>4 DEF RequestOK
    <3>2. /\ rd' \in ReadRecord /\ Asks(m, i)'
          /\ rd'.pc = rd.pc /\ rd'.st = rd.st /\ rd'.own = rd.own /\ rd'.sess = rd.sess
          /\ rd'.had <=> rd.had \/ Authorised(m, i)'
          /\ rd'.gap <=> rd.gap \/ Unauthorised(m)'
      BY <1>1, <2>1, <3>1, Watching
    <3>3. \A n \in MAC, k \in IP : Asks(n, k)' => n = m /\ k = i
      BY <3>2 DEF Asks
    <3>4. \A n \in MAC, k \in IP : Asks(n, k)' =>
            (Authorised(n, k)' => rd'.had) /\ (Unauthorised(n)' => rd'.gap)
      BY <3>2, <3>3
    <3> QED
      BY <2>2, <3>1, <3>2, <3>4 DEF RequestOK
  <2> QED
    BY <2>3, <2>4
<1>3. ASSUME UNCHANGED <<vars, raced>>, Looked(rd'.pc), rd.pc # "idle",
             rd'.pc # "counter",
             rd'.pc = "owner" => rd'.sess = None,
             rd'.pc = "client" => rd'.own \in MAC
      PROVE  RequestOK'
  <2>1. PICK m \in MAC, i \in IP : Asks(m, i) /\ Owns(m, i)
    BY <1>3 DEF RequestOK
  <2>2. rd'.pc # "idle" => Asks(m, i)'
    BY <1>3, <2>1 DEF Asks, Looked
  <2>3. \A n \in MAC, k \in IP : Asks(n, k)' => Asks(n, k)
    BY <1>3 DEF Asks, Looked
  <2>4. \A n \in MAC, k \in IP : Asks(n, k)' =>
          (Authorised(n, k)' => rd'.had) /\ (Unauthorised(n)' => rd'.gap)
    BY <1>3, <2>3, Unchanged DEF RequestOK, Looked
  <2>5. ~raced' => \A n \in MAC : ~(Adding(n)' /\ Expiring(n)')
    BY <1>3, <2>1, Unchanged DEF RequestOK
  <2> QED
    BY <1>3, <2>1, <2>2, <2>4, <2>5 DEF RequestOK, Looked
<1>4. CASE LookCounter
  <2>1. UNCHANGED <<vars, raced>> /\ rd.pc = "counter" /\ rd.sess = None
    BY <1>4 DEF LookCounter, RequestOK
  <2>2. Looked(rd'.pc) /\ rd'.pc \in {"answer", "owner"} /\ rd'.sess = rd.sess
    BY <1>1, <1>4, Looks DEF Looked
  <2> QED
    BY <1>3, <2>1, <2>2
<1>5. CASE LookOwner
  <2>1. UNCHANGED <<vars, raced>> /\ rd.pc = "owner" /\ rd.ip \in IP
    BY <1>5 DEF LookOwner, RequestOK, Asks
  <2>2. /\ Looked(rd'.pc) /\ rd'.own = ip_mac[rd.ip]
        /\ rd'.pc = IF ip_mac[rd.ip] = None THEN "expiry" ELSE "client"
    BY <1>1, <1>5, Looks DEF Looked
  <2>3. ip_mac[rd.ip] \in MAC \cup {None}
    BY <1>1, <2>1 DEF TypeOK, MapsTypeOK
  <2> QED
    BY <1>3, <2>1, <2>2, <2>3
<1>6. CASE LookClient \/ FillStats
  <2>1. UNCHANGED <<vars, raced>> /\ rd.pc # "idle"
    BY <1>6 DEF LookClient, FillStats
  <2>2. Looked(rd'.pc) /\ rd'.pc \in {"expiry", "answer"}
    BY <1>1, <1>6, Looks DEF Looked
  <2> QED
    BY <1>3, <2>1, <2>2
<1>7. ASSUME NEW m \in MAC, PageRequest(m) PROVE RequestOK'
  <2>1. m \in heard /\ UNCHANGED <<vars, raced>>
    BY <1>7 DEF PageRequest
  <2>2. PICK i \in IP : i = addr[m]
    BY <1>1, <2>1 DEF TypeOK, EnvTypeOK
  <2>3. Owns(m, i)
    BY <2>2, NoneAssumption DEF LoginInv, AddrLeased
  <2>4. PICK h \in BOOLEAN, g \in BOOLEAN :
          /\ rd' = [NoRead EXCEPT !.pc = "counter", !.mac = m, !.ip = i, !.had = h, !.gap = g]
          /\ h <=> Authorised(m, i)
          /\ g <=> Unauthorised(m)
    <3> DEFINE h == Authorised(m, i)
               g == Unauthorised(m)
    <3>1. h \in BOOLEAN /\ g \in BOOLEAN
      BY DEF Authorised, Unauthorised
    <3>2. rd' = [NoRead EXCEPT !.pc = "counter", !.mac = m, !.ip = i, !.had = h, !.gap = g]
      BY <1>7, <2>2 DEF PageRequest
    <3> HIDE DEF h, g
    <3>3. PICK a \in BOOLEAN, b \in BOOLEAN : a = h /\ b = g
      BY <3>1
    <3> QED
      BY <3>2, <3>3 DEF h, g
  <2>5. /\ rd' \in ReadRecord /\ rd'.pc = "counter" /\ rd'.mac = m /\ rd'.ip = i
        /\ rd'.st = "none" /\ rd'.sess = None /\ rd'.had = h /\ rd'.gap = g
    BY <2>4 DEF NoRead, ReadRecord
  <2>6. Asks(m, i)' /\ \A n \in MAC, k \in IP : Asks(n, k)' => n = m /\ k = i
    BY <2>5 DEF Asks
  <2>7. \A n \in MAC, k \in IP : Asks(n, k)' =>
          (Authorised(n, k)' => rd'.had) /\ (Unauthorised(n)' => rd'.gap)
    BY <2>1, <2>4, <2>5, <2>6, Unchanged
  <2>8. ~raced' => \A n \in MAC : ~(Adding(n)' /\ Expiring(n)')
    BY <2>1, <2>2, Unchanged DEF RequestOK
  <2> QED
    BY <2>3, <2>5, <2>6, <2>7, <2>8 DEF RequestOK
<1>8. CASE Answer \/ UNCHANGED allVars
  <2>1. UNCHANGED <<vars, raced>> /\ rd' \in {rd, NoRead}
    BY <1>8 DEF Answer, allVars
  <2>2. NoRead \in ReadRecord /\ NoRead.pc = "idle"
    BY DEF NoRead, ReadRecord
  <2>3. \A n \in MAC, k \in IP : Asks(n, k)' => Asks(n, k) /\ rd' = rd
    BY <2>1, <2>2 DEF Asks
  <2>4. \A n \in MAC, k \in IP : Asks(n, k)' =>
          (Authorised(n, k)' => rd'.had) /\ (Unauthorised(n)' => rd'.gap)
    BY <2>1, <2>3, Unchanged DEF RequestOK
  <2>5. ~raced' => \A n \in MAC : ~(Adding(n)' /\ Expiring(n)')
    BY <2>1 DEF RequestOK, vars, Adding, Expiring
  <2>6. rd'.pc # "idle" => \E m \in MAC, i \in IP : Asks(m, i)' /\ Owns(m, i)
    BY <2>1, <2>2 DEF RequestOK, Asks
  <2> QED
    BY <1>1, <2>1, <2>2, <2>4, <2>5, <2>6 DEF RequestOK
<1> QED
  BY <1>2, <1>4, <1>5, <1>6, <1>7, <1>8 DEF Reading

LEMMA RequestInit == ReaderInit => RequestOK
<1> SUFFICES ASSUME ReaderInit PROVE RequestOK
  OBVIOUS
<1>1. rd = NoRead /\ NoRead \in ReadRecord /\ NoRead.pc = "idle"
  BY DEF ReaderInit, NoRead, ReadRecord
<1>2. \A m \in MAC : ~Adding(m)
  BY DEF ReaderInit, Init, CtlInit, NoCommand, Adding
<1> QED
  BY <1>1, <1>2 DEF RequestOK, Asks

-----------------------------------------------------------------------------
(***************************************************************************)
(* What a step of the gateway does to the clock, a session, a counter.     *)
(***************************************************************************)
LEMMA ClockNext ==
  ASSUME [Next]_vars
  PROVE  now' \in {now, now + 1}
<1>1. CASE Tick \/ UNCHANGED vars
  BY <1>1 DEF Tick, vars
<1>2. CASE \E m \in MAC : Release(m) \/ Login(m) \/ \E i \in IP : Lease(m, i)
  BY <1>2 DEF Release, Login, Lease, Add
<1>3. ASSUME NEW c \in CPU, ProgramStep(c) PROVE UNCHANGED now
  <2>1. StaticBypass(c) \/ BindLookup(c) \/ BindForward(c) \/ BindReverse(c) \/ PortalTraffic(c)
          => UNCHANGED now
    BY DEF StaticBypass, BindLookup, BindForward, BindReverse, PortalTraffic
  <2>2. Resolve(c) \/ AuthLookup(c) \/ ExpiryCheck(c) \/ ExpireDelete(c) \/ ExpireMark(c)
          \/ Shape(c) \/ Account(c) \/ PreAuth(c) => UNCHANGED now
    BY DEF Resolve, AuthLookup, ExpiryCheck, ExpireDelete, ExpireMark, Shape, Account, PreAuth
  <2> QED
    BY <1>3, <2>1, <2>2 DEF ProgramStep
<1>4. ASSUME NEW c \in CPU, Deliver(c) \/ Download(c) \/ \E m \in MAC : Upload(c, m)
      PROVE  UNCHANGED now
  BY <1>4 DEF Deliver, Return, Download, Egress, Upload, Ingress
<1>5. ASSUME NEW p \in Proc, CtlStep(p) PROVE UNCHANGED now
  <2>1. ResolveMac(p) \/ ResolveIp(p) \/ ReadClock(p) \/ InsertClient(p) \/ InsertCounter(p)
          \/ Rollback(p) \/ InsertRate(p) => UNCHANGED now
    BY DEF ResolveMac, ResolveIp, ReadClock, InsertClient, InsertCounter, Rollback, InsertRate
  <2>2. PeekClient(p) \/ DeleteRate(p) \/ DeleteClient(p) \/ CurrentIp(p) \/ DeleteCounter(p)
          \/ MapDelStep(p) \/ BypassStep(p) => UNCHANGED now
    BY DEF PeekClient, DeleteRate, DeleteClient, CurrentIp, DeleteCounter, MapDelStep, BypassStep
  <2> QED
    BY <1>5, <2>1, <2>2 DEF CtlStep
<1>6. ASSUME NEW p \in Proc, Operator(p) \/ Wait(p) PROVE UNCHANGED now
  BY <1>6 DEF Operator, Add, Del, MapDel, Bypass, Wait, Reap
<1> QED
  BY <1>1, <1>2, <1>3, <1>4, <1>5, <1>6 DEF Next, Run, Ctl

\* The session of device m has been inserted by p, or deleted by p.
Added(p, m) ==
  ctl[p].pc = "client" /\ ctl'[p].pc = "counter" /\ ctl[p].mac = m /\ ctl'[p].mac = m
Ended(p, m) ==
  /\ clients'[m] = None /\ ctl[p].mac = m
  /\ \/ ctl[p].pc = "rollback"
     \/ ctl[p].pc = "unclient" /\ ctl'[p].pc = "unbind" /\ ctl'[p].mac = m
     \/ ctl[p].pc = "single" /\ ctl[p].cmd = "map_del"

\* The counter of address i has been inserted by p, or deleted by p.
Counted(p, i) == ctl[p].pc = "counter" /\ ctl[p].ip = i /\ counters'[i] = "AUTH_OK"
Uncounted(p, i) == ctl[p].pc = "uncounter" /\ ctl[p].ip = i /\ counters'[i] = None

LEMMA CommandEffect ==
  ASSUME TypeOK, NEW p \in Proc, CtlStep(p)
  PROVE  /\ \A m \in MAC : clients'[m] = clients[m] \/ Added(p, m) \/ Ended(p, m)
         /\ \A i \in IP : counters'[i] = counters[i] \/ Counted(p, i) \/ Uncounted(p, i)
         /\ ctl[p].pc = "counter" =>
              Counted(p, ctl[p].ip) \/ (ctl'[p].pc = "rollback" /\ ctl'[p].mac = ctl[p].mac)
         /\ ctl[p].pc = "rollback" => clients'[ctl[p].mac] = None
<1> DEFINE j == ctl[p]
<1>1. /\ CtlTypeOK /\ InvocationOK(j)
      /\ clients \in [MAC -> Session \cup {None}]
      /\ counters \in [IP -> CounterState \cup {None}]
  BY DEF TypeOK, MapsTypeOK, CtlTypeOK
<1>2. ASSUME UNCHANGED <<clients, counters>>, j.pc \notin {"counter", "rollback"}
      PROVE  /\ \A m \in MAC : clients'[m] = clients[m]
             /\ \A i \in IP : counters'[i] = counters[i]
             /\ j.pc \notin {"counter", "rollback"}
  BY <1>2
<1>3. ResolveMac(p) \/ ResolveIp(p) \/ ReadClock(p) \/ InsertRate(p) \/ PeekClient(p)
        \/ DeleteRate(p) \/ CurrentIp(p) \/ BypassStep(p)
        => UNCHANGED <<clients, counters>> /\ j.pc \notin {"counter", "rollback"}
  BY DEF ResolveMac, ResolveIp, ReadClock, InsertRate, PeekClient, DeleteRate, CurrentIp,
         BypassStep
<1>4. CASE InsertClient(p)
  <2>1. j.pc = "client" /\ j.mac \in MAC /\ UNCHANGED counters
    BY <1>1, <1>4 DEF InsertClient, InvocationOK, AddPc
  <2>2. CASE UNCHANGED clients
    BY <2>1, <2>2
  <2>3. CASE CtlGoto(p, "counter") /\ clients' = [clients EXCEPT ![j.mac] = j.sess]
    <3>1. Added(p, j.mac)
      BY <1>1, <2>1, <2>3, GotoMoves DEF Moved, Added
    <3>2. \A m \in MAC \ {j.mac} : clients'[m] = clients[m]
      BY <1>1, <2>1, <2>3
    <3> QED
      BY <2>1, <3>1, <3>2
  <2> QED
    BY <1>4, <2>2, <2>3 DEF InsertClient
<1>5. CASE InsertCounter(p)
  <2>1. j.pc = "counter" /\ j.ip \in IP /\ UNCHANGED clients
    BY <1>1, <1>5 DEF InsertCounter, InvocationOK, AddPc
  <2>2. CASE CtlGoto(p, "rollback") /\ UNCHANGED counters
    BY <1>1, <2>1, <2>2, GotoMoves DEF Moved
  <2>3. CASE counters' = [counters EXCEPT ![j.ip] = "AUTH_OK"]
    <3>1. Counted(p, j.ip) /\ \A i \in IP \ {j.ip} : counters'[i] = counters[i]
      BY <1>1, <2>1, <2>3 DEF Counted
    <3> QED
      BY <2>1, <3>1
  <2> QED
    BY <1>5, <2>2, <2>3 DEF InsertCounter
<1>6. CASE Rollback(p) \/ MapDelStep(p)
  <2>1. /\ j.mac \in MAC /\ UNCHANGED counters /\ clients' = [clients EXCEPT ![j.mac] = None]
        /\ j.pc = "rollback" \/ (j.pc = "single" /\ j.cmd = "map_del")
    BY <1>1, <1>6 DEF Rollback, MapDelStep, InvocationOK, AddPc
  <2>2. Ended(p, j.mac) /\ \A m \in MAC \ {j.mac} : clients'[m] = clients[m]
    BY <1>1, <2>1 DEF Ended
  <2> QED
    BY <2>1, <2>2 DEF Ended
<1>7. CASE DeleteClient(p)
  <2>1. /\ j.mac \in MAC /\ UNCHANGED counters /\ clients' = [clients EXCEPT ![j.mac] = None]
        /\ j.pc = "unclient" /\ Moved(p, "unbind")
    BY <1>1, <1>7, DelMoves DEF DeleteClient, InvocationOK, DelPc
  <2>2. Ended(p, j.mac) /\ \A m \in MAC \ {j.mac} : clients'[m] = clients[m]
    BY <1>1, <2>1 DEF Ended, Moved
  <2> QED
    BY <2>1, <2>2
<1>8. CASE DeleteCounter(p)
  <2>1. /\ j.pc = "uncounter" /\ j.ip \in IP /\ UNCHANGED clients
        /\ counters' = [counters EXCEPT ![j.ip] = None]
    BY <1>1, <1>8 DEF DeleteCounter, InvocationOK, DelPc
  <2>2. Uncounted(p, j.ip) /\ \A i \in IP \ {j.ip} : counters'[i] = counters[i]
    BY <1>1, <2>1 DEF Uncounted
  <2> QED
    BY <2>1, <2>2
<1> QED
  BY <1>2, <1>3, <1>4, <1>5, <1>6, <1>7, <1>8 DEF CtlStep

\* A session that a program ends is one whose counter it is going to mark.
LEMMA EndsMarking ==
  ASSUME LoginInv, NEW c \in CPU, ProgramStep(c), NEW m \in MAC,
         clients[m] # None, clients'[m] = None
  PROVE  /\ cpu[c].pc = "expire" /\ cpu[c].mac = m
         /\ cpu'[c].pc = "mark" /\ cpu'[c].ip = cpu[c].ip /\ cpu[c].ip \in IP
         /\ cpu[c].ip # Unspecified => Owns(m, cpu[c].ip)
<1>1. /\ TypeOK /\ DatapathTypeOK /\ ProgramOK(cpu[c]) /\ SourceOK(cpu[c])
      /\ cpu \in [CPU -> Program]
      /\ clients \in [MAC -> Session \cup {None}]
  BY DEF LoginInv, TypeOK, MapsTypeOK, DatapathTypeOK, SourcesOwn
<1>2. cpu[c].pc = "expire"
  BY <1>1, ProgramEffect
<1>3. ExpireDelete(c)
  BY <1>2, ExpirySteps
<1>4. cpu[c].mac \in MAC /\ cpu[c].ip \in IP /\ clients' = [clients EXCEPT ![cpu[c].mac] = None]
  BY <1>1, <1>2, <1>3 DEF ExpireDelete, ProgramOK, NeedsMac, HoldsSession
<1>5. cpu[c].mac = m
  BY <1>1, <1>4
<1>6. cpu'[c].pc = "mark" /\ cpu'[c].ip = cpu[c].ip
  BY <1>1, <1>3 DEF ExpireDelete, Goto, Program
<1> QED
  BY <1>1, <1>2, <1>4, <1>5, <1>6 DEF SourceOK

-----------------------------------------------------------------------------
(***************************************************************************)
(* LoginPageOffered.  The reader finds an expired session only under the   *)
(* MAC to which hg_ip_mac binds the address, and only while the session is *)
(* there: a counter must be bound, and a session that goes must be seen    *)
(* going.                                                                  *)
(***************************************************************************)
\* Clients are added by the address of a device that has been seen.
AddsByAddress == Commands \cap AddCommand \subseteq {"add_ip"}

\* Then whoever has a counter, or is getting one, is bound to the address.
Known ==
  /\ \A i \in IP : counters[i] # None => ip_mac[i] # None
  /\ \A p \in Proc : ctl[p].pc \in AddPc => ip_mac[ctl[p].ip] # None

LEMMA KnownNext ==
  ASSUME AddsByAddress, FlowInv, Known, [Next]_vars
  PROVE  Known'
<1>1. /\ LoginInv /\ TypeOK /\ CtlTypeOK /\ DatapathTypeOK
      /\ ip_mac \in [IP -> MAC \cup {None}]
      /\ counters \in [IP -> CounterState \cup {None}]
      /\ \A p \in Proc : InvocationOK(ctl[p]) /\ FlowOK(ctl[p])
  BY DEF FlowInv, LoginInv, TypeOK, MapsTypeOK, CtlTypeOK
<1>2. CASE Elsewhere
  BY <1>2 DEF Elsewhere, Known
<1>3. CASE Programs
  <2>1. PICK c \in CPU : ProgramStep(c) /\ UNCHANGED ctl
    BY <1>3 DEF Programs
  <2>2. \A i \in IP : counters'[i] = None <=> counters[i] = None
    BY <1>1, <2>1, ProgramEffect
  <2>3. \A i \in IP : ip_mac[i] # None => ip_mac'[i] # None
    <3>1. CASE BindReverse(c)
      <4>1. cpu[c].mac \in MAC /\ cpu[c].ip \in IP
        BY <1>1, <3>1 DEF BindReverse, DatapathTypeOK, ProgramOK, NeedsMac
      <4>2. ip_mac' = ip_mac \/ ip_mac' = [ip_mac EXCEPT ![cpu[c].ip] = cpu[c].mac]
        BY <3>1 DEF BindReverse, UpdateIfFits
      <4> QED
        BY <1>1, <4>1, <4>2, NoneAssumption
    <3>2. CASE UNCHANGED ip_mac
      BY <3>2
    <3> QED
      BY <2>1, <3>1, <3>2, ProgramBindings DEF BindForward
  <2>4. \A p \in Proc : ctl[p].pc \in AddPc => ctl[p].ip \in IP
    BY <1>1 DEF InvocationOK
  <2> QED
    BY <2>1, <2>2, <2>3, <2>4 DEF Known
<1>4. ASSUME NEW p \in Proc, Turnover(p) PROVE Known'
  <2>1. UNCHANGED maps /\ \A q \in Proc \ {p} : ctl'[q] = ctl[q]
    BY <1>4 DEF Turnover, Only
  <2>2. ctl'[p].pc \notin AddPc
    BY <1>4 DEF Turnover, Fresh, NoCommand, AddPc, AddsByAddress, AddCommand
  <2> QED
    BY <2>1, <2>2 DEF Known
<1>5. ASSUME NEW p \in Proc, Commanded(p) PROVE Known'
  <2> DEFINE j == ctl[p]
             k == ctl'[p]
  <2>1. /\ UNCHANGED ip_mac /\ CtlStep(p) /\ \A q \in Proc \ {p} : ctl'[q] = ctl[q]
        /\ InvocationOK(j) /\ FlowOK(j)
    BY <1>1, <1>5 DEF Commanded, Only
  <2>2. \A i \in IP : counters'[i] # None => ip_mac[i] # None
    BY <1>1, <2>1, CommandEffect DEF Known, Counted, Uncounted, AddPc
  <2>3. k.pc \in AddPc => ip_mac[k.ip] # None
    <3>1. CASE ResolveMac(p)
      <4>1. k.pc = "exit" \/ k.pc = "peek"
            \/ (j.cmd = "add_ip" /\ ip_mac[j.ip] # None /\ k.ip = j.ip)
        BY <1>1, <3>1, AddMoves DEF Moved
      <4> QED
        BY <4>1 DEF AddPc
    <3>2. CASE ResolveIp(p)
      <4>1. j.cmd = "add_mac" /\ j.cmd \in Commands
        BY <2>1, <3>2 DEF ResolveIp, FlowOK
      <4> QED
        BY <4>1 DEF AddsByAddress, AddCommand
    <3>3. CASE ReadClock(p) \/ InsertClient(p) \/ InsertCounter(p) \/ Rollback(p) \/ InsertRate(p)
      <4>1. k.ip = j.ip
        BY <1>1, <3>3, AddMoves DEF Moved
      <4>2. j.pc \in AddPc
        BY <3>3 DEF ReadClock, InsertClient, InsertCounter, Rollback, InsertRate, AddPc
      <4> QED
        BY <4>1, <4>2 DEF Known
    <3>4. CASE PeekClient(p) \/ CurrentIp(p) \/ DeleteRate(p) \/ DeleteClient(p)
               \/ DeleteCounter(p) \/ MapDelStep(p) \/ BypassStep(p)
      <4>1. k.pc \in {"unclient", "unrate", "exit", "uncounter", "unbind"}
        BY <1>1, <3>4, DelMoves DEF Moved
      <4> QED
        BY <4>1 DEF AddPc
    <3> QED
      BY <2>1, <3>1, <3>2, <3>3, <3>4 DEF CtlStep
  <2> QED
    BY <2>1, <2>2, <2>3 DEF Known
<1> QED
  BY <1>1, <1>2, <1>3, <1>4, <1>5, KindsOfStep

\* What a request has found that may end with the login page hidden.
Offer ==
  \A m \in MAC, i \in IP : (Asks(m, i) /\ ~raced /\ ~rd.had /\ rd.st = "AUTH_OK") =>
    /\ rd.pc \in {"owner", "client"} => clients[m] # None /\ counters[i] # None
    /\ rd.pc = "client" => rd.own = m
    /\ rd.pc = "expiry" => rd.sess \in Session /\ ~ValidAt(rd.sess, now)
    /\ rd.pc # "answer"

OfferInv == DelInv /\ Known /\ (raced \/ (Active /\ Inserted)) /\ RequestOK /\ Offer

\* While nobody sees them go, a session and its counter stay.
LEMMA OfferKept ==
  ASSUME OneHome, DelAlone, NoRequests, NoMapDel, DelInv, Active, Inserted, [Next]_vars,
         NEW m \in MAC, NEW i \in IP, Owns(m, i), clients[m] # None, counters[i] # None,
         ~Removing(m, i), ~Removing(m, i)'
  PROVE  clients'[m] # None /\ counters'[i] # None
<1>1. LoginInv /\ TypeOK /\ CtlTypeOK /\ FlowInv /\ AddressesSeen
  BY DEF DelInv, ServedInv, FlowInv, LoginInv, TypeOK, AddressesSeen, NoRequests
<1>2. CASE Elsewhere \/ \E p \in Proc : Turnover(p)
  BY <1>2 DEF Elsewhere, Turnover
<1>3. CASE Programs
  <2>1. PICK c \in CPU : ProgramStep(c) /\ UNCHANGED ctl
    BY <1>3 DEF Programs
  <2>2. counters'[i] # None
    BY <1>1, <2>1, ProgramEffect
  <2>3. ASSUME clients'[m] = None PROVE FALSE
    <3>1. cpu'[c].pc = "mark" /\ cpu'[c].ip \in IP /\ Owns(m, cpu'[c].ip)
      BY <1>1, <2>1, <2>3, EndsMarking DEF NoRequests
    <3>2. cpu'[c].ip = i
      BY <3>1, OneAddress
    <3> QED
      BY <3>1, <3>2 DEF Removing
  <2> QED
    BY <2>2, <2>3
<1>4. ASSUME NEW p \in Proc, Commanded(p) PROVE clients'[m] # None /\ counters'[i] # None
  <2> DEFINE j == ctl[p]
             k == ctl'[p]
  <2>1. CtlStep(p) /\ InvocationOK(j) /\ FlowOK(j)
    BY <1>1, <1>4 DEF Commanded, FlowInv, CtlTypeOK
  <2>2. ASSUME clients'[m] = None PROVE FALSE
    <3>1. Ended(p, m) \/ Added(p, m)
      BY <1>1, <2>1, <2>2, CommandEffect
    <3>2. CASE Ended(p, m)
      <4>1. CASE j.pc = "rollback"
        <5>1. Owns(j.mac, j.ip) /\ j.ip \in IP
          BY <1>1, <2>1, <4>1, WorksForOwn DEF AddPc, InvocationOK
        <5>2. j.ip = i
          BY <3>2, <5>1, OneAddress DEF Ended
        <5> QED
          BY <4>1, <5>2 DEF Inserted, NoRoom, Fits
      <4>2. CASE k.pc = "unbind" /\ k.mac = m
        BY <4>2 DEF Removing
      <4>3. CASE j.pc = "single" /\ j.cmd = "map_del"
        BY <2>1, <4>3 DEF FlowOK, NoMapDel
      <4> QED
        BY <3>2, <4>1, <4>2, <4>3 DEF Ended
    <3>3. CASE Added(p, m)
      <4>1. j.pc = "client" /\ k.pc = "counter"
        BY <3>3 DEF Added
      <4>2. InsertClient(p)
        <5>1. ResolveMac(p) \/ ResolveIp(p) \/ ReadClock(p) \/ InsertCounter(p) \/ Rollback(p)
                \/ InsertRate(p) => j.pc # "client"
          BY DEF ResolveMac, ResolveIp, ReadClock, InsertCounter, Rollback, InsertRate
        <5>2. PeekClient(p) \/ DeleteRate(p) \/ DeleteClient(p) \/ CurrentIp(p)
                \/ DeleteCounter(p) \/ MapDelStep(p) \/ BypassStep(p) => j.pc # "client"
          BY DEF PeekClient, DeleteRate, DeleteClient, CurrentIp, DeleteCounter, MapDelStep,
                 BypassStep
        <5> QED
          BY <2>1, <4>1, <5>1, <5>2 DEF CtlStep
      <4>3. j.mac = m /\ j.sess # None /\ clients \in [MAC -> Session \cup {None}]
        BY <1>1, <2>1, <3>3, <4>1, ElementAssumption
           DEF Added, InvocationOK, AddPc, TypeOK, MapsTypeOK
      <4> QED
        BY <2>2, <4>2, <4>3 DEF InsertClient
    <3> QED
      BY <3>1, <3>2, <3>3
  <2>3. ASSUME counters'[i] = None PROVE FALSE
    <3>1. Uncounted(p, i)
      BY <1>1, <2>1, <2>3, CommandEffect, NoneAssumption DEF Counted
    <3>2. j.pc = "uncounter" /\ j.ip = i /\ j.mac \in MAC
      BY <2>1, <3>1 DEF Uncounted, InvocationOK, DelPc
    <3>3. Owns(j.mac, i)
      BY <2>1, <3>2 DEF FlowOK, NoRequests
    <3>4. j.mac = m
      BY <3>3, OneOwner DEF OneHome
    <3> QED
      BY <3>2, <3>4 DEF Removing
  <2> QED
    BY <2>2, <2>3
<1> QED
  BY <1>1, <1>2, <1>3, <1>4, KindsOfStep

LEMMA OfferGateway ==
  ASSUME OneHome, DelAlone, NoRequests, NoMapDel, OfferInv, GatewayStep
  PROVE  Offer'
<1>1. LoginInv /\ TypeOK /\ TypeOK' /\ rd \in ReadRecord /\ Next /\ Watched
  BY LoginNext DEF OfferInv, DelInv, ServedInv, FlowInv, LoginInv, RequestOK, GatewayStep, OneHome
<1> SUFFICES ASSUME NEW m \in MAC, NEW i \in IP,
                    Asks(m, i)', ~raced', ~rd'.had, rd'.st = "AUTH_OK"
             PROVE  /\ rd'.pc \in {"owner", "client"} => clients'[m] # None /\ counters'[i] # None
                    /\ rd'.pc = "client" => rd'.own = m
                    /\ rd'.pc = "expiry" => rd'.sess \in Session /\ ~ValidAt(rd'.sess, now')
                    /\ rd'.pc # "answer"
  BY DEF Offer
<1>2. PICK n \in MAC, k \in IP : Asks(n, k) /\ Owns(n, k)
  <2>1. rd.pc # "idle"
    <3>1. rd.pc = "idle" => rd' = rd
      BY <1>1 DEF Watched
    <3> QED
      BY <3>1 DEF Asks
  <2> QED
    BY <2>1 DEF OfferInv, RequestOK
<1>3. /\ n = m /\ k = i /\ Asks(m, i)
      /\ rd'.pc = rd.pc /\ rd'.st = rd.st /\ rd'.own = rd.own /\ rd'.sess = rd.sess
      /\ rd'.had <=> rd.had \/ Authorised(m, i)'
  <2>1. /\ Asks(n, k)'
        /\ rd'.pc = rd.pc /\ rd'.st = rd.st /\ rd'.own = rd.own /\ rd'.sess = rd.sess
        /\ rd'.had <=> rd.had \/ Authorised(n, k)'
    BY <1>1, <1>2, Watching
  <2>2. n = m /\ k = i
    BY <2>1 DEF Asks
  <2> QED
    BY <1>2, <2>1, <2>2
<1>4. ~raced /\ ~rd.had /\ ~Authorised(m, i) /\ ~Authorised(m, i)'
  BY <1>1, <1>3 DEF Watched, OfferInv, RequestOK
<1>5. ~Removing(m, i) /\ ~Removing(m, i)'
  BY <1>4 DEF Authorised
<1>6. rd.pc \in {"owner", "client"} => clients'[m] # None /\ counters'[i] # None
  <2> SUFFICES ASSUME rd.pc \in {"owner", "client"}
               PROVE  clients'[m] # None /\ counters'[i] # None
    OBVIOUS
  <2>1. clients[m] # None /\ counters[i] # None
    BY <1>3, <1>4 DEF OfferInv, Offer
  <2> QED
    BY <1>1, <1>2, <1>3, <1>4, <1>5, <2>1, OfferKept DEF OfferInv
<1>7. rd.pc = "expiry" => rd.sess \in Session /\ ~ValidAt(rd.sess, now')
  <2>1. rd.pc = "expiry" => rd.sess \in Session /\ ~ValidAt(rd.sess, now)
    BY <1>3, <1>4 DEF OfferInv, Offer
  <2>2. now \in Nat /\ now' \in {now, now + 1}
    BY <1>1, ClockNext DEF TypeOK, MapsTypeOK
  <2> QED
    BY <2>1, <2>2 DEF ValidAt, Session
<1> QED
  BY <1>3, <1>4, <1>6, <1>7 DEF OfferInv, Offer

LEMMA OfferReading ==
  ASSUME OneHome, OfferInv, Reading
  PROVE  Offer'
<1>1. /\ LoginInv /\ TypeOK /\ RequestOK /\ CtlTypeOK
      /\ \A p \in Proc : InvocationOK(ctl[p])
      /\ clients \in [MAC -> Session \cup {None}] /\ now \in Nat
      /\ ip_mac \in [IP -> MAC \cup {None}]
  BY DEF OfferInv, DelInv, ServedInv, FlowInv, LoginInv, TypeOK, CtlTypeOK, MapsTypeOK
<1>2. UNCHANGED <<vars, raced>>
  BY DEF Reading, PageRequest, LookCounter, LookOwner, LookClient, FillStats, Answer
<1>3. CASE rd'.pc \in {"idle", "counter"}
  BY <1>3 DEF Offer, Asks
<1>4. rd.pc # "idle" \/ rd'.pc = "counter"
  <2>1. ASSUME NEW m \in MAC, PageRequest(m) PROVE rd'.pc = "counter"
    BY <2>1 DEF PageRequest, NoRead
  <2> QED
    BY <2>1 DEF Reading, LookCounter, LookOwner, LookClient, FillStats, Answer
<1>5. CASE rd.pc # "idle" /\ rd'.pc \notin {"idle", "counter"}
  <2>1. PICK n \in MAC, k \in IP : Asks(n, k) /\ Owns(n, k)
    BY <1>1, <1>5 DEF RequestOK
  <2>2. LookCounter \/ LookOwner \/ LookClient \/ FillStats
    <3>1. ASSUME NEW m \in MAC, PageRequest(m) PROVE FALSE
      BY <1>5, <3>1 DEF PageRequest
    <3>2. ~Answer
      BY <1>5 DEF Answer, NoRead
    <3> QED
      BY <3>1, <3>2 DEF Reading
  <2>3. Looked(rd'.pc)
    BY <1>1, <2>2, Looks DEF Looked
  <2> SUFFICES ASSUME NEW m \in MAC, NEW i \in IP,
                      Asks(m, i)', ~raced', ~rd'.had, rd'.st = "AUTH_OK"
               PROVE  /\ rd'.pc \in {"owner", "client"} => clients[m] # None /\ counters[i] # None
                      /\ rd'.pc = "client" => rd'.own = m
                      /\ rd'.pc = "expiry" => rd'.sess \in Session /\ ~ValidAt(rd'.sess, now)
                      /\ rd'.pc # "answer"
    BY <1>2 DEF Offer, vars
  <2>4. n = m /\ k = i /\ Asks(m, i) /\ Owns(m, i) /\ ~raced /\ ~rd.had /\ ~Authorised(m, i)
    <3>1. n = m /\ k = i
      BY <2>1, <2>3 DEF Asks, Looked
    <3> QED
      BY <1>1, <1>2, <2>1, <2>3, <3>1 DEF RequestOK, Looked
  <2>5. ~Removing(m, i) /\ (clients[m] = None \/ ~ValidAt(clients[m], now))
    BY <2>4 DEF Authorised
  <2>6. rd.ip = i
    BY <2>4 DEF Asks
  <2>7. CASE LookCounter
    <3>1. rd.pc = "counter" /\ rd.st = "none"
      BY <1>1, <2>7 DEF LookCounter, RequestOK
    <3>2. rd'.pc = "owner" /\ counters[i] = "AUTH_OK"
      BY <1>1, <2>6, <2>7, <3>1, Looks DEF Looked
    <3>3. clients[m] # None
      <4>1. \A p \in Proc : ~Deleting(p, i)
        <5>1. ASSUME NEW p \in Proc, Deleting(p, i) PROVE FALSE
          <6>1. ctl[p].pc \in {"unbind", "uncounter"} /\ ctl[p].mac = m
            BY <2>4, <5>1, OneOwner DEF Deleting, OneHome
          <6> QED
            BY <2>5, <6>1 DEF Removing
        <5> QED
          BY <5>1
      <4>2. \A c \in CPU : ~Marking(c, i)
        BY <2>5 DEF Removing, Marking
      <4>3. PICK o \in MAC : Owns(o, i) /\ clients[o] # None
        BY <2>4, <3>2, <4>1, <4>2 DEF OfferInv, Active
      <4>4. o = m
        BY <2>4, <4>3, OneOwner DEF OneHome
      <4> QED
        BY <4>3, <4>4
    <3>4. counters[i] # None
      BY <3>2, NoneAssumption
    <3> QED
      BY <3>2, <3>3, <3>4
  <2>8. CASE LookOwner
    <3>1. rd.pc = "owner" /\ rd'.st = rd.st /\ rd'.own = ip_mac[i]
          /\ rd'.pc = IF ip_mac[i] = None THEN "expiry" ELSE "client"
      BY <1>1, <2>6, <2>8, Looks DEF Looked, LookOwner
    <3>2. clients[m] # None /\ counters[i] # None
      BY <2>4, <3>1 DEF OfferInv, Offer
    <3>3. ip_mac[i] # None /\ i # Unspecified
      BY <2>4, <3>2, LeasesAssumption DEF OfferInv, Known, Owns
    <3>4. ip_mac[i] = m
      <4>1. Owns(ip_mac[i], i)
        BY <1>1, <3>3 DEF LoginInv, BindingsOwn
      <4> QED
        BY <2>4, <4>1, OneOwner DEF OneHome
    <3> QED
      BY <3>1, <3>2, <3>3, <3>4
  <2>9. CASE LookClient
    <3>1. rd.pc = "client" /\ rd'.st = rd.st /\ rd'.sess = clients[rd.own] /\ rd'.pc = "expiry"
      BY <1>1, <2>9, Looks DEF Looked, LookClient
    <3>2. clients[m] # None /\ rd.own = m
      BY <2>4, <3>1 DEF OfferInv, Offer
    <3> QED
      BY <1>1, <2>5, <3>1, <3>2
  <2>10. CASE FillStats
    <3>1. /\ rd.pc = "expiry" /\ rd'.pc = "answer"
          /\ rd'.st = IF ReadsExpired(rd.sess) THEN "EXPIRE" ELSE rd.st
      BY <1>1, <2>10, Looks DEF Looked, FillStats
    <3>2. rd.st = "AUTH_OK" /\ ~ReadsExpired(rd.sess)
      BY <3>1
    <3>3. rd.sess \in Session /\ ~ValidAt(rd.sess, now)
      BY <2>4, <3>1, <3>2 DEF OfferInv, Offer
    <3>4. ReadsExpired(rd.sess)
      BY <1>1, <3>3, ElementAssumption DEF ReadsExpired, ValidAt, Session
    <3> QED
      BY <3>2, <3>4
  <2> QED
    BY <2>2, <2>7, <2>8, <2>9, <2>10
<1> QED
  BY <1>1, <1>3, <1>4, <1>5

LEMMA OfferNext ==
  ASSUME OneHome, DelAlone, RoomForBindings, AddsByAddress, NoRequests, NoMapDel,
         OfferInv, [Reading \/ GatewayStep]_allVars
  PROVE  OfferInv'
<1>1. [Next]_vars
  BY DEF Reading, PageRequest, LookCounter, LookOwner, LookClient, FillStats, Answer,
         GatewayStep, allVars
<1>2. /\ DelInv /\ FlowInv /\ LoginInv /\ TypeOK /\ CtlTypeOK /\ DatapathTypeOK
      /\ AddsResolve /\ RequestOK
  BY DEF OfferInv, DelInv, ServedInv, FlowInv, LoginInv, TypeOK, AddsResolve, AddsByAddress,
         AddCommand
<1>3. DelInv'
  BY <1>1, <1>2, DelNext
<1>4. Known'
  BY <1>1, <1>2, KnownNext DEF OfferInv
<1>5. RequestOK'
  BY <1>2, RequestNext
<1>6. ASSUME UNCHANGED <<vars, raced>> PROVE raced' \/ (Active' /\ Inserted')
  BY <1>6 DEF vars, env, OfferInv, Active, Deleting, Marking, Inserted, NoRoom, Fits
<1>7. CASE GatewayStep
  <2>1. Offer'
    BY <1>7, OfferGateway
  <2>2. raced' \/ (Active' /\ Inserted')
    <3> SUFFICES ASSUME ~raced' PROVE Active' /\ Inserted'
      OBVIOUS
    <3>1. ~raced
      BY <1>7 DEF GatewayStep, Watched
    <3>2. Active /\ Inserted /\ \A m \in MAC : ~(Adding(m) /\ Expiring(m))
      BY <1>2, <3>1 DEF OfferInv, RequestOK
    <3>3. CASE Programs
      <4>1. PICK c \in CPU : ProgramStep(c) /\ UNCHANGED ctl
        BY <3>3 DEF Programs
      <4>2. ASSUME cpu[c].pc = "expire", NEW p \in Proc, Inserting(p, cpu[c].mac) PROVE FALSE
        <5>1. cpu[c].mac \in MAC
          BY <1>2, <4>2 DEF DatapathTypeOK, ProgramOK, NeedsMac, HoldsSession
        <5>2. Adding(cpu[c].mac) /\ Expiring(cpu[c].mac)
          BY <4>2 DEF Adding, Expiring, Inserting
        <5> QED
          BY <3>2, <5>1, <5>2
      <4> QED
        BY <1>2, <3>2, <4>1, <4>2, ActiveProgram
    <3>4. CASE Elsewhere \/ \E p \in Proc : Turnover(p) \/ Commanded(p)
      BY <1>2, <3>2, <3>4, ActiveOther
    <3> QED
      BY <1>1, <1>2, <3>3, <3>4, KindsOfStep
  <2> QED
    BY <1>3, <1>4, <1>5, <2>1, <2>2 DEF OfferInv
<1>8. CASE Reading
  <2>1. UNCHANGED <<vars, raced>>
    BY <1>8 DEF Reading, PageRequest, LookCounter, LookOwner, LookClient, FillStats, Answer
  <2> QED
    BY <1>3, <1>4, <1>5, <1>6, <1>8, <2>1, OfferReading DEF OfferInv
<1>9. CASE UNCHANGED allVars
  <2>1. Offer'
    BY <1>9 DEF allVars, vars, OfferInv, Offer, Asks
  <2> QED
    BY <1>3, <1>4, <1>5, <1>6, <1>9, <2>1 DEF allVars, OfferInv
<1> QED
  BY <1>7, <1>8, <1>9

LEMMA OfferInit == ReaderInit => OfferInv
<1> SUFFICES ASSUME ReaderInit PROVE OfferInv
  OBVIOUS
<1>1. DelInv /\ RequestOK
  BY DelInit, RequestInit DEF ReaderInit
<1>2. Active /\ Inserted /\ Known
  BY NoneAssumption
     DEF ReaderInit, Init, MapsInit, CtlInit, NoCommand, Active, Inserted, Known, AddPc
<1>3. Offer
  BY DEF ReaderInit, NoRead, Offer, Asks
<1> QED
  BY <1>1, <1>2, <1>3 DEF OfferInv

\* If every device has one address of its own and is added by it once it has been
\* seen there, and sessions end only by `del` or by expiry, a device is refused the
\* login page only if it had a session at some moment of its request, or has lost
\* its address meanwhile; however many CPUs and devices there are, and whatever
\* packets and commands do between the reader's lookups.
THEOREM LoginPageCorrect ==
  ASSUME OneHome, DelAlone, RoomForBindings, AddsByAddress, NoRequests, NoMapDel
  PROVE  ReaderSpec => []LoginPageOffered
<1>1. OfferInv /\ [Reading \/ GatewayStep]_allVars => OfferInv'
  BY OfferNext
<1>2. OfferInv => LoginPageOffered
  <2> SUFFICES ASSUME OfferInv, Answers, ~LoginPage, ~raced PROVE rd.had
    BY DEF LoginPageOffered
  <2>1. PICK m \in MAC, i \in IP : Asks(m, i)
    BY DEF OfferInv, RequestOK, Answers
  <2> QED
    BY <2>1 DEF OfferInv, Offer, Answers, LoginPage
<1> QED
  BY <1>1, <1>2, OfferInit, PTL DEF ReaderSpec

-----------------------------------------------------------------------------
(***************************************************************************)
(* ClientsAreNotAsked.  The counter of a device that has a session is      *)
(* marked expired neither before nor after the session has been inserted.  *)
(***************************************************************************)
Unmarked ==
  \A m \in MAC, i \in IP :
    clients[m] # None /\ Owns(m, i) /\ counters[i] = "EXPIRE" => \E p \in Proc : Inserting(p, m)
MarkGone == \A c \in CPU : cpu[c].pc = "mark" => clients[cpu[c].mac] = None

\* What the reader knows of a client whose session stays as it is.
Found ==
  \A m \in MAC, i \in IP : (Asks(m, i) /\ rd.pc # "counter" /\ ~raced /\ ~rd.gap) =>
    /\ rd.st = "AUTH_OK"
    /\ rd.pc = "client" => rd.own = m
    /\ rd.pc = "expiry" => rd.sess \in {None, clients[m]}

FoundInv == ServedInv /\ (raced \/ (Unmarked /\ MarkGone)) /\ RequestOK /\ Found

LEMMA UnmarkedProgram ==
  ASSUME OneHome, LoginInv, Unmarked, MarkGone, NEW c \in CPU, ProgramStep(c), UNCHANGED ctl
  PROVE  Unmarked' /\ MarkGone'
<1> DEFINE j == cpu[c]
<1>1. /\ TypeOK /\ DatapathTypeOK /\ ProgramOK(j) /\ SourceOK(j)
      /\ cpu \in [CPU -> Program] /\ j \in Program
      /\ clients \in [MAC -> Session \cup {None}]
      /\ counters \in [IP -> CounterState \cup {None}]
      /\ \A d \in CPU : ProgramOK(cpu[d])
  BY DEF LoginInv, TypeOK, MapsTypeOK, DatapathTypeOK, SourcesOwn
<1>2. \A d \in CPU \ {c} : cpu'[d] = cpu[d]
  BY <1>1, ProgramFrame
<1>3. \A m \in MAC : clients'[m] \in {clients[m], None}
  BY <1>1, ProgramEffect
<1>4. \A d \in CPU : cpu[d].pc = "mark" => cpu[d].mac \in MAC
  BY <1>1 DEF ProgramOK, NeedsMac, HoldsSession
<1>5. MarkGone'
  <2>1. CASE ExpireDelete(c)
    <3>1. cpu'[c].mac = j.mac /\ clients'[j.mac] = None
      BY <1>1, <2>1 DEF ExpireDelete, Goto, Program, ProgramOK, NeedsMac, HoldsSession
    <3> QED
      BY <1>2, <1>3, <1>4, <3>1 DEF MarkGone
  <2>2. CASE ~ExpireDelete(c)
    <3>1. cpu'[c].pc = "mark" => FALSE
      BY <1>1, <2>2, ProgramMoves, ExpirySteps
    <3> QED
      BY <1>2, <1>3, <1>4, <3>1 DEF MarkGone
  <2> QED
    BY <2>1, <2>2
<1>6. CASE ExpireMark(c)
  <2>1. /\ j.pc = "mark" /\ j.mac \in MAC /\ j.ip \in IP /\ UNCHANGED clients
        /\ clients[j.mac] = None
        /\ j.ip # Unspecified => Owns(j.mac, j.ip)
    BY <1>1, <1>6 DEF ExpireMark, ProgramOK, NeedsMac, HoldsSession, SourceOK, MarkGone
  <2>2. \A i \in IP \ {j.ip} : counters'[i] = counters[i]
    BY <1>1, <1>6 DEF ExpireMark
  <2>3. ASSUME NEW m \in MAC, NEW i \in IP, clients'[m] # None, Owns(m, i),
               counters'[i] = "EXPIRE"
        PROVE  \E p \in Proc : Inserting(p, m)'
    <3>1. i # j.ip
      <4>1. i = j.ip => i # Unspecified /\ Owns(j.mac, i)
        BY <2>1, <2>3, LeasesAssumption DEF Owns
      <4> QED
        BY <2>1, <2>3, <4>1, OneOwner DEF OneHome
    <3> QED
      BY <2>1, <2>2, <2>3, <3>1 DEF Unmarked, Inserting
  <2>4. Unmarked'
    BY <2>3 DEF Unmarked
  <2> QED
    BY <1>5, <2>4
<1>7. CASE j.pc # "mark"
  <2>1. UNCHANGED counters
    BY <1>7, CountersKept
  <2> QED
    BY <1>3, <1>5, <2>1 DEF Unmarked, Inserting
<1> QED
  BY <1>6, <1>7, ExpirySteps

LEMMA UnmarkedCommand ==
  ASSUME OneHome, AddressesSeen, FlowInv, Unmarked, MarkGone, NEW p \in Proc, Commanded(p),
         \A m \in MAC : ~(Adding(m) /\ Expiring(m))
  PROVE  Unmarked' /\ MarkGone'
<1> DEFINE j == ctl[p]
           k == ctl'[p]
<1>1. /\ TypeOK /\ CtlStep(p) /\ InvocationOK(j)
      /\ \A q \in Proc \ {p} : ctl'[q] = ctl[q] /\ UNCHANGED cpu
      /\ \A d \in CPU : cpu[d].pc = "mark" => cpu[d].mac \in MAC
  BY DEF FlowInv, LoginInv, TypeOK, CtlTypeOK, Commanded, Only, DatapathTypeOK, ProgramOK,
         NeedsMac, HoldsSession
<1>2. UNCHANGED cpu
  BY DEF Commanded, Only
<1>3. /\ \A m \in MAC : clients'[m] = clients[m] \/ Added(p, m) \/ Ended(p, m)
      /\ \A i \in IP : counters'[i] = counters[i] \/ Counted(p, i) \/ Uncounted(p, i)
      /\ j.pc = "counter" => Counted(p, j.ip) \/ (k.pc = "rollback" /\ k.mac = j.mac)
      /\ j.pc = "rollback" => clients'[j.mac] = None
  BY <1>1, CommandEffect
<1>4. MarkGone'
  <2>1. ASSUME NEW d \in CPU, cpu[d].pc = "mark" PROVE clients'[cpu[d].mac] = None
    <3>1. cpu[d].mac \in MAC /\ clients[cpu[d].mac] = None /\ ~Adding(cpu[d].mac)
      BY <1>1, <2>1 DEF MarkGone, Expiring
    <3>2. ~Added(p, cpu[d].mac)
      BY <3>1 DEF Added, Adding
    <3> QED
      BY <1>3, <3>1, <3>2 DEF Ended
  <2> QED
    BY <1>2, <2>1 DEF MarkGone
<1>5. ASSUME NEW m \in MAC, NEW i \in IP, clients'[m] # None, Owns(m, i), counters'[i] = "EXPIRE"
      PROVE  \E q \in Proc : Inserting(q, m)'
  <2>1. counters[i] = "EXPIRE"
    BY <1>3, <1>5, NoneAssumption DEF Counted, Uncounted
  <2>2. CASE Added(p, m)
    BY <2>2 DEF Added, Inserting
  <2>3. CASE clients[m] # None
    <3>1. PICK q \in Proc : Inserting(q, m)
      BY <1>5, <2>1, <2>3 DEF Unmarked
    <3>2. CASE q # p
      BY <1>1, <3>1, <3>2 DEF Inserting
    <3>3. CASE q = p
      <4>1. j.pc = "counter" /\ j.mac = m
        BY <1>3, <1>5, <3>1, <3>3 DEF Inserting
      <4>2. Owns(m, j.ip) /\ j.ip \in IP
        BY <1>1, <4>1, WorksForOwn DEF AddPc, InvocationOK
      <4>3. j.ip = i
        BY <1>5, <4>2, OneAddress
      <4>4. k.pc = "rollback" /\ k.mac = m
        BY <1>3, <1>5, <4>1, <4>3 DEF Counted
      <4> QED
        BY <4>4 DEF Inserting
    <3> QED
      BY <3>2, <3>3
  <2> QED
    BY <1>3, <1>5, <2>2, <2>3 DEF Ended
<1> QED
  BY <1>4, <1>5 DEF Unmarked

LEMMA UnmarkedOther ==
  ASSUME Unmarked, MarkGone, Elsewhere \/ \E p \in Proc : Turnover(p)
  PROVE  Unmarked' /\ MarkGone'
<1>1. CASE Elsewhere
  <2>1. ASSUME NEW c \in CPU, cpu'[c].pc = "mark" PROVE cpu'[c] = cpu[c]
    BY <1>1, <2>1 DEF Elsewhere
  <2> QED
    BY <1>1, <2>1 DEF Elsewhere, Unmarked, MarkGone, Inserting
<1>2. ASSUME NEW p \in Proc, Turnover(p) PROVE Unmarked' /\ MarkGone'
  <2>1. /\ UNCHANGED <<clients, counters, cpu>> /\ \A q \in Proc \ {p} : ctl'[q] = ctl[q]
        /\ ctl[p].pc \in {"idle", "exit"}
    BY <1>2 DEF Turnover, Only
  <2> QED
    BY <2>1 DEF Unmarked, MarkGone, Inserting
<1> QED
  BY <1>1, <1>2

\* A session that lasts stays as it is, unless an add is at work.
LEMMA SessionKept ==
  ASSUME LoginInv, [Next]_vars, NEW m \in MAC, clients[m] # None, clients'[m] # None, ~Adding(m)
  PROVE  clients'[m] = clients[m]
<1>1. TypeOK
  BY DEF LoginInv
<1>2. CASE Elsewhere \/ \E p \in Proc : Turnover(p)
  BY <1>2 DEF Elsewhere, Turnover
<1>3. CASE Programs
  <2>1. PICK c \in CPU : ProgramStep(c)
    BY <1>3 DEF Programs
  <2> QED
    BY <1>1, <2>1, ProgramEffect
<1>4. ASSUME NEW p \in Proc, Commanded(p) PROVE clients'[m] = clients[m]
  <2>1. clients'[m] = clients[m] \/ Added(p, m) \/ Ended(p, m)
    BY <1>1, <1>4, CommandEffect DEF Commanded
  <2> QED
    BY <2>1 DEF Added, Adding, Ended
<1> QED
  BY <1>2, <1>3, <1>4, KindsOfStep

LEMMA FoundGateway ==
  ASSUME OneHome, FoundInv, GatewayStep
  PROVE  Found'
<1>1. LoginInv /\ rd \in ReadRecord /\ Next /\ Watched
  BY DEF FoundInv, ServedInv, FlowInv, RequestOK, GatewayStep
<1> SUFFICES ASSUME NEW m \in MAC, NEW i \in IP,
                    Asks(m, i)', rd'.pc # "counter", ~raced', ~rd'.gap
             PROVE  /\ rd'.st = "AUTH_OK"
                    /\ rd'.pc = "client" => rd'.own = m
                    /\ rd'.pc = "expiry" => rd'.sess \in {None, clients'[m]}
  BY DEF Found
<1>2. PICK n \in MAC, k \in IP : Asks(n, k)
  <2>1. rd.pc = "idle" => rd' = rd
    BY <1>1 DEF Watched
  <2> QED
    BY <2>1 DEF Asks, FoundInv, RequestOK
<1>3. /\ Asks(m, i)
      /\ rd'.pc = rd.pc /\ rd'.st = rd.st /\ rd'.own = rd.own /\ rd'.sess = rd.sess
      /\ rd'.gap <=> rd.gap \/ Unauthorised(m)'
  <2>1. /\ Asks(n, k)'
        /\ rd'.pc = rd.pc /\ rd'.st = rd.st /\ rd'.own = rd.own /\ rd'.sess = rd.sess
        /\ rd'.gap <=> rd.gap \/ Unauthorised(n)'
    BY <1>1, <1>2, Watching
  <2>2. n = m /\ k = i
    BY <2>1 DEF Asks
  <2> QED
    BY <1>2, <2>1, <2>2
<1>4. ~raced /\ ~rd.gap /\ ~Unauthorised(m) /\ ~Unauthorised(m)'
  BY <1>1, <1>3 DEF Watched, FoundInv, RequestOK
<1>5. clients[m] # None /\ clients'[m] # None /\ ~Adding(m)
  BY <1>4 DEF Unauthorised
<1>6. clients'[m] = clients[m]
  BY <1>1, <1>5, SessionKept
<1> QED
  BY <1>3, <1>4, <1>6 DEF FoundInv, Found

LEMMA FoundReading ==
  ASSUME OneHome, FoundInv, Reading
  PROVE  Found'
<1>1. /\ LoginInv /\ TypeOK /\ RequestOK
      /\ clients \in [MAC -> Session \cup {None}] /\ now \in Nat
      /\ counters \in [IP -> CounterState \cup {None}]
      /\ ip_mac \in [IP -> MAC \cup {None}]
  BY DEF FoundInv, ServedInv, FlowInv, LoginInv, TypeOK, MapsTypeOK
<1>2. UNCHANGED <<vars, raced>>
  BY DEF Reading, PageRequest, LookCounter, LookOwner, LookClient, FillStats, Answer
<1>3. CASE rd'.pc \in {"idle", "counter"}
  BY <1>3 DEF Found, Asks
<1>4. rd.pc # "idle" \/ rd'.pc = "counter"
  <2>1. ASSUME NEW m \in MAC, PageRequest(m) PROVE rd'.pc = "counter"
    BY <2>1 DEF PageRequest, NoRead
  <2> QED
    BY <2>1 DEF Reading, LookCounter, LookOwner, LookClient, FillStats, Answer
<1>5. CASE rd.pc # "idle" /\ rd'.pc \notin {"idle", "counter"}
  <2>1. PICK n \in MAC, k \in IP : Asks(n, k) /\ Owns(n, k)
    BY <1>1, <1>5 DEF RequestOK
  <2>2. LookCounter \/ LookOwner \/ LookClient \/ FillStats
    <3>1. ASSUME NEW m \in MAC, PageRequest(m) PROVE FALSE
      BY <1>5, <3>1 DEF PageRequest
    <3>2. ~Answer
      BY <1>5 DEF Answer, NoRead
    <3> QED
      BY <3>1, <3>2 DEF Reading
  <2>3. Looked(rd'.pc)
    BY <1>1, <2>2, Looks DEF Looked
  <2> SUFFICES ASSUME NEW m \in MAC, NEW i \in IP, Asks(m, i)', ~raced', ~rd'.gap
               PROVE  /\ rd'.st = "AUTH_OK"
                      /\ rd'.pc = "client" => rd'.own = m
                      /\ rd'.pc = "expiry" => rd'.sess \in {None, clients[m]}
    BY <1>2 DEF Found, vars
  <2>4. n = m /\ k = i /\ Asks(m, i) /\ Owns(m, i) /\ ~raced /\ ~rd.gap /\ ~Unauthorised(m)
    <3>1. n = m /\ k = i
      BY <2>1, <2>3 DEF Asks, Looked
    <3> QED
      BY <1>1, <1>2, <2>1, <2>3, <3>1 DEF RequestOK, Looked
  <2>5. /\ clients[m] # None /\ ~Adding(m) /\ ValidAt(clients[m], now + 1)
        /\ rd.ip = i
    BY <2>4 DEF Unauthorised, Asks
  <2>6. CASE LookCounter
    <3>1. \A p \in Proc : ~Inserting(p, m)
      BY <2>5 DEF Inserting, Adding
    <3>2. counters[i] # None
      BY <2>4, <2>5, <3>1 DEF FoundInv, ServedInv, Served
    <3>3. counters[i] # "EXPIRE"
      BY <2>4, <2>5, <3>1 DEF FoundInv, Unmarked
    <3>4. counters[i] = "AUTH_OK"
      BY <1>1, <3>2, <3>3 DEF CounterState
    <3> QED
      BY <1>1, <2>5, <2>6, <3>4, NoneAssumption, Looks DEF Looked
  <2>7. CASE LookOwner
    <3>1. /\ rd.pc = "owner" /\ rd.sess = None /\ rd'.st = rd.st /\ rd'.own = ip_mac[i]
          /\ rd'.sess = rd.sess
          /\ rd'.pc = IF ip_mac[i] = None THEN "expiry" ELSE "client"
      BY <1>1, <2>5, <2>7, Looks DEF Looked, LookOwner, RequestOK
    <3>2. i # Unspecified
      BY <2>4, LeasesAssumption DEF Owns
    <3>3. ip_mac[i] # None => ip_mac[i] = m
      <4>1. ip_mac[i] # None => Owns(ip_mac[i], i)
        BY <1>1, <3>2 DEF LoginInv, BindingsOwn
      <4> QED
        BY <2>4, <4>1, OneOwner DEF OneHome
    <3>4. rd.st = "AUTH_OK"
      BY <2>4, <3>1 DEF FoundInv, Found
    <3> QED
      BY <3>1, <3>3, <3>4
  <2>8. CASE LookClient
    <3>1. rd.pc = "client" /\ rd'.st = rd.st /\ rd'.sess = clients[rd.own] /\ rd'.pc = "expiry"
      BY <1>1, <2>8, Looks DEF Looked, LookClient
    <3>2. rd.st = "AUTH_OK" /\ rd.own = m
      BY <2>4, <3>1 DEF FoundInv, Found
    <3> QED
      BY <3>1, <3>2
  <2>9. CASE FillStats
    <3>1. /\ rd.pc = "expiry" /\ rd'.pc = "answer"
          /\ rd'.st = IF ReadsExpired(rd.sess) THEN "EXPIRE" ELSE rd.st
      BY <1>1, <2>9, Looks DEF Looked, FillStats
    <3>2. rd.st = "AUTH_OK" /\ rd.sess \in {None, clients[m]}
      BY <2>4, <3>1 DEF FoundInv, Found
    <3>3. clients[m] \in Session
      BY <1>1, <2>5
    <3>4. ~ReadsExpired(rd.sess)
      BY <1>1, <2>5, <3>2, <3>3 DEF ReadsExpired, ValidAt, Session
    <3> QED
      BY <3>1, <3>2, <3>4
  <2> QED
    BY <2>2, <2>6, <2>7, <2>8, <2>9
<1> QED
  BY <1>1, <1>3, <1>4, <1>5

LEMMA FoundNext ==
  ASSUME OneHome, DelAlone, AddressesSeen, FoundInv, [Reading \/ GatewayStep]_allVars
  PROVE  FoundInv'
<1>1. [Next]_vars
  BY DEF Reading, PageRequest, LookCounter, LookOwner, LookClient, FillStats, Answer,
         GatewayStep, allVars
<1>2. ServedInv /\ FlowInv /\ LoginInv /\ RequestOK
  BY DEF FoundInv, ServedInv, FlowInv
<1>3. ServedInv' /\ RequestOK'
  BY <1>1, <1>2, ServedNext, RequestNext
<1>4. ASSUME UNCHANGED <<vars, raced>> PROVE raced' \/ (Unmarked' /\ MarkGone')
  BY <1>4 DEF vars, FoundInv, Unmarked, MarkGone, Inserting
<1>5. CASE GatewayStep
  <2>1. Found'
    BY <1>5, FoundGateway
  <2>2. raced' \/ (Unmarked' /\ MarkGone')
    <3> SUFFICES ASSUME ~raced' PROVE Unmarked' /\ MarkGone'
      OBVIOUS
    <3>1. ~raced
      BY <1>5 DEF GatewayStep, Watched
    <3>2. Unmarked /\ MarkGone /\ \A m \in MAC : ~(Adding(m) /\ Expiring(m))
      BY <1>2, <3>1 DEF FoundInv, RequestOK
    <3>3. CASE Programs
      BY <1>2, <3>2, <3>3, UnmarkedProgram DEF Programs
    <3>4. CASE Elsewhere \/ \E p \in Proc : Turnover(p)
      BY <3>2, <3>4, UnmarkedOther
    <3>5. ASSUME NEW p \in Proc, Commanded(p) PROVE Unmarked' /\ MarkGone'
      BY <1>2, <3>2, <3>5, UnmarkedCommand
    <3> QED
      BY <1>1, <1>2, <3>3, <3>4, <3>5, KindsOfStep
  <2> QED
    BY <1>3, <2>1, <2>2 DEF FoundInv
<1>6. CASE Reading
  <2>1. UNCHANGED <<vars, raced>>
    BY <1>6 DEF Reading, PageRequest, LookCounter, LookOwner, LookClient, FillStats, Answer
  <2> QED
    BY <1>3, <1>4, <1>6, <2>1, FoundReading DEF FoundInv
<1>7. CASE UNCHANGED allVars
  <2>1. Found'
    BY <1>7 DEF allVars, vars, FoundInv, Found, Asks
  <2> QED
    BY <1>3, <1>4, <1>7, <2>1 DEF allVars, FoundInv
<1> QED
  BY <1>5, <1>6, <1>7

LEMMA FoundInit == ReaderInit => FoundInv
<1> SUFFICES ASSUME ReaderInit PROVE FoundInv
  OBVIOUS
<1>1. ServedInv /\ RequestOK
  BY ServedInit, RequestInit DEF ReaderInit
<1>2. Unmarked /\ MarkGone
  BY DEF ReaderInit, Init, MapsInit, DatapathInit, Idle, Unmarked, MarkGone
<1>3. Found
  BY DEF ReaderInit, NoRead, Found, Asks
<1> QED
  BY <1>1, <1>2, <1>3 DEF FoundInv

\* Under the conditions of SessionServed a device is asked to log in again only if,
\* at some moment of its request, it had no session that would last for another
\* instant, or an add was at work for it.
THEOREM NotAskedCorrect ==
  ASSUME OneHome, DelAlone, AddressesSeen
  PROVE  ReaderSpec => []ClientsAreNotAsked
<1>1. FoundInv /\ [Reading \/ GatewayStep]_allVars => FoundInv'
  BY FoundNext
<1>2. FoundInv => ClientsAreNotAsked
  <2> SUFFICES ASSUME FoundInv, Answers, LoginPage, ~raced PROVE rd.gap
    BY DEF ClientsAreNotAsked
  <2>1. PICK m \in MAC, i \in IP : Asks(m, i)
    BY DEF FoundInv, RequestOK, Answers
  <2> QED
    BY <2>1 DEF FoundInv, Found, Answers, LoginPage
<1> QED
  BY <1>1, <1>2, FoundInit, PTL DEF ReaderSpec
=============================================================================
