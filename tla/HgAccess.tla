------------------------------- MODULE HgAccess -------------------------------
(***************************************************************************)
(* What the gateway promises about access, whatever its maps hold and in   *)
(* whatever order its steps come: who has access is changed by orders, and *)
(* by packets that find it expired; a packet is forwarded as a client's    *)
(* only on the word of one look at the access of its sender, or of an      *)
(* owner of its destination, taken while it was held, and passes unseen    *)
(* only to or from an exempt address.  An order reports success only of    *)
(* what it did, for a device it named or that owns the address it named.   *)
(***************************************************************************)
EXTENDS Integers

CONSTANTS MAC, IP, CPU, Proc, Leases, Timeout, None

VARIABLES
  now,
  access,  \* access[m]: empty, or {e} if m has access until e; 0 is "always"
  exempt,  \* addresses that need no access
  order,   \* what each operator or login has asked for
  packet   \* the packet each CPU holds

avars == <<now, access, exempt, order, packet>>

Owners(i) == {m \in MAC : <<m, i>> \in Leases}

\* of: the devices an order may mean; at: the address it is about; until: the
\* access it will give.
NoOrder == [kind |-> "none", stage |-> "none", of |-> {}, at |-> None,
            exp |-> 0, until |-> {}, rc |-> "none"]
Opened(kind, D, i, t) == [kind |-> kind, stage |-> "open", of |-> D, at |-> i,
                          exp |-> t, until |-> {}, rc |-> "none"]
Meant(o, D) == [o EXCEPT !.of = D]
Dated(o, e) == [o EXCEPT !.stage = "ready", !.until = e]
Done(o) == [o EXCEPT !.stage = "done"]
Ended(o, rc) == [kind |-> o.kind, stage |-> "ended", of |-> {}, at |-> None,
                 exp |-> 0, until |-> {}, rc |-> rc]

\* saw: the access found.
NoPacket == [stage |-> "none", dir |-> "none", mac |-> None, ip |-> None,
             arr |-> 0, saw |-> {}, ver |-> "none"]
Arrived(dir, m, i, t) == [stage |-> "held", dir |-> dir, mac |-> m, ip |-> i,
                          arr |-> t, saw |-> {}, ver |-> "none"]
Seen(k, e) == [k EXCEPT !.stage = "seen", !.saw = e]
Judged(k, v) == [k EXCEPT !.stage = "out", !.ver = v]

Init ==
  /\ now = 0
  /\ access = [m \in MAC |-> {}]
  /\ exempt = {}
  /\ order = [p \in Proc |-> NoOrder]
  /\ packet = [c \in CPU |-> NoPacket]

Tick == now' = now + 1 /\ UNCHANGED <<access, exempt, order, packet>>

(***************************************************************************)
(* Orders.                                                                 *)
(***************************************************************************)
At(p, kinds, stage) == order[p].kind \in kinds /\ order[p].stage = stage

\* A device is named, or the address of one.
Targets == {{m} : m \in MAC} \cup {Owners(i) : i \in IP}

Give(p, o) == order' = [order EXCEPT ![p] = o]

Request(p) ==
  /\ order[p].stage = "none"
  /\ \/ \E D \in Targets, t \in Timeout :
          Give(p, Opened("grant", D, None, t))
     \/ \E D \in Targets : Give(p, Opened("revoke", D, None, 0))
     \/ \E m \in MAC : Give(p, Opened("drop", {m}, None, 0))
     \/ \E kind \in {"exempt", "include"}, i \in IP : Give(p, Opened(kind, {}, i, 0))
  /\ UNCHANGED <<now, access, exempt, packet>>

\* One of the devices an order may mean is the one it is about.
Identify(p) ==
  /\ At(p, {"grant", "revoke"}, "open")
  /\ \E m \in order[p].of : Give(p, Meant(order[p], {m}))
  /\ UNCHANGED <<now, access, exempt, packet>>

\* The time runs from when the clock is read, not from when access is given.
Prepare(p) ==
  /\ At(p, {"grant"}, "open")
  /\ Give(p, Dated(order[p], {IF order[p].exp > 0 THEN now + order[p].exp ELSE 0}))
  /\ UNCHANGED <<now, access, exempt, packet>>

Grant(p) ==
  /\ At(p, {"grant"}, "ready")
  /\ \E m \in MAC : /\ order[p].of = {m}
                    /\ access' = [access EXCEPT ![m] = order[p].until]
  /\ Give(p, Done(order[p]))
  /\ UNCHANGED <<now, exempt, packet>>

Revoke(p) ==
  /\ At(p, {"revoke"}, "open")
  /\ \E m \in MAC : order[p].of = {m} /\ access' = [access EXCEPT ![m] = {}]
  /\ Give(p, Done(order[p]))
  /\ UNCHANGED <<now, exempt, packet>>

\* An order that cannot be carried through takes away what it has given - or
\* whatever access the device has by then - and has failed.
Withdraw(p) ==
  /\ At(p, {"grant"}, "done")
  /\ \E m \in MAC : order[p].of = {m} /\ access' = [access EXCEPT ![m] = {}]
  /\ Give(p, Ended(order[p], "FAILED"))
  /\ UNCHANGED <<now, exempt, packet>>

Succeed(p) ==
  /\ At(p, {"grant", "revoke"}, "done")
  /\ Give(p, Ended(order[p], "SUCCESS"))
  /\ UNCHANGED <<now, access, exempt, packet>>

\* An order that has changed nothing may fail.
Fail(p) ==
  /\ At(p, {"grant", "revoke", "exempt"}, "open") \/ At(p, {"grant"}, "ready")
  /\ Give(p, Ended(order[p], "FAILED"))
  /\ UNCHANGED <<now, access, exempt, packet>>

\* The orders of one step tell whether there was anything to do.
Drop(p) ==
  /\ At(p, {"drop"}, "open")
  /\ \E m \in MAC : /\ order[p].of = {m}
                    /\ access' = [access EXCEPT ![m] = {}]
                    /\ Give(p, Ended(order[p], IF access[m] = {} THEN "FAILED" ELSE "SUCCESS"))
  /\ UNCHANGED <<now, exempt, packet>>

Exempt(p) ==
  /\ At(p, {"exempt"}, "open")
  /\ exempt' = exempt \cup {order[p].at}
  /\ Give(p, Ended(order[p], "SUCCESS"))
  /\ UNCHANGED <<now, access, packet>>

Include(p) ==
  /\ At(p, {"include"}, "open")
  /\ exempt' = exempt \ {order[p].at}
  /\ Give(p, Ended(order[p], IF order[p].at \in exempt THEN "SUCCESS" ELSE "FAILED"))
  /\ UNCHANGED <<now, access, packet>>

Forget(p) ==
  /\ order[p].stage = "ended"
  /\ Give(p, NoOrder)
  /\ UNCHANGED <<now, access, exempt, packet>>

OrderStep(p) ==
  \/ Request(p) \/ Identify(p) \/ Prepare(p) \/ Grant(p) \/ Revoke(p) \/ Withdraw(p)
  \/ Succeed(p) \/ Fail(p) \/ Drop(p) \/ Exempt(p) \/ Include(p) \/ Forget(p)

(***************************************************************************)
(* Packets.                                                                *)
(***************************************************************************)
Hold(c, k) == packet' = [packet EXCEPT ![c] = k]

\* From device m with source i, or to i.
Arrive(c) ==
  /\ packet[c].stage = "none"
  /\ \E i \in IP :
       \/ \E m \in MAC : Hold(c, Arrived("in", m, i, now))
       \/ Hold(c, Arrived("out", None, i, now))
  /\ UNCHANGED <<now, access, exempt, order>>

\* The one look at the access of its sender, or of an owner of its destination,
\* or the finding that nobody has that address.
Look(c) ==
  /\ packet[c].stage = "held"
  /\ \/ \E m \in MAC :
          /\ IF packet[c].dir = "in" THEN m = packet[c].mac ELSE m \in Owners(packet[c].ip)
          /\ Hold(c, Seen(packet[c], access[m]))
     \/ packet[c].dir = "out" /\ Hold(c, Seen(packet[c], {}))
  /\ UNCHANGED <<now, access, exempt, order>>

\* An upload that saw expired access ends it - or whatever access its sender
\* has been given since - and is dropped.
Expire(c) ==
  /\ packet[c].stage = "seen" /\ packet[c].dir = "in"
  /\ \E e \in packet[c].saw : e # 0 /\ now > e
  /\ access' = [access EXCEPT ![packet[c].mac] = {}]
  /\ Hold(c, [packet[c] EXCEPT !.stage = "expired"])
  /\ UNCHANGED <<now, exempt, order>>

\* What may become of a packet.
Outcomes(k) ==
  CASE k.stage = "held" -> (IF k.ip \in exempt THEN {"pass"} ELSE {})
                             \cup (IF k.dir = "in" THEN {"portal", "shot"} ELSE {})
    [] k.stage = "seen" /\ k.saw = {} ->
         {"pass", "shot"} \cup (IF k.dir = "in" THEN {"portal"} ELSE {})
    [] k.stage = "seen" /\ k.saw # {} ->
         {"shot"} \cup (IF k.dir = "out" \/ \E e \in k.saw : e = 0 \/ k.arr <= e
                        THEN {"forward"} ELSE {})
    [] k.stage = "expired" -> {"shot"}
    [] OTHER -> {}

Judge(c) ==
  /\ \E v \in Outcomes(packet[c]) : Hold(c, Judged(packet[c], v))
  /\ UNCHANGED <<now, access, exempt, order>>

Leave(c) ==
  /\ packet[c].stage = "out"
  /\ Hold(c, NoPacket)
  /\ UNCHANGED <<now, access, exempt, order>>

PacketStep(c) == Arrive(c) \/ Look(c) \/ Expire(c) \/ Judge(c) \/ Leave(c)

\* Most steps of a gateway change nothing of this.
Unseen == UNCHANGED avars

Next == Unseen \/ Tick \/ (\E p \in Proc : OrderStep(p)) \/ (\E c \in CPU : PacketStep(c))

Spec == Init /\ [][Next]_avars
=============================================================================
