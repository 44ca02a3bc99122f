-------------------------- MODULE HgConntrackProofs --------------------------
(***************************************************************************)
(* Proofs about HgConntrack, for any clients, ports, addresses, size of    *)
(* the table and timeout.                                                  *)
(***************************************************************************)
EXTENDS HgConntrack, TLAPS

-----------------------------------------------------------------------------
(***************************************************************************)
(* Keys and ages.                                                          *)
(***************************************************************************)
\* The byte order of a port can be undone.
LEMMA WireInjective ==
  ASSUME NEW p \in Nat, NEW q \in Nat, p < 65536, q < 65536, Wire(p) = Wire(q)
  PROVE  p = q
BY SMT DEF Wire

\* The kernel's keys of different flows differ.
LEMMA KeyInjective == \A f, g \in Flow : KeyOf(f) = KeyOf(g) => f = g
<1> SUFFICES ASSUME NEW f \in Flow, NEW g \in Flow, KeyOf(f) = KeyOf(g)
             PROVE  f = g
  OBVIOUS
<1>1. f = <<f[1], f[2]>> /\ g = <<g[1], g[2]>> /\ f[2] \in Port /\ g[2] \in Port
  BY SMT DEF Flow
<1>2. f[1] = g[1] /\ Wire(f[2]) = Wire(g[2])
  BY SMT DEF KeyOf
<1>3. f[2] = g[2]
  BY <1>1, <1>2, PortAssumption, WireInjective, SMT
<1> QED
  BY <1>1, <1>2, <1>3, SMT

LEMMA KeyOfFlow == \A f \in Flow : KeyOf(f) \in Key
BY SMT DEF Flow, Key, KeyOf

LEMMA FlowIsKey == Flow \subseteq Key
BY SMT DEF Flow, Key

LEMMA Ages ==
  /\ 0 \in Age
  /\ \A n \in Age : Older(n) \in Age /\ (n > CtTimeout => Older(n) > CtTimeout)
BY SMT, AgeAssumption DEF Age, Older

-----------------------------------------------------------------------------
(***************************************************************************)
(* Types.                                                                  *)
(***************************************************************************)
LEMMA TypeInit == Init => TypeOK
BY SMT DEF Init, TypeOK, Flow, Key, Entry, Age

LEMMA TrackType ==
  ASSUME TypeOK, NEW f \in Flow, NEW d \in Dest, Track(f, d)
  PROVE  /\ ct' \in [Key -> Entry \cup {None}]
         /\ idle' \in [Flow -> Age \cup {None}]
         /\ dropped' \in SUBSET Flow
<1>1. PICK v \in Victims(KeyOf(f)) :
         /\ ct' = [k \in Key |-> IF k = KeyOf(f) THEN [dst |-> d, age |-> 0]
                                 ELSE IF k = v THEN None ELSE ct[k]]
         /\ dropped' = (dropped \cup {g \in Flow : KeyOf(g) = v}) \ {f}
         /\ idle' = [idle EXCEPT ![f] = 0]
  BY DEF Track
<1>2. [dst |-> d, age |-> 0] \in Entry
  BY Ages, SMT DEF Entry
<1> QED
  BY <1>1, <1>2, Ages, SMT DEF TypeOK

LEMMA PacketType ==
  ASSUME TypeOK, NEW f \in Flow, NEW d \in Dest \cup {Portal}, Packet(f, d),
         conn' = [conn EXCEPT ![f] = d]
  PROVE  TypeOK'
<1>1. session' = session /\ login' = login /\ conn' \in [Flow -> Dest \cup {Portal, None}]
  BY SMT DEF Packet, TypeOK
<1>2. sock' \in [Flow -> Dest \cup {Portal, None}]
  BY SMT DEF Packet, TypeOK
<1>3. /\ ct' \in [Key -> Entry \cup {None}]
      /\ idle' \in [Flow -> Age \cup {None}]
      /\ dropped' \in SUBSET Flow
  <2>1. CASE ct' = ct /\ idle' = idle /\ dropped' = dropped
    BY <2>1, SMT DEF TypeOK
  <2>2. CASE d # Portal /\ Track(f, d)
    BY <2>2, TrackType, SMT
  <2> QED
    BY <2>1, <2>2, SMT DEF Packet
<1> QED
  BY <1>1, <1>2, <1>3, SMT DEF TypeOK

\* Opening a connection, and sending on it, are both a packet of what it asked.
LEMMA SendIsPacket ==
  ASSUME TypeOK, NEW f \in Flow, Send(f)
  PROVE  /\ conn[f] \in Dest \cup {Portal} /\ Packet(f, conn[f])
         /\ conn' = [conn EXCEPT ![f] = conn[f]]
BY SMT DEF Send, TypeOK

LEMMA TypeNext == TypeOK /\ [Next]_vars => TypeOK'
<1> SUFFICES ASSUME TypeOK, [Next]_vars PROVE TypeOK'
  OBVIOUS
<1>1. CASE Tick
  <2>1. ct' \in [Key -> Entry \cup {None}]
    BY <1>1, Ages, SMT DEF Tick, TypeOK, Entry
  <2>2. idle' \in [Flow -> Age \cup {None}]
    BY <1>1, Ages, SMT DEF Tick, TypeOK
  <2> QED
    BY <1>1, <2>1, <2>2, SMT DEF Tick, TypeOK
<1>2. CASE Forget
  BY <1>2, FlowIsKey, SMT DEF Forget, TypeOK
<1>3. ASSUME NEW c \in Client, Logout(c) PROVE TypeOK'
  BY <1>3, SMT DEF Logout, TypeOK
<1>4. ASSUME NEW f \in Flow, Send(f) PROVE TypeOK'
  BY <1>4, SendIsPacket, PacketType, SMT
<1>5. ASSUME NEW f \in Flow, Close(f) PROVE TypeOK'
  BY <1>5, SMT DEF Close, TypeOK
<1>6. ASSUME NEW f \in Flow, Hangup(f) PROVE TypeOK'
  BY <1>6, SMT DEF Hangup, TypeOK
<1>7. ASSUME NEW f \in Flow, Login(f) PROVE TypeOK'
  <2>1. f[1] \in Client
    BY SMT DEF Flow
  <2> QED
    BY <1>7, <2>1, SMT DEF Login, TypeOK
<1>8. ASSUME NEW f \in Flow, NEW d \in Dest \cup {Portal}, Connect(f, d) PROVE TypeOK'
  <2>1. Packet(f, d) /\ conn' = [conn EXCEPT ![f] = d]
    BY <1>8 DEF Connect
  <2> QED
    BY <2>1, PacketType
<1>9. CASE UNCHANGED vars
  BY <1>9, SMT DEF vars, TypeOK
<1> QED
  BY <1>1, <1>2, <1>3, <1>4, <1>5, <1>6, <1>7, <1>8, <1>9, SMT DEF Next

\* The table, the connections and the timers keep their types; a login in
\* progress is that of a flow.
THEOREM TypeCorrect == Spec => []TypeOK
BY TypeInit, TypeNext, PTL DEF Spec

-----------------------------------------------------------------------------
(***************************************************************************)
(* The translation of answers.                                             *)
(***************************************************************************)
Noted(f) == ct[KeyOf(f)]
Stale(f) == Noted(f) = None \/ Noted(f).age > CtTimeout

\* An entry is as old as the last redirection of its flow.
EntriesInStep == \A f \in Flow : Noted(f) # None => idle[f] = Noted(f).age
\* Of a connection to the portal itself there is no entry that still counts.
PortalIsStale == \A f \in Flow : conn[f] = Portal \/ sock[f] = Portal => Stale(f)
\* The entry of a redirected connection has the address that it asked.
AskedIsNoted ==
  \A f \in Flow : sock[f] \in Dest =>
    idle[f] # None /\ (Noted(f) # None => Noted(f).dst = sock[f])
NatInv == TypeOK /\ EntriesInStep /\ PortalIsStale /\ AskedIsNoted

LEMMA NatInit == Init => NatInv
<1> SUFFICES ASSUME Init PROVE NatInv
  OBVIOUS
<1>1. TypeOK
  BY TypeInit
<1>2. \A f \in Flow : Noted(f) = None /\ conn[f] = None /\ sock[f] = None
  BY KeyOfFlow, SMT DEF Init, Noted
<1> QED
  BY <1>1, <1>2, DestAssumption, SMT
  DEF NatInv, EntriesInStep, PortalIsStale, AskedIsNoted, Stale

\* When entries may only go and nothing else changes but a session, a login, or
\* a connection that ends, the invariant stays.
LEMMA NatKept ==
  ASSUME NatInv, TypeOK', idle' = idle,
         \A k \in Key : ct'[k] \in {ct[k], None},
         \A f \in Flow : conn'[f] \in {conn[f], None} /\ sock'[f] \in {sock[f], None}
  PROVE  NatInv'
<1>1. \A f \in Flow : Noted(f)' \in {Noted(f), None}
  BY KeyOfFlow, SMT DEF Noted
<1>2. EntriesInStep'
  BY <1>1, SMT DEF NatInv, EntriesInStep
<1>3. PortalIsStale'
  BY <1>1, DestAssumption, SMT DEF NatInv, PortalIsStale, Stale
<1>4. AskedIsNoted'
  BY <1>1, DestAssumption, SMT DEF NatInv, AskedIsNoted
<1> QED
  BY <1>2, <1>3, <1>4 DEF NatInv

LEMMA NatTick ==
  ASSUME NatInv, TypeOK', Tick
  PROVE  NatInv'
<1>1. \A f \in Flow :
        /\ Noted(f)' = IF Noted(f) = None THEN None ELSE [Noted(f) EXCEPT !.age = Older(@)]
        /\ Noted(f) \in Entry \cup {None}
        /\ idle[f] \in Age \cup {None}
        /\ idle'[f] = IF idle[f] = None THEN None ELSE Older(idle[f])
        /\ conn'[f] = conn[f] /\ sock'[f] = sock[f]
  BY KeyOfFlow, SMT DEF Noted, Tick, NatInv, TypeOK
<1>2. \A f \in Flow : Noted(f)' # None =>
        /\ Noted(f) # None
        /\ Noted(f)'.age = Older(Noted(f).age) /\ Noted(f)'.dst = Noted(f).dst
        /\ Noted(f).age \in Age
  BY <1>1, SMT DEF Entry
<1>3. EntriesInStep'
  BY <1>1, <1>2, NoneAssumption, SMT DEF NatInv, EntriesInStep
<1>4. PortalIsStale'
  BY <1>1, <1>2, Ages, SMT DEF NatInv, PortalIsStale, Stale
<1>5. AskedIsNoted'
  BY <1>1, <1>2, Ages, NoneAssumption, SMT DEF NatInv, AskedIsNoted
<1> QED
  BY <1>3, <1>4, <1>5 DEF NatInv

\* Track touches no other flow's entry, unless it evicts it.
LEMMA TrackNotes ==
  ASSUME TypeOK, NEW f \in Flow, NEW d \in Dest, Track(f, d)
  PROVE  /\ Noted(f)' = [dst |-> d, age |-> 0] /\ idle'[f] = 0
         /\ \A g \in Flow \ {f} : Noted(g)' \in {Noted(g), None} /\ idle'[g] = idle[g]
<1>1. PICK v \in Victims(KeyOf(f)) :
         /\ ct' = [k \in Key |-> IF k = KeyOf(f) THEN [dst |-> d, age |-> 0]
                                 ELSE IF k = v THEN None ELSE ct[k]]
         /\ idle' = [idle EXCEPT ![f] = 0]
  BY DEF Track
<1>2. \A g \in Flow \ {f} : KeyOf(g) # KeyOf(f)
  BY KeyInjective
<1> QED
  BY <1>1, <1>2, KeyOfFlow, SMT DEF Noted, TypeOK

\* A packet keeps the invariant: one to the portal if no entry still counts.
LEMMA NatPacket ==
  ASSUME NatInv, TypeOK', NEW f \in Flow, NEW d \in Dest \cup {Portal}, Packet(f, d),
         conn' = [conn EXCEPT ![f] = d], d = Portal => Stale(f)
  PROVE  NatInv'
<1>1. TypeOK /\ conn'[f] = d /\ \A g \in Flow \ {f} : conn'[g] = conn[g]
  BY SMT DEF NatInv, TypeOK
<1>2. CASE d = Portal /\ sock' = [sock EXCEPT ![f] = Portal] /\ UNCHANGED <<ct, idle>>
  <2>1. sock'[f] = Portal /\ \A g \in Flow \ {f} : sock'[g] = sock[g]
    BY <1>1, <1>2, SMT DEF TypeOK
  <2>2. \A g \in Flow : Noted(g)' = Noted(g) /\ idle'[g] = idle[g]
    BY <1>2 DEF Noted
  <2> QED
    BY <1>1, <1>2, <2>1, <2>2, DestAssumption, SMT
    DEF NatInv, EntriesInStep, PortalIsStale, AskedIsNoted, Stale
<1>3. CASE d # Portal /\ UNCHANGED <<sock, ct, idle>>
  <2>1. \A g \in Flow : Noted(g)' = Noted(g) /\ idle'[g] = idle[g] /\ sock'[g] = sock[g]
    BY <1>3 DEF Noted
  <2> QED
    BY <1>1, <1>3, <2>1, SMT DEF NatInv, EntriesInStep, PortalIsStale, AskedIsNoted, Stale
<1>4. CASE d # Portal /\ sock' = [sock EXCEPT ![f] = d] /\ Track(f, d)
  <2>1. sock'[f] = d /\ \A g \in Flow \ {f} : sock'[g] = sock[g]
    BY <1>1, <1>4, SMT DEF TypeOK
  <2>2. /\ Noted(f)' = [dst |-> d, age |-> 0] /\ idle'[f] = 0
        /\ \A g \in Flow \ {f} : Noted(g)' \in {Noted(g), None} /\ idle'[g] = idle[g]
    BY <1>1, <1>4, TrackNotes, SMT
  <2>3. EntriesInStep'
    BY <2>2, SMT DEF NatInv, EntriesInStep
  <2>4. PortalIsStale'
    BY <1>1, <1>4, <2>1, <2>2, SMT DEF NatInv, PortalIsStale, Stale
  <2>5. AskedIsNoted'
    BY <1>4, <2>1, <2>2, Ages, NoneAssumption, SMT DEF NatInv, AskedIsNoted
  <2> QED
    BY <2>3, <2>4, <2>5 DEF NatInv
<1> QED
  BY <1>2, <1>3, <1>4, SMT DEF Packet

\* A client that waits with the reuse of a port for as long as an entry counts.
LEMMA NatNext ==
  ASSUME CtTimeout <= ReuseAfter
  PROVE  NatInv /\ [Next]_vars => NatInv'
<1> SUFFICES ASSUME NatInv, [Next]_vars PROVE NatInv'
  OBVIOUS
<1>1. TypeOK /\ TypeOK'
  BY TypeNext DEF NatInv
<1>2. CASE Tick
  BY <1>1, <1>2, NatTick
<1>3. CASE Forget
  BY <1>1, <1>3, NatKept, SMT DEF Forget, TypeOK
<1>4. ASSUME NEW c \in Client, Logout(c) PROVE NatInv'
  BY <1>1, <1>4, NatKept, SMT DEF Logout
<1>5. ASSUME NEW f \in Flow, Send(f) PROVE NatInv'
  <2>1. /\ conn[f] \in Dest \cup {Portal} /\ Packet(f, conn[f])
        /\ conn' = [conn EXCEPT ![f] = conn[f]]
    BY <1>1, <1>5, SendIsPacket
  <2>2. conn[f] = Portal => Stale(f)
    BY DEF NatInv, PortalIsStale
  <2> QED
    BY <1>1, <2>1, <2>2, NatPacket
<1>6. ASSUME NEW f \in Flow, Close(f) PROVE NatInv'
  BY <1>1, <1>6, NatKept, SMT DEF Close, TypeOK
<1>7. ASSUME NEW f \in Flow, Hangup(f) PROVE NatInv'
  BY <1>1, <1>7, NatKept, SMT DEF Hangup, TypeOK
<1>8. ASSUME NEW f \in Flow, Login(f) PROVE NatInv'
  BY <1>1, <1>8, NatKept, SMT DEF Login
<1>9. ASSUME NEW f \in Flow, NEW d \in Dest \cup {Portal}, Connect(f, d) PROVE NatInv'
  <2>1. Packet(f, d) /\ conn' = [conn EXCEPT ![f] = d] /\ (idle[f] # None => idle[f] > ReuseAfter)
    BY <1>9 DEF Connect
  <2>2. Noted(f) \in Entry \cup {None}
    BY <1>1, KeyOfFlow, SMT DEF Noted, TypeOK
  <2>3. Noted(f) # None => idle[f] = Noted(f).age /\ Noted(f).age \in Age
    BY <2>2, SMT DEF NatInv, EntriesInStep, Entry
  <2>4. Stale(f)
    BY <2>1, <2>3, NoneAssumption, AgeAssumption, SMT DEF Stale, Age
  <2> QED
    BY <1>1, <2>1, <2>4, NatPacket
<1>10. CASE UNCHANGED vars
  BY <1>1, <1>10, NatKept, SMT DEF vars
<1> QED
  BY <1>2, <1>3, <1>4, <1>5, <1>6, <1>7, <1>8, <1>9, <1>10, SMT DEF Next

LEMMA NatAnswers == NatInv => AnswersComeFromAsked
<1> SUFFICES ASSUME NatInv, NEW f \in Flow, sock[f] # None
             PROVE  Source(f) \in {sock[f], Portal}
  BY DEF AnswersComeFromAsked
<1>1. Noted(f) \in Entry \cup {None} /\ sock[f] \in Dest \cup {Portal}
  BY KeyOfFlow, SMT DEF NatInv, TypeOK, Noted
<1>2. Source(f) = IF Noted(f) # None /\ Noted(f).age <= CtTimeout THEN Noted(f).dst ELSE Portal
  BY DEF Source, Noted, Recent
<1>3. Stale(f) => Source(f) = Portal
  BY <1>1, <1>2, AgeAssumption, SMT DEF Stale, Entry, Age
<1> QED
  BY <1>1, <1>2, <1>3, SMT DEF NatInv, PortalIsStale, AskedIsNoted

\* Clients that leave a redirected port alone for as long as its entry counts
\* never get an answer from an address they did not ask.
THEOREM AnswersCorrect ==
  ASSUME CtTimeout <= ReuseAfter
  PROVE  Spec => []AnswersComeFromAsked
<1>1. NatInv /\ [Next]_vars => NatInv'
  BY NatNext
<1> QED
  BY <1>1, NatInit, NatAnswers, PTL DEF Spec

-----------------------------------------------------------------------------
(***************************************************************************)
(* Answers to connections that were redirected lately.                     *)
(***************************************************************************)
\* An entry goes only by eviction, or by the map-del of its own flow.
KeptIsTracked == \A f \in Flow : idle[f] # None /\ f \notin dropped => Noted(f) # None
\* No port in use is the byte swap of another.
NoSwaps == \A p, q \in Port : Wire(p) = q => p = q

LEMMA KeptNext ==
  ASSUME NoSwaps, NatInv, KeptIsTracked, [Next]_vars
  PROVE  KeptIsTracked'
<1>1. TypeOK
  BY DEF NatInv
<1>2. CASE Tick
  <2>1. \A f \in Flow :
          /\ Noted(f)' = IF Noted(f) = None THEN None ELSE [Noted(f) EXCEPT !.age = Older(@)]
          /\ Noted(f) \in Entry \cup {None}
          /\ idle'[f] = IF idle[f] = None THEN None ELSE Older(idle[f])
    BY <1>1, <1>2, KeyOfFlow, SMT DEF Noted, Tick, TypeOK
  <2>2. \A e \in Entry : [e EXCEPT !.age = Older(@)] \in Entry
    BY Ages, SMT DEF Entry
  <2>3. \A f \in Flow : Noted(f)' = None => Noted(f) = None
    BY <2>1, <2>2, NoneAssumption, SMT
  <2>4. dropped' = dropped
    BY <1>2 DEF Tick
  <2> QED
    BY <2>1, <2>3, <2>4, SMT DEF KeptIsTracked
<1>3. CASE Forget
  <2>1. /\ login \in Flow /\ ct' = [ct EXCEPT ![login] = None]
        /\ idle' = idle /\ dropped' = dropped \cup {login}
    BY <1>1, <1>3, SMT DEF Forget, TypeOK
  <2>2. ASSUME NEW g \in Flow, KeyOf(g) = login PROVE g = login
    <3>1. /\ g = <<g[1], g[2]>> /\ g[2] \in Port
          /\ login = <<login[1], login[2]>> /\ login[2] \in Port
      BY <2>1, SMT DEF Flow
    <3>2. g[1] = login[1] /\ Wire(g[2]) = login[2]
      BY <2>2, <3>1, SMT DEF KeyOf
    <3>3. g[2] = login[2]
      BY <3>1, <3>2 DEF NoSwaps
    <3> QED
      BY <3>1, <3>2, <3>3, SMT
  <2>3. \A g \in Flow : g # login => Noted(g)' = Noted(g)
    BY <1>1, <2>1, <2>2, KeyOfFlow, SMT DEF Noted, TypeOK
  <2> QED
    BY <2>1, <2>3, SMT DEF KeptIsTracked
<1>4. ASSUME NEW f \in Flow, NEW d \in Dest \cup {Portal}, Packet(f, d) PROVE KeptIsTracked'
  <2>1. CASE UNCHANGED <<ct, idle, dropped>>
    BY <2>1, SMT DEF KeptIsTracked, Noted
  <2>2. CASE d \in Dest /\ Track(f, d)
    <3>1. PICK v \in Victims(KeyOf(f)) :
            /\ ct' = [k \in Key |-> IF k = KeyOf(f) THEN [dst |-> d, age |-> 0]
                                    ELSE IF k = v THEN None ELSE ct[k]]
            /\ dropped' = (dropped \cup {g \in Flow : KeyOf(g) = v}) \ {f}
            /\ idle' = [idle EXCEPT ![f] = 0]
      BY <2>2 DEF Track
    <3>2. Noted(f)' # None
      <4>1. Noted(f)' = [dst |-> d, age |-> 0]
        BY <3>1, KeyOfFlow, SMT DEF Noted
      <4>2. [dst |-> d, age |-> 0] \in Entry
        BY <2>2, Ages, SMT DEF Entry
      <4> QED
        BY <4>1, <4>2, NoneAssumption
    <3>3. ASSUME NEW g \in Flow, g # f, g \notin dropped', idle'[g] # None
          PROVE  Noted(g)' # None
      <4>1. KeyOf(g) # KeyOf(f) /\ KeyOf(g) # v /\ g \notin dropped
        BY <3>1, <3>3, KeyInjective, SMT
      <4>2. Noted(g)' = Noted(g) /\ idle'[g] = idle[g]
        BY <1>1, <3>1, <3>3, <4>1, KeyOfFlow, SMT DEF Noted, TypeOK
      <4> QED
        BY <3>3, <4>1, <4>2 DEF KeptIsTracked
    <3> QED
      BY <3>2, <3>3 DEF KeptIsTracked
  <2> QED
    BY <1>4, <2>1, <2>2, SMT DEF Packet
<1>5. ASSUME NEW f \in Flow, Send(f) PROVE KeptIsTracked'
  BY <1>1, <1>4, <1>5, SendIsPacket
<1>6. ASSUME NEW f \in Flow, NEW d \in Dest \cup {Portal}, Connect(f, d) PROVE KeptIsTracked'
  BY <1>4, <1>6 DEF Connect
<1>7. CASE UNCHANGED <<ct, idle, dropped>>
  BY <1>7, SMT DEF KeptIsTracked, Noted
<1> QED
  BY <1>2, <1>3, <1>5, <1>6, <1>7, SMT DEF Next, vars, Logout, Close, Hangup, Login

LEMMA KeptInit == Init => KeptIsTracked
BY SMT DEF Init, KeptIsTracked

LEMMA NatPrompt == NatInv /\ KeptIsTracked => PromptAnswersTranslated
<1> SUFFICES ASSUME NatInv, KeptIsTracked,
                    NEW f \in Flow, sock[f] \in Dest, idle[f] <= CtTimeout, f \notin dropped
             PROVE  Source(f) = sock[f]
  BY DEF PromptAnswersTranslated
<1>1. Noted(f) # None /\ Noted(f).dst = sock[f] /\ Noted(f).age = idle[f]
  BY DEF NatInv, AskedIsNoted, EntriesInStep, KeptIsTracked
<1> QED
  BY <1>1, SMT DEF Source, Noted, Recent

\* If moreover no port in use is another's byte swap, the map-del of a login
\* costs no other connection its entry: what was redirected lately is answered
\* from the address it asked, unless it was evicted or has logged in.
THEOREM PromptCorrect ==
  ASSUME CtTimeout <= ReuseAfter, NoSwaps
  PROVE  Spec => []PromptAnswersTranslated
<1>1. NatInv /\ [Next]_vars => NatInv'
  BY NatNext
<1>2. NatInv /\ KeptIsTracked /\ [Next]_vars => KeptIsTracked'
  BY KeptNext
<1> QED
  BY <1>1, <1>2, NatInit, KeptInit, NatPrompt, PTL DEF Spec

=============================================================================
