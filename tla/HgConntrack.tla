----------------------------- MODULE HgConntrack ----------------------------
(***************************************************************************)
(* The NAT in front of the portal: redirect_to_portal rewrites a client's  *)
(* HTTP packets to the portal and notes in hg_conntrack what address they  *)
(* had asked, snat_from_conntrack gives the portal's answers that address  *)
(* back, and after a login hawkgated runs `hgctl map-del` on the flow.     *)
(*                                                                         *)
(* A flow is <<client, port>>, the port in host order.  Map keys hold what *)
(* the code writes into hg_ct_key.client_port: the kernel the bytes of the *)
(* packet, that is Wire(port) on a little-endian machine, map-del the      *)
(* number it parsed.  A packet is routed, and its map operations done, in  *)
(* one step: both programs do one operation on hg_conntrack per packet.    *)
(***************************************************************************)
EXTENDS Integers, FiniteSets

CONSTANTS
  Client,      \* client addresses
  Port,        \* client ports
  Dest,        \* addresses asked with TCP port 80
  Portal,      \* portal_ip:portal_port
  Target,      \* connections that occur: <<client, port, Dest or Portal>>
  MaxEntries,  \* max_entries of hg_conntrack
  CtTimeout,   \* HG_CT_TIMEOUT_NS, in ticks
  ReuseAfter,  \* a client gives a redirected port to another connection after this
  MaxAge,      \* bound: ages are counted up to here, past all that are compared
  None

ASSUME PortAssumption == \A p \in Port : p \in Nat /\ p < 65536   \* uint16_t
ASSUME DestAssumption == Portal \notin Dest /\ None \notin Dest \cup {Portal}
ASSUME TargetAssumption == Target \subseteq Client \X Port \X (Dest \cup {Portal})
ASSUME AgeAssumption ==
  {CtTimeout, ReuseAfter, MaxAge} \subseteq Nat /\ CtTimeout < MaxAge /\ ReuseAfter < MaxAge
ASSUME EntriesAssumption == MaxEntries \in Nat \ {0}

\* htons on a little-endian machine.
Wire(p) == (p % 256) * 256 + p \div 256

Flow == Client \X Port
Key == Client \X (Port \cup {Wire(p) : p \in Port})
Age == 0..MaxAge
Entry == [dst: Dest, age: Age]   \* age: CLOCK_BOOTTIME less created_ns
KeyOf(f) == <<f[1], Wire(f[2])>>

\* None is none of what it stands in for.
ASSUME NoneAssumption == None \notin Flow /\ None \notin Age /\ None \notin Entry

VARIABLES
  ct,       \* hg_conntrack: key -> entry
  session,  \* clients with a session
  conn,     \* flow -> what the client's open connection asked, from the client's side
  sock,     \* flow -> what the connection of hawkgated's socket asked
  login,    \* the flow whose map-del hawkgated is about to run
  idle,     \* history: how long ago each flow was last redirected
  dropped   \* history: flows evicted, or logged in, since they were last redirected

vars == <<ct, session, conn, sock, login, idle, dropped>>

TypeOK ==
  /\ ct \in [Key -> Entry \cup {None}]
  /\ session \in SUBSET Client
  /\ conn \in [Flow -> Dest \cup {Portal, None}]
  /\ sock \in [Flow -> Dest \cup {Portal, None}]
  /\ login \in Flow \cup {None}
  /\ idle \in [Flow -> Age \cup {None}]
  /\ dropped \in SUBSET Flow

Init ==
  /\ ct = [k \in Key |-> None]
  /\ session = {}
  /\ conn = [f \in Flow |-> None]
  /\ sock = [f \in Flow |-> None]
  /\ login = None
  /\ idle = [f \in Flow |-> None]
  /\ dropped = {}

Older(n) == IF n < MaxAge THEN n + 1 ELSE n

Tick ==
  /\ ct' = [k \in Key |-> IF ct[k] = None THEN None ELSE [ct[k] EXCEPT !.age = Older(@)]]
  /\ idle' = [f \in Flow |-> IF idle[f] = None THEN None ELSE Older(idle[f])]
  /\ UNCHANGED <<session, conn, sock, login, dropped>>

(***************************************************************************)
(* Ingress.                                                                *)
(***************************************************************************)
Tracked == {k \in Key : ct[k] # None}

\* Keys that an insert of k may push out: when the LRU is full, any.
Victims(k) ==
  IF k \in Tracked \/ Cardinality(Tracked) < MaxEntries THEN {None} ELSE Tracked

\* Mutant of Track: BPF_NOEXIST, the first packet's entry stays.
MTrack(f, d) ==
  /\ ct' = IF ct[KeyOf(f)] = None
           THEN [ct EXCEPT ![KeyOf(f)] = [dst |-> d, age |-> 0]] ELSE ct
  /\ dropped' = dropped \ {f}
  /\ idle' = [idle EXCEPT ![f] = 0]

\* Mutant of Track: the address is noted after it has been rewritten.
MTrackLate(f, d) ==
  /\ ct' = [ct EXCEPT ![KeyOf(f)] = [dst |-> Portal, age |-> 0]]
  /\ dropped' = dropped \ {f}
  /\ idle' = [idle EXCEPT ![f] = 0]

\* bpf_map_update_elem of the LRU map, for every redirected packet.
Track(f, d) ==
  \E v \in Victims(KeyOf(f)) :
    /\ ct' = [k \in Key |-> IF k = KeyOf(f) THEN [dst |-> d, age |-> 0]
                            ELSE IF k = v THEN None ELSE ct[k]]
    /\ dropped' = (dropped \cup {g \in Flow : KeyOf(g) = v}) \ {f}
    /\ idle' = [idle EXCEPT ![f] = 0]

\* A packet of flow f to d: to the portal as it is, forwarded under a session,
\* else redirected.
Packet(f, d) ==
  /\ \/ d = Portal /\ sock' = [sock EXCEPT ![f] = Portal] /\ UNCHANGED <<ct, idle, dropped>>
     \/ d # Portal /\ f[1] \in session /\ UNCHANGED <<sock, ct, idle, dropped>>
     \/ d # Portal /\ f[1] \notin session /\ sock' = [sock EXCEPT ![f] = d] /\ Track(f, d)
  /\ UNCHANGED <<session, login>>

\* A client opens a connection; its packet replaces what the portal may still
\* have of an earlier one from that port.
Connect(f, d) ==
  /\ <<f[1], f[2], d>> \in Target
  /\ conn[f] = None
  /\ idle[f] # None => idle[f] > ReuseAfter
  /\ conn' = [conn EXCEPT ![f] = d]
  /\ Packet(f, d)

Send(f) == conn[f] # None /\ Packet(f, conn[f]) /\ UNCHANGED conn

Close(f) ==
  /\ conn[f] # None
  /\ conn' = [conn EXCEPT ![f] = None]
  /\ UNCHANGED <<ct, session, sock, login, idle, dropped>>

\* hawkgated closes its end.
Hangup(f) ==
  /\ sock[f] # None
  /\ sock' = [sock EXCEPT ![f] = None]
  /\ UNCHANGED <<ct, session, conn, login, idle, dropped>>

(***************************************************************************)
(* Login: hgctl add, then hgctl map-del, each waited for.                  *)
(***************************************************************************)
Login(f) ==
  /\ login = None
  /\ sock[f] # None
  /\ session' = session \cup {f[1]}
  /\ login' = f
  /\ UNCHANGED <<ct, conn, sock, idle, dropped>>

\* Mutant of Forget: the port is right and the client is not looked at.
MForget ==
  /\ login # None
  /\ ct' = [k \in Key |-> IF k[2] = Wire(login[2]) THEN None ELSE ct[k]]
  /\ login' = None
  /\ dropped' = dropped \cup {login}
  /\ UNCHANGED <<session, conn, sock, idle>>

\* map-del hg_conntrack <ip>:<port>: the port goes into the key as a number.
Forget ==
  /\ login # None
  /\ ct' = [ct EXCEPT ![login] = None]
  /\ login' = None
  /\ dropped' = dropped \cup {login}
  /\ UNCHANGED <<session, conn, sock, idle>>

\* A session ends.
Logout(c) ==
  /\ c \in session
  /\ session' = session \ {c}
  /\ UNCHANGED <<ct, conn, sock, login, idle, dropped>>

Next ==
  \/ Tick \/ Forget
  \/ \E c \in Client : Logout(c)
  \/ \E f \in Flow : Send(f) \/ Close(f) \/ Hangup(f) \/ Login(f)
                     \/ \E d \in Dest \cup {Portal} : Connect(f, d)

Spec == Init /\ [][Next]_vars

-----------------------------------------------------------------------------
(***************************************************************************)
(* Egress.  snat_from_conntrack changes no map: it gives the source of     *)
(* whatever the portal's socket sends now, new data or old data again.     *)
(***************************************************************************)
\* Mutant of Recent: the entry's age is not looked at.
MRecent(e) == TRUE

Recent(e) == e.age <= CtTimeout

Source(f) ==
  LET e == ct[KeyOf(f)] IN IF e # None /\ Recent(e) THEN e.dst ELSE Portal

(***************************************************************************)
(* Properties.                                                             *)
(***************************************************************************)
\* A client never gets an answer from an address it did not ask: the entry of
\* one connection does not translate the answers of another, of the same port
\* later or of another client (redirect_to_portal, snat_from_conntrack).
AnswersComeFromAsked == \A f \in Flow : sock[f] # None => Source(f) \in {sock[f], Portal}

\* A connection redirected no longer than CtTimeout ago gets its answers from
\* the address it asked, unless the full table pushed it out or it has logged in.
PromptAnswersTranslated ==
  \A f \in Flow : (sock[f] \in Dest /\ idle[f] <= CtTimeout /\ f \notin dropped)
                     => Source(f) = sock[f]

\* Does not hold, for the byte order (README): once map-del of a flow has run,
\* hg_conntrack has no entry of it ("map-del --map hg_conntrack --key
\* 192.168.100.50:54321", hg_cli.c).
LoginForgetsFlow == [][(login # None /\ login' = None) => ct'[KeyOf(login)] = None]_vars
=============================================================================
