------------------------------ MODULE HgPolicy ------------------------------
(***************************************************************************)
(* What clients may do before they log in: the order of the tests in       *)
(* hg_tc_ingress and hg_tc_egress, the allow-list and the walled garden    *)
(* they look up, the hgctl commands that fill these maps, and the rules    *)
(* hawkgated installs from its configuration, one hgctl after the other.   *)
(*                                                                         *)
(* The verdicts are functions of the maps and the packet.  Whether the     *)
(* client is bypassed or has a session is a parameter; HgGateway models    *)
(* how it comes to that.                                                   *)
(***************************************************************************)
EXTENDS Integers, FiniteSets

CONSTANTS
  AddrBits,    \* bits of an address: 32
  PortalIp, PortalPort,
  Proto,       \* IP protocols of the packets that occur
  PortNo,      \* their ports
  L2Names,     \* [preauth] l2 of the configuration
  L3Names,     \*           l3
  L4Names,     \*           l4
  GardenConf,  \* [walled_garden] ips, as <<address, prefix length>>
  Rules,       \* rules that operators add and delete
  Cidrs        \* subnets that operators add and delete

Pow2[n \in Nat] == IF n = 0 THEN 1 ELSE 2 * Pow2[n - 1]
Addr == 0 .. Pow2[AddrBits] - 1
TCP == 6
UDP == 17

\* struct hg_allow_key; 0 is the wildcard.
Byte == 0..255
Port == 0..65535
Rule == [proto: Byte, sport: Port, dport: Port]
L4(p, s, d) == [proto |-> p, sport |-> s, dport |-> d]

ASSUME AddrAssumption == AddrBits \in Nat /\ PortalIp \in Addr
ASSUME PacketAssumption == Proto \subseteq Byte \ {0} /\ PortNo \subseteq Port
ASSUME RulesAssumption == Rules \subseteq Rule
ASSUME CidrAssumption == (Cidrs \cup GardenConf) \subseteq Addr \X (0..AddrBits)

VARIABLES
  l2,      \* hg_l2_allow
  allow,   \* hg_proto
  garden,  \* hg_walled_garden: [ip, len]
  todo,    \* what start_hgctl has yet to install: sets of arguments
  lost,    \* history: an hgctl of start_hgctl has failed
  edited,  \* history: an operator has changed the allow-list
  rules,   \* history: the rules asked for, and not taken back
  nets     \* history: the same of subnets, as sets of addresses

vars == <<l2, allow, garden, todo, lost, edited, rules, nets>>

(***************************************************************************)
(* Walled garden keys.                                                     *)
(***************************************************************************)
BlockSize(len) == Pow2[AddrBits - len]

\* Mutant of Mask: the shift is one too large.
MMask(ip, len) == (ip \div (2 * BlockSize(len))) * (2 * BlockSize(len))

\* ip & htonl(0xFFFFFFFF << (32 - prefix)); 0 for prefix 0.
Mask(ip, len) == (ip \div BlockSize(len)) * BlockSize(len)

WgKey(cidr) == [ip |-> Mask(cidr[1], cidr[2]), len |-> cidr[2]]

\* A lookup in the LPM trie: some key agrees with the address in its first bits.
GardenHit(a) == \E k \in garden : a \div BlockSize(k.len) = k.ip \div BlockSize(k.len)

(***************************************************************************)
(* Verdicts on IPv4 packets.                                               *)
(***************************************************************************)
\* A packet between a client and a peer, the destination of an upload or the
\* source of a download.  Ports are 0 where there are none (parse_udp_tcp).
Packet == {p \in [proto: Proto, sport: PortNo \cup {0}, dport: PortNo \cup {0}, peer: Addr] :
             p.proto \notin {TCP, UDP} => p.sport = 0 /\ p.dport = 0}

\* Mutant of ProtoAllowed: the lookup with both ports wild is missing.
MProtoAllowed(p) ==
  \/ L4(p.proto, p.sport, p.dport) \in allow
  \/ L4(0, p.sport, p.dport) \in allow
  \/ L4(p.proto, 0, p.dport) \in allow
  \/ L4(p.proto, p.sport, 0) \in allow

\* Exact, then protocol, source port, destination port and both ports wild.
ProtoAllowed(p) ==
  \/ L4(p.proto, p.sport, p.dport) \in allow
  \/ L4(0, p.sport, p.dport) \in allow
  \/ L4(p.proto, 0, p.dport) \in allow
  \/ L4(p.proto, p.sport, 0) \in allow
  \/ L4(p.proto, 0, 0) \in allow

\* Upload of a client that is bypassed (trusted) or has a session (authed).
Ingress(p, trusted, authed) ==
  IF trusted THEN "pass"
  ELSE IF p.peer = PortalIp
       THEN IF p.proto = TCP /\ p.dport = PortalPort THEN "pass" ELSE "drop"
  ELSE IF authed THEN "client"
  ELSE IF ProtoAllowed(p) \/ GardenHit(p.peer) THEN "pass"
  ELSE IF p.proto = TCP /\ p.dport = 80 THEN "redirect"
  ELSE "drop"

\* Mutant of Egress: answers from the walled garden are forgotten.
MEgress(p, trusted, authed) ==
  IF p.peer = PortalIp THEN "pass"
  ELSE IF trusted THEN "pass"
  ELSE IF authed THEN "client"
  ELSE IF ProtoAllowed(p) THEN "pass"
  ELSE "drop"

\* Download to such a client.
Egress(p, trusted, authed) ==
  IF p.peer = PortalIp THEN "pass"
  ELSE IF trusted THEN "pass"
  ELSE IF authed THEN "client"
  ELSE IF ProtoAllowed(p) \/ GardenHit(p.peer) THEN "pass"
  ELSE "drop"

(***************************************************************************)
(* The rules that the names of the configuration stand for.                *)
(***************************************************************************)
EtherTypes == [arp |-> 2054, ipv4 |-> 2048, ipv6 |-> 34525, vlan |-> 33024, pppoe |-> 34916]
Protocols == [icmp |-> 1, igmp |-> 2, tcp |-> 6, udp |-> 17, gre |-> 47, esp |-> 50, ah |-> 51,
              icmpv6 |-> 58, ospf |-> 89, sctp |-> 132]
UdpPorts == [dns |-> 53, ntp |-> 123, mdns |-> 5353, llmnr |-> 5355, syslog |-> 514, snmp |-> 161]
TcpPorts == [http |-> 80, https |-> 443]

\* Mutant of L4Rules: no rule for the answers.
ML4Rules(n) ==
  IF n = "dhcp" THEN {L4(UDP, 68, 67)}
  ELSE IF n \in DOMAIN UdpPorts THEN {L4(UDP, 0, UdpPorts[n])}
  ELSE {L4(TCP, 0, TcpPorts[n])}

\* Both directions of a service; a name that is not known has none.
L4Rules(n) ==
  IF n = "dhcp" THEN {L4(UDP, 68, 67), L4(UDP, 67, 68)}
  ELSE IF n \in DOMAIN UdpPorts THEN {L4(UDP, 0, UdpPorts[n]), L4(UDP, UdpPorts[n], 0)}
  ELSE IF n \in DOMAIN TcpPorts THEN {L4(TCP, 0, TcpPorts[n]), L4(TCP, TcpPorts[n], 0)}
  ELSE {}

L3Rule(n) == L4(Protocols[n], 0, 0)

Configured ==
  [l2 |-> {EtherTypes[n] : n \in L2Names \cap DOMAIN EtherTypes},
   l3 |-> {L3Rule(n) : n \in L3Names \cap DOMAIN Protocols},
   l4 |-> UNION {L4Rules(n) : n \in L4Names},
   garden |-> GardenConf]

\* The subnet a CIDR argument means: the aligned block its address is in.
Subnet(cidr) ==
  UNION {b \in {n * BlockSize(cidr[2]) .. (n + 1) * BlockSize(cidr[2]) - 1 : n \in Addr} :
           cidr[1] \in b}

Init ==
  /\ l2 = {} /\ allow = {} /\ garden = {}
  /\ todo = Configured
  /\ lost = FALSE /\ edited = FALSE
  /\ rules = {} /\ nets = {}

(***************************************************************************)
(* hgctl proto, map-del of hg_proto, wg-add and wg-del.                    *)
(***************************************************************************)
AddRule(r) == allow' = allow \cup {r} /\ rules' = rules \cup {r} /\ UNCHANGED <<l2, garden, nets>>
DelRule(r) == allow' = allow \ {r} /\ rules' = rules \ {r} /\ UNCHANGED <<l2, garden, nets>>

AddNet(cidr) ==
  /\ garden' = garden \cup {WgKey(cidr)}
  /\ nets' = nets \cup {Subnet(cidr)}
  /\ UNCHANGED <<l2, allow, rules>>

DelNet(cidr) ==
  /\ garden' = garden \ {WgKey(cidr)}
  /\ nets' = nets \ {Subnet(cidr)}
  /\ UNCHANGED <<l2, allow, rules>>

(***************************************************************************)
(* start_hgctl: l2, then l3, l4 and walled garden.  An hgctl that fails is *)
(* logged, and the next one is run.                                        *)
(***************************************************************************)
Fails == lost' = TRUE /\ UNCHANGED <<l2, allow, garden, rules, nets>>

Install(list, arg, Does) ==
  /\ arg \in todo[list]
  /\ todo' = [todo EXCEPT ![list] = @ \ {arg}]
  /\ (Does /\ UNCHANGED lost) \/ Fails
  /\ UNCHANGED edited

ApplyL2 ==
  \E e \in todo.l2 :
    Install("l2", e, l2' = l2 \cup {e} /\ UNCHANGED <<allow, garden, rules, nets>>)

ApplyL3 == todo.l2 = {} /\ \E r \in todo.l3 : Install("l3", r, AddRule(r))

ApplyL4 ==
  /\ todo.l2 = {} /\ todo.l3 = {}
  /\ \E r \in todo.l4 : Install("l4", r, AddRule(r))

ApplyGarden ==
  /\ todo.l2 = {} /\ todo.l3 = {} /\ todo.l4 = {}
  /\ \E cidr \in todo.garden : Install("garden", cidr, AddNet(cidr))

\* Operators, at any time.
EditRule(r) == (AddRule(r) \/ DelRule(r)) /\ edited' = TRUE /\ UNCHANGED <<todo, lost>>
EditNet(cidr) == (AddNet(cidr) \/ DelNet(cidr)) /\ UNCHANGED <<todo, lost, edited>>

Next ==
  \/ ApplyL2 \/ ApplyL3 \/ ApplyL4 \/ ApplyGarden
  \/ \E r \in Rules : EditRule(r)
  \/ \E cidr \in Cidrs : EditNet(cidr)

Spec == Init /\ [][Next]_vars

-----------------------------------------------------------------------------
(***************************************************************************)
(* Properties.                                                             *)
(***************************************************************************)
\* "0 = wildcard" in every field (struct hg_allow_key, hg_common.h).
Matches(r, p) == r.proto \in {0, p.proto} /\ r.sport \in {0, p.sport} /\ r.dport \in {0, p.dport}

\* A client that has not logged in reaches just what rules and subnets that
\* were asked for, and not taken back, cover: the five lookups of proto_allowed
\* miss no wildcard, and the masks of wg_parse_cidr neither widen nor narrow a
\* subnet.  Packets to the portal's own address are decided before.  A rule for
\* any protocol must name both ports for that: see the README.
PassesExactlyListed ==
  \A p \in Packet : p.peer # PortalIp =>
    (Ingress(p, FALSE, FALSE) = "pass"
       <=> (\E r \in rules : Matches(r, p)) \/ (\E n \in nets : p.peer \in n))

Reply(p) == [p EXCEPT !.sport = p.dport, !.dport = p.sport]
Paired(set) == \A r \in set : L4(r.proto, r.dport, r.sport) \in set

\* When every rule has its mirror image, what ingress lets a client send egress
\* lets be answered, whatever tests decide in each direction.
RepliesReturn ==
  Paired(allow) => \A p \in Packet, trusted, authed \in BOOLEAN :
    Ingress(p, trusted, authed) # "drop" /\ Ingress(p, trusted, authed) # "redirect"
      => Egress(Reply(p), trusted, authed) # "drop"

\* The packets a service is made of, by its well-known port; those of all services
\* that translate_l4 knows.
Uses(n, p) ==
  \/ p.proto = UDP /\ <<n, p.dport>> \in {<<"dns", 53>>, <<"ntp", 123>>, <<"snmp", 161>>,
                                         <<"syslog", 514>>, <<"mdns", 5353>>, <<"llmnr", 5355>>}
  \/ p.proto = TCP /\ <<n, p.dport>> \in {<<"http", 80>>, <<"https", 443>>}
  \/ n = "dhcp" /\ p.proto = UDP /\ p.sport = 68 /\ p.dport = 67

\* A service of the configuration works both ways once the daemon has installed
\* its rules, unless an hgctl failed or an operator took them back.
ServicesWork ==
  (\A list \in DOMAIN todo : todo[list] = {}) /\ ~lost /\ ~edited =>
    \A n \in L4Names, p \in Packet : (Uses(n, p) /\ p.peer # PortalIp) =>
      Ingress(p, FALSE, FALSE) = "pass" /\ Egress(Reply(p), FALSE, FALSE) = "pass"

\* Does not hold (README): the same of services that the gateway itself offers
\* at the portal's address ("Pre-auth protocol allow-list -- ARP, DNS, DHCP, NTP
\* auto-loaded from config", README.md).
GatewayServicesWork ==
  (\A list \in DOMAIN todo : todo[list] = {}) /\ ~lost /\ ~edited =>
    \A n \in L4Names, p \in Packet : Uses(n, p) => Ingress(p, FALSE, FALSE) = "pass"
=============================================================================
