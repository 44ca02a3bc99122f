--------------------------- MODULE HgPolicyProofs ----------------------------
(***************************************************************************)
(* Proofs about HgPolicy, for addresses of any width, any configuration,   *)
(* and whatever operators do.                                              *)
(***************************************************************************)
EXTENDS HgPolicy, WellFoundedInduction, TLAPS

-----------------------------------------------------------------------------
(***************************************************************************)
(* Answers.                                                                *)
(***************************************************************************)
\* Each of the five lookups for an answer finds the mirror image of what the
\* same lookup, or the one with the other port wild, found for the question.
LEMMA AllowedBothWays ==
  ASSUME Paired(allow), NEW p \in Packet, ProtoAllowed(p)
  PROVE  ProtoAllowed(Reply(p))
<1>1. \A n, s, d : L4(n, s, d) \in allow => L4(n, d, s) \in allow
  BY SMT DEF Paired, L4
<1>2. Reply(p).proto = p.proto /\ Reply(p).sport = p.dport /\ Reply(p).dport = p.sport
  BY SMT DEF Reply, Packet
<1> QED
  BY <1>1, <1>2 DEF ProtoAllowed

\* An answer comes through wherever its question does, in every state.
THEOREM RepliesCorrect == Spec => []RepliesReturn
<1>1. RepliesReturn
  <2> SUFFICES ASSUME Paired(allow), NEW p \in Packet,
                      NEW trusted \in BOOLEAN, NEW authed \in BOOLEAN,
                      Ingress(p, trusted, authed) # "drop",
                      Ingress(p, trusted, authed) # "redirect"
               PROVE  Egress(Reply(p), trusted, authed) # "drop"
    BY DEF RepliesReturn
  <2>1. Reply(p).peer = p.peer
    BY SMT DEF Reply, Packet
  <2>2. ProtoAllowed(p) => ProtoAllowed(Reply(p))
    BY AllowedBothWays
  <2> QED
    BY <2>1, <2>2, SMT DEF Ingress, Egress
<1> QED
  BY <1>1, PTL

-----------------------------------------------------------------------------
(***************************************************************************)
(* Configured services.                                                    *)
(***************************************************************************)
TodoOK ==
  todo \in [l2 : SUBSET Configured.l2, l3 : SUBSET Configured.l3,
            l4 : SUBSET Configured.l4, garden : SUBSET Configured.garden]

\* What is no longer to be installed is installed, unless that failed or an
\* operator has been at the list.
Installed == ~lost /\ ~edited => Configured.l4 \subseteq todo.l4 \cup allow

InstalledInv == TodoOK /\ Installed

LEMMA InstalledInit == Init => InstalledInv
<1>1. Configured = [l2 |-> Configured.l2, l3 |-> Configured.l3, l4 |-> Configured.l4,
                    garden |-> Configured.garden]
  BY SMT DEF Configured
<1> QED
  BY <1>1, SMT DEF Init, InstalledInv, TodoOK, Installed

\* A list that hawkgated does not install, or does not get to.
LEMMA InstalledKept ==
  ASSUME InstalledInv, allow \subseteq allow', TodoOK', todo'.l4 = todo.l4,
         ~lost' => ~lost, ~edited' => ~edited
  PROVE  InstalledInv'
BY SMT DEF InstalledInv, Installed

LEMMA InstalledNext == InstalledInv /\ [Next]_vars => InstalledInv'
<1> SUFFICES ASSUME InstalledInv, [Next]_vars PROVE InstalledInv'
  OBVIOUS
<1> USE DEF InstalledInv
<1>1. CASE ApplyL2
  <2>1. PICK e \in todo.l2 :
          /\ todo' = [todo EXCEPT !["l2"] = @ \ {e}]
          /\ allow' = allow /\ edited' = edited /\ (lost' = lost \/ lost' = TRUE)
    BY <1>1, Zenon DEF ApplyL2, Install, Fails
  <2>2. TodoOK' /\ todo'.l4 = todo.l4
    BY <2>1, SMT DEF TodoOK
  <2> QED
    BY <2>1, <2>2, InstalledKept, SMT
<1>2. CASE ApplyL3
  <2>1. PICK r \in todo.l3 :
          /\ todo' = [todo EXCEPT !["l3"] = @ \ {r}]
          /\ allow \subseteq allow' /\ edited' = edited /\ (lost' = lost \/ lost' = TRUE)
    BY <1>2, Zenon DEF ApplyL3, Install, Fails, AddRule
  <2>2. TodoOK' /\ todo'.l4 = todo.l4
    BY <2>1, SMT DEF TodoOK
  <2> QED
    BY <2>1, <2>2, InstalledKept, SMT
<1>3. CASE ApplyL4
  <2>1. PICK r \in todo.l4 :
          /\ todo' = [todo EXCEPT !["l4"] = @ \ {r}]
          /\ edited' = edited
          /\ (allow' = allow \cup {r} /\ lost' = lost) \/ lost' = TRUE
    BY <1>3, Zenon DEF ApplyL4, Install, Fails, AddRule
  <2>2. TodoOK' /\ todo'.l4 = todo.l4 \ {r}
    BY <2>1, SMT DEF TodoOK
  <2> QED
    BY <2>1, <2>2, SMT DEF Installed
<1>4. CASE ApplyGarden
  <2>1. PICK cidr \in todo.garden :
          /\ todo' = [todo EXCEPT !["garden"] = @ \ {cidr}]
          /\ allow' = allow /\ edited' = edited /\ (lost' = lost \/ lost' = TRUE)
    BY <1>4, Zenon DEF ApplyGarden, Install, Fails, AddNet
  <2>2. TodoOK' /\ todo'.l4 = todo.l4
    BY <2>1, SMT DEF TodoOK
  <2> QED
    BY <2>1, <2>2, InstalledKept, SMT
<1>5. ASSUME NEW r \in Rules, EditRule(r) PROVE InstalledInv'
  BY <1>5, SMT DEF EditRule, TodoOK, Installed
<1>6. ASSUME NEW cidr \in Cidrs, EditNet(cidr) PROVE InstalledInv'
  BY <1>6, SMT DEF EditNet, AddNet, DelNet, TodoOK, Installed
<1>7. CASE UNCHANGED vars
  BY <1>7, SMT DEF vars, TodoOK, Installed
<1> QED
  BY <1>1, <1>2, <1>3, <1>4, <1>5, <1>6, <1>7, SMT DEF Next

\* The rules of a service let its packets out, and their answers in.
LEMMA ServiceRules ==
  ASSUME NEW n \in L4Names, NEW p \in Packet, Uses(n, p)
  PROVE  /\ {L4(p.proto, p.sport, p.dport), L4(p.proto, 0, p.dport)} \cap L4Rules(n) # {}
         /\ {L4(p.proto, p.dport, p.sport), L4(p.proto, p.dport, 0)} \cap L4Rules(n) # {}
<1>1. ASSUME p.proto = UDP,
             <<n, p.dport>> \in {<<"dns", 53>>, <<"ntp", 123>>, <<"snmp", 161>>,
                                <<"syslog", 514>>, <<"mdns", 5353>>, <<"llmnr", 5355>>}
      PROVE  L4Rules(n) = {L4(p.proto, 0, p.dport), L4(p.proto, p.dport, 0)}
  <2>1. /\ n \in {"dns", "ntp", "snmp", "syslog", "mdns", "llmnr"}
        /\ n = "dns" => p.dport = 53
        /\ n = "ntp" => p.dport = 123
        /\ n = "snmp" => p.dport = 161
        /\ n = "syslog" => p.dport = 514
        /\ n = "mdns" => p.dport = 5353
        /\ n = "llmnr" => p.dport = 5355
    BY <1>1, SMT
  <2>2. n \in DOMAIN UdpPorts /\ UdpPorts[n] = p.dport
    BY <2>1, SMT DEF UdpPorts
  <2> QED
    BY <1>1, <2>1, <2>2, SMT DEF L4Rules
<1>2. ASSUME p.proto = TCP, <<n, p.dport>> \in {<<"http", 80>>, <<"https", 443>>}
      PROVE  L4Rules(n) = {L4(p.proto, 0, p.dport), L4(p.proto, p.dport, 0)}
  <2>1. /\ n \in {"http", "https"}
        /\ n = "http" => p.dport = 80
        /\ n = "https" => p.dport = 443
    BY <1>2, SMT
  <2>2. n \in DOMAIN TcpPorts /\ TcpPorts[n] = p.dport /\ n \notin DOMAIN UdpPorts
    BY <2>1, SMT DEF TcpPorts, UdpPorts
  <2> QED
    BY <1>2, <2>1, <2>2, SMT DEF L4Rules
<1>3. CASE n = "dhcp" /\ p.proto = UDP /\ p.sport = 68 /\ p.dport = 67
  <2>1. L4Rules(n) = {L4(UDP, 68, 67), L4(UDP, 67, 68)}
    BY <1>3 DEF L4Rules
  <2> QED
    BY <1>3, <2>1, SMT
<1> QED
  BY <1>1, <1>2, <1>3 DEF Uses

LEMMA ServicesOpen == InstalledInv => ServicesWork
<1> SUFFICES ASSUME InstalledInv, \A list \in DOMAIN todo : todo[list] = {}, ~lost, ~edited,
                    NEW n \in L4Names, NEW p \in Packet, Uses(n, p), p.peer # PortalIp
             PROVE  Ingress(p, FALSE, FALSE) = "pass" /\ Egress(Reply(p), FALSE, FALSE) = "pass"
  BY DEF ServicesWork
<1>1. todo.l4 = {}
  BY SMT DEF InstalledInv, TodoOK
<1>2. L4Rules(n) \subseteq allow
  BY <1>1, SMT DEF InstalledInv, Installed, Configured
<1>3. ProtoAllowed(p)
  BY <1>2, ServiceRules DEF ProtoAllowed
<1>4. /\ Reply(p).proto = p.proto /\ Reply(p).sport = p.dport
      /\ Reply(p).dport = p.sport /\ Reply(p).peer = p.peer
  BY SMT DEF Reply, Packet
<1>5. ProtoAllowed(Reply(p))
  BY <1>2, <1>4, ServiceRules DEF ProtoAllowed
<1> QED
  BY <1>3, <1>4, <1>5, SMT DEF Ingress, Egress

\* A configured service works both ways once hawkgated has installed its rules,
\* in whatever order, unless an hgctl failed or an operator took rules back.
THEOREM ServicesCorrect == Spec => []ServicesWork
BY InstalledInit, InstalledNext, ServicesOpen, PTL DEF Spec

-----------------------------------------------------------------------------
(***************************************************************************)
(* Powers of two, and division.                                            *)
(***************************************************************************)
\* Every set of naturals that is not empty has a least element: the proofs by
\* induction below are by a least counterexample.
LEMMA Least == ASSUME NEW S \in SUBSET Nat, S # {} PROVE \E n \in S : \A m \in S : n <= m
<1>1. IsWellFoundedOn(OpToRel(<, Nat), Nat)
  BY NatLessThanWellFounded
<1>2. PICK R : R = OpToRel(<, Nat)
  OBVIOUS
<1>3. PICK n \in S : \A m \in S : ~(<<m, n>> \in R)
  BY <1>1, <1>2, WFMin
<1>4. \A m \in S : ~ (m < n)
  BY <1>2, <1>3, Zenon DEF OpToRel
<1> QED
  BY <1>4

LEMMA Pow2Unfolds == \A n \in Nat : Pow2[n] = IF n = 0 THEN 1 ELSE 2 * Pow2[n - 1]
<1> DEFINE Part(n) == {g \in [0..n -> Nat] :
                         \A i \in 0..n : g[i] = IF i = 0 THEN 1 ELSE 2 * g[i - 1]}
           Is(f) == f = [n \in Nat |-> IF n = 0 THEN 1 ELSE 2 * f[n - 1]]
<1>1. \A n \in Nat : Part(n) # {}
  <2> SUFFICES ASSUME {n \in Nat : Part(n) = {}} # {} PROVE FALSE
    OBVIOUS
  <2>1. PICK n \in Nat : Part(n) = {} /\ \A m \in Nat : Part(m) = {} => n <= m
    <3>1. PICK n \in {n \in Nat : Part(n) = {}} : \A m \in {k \in Nat : Part(k) = {}} : n <= m
      BY Least
    <3> QED
      BY <3>1
  <2>2. n # 0
    <3>1. [i \in 0..0 |-> 1] \in Part(0)
      OBVIOUS
    <3> QED
      BY <2>1, <3>1
  <2>3. n - 1 \in Nat /\ Part(n - 1) # {}
    <3>1. n - 1 \in Nat /\ ~(n <= n - 1)
      BY <2>2
    <3> HIDE DEF Part
    <3> QED
      BY <2>1, <3>1
  <2>4. PICK g : g \in Part(n - 1)
    BY <2>3
  <2>5. [i \in 0..n |-> IF i = n THEN 2 * g[n - 1] ELSE g[i]] \in Part(n)
    BY <2>2, <2>4
  <2> QED
    BY <2>1, <2>5
<1>2. ASSUME NEW m \in Nat, NEW n \in Nat, m <= n, NEW g \in Part(m), NEW h \in Part(n)
      PROVE  \A i \in 0..m : g[i] = h[i]
  <2> DEFINE Bad == {i \in Nat : i <= m /\ g[i] # h[i]}
  <2> SUFFICES ASSUME NEW k \in 0..m, g[k] # h[k] PROVE FALSE
    OBVIOUS
  <2>0. k \in Bad
    OBVIOUS
  <2>1. PICK i \in Bad : \A j \in Bad : i <= j
    <3>1. Bad \in SUBSET Nat
      OBVIOUS
    <3> HIDE DEF Bad
    <3> QED
      BY <2>0, <3>1, Least
  <2>2. i # 0 => i - 1 \in Nat /\ g[i - 1] = h[i - 1]
    BY <2>1
  <2> QED
    BY <1>2, <2>1, <2>2
<1>3. \E f : Is(f)
  <2>1. PICK p : \A n \in Nat : p[n] \in Part(n)
    <3> DEFINE p == [n \in Nat |-> CHOOSE g : g \in Part(n)]
    <3>1. \A n \in Nat : p[n] \in Part(n)
      BY <1>1
    <3> QED
      BY <3>1
  <2> DEFINE f == [n \in Nat |-> p[n][n]]
  <2>2. ASSUME NEW n \in Nat PROVE f[n] = IF n = 0 THEN 1 ELSE 2 * f[n - 1]
    <3>1. p[n][n] = IF n = 0 THEN 1 ELSE 2 * p[n][n - 1]
      BY <2>1
    <3>2. n # 0 => n - 1 \in Nat /\ n - 1 <= n /\ n - 1 \in 0..(n - 1)
      OBVIOUS
    <3>3. n # 0 => p[n][n - 1] = p[n - 1][n - 1]
      <4> HIDE DEF Part
      <4> QED
        BY <1>2, <2>1, <3>2
    <3> QED
      BY <3>1, <3>2, <3>3
  <2>3. Is(f)
    BY <2>2
  <2> QED
    BY <2>3
<1>4. Is(Pow2)
  BY <1>3 DEF Pow2
<1> QED
  BY <1>4
LEMMA Pow2Positive == \A n \in Nat : Pow2[n] \in Nat \ {0}
<1> DEFINE Bad == {n \in Nat : Pow2[n] \notin Nat \ {0}}
<1> SUFFICES ASSUME Bad # {} PROVE FALSE
  OBVIOUS
<1>1. PICK n \in Bad : \A m \in Bad : n <= m
  <2>1. Bad \in SUBSET Nat
    OBVIOUS
  <2> HIDE DEF Bad
  <2> QED
    BY <2>1, Least
<1>2. Pow2[n] = IF n = 0 THEN 1 ELSE 2 * Pow2[n - 1]
  BY Pow2Unfolds
<1>3. n # 0 => n - 1 \in Nat /\ n - 1 \notin Bad
  BY <1>1
<1> QED
  BY <1>1, <1>2, <1>3

LEMMA Pow2Grows == ASSUME NEW m \in Nat, NEW n \in Nat, m < n PROVE Pow2[m] < Pow2[n]
<1> DEFINE Bad == {k \in Nat : m < k /\ ~(Pow2[m] < Pow2[k])}
<1> SUFFICES ASSUME n \in Bad PROVE FALSE
  OBVIOUS
<1>1. PICK k \in Bad : \A j \in Bad : k <= j
  <2>1. Bad \in SUBSET Nat
    OBVIOUS
  <2> HIDE DEF Bad
  <2> QED
    BY <2>1, Least
<1>2. k - 1 \in Nat /\ k - 1 \notin Bad /\ Pow2[k] = 2 * Pow2[k - 1]
  BY <1>1, Pow2Unfolds
<1>3. Pow2[k - 1] \in Nat \ {0} /\ Pow2[m] \in Nat
  BY <1>2, Pow2Positive
<1> QED
  BY <1>1, <1>2, <1>3

LEMMA Division ==
  ASSUME NEW x \in Nat, NEW b \in Nat \ {0}
  PROVE  x \div b \in Nat /\ (x \div b) * b <= x /\ x < (x \div b) * b + b
OBVIOUS

LEMMA Quotient ==
  ASSUME NEW x \in Nat, NEW b \in Nat \ {0}, NEW q \in Nat, q * b <= x, x < (q + 1) * b
  PROVE  x \div b = q
<1>1. x = q * b + (x - q * b) /\ x - q * b \in 0..(b - 1)
  BY SMT
<1> QED
  BY <1>1, SMT

LEMMA Multiple ==
  ASSUME NEW q \in Nat, NEW b \in Nat \ {0}
  PROVE  (q * b) \div b = q
BY SMT

-----------------------------------------------------------------------------
(***************************************************************************)
(* Subnets and their keys.                                                 *)
(***************************************************************************)
AnyCidr == Addr \X (0..AddrBits)
Block(c) == c[1] \div BlockSize(c[2])

LEMMA CidrFacts ==
  ASSUME NEW c \in AnyCidr
  PROVE  /\ c[1] \in Nat /\ c[1] \in Addr /\ c[2] \in 0..AddrBits /\ AddrBits - c[2] \in Nat
         /\ BlockSize(c[2]) \in Nat \ {0} /\ Block(c) \in Nat /\ Block(c) <= c[1]
<1>1. /\ c[1] \in Addr /\ c[2] \in 0..AddrBits /\ AddrBits - c[2] \in Nat
      /\ Pow2[AddrBits] \in Nat
  BY AddrAssumption, Pow2Positive DEF AnyCidr
<1>2. c[1] \in Nat
  BY <1>1 DEF Addr
<1>3. BlockSize(c[2]) \in Nat \ {0}
  BY <1>1, Pow2Positive DEF BlockSize
<1>4. PICK b \in Nat \ {0} : b = BlockSize(c[2])
  BY <1>3
<1>5. PICK x \in Nat : x = c[1]
  BY <1>2
<1>6. x \div b \in Nat /\ x \div b <= (x \div b) * b /\ (x \div b) * b <= x
  BY Division, SMT
<1> QED
  BY <1>1, <1>2, <1>3, <1>4, <1>5, <1>6 DEF Block

\* A subnet is one aligned block of addresses.
LEMMA SubnetIsBlock ==
  ASSUME NEW c \in AnyCidr
  PROVE  Subnet(c) = Block(c) * BlockSize(c[2]) .. (Block(c) + 1) * BlockSize(c[2]) - 1
<1>1. PICK b \in Nat \ {0}, x \in Nat, q \in Nat :
        b = BlockSize(c[2]) /\ x = c[1] /\ q = Block(c) /\ q = x \div b /\ q <= x
  BY CidrFacts DEF Block
<1>2. q \in Addr
  BY <1>1, CidrFacts, Pow2Positive, AddrAssumption DEF Addr
<1>3. x \in q * b .. (q + 1) * b - 1
  <2>1. (q + 1) * b = q * b + b /\ q * b \in Nat
    BY SMT
  <2>2. q * b <= x /\ x < q * b + b
    BY <1>1, Division
  <2> QED
    BY <2>1, <2>2
<1>4. ASSUME NEW n \in Addr, x \in n * b .. (n + 1) * b - 1 PROVE n = q
  <2>1. n \in Nat
    BY DEF Addr
  <2>2. n * b <= x /\ x < (n + 1) * b
    BY <1>4, <2>1, SMT
  <2> QED
    BY <1>1, <2>1, <2>2, Quotient
<1>5. Subnet(c) = UNION {y \in {n * b .. (n + 1) * b - 1 : n \in Addr} : x \in y}
  BY <1>1 DEF Subnet
<1>6. {y \in {n * b .. (n + 1) * b - 1 : n \in Addr} : x \in y} = {q * b .. (q + 1) * b - 1}
  BY <1>2, <1>3, <1>4
<1> QED
  BY <1>1, <1>5, <1>6

LEMMA InSubnet ==
  ASSUME NEW c \in AnyCidr, NEW a \in Addr
  PROVE  a \in Subnet(c) <=> a \div BlockSize(c[2]) = Block(c)
<1>1. PICK b \in Nat \ {0}, q \in Nat : b = BlockSize(c[2]) /\ q = Block(c)
  BY CidrFacts
<1>2. a \in Nat
  BY DEF Addr
<1>3. a \in q * b .. (q + 1) * b - 1 => a \div b = q
  <2> SUFFICES ASSUME a \in q * b .. (q + 1) * b - 1 PROVE a \div b = q
    OBVIOUS
  <2>1. q * b <= a /\ a < (q + 1) * b
    BY <1>2, SMT
  <2> QED
    BY <1>2, <2>1, Quotient
<1>4. a \div b = q => a \in q * b .. (q + 1) * b - 1
  BY <1>2, Division, SMT
<1> QED
  BY <1>1, <1>3, <1>4, SubnetIsBlock

\* The key of a subnet is found for the addresses in it.
LEMMA KeyHits ==
  ASSUME NEW c \in AnyCidr
  PROVE  WgKey(c).len = c[2] /\ WgKey(c).ip \div BlockSize(c[2]) = Block(c)
<1>1. PICK b \in Nat \ {0}, q \in Nat : b = BlockSize(c[2]) /\ q = Block(c)
  BY CidrFacts
<1>2. (q * b) \div b = q
  BY Multiple
<1> QED
  BY <1>1, <1>2 DEF WgKey, Mask, Block

\* Two arguments make the same key if and only if they mean the same subnet.
LEMMA KeyIsSubnet ==
  ASSUME NEW c \in AnyCidr, NEW d \in AnyCidr
  PROVE  WgKey(c) = WgKey(d) <=> Subnet(c) = Subnet(d)
<1>1. ASSUME WgKey(c) = WgKey(d) PROVE Subnet(c) = Subnet(d)
  <2>1. c[2] = d[2] /\ Block(c) = Block(d)
    BY <1>1, KeyHits
  <2> QED
    BY <2>1, SubnetIsBlock
<1>2. ASSUME Subnet(c) = Subnet(d) PROVE WgKey(c) = WgKey(d)
  <2>1. PICK b \in Nat \ {0}, q \in Nat, e \in Nat \ {0}, r \in Nat :
          b = BlockSize(c[2]) /\ q = Block(c) /\ e = BlockSize(d[2]) /\ r = Block(d)
    BY CidrFacts
  <2>2. q * b .. (q + 1) * b - 1 = r * e .. (r + 1) * e - 1
    BY <1>2, <2>1, SubnetIsBlock
  <2>3. PICK s \in Nat, t \in Nat : s = q * b /\ t = r * e
    BY SMT
  <2>4. (q + 1) * b = s + b /\ (r + 1) * e = t + e
    BY <2>3, SMT
  <2>5. s .. s + b - 1 = t .. t + e - 1
    BY <2>2, <2>3, <2>4
  <2>6. s = t /\ b = e
    <3>1. s \in s .. s + b - 1 /\ t \in t .. t + e - 1
      OBVIOUS
    <3>2. s + b - 1 \in s .. s + b - 1 /\ t + e - 1 \in t .. t + e - 1
      OBVIOUS
    <3> QED
      BY <2>5, <3>1, <3>2
  <2>7. c[2] = d[2]
    <3>1. AddrBits - c[2] \in Nat /\ AddrBits - d[2] \in Nat /\ c[2] \in Int /\ d[2] \in Int
      BY CidrFacts
    <3>2. PICK m \in Nat, n \in Nat : m = AddrBits - c[2] /\ n = AddrBits - d[2]
      BY <3>1
    <3>3. Pow2[m] = Pow2[n] /\ Pow2[m] \in Nat
      BY <2>1, <2>6, <3>2, Pow2Positive DEF BlockSize
    <3>4. ~(m < n) /\ ~(n < m)
      BY <3>3, Pow2Grows
    <3> QED
      BY <3>1, <3>2, <3>4, AddrAssumption
  <2> QED
    BY <2>1, <2>3, <2>6, <2>7 DEF WgKey, Mask, Block
<1> QED
  BY <1>1, <1>2

-----------------------------------------------------------------------------
(***************************************************************************)
(* Exactly what is listed.                                                 *)
(***************************************************************************)
\* Operators' rules for any protocol name both ports: with any protocol, a wild
\* port is not among the five lookups.
NamedPorts == \A r \in Rules : r.proto = 0 => r.sport # 0 /\ r.dport # 0

RuleOK(r) == r = L4(r.proto, r.sport, r.dport) /\ (r.proto = 0 => r.sport # 0 /\ r.dport # 0)
RulesOK == rules = allow /\ \A r \in allow : RuleOK(r)

\* The keys in the trie are those of the subnets asked for.
AllCidrs == Cidrs \cup GardenConf
NetsOK ==
  /\ garden \subseteq {WgKey(c) : c \in AllCidrs}
  /\ nets \subseteq {Subnet(c) : c \in AllCidrs}
  /\ \A c \in AllCidrs : WgKey(c) \in garden <=> Subnet(c) \in nets

ListsInv == InstalledInv /\ RulesOK /\ NetsOK

LEMMA ConfiguredRules ==
  ASSUME NEW r \in Configured.l3 \cup Configured.l4
  PROVE  RuleOK(r)
<1>1. \A n \in DOMAIN Protocols : Protocols[n] \in {1, 2, 6, 17, 47, 50, 51, 58, 89, 132}
  BY SMT DEF Protocols
<1>2. \A m, s, d : m # 0 => RuleOK(L4(m, s, d))
  BY DEF L4, RuleOK
<1>3. CASE r \in Configured.l3
  <2>1. PICK n \in DOMAIN Protocols : r = L4(Protocols[n], 0, 0)
    BY <1>3 DEF Configured, L3Rule
  <2>2. Protocols[n] # 0
    BY <1>1
  <2> QED
    BY <1>2, <2>1, <2>2
<1>4. CASE r \in Configured.l4
  <2>1. PICK n \in L4Names : r \in L4Rules(n)
    BY <1>4 DEF Configured
  <2>2. \E m \in {UDP, TCP} : \E s, d : r = L4(m, s, d)
    BY <2>1, Zenon DEF L4Rules
  <2>3. UDP # 0 /\ TCP # 0
    BY DEF UDP, TCP
  <2> QED
    BY <1>2, <2>2, <2>3
<1> QED
  BY <1>3, <1>4

\* All that a step does to the lists is to add or delete one rule or one subnet.
EditsOne ==
  /\ \/ UNCHANGED <<allow, rules>>
     \/ \E r : RuleOK(r) /\ (AddRule(r) \/ DelRule(r))
  /\ \/ UNCHANGED <<garden, nets>>
     \/ \E c \in AllCidrs : AddNet(c) \/ DelNet(c)

LEMMA KindsOfEdit ==
  ASSUME NamedPorts, TodoOK, [Next]_vars
  PROVE  EditsOne
<1>1. /\ todo.l3 \subseteq Configured.l3 /\ todo.l4 \subseteq Configured.l4
      /\ todo.garden \subseteq GardenConf
  BY SMT DEF TodoOK, Configured
<1>2. CASE ApplyL2
  BY <1>2, Zenon DEF ApplyL2, Install, Fails, EditsOne
<1>3. CASE ApplyL3 \/ ApplyL4
  <2>1. PICK r \in todo.l3 \cup todo.l4 : AddRule(r) \/ Fails
    BY <1>3, Zenon DEF ApplyL3, ApplyL4, Install
  <2>2. RuleOK(r)
    BY <1>1, ConfiguredRules
  <2> QED
    BY <2>1, <2>2, Zenon DEF EditsOne, AddRule, Fails
<1>4. CASE ApplyGarden
  <2>1. PICK c \in todo.garden : AddNet(c) \/ Fails
    BY <1>4, Zenon DEF ApplyGarden, Install
  <2>2. c \in AllCidrs
    BY <1>1 DEF AllCidrs
  <2> QED
    BY <2>1, <2>2, Zenon DEF EditsOne, AddNet, Fails
<1>5. ASSUME NEW r \in Rules, EditRule(r) PROVE EditsOne
  <2>1. RuleOK(r)
    <3>1. r = L4(r.proto, r.sport, r.dport)
      BY RulesAssumption, SMT DEF L4, Rule
    <3> QED
      BY <3>1 DEF NamedPorts, RuleOK
  <2> QED
    BY <1>5, <2>1, Zenon DEF EditRule, EditsOne, AddRule, DelRule
<1>6. ASSUME NEW c \in Cidrs, EditNet(c) PROVE EditsOne
  <2>1. c \in AllCidrs
    BY DEF AllCidrs
  <2> QED
    BY <1>6, <2>1, Zenon DEF EditNet, EditsOne, AddNet, DelNet
<1>7. CASE UNCHANGED vars
  BY <1>7 DEF vars, EditsOne
<1> QED
  BY <1>2, <1>3, <1>4, <1>5, <1>6, <1>7 DEF Next

LEMMA NetsKept ==
  ASSUME NetsOK, NEW c \in AllCidrs, AddNet(c) \/ DelNet(c)
  PROVE  NetsOK'
<1>1. \A d \in AllCidrs : WgKey(d) = WgKey(c) <=> Subnet(d) = Subnet(c)
  BY KeyIsSubnet, CidrAssumption DEF AllCidrs, AnyCidr
<1>2. CASE AddNet(c)
  BY <1>1, <1>2, Zenon DEF AddNet, NetsOK
<1>3. CASE DelNet(c)
  BY <1>1, <1>3, Zenon DEF DelNet, NetsOK
<1> QED
  BY <1>2, <1>3

LEMMA ListsNext ==
  ASSUME NamedPorts, ListsInv, [Next]_vars
  PROVE  ListsInv'
<1>1. InstalledInv' /\ EditsOne
  BY InstalledNext, KindsOfEdit DEF ListsInv, InstalledInv
<1>2. RulesOK'
  <2>1. CASE UNCHANGED <<allow, rules>>
    BY <2>1 DEF ListsInv, RulesOK
  <2>2. ASSUME NEW r, RuleOK(r), AddRule(r) \/ DelRule(r) PROVE RulesOK'
    BY <2>2 DEF ListsInv, RulesOK, AddRule, DelRule
  <2> QED
    BY <1>1, <2>1, <2>2 DEF EditsOne
<1>3. NetsOK'
  <2>1. CASE UNCHANGED <<garden, nets>>
    BY <2>1 DEF ListsInv, NetsOK
  <2> QED
    BY <1>1, <2>1, NetsKept DEF ListsInv, EditsOne
<1> QED
  BY <1>1, <1>2, <1>3 DEF ListsInv

LEMMA ListsInit == Init => ListsInv
BY InstalledInit DEF Init, ListsInv, RulesOK, NetsOK

\* The five lookups find a rule if and only if one covers the packet.
LEMMA LookupsMatch ==
  ASSUME RulesOK, NEW p \in Packet
  PROVE  ProtoAllowed(p) <=> \E r \in rules : Matches(r, p)
<1>1. ASSUME ProtoAllowed(p) PROVE \E r \in rules : Matches(r, p)
  <2>1. ASSUME NEW n \in {0, p.proto}, NEW s \in {0, p.sport}, NEW d \in {0, p.dport},
               L4(n, s, d) \in allow
        PROVE  \E r \in rules : Matches(r, p)
    <3>1. Matches(L4(n, s, d), p)
      BY DEF Matches, L4
    <3> QED
      BY <2>1, <3>1 DEF RulesOK
  <2> QED
    BY <1>1, <2>1 DEF ProtoAllowed
<1>2. ASSUME NEW r \in rules, Matches(r, p) PROVE ProtoAllowed(p)
  <2>1. r \in allow /\ RuleOK(r)
    BY DEF RulesOK
  <2>2. r = L4(r.proto, r.sport, r.dport)
    BY <2>1 DEF RuleOK
  <2>3. /\ r.proto = p.proto \/ (r.proto = 0 /\ r.sport = p.sport /\ r.dport = p.dport)
        /\ r.sport = p.sport \/ r.sport = 0
        /\ r.dport = p.dport \/ r.dport = 0
    BY <1>2, <2>1 DEF RuleOK, Matches
  <2> QED
    BY <2>1, <2>2, <2>3 DEF ProtoAllowed
<1> QED
  BY <1>1, <1>2

\* The trie has a key for an address if and only if one of the subnets has it.
LEMMA TrieMatches ==
  ASSUME NetsOK, NEW a \in Addr
  PROVE  GardenHit(a) <=> \E n \in nets : a \in n
<1>1. AllCidrs \subseteq AnyCidr
  BY CidrAssumption DEF AllCidrs, AnyCidr
<1>2. \A c \in AllCidrs :
        a \in Subnet(c) <=> a \div BlockSize(WgKey(c).len) = WgKey(c).ip \div BlockSize(WgKey(c).len)
  BY <1>1, InSubnet, KeyHits
<1> QED
  BY <1>2, Zenon DEF NetsOK, GardenHit

\* Whatever rules and subnets, written in whatever way, are added and deleted, and
\* whatever installing fails, a client that has not logged in reaches just what
\* those in force cover.
THEOREM ListedCorrect ==
  ASSUME NamedPorts
  PROVE  Spec => []PassesExactlyListed
<1>1. ListsInv /\ [Next]_vars => ListsInv'
  BY ListsNext
<1>2. ListsInv => PassesExactlyListed
  <2> SUFFICES ASSUME ListsInv, NEW p \in Packet, p.peer # PortalIp
               PROVE  Ingress(p, FALSE, FALSE) = "pass"
                        <=> (\E r \in rules : Matches(r, p)) \/ (\E n \in nets : p.peer \in n)
    BY DEF PassesExactlyListed
  <2>1. Ingress(p, FALSE, FALSE) = "pass" <=> ProtoAllowed(p) \/ GardenHit(p.peer)
    BY DEF Ingress
  <2>2. p.peer \in Addr
    BY DEF Packet
  <2> QED
    BY <2>1, <2>2, LookupsMatch, TrieMatches DEF ListsInv
<1> QED
  BY <1>1, <1>2, ListsInit, PTL DEF Spec

=============================================================================
