------------------------------- MODULE HgMaps -------------------------------
(***************************************************************************)
(* The pinned BPF maps that the kernel programs (hg_tc.bpf.c), the control *)
(* tool (hg_control.c) and the reader share, and the operators that say    *)
(* what one bpf_map_* call does to them.                                   *)
(*                                                                         *)
(* A hash map is a total function into its values and None, None standing  *)
(* for "no element".  One map operation is atomic: the kernel locks the    *)
(* bucket.  A value that code reads through the pointer of a lookup is     *)
(* read at the lookup; a per-CPU counter is updated in place, so looking   *)
(* it up and writing it are one step.  Packets and bytes are not counted.  *)
(***************************************************************************)
EXTENDS Integers, FiniteSets

CONSTANTS
  MAC,          \* client hardware addresses
  IP,           \* client IPv4 addresses
  RateId,       \* keys of hg_rates
  NoLimitId,    \* RATE_ID_NO_LIMIT
  Limit,        \* limits an `add` may ask for, [d, u] in kbit/s; 0 is "none"
  Timeout,      \* the values of `add -e`, in clock ticks; 0 is "never"
  MaxClients,   \* max_entries of hg_clients
  MaxCounters,  \* max_entries of hg_counters
  MaxRates,     \* max_entries of hg_rates
  MaxBindings,  \* max_entries of hg_mac_ip and of hg_ip_mac
  MaxBypass,    \* max_entries of hg_bypass
  None          \* "no element"

ASSUME NoneAssumption == None \notin MAC \cup IP \cup {"AUTH_OK", "EXPIRE"}
ASSUME RateAssumption == NoLimitId \in RateId /\ Limit \subseteq [d: Nat, u: Nat]
ASSUME TimeoutAssumption == Timeout \subseteq Nat
ASSUME CapacityAssumption ==
  {MaxClients, MaxCounters, MaxRates, MaxBindings, MaxBypass} \subseteq Nat

VARIABLES
  now,       \* CLOCK_MONOTONIC, which bpf_ktime_get_ns reads too
  clients,   \* hg_clients:  MAC -> session
  counters,  \* hg_counters: IP -> state, the worst over the CPUs
  rates,     \* hg_rates:    rate id -> limit
  mac_ip,    \* hg_mac_ip:   MAC -> IP last seen
  ip_mac,    \* hg_ip_mac:   IP -> MAC last seen
  bypass     \* hg_bypass:   IPs that skip authentication

maps == <<clients, counters, rates, mac_ip, ip_mac, bypass>>

Unlimited == [d |-> 0, u |-> 0]

(***************************************************************************)
(* struct hg_client as far as the policy reads it: the absolute expiry, 0  *)
(* for none, and the key of its rate profile.  lim is a history field: the *)
(* limit the `add` that made the session asked for.                        *)
(***************************************************************************)
Session == [expiry: Nat, rate: RateId, lim: Limit]

ASSUME ElementAssumption == None \notin Session \cup Limit

CounterState == {"AUTH_OK", "EXPIRE"}

MapsTypeOK ==
  /\ now \in Nat
  /\ clients \in [MAC -> Session \cup {None}]
  /\ counters \in [IP -> CounterState \cup {None}]
  /\ rates \in [RateId -> Limit \cup {None}]
  /\ mac_ip \in [MAC -> IP \cup {None}]
  /\ ip_mac \in [IP -> MAC \cup {None}]
  /\ bypass \in SUBSET IP

\* A freshly loaded object: every map is empty.
MapsInit ==
  /\ now = 0
  /\ clients = [m \in MAC |-> None]
  /\ counters = [i \in IP |-> None]
  /\ rates = [r \in RateId |-> None]
  /\ mac_ip = [m \in MAC |-> None]
  /\ ip_mac = [i \in IP |-> None]
  /\ bypass = {}

\* bpf_map_update_elem(BPF_ANY) succeeds: the key is there, or there is room.
Fits(map, key, max) ==
  \/ map[key] # None
  \/ Cardinality({k \in DOMAIN map : map[k] # None}) < max

\* An update whose return value nobody looks at.
UpdateIfFits(map, key, val, max) ==
  IF Fits(map, key, max) THEN [map EXCEPT ![key] = val] ELSE map

\* Mutant of Expired: a session lives one tick too long.
MExpired(s) == s.expiry # 0 /\ now > s.expiry + 1

\* auth->expiry_ns && now_ns > auth->expiry_ns
Expired(s) == s.expiry # 0 /\ now > s.expiry

\* expire > 0 ? now_ns + expire : 0
ExpiryAt(t) == IF t > 0 THEN now + t ELSE 0

\* The limit a session is shaped by: no profile, no limit.
AppliedLimit(s) == IF rates[s.rate] = None THEN Unlimited ELSE rates[s.rate]
=============================================================================
