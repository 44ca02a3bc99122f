------------------------------- MODULE HgEdt --------------------------------
(***************************************************************************)
(* apply_edt_shaping of hg_tc.bpf.c, for the packets of one client, on     *)
(* several CPUs: the rate profile and the clock are read before the spin   *)
(* lock of the client's element is taken, the departure time is computed   *)
(* and stored under it.  Meanwhile hgctl may give the profile other rates, *)
(* remove it, and delete or replace the element; a CPU that looked the     *)
(* element up before goes on with the old one.  An element that has been   *)
(* unlinked is not modelled as reused.                                     *)
(***************************************************************************)
EXTENDS Integers

CONSTANTS
  CPU,
  Elem,       \* elements of hg_clients the client may get; bound on `add`s
  Dir,        \* directions that occur: "up", "down"
  Len,        \* packet lengths
  Rate,       \* rates of a profile, 0 for none
  Scale,      \* NSEC_PER_SEC
  Horizon,    \* HG_HORIZON_NS, the horizon of every profile
  MaxTime,    \* bound: the clock stops here
  MaxQueue,   \* bound: no download joins a queue this long
  Watched,    \* the element whose uploads are compared with HgPacer
  None

ASSUME EdtConstants ==
  /\ Dir \subseteq {"up", "down"} /\ "up" \in Dir
  /\ Len \subseteq Nat /\ Rate \subseteq Nat /\ Scale \in Nat
  /\ Horizon \in Nat /\ MaxTime \in Nat /\ MaxQueue \in Nat
  /\ Watched \in Elem
  /\ None \notin Elem \cup CPU \cup Nat

VARIABLES
  now,      \* bpf_ktime_get_ns
  profile,  \* [Dir -> Rate], the client's entry of hg_rates; 0 if none
  cur,      \* the element linked in hg_clients, or None
  adding,   \* the clock reading of an hgctl add under way, or None
  last,     \* last[e]: last_u_tstamp and last_d_tstamp
  holder,   \* holder[e]: the CPU that has the spin lock, or None
  job,      \* what each CPU does
  used,     \* history: elements that have been linked
  start,    \* history: the clock reading an element was made with
  paced     \* history: transmission time admitted on an element

history == <<used, start, paced>>
vars == <<now, profile, cur, adding, last, holder, job, history>>

\* The steps of apply_edt_shaping; load to unlock hold the lock.
Locked == {"load", "store", "unlock"}
Clocked == {"lock"} \cup Locked
JobPc == {"idle", "rate", "clock"} \cup Clocked

Job == [pc: JobPc, el: Elem \cup {None}, dir: Dir, delay: Nat, t: Nat, next: Nat]
NoJob == [pc |-> "idle", el |-> None, dir |-> "up", delay |-> 0, t |-> 0, next |-> 0]

TypeOK ==
  /\ now \in Nat
  /\ profile \in [Dir -> Rate \cup {0}]
  /\ cur \in Elem \cup {None}
  /\ adding \in Nat \cup {None}
  /\ last \in [Elem -> [Dir -> Nat]]
  /\ holder \in [Elem -> CPU \cup {None}]
  /\ job \in [CPU -> Job]
  /\ \A c \in CPU : job[c].pc # "idle" => job[c].el \in Elem
  /\ used \in SUBSET Elem
  /\ start \in [Elem -> Nat]
  /\ paced \in [Elem -> [Dir -> Nat]]

Init ==
  /\ now = 0
  /\ profile = [d \in Dir |-> 0]
  /\ cur = None
  /\ adding = None
  /\ last = [e \in Elem |-> [d \in Dir |-> 0]]
  /\ holder = [e \in Elem |-> None]
  /\ job = [c \in CPU |-> NoJob]
  /\ used = {}
  /\ start = [e \in Elem |-> 0]
  /\ paced = [e \in Elem |-> [d \in Dir |-> 0]]

Tick ==
  /\ now < MaxTime
  /\ now' = now + 1
  /\ UNCHANGED <<profile, cur, adding, last, holder, job, history>>

(***************************************************************************)
(* hgctl.                                                                  *)
(***************************************************************************)
AddReadClock ==
  /\ adding = None
  /\ adding' = now
  /\ UNCHANGED <<now, profile, cur, last, holder, job, history>>

\* bpf_map_update_elem links a new element and unlinks the old one.
AddInsert ==
  /\ adding # None
  /\ \E e \in Elem \ used :
       /\ cur' = e
       /\ used' = used \cup {e}
       /\ last' = [last EXCEPT ![e] = [d \in Dir |-> adding]]
       /\ start' = [start EXCEPT ![e] = adding]
       /\ paced' = [paced EXCEPT ![e] = [d \in Dir |-> 0]]
  /\ adding' = None
  /\ UNCHANGED <<now, profile, holder, job>>

SetProfile ==
  /\ profile' \in [Dir -> Rate]
  /\ UNCHANGED <<now, cur, adding, last, holder, job, history>>

DeleteProfile ==
  /\ profile' = [d \in Dir |-> 0]
  /\ UNCHANGED <<now, cur, adding, last, holder, job, history>>

\* Also what expiry does.
DeleteClient ==
  /\ cur # None
  /\ cur' = None
  /\ UNCHANGED <<now, profile, adding, last, holder, job, history>>

(***************************************************************************)
(* The packet path.                                                        *)
(***************************************************************************)
Goto(c, l) == job' = [job EXCEPT ![c].pc = l]

\* The program of CPU c has looked the client up.
Enter(c, d) ==
  /\ job[c].pc = "idle"
  /\ cur # None
  /\ d = "down" => last[cur][d] <= MaxQueue
  /\ job' = [job EXCEPT ![c] = [NoJob EXCEPT !.pc = "rate", !.el = cur, !.dir = d]]
  /\ UNCHANGED <<now, profile, cur, adding, last, holder, history>>

\* len * NSEC_PER_SEC / rate
DelayOf(l, r) == (l * Scale) \div r

ReadRate(c) ==
  /\ job[c].pc = "rate"
  /\ LET r == profile[job[c].dir] IN
       \/ r = 0 /\ job' = [job EXCEPT ![c] = NoJob]
       \/ /\ r # 0
          /\ \E l \in Len :
               job' = [job EXCEPT ![c].pc = "clock", ![c].delay = DelayOf(l, r)]
  /\ UNCHANGED <<now, profile, cur, adding, last, holder, history>>

ReadClock(c) ==
  /\ job[c].pc = "clock"
  /\ job' = [job EXCEPT ![c].pc = "lock", ![c].t = now]
  /\ UNCHANGED <<now, profile, cur, adding, last, holder, history>>

\* Mutant of Lock: there is no spin lock.
MLock(c) ==
  /\ job[c].pc = "lock"
  /\ holder' = [holder EXCEPT ![job[c].el] = c]
  /\ Goto(c, "load")
  /\ UNCHANGED <<now, profile, cur, adding, last, history>>

Lock(c) ==
  /\ job[c].pc = "lock"
  /\ holder[job[c].el] = None
  /\ holder' = [holder EXCEPT ![job[c].el] = c]
  /\ Goto(c, "load")
  /\ UNCHANGED <<now, profile, cur, adding, last, history>>

\* Mutant of Departure: a packet that finds the line idle is not charged.
MDeparture(t, l, d) == IF t > l THEN t ELSE l + d

\* Mutant of Departure: the delay from now, not the time, is computed.
MRelative(t, l, d) == IF t > l THEN d ELSE l - t - d

\* now > last_ts ? now + delay : last_ts + delay
Departure(t, l, d) == IF t > l THEN t + d ELSE l + d

\* Mutant of TooDeep: the backlog without the packet itself is compared.
MTooDeep(j, next) == j.dir = "up" /\ next - j.t - j.delay > Horizon

\* is_upload && next_tstamp - now > cfg->horizon_ns
TooDeep(j, next) == j.dir = "up" /\ next - j.t > Horizon

Load(c) ==
  /\ job[c].pc = "load"
  /\ LET j == job[c]
         next == Departure(j.t, last[j.el][j.dir], j.delay)
     IN \/ TooDeep(j, next) /\ Goto(c, "unlock")
        \/ ~TooDeep(j, next) /\ job' = [job EXCEPT ![c].pc = "store", ![c].next = next]
  /\ UNCHANGED <<now, profile, cur, adding, last, holder, history>>

Store(c) ==
  /\ job[c].pc = "store"
  /\ last' = [last EXCEPT ![job[c].el][job[c].dir] = job[c].next]
  /\ paced' = [paced EXCEPT ![job[c].el][job[c].dir] = @ + job[c].delay]
  /\ Goto(c, "unlock")
  /\ UNCHANGED <<now, profile, cur, adding, holder, used, start>>

Unlock(c) ==
  /\ job[c].pc = "unlock"
  /\ holder' = [holder EXCEPT ![job[c].el] = None]
  /\ job' = [job EXCEPT ![c] = NoJob]
  /\ UNCHANGED <<now, profile, cur, adding, last, history>>

Shaper(c) ==
  \/ ReadRate(c) \/ ReadClock(c) \/ Lock(c) \/ Load(c) \/ Store(c) \/ Unlock(c)

Next ==
  \/ Tick \/ AddReadClock \/ AddInsert \/ SetProfile \/ DeleteProfile \/ DeleteClient
  \/ \E c \in CPU : Shaper(c) \/ \E d \in Dir : Enter(c, d)

Spec == Init /\ [][Next]_vars

-----------------------------------------------------------------------------
(***************************************************************************)
(* Properties.                                                             *)
(***************************************************************************)
\* Uploads are never queued past the horizon ("explicit drop when burst depth >
\* horizon_ns", apply_edt_shaping), however late a CPU comes with its clock
\* reading.
BacklogBounded == \A e \in used : last[e]["up"] <= now + Horizon

\* The rate is kept: all the transmission time admitted on an element since it
\* was made lies between that moment and the last departure.  With
\* BacklogBounded, uploads never exceed the elapsed time and one horizon.
RateConforms ==
  \A e \in used, d \in Dir : start[e] + paced[e][d] <= last[e][d]

(***************************************************************************)
(* The inductive invariant behind the two: what a CPU carries from step to *)
(* step of apply_edt_shaping is still so, thanks to the lock.              *)
(***************************************************************************)
OnUsedElements ==
  /\ \A c \in CPU : job[c].pc # "idle" => job[c].el \in used
  /\ cur # None => cur \in used
LockHeld == \A c \in CPU : job[c].pc \in Locked => holder[job[c].el] = c
ClocksPast ==
  /\ \A c \in CPU : job[c].pc \in Clocked => job[c].t <= now
  /\ adding # None => adding <= now
\* The departure a CPU is about to store still follows from the last one.
Computed ==
  \A c \in CPU : job[c].pc = "store" =>
    /\ job[c].next = Departure(job[c].t, last[job[c].el][job[c].dir], job[c].delay)
    /\ ~TooDeep(job[c], job[c].next)

EdtInv ==
  OnUsedElements /\ LockHeld /\ ClocksPast /\ Computed /\ BacklogBounded /\ RateConforms

\* Departure times of an element never go back, so FQ keeps packets in order.
DeparturesInOrder ==
  [][\A e \in used, d \in Dir : last'[e][d] >= last[e][d]]_vars

\* The uploads on any one element are a line as HgPacer specifies it.
Delays == {DelayOf(l, r) : l \in Len, r \in Rate \ {0}}
Pacer == INSTANCE HgPacer WITH Delay <- Delays, clock <- now, start <- start[Watched],
                               free <- last[Watched]["up"], paced <- paced[Watched]["up"]
ImplementsPacer == Pacer!Spec
=============================================================================
