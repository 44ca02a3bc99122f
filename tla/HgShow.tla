------------------------------- MODULE HgShow -------------------------------
(***************************************************************************)
(* hg_read_all (hg_reader.c), which `hgctl show` prints and poll_all hands *)
(* to hawkgated: two unlocked passes over hg_counters while commands and   *)
(* packets change it, then sort, filter and limit.                         *)
(*                                                                         *)
(* An element of counters stands for the counter, and for the session that *)
(* the reader finds through hg_ip_mac and hg_clients (HgReader has these   *)
(* lookups one by one): st is the status fill_stats reports, bytes the     *)
(* download bytes.                                                         *)
(***************************************************************************)
EXTENDS Integers, Sequences, FiniteSets, SequencesExt

CONSTANTS
  Order,    \* the addresses, in the order in which the map is walked
  Bytes,    \* amounts of download
  Limits,   \* limits a caller may give; 0 is none
  None,     \* "no element"
  MaxChanges \* bound on what happens to the counters during a call

ASSUME OrderAssumption == Order \in Seq(ToSet(Order)) /\ IsInjective(Order)
ASSUME BytesAssumption == Bytes \subseteq Nat /\ Limits \subseteq Nat

VARIABLES
  counters,  \* [IP -> counter or None]
  req,       \* filter and limit of the call, chosen when they are first read
  pc,        \* "idle", "count", "fill", "next", "finish", "done"
  key,       \* the key at hand, None at the start of a pass
  total,     \* entries the first pass counted and allocated
  buf,       \* the entries filled, then the answer
  summary,   \* totals over the entries filled
  churn      \* history: what happened to the counters since the call, in order

showVars == <<counters, req, pc, key, total, buf, summary, churn>>

IP == ToSet(Order)
Status == {"AUTH_OK", "EXPIRE"}
Counter == [st: Status, bytes: Bytes]
ASSUME NoneAssumption == None \notin IP /\ None \notin Counter
Filter == {"ALL", "ACTIVE", "EXPIRED"}
Entry(i, c) == [ip |-> i, st |-> c.st, bytes |-> c.bytes]
Entries(S) == {Entry(i, counters[i]) : i \in S}
Present == {i \in IP : counters[i] # None}
NoTotals == [clients |-> 0, active |-> 0, expired |-> 0]

ShowInit ==
  /\ counters \in [IP -> Counter \cup {None}]
  /\ req = [filter |-> "ALL", limit |-> 0]
  /\ pc = "idle" /\ key = None /\ total = 0 /\ buf = <<>>
  /\ summary = NoTotals /\ churn = <<>>

(***************************************************************************)
(* The map changes under the reader.                                       *)
(***************************************************************************)
Change(i, c, what) ==
  /\ pc \in {"count", "next", "fill"}
  /\ Len(churn) < MaxChanges
  /\ counters' = [counters EXCEPT ![i] = c]
  /\ churn' = Append(churn, what)
  /\ UNCHANGED <<req, pc, key, total, buf, summary>>

AddCounter(i) ==
  counters[i] = None /\ \E c \in Counter : Change(i, c, "added")
RemoveCounter(i) == counters[i] # None /\ Change(i, None, "removed")
Count(i) ==
  /\ counters[i] # None
  /\ \E c \in Counter : c # counters[i] /\ Change(i, c, "changed")

(***************************************************************************)
(* The call.                                                               *)
(***************************************************************************)
ReadAll ==
  /\ pc = "idle"
  /\ pc' = "count"
  /\ UNCHANGED <<counters, req, key, total, buf, summary, churn>>

Place(i) == CHOOSE n \in DOMAIN Order : Order[n] = i

\* bpf_map_get_next_key starts again when the key at hand is gone.
NextKey(k) ==
  LET from == IF k = None \/ counters[k] = None THEN 0 ELSE Place(k)
      ahead == {n \in DOMAIN Order : n > from /\ counters[Order[n]] # None}
  IN  IF ahead = {} THEN None ELSE Order[Min(ahead)]

\* First pass: count the keys, to allocate the table; without any, that is all.
CountKey ==
  /\ pc = "count"
  /\ LET k == NextKey(key) IN
       \/ k # None /\ key' = k /\ total' = total + 1 /\ UNCHANGED pc
       \/ /\ k = None
          /\ key' = None
          /\ pc' = IF total = 0 THEN "done" ELSE "next"
          /\ UNCHANGED total
  /\ UNCHANGED <<counters, req, buf, summary, churn>>

\* Mutant of Room: the table is taken to be large enough.
MRoom == TRUE

\* while (ret == 0 && idx < total)
Room == Len(buf) < total

WalkKey ==
  /\ pc = "next"
  /\ key' = NextKey(key)
  /\ pc' = IF key' # None /\ Room THEN "fill" ELSE "finish"
  /\ UNCHANGED <<counters, req, total, buf, summary, churn>>

Tally(s, st) ==
  [clients |-> s.clients + 1,
   active  |-> s.active + (IF st = "AUTH_OK" THEN 1 ELSE 0),
   expired |-> s.expired + (IF st = "EXPIRE" THEN 1 ELSE 0)]

\* Mutant of FillEntry: a counter that has gone is totalled all the same.
MFillEntry ==
  /\ pc = "fill"
  /\ IF counters[key] = None
     THEN summary' = Tally(summary, "EXPIRE") /\ UNCHANGED buf
     ELSE /\ buf' = Append(buf, Entry(key, counters[key]))
          /\ summary' = Tally(summary, counters[key].st)
  /\ pc' = "next"
  /\ UNCHANGED <<counters, req, key, total, churn>>

\* Second pass: an entry and its share of the totals, unless the counter has
\* gone since its key was found.
FillEntry ==
  /\ pc = "fill"
  /\ IF counters[key] = None THEN UNCHANGED <<buf, summary>>
     ELSE /\ buf' = Append(buf, Entry(key, counters[key]))
          /\ summary' = Tally(summary, counters[key].st)
  /\ pc' = "next"
  /\ UNCHANGED <<counters, req, key, total, churn>>

Matches(r, e) ==
  \/ r.filter = "ALL"
  \/ r.filter = "ACTIVE" /\ e.st = "AUTH_OK"
  \/ r.filter = "EXPIRED" /\ e.st = "EXPIRE"

\* qsort by download, the heaviest first; entries that are equal in any order.
Heaviest(s) ==
  {t \in {[k \in DOMAIN s |-> s[f[k]]] : f \in Bijection(DOMAIN s, DOMAIN s)} :
     \A k \in 1 .. Len(s) - 1 : t[k].bytes >= t[k + 1].bytes}

\* buf[keep++] = buf[i], for each entry i that matches.
Kept(r, s) ==
  LET keep[n \in 0 .. Len(s)] ==
        IF n = 0 THEN <<>>
        ELSE IF Matches(r, s[n]) THEN Append(keep[n - 1], s[n]) ELSE keep[n - 1]
  IN  keep[Len(s)]

FirstOf(n, s) == IF n > 0 /\ Len(s) > n THEN SubSeq(s, 1, n) ELSE s

\* Mutant of Limited: the limit comes before the filter.
MLimited(r, s) == Kept(r, FirstOf(r.limit, s))

\* The entries that match, and of these as many as were asked for.
Limited(r, s) == FirstOf(r.limit, Kept(r, s))

Finish ==
  /\ pc = "finish"
  /\ req' \in [filter : Filter, limit : Limits]
  /\ \E s \in Heaviest(buf) : buf' = Limited(req', s)
  /\ pc' = "done"
  /\ UNCHANGED <<counters, key, total, summary, churn>>

\* The caller has printed the answer.
Shown ==
  /\ pc = "done"
  /\ pc' = "idle" /\ key' = None /\ total' = 0 /\ buf' = <<>>
  /\ summary' = NoTotals /\ churn' = <<>>
  /\ req' = [filter |-> "ALL", limit |-> 0]
  /\ UNCHANGED counters

ShowNext ==
  \/ \E i \in IP : AddCounter(i) \/ RemoveCounter(i) \/ Count(i)
  \/ ReadAll \/ CountKey \/ WalkKey \/ FillEntry \/ Finish \/ Shown

ShowSpec == ShowInit /\ [][ShowNext]_showVars

-----------------------------------------------------------------------------
(***************************************************************************)
(* Properties.                                                             *)
(***************************************************************************)
Listed == {buf[k].ip : k \in DOMAIN buf}
Ready == pc = "done" /\ total > 0

\* hg_read_all never fills more entries than it counted and allocated, whatever
\* is added, or removed so that the walk starts again, between the two passes.
ListFits == Len(buf) <= total

\* A call that nothing disturbs returns the heaviest clients that match, as many
\* as the limit allows ("a sorted, filtered array", hg_reader.h); and a client
\* is returned twice only if a counter was removed during the call.
ListIsFaithful ==
  Ready =>
    /\ churn = <<>> =>
         LET all == {e \in Entries(Present) : Matches(req, e)} IN
           /\ ToSet(buf) \subseteq all
           /\ Len(buf) = IF req.limit > 0 /\ Cardinality(all) > req.limit
                         THEN req.limit ELSE Cardinality(all)
           /\ \A e \in all \ ToSet(buf), k \in DOMAIN buf : buf[k].bytes >= e.bytes
    /\ "removed" \notin ToSet(churn) => Cardinality(Listed) = Len(buf)

\* The totals printed above the table are those of the clients in it: when the
\* table is neither limited nor filtered, or is filtered by status, they agree
\* whatever changed during the call.
SummaryAgrees ==
  Ready /\ req.limit = 0 =>
    Len(buf) = CASE req.filter = "ALL" -> summary.clients
                 [] req.filter = "ACTIVE" -> summary.active
                 [] req.filter = "EXPIRED" -> summary.expired
=============================================================================
