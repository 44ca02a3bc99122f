------------------------------ MODULE HgReader ------------------------------
(***************************************************************************)
(* A page request beside the running gateway: hawkgated finds out by       *)
(* hg_read_one (hg_reader.c) whether the device that asks is an active     *)
(* client, and shows the login page if it is not (poll_one, handle_portal, *)
(* handle_capport).  The reader takes no lock: it looks three maps up one  *)
(* after the other while packets and commands change them.                 *)
(***************************************************************************)
EXTENDS HgGateway

VARIABLES
  rd,      \* the request hawkgated is serving
  raced    \* history: an add has met the expiry of the same client

allVars == <<vars, rd, raced>>

(***************************************************************************)
(* pc is the next lookup:                                                  *)
(*   counter  hg_counters    owner   hg_ip_mac      client  hg_clients     *)
(*   expiry   is_expired     answer  the page is chosen                    *)
(* mac and ip are those of the device that asks, st the status that the    *)
(* reader reports, sess the session it found.  had and gap are history:    *)
(* see the properties.                                                     *)
(***************************************************************************)
NoRead == [pc |-> "idle", mac |-> None, ip |-> None, st |-> "none",
           own |-> None, sess |-> None, had |-> FALSE, gap |-> FALSE]

ReaderInit == Init /\ rd = NoRead /\ raced = FALSE

(***************************************************************************)
(* History: the device has a session that is valid or just being removed,  *)
(* or has left its address; it has no session that lasts, or one that is   *)
(* just being added.                                                       *)
(***************************************************************************)
Removing(m, i) ==
  \/ \E c \in CPU : cpu[c].pc = "mark" /\ cpu[c].ip = i
  \/ \E p \in Proc : ctl[p].pc \in {"unbind", "uncounter"} /\ ctl[p].mac = m
Adding(m) ==
  \E p \in Proc : ctl[p].pc \in {"client", "counter", "rollback"} /\ ctl[p].mac = m
Expiring(m) == \E c \in CPU : cpu[c].pc \in {"expiry", "expire", "mark"} /\ cpu[c].mac = m

Authorised(m, i) ==
  (clients[m] # None /\ ValidAt(clients[m], now)) \/ Removing(m, i) \/ addr[m] # i
Unauthorised(m) == clients[m] = None \/ ~ValidAt(clients[m], now + 1) \/ Adding(m)

\* A step of the gateway, as the history of the request sees it.
Watched ==
  /\ raced' = (raced \/ \E m \in MAC : Adding(m)' /\ Expiring(m)')
  /\ rd' = IF rd.pc = "idle" THEN rd ELSE
       [rd EXCEPT
          !.had = @ \/ \E m \in MAC, i \in IP : m = rd.mac /\ i = rd.ip /\ Authorised(m, i)',
          !.gap = @ \/ \E m \in MAC : m = rd.mac /\ Unauthorised(m)']

\* hawkgated has one thread: it serves one page or one login at a time.
DaemonFree == Daemon \in Proc => ctl[Daemon].pc = "idle"

PageRequest(m) ==
  /\ rd.pc = "idle" /\ DaemonFree
  /\ m \in heard
  /\ rd' = [NoRead EXCEPT !.pc = "counter", !.mac = m, !.ip = addr[m],
                          !.had = Authorised(m, addr[m]), !.gap = Unauthorised(m)]
  /\ UNCHANGED <<vars, raced>>

\* Without a counter the address is not a client's: poll_one fails.
LookCounter ==
  /\ rd.pc = "counter"
  /\ rd' = IF counters[rd.ip] = None THEN [rd EXCEPT !.pc = "answer"]
           ELSE [rd EXCEPT !.st = counters[rd.ip], !.pc = "owner"]
  /\ UNCHANGED <<vars, raced>>

LookOwner ==
  /\ rd.pc = "owner"
  /\ rd' = [rd EXCEPT !.own = ip_mac[rd.ip],
                      !.pc = IF ip_mac[rd.ip] = None THEN "expiry" ELSE "client"]
  /\ UNCHANGED <<vars, raced>>

\* A client that is not there is read as one that never expires.
LookClient ==
  /\ rd.pc = "client"
  /\ rd' = [rd EXCEPT !.sess = clients[rd.own], !.pc = "expiry"]
  /\ UNCHANGED <<vars, raced>>

\* Mutant of ReadsExpired: the session's own expiry is not looked at.
MReadsExpired(s) == FALSE

\* is_expired: the moment of expiry counts, unlike in the kernel.
ReadsExpired(s) == s # None /\ s.expiry # 0 /\ s.expiry <= now

\* Mutant of FillStats: any session that has an expiry counts as expired.
MFillStats ==
  /\ rd.pc = "expiry"
  /\ rd' = [rd EXCEPT !.pc = "answer",
              !.st = IF rd.sess # None /\ rd.sess.expiry # 0 THEN "EXPIRE" ELSE @]
  /\ UNCHANGED <<vars, raced>>

\* fill_stats: an expiry takes priority over the status of the counter.
FillStats ==
  /\ rd.pc = "expiry"
  /\ rd' = [rd EXCEPT !.pc = "answer",
                      !.st = IF ReadsExpired(rd.sess) THEN "EXPIRE" ELSE @]
  /\ UNCHANGED <<vars, raced>>

\* handle_portal, handle_capport: there is no login page for an active client.
LoginPage == rd.st # "AUTH_OK"

Answer ==
  /\ rd.pc = "answer"
  /\ rd' = NoRead
  /\ UNCHANGED <<vars, raced>>

Reading ==
  \/ \E m \in MAC : PageRequest(m)
  \/ LookCounter \/ LookOwner \/ LookClient \/ FillStats \/ Answer

GatewayStep ==
  /\ Next
  /\ rd.pc # "idle" => DaemonFree'
  /\ Watched

ReaderSpec == ReaderInit /\ [][Reading \/ GatewayStep]_allVars

-----------------------------------------------------------------------------
(***************************************************************************)
(* Properties.                                                             *)
(***************************************************************************)
Answers == rd.pc = "answer"

\* "The portal responds with 307 Temporary Redirect": the login page is hidden
\* only from a device that had a session at some moment of its request (or that
\* has lost its address meanwhile), although hg_read_one reads map after map and
\* takes a client that it does not find for one that never expires; unless an add
\* has met the expiry of the same client.
LoginPageOffered == Answers /\ ~LoginPage /\ ~raced => rd.had

\* A device whose session outlives its request is not asked to log in again,
\* although the reader counts a session as expired one instant before the
\* kernel does (is_expired); with the same exception.
ClientsAreNotAsked == Answers /\ LoginPage /\ ~raced => rd.gap
=============================================================================
