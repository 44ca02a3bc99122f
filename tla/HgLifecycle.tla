----------------------------- MODULE HgLifecycle ----------------------------
(***************************************************************************)
(* The life of the gateway: systemd runs hawkgated (main.cpp), which runs  *)
(* `hgctl stop` and `hgctl start`, which put programs, queueing            *)
(* disciplines and pinned maps into the kernel, where they outlive every   *)
(* process.  Each step of hgctl may fail, an hgctl may be killed alone or  *)
(* with the daemon between two steps, and a signal may arrive at any step  *)
(* of the daemon.                                                          *)
(*                                                                         *)
(* A map, and a loaded object, is known by the number of the start that    *)
(* created it.  What is deleted though it does not exist is no failure,    *)
(* what exists is deleted.  `hgctl start` is not run by hand.              *)
(***************************************************************************)
EXTENDS Integers, Sequences, FiniteSets

CONSTANTS
  MapName,    \* pinned maps, the two named below among them
  MaxFaults,  \* bound: failures and crashes in all
  None

IfbIdx == "hg_ifb_idx"
PortalCfg == "hg_portal_cfg"
Direction == {"ingress", "egress"}
Slot == {"main", "handler"}   \* who has spawned an hgctl

ASSUME MapAssumption == {IfbIdx, PortalCfg} \subseteq MapName
ASSUME FaultAssumption == MaxFaults \in Nat

VARIABLES
  pins,       \* /sys/fs/bpf/hg: map name -> number, or None
  written,    \* {<<name, number>>}: maps start_action has written its entry to
  links,      \* what exists on the interface: "clsact", "fq", "qlen", "ifb", "ifbfq"
  progs,      \* direction -> attached programs, [id, maps]
  hgctl,      \* slot -> [todo, id, rc], or None
  pc,         \* where the daemon's main is; "down": no process
  running,    \* HgServer::running
  wanted,     \* systemctl start, not yet systemctl stop
  status,     \* how the daemon ended: "success", "term" (a signal before there was
              \* a handler), "nostart", "noserver", "killed"
  signalled,  \* history: this daemon has got SIGTERM or SIGINT
  broken,     \* history: what this daemon's environment has cut short.  An hgctl
              \* that was killed, by where main was, or "handler" for the handler's;
              \* "wait" for an epoll_wait that failed
  faults      \* counter of MaxFaults

kernel == <<pins, written, links, progs>>
daemon == <<pc, running, wanted, status, signalled, broken>>
vars == <<kernel, hgctl, daemon, faults>>

Fault == faults < MaxFaults /\ faults' = faults + 1

\* start_action, and what cleanup_on_failure and stop_action undo in their orders.
StartSteps == <<"load", "hook", "ingress", "egress", "qlen", "fq", "ifb", "ifbfq",
                "ifbidx", "portal">>
\* Mutant of StopSteps: the maps stay pinned.
MStopSteps == <<"unhook", "delifb", "unfq", "unqlen">>
StopSteps == <<"unhook", "delifb", "unfq", "unqlen", "unpin">>
\* Mutant of CleanupSteps: the hooks stay, as for a start that failed early.
MCleanupSteps == <<"unpin", "delifb", "unfq", "unqlen">>
CleanupSteps == <<"unhook", "unpin", "delifb", "unfq", "unqlen">>

InUse == {pins[m] : m \in MapName} \cup {p.id : p \in progs.ingress \cup progs.egress}
Fresh == CHOOSE n \in 1 .. Cardinality(InUse) + 1 : n \notin InUse

Starting == [todo |-> StartSteps, id |-> Fresh, rc |-> "SUCCESS"]
Stopping == [todo |-> StopSteps, id |-> 0, rc |-> "SUCCESS"]
Ended(s) == hgctl[s] # None /\ hgctl[s].todo = <<>>
At(s, step) == hgctl[s] # None /\ hgctl[s].todo # <<>> /\ Head(hgctl[s].todo) = step
Advance(s) == hgctl' = [hgctl EXCEPT ![s].todo = Tail(@)]
Advanced(s) == Advance(s) /\ UNCHANGED <<daemon, faults>>

Init ==
  /\ pins = [m \in MapName |-> None]
  /\ written = {}
  /\ links = {}
  /\ progs = [d \in Direction |-> {}]
  /\ hgctl = [s \in Slot |-> None]
  /\ pc = "down" /\ running = FALSE /\ wanted = FALSE
  /\ status = "success" /\ signalled = FALSE /\ broken = {}
  /\ faults = 0

(***************************************************************************)
(* hgctl start.                                                            *)
(***************************************************************************)
\* Loading takes a map that is pinned as it is and pins a new one otherwise.
PinMap(s) ==
  /\ At(s, "load")
  /\ \E m \in MapName :
       /\ pins[m] = None
       /\ pins' = [pins EXCEPT ![m] = hgctl[s].id]
       /\ written' = written \ {<<m, hgctl[s].id>>}
  /\ UNCHANGED <<links, progs, hgctl, daemon, faults>>

Load(s) ==
  /\ At(s, "load")
  /\ \A m \in MapName : pins[m] # None
  /\ UNCHANGED kernel
  /\ Advanced(s)

\* No interface, no pin directory, no object, or a load error: libbpf unpins
\* what it has created, and there is nothing else to clean up.
LoadFails(s) ==
  /\ At(s, "load")
  /\ Fault
  /\ pins' = [m \in MapName |-> IF pins[m] = hgctl[s].id THEN None ELSE pins[m]]
  /\ hgctl' = [hgctl EXCEPT ![s] = [todo |-> <<>>, id |-> @.id, rc |-> "FAILED"]]
  /\ UNCHANGED <<written, links, progs, daemon>>

\* clsact, which may be there already; the queue length; fq on the bridge.
AddLink(s) ==
  /\ \E step \in {"hook", "qlen", "fq"} :
       /\ At(s, step)
       /\ links' = links \cup {IF step = "hook" THEN "clsact" ELSE step}
  /\ UNCHANGED <<pins, written, progs>>
  /\ Advanced(s)

\* Each attach adds a filter beside those that are there.
Attach(s) ==
  /\ \E d \in Direction :
       /\ At(s, d)
       /\ progs' = [progs EXCEPT ![d] = @ \cup {[id |-> hgctl[s].id, maps |-> pins]}]
  /\ UNCHANGED <<pins, written, links>>
  /\ Advanced(s)

\* Best effort: nobody looks whether the link was made.
AddIfb(s) ==
  /\ At(s, "ifb")
  /\ \/ links' = links \cup {"ifb"} /\ UNCHANGED faults
     \/ UNCHANGED links /\ Fault
  /\ Advance(s)
  /\ UNCHANGED <<pins, written, progs, daemon>>

IfbQueue(s) ==
  /\ At(s, "ifbfq")
  /\ "ifb" \in links
  /\ links' = links \cup {"ifbfq"}
  /\ UNCHANGED <<pins, written, progs>>
  /\ Advanced(s)

\* The interface's index, the portal's address: into the map that is pinned.
WriteMap(s) ==
  /\ \E step \in {<<"ifbidx", IfbIdx>>, <<"portal", PortalCfg>>} :
       /\ At(s, step[1])
       /\ pins[step[2]] # None
       /\ written' = written \cup {<<step[2], pins[step[2]]>>}
  /\ UNCHANGED <<pins, links, progs>>
  /\ Advanced(s)

\* cleanup_on_failure; fq on an interface that is not there always fails.
StartFails(s) ==
  /\ \/ \E step \in {"hook", "ingress", "egress", "qlen", "fq", "ifbfq", "ifbidx", "portal"} :
          At(s, step) /\ Fault
     \/ At(s, "ifbfq") /\ "ifb" \notin links /\ UNCHANGED faults
  /\ hgctl' = [hgctl EXCEPT ![s] = [todo |-> CleanupSteps, id |-> @.id, rc |-> "FAILED"]]
  /\ UNCHANGED <<kernel, daemon>>

(***************************************************************************)
(* hgctl stop, and the clean-up.                                           *)
(***************************************************************************)
\* The filters go with the qdisc they hang on.
Unhook(s) ==
  /\ At(s, "unhook")
  /\ links' = links \ {"clsact"}
  /\ progs' = [d \in Direction |-> {}]
  /\ UNCHANGED <<pins, written>>
  /\ Advanced(s)

DelLink(s) ==
  /\ \E step \in {<<"delifb", {"ifb", "ifbfq"}>>, <<"unfq", {"fq"}>>, <<"unqlen", {"qlen"}>>} :
       /\ At(s, step[1])
       /\ links' = links \ step[2]
  /\ UNCHANGED <<pins, written, progs>>
  /\ Advanced(s)

\* hg_clean_maps unlinks the pins one by one.
UnpinMap(s) ==
  /\ At(s, "unpin")
  /\ \E m \in MapName : pins[m] # None /\ pins' = [pins EXCEPT ![m] = None]
  /\ UNCHANGED <<written, links, progs, hgctl, daemon, faults>>

Unpinned(s) ==
  /\ At(s, "unpin")
  /\ \A m \in MapName : pins[m] = None
  /\ UNCHANGED kernel
  /\ Advanced(s)

StartStep(s) ==
  \/ PinMap(s) \/ Load(s) \/ LoadFails(s) \/ AddLink(s) \/ Attach(s) \/ AddIfb(s)
  \/ IfbQueue(s) \/ WriteMap(s) \/ StartFails(s)
StopStep(s) == Unhook(s) \/ DelLink(s) \/ UnpinMap(s) \/ Unpinned(s)

\* It is killed, or it could not be run at all: exec_cmd reports a failure.
Kill(s) ==
  /\ hgctl[s] # None /\ hgctl[s].todo # <<>>
  /\ Fault
  /\ hgctl' = [hgctl EXCEPT ![s] = [todo |-> <<>>, id |-> @.id, rc |-> "FAILED"]]
  /\ broken' = broken \cup {IF s = "main" THEN pc ELSE s}
  /\ UNCHANGED <<kernel, pc, running, wanted, status, signalled>>

(***************************************************************************)
(* main.  It stands still while the signal handler waits for its hgctl.    *)
(***************************************************************************)
Handling == hgctl["handler"] # None
MainAt(l) == pc = l /\ ~Handling
Main(cmd) == hgctl' = [hgctl EXCEPT !["main"] = cmd]

\* The process is gone, and systemd kills what is left of its children.
Exit(how) ==
  /\ pc' = "down"
  /\ status' = how
  /\ running' = FALSE
  /\ hgctl' = [s \in Slot |-> None]

\* load_config, then start_hgctl, which first stops whatever a crash has left.
LoadConfig ==
  /\ MainAt("boot")
  /\ \/ Main(Stopping) /\ pc' = "clean" /\ UNCHANGED <<running, status, faults>>
     \/ Exit("noserver") /\ Fault
  /\ UNCHANGED <<kernel, wanted, signalled, broken>>

StopDone ==
  /\ MainAt("clean") /\ Ended("main")
  /\ Main(Starting)
  /\ pc' = "start"
  /\ UNCHANGED <<kernel, running, wanted, status, signalled, broken, faults>>

\* Mutant of StartDone: the exit status says that all is well.
MStartDone ==
  /\ MainAt("start") /\ Ended("main")
  /\ \/ hgctl["main"].rc = "SUCCESS" /\ Main(None) /\ pc' = "rules" /\ UNCHANGED <<running, status>>
     \/ hgctl["main"].rc = "FAILED" /\ Exit("success")
  /\ UNCHANGED <<kernel, wanted, signalled, broken, faults>>

StartDone ==
  /\ MainAt("start") /\ Ended("main")
  /\ \/ hgctl["main"].rc = "SUCCESS" /\ Main(None) /\ pc' = "rules" /\ UNCHANGED <<running, status>>
     \/ hgctl["main"].rc = "FAILED" /\ Exit("nostart")
  /\ UNCHANGED <<kernel, wanted, signalled, broken, faults>>

\* The rules of the configuration are HgPolicy's.  Without its socket the
\* daemon gives up, and leaves the kernel as it is.
InitServer ==
  /\ MainAt("rules")
  /\ \/ pc' = "listening" /\ UNCHANGED <<running, status, hgctl, faults>>
     \/ Exit("noserver") /\ Fault
  /\ UNCHANGED <<kernel, wanted, signalled, broken>>

InstallHandlers ==
  /\ MainAt("listening")
  /\ pc' = "handlers"
  /\ UNCHANGED <<kernel, hgctl, running, wanted, status, signalled, broken, faults>>

EnterRun ==
  /\ MainAt("handlers")
  /\ running' = TRUE
  /\ pc' = "test"
  /\ UNCHANGED <<kernel, hgctl, wanted, status, signalled, broken, faults>>

\* Mutant of TestRunning: main leaves the last stop to the signal handler.
MTestRunning ==
  /\ MainAt("test")
  /\ \/ running /\ pc' = "wait" /\ UNCHANGED <<running, status, hgctl>>
     \/ ~running /\ Exit("success")
  /\ UNCHANGED <<kernel, wanted, signalled, broken, faults>>

\* while (running), and behind the loop the last stop.
TestRunning ==
  /\ MainAt("test")
  /\ \/ running /\ pc' = "wait" /\ UNCHANGED hgctl
     \/ ~running /\ pc' = "leave" /\ Main(Stopping)
  /\ UNCHANGED <<kernel, running, wanted, status, signalled, broken, faults>>

\* epoll_wait returns events.
Wake ==
  /\ MainAt("wait")
  /\ pc' = "test"
  /\ UNCHANGED <<kernel, hgctl, running, wanted, status, signalled, broken, faults>>

\* epoll_wait fails for another reason than a signal: run is left.
EpollFails ==
  /\ MainAt("wait")
  /\ Fault
  /\ pc' = "leave" /\ Main(Stopping)
  /\ broken' = broken \cup {"wait"}
  /\ UNCHANGED <<kernel, running, wanted, status, signalled>>

\* Whatever the last stop has come to.
Leave ==
  /\ MainAt("leave") /\ Ended("main")
  /\ Exit("success")
  /\ UNCHANGED <<kernel, wanted, signalled, broken, faults>>

MainStep == LoadConfig \/ StopDone \/ StartDone \/ InitServer \/ InstallHandlers \/ EnterRun
            \/ TestRunning \/ Leave

(***************************************************************************)
(* Signals.  One that comes before its handler is there ends the process.  *)
(***************************************************************************)
Early == {"boot", "clean", "start", "rules", "listening"}

\* SIGTERM of systemctl stop, or of kill; once for each daemon.
Signal ==
  /\ pc # "down" /\ ~signalled
  /\ wanted' \in {wanted, FALSE}
  /\ signalled' = TRUE
  /\ \/ pc \in Early /\ Exit("term")
     \/ /\ pc \notin Early
        /\ running' = FALSE
        /\ hgctl' = [hgctl EXCEPT !["handler"] = Stopping]
        /\ UNCHANGED <<pc, status>>
  /\ UNCHANGED <<kernel, broken, faults>>

\* Mutant of HandlerDone: epoll_wait is restarted.
MHandlerDone ==
  /\ Ended("handler")
  /\ hgctl' = [hgctl EXCEPT !["handler"] = None]
  /\ UNCHANGED <<kernel, pc, running, wanted, status, signalled, broken, faults>>

\* An interrupted epoll_wait returns EINTR.
HandlerDone ==
  /\ Ended("handler")
  /\ hgctl' = [hgctl EXCEPT !["handler"] = None]
  /\ pc' = IF pc = "wait" THEN "test" ELSE pc
  /\ UNCHANGED <<kernel, running, wanted, status, signalled, broken, faults>>

Crash ==
  /\ pc # "down"
  /\ Fault
  /\ Exit("killed")
  /\ UNCHANGED <<kernel, wanted, signalled, broken>>

(***************************************************************************)
(* systemd: Restart=on-failure, for which death by SIGTERM is a success.   *)
(***************************************************************************)
Boot ==
  /\ pc = "down"
  /\ pc' = "boot"
  /\ signalled' = FALSE /\ broken' = {}
  /\ UNCHANGED <<kernel, hgctl, running, status, faults>>

Failed == status \notin {"success", "term"}
SystemctlStart == wanted' = TRUE /\ (~wanted \/ ~Failed) /\ Boot
Restart == wanted /\ UNCHANGED wanted /\ Failed /\ Boot

Next ==
  \/ \E s \in Slot : StartStep(s) \/ StopStep(s) \/ Kill(s)
  \/ MainStep \/ Wake \/ EpollFails \/ Signal \/ HandlerDone \/ Crash
  \/ SystemctlStart \/ Restart

Spec == Init /\ [][Next]_vars

\* Processes that can run do: hgctl waits for nobody, main and the handler for
\* their hgctl, and systemd restarts after five seconds.  Nothing is assumed of
\* signals, of clients that would wake epoll_wait, or of operators.
FairSpec ==
  /\ Spec
  /\ \A s \in Slot : WF_vars(StartStep(s) \/ StopStep(s))
  /\ WF_vars(MainStep) /\ WF_vars(HandlerDone) /\ WF_vars(Restart)

-----------------------------------------------------------------------------
(***************************************************************************)
(* Properties.                                                             *)
(***************************************************************************)
Program(n) == [id |-> n, maps |-> [m \in MapName |-> n]]
Detached == links = {} /\ \A d \in Direction : progs[d] = {}

\* From start_hgctl on, a daemon nobody has signalled works on the programs its
\* own start has attached, alone on their hooks, with the maps that are pinned,
\* all new: what a crash, or a start that was cut short, has left is gone.  Only
\* a killed first stop, whose result start_hgctl ignores, may leave something.
ServingIsEnforced ==
  (/\ pc \in {"rules", "listening", "handlers", "test", "wait"} /\ ~signalled
   /\ "clean" \notin broken) =>
    \E n \in {pins[PortalCfg]} :
      /\ \A m \in MapName : pins[m] = n
      /\ \A d \in Direction : progs[d] = {Program(n)}
      /\ {<<IfbIdx, n>>, <<PortalCfg, n>>} \subseteq written
      /\ links = {"clsact", "qlen", "fq", "ifb", "ifbfq"}

\* A daemon that left run, on a signal or because epoll_wait failed, and one
\* whose hgctl start failed, has left neither program, qdisc nor map ("cleaned up
\* partial state after failure", hg_control.c), unless an hgctl that should have
\* removed them was itself killed.
EndIsClean ==
  (/\ pc = "down"
   /\ \/ status = "success" /\ "leave" \notin broken
      \/ status = "nostart" /\ broken \cap {"clean", "start"} = {}) =>
    Detached /\ \A m \in MapName : pins[m] = None

\* A daemon that systemd is told to run comes to serve: after every failed or
\* killed start, missing socket and crash there is another, unless it is signalled
\* or has left run and so has told systemd that all is well.
Recovers == (wanted /\ ~signalled) ~> (pc = "wait" \/ signalled \/ "wait" \in broken)

\* A signal ends a daemon that serves, with everything detached, though it must
\* be interrupted in epoll_wait or tell main through running.  One that comes
\* between the test of running and epoll_wait is only noticed at the next events.
\* Of the two stops, the handler's and main's, one may be killed.
Ends == pc = "down" /\ (Detached \/ status = "killed" \/ {"handler", "leave"} \subseteq broken)
SignalEndsLoop ==
  /\ (pc = "wait" /\ Handling) ~> Ends
  /\ []<>(pc # "wait") => ((pc = "test" /\ Handling) ~> Ends)

\* Does not hold for signals at start-up (README): "Graceful shutdown on
\* SIGTERM/SIGINT -- detaches BPF hooks cleanly" (CHANGELOG.md).
SignalDetaches == (pc = "down" /\ signalled) => Detached \/ status = "killed"
=============================================================================
