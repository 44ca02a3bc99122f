-------------------------- MODULE HgLifecycleProofs --------------------------
(***************************************************************************)
(* Proofs about HgLifecycle, for any maps and any number of failures and   *)
(* crashes.                                                                *)
(***************************************************************************)
EXTENDS HgLifecycle, TLAPS

-----------------------------------------------------------------------------
(***************************************************************************)
(* What an hgctl has left to do, when it has come to its k-th step.        *)
(***************************************************************************)
Rest(steps, k) == SubSeq(steps, k, Len(steps))

LEMMA RestMoves ==
  ASSUME NEW S, NEW steps \in Seq(S), NEW k \in 1 .. Len(steps) + 1
  PROVE  /\ Rest(steps, k) = <<>> <=> k = Len(steps) + 1
         /\ k <= Len(steps) => /\ Head(Rest(steps, k)) = steps[k]
                               /\ Tail(Rest(steps, k)) = Rest(steps, k + 1)
<1>1. Rest(steps, k) = [i \in 1 .. Len(steps) - k + 1 |-> steps[i + k - 1]]
  BY SMT DEF Rest
<1>2. Len(Rest(steps, k)) = Len(steps) - k + 1
  BY SMT DEF Rest
<1>3. Rest(steps, k) = <<>> <=> k = Len(steps) + 1
  BY <1>2, SMT DEF Rest
<1>4. ASSUME k <= Len(steps) PROVE Head(Rest(steps, k)) = steps[k]
  BY <1>1, <1>4, SMT
<1>5. ASSUME k <= Len(steps) PROVE Tail(Rest(steps, k)) = Rest(steps, k + 1)
  BY <1>5, SMT DEF Rest
<1> QED
  BY <1>3, <1>4, <1>5

StepName == {"load", "hook", "ingress", "egress", "qlen", "fq", "ifb", "ifbfq", "ifbidx",
             "portal", "unhook", "delifb", "unfq", "unqlen", "unpin"}

LEMMA Programs ==
  /\ StartSteps \in Seq(StepName) /\ Len(StartSteps) = 10
  /\ StopSteps \in Seq(StepName) /\ Len(StopSteps) = 5
  /\ CleanupSteps \in Seq(StepName) /\ Len(CleanupSteps) = 5
<1>1. StartSteps \in Seq(StepName) /\ Len(StartSteps) = 10
  BY SMT DEF StartSteps, StepName
<1>2. StopSteps \in Seq(StepName) /\ Len(StopSteps) = 5
  BY SMT DEF StopSteps, StepName
<1>3. CleanupSteps \in Seq(StepName) /\ Len(CleanupSteps) = 5
  BY SMT DEF CleanupSteps, StepName
<1> QED
  BY <1>1, <1>2, <1>3

LEMMA FirstStep ==
  ASSUME NEW S, NEW steps \in Seq(S)
  PROVE  Rest(steps, 1) = steps
  BY SMT DEF Rest

-----------------------------------------------------------------------------
(***************************************************************************)
(* The invariant.                                                          *)
(***************************************************************************)
Shape ==
  /\ pins = [m \in MapName |-> pins[m]]
  /\ progs = [d \in Direction |-> progs[d]]
  /\ DOMAIN hgctl = Slot
  /\ links \subseteq {"clsact", "qlen", "fq", "ifb", "ifbfq"}

\* main runs an hgctl in three places, the handler after a signal; no process
\* outlives the daemon.
OnlyThere ==
  /\ pc \notin {"clean", "start", "leave"} => hgctl["main"] = None
  /\ hgctl["handler"] # None => signalled /\ pc \notin Early /\ pc # "down"

Unhooked == "clsact" \notin links /\ \A d \in Direction : progs[d] = {}
Unlinked(names) == links \cap names = {}
AllPins(v) == \A m \in MapName : pins[m] = v

\* What hgctl stop, the clean-up and hgctl start have reached at their k-th step.
StopReached(k) ==
  /\ k > 1 => Unhooked
  /\ k > 2 => Unlinked({"ifb", "ifbfq"})
  /\ k > 3 => Unlinked({"fq"})
  /\ k > 4 => Unlinked({"qlen"})
  /\ k > 5 => AllPins(None)

CleanupReached(k) ==
  /\ k > 1 => Unhooked
  /\ k > 2 => AllPins(None)
  /\ k > 3 => Unlinked({"ifb", "ifbfq"})
  /\ k > 4 => Unlinked({"fq"})
  /\ k > 5 => Unlinked({"qlen"})

StartReached(k, n) ==
  /\ k = 1 => links = {} /\ \A m \in MapName : pins[m] \in {None, n}
  /\ k > 1 => AllPins(n)
  /\ k > 2 => "clsact" \in links
  /\ progs["ingress"] = IF k > 3 THEN {Program(n)} ELSE {}
  /\ progs["egress"] = IF k > 4 THEN {Program(n)} ELSE {}
  /\ k > 5 => "qlen" \in links
  /\ k > 6 => "fq" \in links
  /\ k > 8 => {"ifb", "ifbfq"} \subseteq links
  /\ k > 9 => <<IfbIdx, n>> \in written
  /\ k > 10 => <<PortalCfg, n>> \in written

MainAtStep(steps, k, n, rc) == hgctl["main"] = [todo |-> Rest(steps, k), id |-> n, rc |-> rc]

StopProgress ==
  \E k \in 1..6 : /\ MainAtStep(StopSteps, k, 0, "SUCCESS")
                  /\ StopReached(k)
StartProgress ==
  \E k \in 1..11 : /\ MainAtStep(StartSteps, k, hgctl["main"].id, "SUCCESS")
                   /\ StartReached(k, hgctl["main"].id)
CleanupProgress ==
  \E k \in 1..6 : /\ MainAtStep(CleanupSteps, k, hgctl["main"].id, "FAILED")
                  /\ CleanupReached(k)

\* The handler's hgctl only removes.
HandlerStops ==
  hgctl["handler"] # None =>
    \E k \in 1..6 : \E rc \in {"SUCCESS", "FAILED"} :
      hgctl["handler"] = [todo |-> Rest(StopSteps, k), id |-> 0, rc |-> rc]

\* No start is killed before it begins.
Sofar == pc \in {"boot", "clean"} => broken \cap {"clean", "start"} \subseteq {pc}

\* What main's hgctl, if it is not killed, has reached, whatever the handler's
\* removes beside it.
InOrder ==
  /\ pc \in {"clean", "leave"} /\ pc \notin broken => StopProgress
  /\ pc = "start" /\ broken \cap {"clean", "start"} = {} => StartProgress \/ CleanupProgress
  /\ pc = "start" /\ "start" \in broken =>
       hgctl["main"].todo = <<>> /\ hgctl["main"].rc = "FAILED"

LifeInv == Shape /\ OnlyThere /\ HandlerStops /\ Sofar /\ InOrder /\ ServingIsEnforced /\ EndIsClean

-----------------------------------------------------------------------------
(***************************************************************************)
(* Steps of an hgctl.                                                      *)
(***************************************************************************)
LEMMA StopAt ==
  \A k \in 1..5 : /\ StopSteps[k] = "unhook" <=> k = 1
                  /\ StopSteps[k] = "delifb" <=> k = 2
                  /\ StopSteps[k] = "unfq" <=> k = 3
                  /\ StopSteps[k] = "unqlen" <=> k = 4
                  /\ StopSteps[k] = "unpin" <=> k = 5
                  /\ StopSteps[k] \in {"unhook", "delifb", "unfq", "unqlen", "unpin"}
<1>1. /\ StopSteps[1] = "unhook" /\ StopSteps[2] = "delifb" /\ StopSteps[3] = "unfq"
      /\ StopSteps[4] = "unqlen" /\ StopSteps[5] = "unpin"
  BY SMT DEF StopSteps
<1> QED
  BY <1>1, SMT

LEMMA CleanupAt ==
  \A k \in 1..5 : /\ CleanupSteps[k] = "unhook" <=> k = 1
                  /\ CleanupSteps[k] = "unpin" <=> k = 2
                  /\ CleanupSteps[k] = "delifb" <=> k = 3
                  /\ CleanupSteps[k] = "unfq" <=> k = 4
                  /\ CleanupSteps[k] = "unqlen" <=> k = 5
                  /\ CleanupSteps[k] \in {"unhook", "delifb", "unfq", "unqlen", "unpin"}
<1>1. /\ CleanupSteps[1] = "unhook" /\ CleanupSteps[2] = "unpin" /\ CleanupSteps[3] = "delifb"
      /\ CleanupSteps[4] = "unfq" /\ CleanupSteps[5] = "unqlen"
  BY SMT DEF CleanupSteps
<1> QED
  BY <1>1, SMT

LEMMA StartAt ==
  \A k \in 1..10 : /\ StartSteps[k] = "load" <=> k = 1
                   /\ StartSteps[k] = "hook" <=> k = 2
                   /\ StartSteps[k] = "ingress" <=> k = 3
                   /\ StartSteps[k] = "egress" <=> k = 4
                   /\ StartSteps[k] = "qlen" <=> k = 5
                   /\ StartSteps[k] = "fq" <=> k = 6
                   /\ StartSteps[k] = "ifb" <=> k = 7
                   /\ StartSteps[k] = "ifbfq" <=> k = 8
                   /\ StartSteps[k] = "ifbidx" <=> k = 9
                   /\ StartSteps[k] = "portal" <=> k = 10
                   /\ StartSteps[k] \notin {"unhook", "delifb", "unfq", "unqlen", "unpin"}
<1>1. /\ StartSteps[1] = "load" /\ StartSteps[2] = "hook" /\ StartSteps[3] = "ingress"
      /\ StartSteps[4] = "egress" /\ StartSteps[5] = "qlen" /\ StartSteps[6] = "fq"
      /\ StartSteps[7] = "ifb" /\ StartSteps[8] = "ifbfq" /\ StartSteps[9] = "ifbidx"
      /\ StartSteps[10] = "portal"
  BY SMT DEF StartSteps
<1> QED
  BY <1>1, SMT

\* An hgctl is at its k-th step, and advances to the next.
LEMMA SlotAtStep ==
  ASSUME NEW S, NEW steps \in Seq(S), NEW k \in 1 .. Len(steps) + 1, NEW n, NEW rc, NEW x,
         NEW s \in Slot, hgctl[s] = [todo |-> Rest(steps, k), id |-> n, rc |-> rc],
         At(s, x), Shape
  PROVE  /\ k <= Len(steps) /\ steps[k] = x
         /\ Advance(s) => hgctl'[s] = [todo |-> Rest(steps, k + 1), id |-> n, rc |-> rc]
<1>1. hgctl[s].todo = Rest(steps, k) /\ Rest(steps, k) # <<>> /\ Head(Rest(steps, k)) = x
  BY SMT DEF At
<1>2. k <= Len(steps) /\ steps[k] = x /\ Tail(Rest(steps, k)) = Rest(steps, k + 1)
  <2>1. /\ Rest(steps, k) = <<>> <=> k = Len(steps) + 1
        /\ k <= Len(steps) => /\ Head(Rest(steps, k)) = steps[k]
                              /\ Tail(Rest(steps, k)) = Rest(steps, k + 1)
    BY RestMoves
  <2>2. Len(steps) \in Nat /\ k \in 1 .. Len(steps) + 1
    OBVIOUS
  <2> QED
    BY ONLY <1>1, <2>1, <2>2, SMT
<1>3. ASSUME Advance(s)
      PROVE  hgctl'[s] = [todo |-> Rest(steps, k + 1), id |-> n, rc |-> rc]
  <2>1. hgctl' = [hgctl EXCEPT ![s].todo = Tail(@)]
    BY <1>3 DEF Advance
  <2>2. hgctl'[s] = [hgctl[s] EXCEPT !.todo = Tail(@)]
    BY <2>1, SMT DEF Shape
  <2>3. hgctl[s] = [todo |-> Rest(steps, k), id |-> n, rc |-> rc]
    OBVIOUS
  <2>4. hgctl'[s] = [hgctl[s] EXCEPT !.todo = Rest(steps, k + 1)]
    BY <1>1, <1>2, <2>2, Zenon
  <2> QED
    BY ONLY <2>3, <2>4, SMT
<1> QED
  BY <1>2, <1>3

LEMMA AtStep ==
  ASSUME NEW S, NEW steps \in Seq(S), NEW k \in 1 .. Len(steps) + 1, NEW n, NEW rc, NEW x,
         MainAtStep(steps, k, n, rc), At("main", x), Shape
  PROVE  /\ k <= Len(steps) /\ steps[k] = x
         /\ Advance("main") => MainAtStep(steps, k + 1, n, rc)'
<1>1. "main" \in Slot /\ hgctl["main"] = [todo |-> Rest(steps, k), id |-> n, rc |-> rc]
  BY DEF MainAtStep, Slot
<1> QED
  BY <1>1, SlotAtStep DEF MainAtStep

\* The steps of a start are taken at their names.
StartNames == {"load", "hook", "ingress", "egress", "qlen", "fq", "ifb", "ifbfq",
               "ifbidx", "portal"}
LEMMA StartsAt == \A s : StartStep(s) => \E x \in StartNames : At(s, x)
BY SMT DEF StartStep, PinMap, Load, LoadFails, AddLink, Attach, AddIfb, IfbQueue, WriteMap,
           StartFails, Direction, StartNames

\* hgctl stop.
LEMMA StopMoves ==
  ASSUME Shape, StopProgress, StartStep("main") \/ StopStep("main")
  PROVE  StopProgress'
<1>1. PICK k \in 1..6 : MainAtStep(StopSteps, k, 0, "SUCCESS") /\ StopReached(k)
  BY DEF StopProgress
<1>2. ASSUME NEW x, At("main", x)
      PROVE  /\ k \in 1..5 /\ StopSteps[k] = x
             /\ Advance("main") => MainAtStep(StopSteps, k + 1, 0, "SUCCESS")'
  <2>1. StopSteps \in Seq(StepName) /\ k \in 1 .. Len(StopSteps) + 1
    BY Programs, SMT
  <2>2. /\ k <= Len(StopSteps) /\ StopSteps[k] = x
        /\ Advance("main") => MainAtStep(StopSteps, k + 1, 0, "SUCCESS")'
    BY <1>1, <1>2, <2>1, AtStep
  <2> QED
    BY <2>2, Programs, SMT
<1>3. ~StartStep("main")
  <2>1. \A x \in StartNames : ~At("main", x)
    BY <1>2, StopAt, SMT DEF StartNames
  <2> QED
    BY <2>1, StartsAt
<1>4. CASE Unhook("main")
  <2>1. k = 1 /\ MainAtStep(StopSteps, 2, 0, "SUCCESS")'
    BY <1>2, <1>4, StopAt, SMT DEF Unhook, Advanced
  <2>2. StopReached(2)'
    BY <1>4, SMT DEF Unhook, StopReached, Unhooked
  <2> QED
    BY <2>1, <2>2 DEF StopProgress
<1>5. CASE DelLink("main")
  <2>1. PICK step \in {<<"delifb", {"ifb", "ifbfq"}>>, <<"unfq", {"fq"}>>, <<"unqlen", {"qlen"}>>} :
          At("main", step[1]) /\ links' = links \ step[2]
    BY <1>5 DEF DelLink
  <2>2. k \in 2..4 /\ StopSteps[k] = step[1] /\ MainAtStep(StopSteps, k + 1, 0, "SUCCESS")'
    BY <1>2, <1>5, <2>1, StopAt, SMT DEF DelLink, Advanced
  <2>3. progs' = progs /\ pins' = pins
    BY <1>5 DEF DelLink
  <2>4. StopReached(k + 1)'
    BY <1>1, <2>1, <2>2, <2>3, StopAt, SMT DEF StopReached, Unhooked, Unlinked, AllPins
  <2> QED
    BY <2>2, <2>4, SMT DEF StopProgress
<1>6. CASE UnpinMap("main")
  <2>1. k = 5 /\ hgctl' = hgctl /\ links' = links /\ progs' = progs
    BY <1>2, <1>6, StopAt, SMT DEF UnpinMap
  <2>2. StopReached(5)' /\ MainAtStep(StopSteps, 5, 0, "SUCCESS")'
    BY <1>1, <2>1, SMT DEF StopReached, Unhooked, Unlinked, MainAtStep
  <2> QED
    BY <2>2, SMT DEF StopProgress
<1>7. CASE Unpinned("main")
  <2>1. k = 5 /\ MainAtStep(StopSteps, 6, 0, "SUCCESS")'
    BY <1>2, <1>7, StopAt, SMT DEF Unpinned, Advanced
  <2>2. StopReached(6)'
    BY <1>1, <1>7, <2>1, SMT DEF Unpinned, kernel, StopReached, Unhooked, Unlinked, AllPins
  <2> QED
    BY <2>1, <2>2, SMT DEF StopProgress
<1> QED
  BY <1>3, <1>4, <1>5, <1>6, <1>7 DEF StopStep

\* What cleanup_on_failure undoes.
LEMMA CleanupMoves ==
  ASSUME Shape, CleanupProgress, StartStep("main") \/ StopStep("main")
  PROVE  CleanupProgress'
<1>n. PICK n : n = hgctl["main"].id
  OBVIOUS
<1>1. PICK k \in 1..6 : MainAtStep(CleanupSteps, k, n, "FAILED") /\ CleanupReached(k)
  BY <1>n DEF CleanupProgress
<1>2. ASSUME NEW x, At("main", x)
      PROVE  /\ k \in 1..5 /\ CleanupSteps[k] = x
             /\ Advance("main") => MainAtStep(CleanupSteps, k + 1, n, "FAILED")'
  <2>1. CleanupSteps \in Seq(StepName) /\ k \in 1 .. Len(CleanupSteps) + 1
    BY Programs, SMT
  <2>2. /\ k <= Len(CleanupSteps) /\ CleanupSteps[k] = x
        /\ Advance("main") => MainAtStep(CleanupSteps, k + 1, n, "FAILED")'
    BY <1>1, <1>2, <2>1, AtStep
  <2> QED
    BY <2>2, Programs, SMT
<1>3. ~StartStep("main")
  <2>1. \A x \in StartNames : ~At("main", x)
    BY <1>2, CleanupAt, SMT DEF StartNames
  <2> QED
    BY <2>1, StartsAt
<1>4. ASSUME NEW j \in 1..6, MainAtStep(CleanupSteps, j, n, "FAILED")', CleanupReached(j)'
      PROVE  CleanupProgress'
  <2>1. hgctl'["main"].id = n
    BY <1>4, SMT DEF MainAtStep
  <2> QED
    BY <1>4, <2>1 DEF CleanupProgress
<1>5. CASE Unhook("main")
  <2>1. k = 1 /\ MainAtStep(CleanupSteps, 2, n, "FAILED")'
    BY <1>2, <1>5, CleanupAt, SMT DEF Unhook, Advanced
  <2>2. CleanupReached(2)'
    BY <1>5, SMT DEF Unhook, CleanupReached, Unhooked
  <2> QED
    BY <1>4, <2>1, <2>2
<1>6. CASE DelLink("main")
  <2>1. PICK step \in {<<"delifb", {"ifb", "ifbfq"}>>, <<"unfq", {"fq"}>>, <<"unqlen", {"qlen"}>>} :
          At("main", step[1]) /\ links' = links \ step[2]
    BY <1>6 DEF DelLink
  <2>2. k \in 3..5 /\ CleanupSteps[k] = step[1] /\ MainAtStep(CleanupSteps, k + 1, n, "FAILED")'
    BY <1>2, <1>6, <2>1, CleanupAt, SMT DEF DelLink, Advanced
  <2>3. progs' = progs /\ pins' = pins
    BY <1>6 DEF DelLink
  <2>4. CleanupReached(k + 1)'
    BY <1>1, <2>1, <2>2, <2>3, CleanupAt, SMT DEF CleanupReached, Unhooked, Unlinked, AllPins
  <2> QED
    BY <1>4, <2>2, <2>4, SMT
<1>7. CASE UnpinMap("main")
  <2>1. k = 2 /\ hgctl' = hgctl /\ links' = links /\ progs' = progs
    BY <1>2, <1>7, CleanupAt, SMT DEF UnpinMap
  <2>2. CleanupReached(2)' /\ MainAtStep(CleanupSteps, 2, n, "FAILED")'
    BY <1>1, <2>1, SMT DEF CleanupReached, Unhooked, MainAtStep
  <2> QED
    BY <1>4, <2>2
<1>8. CASE Unpinned("main")
  <2>1. k = 2 /\ MainAtStep(CleanupSteps, 3, n, "FAILED")'
    BY <1>2, <1>8, CleanupAt, SMT DEF Unpinned, Advanced
  <2>2. CleanupReached(3)'
    BY <1>1, <1>8, <2>1, SMT DEF Unpinned, kernel, CleanupReached, Unhooked, AllPins
  <2> QED
    BY <1>4, <2>1, <2>2
<1> QED
  BY <1>3, <1>5, <1>6, <1>7, <1>8 DEF StopStep

\* hgctl start.
LEMMA StopsAt ==
  \A s : StopStep(s) => \E x \in {"unhook", "delifb", "unfq", "unqlen", "unpin"} : At(s, x)
BY SMT DEF StopStep, Unhook, DelLink, UnpinMap, Unpinned

LEMMA Aborted ==
  ASSUME NEW t, NEW u, NEW n, hgctl["main"] = [todo |-> t, id |-> n, rc |-> "SUCCESS"], Shape,
         hgctl' = [hgctl EXCEPT !["main"] = [todo |-> u, id |-> @.id, rc |-> "FAILED"]]
  PROVE  hgctl'["main"] = [todo |-> u, id |-> n, rc |-> "FAILED"]
BY SMT DEF Shape, Slot

\* A start that fails has its clean-up before it, or nothing to clean up.
LEMMA StartFailed ==
  ASSUME Shape, NEW n, NEW k \in 1..11, MainAtStep(StartSteps, k, n, "SUCCESS"),
         StartReached(k, n), LoadFails("main") \/ StartFails("main"),
         LoadFails("main") => k = 1
  PROVE  CleanupProgress'
<1>1. /\ hgctl["main"] = [todo |-> Rest(StartSteps, k), id |-> n, rc |-> "SUCCESS"]
      /\ DOMAIN hgctl = Slot /\ "main" \in Slot
  BY SMT DEF MainAtStep, Shape, Slot
<1>2. CASE LoadFails("main")
  <2>1. hgctl'["main"] = [todo |-> <<>>, id |-> n, rc |-> "FAILED"]
    BY <1>1, <1>2, Aborted DEF LoadFails
  <2>2. Rest(CleanupSteps, 6) = <<>>
    <3>1. CleanupSteps \in Seq(StepName) /\ 6 \in 1 .. Len(CleanupSteps) + 1
      BY Programs, SMT
    <3>2. Rest(CleanupSteps, 6) = <<>> <=> 6 = Len(CleanupSteps) + 1
      BY <3>1, RestMoves
    <3> QED
      BY <3>2, Programs, SMT
  <2>3. MainAtStep(CleanupSteps, 6, n, "FAILED")' /\ hgctl'["main"].id = n
    BY <2>1, <2>2 DEF MainAtStep
  <2>4. k = 1 /\ links' = {} /\ progs' = progs
    BY <1>2, SMT DEF LoadFails, StartReached
  <2>5. \A m \in MapName : pins'[m] = None
    BY <1>1, <1>2, <2>4, SMT DEF LoadFails, StartReached
  <2>6. CleanupReached(6)'
    BY <2>4, <2>5, SMT DEF CleanupReached, Unhooked, Unlinked, AllPins, StartReached, Direction
  <2> QED
    BY <2>3, <2>6 DEF CleanupProgress
<1>3. CASE StartFails("main")
  <2>1. hgctl'["main"] = [todo |-> CleanupSteps, id |-> n, rc |-> "FAILED"]
    BY <1>1, <1>3, Aborted DEF StartFails
  <2>2. Rest(CleanupSteps, 1) = CleanupSteps
    BY Programs, FirstStep
  <2>3. MainAtStep(CleanupSteps, 1, n, "FAILED")' /\ hgctl'["main"].id = n
    BY <2>1, <2>2 DEF MainAtStep
  <2>4. CleanupReached(1)'
    BY SMT DEF CleanupReached
  <2> QED
    BY <2>3, <2>4 DEF CleanupProgress
<1> QED
  BY <1>2, <1>3

LEMMA StartMoves ==
  ASSUME Shape, StartProgress, StartStep("main") \/ StopStep("main")
  PROVE  (StartProgress \/ CleanupProgress)'
<1>n. PICK n : n = hgctl["main"].id
  OBVIOUS
<1>1. PICK k \in 1..11 : MainAtStep(StartSteps, k, n, "SUCCESS") /\ StartReached(k, n)
  BY <1>n DEF StartProgress
<1>2. ASSUME NEW x, At("main", x)
      PROVE  /\ k \in 1..10 /\ StartSteps[k] = x
             /\ Advance("main") => MainAtStep(StartSteps, k + 1, n, "SUCCESS")'
  <2>1. StartSteps \in Seq(StepName) /\ k \in 1 .. Len(StartSteps) + 1
    BY Programs, SMT
  <2>2. /\ k <= Len(StartSteps) /\ StartSteps[k] = x
        /\ Advance("main") => MainAtStep(StartSteps, k + 1, n, "SUCCESS")'
    BY <1>1, <1>2, <2>1, AtStep
  <2> QED
    BY <2>2, Programs, SMT
<1>3. ~StopStep("main")
  BY <1>2, StartAt, StopsAt, SMT
<1>4. ASSUME NEW j \in 1..11, MainAtStep(StartSteps, j, n, "SUCCESS")', StartReached(j, n)'
      PROVE  StartProgress'
  <2>1. hgctl'["main"].id = n
    BY <1>4, SMT DEF MainAtStep
  <2> QED
    BY <1>4, <2>1 DEF StartProgress
<1>5. CASE PinMap("main")
  <2>1. k = 1 /\ hgctl' = hgctl /\ links' = links /\ progs' = progs
    BY <1>2, <1>5, StartAt, SMT DEF PinMap
  <2>2. hgctl["main"].id = n
    BY <1>n
  <2>3. \A m \in MapName : pins'[m] \in {None, n}
    BY <1>1, <1>5, <2>1, <2>2, SMT DEF PinMap, StartReached, Shape
  <2>4. StartReached(1, n)' /\ MainAtStep(StartSteps, 1, n, "SUCCESS")'
    BY <1>1, <2>1, <2>3, SMT DEF StartReached, MainAtStep
  <2> QED
    BY <1>4, <2>4, SMT
<1>6. CASE Load("main")
  <2>1. k = 1 /\ MainAtStep(StartSteps, 2, n, "SUCCESS")'
    BY <1>2, <1>6, StartAt, SMT DEF Load, Advanced
  <2>2. AllPins(n)' /\ progs' = progs
    BY <1>1, <1>6, <2>1, SMT DEF Load, kernel, StartReached, AllPins
  <2>3. StartReached(2, n)'
    BY <1>1, <2>1, <2>2, SMT DEF StartReached
  <2> QED
    BY <1>4, <2>1, <2>3, SMT
<1>7. CASE LoadFails("main") \/ StartFails("main")
  <2>1. LoadFails("main") => k = 1
    BY <1>2, StartAt, SMT DEF LoadFails
  <2> QED
    BY <1>1, <1>7, <2>1, StartFailed
<1>8. CASE AddLink("main")
  <2>1. PICK step \in {"hook", "qlen", "fq"} :
          At("main", step) /\ links' = links \cup {IF step = "hook" THEN "clsact" ELSE step}
    BY <1>8 DEF AddLink
  <2>2. k \in {2, 5, 6} /\ StartSteps[k] = step /\ MainAtStep(StartSteps, k + 1, n, "SUCCESS")'
    BY <1>2, <1>8, <2>1, StartAt, SMT DEF AddLink, Advanced
  <2>3. progs' = progs /\ pins' = pins /\ written' = written
    BY <1>8 DEF AddLink
  <2>4. StartReached(k + 1, n)'
    BY <1>1, <2>1, <2>2, <2>3, StartAt, SMT DEF StartReached, AllPins
  <2> QED
    BY <1>4, <2>2, <2>4, SMT
<1>9. CASE Attach("main")
  <2>1. PICK d \in Direction :
          /\ At("main", d)
          /\ progs' = [progs EXCEPT ![d] = @ \cup {[id |-> hgctl["main"].id, maps |-> pins]}]
    BY <1>9 DEF Attach
  <2>2. /\ k \in {3, 4} /\ (k = 3 <=> d = "ingress") /\ (k = 4 <=> d = "egress")
        /\ MainAtStep(StartSteps, k + 1, n, "SUCCESS")'
    BY <1>2, <1>9, <2>1, StartAt, SMT DEF Attach, Advanced, Direction
  <2>3. links' = links /\ pins' = pins /\ written' = written
    BY <1>9 DEF Attach
  <2>4. pins = [m \in MapName |-> n]
    BY <1>1, <2>2, SMT DEF StartReached, AllPins, Shape
  <2>5. progs' = [progs EXCEPT ![d] = @ \cup {Program(n)}]
    BY <1>n, <2>1, <2>4 DEF Program
  <2>6. progs[d] = {}
    BY <1>1, <2>2, SMT DEF StartReached
  <2>7. progs'[d] = {Program(n)} /\ \A e \in Direction \ {d} : progs'[e] = progs[e]
    BY <2>5, <2>6, SMT DEF Shape
  <2>8. StartReached(k + 1, n)'
    BY <1>1, <2>2, <2>3, <2>7, SMT DEF StartReached, AllPins, Direction
  <2> QED
    BY <1>4, <2>2, <2>8, SMT
<1>10. CASE AddIfb("main") \/ IfbQueue("main")
  <2>1. /\ k \in {7, 8} /\ MainAtStep(StartSteps, k + 1, n, "SUCCESS")'
        /\ k = 8 => IfbQueue("main")
    BY <1>2, <1>10, StartAt, SMT DEF AddIfb, IfbQueue, Advanced
  <2>2. progs' = progs /\ pins' = pins /\ written' = written /\ links \subseteq links'
    BY <1>10, SMT DEF AddIfb, IfbQueue
  <2>3. k = 8 => {"ifb", "ifbfq"} \subseteq links'
    BY <2>1, SMT DEF IfbQueue
  <2>4. StartReached(k + 1, n)'
    BY <1>1, <2>1, <2>2, <2>3, SMT DEF StartReached, AllPins
  <2> QED
    BY <1>4, <2>1, <2>4, SMT
<1>11. CASE WriteMap("main")
  <2>1. PICK step \in {<<"ifbidx", IfbIdx>>, <<"portal", PortalCfg>>} :
          At("main", step[1]) /\ written' = written \cup {<<step[2], pins[step[2]]>>}
    BY <1>11 DEF WriteMap
  <2>2. k \in {9, 10} /\ StartSteps[k] = step[1] /\ MainAtStep(StartSteps, k + 1, n, "SUCCESS")'
    BY <1>2, <1>11, <2>1, StartAt, SMT DEF WriteMap, Advanced
  <2>3. progs' = progs /\ pins' = pins /\ links' = links
    BY <1>11 DEF WriteMap
  <2>4. pins[step[2]] = n
    BY <1>1, <2>1, <2>2, MapAssumption, SMT DEF StartReached, AllPins
  <2>5. k = 9 => step[2] = IfbIdx
    BY <2>1, <2>2, StartAt, SMT
  <2>6. k = 10 => step[2] = PortalCfg
    BY <2>1, <2>2, StartAt, SMT
  <2>7. StartReached(k + 1, n)'
    BY <1>1, <2>1, <2>2, <2>3, <2>4, <2>5, <2>6, SMT DEF StartReached, AllPins
  <2> QED
    BY <1>4, <2>2, <2>7, SMT
<1> QED
  BY <1>3, <1>5, <1>6, <1>7, <1>8, <1>9, <1>10, <1>11 DEF StartStep

-----------------------------------------------------------------------------
(***************************************************************************)
(* Every step keeps the invariant.                                         *)
(***************************************************************************)
KernelShape ==
  /\ pins = [m \in MapName |-> pins[m]]
  /\ progs = [d \in Direction |-> progs[d]]
  /\ links \subseteq {"clsact", "qlen", "fq", "ifb", "ifbfq"}

\* A step of an hgctl changes the kernel and its own list.
Own(s) ==
  /\ hgctl[s] # None /\ daemon' = daemon
  /\ \A r \in Slot \ {s} : hgctl'[r] = hgctl[r]
  /\ DOMAIN hgctl' = Slot

LEMMA AdvanceOwn ==
  ASSUME Shape, NEW s \in Slot, NEW x, At(s, x), Advance(s), daemon' = daemon
  PROVE  Own(s)
<1>1. hgctl[s] # None
  BY DEF At
<1>2. hgctl' = [hgctl EXCEPT ![s].todo = Tail(@)]
  BY DEF Advance
<1>3. DOMAIN hgctl = Slot
  BY DEF Shape
<1>4. DOMAIN hgctl' = Slot
  BY <1>2, <1>3, SMT
<1>5. \A r \in Slot \ {s} : hgctl'[r] = hgctl[r]
  BY <1>2, <1>3, SMT
<1> QED
  BY <1>1, <1>4, <1>5 DEF Own

LEMMA StepShape ==
  ASSUME Shape, NEW s \in Slot, StartStep(s) \/ StopStep(s)
  PROVE  Own(s) /\ Shape'
<1> SUFFICES Own(s) /\ KernelShape'
  BY DEF Shape, KernelShape, Own
<1>1. CASE PinMap(s) \/ UnpinMap(s)
  <2>1. Own(s)
    BY <1>1, SMT DEF PinMap, UnpinMap, At, Own, Shape
  <2>2. KernelShape'
    BY <1>1, SMT DEF PinMap, UnpinMap, KernelShape, Shape
  <2> QED
    BY <2>1, <2>2
<1>2. CASE Load(s) \/ Unpinned(s)
  <2>1. Own(s)
    BY <1>2, AdvanceOwn DEF Load, Unpinned, Advanced
  <2>2. KernelShape'
    BY <1>2, SMT DEF Load, Unpinned, kernel, KernelShape, Shape
  <2> QED
    BY <2>1, <2>2
<1>3. CASE LoadFails(s) \/ StartFails(s)
  <2>1. Own(s)
    BY <1>3, SMT DEF LoadFails, StartFails, At, Own, Shape
  <2>2. KernelShape'
    BY <1>3, SMT DEF LoadFails, StartFails, kernel, KernelShape, Shape
  <2> QED
    BY <2>1, <2>2
<1>4. CASE AddLink(s)
  <2>1. PICK x \in {"hook", "qlen", "fq"} :
          At(s, x) /\ links' = links \cup {IF x = "hook" THEN "clsact" ELSE x}
    BY <1>4 DEF AddLink
  <2>2. Own(s)
    BY <1>4, <2>1, AdvanceOwn DEF AddLink, Advanced
  <2>3. KernelShape'
    BY <1>4, <2>1, SMT DEF AddLink, KernelShape, Shape
  <2> QED
    BY <2>2, <2>3
<1>5. CASE Attach(s)
  <2>1. PICK d \in Direction :
          /\ At(s, d)
          /\ progs' = [progs EXCEPT ![d] = @ \cup {[id |-> hgctl[s].id, maps |-> pins]}]
    BY <1>5 DEF Attach
  <2>2. Own(s)
    BY <1>5, <2>1, AdvanceOwn DEF Attach, Advanced
  <2>3. pins' = pins /\ links' = links
    BY <1>5 DEF Attach
  <2>4. progs' = [e \in Direction |-> progs'[e]]
    <3>1. PICK v : v = progs[d] \cup {[id |-> hgctl[s].id, maps |-> pins]}
      OBVIOUS
    <3>2. progs' = [progs EXCEPT ![d] = v]
      BY <2>1, <3>1
    <3>3. progs = [e \in Direction |-> progs[e]]
      BY DEF Shape
    <3> QED
      BY <3>2, <3>3, SMT
  <2>5. KernelShape'
    BY <2>3, <2>4, SMT DEF KernelShape, Shape
  <2> QED
    BY <2>2, <2>5
<1>6. CASE AddIfb(s) \/ IfbQueue(s)
  <2>1. Own(s)
    BY <1>6, AdvanceOwn DEF AddIfb, IfbQueue, Advanced, daemon
  <2>2. KernelShape'
    BY <1>6, SMT DEF AddIfb, IfbQueue, KernelShape, Shape
  <2> QED
    BY <2>1, <2>2
<1>7. CASE WriteMap(s)
  <2>1. Own(s)
    BY <1>7, AdvanceOwn DEF WriteMap, Advanced
  <2>2. pins' = pins /\ links' = links /\ progs' = progs
    BY <1>7 DEF WriteMap
  <2>3. KernelShape'
    BY <2>2, SMT DEF KernelShape, Shape
  <2> QED
    BY <2>1, <2>3
<1>8. CASE Unhook(s)
  <2>1. Own(s)
    BY <1>8, AdvanceOwn DEF Unhook, Advanced
  <2>2. KernelShape'
    BY <1>8, SMT DEF Unhook, KernelShape, Shape
  <2> QED
    BY <2>1, <2>2
<1>9. CASE DelLink(s)
  <2>1. Own(s)
    BY <1>9, AdvanceOwn DEF DelLink, Advanced
  <2>2. links' \subseteq links /\ pins' = pins /\ progs' = progs
    BY <1>9 DEF DelLink
  <2>3. KernelShape'
    BY <2>2, SMT DEF KernelShape, Shape
  <2> QED
    BY <2>1, <2>3
<1>10. CASE StartStep(s)
  BY <1>1, <1>2, <1>3, <1>4, <1>5, <1>6, <1>7, <1>10, Zenon DEF StartStep
<1>11. CASE StopStep(s)
  BY <1>1, <1>2, <1>8, <1>9, <1>11, Zenon DEF StopStep
<1> QED
  BY <1>10, <1>11

\* The handler's hgctl goes through the steps of a stop.
LEMMA HandlerMoves ==
  ASSUME Shape, HandlerStops, StartStep("handler") \/ StopStep("handler")
  PROVE  StopStep("handler") /\ HandlerStops'
<1>1. "handler" \in Slot
  BY DEF Slot
<1>2. hgctl["handler"] # None
  BY <1>1, StepShape DEF Own
<1>3. PICK k \in 1..6, rc \in {"SUCCESS", "FAILED"} :
        hgctl["handler"] = [todo |-> Rest(StopSteps, k), id |-> 0, rc |-> rc]
  BY <1>2 DEF HandlerStops
<1>4. ASSUME NEW x, At("handler", x)
      PROVE  /\ k \in 1..5 /\ StopSteps[k] = x
             /\ Advance("handler") =>
                  hgctl'["handler"] = [todo |-> Rest(StopSteps, k + 1), id |-> 0, rc |-> rc]
  <2>1. StopSteps \in Seq(StepName) /\ k \in 1 .. Len(StopSteps) + 1
    BY Programs, SMT
  <2>2. /\ k <= Len(StopSteps) /\ StopSteps[k] = x
        /\ Advance("handler") =>
             hgctl'["handler"] = [todo |-> Rest(StopSteps, k + 1), id |-> 0, rc |-> rc]
    BY <1>1, <1>3, <1>4, <2>1, SlotAtStep
  <2> QED
    BY <2>2, Programs, SMT
<1>5. StopStep("handler")
  <2>1. \A x \in StartNames : ~At("handler", x)
    BY <1>4, StopAt, SMT DEF StartNames
  <2> QED
    BY <2>1, StartsAt
<1>6. hgctl' = hgctl \/ (k \in 1..5 /\ Advance("handler"))
  BY <1>4, <1>5, SMT DEF StopStep, Unhook, DelLink, UnpinMap, Unpinned, Advanced
<1>7. PICK x : At("handler", x)
  BY <1>5, StopsAt
<1>8. HandlerStops'
  <2>1. CASE hgctl' = hgctl
    BY <2>1 DEF HandlerStops
  <2>2. CASE k \in 1..5 /\ Advance("handler")
    <3>1. hgctl'["handler"] = [todo |-> Rest(StopSteps, k + 1), id |-> 0, rc |-> rc]
      BY <1>4, <1>7, <2>2
    <3> QED
      BY <2>2, <3>1, SMT DEF HandlerStops
  <2> QED
    BY <1>6, <2>1, <2>2
<1> QED
  BY <1>5, <1>8

\* Another stop beside main's undoes nothing of what it has reached.
LEMMA StopBeside ==
  ASSUME Shape, StopProgress, StopStep("handler"), hgctl'["main"] = hgctl["main"]
  PROVE  StopProgress'
<1>1. PICK k \in 1..6 : MainAtStep(StopSteps, k, 0, "SUCCESS") /\ StopReached(k)
  BY DEF StopProgress
<1>2. MainAtStep(StopSteps, k, 0, "SUCCESS")'
  BY <1>1 DEF MainAtStep
<1>3. CASE Unhook("handler")
  <2>1. StopReached(k)'
    BY <1>1, <1>3, SMT DEF Unhook, StopReached, Unhooked, Unlinked, AllPins
  <2> QED
    BY <1>2, <2>1 DEF StopProgress
<1>4. CASE DelLink("handler")
  <2>1. links' \subseteq links /\ progs' = progs /\ pins' = pins
    BY <1>4 DEF DelLink
  <2>2. StopReached(k)'
    BY <1>1, <2>1, SMT DEF StopReached, Unhooked, Unlinked, AllPins
  <2> QED
    BY <1>2, <2>2 DEF StopProgress
<1>5. CASE UnpinMap("handler")
  <2>1. links' = links /\ progs' = progs
    BY <1>5 DEF UnpinMap
  <2>2. \A m \in MapName : pins'[m] \in {pins[m], None}
    BY <1>5, SMT DEF UnpinMap, Shape
  <2>3. StopReached(k)'
    BY <1>1, <2>1, <2>2, SMT DEF StopReached, Unhooked, Unlinked, AllPins
  <2> QED
    BY <1>2, <2>3 DEF StopProgress
<1>6. CASE Unpinned("handler")
  <2>1. StopReached(k)'
    BY <1>1, <1>6, SMT DEF Unpinned, kernel, StopReached, Unhooked, Unlinked, AllPins
  <2> QED
    BY <1>2, <2>1 DEF StopProgress
<1> QED
  BY <1>3, <1>4, <1>5, <1>6 DEF StopStep

LEMMA HgctlKeeps ==
  ASSUME LifeInv, NEW s \in Slot, StartStep(s) \/ StopStep(s)
  PROVE  LifeInv'
<1>1. /\ hgctl[s] # None /\ daemon' = daemon /\ Shape'
      /\ \A r \in Slot \ {s} : hgctl'[r] = hgctl[r]
  BY StepShape DEF LifeInv, Own
<1>2. pc' = pc /\ signalled' = signalled /\ status' = status /\ broken' = broken
  BY <1>1 DEF daemon
<1>3. hgctl[s].todo # <<>>
  BY StartsAt, StopsAt DEF At
<1>4. CASE s = "main"
  <2>1. pc \in {"clean", "start", "leave"} /\ hgctl'["handler"] = hgctl["handler"]
    BY <1>1, <1>4, SMT DEF LifeInv, OnlyThere, Slot
  <2>2. (OnlyThere /\ HandlerStops /\ Sofar /\ ServingIsEnforced /\ EndIsClean)'
    BY <1>2, <2>1, SMT
    DEF LifeInv, OnlyThere, HandlerStops, Sofar, ServingIsEnforced, EndIsClean, Early
  <2>3. ASSUME pc \in {"clean", "leave"}, pc \notin broken PROVE StopProgress'
    BY <1>4, <2>3, StopMoves DEF LifeInv, InOrder
  <2>4. ASSUME pc = "start", broken \cap {"clean", "start"} = {}
        PROVE  (StartProgress \/ CleanupProgress)'
    BY <1>4, <2>4, StartMoves, CleanupMoves DEF LifeInv, InOrder
  <2>5. ~(pc = "start" /\ "start" \in broken)
    BY <1>3, <1>4 DEF LifeInv, InOrder
  <2>6. InOrder'
    BY <1>2, <2>3, <2>4, <2>5 DEF InOrder
  <2> QED
    BY <1>1, <2>2, <2>6 DEF LifeInv
<1>5. CASE s = "handler"
  <2>1. /\ pc \notin Early /\ pc # "down" /\ signalled
        /\ hgctl'["main"] = hgctl["main"]
    BY <1>1, <1>5, SMT DEF LifeInv, OnlyThere, Slot
  <2>2. StopStep("handler") /\ HandlerStops'
    BY <1>5, HandlerMoves DEF LifeInv
  <2>3. (OnlyThere /\ Sofar /\ ServingIsEnforced /\ EndIsClean)'
    BY <1>2, <2>1, SMT
    DEF LifeInv, OnlyThere, Sofar, ServingIsEnforced, EndIsClean, Early
  <2>4. ASSUME pc = "leave", pc \notin broken PROVE StopProgress'
    BY <2>1, <2>2, <2>4, StopBeside DEF LifeInv, InOrder
  <2>5. InOrder'
    BY <1>2, <2>1, <2>4, SMT DEF InOrder, Early
  <2> QED
    BY <1>1, <2>2, <2>3, <2>5 DEF LifeInv
<1> QED
  BY <1>4, <1>5 DEF Slot

\* One that is killed is at its end, and has done what it has done.
LEMMA KillKeeps ==
  ASSUME LifeInv, NEW s \in Slot, Kill(s)
  PROVE  LifeInv'
<1>1. /\ hgctl[s] # None
      /\ hgctl' = [hgctl EXCEPT ![s] = [todo |-> <<>>, id |-> @.id, rc |-> "FAILED"]]
      /\ broken' = broken \cup {IF s = "main" THEN pc ELSE s}
      /\ pc' = pc /\ signalled' = signalled /\ status' = status
      /\ pins' = pins /\ written' = written /\ links' = links /\ progs' = progs
  BY DEF Kill, kernel
<1>2. /\ DOMAIN hgctl' = Slot /\ \A r \in Slot \ {s} : hgctl'[r] = hgctl[r]
      /\ hgctl'[s] = [todo |-> <<>>, id |-> hgctl[s].id, rc |-> "FAILED"]
  BY <1>1, SMT DEF LifeInv, Shape
<1>3. Shape'
  BY <1>1, <1>2 DEF LifeInv, Shape
<1>4. CASE s = "main"
  <2>1. pc \in {"clean", "start", "leave"} /\ hgctl'["handler"] = hgctl["handler"]
    BY <1>1, <1>2, <1>4, SMT DEF LifeInv, OnlyThere, Slot
  <2>2. (OnlyThere /\ HandlerStops /\ Sofar /\ ServingIsEnforced /\ EndIsClean)'
    BY <1>1, <1>4, <2>1, SMT
    DEF LifeInv, OnlyThere, HandlerStops, Sofar, ServingIsEnforced, EndIsClean, Early
  <2>3. pc \in broken'
    BY <1>1, <1>4
  <2>4. hgctl'["main"].todo = <<>> /\ hgctl'["main"].rc = "FAILED"
    BY <1>2, <1>4, SMT
  <2>5. InOrder'
    BY <1>1, <2>3, <2>4, SMT DEF InOrder
  <2> QED
    BY <1>3, <2>2, <2>5 DEF LifeInv
<1>5. CASE s = "handler"
  <2>1. /\ pc \notin Early /\ pc # "down" /\ signalled
        /\ hgctl'["main"] = hgctl["main"]
    BY <1>1, <1>2, <1>5, SMT DEF LifeInv, OnlyThere, Slot
  <2>2. (OnlyThere /\ Sofar /\ ServingIsEnforced /\ EndIsClean)'
    BY <1>1, <2>1, SMT
    DEF LifeInv, OnlyThere, Sofar, ServingIsEnforced, EndIsClean, Early
  <2>3. HandlerStops'
    <3>1. hgctl["handler"].id = 0
      BY <1>1, <1>5, SMT DEF LifeInv, HandlerStops
    <3>2. StopSteps \in Seq(StepName) /\ 6 \in 1 .. Len(StopSteps) + 1
      BY Programs, SMT
    <3>3. Rest(StopSteps, 6) = <<>>
      <4>1. Rest(StopSteps, 6) = <<>> <=> 6 = Len(StopSteps) + 1
        BY <3>2, RestMoves
      <4> QED
        BY <4>1, Programs, SMT
    <3>4. hgctl'["handler"] = [todo |-> Rest(StopSteps, 6), id |-> 0, rc |-> "FAILED"]
      BY <1>2, <1>5, <3>1, <3>3
    <3> QED
      BY <3>4, SMT DEF HandlerStops
  <2>4. StopProgress' = StopProgress
    BY <1>1, <2>1 DEF StopProgress, MainAtStep, StopReached, Unhooked, Unlinked, AllPins
  <2>5. InOrder'
    BY <1>1, <2>1, <2>4, SMT DEF LifeInv, InOrder, Early
  <2> QED
    BY <1>3, <2>2, <2>3, <2>5 DEF LifeInv
<1> QED
  BY <1>4, <1>5 DEF Slot

\* An hgctl that has ended has done all its steps.
LEMMA StopEnded ==
  ASSUME Shape, StopProgress, Ended("main")
  PROVE  links = {} /\ (\A d \in Direction : progs[d] = {}) /\ AllPins(None)
<1>1. PICK k \in 1..6 : MainAtStep(StopSteps, k, 0, "SUCCESS") /\ StopReached(k)
  BY DEF StopProgress
<1>2. Rest(StopSteps, k) = <<>>
  BY <1>1, SMT DEF MainAtStep, Ended
<1>3. k = 6
  <2>1. StopSteps \in Seq(StepName) /\ k \in 1 .. Len(StopSteps) + 1
    BY Programs, SMT
  <2>2. k = Len(StopSteps) + 1
    BY <1>2, <2>1, RestMoves
  <2> QED
    BY <2>2, Programs, SMT
<1> QED
  BY <1>1, <1>3, SMT DEF StopReached, Unhooked, Unlinked, Shape

LEMMA CleanupEnded ==
  ASSUME Shape, CleanupProgress, Ended("main")
  PROVE  /\ hgctl["main"].rc = "FAILED"
         /\ links = {} /\ (\A d \in Direction : progs[d] = {}) /\ AllPins(None)
<1>n. PICK n : n = hgctl["main"].id
  OBVIOUS
<1>1. PICK k \in 1..6 : MainAtStep(CleanupSteps, k, n, "FAILED") /\ CleanupReached(k)
  BY <1>n DEF CleanupProgress
<1>2. Rest(CleanupSteps, k) = <<>> /\ hgctl["main"].rc = "FAILED"
  BY <1>1, SMT DEF MainAtStep, Ended
<1>3. k = 6
  <2>1. CleanupSteps \in Seq(StepName) /\ k \in 1 .. Len(CleanupSteps) + 1
    BY Programs, SMT
  <2>2. k = Len(CleanupSteps) + 1
    BY <1>2, <2>1, RestMoves
  <2> QED
    BY <2>2, Programs, SMT
<1> QED
  BY <1>1, <1>2, <1>3, SMT DEF CleanupReached, Unhooked, Unlinked, Shape

LEMMA StartEnded ==
  ASSUME Shape, StartProgress, Ended("main")
  PROVE  /\ hgctl["main"].rc = "SUCCESS"
         /\ \E n : StartReached(11, n)
<1>n. PICK n : n = hgctl["main"].id
  OBVIOUS
<1>1. PICK k \in 1..11 : MainAtStep(StartSteps, k, n, "SUCCESS") /\ StartReached(k, n)
  BY <1>n DEF StartProgress
<1>2. Rest(StartSteps, k) = <<>> /\ hgctl["main"].rc = "SUCCESS"
  BY <1>1, SMT DEF MainAtStep, Ended
<1>3. k = 11
  <2>1. StartSteps \in Seq(StepName) /\ k \in 1 .. Len(StartSteps) + 1
    BY Programs, SMT
  <2>2. k = Len(StartSteps) + 1
    BY <1>2, <2>1, RestMoves
  <2> QED
    BY <2>2, Programs, SMT
<1> QED
  BY <1>1, <1>2, <1>3

\* Whatever ends the daemon leaves the kernel as it is, and no process.
LEMMA ExitKeeps ==
  ASSUME LifeInv, NEW how, Exit(how), UNCHANGED kernel, EndIsClean'
  PROVE  LifeInv'
<1>1. pc' = "down" /\ DOMAIN hgctl' = Slot /\ \A s \in Slot : hgctl'[s] = None
  BY SMT DEF Exit
<1>2. Shape'
  BY <1>1, SMT DEF LifeInv, Shape, kernel
<1>3. (OnlyThere /\ HandlerStops /\ Sofar /\ InOrder /\ ServingIsEnforced)'
  BY <1>1, SMT DEF OnlyThere, HandlerStops, Sofar, InOrder, ServingIsEnforced, Slot
<1> QED
  BY <1>2, <1>3 DEF LifeInv

\* main goes on with its next hgctl, or with none.
LEMMA MainSet ==
  ASSUME Shape, NEW cmd, Main(cmd)
  PROVE  DOMAIN hgctl' = Slot /\ hgctl'["main"] = cmd /\ hgctl'["handler"] = hgctl["handler"]
BY SMT DEF Main, Shape, Slot

\* hgctl stop begins with nothing reached.
LEMMA StopBegins ==
  ASSUME hgctl'["main"] = Stopping
  PROVE  StopProgress'
<1>1. Rest(StopSteps, 1) = StopSteps
  BY Programs, FirstStep
<1>2. MainAtStep(StopSteps, 1, 0, "SUCCESS")'
  BY <1>1 DEF MainAtStep, Stopping
<1>3. StopReached(1)'
  BY SMT DEF StopReached
<1> QED
  BY <1>2, <1>3, SMT DEF StopProgress

\* main calls hgctl stop, first of all or behind the loop.
LEMMA StopCalled ==
  ASSUME LifeInv, ~Handling, Main(Stopping), pc' \in {"clean", "leave"}, UNCHANGED kernel,
         pc' = "clean" => "start" \notin broken'
  PROVE  LifeInv'
<1>1. /\ DOMAIN hgctl' = Slot /\ hgctl'["main"] = Stopping
      /\ hgctl'["handler"] = None
  BY MainSet DEF LifeInv, Handling
<1>2. Shape'
  BY <1>1, SMT DEF LifeInv, Shape, kernel
<1>3. StopProgress'
  BY <1>1, StopBegins
<1>4. (OnlyThere /\ HandlerStops /\ Sofar /\ InOrder /\ ServingIsEnforced /\ EndIsClean)'
  BY <1>1, <1>3, SMT
  DEF OnlyThere, HandlerStops, Sofar, InOrder, ServingIsEnforced, EndIsClean
<1> QED
  BY <1>2, <1>4 DEF LifeInv

LEMMA LoadConfigKeeps == LifeInv /\ LoadConfig => LifeInv'
<1> SUFFICES ASSUME LifeInv, LoadConfig PROVE LifeInv'
  OBVIOUS
<1>1. CASE Main(Stopping) /\ pc' = "clean" /\ UNCHANGED status
  <2>1. pc = "boot" /\ ~Handling /\ broken' = broken /\ UNCHANGED kernel
    BY DEF LoadConfig, MainAt
  <2>2. "start" \notin broken
    BY <2>1 DEF LifeInv, Sofar
  <2> QED
    BY <1>1, <2>1, <2>2, StopCalled
<1>2. CASE Exit("noserver")
  <2>1. EndIsClean'
    BY <1>2, SMT DEF Exit, EndIsClean
  <2> QED
    BY <1>2, <2>1, ExitKeeps DEF LoadConfig
<1> QED
  BY <1>1, <1>2 DEF LoadConfig

LEMMA StopDoneKeeps == LifeInv /\ StopDone => LifeInv'
<1> SUFFICES ASSUME LifeInv, StopDone PROVE LifeInv'
  OBVIOUS
<1>1. /\ pc = "clean" /\ pc' = "start" /\ hgctl["handler"] = None
      /\ signalled' = signalled /\ broken' = broken /\ "start" \notin broken
      /\ links' = links /\ progs' = progs /\ pins' = pins
  BY SMT DEF StopDone, MainAt, Handling, kernel, LifeInv, Sofar
<1>2. ASSUME "clean" \notin broken
      PROVE  links = {} /\ (\A d \in Direction : progs[d] = {}) /\ AllPins(None)
  BY <1>1, <1>2, StopEnded DEF StopDone, LifeInv, InOrder
<1>3. /\ DOMAIN hgctl' = Slot /\ hgctl'["main"] = Starting
      /\ hgctl'["handler"] = None
  BY <1>1, MainSet DEF StopDone, LifeInv
<1>4. Shape'
  BY <1>1, <1>3, SMT DEF LifeInv, Shape
<1>5. ASSUME "clean" \notin broken PROVE StartProgress'
  <2>n. PICK n : n = Fresh
    OBVIOUS
  <2>1. hgctl'["main"] = [todo |-> StartSteps, id |-> n, rc |-> "SUCCESS"]
    BY <1>3, <2>n DEF Starting
  <2>2. Rest(StartSteps, 1) = StartSteps
    BY Programs, FirstStep
  <2>3. MainAtStep(StartSteps, 1, n, "SUCCESS")' /\ hgctl'["main"].id = n
    BY <2>1, <2>2 DEF MainAtStep
  <2>4. StartReached(1, n)'
    BY <1>1, <1>2, <1>5, SMT DEF StartReached, AllPins, Direction
  <2> QED
    BY <2>3, <2>4, SMT DEF StartProgress
<1>6. (OnlyThere /\ HandlerStops /\ Sofar /\ InOrder /\ ServingIsEnforced /\ EndIsClean)'
  BY <1>1, <1>3, <1>5, SMT
  DEF OnlyThere, HandlerStops, Sofar, InOrder, ServingIsEnforced, EndIsClean
<1> QED
  BY <1>4, <1>6 DEF LifeInv

LEMMA StartDoneKeeps == LifeInv /\ StartDone => LifeInv'
<1> SUFFICES ASSUME LifeInv, StartDone PROVE LifeInv'
  OBVIOUS
<1>1. /\ pc = "start" /\ Ended("main") /\ hgctl["handler"] = None
      /\ signalled' = signalled /\ broken' = broken
      /\ links' = links /\ progs' = progs /\ pins' = pins /\ written' = written
  BY SMT DEF StartDone, MainAt, Handling, kernel
<1>2. CASE hgctl["main"].rc = "SUCCESS" /\ Main(None) /\ pc' = "rules"
  <2>1. DOMAIN hgctl' = Slot /\ hgctl'["main"] = None /\ hgctl'["handler"] = None
    BY <1>1, <1>2, MainSet DEF LifeInv
  <2>2. "start" \notin broken
    BY <1>1, <1>2, SMT DEF LifeInv, InOrder
  <2>3. Shape'
    BY <1>1, <2>1, SMT DEF LifeInv, Shape
  <2>4. ServingIsEnforced'
    <3> SUFFICES ASSUME "clean" \notin broken PROVE ServingIsEnforced'
      BY <1>1 DEF ServingIsEnforced
    <3>1. PICK n : StartReached(11, n)
      <4>1. ~CleanupProgress
        BY <1>1, <1>2, CleanupEnded DEF LifeInv
      <4>2. StartProgress
        BY <1>1, <2>2, <4>1 DEF LifeInv, InOrder
      <4> QED
        BY <1>1, <4>2, StartEnded DEF LifeInv
    <3>2. pins[PortalCfg] = n
      BY <3>1, MapAssumption, SMT DEF StartReached, AllPins
    <3>3. links = {"clsact", "qlen", "fq", "ifb", "ifbfq"}
      BY <3>1, SMT DEF StartReached, LifeInv, Shape
    <3>4. \A d \in Direction : progs[d] = {Program(n)}
      BY <3>1, SMT DEF StartReached, Direction
    <3>5. (\A m \in MapName : pins[m] = n) /\ {<<IfbIdx, n>>, <<PortalCfg, n>>} \subseteq written
      BY <3>1, SMT DEF StartReached, AllPins
    <3> QED
      BY <1>1, <3>2, <3>3, <3>4, <3>5 DEF ServingIsEnforced
  <2>5. (OnlyThere /\ HandlerStops /\ Sofar /\ InOrder /\ EndIsClean)'
    BY <1>1, <1>2, <2>1, SMT DEF OnlyThere, HandlerStops, Sofar, InOrder, EndIsClean
  <2> QED
    BY <2>3, <2>4, <2>5 DEF LifeInv
<1>3. CASE hgctl["main"].rc = "FAILED" /\ Exit("nostart")
  <2>1. ~StartProgress
    BY <1>1, <1>3, StartEnded DEF LifeInv
  <2>2. ASSUME broken \cap {"clean", "start"} = {}
        PROVE  links = {} /\ (\A d \in Direction : progs[d] = {}) /\ AllPins(None)
    BY <1>1, <2>1, <2>2, CleanupEnded DEF LifeInv, InOrder
  <2>3. status' = "nostart"
    BY <1>3 DEF Exit
  <2>4. EndIsClean'
    BY <1>1, <2>2, <2>3, SMT DEF EndIsClean, Detached, AllPins
  <2> QED
    BY <1>3, <2>4, ExitKeeps DEF StartDone
<1> QED
  BY <1>2, <1>3 DEF StartDone

\* From rules to the loop and in it, main only moves on.
LEMMA ServingMoves ==
  ASSUME LifeInv, UNCHANGED <<kernel, hgctl, signalled, status, broken>>, ~Handling,
         pc \in {"rules", "listening", "handlers", "test", "wait"},
         pc' \in {"listening", "handlers", "test", "wait"}
  PROVE  LifeInv'
<1>1. /\ pins' = pins /\ written' = written /\ links' = links /\ progs' = progs
      /\ hgctl' = hgctl /\ signalled' = signalled /\ broken' = broken
      /\ hgctl["main"] = None /\ hgctl["handler"] = None
  BY SMT DEF kernel, Handling, LifeInv, OnlyThere
<1>2. Shape'
  BY <1>1 DEF LifeInv, Shape
<1>3. (OnlyThere /\ HandlerStops /\ Sofar /\ InOrder /\ EndIsClean)'
  BY <1>1, SMT DEF OnlyThere, HandlerStops, Sofar, InOrder, EndIsClean
<1>4. ServingIsEnforced'
  BY <1>1 DEF LifeInv, ServingIsEnforced
<1> QED
  BY <1>2, <1>3, <1>4 DEF LifeInv

LEMMA MainKeeps == LifeInv /\ (MainStep \/ Wake \/ EpollFails) => LifeInv'
<1> SUFFICES ASSUME LifeInv, MainStep \/ Wake \/ EpollFails PROVE LifeInv'
  OBVIOUS
<1>1. CASE InitServer
  <2>1. CASE Exit("noserver")
    <3>1. EndIsClean'
      BY <2>1, SMT DEF Exit, EndIsClean
    <3> QED
      BY <1>1, <2>1, <3>1, ExitKeeps DEF InitServer
  <2> QED
    BY <1>1, <2>1, ServingMoves, SMT DEF InitServer, MainAt
<1>2. CASE InstallHandlers \/ EnterRun \/ Wake
  BY <1>2, ServingMoves, SMT DEF InstallHandlers, EnterRun, Wake, MainAt
<1>3. CASE TestRunning
  <2>1. CASE pc' = "wait" /\ UNCHANGED hgctl
    BY <1>3, <2>1, ServingMoves, SMT DEF TestRunning, MainAt
  <2>2. CASE pc' = "leave" /\ Main(Stopping)
    BY <1>3, <2>2, StopCalled, SMT DEF TestRunning, MainAt
  <2> QED
    BY <1>3, <2>1, <2>2 DEF TestRunning
<1>4. CASE EpollFails
  BY <1>4, StopCalled, SMT DEF EpollFails, MainAt
<1>5. CASE Leave
  <2>1. /\ pc = "leave" /\ Ended("main") /\ Exit("success") /\ UNCHANGED kernel
        /\ broken' = broken
    BY <1>5 DEF Leave, MainAt
  <2>2. "leave" \notin broken =>
          links = {} /\ (\A d \in Direction : progs[d] = {}) /\ AllPins(None)
    BY <2>1, StopEnded DEF LifeInv, InOrder
  <2>3. EndIsClean'
    BY <2>1, <2>2, SMT DEF EndIsClean, Detached, AllPins, Exit, kernel
  <2> QED
    BY <2>1, <2>3, ExitKeeps
<1> QED
  BY <1>1, <1>2, <1>3, <1>4, <1>5, LoadConfigKeeps, StopDoneKeeps, StartDoneKeeps
  DEF MainStep

\* A signal before there is a handler ends the process, one behind it spawns a stop.
LEMMA SignalKeeps == LifeInv /\ Signal => LifeInv'
<1> SUFFICES ASSUME LifeInv, Signal PROVE LifeInv'
  OBVIOUS
<1>1. CASE Exit("term")
  <2>1. EndIsClean'
    BY <1>1, SMT DEF Exit, EndIsClean
  <2> QED
    BY <1>1, <2>1, ExitKeeps DEF Signal
<1>2. CASE pc \notin Early /\ hgctl' = [hgctl EXCEPT !["handler"] = Stopping] /\ pc' = pc
  <2>1. DOMAIN hgctl' = Slot /\ hgctl'["main"] = hgctl["main"] /\ hgctl'["handler"] = Stopping
    BY <1>2, SMT DEF LifeInv, Shape, Slot
  <2>2. /\ signalled' /\ pc # "down" /\ broken' = broken
        /\ pins' = pins /\ links' = links /\ progs' = progs
    BY DEF Signal, kernel
  <2>3. Shape'
    BY <2>1, <2>2, SMT DEF LifeInv, Shape
  <2>4. HandlerStops'
    <3>1. Rest(StopSteps, 1) = StopSteps
      BY Programs, FirstStep
    <3>2. hgctl'["handler"] = [todo |-> Rest(StopSteps, 1), id |-> 0, rc |-> "SUCCESS"]
      BY <2>1, <3>1 DEF Stopping
    <3> QED
      BY <3>2, SMT DEF HandlerStops
  <2>5. StopProgress' = StopProgress
    BY <2>1, <2>2 DEF StopProgress, MainAtStep, StopReached, Unhooked, Unlinked, AllPins
  <2>6. (OnlyThere /\ Sofar /\ InOrder /\ ServingIsEnforced /\ EndIsClean)'
    BY <1>2, <2>1, <2>2, <2>5, SMT
    DEF LifeInv, OnlyThere, Sofar, InOrder, ServingIsEnforced, EndIsClean, Early
  <2> QED
    BY <2>3, <2>4, <2>6 DEF LifeInv
<1> QED
  BY <1>1, <1>2 DEF Signal

LEMMA HandlerDoneKeeps == LifeInv /\ HandlerDone => LifeInv'
<1> SUFFICES ASSUME LifeInv, HandlerDone PROVE LifeInv'
  OBVIOUS
<1>1. /\ hgctl["handler"] # None /\ hgctl' = [hgctl EXCEPT !["handler"] = None]
      /\ signalled' = signalled /\ broken' = broken
      /\ pins' = pins /\ links' = links /\ progs' = progs
      /\ pc' = IF pc = "wait" THEN "test" ELSE pc
  BY DEF HandlerDone, Ended, kernel
<1>2. DOMAIN hgctl' = Slot /\ hgctl'["main"] = hgctl["main"] /\ hgctl'["handler"] = None
  BY <1>1, SMT DEF LifeInv, Shape, Slot
<1>3. signalled /\ pc # "down" /\ pc \notin Early
  BY <1>1 DEF LifeInv, OnlyThere
<1>4. Shape'
  BY <1>1, <1>2, SMT DEF LifeInv, Shape
<1>5. StopProgress' = StopProgress
  BY <1>1, <1>2 DEF StopProgress, MainAtStep, StopReached, Unhooked, Unlinked, AllPins
<1>6. (OnlyThere /\ HandlerStops /\ Sofar /\ InOrder /\ ServingIsEnforced /\ EndIsClean)'
  BY <1>1, <1>2, <1>3, <1>5, SMT
  DEF LifeInv, OnlyThere, HandlerStops, Sofar, InOrder, ServingIsEnforced, EndIsClean, Early
<1> QED
  BY <1>4, <1>6 DEF LifeInv

LEMMA CrashKeeps == LifeInv /\ Crash => LifeInv'
<1> SUFFICES ASSUME LifeInv, Crash PROVE LifeInv'
  OBVIOUS
<1>1. EndIsClean'
  BY SMT DEF Crash, Exit, EndIsClean
<1> QED
  BY <1>1, ExitKeeps DEF Crash

LEMMA BootKeeps == LifeInv /\ Boot => LifeInv'
<1> SUFFICES ASSUME LifeInv, Boot PROVE LifeInv'
  OBVIOUS
<1>1. pc = "down" /\ pc' = "boot" /\ broken' = {} /\ hgctl' = hgctl /\ UNCHANGED kernel
  BY DEF Boot
<1>2. hgctl["main"] = None /\ hgctl["handler"] = None
  BY <1>1, SMT DEF LifeInv, OnlyThere
<1>3. Shape'
  BY <1>1, SMT DEF LifeInv, Shape, kernel
<1>4. (OnlyThere /\ HandlerStops /\ Sofar /\ InOrder /\ ServingIsEnforced /\ EndIsClean)'
  BY <1>1, <1>2, SMT DEF OnlyThere, HandlerStops, Sofar, InOrder, ServingIsEnforced, EndIsClean
<1> QED
  BY <1>3, <1>4 DEF LifeInv

LEMMA LifeInit == Init => LifeInv
<1> SUFFICES ASSUME Init PROVE LifeInv
  OBVIOUS
<1>1. pc = "down"
  BY DEF Init
<1>2. Shape /\ hgctl["main"] = None /\ hgctl["handler"] = None
  BY SMT DEF Init, Shape, Slot
<1>3. OnlyThere /\ HandlerStops /\ Sofar /\ InOrder /\ ServingIsEnforced
  BY <1>1, <1>2, SMT DEF OnlyThere, HandlerStops, Sofar, InOrder, ServingIsEnforced
<1>4. EndIsClean
  BY SMT DEF Init, EndIsClean, Detached
<1> QED
  BY <1>2, <1>3, <1>4 DEF LifeInv

LEMMA LifeNext == LifeInv /\ [Next]_vars => LifeInv'
<1> SUFFICES ASSUME LifeInv, [Next]_vars PROVE LifeInv'
  OBVIOUS
<1>1. CASE \E s \in Slot : StartStep(s) \/ StopStep(s) \/ Kill(s)
  BY <1>1, HgctlKeeps, KillKeeps
<1>2. CASE SystemctlStart \/ Restart
  BY <1>2, BootKeeps DEF SystemctlStart, Restart
<1>3. CASE UNCHANGED vars
  <2>1. /\ pins' = pins /\ written' = written /\ links' = links /\ progs' = progs
        /\ hgctl' = hgctl /\ signalled' = signalled /\ pc' = pc /\ status' = status
        /\ broken' = broken
    BY <1>3 DEF vars, kernel, daemon
  <2>2. /\ Shape' /\ OnlyThere' /\ HandlerStops' /\ Sofar'
        /\ ServingIsEnforced' /\ EndIsClean'
    BY <2>1
    DEF LifeInv, Shape, OnlyThere, HandlerStops, Sofar, ServingIsEnforced, EndIsClean, Detached
  <2>3. StopProgress' = StopProgress
    BY <2>1 DEF StopProgress, MainAtStep, StopReached, Unhooked, Unlinked, AllPins
  <2>4. StartProgress' = StartProgress
    BY <2>1 DEF StartProgress, MainAtStep, StartReached, AllPins
  <2>5. CleanupProgress' = CleanupProgress
    BY <2>1 DEF CleanupProgress, MainAtStep, CleanupReached, Unhooked, Unlinked, AllPins
  <2> QED
    BY <2>1, <2>2, <2>3, <2>4, <2>5 DEF LifeInv, InOrder
<1> QED
  BY <1>1, <1>2, <1>3, MainKeeps, SignalKeeps, HandlerDoneKeeps, CrashKeeps DEF Next

\* A daemon nobody has signalled serves with its own programs alone on their
\* hooks, its own maps pinned and all links made, whatever earlier lives left,
\* unless the stop that should have removed it was killed.
THEOREM ServingCorrect == Spec => []ServingIsEnforced
<1>1. LifeInv => ServingIsEnforced
  BY DEF LifeInv
<1> QED
  BY <1>1, LifeInit, LifeNext, PTL DEF Spec

\* A daemon that left its loop, on a signal or a failing epoll_wait, or whose
\* hgctl start failed, left nothing in the kernel, unless main's hgctl was killed.
THEOREM EndCorrect == Spec => []EndIsClean
<1>1. LifeInv => EndIsClean
  BY DEF LifeInv
<1> QED
  BY <1>1, LifeInit, LifeNext, PTL DEF Spec

=============================================================================
