---------------------------- MODULE HgEdtProofs -----------------------------
(***************************************************************************)
(* Proofs about HgEdt, for any number of CPUs, elements, lengths and rates *)
(* and any horizon.                                                        *)
(***************************************************************************)
EXTENDS HgEdt, TLAPS

\* The delay of a packet is a natural number whenever there is a rate.
LEMMA DelayNat ==
  ASSUME NEW l \in Len, NEW r \in Rate, r # 0
  PROVE  DelayOf(l, r) \in Nat
<1>1. l * Scale \in Nat
  BY EdtConstants
<1>2. \A x, y \in Nat : y # 0 => x \div y \in Nat
  OBVIOUS
<1> QED
  BY <1>1, <1>2, EdtConstants DEF DelayOf

JobTypeOK ==
  /\ job \in [CPU -> Job]
  /\ \A c \in CPU : job[c].pc # "idle" => job[c].el \in Elem

LEMMA Pcs == {"idle", "rate", "clock", "lock", "load", "store", "unlock"} \subseteq JobPc
BY DEF JobPc, Clocked, Locked

\* Replacing the record of one running CPU by a typed one keeps the type.
LEMMA JobUpdate ==
  ASSUME JobTypeOK, NEW c \in CPU, NEW j \in Job, j.pc # "idle" => j.el \in Elem,
         job' = [job EXCEPT ![c] = j]
  PROVE  JobTypeOK'
BY DEF JobTypeOK

\* A step of the shaper keeps the type of the jobs.
LEMMA ShaperJobType ==
  ASSUME TypeOK, NEW c \in CPU, Shaper(c)
  PROVE  JobTypeOK'
<1>1. JobTypeOK /\ job[c] \in Job
  BY DEF TypeOK, JobTypeOK
<1>2. NoJob \in Job /\ NoJob.pc = "idle"
  BY EdtConstants, Pcs DEF NoJob, Job
<1>3. CASE ReadRate(c)
  <2>1. CASE job' = [job EXCEPT ![c] = NoJob]
    BY <1>1, <1>2, <2>1, JobUpdate
  <2>2. ASSUME NEW l \in Len, profile[job[c].dir] # 0,
               job' = [job EXCEPT ![c].pc = "clock",
                                  ![c].delay = DelayOf(l, profile[job[c].dir])]
        PROVE  JobTypeOK'
    <3> DEFINE d == DelayOf(l, profile[job[c].dir])
    <3>1. profile[job[c].dir] \in Rate
      BY <1>1, <2>2 DEF TypeOK, Job
    <3>2. d \in Nat
      BY <2>2, <3>1, DelayNat
    <3> HIDE DEF d
    <3>3. [job[c] EXCEPT !.pc = "clock", !.delay = d] \in Job
      BY <1>1, <3>2, Pcs DEF Job
    <3>4. job[c].el \in Elem
      BY <1>1, <1>3 DEF ReadRate, JobTypeOK
    <3>5. job' = [job EXCEPT ![c] = [job[c] EXCEPT !.pc = "clock", !.delay = d]]
      BY <1>1, <2>2 DEF d, JobTypeOK
    <3>6. [job[c] EXCEPT !.pc = "clock", !.delay = d].el = job[c].el
      BY <1>1 DEF Job
    <3> QED
      BY <1>1, <3>3, <3>4, <3>5, <3>6, JobUpdate
  <2> QED
    BY <1>3, <2>1, <2>2 DEF ReadRate
<1>4. CASE ReadClock(c)
  <2> DEFINE j == [job[c] EXCEPT !.pc = "lock", !.t = now]
  <2>1. j \in Job /\ j.el = job[c].el
    BY <1>1, Pcs DEF Job, TypeOK
  <2>2. job' = [job EXCEPT ![c] = j]
    BY <1>1, <1>4 DEF ReadClock, JobTypeOK
  <2>3. job[c].el \in Elem
    BY <1>1, <1>4 DEF ReadClock, JobTypeOK
  <2> QED
    BY <1>1, <2>1, <2>2, <2>3, JobUpdate
<1>5. ASSUME NEW l \in JobPc, Goto(c, l), job[c].pc # "idle" PROVE JobTypeOK'
  <2> DEFINE j == [job[c] EXCEPT !.pc = l]
  <2>1. j \in Job /\ j.el = job[c].el
    BY <1>1 DEF Job
  <2>2. job' = [job EXCEPT ![c] = j]
    BY <1>1, <1>5 DEF Goto, JobTypeOK
  <2>3. job[c].el \in Elem
    BY <1>1, <1>5 DEF JobTypeOK
  <2> QED
    BY <1>1, <2>1, <2>2, <2>3, JobUpdate
<1>6. CASE Lock(c)
  BY <1>5, <1>6, Pcs DEF Lock
<1>7. CASE Load(c)
  <2> DEFINE next == Departure(job[c].t, last[job[c].el][job[c].dir], job[c].delay)
  <2>1. job[c].el \in Elem
    BY <1>1, <1>7 DEF Load, JobTypeOK
  <2>2. next \in Nat
    BY <1>1, <2>1 DEF Departure, TypeOK, Job
  <2>3. CASE Goto(c, "unlock")
    BY <1>5, <1>7, <2>3, Pcs DEF Load
  <2>4. CASE job' = [job EXCEPT ![c].pc = "store", ![c].next = next]
    <3> HIDE DEF next
    <3> DEFINE j == [job[c] EXCEPT !.pc = "store", !.next = next]
    <3>1. j \in Job /\ j.el = job[c].el
      BY <1>1, <2>2, Pcs DEF Job
    <3>2. job' = [job EXCEPT ![c] = j]
      BY <1>1, <2>4 DEF JobTypeOK
    <3> QED
      BY <1>1, <2>1, <3>1, <3>2, JobUpdate
  <2> QED
    BY <1>7, <2>3, <2>4 DEF Load
<1>8. CASE Store(c)
  BY <1>5, <1>8, Pcs DEF Store
<1>9. CASE Unlock(c)
  BY <1>1, <1>2, <1>9, JobUpdate DEF Unlock
<1> QED
  BY <1>3, <1>4, <1>6, <1>7, <1>8, <1>9 DEF Shaper

\* The type invariant is inductive.
LEMMA TypeStep == TypeOK /\ [Next]_vars => TypeOK'
<1> SUFFICES ASSUME TypeOK, [Next]_vars PROVE TypeOK'
  OBVIOUS
<1>1. CASE Tick
  BY <1>1 DEF Tick, history, TypeOK
<1>2. CASE AddReadClock
  BY <1>2 DEF AddReadClock, history, TypeOK
<1>3. CASE AddInsert
  BY <1>3 DEF AddInsert, TypeOK
<1>4. CASE SetProfile
  BY <1>4 DEF SetProfile, history, TypeOK
<1>5. CASE DeleteProfile
  BY <1>5 DEF DeleteProfile, history, TypeOK
<1>6. CASE DeleteClient
  BY <1>6 DEF DeleteClient, history, TypeOK
<1>7. ASSUME NEW c \in CPU, NEW d \in Dir, Enter(c, d) PROVE TypeOK'
  <2> DEFINE j == [NoJob EXCEPT !.pc = "rate", !.el = cur, !.dir = d]
  <2>1. cur \in Elem
    BY <1>7 DEF Enter, TypeOK
  <2>2. j \in Job /\ j.el = cur
    BY <2>1, Pcs DEF NoJob, Job
  <2>3. JobTypeOK'
    BY <1>7, <2>1, <2>2, JobUpdate DEF Enter, JobTypeOK, TypeOK
  <2> QED
    BY <1>7, <2>3 DEF Enter, history, TypeOK, JobTypeOK
<1>8. ASSUME NEW c \in CPU, Shaper(c) PROVE TypeOK'
  <2> USE DEF Shaper, ReadRate, ReadClock, Lock, Load, Store, Unlock, history
  <2>1. JobTypeOK'
    BY <1>8, ShaperJobType
  <2>2. /\ last' \in [Elem -> [Dir -> Nat]]
        /\ paced' \in [Elem -> [Dir -> Nat]]
    <3>1. CASE Store(c)
      <4>1. /\ job[c].el \in Elem
            /\ job[c].dir \in Dir /\ job[c].next \in Nat /\ job[c].delay \in Nat
        BY <3>1 DEF TypeOK, Job
      <4> QED
        BY <3>1, <4>1 DEF TypeOK
    <3> QED
      BY <1>8, <3>1 DEF TypeOK
  <2>3. holder' \in [Elem -> CPU \cup {None}]
    BY <1>8 DEF TypeOK
  <2>4. UNCHANGED <<now, profile, cur, adding, used, start>>
    BY <1>8
  <2> QED
    BY <2>1, <2>2, <2>3, <2>4 DEF JobTypeOK, TypeOK
<1>9. CASE UNCHANGED vars
  BY <1>9 DEF vars, history, TypeOK
<1> QED
  BY <1>1, <1>2, <1>3, <1>4, <1>5, <1>6, <1>7, <1>8, <1>9 DEF Next

\* Every value has its type, whatever the CPUs and hgctl do.
THEOREM TypeCorrect == Spec => []TypeOK
<1>1. Init => TypeOK
  BY EdtConstants DEF Init, TypeOK, NoJob, Job, JobPc
<1>2. TypeOK /\ [Next]_vars => TypeOK'
  BY TypeStep
<1> QED
  BY <1>1, <1>2, PTL DEF Spec

-----------------------------------------------------------------------------
LEMMA InitInv == Init => EdtInv
BY EdtConstants DEF Init, EdtInv, OnUsedElements, LockHeld, ClocksPast, Computed,
   BacklogBounded, RateConforms, NoJob, Locked, Clocked

\* What the steps that touch neither jobs, locks nor elements keep.
LEMMA InvFrame ==
  ASSUME TypeOK, EdtInv, UNCHANGED <<adding, last, holder, job, used, start, paced>>,
         now' \in Nat, now' >= now, cur' \in {cur, None}
  PROVE  EdtInv'
<1> USE DEF TypeOK, EdtInv
<1>1. OnUsedElements'
  BY DEF OnUsedElements
<1>2. LockHeld'
  BY DEF LockHeld
<1>3. ClocksPast'
  <2>1. \A c \in CPU : job[c].t \in Nat
    BY DEF Job
  <2> QED
    BY <2>1, EdtConstants DEF ClocksPast
<1>4. Computed'
  BY DEF Computed
<1>5. BacklogBounded'
  <2>1. \A e \in used : last[e]["up"] \in Nat
    BY EdtConstants
  <2> QED
    BY <2>1, EdtConstants DEF BacklogBounded
<1>6. RateConforms'
  BY DEF RateConforms
<1> QED
  BY <1>1, <1>2, <1>3, <1>4, <1>5, <1>6

LEMMA InvAdd == TypeOK /\ EdtInv /\ AddInsert => EdtInv'
<1> SUFFICES ASSUME TypeOK, EdtInv,
                    NEW e \in Elem \ used,
                    adding # None,
                    cur' = e,
                    used' = used \cup {e},
                    last' = [last EXCEPT ![e] = [d \in Dir |-> adding]],
                    start' = [start EXCEPT ![e] = adding],
                    paced' = [paced EXCEPT ![e] = [d \in Dir |-> 0]],
                    adding' = None,
                    UNCHANGED <<now, profile, holder, job>>
             PROVE  EdtInv'
  BY DEF AddInsert
<1>1. adding \in Nat /\ adding <= now /\ now \in Nat
  BY DEF TypeOK, EdtInv, ClocksPast
<1>2. OnUsedElements'
  BY DEF EdtInv, OnUsedElements
<1>3. LockHeld'
  BY DEF EdtInv, LockHeld
<1>4. ClocksPast'
  BY DEF EdtInv, ClocksPast
<1>5. \A x \in used : last'[x] = last[x] /\ start'[x] = start[x] /\ paced'[x] = paced[x]
  BY DEF TypeOK
<1>6. /\ last'[e] = [d \in Dir |-> adding]
      /\ start'[e] = adding
      /\ paced'[e] = [d \in Dir |-> 0]
  BY DEF TypeOK
<1>7. Computed'
  BY <1>5 DEF EdtInv, Computed, OnUsedElements
<1>8. BacklogBounded'
  BY <1>1, <1>5, <1>6, EdtConstants DEF EdtInv, BacklogBounded
<1>9. RateConforms'
  BY <1>1, <1>5, <1>6 DEF EdtInv, RateConforms
<1> QED
  BY <1>2, <1>3, <1>4, <1>7, <1>8, <1>9 DEF EdtInv

\* What the steps of one CPU keep that store nothing.
LEMMA InvJob ==
  ASSUME TypeOK, EdtInv, NEW c \in CPU,
         UNCHANGED <<now, cur, adding, last, used, start, paced>>,
         \A x \in CPU \ {c} : job'[x] = job[x],
         job'[c].pc # "idle" => job'[c].el \in used,
         job'[c].pc \in Clocked => job'[c].t <= now,
         LockHeld',
         job'[c].pc = "store" =>
           /\ job'[c].next = Departure(job'[c].t, last[job'[c].el][job'[c].dir], job'[c].delay)
           /\ ~TooDeep(job'[c], job'[c].next)
  PROVE  EdtInv'
<1>1. OnUsedElements'
  BY DEF EdtInv, OnUsedElements
<1>2. ClocksPast'
  BY DEF EdtInv, ClocksPast
<1>3. Computed'
  BY DEF EdtInv, Computed
<1>4. BacklogBounded' /\ RateConforms'
  BY DEF EdtInv, BacklogBounded, RateConforms
<1> QED
  BY <1>1, <1>2, <1>3, <1>4 DEF EdtInv

LEMMA InvStore == ASSUME TypeOK, EdtInv, NEW c \in CPU, Store(c) PROVE EdtInv'
<1> DEFINE j == job[c]
<1>1. /\ j \in Job /\ j.pc = "store" /\ j.el \in used /\ j.el \in Elem
      /\ j.dir \in Dir /\ j.next \in Nat /\ j.t \in Nat /\ j.delay \in Nat
  BY DEF Store, TypeOK, Job, EdtInv, OnUsedElements
<1>2. /\ j.next = Departure(j.t, last[j.el][j.dir], j.delay)
      /\ ~TooDeep(j, j.next)
      /\ holder[j.el] = c
      /\ j.t <= now
  BY <1>1 DEF EdtInv, Computed, LockHeld, ClocksPast, Locked, Clocked
<1>3. /\ last' = [last EXCEPT ![j.el][j.dir] = j.next]
      /\ paced' = [paced EXCEPT ![j.el][j.dir] = paced[j.el][j.dir] + j.delay]
      /\ UNCHANGED <<now, cur, adding, holder, used, start>>
  BY <1>1 DEF Store, TypeOK
<1>4. /\ \A x \in CPU \ {c} : job'[x] = job[x]
      /\ job'[c].pc = "unlock" /\ job'[c].el = j.el /\ job'[c].t = j.t
  BY <1>1 DEF Store, Goto, TypeOK, Job
<1>5. OnUsedElements'
  BY <1>1, <1>3, <1>4 DEF EdtInv, OnUsedElements
<1>6. LockHeld'
  BY <1>2, <1>3, <1>4 DEF EdtInv, LockHeld
<1>7. ClocksPast'
  BY <1>2, <1>3, <1>4 DEF EdtInv, ClocksPast
<1>8. Computed'
  <2> SUFFICES ASSUME NEW x \in CPU, job'[x].pc = "store"
               PROVE  /\ job'[x].next = Departure(job'[x].t, last'[job'[x].el][job'[x].dir],
                                                  job'[x].delay)
                      /\ ~TooDeep(job'[x], job'[x].next)
    BY DEF Computed
  <2>1. x # c /\ job'[x] = job[x] /\ job[x].el \in Elem
    BY <1>4 DEF TypeOK
  <2>2. job[x].el # j.el
    BY <1>2, <2>1 DEF EdtInv, LockHeld, Locked
  <2>3. last'[job[x].el] = last[job[x].el]
    BY <1>1, <1>3, <2>1, <2>2 DEF TypeOK
  <2> QED
    BY <2>1, <2>3 DEF EdtInv, Computed
<1>9. \A e \in used, d \in Dir :
        \/ e = j.el /\ d = j.dir /\ last'[e][d] = j.next
           /\ paced'[e][d] = paced[e][d] + j.delay
        \/ last'[e][d] = last[e][d] /\ paced'[e][d] = paced[e][d]
  BY <1>1, <1>3 DEF TypeOK
<1>10. \A e \in used, d \in Dir : last[e][d] \in Nat /\ paced[e][d] \in Nat /\ start[e] \in Nat
  BY DEF TypeOK
<1>11. BacklogBounded'
  <2>1. j.dir = "up" => j.next <= now + Horizon
    BY <1>1, <1>2, EdtConstants DEF TooDeep, TypeOK
  <2> QED
    BY <1>3, <1>9, <2>1, EdtConstants DEF EdtInv, BacklogBounded
<1>12. RateConforms'
  <2>1. j.next >= last[j.el][j.dir] + j.delay
    BY <1>1, <1>2, <1>10 DEF Departure
  <2>2. start[j.el] + paced[j.el][j.dir] <= last[j.el][j.dir]
    BY <1>1 DEF EdtInv, RateConforms
  <2>3. start[j.el] + (paced[j.el][j.dir] + j.delay) <= j.next
    BY <1>1, <1>10, <2>1, <2>2
  <2> QED
    BY <1>1, <1>3, <1>9, <2>3 DEF EdtInv, RateConforms
<1> QED
  BY <1>5, <1>6, <1>7, <1>8, <1>11, <1>12 DEF EdtInv

LEMMA InvShaper == ASSUME TypeOK, EdtInv, NEW c \in CPU, Shaper(c) PROVE EdtInv'
<1> DEFINE j == job[c]
<1>1. /\ job \in [CPU -> Job] /\ j \in Job /\ holder \in [Elem -> CPU \cup {None}]
      /\ now \in Nat
      /\ j.pc # "idle" => j.el \in used /\ j.el \in Elem
      /\ j.pc \in Clocked => j.t <= now
      /\ j.pc \in Locked => holder[j.el] = c
  BY DEF TypeOK, EdtInv, OnUsedElements, ClocksPast, LockHeld
<1>2. CASE ReadRate(c)
  <2>1. /\ \A x \in CPU \ {c} : job'[x] = job[x]
        /\ \/ job'[c] = NoJob
           \/ job'[c].pc = "clock" /\ job'[c].el = j.el
        /\ j.pc = "rate"
    BY <1>1, <1>2 DEF ReadRate, Job
  <2>2. LockHeld'
    BY <1>2, <2>1 DEF EdtInv, LockHeld, ReadRate, NoJob, Locked
  <2> QED
    BY <1>1, <1>2, <2>1, <2>2, InvJob DEF ReadRate, NoJob, Clocked, Locked, history
<1>3. CASE ReadClock(c)
  <2>1. /\ \A x \in CPU \ {c} : job'[x] = job[x]
        /\ job'[c].pc = "lock" /\ job'[c].el = j.el /\ job'[c].t = now
        /\ j.pc = "clock"
    BY <1>1, <1>3 DEF ReadClock, Job
  <2>2. LockHeld'
    BY <1>3, <2>1 DEF EdtInv, LockHeld, ReadClock, Locked
  <2> QED
    BY <1>1, <1>3, <2>1, <2>2, InvJob DEF ReadClock, history
<1>4. CASE Lock(c)
  <2>1. /\ \A x \in CPU \ {c} : job'[x] = job[x]
        /\ job'[c].pc = "load" /\ job'[c].el = j.el /\ job'[c].t = j.t
        /\ j.pc = "lock"
    BY <1>1, <1>4 DEF Lock, Goto, Job
  <2>2. holder[j.el] = None /\ holder' = [holder EXCEPT ![j.el] = c]
    BY <1>4 DEF Lock
  <2>3. LockHeld'
    <3> SUFFICES ASSUME NEW x \in CPU, job'[x].pc \in Locked
                 PROVE  holder'[job'[x].el] = x
      BY DEF LockHeld
    <3>1. CASE x = c
      BY <1>1, <2>1, <2>2, <3>1
    <3>2. CASE x # c
      <4>1. holder[job[x].el] = x /\ x # None
        BY <2>1, <3>2, EdtConstants DEF EdtInv, LockHeld
      <4> QED
        BY <1>1, <2>1, <2>2, <3>2, <4>1
    <3> QED
      BY <3>1, <3>2
  <2>4. j.t <= now
    BY <1>1, <2>1 DEF Clocked
  <2> QED
    BY <1>1, <1>4, <2>1, <2>3, <2>4, InvJob DEF Lock, history
<1>5. CASE Load(c)
  <2> DEFINE next == Departure(j.t, last[j.el][j.dir], j.delay)
  <2>1. j.pc = "load" /\ j.t <= now /\ holder[j.el] = c
    BY <1>1, <1>5 DEF Load, Clocked, Locked
  <2>2. CASE Goto(c, "unlock")
    <3>1. /\ \A x \in CPU \ {c} : job'[x] = job[x]
          /\ job'[c].pc = "unlock" /\ job'[c].el = j.el /\ job'[c].t = j.t
      BY <1>1, <2>2 DEF Goto, Job
    <3>2. LockHeld'
      BY <1>5, <2>1, <3>1 DEF EdtInv, LockHeld, Load
    <3> QED
      BY <1>1, <1>5, <2>1, <3>1, <3>2, InvJob DEF Load, history
  <2>3. CASE ~TooDeep(j, next) /\ job' = [job EXCEPT ![c].pc = "store", ![c].next = next]
    <3> HIDE DEF next
    <3>1. /\ \A x \in CPU \ {c} : job'[x] = job[x]
          /\ job'[c].pc = "store" /\ job'[c].el = j.el /\ job'[c].t = j.t
          /\ job'[c].dir = j.dir /\ job'[c].delay = j.delay /\ job'[c].next = next
      BY <1>1, <2>3 DEF Job
    <3>2. LockHeld'
      BY <1>5, <2>1, <3>1 DEF EdtInv, LockHeld, Load
    <3>3. ~TooDeep(job'[c], next)
      BY <2>3, <3>1 DEF TooDeep
    <3>4. next = Departure(job'[c].t, last[job'[c].el][job'[c].dir], job'[c].delay)
      BY <3>1 DEF next
    <3> QED
      BY <1>1, <1>5, <2>1, <3>1, <3>2, <3>3, <3>4, InvJob DEF Load, history
  <2> QED
    BY <1>5, <2>2, <2>3 DEF Load
<1>6. CASE Store(c)
  BY <1>6, InvStore
<1>7. CASE Unlock(c)
  <2>1. /\ \A x \in CPU \ {c} : job'[x] = job[x]
        /\ job'[c].pc = "idle"
        /\ holder' = [holder EXCEPT ![j.el] = None]
        /\ j.pc = "unlock" /\ holder[j.el] = c
    BY <1>1, <1>7 DEF Unlock, NoJob, Locked
  <2>2. LockHeld'
    <3> SUFFICES ASSUME NEW x \in CPU, job'[x].pc \in Locked
                 PROVE  holder'[job'[x].el] = x
      BY DEF LockHeld
    <3>1. x # c /\ job'[x] = job[x]
      BY <2>1 DEF Locked
    <3>2. holder[job[x].el] = x
      BY <3>1 DEF EdtInv, LockHeld
    <3> QED
      BY <1>1, <2>1, <3>1, <3>2
  <2> QED
    BY <1>7, <2>1, <2>2, InvJob DEF Unlock, Clocked, Locked, history
<1> QED
  BY <1>2, <1>3, <1>4, <1>5, <1>6, <1>7 DEF Shaper

LEMMA InvStep == TypeOK /\ TypeOK' /\ EdtInv /\ [Next]_vars => EdtInv'
<1> SUFFICES ASSUME TypeOK, TypeOK', EdtInv, [Next]_vars PROVE EdtInv'
  OBVIOUS
<1> USE DEF history
<1>1. CASE Tick
  BY <1>1, InvFrame DEF Tick, TypeOK
<1>2. CASE AddReadClock
  BY <1>2 DEF AddReadClock, TypeOK, EdtInv, OnUsedElements, LockHeld, ClocksPast, Computed,
              BacklogBounded, RateConforms
<1>3. CASE AddInsert
  BY <1>3, InvAdd
<1>4. CASE SetProfile \/ DeleteProfile \/ DeleteClient
  BY <1>4, InvFrame DEF SetProfile, DeleteProfile, DeleteClient, TypeOK
<1>5. ASSUME NEW c \in CPU, NEW d \in Dir, Enter(c, d) PROVE EdtInv'
  <2>1. cur \in used
    BY <1>5 DEF Enter, EdtInv, OnUsedElements
  <2>2. /\ \A x \in CPU \ {c} : job'[x] = job[x]
        /\ job'[c].pc = "rate" /\ job'[c].el = cur /\ job[c].pc = "idle"
    BY <1>5 DEF Enter, NoJob, TypeOK
  <2>3. LockHeld'
    BY <1>5, <2>2 DEF EdtInv, LockHeld, Enter, Locked
  <2> QED
    BY <1>5, <2>1, <2>2, <2>3, InvJob DEF Enter, Clocked, Locked
<1>6. ASSUME NEW c \in CPU, Shaper(c) PROVE EdtInv'
  BY <1>6, InvShaper
<1>7. CASE UNCHANGED vars
  BY <1>7, InvFrame DEF vars, TypeOK
<1> QED
  BY <1>1, <1>2, <1>3, <1>4, <1>5, <1>6, <1>7 DEF Next

\* What a CPU carries through apply_edt_shaping stays true until it is stored.
THEOREM InvCorrect == Spec => []EdtInv
<1>1. Init => EdtInv
  BY InitInv
<1>2. TypeOK /\ TypeOK' /\ EdtInv /\ [Next]_vars => EdtInv'
  BY InvStep
<1> QED
  BY <1>1, <1>2, TypeCorrect, PTL DEF Spec

\* Uploads are never queued past the horizon.
THEOREM BacklogCorrect == Spec => []BacklogBounded
<1>1. EdtInv => BacklogBounded
  BY DEF EdtInv
<1> QED
  BY <1>1, InvCorrect, PTL

\* No client is given more transmission time than has passed, its queue included.
THEOREM RateCorrect == Spec => []RateConforms
<1>1. EdtInv => RateConforms
  BY DEF EdtInv
<1> QED
  BY <1>1, InvCorrect, PTL

-----------------------------------------------------------------------------
\* An element that is linked keeps or advances its departure times.
LEMMA OrderStep ==
  TypeOK /\ EdtInv /\ [Next]_vars
    => [\A e \in used, d \in Dir : last'[e][d] >= last[e][d]]_vars
<1> SUFFICES ASSUME TypeOK, EdtInv, Next, NEW e \in used, NEW d \in Dir
             PROVE  last'[e][d] >= last[e][d]
  OBVIOUS
<1>1. e \in Elem /\ last[e][d] \in Nat
  BY DEF TypeOK
<1>2. CASE UNCHANGED last
  BY <1>1, <1>2
<1>3. CASE AddInsert
  BY <1>1, <1>3 DEF AddInsert, TypeOK
<1>4. ASSUME NEW c \in CPU, Store(c) PROVE last'[e][d] >= last[e][d]
  <2> DEFINE j == job[c]
  <2>1. /\ j.el \in Elem /\ j.dir \in Dir /\ j.t \in Nat /\ j.delay \in Nat
        /\ j.next = Departure(j.t, last[j.el][j.dir], j.delay)
    BY <1>4 DEF Store, TypeOK, Job, EdtInv, Computed
  <2>2. j.next >= last[j.el][j.dir]
    BY <2>1 DEF Departure, TypeOK
  <2>3. last' = [last EXCEPT ![j.el][j.dir] = j.next]
    BY <1>4 DEF Store
  <2> QED
    BY <1>1, <2>1, <2>2, <2>3 DEF TypeOK
<1> QED
  BY <1>2, <1>3, <1>4 DEF Next, Tick, AddReadClock, SetProfile, DeleteProfile, DeleteClient,
     Enter, Shaper, ReadRate, ReadClock, Lock, Load, Unlock, history

\* FQ gets the packets of an element in the order of their departure times.
THEOREM OrderCorrect == Spec => DeparturesInOrder
<1>1. TypeOK /\ EdtInv /\ [Next]_vars
        => [\A e \in used, d \in Dir : last'[e][d] >= last[e][d]]_vars
  BY OrderStep
<1> QED
  BY <1>1, TypeCorrect, InvCorrect, PTL DEF Spec, DeparturesInOrder

-----------------------------------------------------------------------------
(***************************************************************************)
(* HgEdt implements HgPacer.                                               *)
(***************************************************************************)
\* A CPU past the rate lookup charges the delay of some length at some rate.
Charged == \A c \in CPU : job[c].pc \in {"clock"} \cup Clocked => job[c].delay \in Delays

LEMMA ChargedStep == TypeOK /\ Charged /\ [Next]_vars => Charged'
<1> SUFFICES ASSUME TypeOK, Charged, [Next]_vars PROVE Charged'
  OBVIOUS
<1>1. CASE UNCHANGED job
  BY <1>1 DEF Charged
<1>2. ASSUME NEW c \in CPU, NEW d \in Dir, Enter(c, d) PROVE Charged'
  BY <1>2 DEF Enter, NoJob, TypeOK, Charged, Clocked, Locked
<1>3. ASSUME NEW c \in CPU, ReadRate(c) PROVE Charged'
  <2>1. CASE job' = [job EXCEPT ![c] = NoJob]
    BY <2>1 DEF NoJob, TypeOK, Charged, Clocked, Locked
  <2>2. ASSUME NEW l \in Len, profile[job[c].dir] # 0,
               job' = [job EXCEPT ![c].pc = "clock",
                                  ![c].delay = DelayOf(l, profile[job[c].dir])]
        PROVE  Charged'
    <3>1. profile[job[c].dir] \in Rate \ {0}
      BY <2>2 DEF TypeOK, Job
    <3>2. DelayOf(l, profile[job[c].dir]) \in Delays
      BY <3>1 DEF Delays
    <3> QED
      BY <2>2, <3>2 DEF TypeOK, Job, Charged
  <2> QED
    BY <1>3, <2>1, <2>2 DEF ReadRate
<1>4. ASSUME NEW c \in CPU,
             ReadClock(c) \/ Lock(c) \/ Load(c) \/ Store(c) \/ Unlock(c)
      PROVE  Charged'
  <2>1. \A x \in CPU \ {c} : job'[x] = job[x]
    BY <1>4 DEF ReadClock, Lock, Load, Store, Unlock, Goto, TypeOK
  <2>2. job'[c].pc \in Clocked =>
          job[c].pc \in {"clock"} \cup Clocked /\ job'[c].delay = job[c].delay
    BY <1>4 DEF ReadClock, Lock, Load, Store, Unlock, Goto, NoJob, TypeOK, Job, Clocked, Locked
  <2>3. job'[c].pc # "clock"
    BY <1>4 DEF ReadClock, Lock, Load, Store, Unlock, Goto, NoJob, TypeOK, Job
  <2> QED
    BY <2>1, <2>2, <2>3 DEF Charged
<1> QED
  BY <1>1, <1>2, <1>3, <1>4 DEF Next, Tick, AddReadClock, AddInsert, SetProfile,
     DeleteProfile, DeleteClient, Shaper, vars

LEMMA RefineInit == Init => Pacer!Init
BY EdtConstants DEF Init, Pacer!Init

\* Every step of HgEdt is a step of the watched element's line, or none.
LEMMA RefineStep ==
  TypeOK /\ EdtInv /\ Charged /\ [Next]_vars => [Pacer!Next]_Pacer!pvars
<1> SUFFICES ASSUME TypeOK, EdtInv, Charged, [Next]_vars PROVE [Pacer!Next]_Pacer!pvars
  OBVIOUS
<1> USE EdtConstants
<1>1. CASE Tick
  BY <1>1 DEF Tick, TypeOK, Pacer!Next, Pacer!Advance, history
<1>2. CASE AddInsert
  <2>1. PICK e \in Elem \ used :
          /\ last' = [last EXCEPT ![e] = [d \in Dir |-> adding]]
          /\ start' = [start EXCEPT ![e] = adding]
          /\ paced' = [paced EXCEPT ![e] = [d \in Dir |-> 0]]
    BY <1>2 DEF AddInsert
  <2>2. adding \in Nat /\ adding <= now /\ now' = now
    BY <1>2 DEF AddInsert, TypeOK, EdtInv, ClocksPast
  <2>3. CASE e = Watched
    BY <2>1, <2>2, <2>3 DEF TypeOK, Pacer!Next, Pacer!Restart
  <2>4. CASE e # Watched
    BY <2>1, <2>2, <2>4 DEF TypeOK, Pacer!pvars
  <2> QED
    BY <2>3, <2>4
<1>3. ASSUME NEW c \in CPU, Store(c) PROVE [Pacer!Next]_Pacer!pvars
  <2> DEFINE j == job[c]
  <2>1. /\ j.el \in Elem /\ j.dir \in Dir /\ j.t \in Nat /\ j.delay \in Delays
        /\ j.next = Departure(j.t, last[j.el][j.dir], j.delay)
        /\ ~TooDeep(j, j.next) /\ j.t <= now
    BY <1>3 DEF Store, TypeOK, Job, EdtInv, Computed, ClocksPast, Charged, Clocked, Locked
  <2>2. /\ last' = [last EXCEPT ![j.el][j.dir] = j.next]
        /\ paced' = [paced EXCEPT ![j.el][j.dir] = paced[j.el][j.dir] + j.delay]
        /\ now' = now /\ start' = start
    BY <1>3, <2>1 DEF Store, TypeOK
  <2>3. CASE j.el = Watched /\ j.dir = "up"
    <3>1. /\ last'[Watched]["up"] = j.next
          /\ paced'[Watched]["up"] = paced[Watched]["up"] + j.delay
      BY <2>1, <2>2, <2>3 DEF TypeOK
    <3>2. j.t \in 0..now
      BY <2>1 DEF TypeOK
    <3>3. /\ j.next = (IF j.t > last[Watched]["up"] THEN j.t ELSE last[Watched]["up"]) + j.delay
          /\ j.next - j.t <= Horizon
      <4>1. j.delay \in Nat
        BY <1>3 DEF TypeOK, Job
      <4> QED
        BY <2>1, <2>3, <4>1 DEF Departure, TooDeep, TypeOK
    <3>4. Pacer!Admit
      BY <2>1, <2>2, <3>1, <3>2, <3>3 DEF Pacer!Admit
    <3> QED
      BY <3>4 DEF Pacer!Next
  <2>4. CASE ~(j.el = Watched /\ j.dir = "up")
    <3>1. /\ last'[Watched]["up"] = last[Watched]["up"]
          /\ paced'[Watched]["up"] = paced[Watched]["up"]
      BY <2>1, <2>2, <2>4 DEF TypeOK
    <3> QED
      BY <2>2, <3>1 DEF Pacer!pvars
  <2> QED
    BY <2>3, <2>4
<1>4. CASE UNCHANGED <<now, last, start, paced>>
  BY <1>4 DEF Pacer!pvars
<1> QED
  BY <1>1, <1>2, <1>3, <1>4 DEF Next, AddReadClock, SetProfile, DeleteProfile, DeleteClient,
     Enter, Shaper, ReadRate, ReadClock, Lock, Load, Unlock, history, vars

\* The uploads paced on an element are a line that HgPacer specifies.
THEOREM Refinement == Spec => ImplementsPacer
<1>1. Init => Pacer!Init /\ Charged
  BY RefineInit DEF Init, NoJob, Charged, Clocked, Locked
<1>2. TypeOK /\ Charged /\ [Next]_vars => Charged'
  BY ChargedStep
<1>3. TypeOK /\ EdtInv /\ Charged /\ [Next]_vars => [Pacer!Next]_Pacer!pvars
  BY RefineStep
<1> QED
  BY <1>1, <1>2, <1>3, TypeCorrect, InvCorrect, PTL DEF Spec, ImplementsPacer, Pacer!Spec
=============================================================================
