------------------------------ MODULE HgPacer -------------------------------
(***************************************************************************)
(* What the EDT shaper promises for one direction of one client: packets   *)
(* leave one after another, each no sooner than its own transmission time  *)
(* (delay) after its predecessor's departure and after the time it came,   *)
(* and an upload is refused rather than queued past the horizon.           *)
(*                                                                         *)
(* The state is that of a line that is busy until `free`: paced is all the *)
(* line time admitted since `start`.                                       *)
(***************************************************************************)
EXTENDS Integers

CONSTANTS Delay, Horizon

VARIABLES clock, start, free, paced

pvars == <<clock, start, free, paced>>

Init == clock \in Nat /\ start = clock /\ free = start /\ paced = 0

Advance ==
  /\ clock' \in Nat
  /\ clock' >= clock
  /\ UNCHANGED <<start, free, paced>>

\* A packet that came at t, now or earlier, is given its departure time: when
\* the line is free and it is here, plus its transmission time.
Admit ==
  \E t \in 0..clock, d \in Delay :
    LET dep == (IF t > free THEN t ELSE free) + d IN
      /\ dep - t <= Horizon
      /\ free' = dep
      /\ paced' = paced + d
      /\ UNCHANGED <<clock, start>>

\* The session is made anew: a new line, free at a clock reading of the past.
Restart ==
  /\ free' \in Nat
  /\ free' <= clock
  /\ start' = free'
  /\ paced' = 0
  /\ UNCHANGED clock

Next == Advance \/ Admit \/ Restart

Spec == Init /\ [][Next]_pvars

\* The line time admitted fits between the start and the end of the queue, and
\* the queue ends within the horizon: no more is sent in any period than its
\* length and one horizon allow.
Conforms == start + paced <= free /\ free <= clock + Horizon
=============================================================================
