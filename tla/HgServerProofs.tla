---------------------------- MODULE HgServerProofs ---------------------------
(***************************************************************************)
(* Proofs about HgServer, for any number of clients, whatever they send    *)
(* and however it is cut into packets and reads.                           *)
(***************************************************************************)
EXTENDS HgServer, SequenceTheorems, WellFoundedInduction, TLAPS

-----------------------------------------------------------------------------
(***************************************************************************)
(* Induction, as a least counterexample, and iteration.                    *)
(***************************************************************************)
LEMMA Least ==
  ASSUME NEW S \in SUBSET Nat, S # {}
  PROVE  \E n \in S : \A m \in S : n <= m
<1>1. IsWellFoundedOn(OpToRel(<, Nat), Nat)
  BY NatLessThanWellFounded
<1>2. PICK R : R = OpToRel(<, Nat)
  OBVIOUS
<1>3. PICK n \in S : \A m \in S : ~(<<m, n>> \in R)
  BY <1>1, <1>2, WFMin
<1>4. \A m \in S : ~ (m < n)
  BY <1>2, <1>3, Zenon DEF OpToRel
<1> QED
  BY <1>4

\* A function can be iterated: the recursive definition has a solution.
LEMMA Iterates ==
  ASSUME NEW D, NEW f \in [D -> D], NEW a \in D
  PROVE  \E g \in [Nat -> D] : g = [n \in Nat |-> IF n = 0 THEN a ELSE f[g[n - 1]]]
<1> DEFINE Part(n) == {g \in [0..n -> D] :
                         \A i \in 0..n : g[i] = IF i = 0 THEN a ELSE f[g[i - 1]]}
<1>1. \A n \in Nat : Part(n) # {}
  <2> DEFINE Bad == {n \in Nat : Part(n) = {}}
  <2> SUFFICES ASSUME Bad # {} PROVE FALSE
    OBVIOUS
  <2>1. PICK n \in Bad : \A m \in Bad : n <= m
    <3>1. Bad \in SUBSET Nat
      OBVIOUS
    <3> HIDE DEF Bad
    <3> QED
      BY <3>1, Least
  <2>2. n # 0
    <3>1. [i \in 0..0 |-> a] \in Part(0)
      OBVIOUS
    <3> QED
      BY <2>1, <3>1
  <2>3. n - 1 \in Nat /\ Part(n - 1) # {}
    <3>1. n \in Nat /\ n - 1 \in Nat /\ ~(n <= n - 1)
      BY <2>1, <2>2
    <3> HIDE DEF Part
    <3> QED
      BY <2>1, <3>1
  <2>4. PICK g : g \in Part(n - 1)
    BY <2>3
  <2>5. [i \in 0..n |-> IF i = n THEN f[g[n - 1]] ELSE g[i]] \in Part(n)
    BY <2>1, <2>2, <2>4
  <2> QED
    BY <2>1, <2>5
<1>2. ASSUME NEW m \in Nat, NEW n \in Nat, m <= n, NEW g \in Part(m), NEW h \in Part(n)
      PROVE  \A i \in 0..m : g[i] = h[i]
  <2> DEFINE Bad == {i \in Nat : i <= m /\ g[i] # h[i]}
  <2> SUFFICES ASSUME NEW k \in 0..m, g[k] # h[k] PROVE FALSE
    OBVIOUS
  <2>1. PICK i \in Bad : \A j \in Bad : i <= j
    <3>1. Bad \in SUBSET Nat /\ k \in Bad
      OBVIOUS
    <3> HIDE DEF Bad
    <3> QED
      BY <3>1, Least
  <2>2. i # 0 => i - 1 \in Nat /\ g[i - 1] = h[i - 1]
    BY <2>1
  <2> QED
    BY <1>2, <2>1, <2>2
<1>3. PICK p : \A n \in Nat : p[n] \in Part(n)
  <2> DEFINE p == [n \in Nat |-> CHOOSE g : g \in Part(n)]
  <2>1. \A n \in Nat : p[n] \in Part(n)
    BY <1>1
  <2> QED
    BY <2>1
<1> DEFINE g == [n \in Nat |-> p[n][n]]
<1>4. ASSUME NEW n \in Nat PROVE g[n] \in D /\ g[n] = IF n = 0 THEN a ELSE f[g[n - 1]]
  <2>1. p[n][n] \in D /\ p[n][n] = IF n = 0 THEN a ELSE f[p[n][n - 1]]
    BY <1>3
  <2>2. n # 0 => n - 1 \in Nat /\ n - 1 <= n /\ n - 1 \in 0..(n - 1)
    OBVIOUS
  <2>3. n # 0 => p[n][n - 1] = p[n - 1][n - 1]
    <3> HIDE DEF Part
    <3> QED
      BY <1>2, <1>3, <2>2
  <2> QED
    BY <2>1, <2>2, <2>3
<1>5. g \in [Nat -> D] /\ g = [n \in Nat |-> IF n = 0 THEN a ELSE f[g[n - 1]]]
  BY <1>4
<1> QED
  BY <1>5

LEMMA Joined ==
  ASSUME NEW S, NEW s \in Seq(S), NEW t \in Seq(S)
  PROVE  /\ s \o t \in Seq(S) /\ Len(s \o t) = Len(s) + Len(t)
         /\ \A i \in 1 .. Len(s) : (s \o t)[i] = s[i]
         /\ \A i \in 1 .. Len(t) : (s \o t)[Len(s) + i] = t[i]
<1>1. PICK u : u = s \o t
  OBVIOUS
<1>2. /\ u \in Seq(S) /\ Len(u) = Len(s) + Len(t)
      /\ \A i \in 1 .. Len(s) + Len(t) : u[i] = IF i <= Len(s) THEN s[i] ELSE t[i - Len(s)]
  <2>1. /\ s \o t \in Seq(S) /\ Len(s \o t) = Len(s) + Len(t)
        /\ \A i \in 1 .. Len(s) + Len(t) :
              (s \o t)[i] = IF i <= Len(s) THEN s[i] ELSE t[i - Len(s)]
    BY ConcatProperties, ZenonT(30)
  <2> QED
    BY <1>1, <2>1
<1>3. PICK m, n \in Nat : m = Len(s) /\ n = Len(t)
  OBVIOUS
<1>4. /\ \A i \in 1 .. m : i \in 1 .. m + n /\ i <= m
      /\ \A i \in 1 .. n : m + i \in 1 .. m + n /\ ~(m + i <= m) /\ (m + i) - m = i
  OBVIOUS
<1> QED
  BY <1>1, <1>2, <1>3, <1>4

LEMMA CutOut ==
  ASSUME NEW S, NEW s \in Seq(S), NEW m \in 1 .. Len(s) + 1, NEW n \in m - 1 .. Len(s)
  PROVE  /\ SubSeq(s, m, n) \in Seq(S) /\ Len(SubSeq(s, m, n)) = n - m + 1
         /\ \A i \in 1 .. n - m + 1 : SubSeq(s, m, n)[i] = s[m + i - 1]
<1>1. m \in Int /\ n \in Int /\ \A i \in m .. n : s[i] \in S
  OBVIOUS
<1>2. /\ SubSeq(s, m, n) \in Seq(S)
      /\ Len(SubSeq(s, m, n)) = IF m <= n THEN n - m + 1 ELSE 0
      /\ \A i \in 1 .. n - m + 1 : SubSeq(s, m, n)[i] = s[m + i - 1]
  BY <1>1, SubSeqProperties
<1> QED
  BY <1>1, <1>2

-----------------------------------------------------------------------------
(***************************************************************************)
(* The parser.                                                             *)
(***************************************************************************)
LEMMA FirstEndIsLeast ==
  ASSUME NEW b \in Seq(Symbol), Ends(b) # {}
  PROVE  /\ FirstEnd(b) \in Ends(b) /\ FirstEnd(b) \in 1 .. Len(b) - 1
         /\ \A n \in Ends(b) : FirstEnd(b) <= n
<1>1. \E n \in Ends(b) : \A k \in Ends(b) : n <= k
  <2>1. Ends(b) \in SUBSET Nat
    BY DEF Ends
  <2> QED
    BY <2>1, Least
<1>2. FirstEnd(b) \in Ends(b) /\ \A k \in Ends(b) : FirstEnd(b) <= k
  BY <1>1 DEF FirstEnd
<1> QED
  BY <1>2 DEF Ends

LEMMA BehindIsShorter ==
  ASSUME NEW b \in Seq(Symbol), Ends(b) # {}
  PROVE  Behind(b) \in Seq(Symbol) /\ Len(Behind(b)) < Len(b)
<1>1. PICK n \in 1 .. Len(b) - 1 : n = FirstEnd(b)
  BY FirstEndIsLeast
<1>2. SubSeq(b, n + 2, Len(b)) \in Seq(Symbol) /\ Len(SubSeq(b, n + 2, Len(b))) < Len(b)
  OBVIOUS
<1> QED
  BY <1>1, <1>2 DEF Behind

At(s, b, l) == [state |-> s, buffer |-> b, length |-> l]

\* What a step makes of each state.
LEMMA StepFields ==
  ASSUME NEW p \in Parser
  PROVE  /\ p.state \in {"REQUEST_LINE", "HEADERS"} /\ Ends(p.buffer) = {} => ParseStep[p] = p
         /\ p.state = "REQUEST_LINE" /\ Ends(p.buffer) # {} =>
              ParseStep[p] = At(IF Line(p.buffer) = <<"get">> THEN "HEADERS" ELSE "ERROR",
                                Behind(p.buffer), p.length)
         /\ p.state = "HEADERS" /\ Ends(p.buffer) # {} =>
              \/ /\ Line(p.buffer) = <<>>
                 /\ ParseStep[p] = At(IF p.length > 0 THEN "BODY" ELSE "COMPLETE",
                                      Behind(p.buffer), p.length)
              \/ /\ Line(p.buffer) # <<>> /\ Line(p.buffer)[1] \in {"nocolon", "lenbad"}
                 /\ ParseStep[p] = At("ERROR", Behind(p.buffer), p.length)
              \/ /\ Line(p.buffer) # <<>> /\ Line(p.buffer)[1] \notin {"nocolon", "lenbad"}
                 /\ ParseStep[p] = At("HEADERS", Behind(p.buffer),
                                      IF Line(p.buffer)[1] \in DOMAIN Length
                                      THEN Length[Line(p.buffer)[1]] ELSE p.length)
         /\ p.state = "BODY" =>
              ParseStep[p] = IF Len(p.buffer) < p.length THEN p
                             ELSE At("COMPLETE", SubSeq(p.buffer, p.length + 1, Len(p.buffer)),
                                     p.length)
         /\ p.state \in {"COMPLETE", "ERROR"} => ParseStep[p] = p
<1>1. ParseStep[p] = CASE p.state = "REQUEST_LINE" -> RequestLine(p)
                       [] p.state = "HEADERS" -> Header(p)
                       [] p.state = "BODY" -> Body(p)
                       [] OTHER -> p
  BY DEF ParseStep
<1>2. PICK t, d, m : t = p.state /\ d = p.buffer /\ m = p.length /\ p = At(t, d, m)
  <2>1. p = At(p.state, p.buffer, p.length)
    BY SMT DEF At, Parser
  <2> QED
    BY <2>1
<1>3. PICK b : b = Behind(p.buffer)
  OBVIOUS
<1>4. PICK line : line = Line(p.buffer)
  OBVIOUS
<1>6. [At(t, d, m) EXCEPT !.buffer = b] = At(t, b, m)
  BY SMT DEF At
<1>7. ASSUME NEW s
      PROVE  [At(t, b, m) EXCEPT !.state = s] = At(s, b, m)
  BY SMT DEF At
<1>8. ASSUME NEW l
      PROVE  [At(t, b, m) EXCEPT !.length = l] = At(t, b, l)
  BY SMT DEF At
<1>9. CASE p.state = "REQUEST_LINE" /\ Ends(p.buffer) # {}
  BY <1>1, <1>9 DEF RequestLine, At
<1>10. CASE p.state = "HEADERS" /\ Ends(p.buffer) # {}
  <2>1. PICK q : q = [p EXCEPT !.buffer = b]
    OBVIOUS
  <2>2. q = At(t, b, m)
    BY <1>2, <1>6, <2>1
  <2>3. ParseStep[p] =
          IF line = <<>> THEN [q EXCEPT !.state = IF p.length > 0 THEN "BODY" ELSE "COMPLETE"]
          ELSE IF line[1] \in {"nocolon", "lenbad"} THEN [q EXCEPT !.state = "ERROR"]
          ELSE IF line[1] \in DOMAIN Length THEN [q EXCEPT !.length = Length[line[1]]]
          ELSE q
    BY <1>1, <1>3, <1>4, <1>10, <2>1 DEF Header
  <2>4. CASE line = <<>>
    <3>1. PICK s : s = IF p.length > 0 THEN "BODY" ELSE "COMPLETE"
      OBVIOUS
    <3>2. ParseStep[p] = [q EXCEPT !.state = s]
      BY <2>3, <2>4, <3>1
    <3>3. ParseStep[p] = At(s, b, m)
      BY <1>7, <2>2, <3>2
    <3> QED
      BY <1>2, <1>3, <1>4, <1>10, <2>4, <3>1, <3>3
  <2>5. CASE line # <<>> /\ line[1] \in {"nocolon", "lenbad"}
    <3>1. ParseStep[p] = At("ERROR", b, m)
      BY <1>7, <2>2, <2>3, <2>5
    <3> QED
      BY <1>2, <1>3, <1>4, <1>10, <2>5, <3>1
  <2>6. CASE line # <<>> /\ line[1] \notin {"nocolon", "lenbad"}
    <3>1. PICK l : l = IF line[1] \in DOMAIN Length THEN Length[line[1]] ELSE m
      OBVIOUS
    <3>2. CASE line[1] \in DOMAIN Length
      <4>1. ParseStep[p] = [q EXCEPT !.length = l]
        BY <2>3, <2>6, <3>1, <3>2
      <4>2. ParseStep[p] = At(t, b, l)
        BY <1>8, <2>2, <4>1
      <4> QED
        BY <1>2, <1>3, <1>4, <1>10, <2>6, <3>1, <4>2
    <3>3. CASE line[1] \notin DOMAIN Length
      <4>1. ParseStep[p] = At(t, b, l)
        BY <2>2, <2>3, <2>6, <3>1, <3>3
      <4> QED
        BY <1>2, <1>3, <1>4, <1>10, <2>6, <3>1, <4>1
    <3> QED
      BY <3>2, <3>3
  <2> QED
    BY <2>4, <2>5, <2>6
<1>11. CASE p.state = "BODY" /\ ~(Len(p.buffer) < p.length)
  BY <1>1, <1>11 DEF Body, At
<1>12. CASE p.state \in {"REQUEST_LINE", "HEADERS"} /\ Ends(p.buffer) = {}
  BY <1>1, <1>12 DEF RequestLine, Header
<1>13. CASE p.state = "BODY" /\ Len(p.buffer) < p.length
  BY <1>1, <1>13 DEF Body
<1>14. CASE p.state \in {"COMPLETE", "ERROR"}
  BY <1>1, <1>14
<1>15. p.state \in {"REQUEST_LINE", "HEADERS", "BODY", "COMPLETE", "ERROR"}
  BY DEF Parser
<1> QED
  BY <1>9, <1>10, <1>11, <1>12, <1>13, <1>14, <1>15

\* A body is waited for only if there is one.
Sane == {p \in Parser : p.state = "BODY" => p.length > 0}

\* A step that changes anything takes symbols from the buffer.
LEMMA StepShortens ==
  ASSUME NEW p \in Sane
  PROVE  /\ ParseStep[p] \in Sane
         /\ ParseStep[p] = p \/ Len(ParseStep[p].buffer) < Len(p.buffer)
<1>1. /\ p.buffer \in Seq(Symbol) /\ p.length \in Nat /\ p \in Parser
      /\ p.state \in {"REQUEST_LINE", "HEADERS", "BODY", "COMPLETE", "ERROR"}
      /\ p.state = "BODY" => p.length > 0
  BY DEF Parser, Sane
<1>2. ASSUME NEW b \in Seq(Symbol), Len(b) < Len(p.buffer), NEW l \in Nat,
             NEW s \in {"HEADERS", "BODY", "COMPLETE", "ERROR"}, s = "BODY" => l > 0,
             ParseStep[p] = At(s, b, l)
      PROVE  ParseStep[p] \in Sane /\ Len(ParseStep[p].buffer) < Len(p.buffer)
  BY <1>2 DEF Parser, Sane, At
<1>3. ASSUME Ends(p.buffer) # {}
      PROVE  Behind(p.buffer) \in Seq(Symbol) /\ Len(Behind(p.buffer)) < Len(p.buffer)
  BY <1>1, <1>3, BehindIsShorter
<1>4. CASE ParseStep[p] = p
  BY <1>4
<1>5. CASE p.state = "REQUEST_LINE" /\ ParseStep[p] # p
  <2>1. /\ Ends(p.buffer) # {}
        /\ \E s \in {"HEADERS", "ERROR"} : ParseStep[p] = At(s, Behind(p.buffer), p.length)
    BY <1>1, <1>5, StepFields
  <2> QED
    BY <1>1, <1>2, <1>3, <2>1
<1>6. CASE p.state = "HEADERS" /\ ParseStep[p] # p
  <2>1. \A n \in DOMAIN Length : Length[n] \in {0, 1, 2}
    BY SMT DEF Length
  <2>2. Ends(p.buffer) # {}
    BY <1>1, <1>6, StepFields
  <2>3. CASE \E s \in {"BODY", "COMPLETE", "ERROR"} :
               (s = "BODY" => p.length > 0) /\ ParseStep[p] = At(s, Behind(p.buffer), p.length)
    BY <1>1, <1>2, <1>3, <2>2, <2>3
  <2>4. CASE \E l \in {0, 1, 2, p.length} : ParseStep[p] = At("HEADERS", Behind(p.buffer), l)
    <3>1. {0, 1, 2, p.length} \subseteq Nat
      BY <1>1
    <3> QED
      BY <1>2, <1>3, <2>2, <2>4, <3>1
  <2>5. CASE /\ Line(p.buffer) = <<>>
             /\ ParseStep[p] = At(IF p.length > 0 THEN "BODY" ELSE "COMPLETE",
                                  Behind(p.buffer), p.length)
    BY <2>3, <2>5
  <2>6. CASE ParseStep[p] = At("ERROR", Behind(p.buffer), p.length)
    BY <2>3, <2>6
  <2>7. CASE ParseStep[p] = At("HEADERS", Behind(p.buffer),
                               IF Line(p.buffer)[1] \in DOMAIN Length
                               THEN Length[Line(p.buffer)[1]] ELSE p.length)
    BY <2>1, <2>4, <2>7
  <2> QED
    BY <1>1, <1>6, <2>2, <2>5, <2>6, <2>7, StepFields
<1>7. CASE p.state = "BODY" /\ ParseStep[p] # p
  <2>1. /\ p.length <= Len(p.buffer)
        /\ ParseStep[p] = At("COMPLETE", SubSeq(p.buffer, p.length + 1, Len(p.buffer)), p.length)
    BY <1>1, <1>7, StepFields
  <2>2. PICK d \in Seq(Symbol), l \in Nat : d = p.buffer /\ l = p.length
    BY <1>1
  <2>4. PICK b : b = SubSeq(d, l + 1, Len(d))
    OBVIOUS
  <2>3. b \in Seq(Symbol) /\ Len(b) < Len(d)
    BY <1>1, <1>7, <2>1, <2>2, <2>4
  <2> QED
    BY <1>1, <1>2, <1>7, <2>1, <2>2, <2>3, <2>4
<1> QED
  BY <1>1, <1>4, <1>5, <1>6, <1>7, StepFields

LEMMA SaneFacts ==
  ASSUME NEW p \in Sane
  PROVE  p \in Parser /\ p.buffer \in Seq(Symbol) /\ Len(p.buffer) \in Nat
BY DEF Sane, Parser

\* What gets smaller until it stops has stopped after as many steps as it was large.
LEMMA Descends ==
  ASSUME NEW s \in [Nat -> Nat], NEW T \in SUBSET Nat,
         \A n \in Nat : n \in T \/ s[n + 1] < s[n],
         \A n \in T : n + 1 \in T
  PROVE  s[0] \in T
<1> DEFINE Bad == {n \in Nat : ~(n \in T \/ s[n] <= s[0] - n)}
<1>1. ASSUME Bad # {} PROVE FALSE
  <2>1. PICK n \in Bad : \A m \in Bad : n <= m
    <3>1. Bad \in SUBSET Nat
      OBVIOUS
    <3> HIDE DEF Bad
    <3> QED
      BY <1>1, <3>1, Least
  <2>2. n # 0
    BY <2>1
  <2>3. n - 1 \in Nat /\ n - 1 \notin Bad /\ (n - 1) + 1 = n
    BY <2>1, <2>2
  <2> QED
    BY <2>1, <2>3
<1>2. s[0] \in T \/ s[s[0]] <= 0
  BY <1>1
<1> QED
  BY <1>2

\* The loop ends where a step changes nothing, and what every step keeps it keeps.
LEMMA ParseEnds ==
  ASSUME NEW p \in Sane
  PROVE  /\ Parse(p) \in Sane /\ ParseStep[Parse(p)] = Parse(p)
         /\ \A K : p \in K /\ (\A q \in K \cap Sane : ParseStep[q] \in K) => Parse(p) \in K
<1> DEFINE run[n \in Nat] == IF n = 0 THEN p ELSE ParseStep[run[n - 1]]
           f == [q \in Sane |-> ParseStep[q]]
<1>1. f \in [Sane -> Sane]
  BY StepShortens
<1>2. PICK g \in [Nat -> Sane] : g = [n \in Nat |-> IF n = 0 THEN p ELSE f[g[n - 1]]]
  <2> HIDE DEF f
  <2> QED
    BY <1>1, Iterates
<1>3. g = [n \in Nat |-> IF n = 0 THEN p ELSE ParseStep[g[n - 1]]]
  <2>1. \A n \in Nat : g[n] = IF n = 0 THEN p ELSE ParseStep[g[n - 1]]
    BY <1>2
  <2> QED
    BY <1>2, <2>1
<1>4. run = [n \in Nat |-> IF n = 0 THEN p ELSE ParseStep[run[n - 1]]]
  BY <1>3
<1>5. Parse(p) = run[Len(p.buffer)]
  BY DEF Parse
<1>6. PICK r : r = run
  OBVIOUS
<1> HIDE DEF run
<1>7. \A n \in Nat : r[n] = IF n = 0 THEN p ELSE ParseStep[r[n - 1]]
  BY <1>4, <1>6
<1>8. ASSUME NEW K, p \in K, \A q \in K \cap Sane : ParseStep[q] \in K
      PROVE  \A n \in Nat : r[n] \in K \cap Sane
  <2> DEFINE Bad == {n \in Nat : r[n] \notin K \cap Sane}
  <2> SUFFICES ASSUME Bad # {} PROVE FALSE
    OBVIOUS
  <2>1. PICK n \in Bad : \A m \in Bad : n <= m
    <3>1. Bad \in SUBSET Nat
      OBVIOUS
    <3> HIDE DEF Bad
    <3> QED
      BY <3>1, Least
  <2>2. n # 0
    BY <1>7, <1>8, <2>1
  <2>3. n - 1 \in Nat /\ r[n - 1] \in K \cap Sane
    BY <2>1, <2>2
  <2>4. r[n] = ParseStep[r[n - 1]]
    BY <1>7, <2>1, <2>2
  <2> QED
    BY <1>8, <2>1, <2>3, <2>4, StepShortens
<1>9. \A n \in Nat : r[n] \in Sane /\ Len(r[n].buffer) \in Nat
  <2>1. \A n \in Nat : r[n] \in Sane \cap Sane
    BY <1>8, StepShortens
  <2> QED
    BY <2>1, SaneFacts
<1>10. PICK n \in Nat : n = Len(p.buffer)
  BY SaneFacts
<1>11. ParseStep[r[n]] = r[n]
  <2> DEFINE s == [k \in Nat |-> Len(r[k].buffer)]
             T == {k \in Nat : ParseStep[r[k]] = r[k]}
  <2>1. s \in [Nat -> Nat] /\ T \in SUBSET Nat
    BY <1>9
  <2>2. \A k \in Nat : r[k + 1] = ParseStep[r[k]]
    <3>1. \A k \in Nat : k + 1 \in Nat /\ k + 1 # 0 /\ (k + 1) - 1 = k
      OBVIOUS
    <3> QED
      BY <1>7, <3>1
  <2>3. ASSUME NEW k \in Nat PROVE k \in T \/ s[k + 1] < s[k]
    <3>1. r[k] \in Sane /\ k + 1 \in Nat /\ r[k + 1] = ParseStep[r[k]]
      BY <1>9, <2>2
    <3>2. ParseStep[r[k]] = r[k] \/ Len(r[k + 1].buffer) < Len(r[k].buffer)
      BY <3>1, StepShortens
    <3> QED
      BY <3>1, <3>2
  <2>4. \A k \in T : k + 1 \in T
    BY <2>2
  <2>5. s[0] = n
    BY <1>7, <1>10
  <2>6. s[0] \in T
    <3> HIDE DEF s, T
    <3> QED
      BY <2>1, <2>3, <2>4, Descends
  <2> QED
    BY <2>5, <2>6
<1> QED
  BY <1>5, <1>6, <1>8, <1>9, <1>10, <1>11

-----------------------------------------------------------------------------
(***************************************************************************)
(* The type invariant: a connection's parser is never one that waits for   *)
(* an empty body.                                                          *)
(***************************************************************************)
Socket == Client \cup {Listen}
TypeInv ==
  /\ phase \in [Client -> {"new", "queued", "open", "closed", "refused"}]
  /\ todo \in [Client -> Seq(Symbol)] /\ rx \in [Client -> Seq(Symbol)]
  /\ fin \in SUBSET Client /\ rst \in SUBSET Client
  /\ tx \in [Client -> Nat] /\ got \in [Client -> Nat]
  /\ queue \in Seq(Client)
  /\ conn \in [Client -> Conn \cup {None}]
  /\ \A c \in Client : conn[c] # None => conn[c].parser \in Sane
  /\ ready \in Seq(Socket) /\ batch \in Seq(Socket)
  /\ alive \in BOOLEAN /\ stalled \in BOOLEAN

LEMMA RequestFields ==
  ASSUME NEW c \in Client
  PROVE  /\ Requests[c].lines \in Seq(Text) /\ Len(Requests[c].lines) \in Nat \ {0}
         /\ Requests[c].body \in Nat /\ Requests[c].extra \in Nat
BY RequestsAssumption

\* The symbols of a stream, by their places.
LEMMA StreamIs ==
  ASSUME NEW c \in Client, NEW n, n = Len(Requests[c].lines)
  PROVE  /\ Stream[c] \in Seq(Symbol) /\ Len(RequestHead(Requests[c])) = 3 * n + 2
         /\ Len(Stream[c]) = 3 * n + 2 + Requests[c].body + Requests[c].extra
         /\ \A i \in 1 .. n : /\ Stream[c][3 * i - 2] = Requests[c].lines[i]
                              /\ Stream[c][3 * i - 1] = "CR" /\ Stream[c][3 * i] = "LF"
         /\ Stream[c][3 * n + 1] = "CR" /\ Stream[c][3 * n + 2] = "LF"
<1> DEFINE r == Requests[c]
           d(k) == IF k % 3 = 1 THEN r.lines[(k + 2) \div 3] ELSE CRLF[((k + 1) % 3) + 1]
           body == [i \in 1 .. r.body + r.extra |-> "b"]
<1>1. r.lines \in Seq(Text) /\ n \in Nat \ {0} /\ r.body \in Nat /\ r.extra \in Nat
  BY RequestFields
<1>2. \A i \in 1 .. n : /\ d(3 * i - 2) = r.lines[i] /\ d(3 * i - 1) = "CR"
                        /\ d(3 * i) = "LF"
  <2>1. CRLF[1] = "CR" /\ CRLF[2] = "LF"
    BY DEF CRLF
  <2> SUFFICES ASSUME NEW i \in 1 .. n
               PROVE  d(3 * i - 2) = r.lines[i] /\ d(3 * i - 1) = "CR" /\ d(3 * i) = "LF"
    OBVIOUS
  <2>2. i \in Nat
    BY <1>1
  <2>3. (3 * i - 2) % 3 = 1 /\ ((3 * i - 2) + 2) \div 3 = i
    BY <2>2
  <2>4. (3 * i - 1) % 3 = 2 /\ ((3 * i - 1) + 1) % 3 = 0
    BY <2>2
  <2>5. (3 * i) % 3 = 0 /\ (3 * i + 1) % 3 = 1
    BY <2>2
  <2> QED
    BY <2>1, <2>3, <2>4, <2>5
<1>3. \A k \in 1 .. 3 * n : d(k) \in Symbol
  <2> SUFFICES ASSUME NEW k \in 1 .. 3 * n PROVE d(k) \in Symbol
    OBVIOUS
  <2>1. \E i \in 1 .. n : k = 3 * i - 2 \/ k = 3 * i - 1 \/ k = 3 * i
    <3>1. k \in Nat /\ n \in Nat /\ 1 <= k /\ k <= 3 * n
      BY <1>1
    <3>2. PICK i : i = (k + 2) \div 3
      OBVIOUS
    <3>3. i \in 1 .. n /\ (k = 3 * i - 2 \/ k = 3 * i - 1 \/ k = 3 * i)
      BY <3>1, <3>2
    <3> QED
      BY <3>3
  <2>2. \A i \in 1 .. n : r.lines[i] \in Symbol
    BY <1>1 DEF Symbol
  <2>3. "CR" \in Symbol /\ "LF" \in Symbol
    BY DEF Symbol
  <2> HIDE DEF d
  <2> QED
    BY <1>2, <2>1, <2>2, <2>3
<1>4. PICK lines : lines = [k \in 1 .. 3 * n |-> d(k)]
  OBVIOUS
<1>5. lines \in Seq(Symbol) /\ Len(lines) = 3 * n
  <2>1. 3 * n \in Nat
    BY <1>1
  <2> HIDE DEF d
  <2> QED
    BY <1>3, <1>4, <2>1
<1>6. \A i \in 1 .. n : /\ lines[3 * i - 2] = r.lines[i] /\ lines[3 * i - 1] = "CR"
                        /\ lines[3 * i] = "LF"
  <2>1. \A i \in 1 .. n : {3 * i - 2, 3 * i - 1, 3 * i} \subseteq 1 .. 3 * n
    BY <1>1
  <2> HIDE DEF d
  <2> QED
    BY <1>2, <1>4, <2>1
<1>7. CRLF \in Seq(Symbol) /\ Len(CRLF) = 2 /\ CRLF[1] = "CR" /\ CRLF[2] = "LF"
  BY DEF CRLF, Symbol
<1>8. body \in Seq(Symbol) /\ Len(body) = r.body + r.extra
  <2>1. "b" \in Symbol /\ r.body + r.extra \in Nat
    BY <1>1 DEF Symbol
  <2> QED
    BY <2>1
<1>9. Stream[c] = (lines \o CRLF) \o body /\ RequestHead(r) = lines \o CRLF
  BY <1>4 DEF Stream, RequestHead
<1> HIDE DEF body
<1>10. PICK head : head = lines \o CRLF
  OBVIOUS
<1>11. /\ head \in Seq(Symbol) /\ Len(head) = 3 * n + 2
       /\ \A k \in 1 .. 3 * n : head[k] = lines[k]
       /\ head[3 * n + 1] = "CR" /\ head[3 * n + 2] = "LF"
  <2>1. /\ head \in Seq(Symbol) /\ Len(head) = 3 * n + 2
        /\ \A k \in 1 .. 3 * n + 2 :
             head[k] = IF k <= 3 * n THEN lines[k] ELSE CRLF[k - 3 * n]
    <3>1. /\ lines \o CRLF \in Seq(Symbol) /\ Len(lines \o CRLF) = Len(lines) + Len(CRLF)
          /\ \A k \in 1 .. Len(lines) + Len(CRLF) :
               (lines \o CRLF)[k] = IF k <= Len(lines) THEN lines[k] ELSE CRLF[k - Len(lines)]
      BY <1>5, <1>7, ConcatProperties, ZenonT(30)
    <3> QED
      BY <1>5, <1>7, <1>10, <3>1
  <2>2. PICK m \in Nat : m = 3 * n
    BY <1>1
  <2>3. /\ (m + 1) - m = 1 /\ (m + 2) - m = 2 /\ ~(m + 1 <= m) /\ ~(m + 2 <= m)
        /\ \A k \in 1 .. m : k <= m /\ k \in 1 .. m + 2
        /\ {m + 1, m + 2} \subseteq 1 .. m + 2
    BY <2>2
  <2> QED
    BY <1>7, <2>1, <2>2, <2>3
<1>12. /\ Stream[c] \in Seq(Symbol) /\ Len(Stream[c]) = 3 * n + 2 + r.body + r.extra
       /\ \A k \in 1 .. 3 * n + 2 : Stream[c][k] = head[k]
  <2>1. PICK m \in Nat : m = 3 * n + 2
    BY <1>1
  <2>2. PICK l \in Nat : l = r.body + r.extra
    BY <1>1
  <2>3. Stream[c] = head \o body /\ Len(head) = m /\ Len(body) = l
    BY <1>8, <1>9, <1>10, <1>11, <2>1, <2>2
  <2>4. /\ Stream[c] \in Seq(Symbol) /\ Len(Stream[c]) = m + l
        /\ \A k \in 1 .. m + l :
              Stream[c][k] = IF k <= m THEN head[k] ELSE body[k - m]
    <3>1. /\ head \o body \in Seq(Symbol) /\ Len(head \o body) = Len(head) + Len(body)
          /\ \A k \in 1 .. Len(head) + Len(body) :
               (head \o body)[k] = IF k <= Len(head) THEN head[k] ELSE body[k - Len(head)]
      BY <1>8, <1>11, ConcatProperties, ZenonT(30)
    <3> QED
      BY <2>3, <3>1
  <2>5. m + l = 3 * n + 2 + r.body + r.extra
    BY <1>1, <2>1, <2>2
  <2>6. \A k \in 1 .. m : k <= m /\ k \in 1 .. m + l
    OBVIOUS
  <2> QED
    BY <2>1, <2>4, <2>5, <2>6
<1>13. /\ \A i \in 1 .. n : {3 * i - 2, 3 * i - 1, 3 * i} \subseteq 1 .. 3 * n
       /\ \A k \in 1 .. 3 * n : k \in 1 .. 3 * n + 2
       /\ {3 * n + 1, 3 * n + 2} \subseteq 1 .. 3 * n + 2
  BY <1>1
<1>14. \A i \in 1 .. n : /\ Stream[c][3 * i - 2] = r.lines[i] /\ Stream[c][3 * i - 1] = "CR"
                         /\ Stream[c][3 * i] = "LF"
  BY <1>6, <1>11, <1>12, <1>13
<1> QED
  BY <1>9, <1>10, <1>11, <1>12, <1>13, <1>14

\* More of the stream is put behind what is left in the buffer.
Grown(p, data) == At(p.state, p.buffer \o data, p.length)

LEMMA FeedIs ==
  ASSUME NEW p \in Sane, NEW data \in Seq(Symbol)
  PROVE  /\ Grown(p, data) \in Sane /\ p.buffer \o data \in Seq(Symbol)
         /\ Feed(p, data) = Parse(Grown(p, data))
<1>1. PICK s, b, l : s = p.state /\ b = p.buffer /\ l = p.length /\ p = At(s, b, l)
  BY SMT DEF At, Parser, Sane
<1>2. /\ b \in Seq(Symbol) /\ l \in Nat /\ (s = "BODY" => l > 0)
      /\ s \in {"REQUEST_LINE", "HEADERS", "BODY", "COMPLETE", "ERROR"}
  BY <1>1 DEF Parser, Sane
<1>3. b \o data \in Seq(Symbol)
  <2>1. b \in Seq(Symbol)
    BY <1>2
  <2> QED
    BY <2>1, Joined, Zenon
<1>4. PICK d \in Seq(Symbol) : d = b \o data
  BY <1>3
<1>5. At(s, d, l) \in Sane
  BY <1>2, <1>4 DEF At, Parser, Sane
<1>6. [p EXCEPT !.buffer = p.buffer \o data] = At(s, d, l)
  <2>1. [At(s, b, l) EXCEPT !.buffer = d] = At(s, d, l)
    BY SMT DEF At
  <2> QED
    BY <1>1, <1>4, <2>1
<1> QED
  BY <1>1, <1>4, <1>5, <1>6 DEF Feed, Grown

-----------------------------------------------------------------------------
(***************************************************************************)
(* epoll's list.                                                           *)
(***************************************************************************)
LEMMA EdgeIs ==
  ASSUME NEW f \in Socket, ready \in Seq(Socket)
  PROVE  Edge(f) \in Seq(Socket) /\ ToSet(Edge(f)) = ToSet(ready) \cup {f}
<1>1. CASE f \in ToSet(ready)
  BY <1>1 DEF Edge
<1>2. CASE f \notin ToSet(ready)
  <2>1. PICK s \in Seq(Socket) : s = ready
    OBVIOUS
  <2>2. PICK t : t = Append(s, f)
    OBVIOUS
  <2>3. /\ t \in Seq(Socket) /\ Len(t) = Len(s) + 1 /\ t[Len(s) + 1] = f
        /\ \A i \in 1 .. Len(s) : t[i] = s[i]
    BY <2>2
  <2>4. \A g \in ToSet(t) : g \in ToSet(s) \cup {f}
    BY <2>3 DEF ToSet
  <2>5. \A g \in ToSet(s) \cup {f} : g \in ToSet(t)
    <3>1. f \in ToSet(t)
      BY <2>3 DEF ToSet
    <3>2. ASSUME NEW i \in 1 .. Len(s) PROVE s[i] \in ToSet(t)
      <4>1. i \in 1 .. Len(t) /\ s[i] = t[i]
        BY <2>3
      <4> QED
        BY <2>3, <4>1 DEF ToSet
    <3> QED
      BY <3>1, <3>2 DEF ToSet
  <2> QED
    BY <1>2, <2>1, <2>2, <2>3, <2>4, <2>5 DEF Edge
<1> QED
  BY <1>1, <1>2

\* Only the socket that is closed leaves the list.
LEMMA WithoutIs ==
  ASSUME NEW s \in Seq(Socket), NEW f
  PROVE  Without(s, f) \in Seq(Socket) /\ \A g \in ToSet(s) : g # f => g \in ToSet(Without(s, f))
<1>1. CASE f \notin ToSet(s)
  BY <1>1 DEF Without
<1>2. CASE f \in ToSet(s)
  <2>1. PICK n : n = CHOOSE k \in DOMAIN s : s[k] = f
    OBVIOUS
  <2>2. n \in 1 .. Len(s) /\ s[n] = f
    BY <1>2, <2>1 DEF ToSet
  <2>3. PICK u, v : u = SubSeq(s, 1, n - 1) /\ v = SubSeq(s, n + 1, Len(s))
    OBVIOUS
  <2>4. /\ u \in Seq(Socket) /\ Len(u) = n - 1
        /\ \A i \in 1 .. n - 1 : u[i] = s[i]
    BY <2>2, <2>3
  <2>5. /\ v \in Seq(Socket) /\ Len(v) = Len(s) - n
        /\ \A i \in 1 .. Len(s) - n : v[i] = s[n + i]
    BY <2>2, <2>3
  <2>6. PICK w : w = u \o v
    OBVIOUS
  <2>7. Without(s, f) = w
    BY <1>2, <2>1, <2>3, <2>6 DEF Without
  <2>8. /\ w \in Seq(Socket) /\ Len(w) = Len(s) - 1
        /\ \A i \in 1 .. n - 1 : w[i] = u[i]
        /\ \A i \in 1 .. Len(s) - n : w[n - 1 + i] = v[i]
    <3>1. PICK k \in Nat : k = Len(u) /\ k = n - 1
      BY <2>2, <2>4
    <3>2. /\ u \o v \in Seq(Socket) /\ Len(u \o v) = Len(u) + Len(v)
          /\ \A i \in 1 .. Len(u) : (u \o v)[i] = u[i]
          /\ \A i \in 1 .. Len(v) : (u \o v)[Len(u) + i] = v[i]
      <4>1. u \in Seq(Socket) /\ v \in Seq(Socket)
        BY <2>4, <2>5
      <4> QED
        BY <4>1, Joined, SMT
    <3>3. /\ w \in Seq(Socket) /\ Len(w) = k + Len(v)
          /\ \A i \in 1 .. k : w[i] = u[i]
          /\ \A i \in 1 .. Len(v) : w[k + i] = v[i]
      BY <2>6, <3>1, <3>2
    <3> QED
      BY <2>2, <2>5, <3>1, <3>3
  <2>9. ASSUME NEW i \in 1 .. Len(s), i # n PROVE s[i] \in ToSet(w)
    <3>1. CASE i < n
      <4>1. i \in 1 .. n - 1 /\ i \in 1 .. Len(w)
        BY <2>2, <2>8, <3>1
      <4>2. w[i] = s[i]
        BY <2>4, <2>8, <4>1
      <4> QED
        BY <2>8, <4>1, <4>2 DEF ToSet
    <3>2. CASE i > n
      <4>1. i - n \in 1 .. Len(s) - n /\ i - 1 \in 1 .. Len(w) /\ (n - 1) + (i - n) = i - 1
            /\ n + (i - n) = i
        BY <2>2, <2>8, <3>2
      <4>2. w[i - 1] = s[i]
        BY <2>5, <2>8, <4>1
      <4> QED
        BY <2>8, <4>1, <4>2 DEF ToSet
    <3> QED
      BY <2>2, <2>9, <3>1, <3>2
  <2> QED
    BY <2>2, <2>7, <2>8, <2>9 DEF ToSet
<1> QED
  BY <1>1, <1>2

LEMMA TailIs ==
  ASSUME NEW s \in Seq(Socket), s # <<>>
  PROVE  Tail(s) \in Seq(Socket) /\ ToSet(s) \subseteq ToSet(Tail(s)) \cup {Head(s)}
<1>1. PICK t : t = Tail(s)
  OBVIOUS
<1>2. /\ t \in Seq(Socket) /\ Len(t) = Len(s) - 1 /\ Len(s) \in Nat \ {0}
      /\ \A i \in 1 .. Len(s) - 1 : t[i] = s[i + 1]
  BY <1>1
<1>3. ASSUME NEW i \in 1 .. Len(s) PROVE s[i] \in ToSet(t) \cup {Head(s)}
  <2>1. CASE i = 1
    BY <2>1
  <2>2. CASE i # 1
    <3>1. i - 1 \in 1 .. Len(s) - 1 /\ (i - 1) + 1 = i
      BY <1>2, <2>2
    <3>2. t[i - 1] = s[i]
      BY <1>2, <3>1
    <3> QED
      BY <1>2, <3>1, <3>2 DEF ToSet
  <2> QED
    BY <2>1, <2>2
<1> QED
  BY <1>1, <1>2, <1>3 DEF ToSet

-----------------------------------------------------------------------------
(***************************************************************************)
(* The type invariant is kept.                                             *)
(***************************************************************************)
LEMMA NewConn ==
  ASSUME NEW s \in {"READING", "WRITING"}, NEW p \in Sane, NEW l \in Nat
  PROVE  \E r \in Conn : /\ r = [state |-> s, parser |-> p, left |-> l]
                         /\ r # None /\ r.state = s /\ r.parser = p
<1>1. [state |-> s, parser |-> p, left |-> l] \in Conn
  BY DEF Conn, Sane
<1> QED
  BY <1>1, NoneAssumption

LEMMA NewParserIs ==
  /\ NewParser \in Sane /\ NewParser.state = "REQUEST_LINE" /\ NewParser.buffer = <<>>
  /\ NewParser.length = 0
BY DEF NewParser, Sane, Parser

LEMMA WantsIs ==
  ASSUME TypeInv, NEW c \in Client
  PROVE  /\ Wants(c) \in {"READING", "WRITING"} <=> conn[c] # None
         /\ Wants(c) \in {"READING", "WRITING"} =>
              /\ conn[c] \in Conn /\ conn[c].parser \in Sane /\ conn[c].left \in Nat
              /\ Wants(c) = conn[c].state
<1>1. conn[c] \in Conn \cup {None}
  BY DEF TypeInv
<1>2. CASE conn[c] = None
  BY <1>2 DEF Wants
<1>3. CASE conn[c] # None
  BY <1>1, <1>3 DEF Wants, TypeInv, Conn
<1> QED
  BY <1>2, <1>3

LEMMA SocketIs == Listen \in Socket /\ Client \subseteq Socket /\ Listen \notin Client
BY ClientAssumption DEF Socket

LEMMA HandledIs ==
  ASSUME TypeInv, NEW f, Now(f), Handled
  PROVE  batch' \in Seq(Socket) /\ ToSet(batch) \subseteq ToSet(batch') \cup {f}
BY TailIs DEF TypeInv, Now, Handled

LEMMA EdgeKept ==
  ASSUME TypeInv, NEW c \in Socket
  PROVE  Edge(c) \in Seq(Socket) /\ ToSet(Edge(c)) = ToSet(ready) \cup {c}
BY EdgeIs DEF TypeInv

LEMMA RemoveTypes ==
  ASSUME TypeInv, NEW c \in Client, Now(c), RemoveConnection(c)
  PROVE  /\ phase' \in [Client -> {"new", "queued", "open", "closed", "refused"}]
         /\ conn' \in [Client -> Conn \cup {None}]
         /\ \A d \in Client : conn'[d] # None => conn'[d].parser \in Sane
         /\ ready' \in Seq(Socket) /\ batch' \in Seq(Socket)
         /\ tx' \in [Client -> Nat]
<1>1. ready' \in Seq(Socket)
  BY WithoutIs DEF RemoveConnection, TypeInv
<1>2. batch' \in Seq(Socket)
  BY HandledIs DEF RemoveConnection
<1>3. tx' \in [Client -> Nat]
  BY DEF RemoveConnection, TypeInv
<1>4. conn' = [conn EXCEPT ![c] = None] /\ conn \in [Client -> Conn \cup {None}]
  BY DEF RemoveConnection, TypeInv
<1>5. \A d \in Client : conn'[d] = IF d = c THEN None ELSE conn[d]
  BY <1>4
<1>6. \A d \in Client : conn'[d] # None => conn'[d].parser \in Sane
  BY <1>5 DEF TypeInv
<1>7. conn' \in [Client -> Conn \cup {None}]
  BY <1>4
<1>8. phase' \in [Client -> {"new", "queued", "open", "closed", "refused"}]
  BY DEF RemoveConnection, TypeInv
<1> QED
  BY <1>1, <1>2, <1>3, <1>6, <1>7, <1>8

\* What a read takes and what the parser makes of it.
LEMMA ReadIs ==
  ASSUME TypeInv, NEW c \in Client, Read(c)
  PROVE  \E n \in 1 .. Len(rx[c]) : \E data \in Seq(Symbol) : \E parser \in Sane :
           /\ conn[c] \in Conn /\ conn[c].state = "READING" /\ conn[c].parser \in Sane
           /\ conn[c] # None
           /\ data = SubSeq(rx[c], 1, n) /\ parser = Feed(conn[c].parser, data)
           /\ rx' = [rx EXCEPT ![c] = SubSeq(rx[c], n + 1, Len(rx[c]))]
           /\ \/ /\ parser.state = "COMPLETE"
                 /\ conn' = [conn EXCEPT ![c] = [state |-> "WRITING", parser |-> parser,
                                                 left |-> Answer]]
                 /\ ready' = Edge(c)
                 /\ Handled
                 /\ UNCHANGED <<phase, tx>>
              \/ /\ parser.state = "ERROR"
                 /\ RemoveConnection(c)
              \/ /\ parser.state \notin {"COMPLETE", "ERROR"}
                 /\ conn' = [conn EXCEPT ![c].parser = parser]
                 /\ UNCHANGED <<phase, tx, ready, batch>>
<1>1. PICK r \in Seq(Symbol) : r = rx[c] /\ r # <<>>
  BY DEF Read, TypeInv
<1>2. PICK n : n = IF Len(rx[c]) < ReadSize THEN Len(rx[c]) ELSE ReadSize
  OBVIOUS
<1>3. n \in 1 .. Len(r)
  BY <1>1, <1>2, SizeAssumption
<1>4. PICK data \in Seq(Symbol) : data = SubSeq(r, 1, n)
  <2>1. 1 \in 1 .. Len(r) + 1 /\ n \in 1 - 1 .. Len(r)
    BY <1>1, <1>3
  <2>2. SubSeq(r, 1, n) \in Seq(Symbol)
    BY <2>1, CutOut
  <2> QED
    BY <2>2
<1>5. Wants(c) = "READING"
  BY DEF Read, Reading
<1>6. conn[c] \in Conn /\ conn[c].state = "READING" /\ conn[c].parser \in Sane /\ conn[c] # None
  BY <1>5, WantsIs
<1>7. Feed(conn[c].parser, data) \in Sane
  BY <1>6, FeedIs, ParseEnds
<1>8. PICK parser \in Sane : parser = Feed(conn[c].parser, data)
  BY <1>7
<1>9. /\ rx' = [rx EXCEPT ![c] = SubSeq(rx[c], n + 1, Len(rx[c]))]
      /\ \/ /\ parser.state = "COMPLETE"
            /\ conn' = [conn EXCEPT ![c] = [state |-> "WRITING", parser |-> parser,
                                            left |-> Answer]]
            /\ ready' = Edge(c)
            /\ Handled
            /\ UNCHANGED <<phase, tx>>
         \/ /\ parser.state = "ERROR"
            /\ RemoveConnection(c)
         \/ /\ parser.state \notin {"COMPLETE", "ERROR"}
            /\ conn' = [conn EXCEPT ![c].parser = parser]
            /\ UNCHANGED <<phase, tx, ready, batch>>
  BY <1>1, <1>2, <1>4, <1>8 DEF Read
<1> QED
  BY <1>1, <1>3, <1>4, <1>6, <1>8, <1>9

\* A connection's parser is replaced, nothing else of it.
LEMMA ParserReplaced ==
  ASSUME TypeInv, NEW c \in Client, conn[c] \in Conn, NEW parser \in Sane,
         conn' = [conn EXCEPT ![c].parser = parser]
  PROVE  /\ conn' \in [Client -> Conn \cup {None}]
         /\ \A d \in Client : d # c => conn'[d] = conn[d]
         /\ conn'[c] \in Conn /\ conn'[c] # None
         /\ conn'[c].state = conn[c].state /\ conn'[c].parser = parser
<1>1. PICK r \in Conn : r = conn[c]
  OBVIOUS
<1>2. PICK q : q = [r EXCEPT !.parser = parser]
  OBVIOUS
<1>3. q \in Conn /\ q.state = r.state /\ q.parser = parser
  BY <1>1, <1>2, SMT DEF Conn, Sane
<1>4. conn' = [conn EXCEPT ![c] = q] /\ conn \in [Client -> Conn \cup {None}]
  BY <1>1, <1>2 DEF TypeInv
<1> QED
  BY <1>1, <1>3, <1>4, NoneAssumption

LEMMA TypeInit == Init => TypeInv
<1> SUFFICES ASSUME Init PROVE TypeInv
  OBVIOUS
<1>1. \A c \in Client : Stream[c] \in Seq(Symbol)
  BY StreamIs
<1>2. Stream = [c \in Client |-> Stream[c]]
  BY DEF Stream
<1>3. todo \in [Client -> Seq(Symbol)]
  BY <1>1, <1>2 DEF Init
<1>4. rx \in [Client -> Seq(Symbol)] /\ queue \in Seq(Client) /\ ready \in Seq(Socket)
      /\ batch \in Seq(Socket)
  BY DEF Init
<1>5. phase \in [Client -> {"new", "queued", "open", "closed", "refused"}]
  BY DEF Init
<1>6. conn \in [Client -> Conn \cup {None}] /\ \A c \in Client : conn[c] = None
  BY DEF Init
<1> QED
  BY <1>3, <1>4, <1>5, <1>6 DEF Init, TypeInv

LEMMA TypeClient ==
  ASSUME TypeInv, NEW c \in Client,
         Connect(c) \/ Send(c) \/ Finish(c) \/ Reset(c) \/ Receive(c)
  PROVE  TypeInv'
<1>1. c \in Socket /\ Listen \in Socket
  BY SocketIs
<1>2. InputEdge(c) => ready' \in Seq(Socket)
  BY <1>1, EdgeKept DEF InputEdge, TypeInv
<1>3. CASE Connect(c)
  <2>1. ready' \in Seq(Socket)
    BY <1>1, <1>3, EdgeKept DEF Connect
  <2>2. queue' \in Seq(Client)
    BY <1>3 DEF Connect, TypeInv
  <2>3. phase' \in [Client -> {"new", "queued", "open", "closed", "refused"}]
    BY <1>3 DEF Connect, TypeInv
  <2> QED
    BY <1>3, <2>1, <2>2, <2>3 DEF Connect, kernel, TypeInv
<1>4. CASE Send(c)
  <2>1. PICK n \in 1 .. Len(todo[c]) :
          /\ rx' = [rx EXCEPT ![c] = rx[c] \o SubSeq(todo[c], 1, n)]
          /\ todo' = [todo EXCEPT ![c] = SubSeq(todo[c], n + 1, Len(todo[c]))]
    BY <1>4 DEF Send
  <2>2. todo[c] \in Seq(Symbol) /\ rx[c] \in Seq(Symbol)
    BY DEF TypeInv
  <2>3. SubSeq(todo[c], 1, n) \in Seq(Symbol)
    <3>1. 1 \in 1 .. Len(todo[c]) + 1 /\ n \in 1 - 1 .. Len(todo[c])
      BY <2>2
    <3> QED
      BY <2>2, <3>1, CutOut
  <2>4. SubSeq(todo[c], n + 1, Len(todo[c])) \in Seq(Symbol)
    <3>1. /\ n + 1 \in 1 .. Len(todo[c]) + 1
          /\ Len(todo[c]) \in (n + 1) - 1 .. Len(todo[c])
      BY <2>2
    <3> QED
      BY <2>2, <3>1, CutOut
  <2>5. rx[c] \o SubSeq(todo[c], 1, n) \in Seq(Symbol)
    BY <2>2, <2>3, Joined, SMT
  <2>6. rx' \in [Client -> Seq(Symbol)] /\ todo' \in [Client -> Seq(Symbol)]
    BY <2>1, <2>4, <2>5 DEF TypeInv
  <2> QED
    BY <1>2, <1>4, <2>6 DEF Send, TypeInv
<1>5. CASE Finish(c)
  BY <1>2, <1>5 DEF Finish, TypeInv
<1>6. CASE Reset(c)
  <2>1. ready' \in Seq(Socket)
    BY <1>1, <1>6, EdgeKept DEF Reset, TypeInv
  <2> QED
    BY <1>6, <2>1 DEF Reset, TypeInv
<1>7. CASE Receive(c)
  <2>1. ready' \in Seq(Socket)
    BY <1>1, <1>7, EdgeKept DEF Receive, TypeInv
  <2>2. tx' \in [Client -> Nat] /\ got' \in [Client -> Nat]
    BY <1>7 DEF Receive, TypeInv
  <2> QED
    BY <1>7, <2>1, <2>2 DEF Receive, TypeInv
<1> QED
  BY <1>3, <1>4, <1>5, <1>6, <1>7

LEMMA TypeListen ==
  ASSUME TypeInv, EpollWait \/ Accept \/ AcceptRefused \/ AcceptEnds
  PROVE  TypeInv'
<1>1. CASE EpollWait
  BY <1>1 DEF EpollWait, kernel, TypeInv
<1>2. CASE Accept
  <2>1. PICK c \in Client : c = Head(queue)
    BY <1>2 DEF Accept, TypeInv
  <2>2. c \in Socket /\ queue' \in Seq(Client)
    BY <1>2, SocketIs DEF Accept, TypeInv
  <2>3. ready' \in Seq(Socket)
    BY <1>2, <2>1, <2>2, EdgeKept DEF Accept, TypeInv
  <2>4. phase' \in [Client -> {"new", "queued", "open", "closed", "refused"}]
    BY <1>2, <2>1 DEF Accept, TypeInv
  <2>5. PICK r \in Conn : /\ r = [state |-> "READING", parser |-> NewParser, left |-> 0]
                          /\ r.parser \in Sane
    <3>1. "READING" \in {"READING", "WRITING"} /\ 0 \in Nat /\ NewParser \in Sane
      BY NewParserIs
    <3>2. PICK r \in Conn : /\ r = [state |-> "READING", parser |-> NewParser, left |-> 0]
                            /\ r.parser = NewParser
      BY <3>1, NewConn
    <3> QED
      BY <3>1, <3>2
  <2>6. conn' = [conn EXCEPT ![c] = r] /\ conn \in [Client -> Conn \cup {None}]
    BY <1>2, <2>1, <2>5 DEF Accept, TypeInv
  <2>7. conn' \in [Client -> Conn \cup {None}]
    BY <2>6
  <2>8. \A d \in Client : conn'[d] # None => conn'[d].parser \in Sane
    BY <2>5, <2>6 DEF TypeInv
  <2> QED
    BY <1>2, <2>2, <2>3, <2>4, <2>7, <2>8 DEF Accept, kernel, TypeInv
<1>3. CASE AcceptRefused
  <2>1. PICK c \in Client : c = Head(queue)
    BY <1>3 DEF AcceptRefused, TypeInv
  <2>2. queue' \in Seq(Client)
    BY <1>3 DEF AcceptRefused, TypeInv
  <2>3. phase' \in [Client -> {"new", "queued", "open", "closed", "refused"}]
    BY <1>3, <2>1 DEF AcceptRefused, TypeInv
  <2> QED
    BY <1>3, <2>2, <2>3 DEF AcceptRefused, kernel, TypeInv
<1>4. CASE AcceptEnds
  <2>1. batch' \in Seq(Socket)
    BY <1>4, HandledIs DEF AcceptEnds
  <2> QED
    BY <1>4, <2>1 DEF AcceptEnds, kernel, TypeInv
<1> QED
  BY <1>1, <1>2, <1>3, <1>4

LEMMA TypeServe ==
  ASSUME TypeInv, NEW c \in Client, Serve(c)
  PROVE  TypeInv'
<1>1. CASE Read(c)
  <2>1. PICK n \in 1 .. Len(rx[c]), data \in Seq(Symbol), parser \in Sane :
          /\ conn[c] \in Conn /\ conn[c].state = "READING" /\ conn[c].parser \in Sane
          /\ conn[c] # None
          /\ data = SubSeq(rx[c], 1, n) /\ parser = Feed(conn[c].parser, data)
          /\ rx' = [rx EXCEPT ![c] = SubSeq(rx[c], n + 1, Len(rx[c]))]
          /\ \/ /\ parser.state = "COMPLETE"
                /\ conn' = [conn EXCEPT ![c] = [state |-> "WRITING", parser |-> parser,
                                                left |-> Answer]]
                /\ ready' = Edge(c)
                /\ Handled
                /\ UNCHANGED <<phase, tx>>
             \/ /\ parser.state = "ERROR"
                /\ RemoveConnection(c)
             \/ /\ parser.state \notin {"COMPLETE", "ERROR"}
                /\ conn' = [conn EXCEPT ![c].parser = parser]
                /\ UNCHANGED <<phase, tx, ready, batch>>
    BY <1>1, ReadIs
  <2>2. Now(c) /\ UNCHANGED <<todo, fin, rst, got, queue, alive, stalled>>
    BY <1>1 DEF Read, Reading
  <2>3. SubSeq(rx[c], n + 1, Len(rx[c])) \in Seq(Symbol)
    <3>1. /\ rx[c] \in Seq(Symbol) /\ n + 1 \in 1 .. Len(rx[c]) + 1
          /\ Len(rx[c]) \in (n + 1) - 1 .. Len(rx[c])
      BY DEF TypeInv
    <3> QED
      BY <3>1, CutOut
  <2>4. rx' \in [Client -> Seq(Symbol)]
    BY <2>1, <2>3 DEF TypeInv
  <2>5. CASE /\ conn' = [conn EXCEPT ![c] = [state |-> "WRITING", parser |-> parser,
                                             left |-> Answer]]
             /\ ready' = Edge(c)
             /\ Handled
             /\ UNCHANGED <<phase, tx>>
    <3>1. PICK r \in Conn : /\ r = [state |-> "WRITING", parser |-> parser, left |-> Answer]
                            /\ r.parser \in Sane
      <4>1. "WRITING" \in {"READING", "WRITING"} /\ Answer \in Nat
        BY SizeAssumption
      <4>2. PICK r \in Conn : /\ r = [state |-> "WRITING", parser |-> parser, left |-> Answer]
                              /\ r.parser = parser
        BY <4>1, NewConn
      <4> QED
        BY <4>2
    <3>2. conn' = [conn EXCEPT ![c] = r] /\ conn \in [Client -> Conn \cup {None}]
      BY <2>5, <3>1 DEF TypeInv
    <3>3. conn' \in [Client -> Conn \cup {None}]
      BY <3>2
    <3>4. \A d \in Client : conn'[d] # None => conn'[d].parser \in Sane
      BY <3>1, <3>2 DEF TypeInv
    <3>5. ready' \in Seq(Socket) /\ batch' \in Seq(Socket)
      BY <2>2, <2>5, EdgeKept, HandledIs, SocketIs
    <3> QED
      BY <2>2, <2>4, <2>5, <3>3, <3>4, <3>5 DEF TypeInv
  <2>6. CASE RemoveConnection(c)
    BY <2>2, <2>4, <2>6, RemoveTypes DEF TypeInv
  <2>7. CASE /\ conn' = [conn EXCEPT ![c].parser = parser]
             /\ UNCHANGED <<phase, tx, ready, batch>>
    <3>1. /\ conn' \in [Client -> Conn \cup {None}]
          /\ \A d \in Client : d # c => conn'[d] = conn[d]
          /\ conn'[c].parser = parser
      BY <2>1, <2>7, ParserReplaced
    <3>2. \A d \in Client : conn'[d] # None => conn'[d].parser \in Sane
      BY <3>1 DEF TypeInv
    <3> QED
      BY <2>2, <2>4, <2>7, <3>1, <3>2 DEF TypeInv
  <2> QED
    BY <2>1, <2>5, <2>6, <2>7
<1>2. CASE ReadAgain(c) \/ WriteAgain(c)
  <2>1. batch' \in Seq(Socket)
    BY <1>2, HandledIs DEF ReadAgain, WriteAgain, Reading, Writing
  <2> QED
    BY <1>2, <2>1 DEF ReadAgain, WriteAgain, kernel, TypeInv
<1>3. CASE ReadEnd(c)
  <2>1. Now(c) /\ RemoveConnection(c)
    BY <1>3 DEF ReadEnd, Reading
  <2> QED
    BY <1>3, <2>1, RemoveTypes DEF ReadEnd, TypeInv
<1>4. CASE Write(c)
  <2>1. PICK r \in Conn : r = conn[c] /\ r.parser \in Sane /\ r.left > 0 /\ r.left \in Nat
    BY <1>4, WantsIs DEF Write, Writing
  <2>2. PICK q : q = [r EXCEPT !.left = r.left - 1]
    OBVIOUS
  <2>3. q \in Conn /\ q.parser \in Sane
    BY <2>1, <2>2, SMT DEF Conn
  <2>4. conn' = [conn EXCEPT ![c] = q] /\ conn \in [Client -> Conn \cup {None}]
    BY <1>4, <2>1, <2>2 DEF Write, TypeInv
  <2>5. conn' \in [Client -> Conn \cup {None}]
    BY <2>3, <2>4
  <2>6. \A d \in Client : conn'[d] # None => conn'[d].parser \in Sane
    BY <2>3, <2>4 DEF TypeInv
  <2>7. tx' \in [Client -> Nat]
    BY <1>4 DEF Write, TypeInv
  <2> QED
    BY <1>4, <2>5, <2>6, <2>7 DEF Write, TypeInv
<1>5. CASE WriteEnd(c)
  <2>1. Now(c) /\ RemoveConnection(c)
    BY <1>5 DEF WriteEnd, Writing
  <2> QED
    BY <1>5, <2>1, RemoveTypes DEF WriteEnd, TypeInv
<1>6. CASE BrokenPipe(c)
  BY <1>6 DEF BrokenPipe, kernel, TypeInv
<1> QED
  BY <1>1, <1>2, <1>3, <1>4, <1>5, <1>6 DEF Serve

LEMMA TypeStep == TypeInv /\ [Next]_vars => TypeInv'
<1> SUFFICES ASSUME TypeInv, [Next]_vars PROVE TypeInv'
  OBVIOUS
<1>1. CASE UNCHANGED vars
  BY <1>1 DEF vars, kernel, TypeInv
<1>2. CASE \E c \in Client : Connect(c) \/ Send(c) \/ Finish(c) \/ Reset(c) \/ Receive(c)
  BY <1>2, TypeClient
<1>3. CASE Loop
  BY <1>3, TypeListen, TypeServe DEF Loop
<1> QED
  BY <1>1, <1>2, <1>3 DEF Next

-----------------------------------------------------------------------------
(***************************************************************************)
(* No edge is lost.  Between two waits a socket with something to do is on *)
(* epoll's list or in the batch, and is not taken from the batch before    *)
(* there is nothing left.                                                  *)
(***************************************************************************)
Pending(c) ==
  IF Wants(c) = "READING" THEN HasInput(c) ELSE tx[c] < SendRoom \/ c \in rst
Listed == ToSet(ready) \cup ToSet(batch)

OpenInv == \A c \in Client : phase[c] = "open" <=> conn[c] # None
QueueInv ==
  \A i \in DOMAIN queue :
    phase[queue[i]] = "queued" /\ \A k \in DOMAIN queue : queue[i] = queue[k] => i = k
PendingInv == \A c \in Client : conn[c] # None /\ Pending(c) => c \in Listed
ListenInv == queue # <<>> /\ ~stalled => Listen \in Listed
EdgeInv == TypeInv /\ OpenInv /\ QueueInv /\ PendingInv /\ ListenInv

LEMMA EdgeInit == Init => EdgeInv
<1> SUFFICES ASSUME Init PROVE EdgeInv
  OBVIOUS
<1>1. TypeInv
  BY TypeInit
<1>2. /\ queue = <<>> /\ \A c \in Client : conn[c] = None /\ phase[c] = "new"
  BY DEF Init
<1> QED
  BY <1>1, <1>2 DEF EdgeInv, OpenInv, QueueInv, PendingInv, ListenInv

\* What is pending on a socket that a step leaves alone stays so.
LEMMA PendingKept ==
  ASSUME NEW c \in Client, rx'[c] = rx[c], conn'[c] = conn[c], tx'[c] = tx[c],
         c \in fin' <=> c \in fin, c \in rst' <=> c \in rst
  PROVE  Pending(c)' <=> Pending(c)
BY DEF Pending, Wants, HasInput

LEMMA EdgeClient ==
  ASSUME EdgeInv, NEW c \in Client,
         Connect(c) \/ Send(c) \/ Finish(c) \/ Reset(c) \/ Receive(c)
  PROVE  OpenInv' /\ QueueInv' /\ PendingInv' /\ ListenInv'
<1>1. TypeInv /\ c \in Socket /\ Listen \in Socket
  BY SocketIs DEF EdgeInv
<1>2. UNCHANGED <<conn, batch>>
  BY DEF Connect, Send, Finish, Reset, Receive
<1>3. /\ ToSet(Edge(c)) = ToSet(ready) \cup {c}
      /\ ToSet(Edge(Listen)) = ToSet(ready) \cup {Listen}
  BY <1>1, EdgeKept
<1>4. /\ Wants(c) \in {"READING", "WRITING"} <=> conn[c] # None
      /\ Wants(c)' = Wants(c)
  BY <1>1, <1>2, WantsIs DEF Wants
<1>5. ToSet(ready) \subseteq ToSet(ready')
  BY <1>3 DEF Connect, Send, Finish, Reset, Receive, InputEdge
<1>6. Listed \subseteq Listed'
  BY <1>2, <1>5 DEF Listed
<1>7. ASSUME NEW d \in Client, d # c PROVE conn'[d] # None /\ Pending(d)' => d \in Listed'
  <2>1. rx'[d] = rx[d] /\ conn'[d] = conn[d]
    BY <1>1, <1>2, <1>7 DEF Connect, Send, Finish, Reset, Receive, kernel, TypeInv
  <2>2. tx'[d] = tx[d]
    BY <1>1, <1>7 DEF Connect, Send, Finish, Reset, Receive, kernel, TypeInv
  <2>3. (d \in fin' <=> d \in fin) /\ (d \in rst' <=> d \in rst)
    BY <1>7 DEF Connect, Send, Finish, Reset, Receive, kernel
  <2>4. Pending(d)' <=> Pending(d)
    BY <2>1, <2>2, <2>3, PendingKept
  <2> QED
    BY <1>6, <2>1, <2>4 DEF EdgeInv, PendingInv
<1>8. ASSUME conn'[c] # None, Pending(c)' PROVE c \in Listed'
  <2>1. conn[c] # None /\ Wants(c) \in {"READING", "WRITING"}
    BY <1>2, <1>4, <1>8
  <2>2. CASE Connect(c)
    <3>1. Pending(c)
      BY <1>8, <1>2, <2>2 DEF Pending, Wants, HasInput, Connect, kernel
    <3> QED
      BY <1>6, <2>1, <3>1 DEF EdgeInv, PendingInv
  <2>3. CASE Send(c) \/ Finish(c)
    <3>1. CASE Wants(c) = "READING"
      <4>1. ready' = Edge(c)
        BY <2>3, <3>1 DEF Send, Finish, InputEdge
      <4> QED
        BY <1>3, <4>1 DEF Listed
    <3>2. CASE Wants(c) # "READING"
      <4>1. UNCHANGED <<tx, rst>>
        BY <2>3 DEF Send, Finish
      <4>2. Pending(c)
        BY <1>4, <1>8, <3>2, <4>1 DEF Pending
      <4> QED
        BY <1>6, <2>1, <4>2 DEF EdgeInv, PendingInv
    <3> QED
      BY <3>1, <3>2
  <2>4. CASE Reset(c)
    BY <1>3, <2>1, <2>4 DEF Reset, Listed
  <2>5. CASE Receive(c)
    <3>1. CASE Wants(c) = "WRITING"
      <4>1. ready' = Edge(c)
        BY <2>5, <3>1 DEF Receive
      <4> QED
        BY <1>3, <4>1 DEF Listed
    <3>2. CASE Wants(c) = "READING"
      <4>1. UNCHANGED <<rx, fin, rst>>
        BY <2>5 DEF Receive
      <4>2. Pending(c)
        BY <1>4, <1>8, <3>2, <4>1 DEF Pending, HasInput
      <4> QED
        BY <1>6, <2>1, <4>2 DEF EdgeInv, PendingInv
    <3> QED
      BY <2>1, <3>1, <3>2
  <2> QED
    BY <2>2, <2>3, <2>4, <2>5
<1>9. PendingInv'
  BY <1>7, <1>8 DEF PendingInv
<1>10. CASE Connect(c)
  <2>1. PICK q : q = queue /\ q \in Seq(Client)
    BY <1>1 DEF TypeInv
  <2>2. PICK t : t = Append(q, c) /\ t = queue'
    BY <1>10, <2>1 DEF Connect
  <2>3. /\ DOMAIN t = 1 .. Len(q) + 1 /\ DOMAIN q = 1 .. Len(q) /\ Len(q) \in Nat
        /\ t[Len(q) + 1] = c /\ \A i \in 1 .. Len(q) : t[i] = q[i] /\ q[i] \in Client
    <3>1. /\ t \in Seq(Client) /\ Len(t) = Len(q) + 1 /\ t[Len(q) + 1] = c
          /\ \A i \in 1 .. Len(q) : t[i] = q[i]
      <4>1. q \in Seq(Client) /\ t = Append(q, c)
        BY <2>1, <2>2
      <4> QED
        BY <4>1
    <3> QED
      BY <2>1, <3>1
  <2>4. phase[c] = "new" /\ phase' = [phase EXCEPT ![c] = "queued"]
    BY <1>10 DEF Connect
  <2>5. \A d \in Client : phase'[d] = IF d = c THEN "queued" ELSE phase[d]
    BY <1>1, <2>4 DEF TypeInv
  <2>6. OpenInv'
    BY <1>2, <2>4, <2>5 DEF EdgeInv, OpenInv
  <2>7. \A i \in 1 .. Len(q) : q[i] # c /\ phase[q[i]] = "queued" /\ phase'[q[i]] = "queued"
    BY <2>1, <2>3, <2>4, <2>5 DEF EdgeInv, QueueInv
  <2>8. \A i, k \in 1 .. Len(q) : q[i] = q[k] => i = k
    BY <2>1, <2>3 DEF EdgeInv, QueueInv
  <2>9. ASSUME NEW i \in 1 .. Len(q) + 1
        PROVE  /\ phase'[t[i]] = "queued"
               /\ \A k \in 1 .. Len(q) + 1 : t[i] = t[k] => i = k
    BY <2>3, <2>5, <2>7, <2>8
  <2>10. QueueInv'
    BY <2>2, <2>3, <2>9 DEF QueueInv
  <2>11. Listen \in Listed'
    BY <1>3, <1>10 DEF Connect, Listed
  <2> QED
    BY <1>9, <2>6, <2>10, <2>11 DEF ListenInv
<1>11. CASE Send(c) \/ Finish(c) \/ Reset(c) \/ Receive(c)
  <2>1. UNCHANGED <<phase, queue, stalled>>
    BY <1>11 DEF Send, Finish, Reset, Receive
  <2> QED
    BY <1>2, <1>6, <1>9, <2>1 DEF EdgeInv, OpenInv, QueueInv, ListenInv
<1> QED
  BY <1>10, <1>11

LEMMA EdgeListen ==
  ASSUME EdgeInv, EpollWait \/ Accept \/ AcceptRefused \/ AcceptEnds
  PROVE  OpenInv' /\ QueueInv' /\ PendingInv' /\ ListenInv'
<1>1. TypeInv /\ Listen \in Socket /\ Client \subseteq Socket /\ Listen \notin Client
  BY SocketIs DEF EdgeInv
<1>2. UNCHANGED kernel
  BY DEF EpollWait, Accept, AcceptRefused, AcceptEnds
<1>3. CASE EpollWait
  <2>1. Listed' = Listed
    BY <1>3 DEF EpollWait, Listed, ToSet
  <2>2. \A d \in Client : Pending(d)' <=> Pending(d)
    BY <1>2, <1>3 DEF EpollWait, kernel, Pending, Wants, HasInput
  <2> QED
    BY <1>3, <2>1, <2>2 DEF EpollWait, EdgeInv, OpenInv, QueueInv, PendingInv, ListenInv
<1>4. CASE Accept \/ AcceptRefused
  <2>1. PICK q : q = queue /\ q \in Seq(Client) /\ q # <<>>
    BY <1>1, <1>4 DEF Accept, AcceptRefused, TypeInv
  <2>a. PICK t : t = Tail(q)
    OBVIOUS
  <2>2. PICK c \in Client : c = Head(q) /\ t = queue'
    BY <1>4, <2>1, <2>a DEF Accept, AcceptRefused
  <2>3. /\ DOMAIN t = 1 .. Len(q) - 1 /\ DOMAIN q = 1 .. Len(q) /\ Len(q) \in Nat \ {0}
        /\ q[1] = c /\ \A i \in 1 .. Len(q) - 1 : t[i] = q[i + 1]
        /\ \A i \in 1 .. Len(q) : q[i] \in Client
    BY <2>1, <2>a, <2>2
  <2>4. phase[c] = "queued" /\ conn[c] = None
    <3>1. phase[c] = "queued"
      BY <2>1, <2>3 DEF EdgeInv, QueueInv
    <3> QED
      BY <3>1 DEF EdgeInv, OpenInv
  <2>5. PICK p \in {"open", "refused"} : phase' = [phase EXCEPT ![c] = p]
    BY <1>4, <2>1, <2>2 DEF Accept, AcceptRefused
  <2>6. \A d \in Client : phase'[d] = IF d = c THEN p ELSE phase[d]
    BY <1>1, <2>5 DEF TypeInv
  <2>7. QueueInv'
    <3>1. \A i, k \in 1 .. Len(q) : q[i] = q[k] => i = k
      BY <2>1, <2>3 DEF EdgeInv, QueueInv
    <3>2. \A i \in 1 .. Len(q) : phase[q[i]] = "queued"
      BY <2>1, <2>3 DEF EdgeInv, QueueInv
    <3>3. ASSUME NEW i \in 1 .. Len(q) - 1
          PROVE  /\ phase'[t[i]] = "queued"
                 /\ \A k \in 1 .. Len(q) - 1 : t[i] = t[k] => i = k
      <4>1. i + 1 \in 1 .. Len(q) /\ 1 \in 1 .. Len(q) /\ i + 1 # 1
            /\ \A k \in 1 .. Len(q) - 1 : k + 1 \in 1 .. Len(q) /\ (i + 1 = k + 1 => i = k)
        BY <2>3
      <4>2. t[i] # c /\ t[i] \in Client
        BY <2>3, <3>1, <4>1
      <4> QED
        BY <2>3, <2>6, <3>1, <3>2, <4>1, <4>2
    <3> QED
      BY <2>2, <2>3, <3>3 DEF QueueInv
  <2>8. \A d \in Client : d # c => conn'[d] = conn[d]
    BY <1>1, <1>4, <2>1, <2>2 DEF Accept, AcceptRefused, TypeInv
  <2>9. Listed \subseteq Listed' /\ UNCHANGED <<batch, stalled>>
    <3>1. Edge(c) \in Seq(Socket) /\ ToSet(Edge(c)) = ToSet(ready) \cup {c}
      BY <1>1, EdgeKept
    <3> QED
      BY <1>4, <2>1, <2>2, <3>1 DEF Accept, AcceptRefused, Listed
  <2>10. ListenInv'
    BY <2>1, <2>9 DEF EdgeInv, ListenInv
  <2>11. \A d \in Client : d # c /\ conn'[d] # None /\ Pending(d)' => d \in Listed'
    <3> SUFFICES ASSUME NEW d \in Client, d # c, conn'[d] # None, Pending(d)'
                 PROVE  d \in Listed'
      OBVIOUS
    <3>1. Pending(d)
      BY <1>2, <2>8, PendingKept DEF kernel
    <3> QED
      BY <2>8, <2>9, <3>1 DEF EdgeInv, PendingInv
  <2>12. CASE Accept
    <3>1. PICK r \in Conn : /\ r = [state |-> "READING", parser |-> NewParser, left |-> 0]
                            /\ r # None /\ r.state = "READING"
      <4>1. "READING" \in {"READING", "WRITING"} /\ 0 \in Nat /\ NewParser \in Sane
        BY NewParserIs
      <4> QED
        BY <4>1, NewConn
    <3>2. conn' = [conn EXCEPT ![c] = r] /\ phase'[c] = "open"
          /\ ready' = IF HasInput(c) THEN Edge(c) ELSE ready
      BY <1>1, <2>1, <2>2, <2>12, <3>1 DEF Accept, TypeInv
    <3>3. conn'[c] = r
      BY <1>1, <3>2 DEF TypeInv
    <3>4. OpenInv'
      BY <2>6, <2>8, <3>1, <3>2, <3>3 DEF EdgeInv, OpenInv
    <3>5. Pending(c)' <=> HasInput(c)
      BY <1>2, <3>1, <3>3 DEF Pending, Wants, HasInput, kernel
    <3>6. HasInput(c) => c \in Listed'
      BY <1>1, <3>2, EdgeKept DEF Listed
    <3> QED
      BY <2>7, <2>10, <2>11, <3>4, <3>5, <3>6 DEF PendingInv
  <2>13. CASE AcceptRefused
    <3>1. phase'[c] = "refused" /\ conn' = conn
      BY <1>1, <2>1, <2>2, <2>13 DEF AcceptRefused, TypeInv
    <3>2. OpenInv'
      BY <2>4, <2>6, <3>1 DEF EdgeInv, OpenInv
    <3> QED
      BY <2>4, <2>7, <2>10, <2>11, <3>1, <3>2 DEF PendingInv
  <2> QED
    BY <1>4, <2>12, <2>13
<1>5. CASE AcceptEnds
  <2>1. ToSet(batch) \subseteq ToSet(batch') \cup {Listen} /\ ready' = ready
    BY <1>1, <1>5, HandledIs DEF AcceptEnds
  <2>2. \A d \in Client : d \in Listed => d \in Listed'
    BY <1>1, <2>1 DEF Listed
  <2>3. \A d \in Client : Pending(d)' <=> Pending(d)
    BY <1>2, <1>5 DEF AcceptEnds, kernel, Pending, Wants, HasInput
  <2>4. PendingInv'
    BY <1>5, <2>2, <2>3 DEF AcceptEnds, EdgeInv, PendingInv
  <2>5. ListenInv'
    BY <1>5 DEF AcceptEnds, ListenInv
  <2> QED
    BY <1>5, <2>4, <2>5 DEF AcceptEnds, EdgeInv, OpenInv, QueueInv
<1> QED
  BY <1>3, <1>4, <1>5

\* A connection is closed: what is pending elsewhere is still listed.
LEMMA EdgeRemove ==
  ASSUME EdgeInv, NEW c \in Client, Now(c), conn[c] # None, RemoveConnection(c),
         UNCHANGED <<fin, rst, queue, stalled>>,
         \A d \in Client : d # c => rx'[d] = rx[d]
  PROVE  OpenInv' /\ QueueInv' /\ PendingInv' /\ ListenInv'
<1>1. TypeInv /\ c \in Socket /\ Listen \in Socket /\ Listen # c
  BY SocketIs DEF EdgeInv
<1>2. \A f : f # c /\ f \in Listed => f \in Listed'
  <2>1. \A f \in ToSet(ready) : f # c => f \in ToSet(ready')
    BY <1>1, WithoutIs DEF RemoveConnection, TypeInv
  <2>2. ToSet(batch) \subseteq ToSet(batch') \cup {c}
    BY <1>1, HandledIs DEF RemoveConnection
  <2> QED
    BY <2>1, <2>2 DEF Listed
<1>3. \A d \in Client : /\ phase'[d] = IF d = c THEN "closed" ELSE phase[d]
                        /\ conn'[d] = IF d = c THEN None ELSE conn[d]
  BY <1>1 DEF RemoveConnection, TypeInv
<1>4. OpenInv'
  BY <1>3 DEF EdgeInv, OpenInv
<1>5. phase[c] # "queued"
  BY DEF EdgeInv, OpenInv
<1>6. QueueInv'
  <2>1. \A i \in DOMAIN queue : queue[i] \in Client
    BY <1>1 DEF TypeInv
  <2> QED
    BY <1>3, <1>5, <2>1 DEF EdgeInv, QueueInv
<1>7. ASSUME NEW d \in Client, conn'[d] # None, Pending(d)' PROVE d \in Listed'
  <2>1. d # c /\ conn'[d] = conn[d] /\ rx'[d] = rx[d]
    BY <1>3, <1>7
  <2>2. tx'[d] = tx[d]
    BY <1>1, <2>1 DEF RemoveConnection, TypeInv
  <2>3. Pending(d)
    BY <1>7, <2>1, <2>2, PendingKept
  <2> QED
    BY <1>2, <1>7, <2>1, <2>3 DEF EdgeInv, PendingInv
<1>8. ListenInv'
  BY <1>1, <1>2 DEF EdgeInv, ListenInv
<1> QED
  BY <1>4, <1>6, <1>7, <1>8 DEF PendingInv

\* What is on its way is not pending: the other sockets' steps.
LEMMA EdgeServe ==
  ASSUME EdgeInv, NEW c \in Client, Serve(c)
  PROVE  OpenInv' /\ QueueInv' /\ PendingInv' /\ ListenInv'
<1>1. TypeInv /\ c \in Socket /\ Listen \in Socket /\ Listen # c
  BY SocketIs DEF EdgeInv
<1>2. Now(c) /\ Wants(c) \in {"READING", "WRITING"} /\ conn[c] # None
  BY <1>1, WantsIs
     DEF Serve, Read, ReadAgain, ReadEnd, Write, WriteAgain, WriteEnd, BrokenPipe, Reading,
         Writing
<1>3. UNCHANGED <<fin, rst, queue, stalled>>
  BY DEF Serve, Read, ReadAgain, ReadEnd, Write, WriteAgain, WriteEnd, BrokenPipe, kernel
<1>4. CASE ReadEnd(c) \/ WriteEnd(c)
  BY <1>2, <1>3, <1>4, EdgeRemove DEF ReadEnd, WriteEnd
<1>5. CASE Read(c)
  <2>1. PICK n \in 1 .. Len(rx[c]), data \in Seq(Symbol), parser \in Sane :
          /\ conn[c] \in Conn /\ conn[c].state = "READING" /\ conn[c].parser \in Sane
          /\ rx' = [rx EXCEPT ![c] = SubSeq(rx[c], n + 1, Len(rx[c]))]
          /\ \/ /\ conn' = [conn EXCEPT ![c] = [state |-> "WRITING", parser |-> parser,
                                                left |-> Answer]]
                /\ ready' = Edge(c)
                /\ Handled
                /\ UNCHANGED <<phase, tx>>
             \/ RemoveConnection(c)
             \/ /\ conn' = [conn EXCEPT ![c].parser = parser]
                /\ UNCHANGED <<phase, tx, ready, batch>>
    <3>1. PICK n \in 1 .. Len(rx[c]) : \E data \in Seq(Symbol) : \E parser \in Sane :
            /\ conn[c] \in Conn /\ conn[c].state = "READING" /\ conn[c].parser \in Sane
            /\ rx' = [rx EXCEPT ![c] = SubSeq(rx[c], n + 1, Len(rx[c]))]
            /\ \/ /\ conn' = [conn EXCEPT ![c] = [state |-> "WRITING", parser |-> parser,
                                                  left |-> Answer]]
                  /\ ready' = Edge(c)
                  /\ Handled
                  /\ UNCHANGED <<phase, tx>>
               \/ RemoveConnection(c)
               \/ /\ conn' = [conn EXCEPT ![c].parser = parser]
                  /\ UNCHANGED <<phase, tx, ready, batch>>
      BY <1>1, <1>5, ReadIs
    <3> QED
      BY <3>1
  <2>2. \A d \in Client : d # c => rx'[d] = rx[d]
    BY <1>1, <2>1 DEF TypeInv
  <2>3. CASE RemoveConnection(c)
    BY <1>2, <1>3, <2>2, <2>3, EdgeRemove
  <2>4. ASSUME UNCHANGED <<phase, tx>>, ToSet(ready) \cup ToSet(batch) \subseteq Listed',
               c \in Listed', conn'[c] # None, \A d \in Client : d # c => conn'[d] = conn[d]
        PROVE  OpenInv' /\ QueueInv' /\ PendingInv' /\ ListenInv'
    <3>1. OpenInv' /\ QueueInv'
      BY <1>2, <1>3, <2>4 DEF EdgeInv, OpenInv, QueueInv
    <3>2. ASSUME NEW d \in Client, d # c, conn'[d] # None, Pending(d)' PROVE d \in Listed'
      <4>1. Pending(d) /\ conn[d] # None
        BY <1>3, <2>2, <2>4, <3>2, PendingKept
      <4> QED
        BY <2>4, <4>1 DEF EdgeInv, PendingInv, Listed
    <3>3. ListenInv'
      BY <1>3, <2>4 DEF EdgeInv, ListenInv, Listed
    <3> QED
      BY <2>4, <3>1, <3>2, <3>3 DEF PendingInv
  <2>5. CASE /\ conn' = [conn EXCEPT ![c] = [state |-> "WRITING", parser |-> parser,
                                             left |-> Answer]]
             /\ ready' = Edge(c)
             /\ Handled
             /\ UNCHANGED <<phase, tx>>
    <3>1. PICK r : r = [state |-> "WRITING", parser |-> parser, left |-> Answer] /\ r # None
      <4>1. "WRITING" \in {"READING", "WRITING"} /\ Answer \in Nat
        BY SizeAssumption
      <4> QED
        BY <4>1, NewConn
    <3>2. conn' = [conn EXCEPT ![c] = r]
      BY <2>5, <3>1
    <3>3. conn'[c] # None /\ \A d \in Client : d # c => conn'[d] = conn[d]
      BY <1>1, <3>1, <3>2 DEF TypeInv
    <3>4. ToSet(ready') = ToSet(ready) \cup {c} /\ ToSet(batch) \subseteq ToSet(batch') \cup {c}
      BY <1>1, <1>2, <2>5, EdgeKept, HandledIs
    <3>5. ToSet(ready) \cup ToSet(batch) \subseteq Listed' /\ c \in Listed'
      BY <3>4 DEF Listed
    <3> QED
      BY <2>4, <2>5, <3>3, <3>5
  <2>6. CASE conn' = [conn EXCEPT ![c].parser = parser] /\ UNCHANGED <<phase, tx, ready, batch>>
    <3>1. conn'[c] # None /\ \A d \in Client : d # c => conn'[d] = conn[d]
      BY <1>1, <2>1, <2>6, ParserReplaced
    <3>2. c \in ToSet(batch) /\ Listed' = Listed
      <4>1. batch \in Seq(Socket) /\ batch # <<>> /\ Head(batch) = c
        BY <1>1, <1>2 DEF Now, TypeInv
      <4>2. 1 \in DOMAIN batch /\ batch[1] = c
        BY <4>1
      <4> QED
        BY <2>6, <4>2 DEF ToSet, Listed
    <3> QED
      BY <2>4, <2>6, <3>1, <3>2 DEF Listed
  <2> QED
    BY <2>1, <2>3, <2>5, <2>6
<1>6. CASE ReadAgain(c) \/ WriteAgain(c)
  <2>1. UNCHANGED <<phase, kernel, queue, conn, ready, alive, stalled>> /\ Handled
    BY <1>6 DEF ReadAgain, WriteAgain
  <2>2. ~Pending(c)
    <3>1. CASE ReadAgain(c)
      BY <3>1 DEF ReadAgain, Reading, Pending
    <3>2. CASE WriteAgain(c)
      BY <3>2, SizeAssumption DEF WriteAgain, Writing, Pending
    <3> QED
      BY <1>6, <3>1, <3>2
  <2>3. ToSet(batch) \subseteq ToSet(batch') \cup {c}
    BY <1>1, <1>2, <2>1, HandledIs
  <2>4. \A f : f # c /\ f \in Listed => f \in Listed'
    BY <2>1, <2>3 DEF Listed
  <2>5. \A d \in Client : Pending(d)' <=> Pending(d)
    BY <2>1 DEF kernel, Pending, Wants, HasInput
  <2>6. PendingInv'
    BY <2>1, <2>2, <2>4, <2>5 DEF EdgeInv, PendingInv
  <2>7. ListenInv'
    BY <1>1, <2>1, <2>4 DEF EdgeInv, ListenInv
  <2> QED
    BY <2>1, <2>6, <2>7 DEF EdgeInv, OpenInv, QueueInv
<1>7. CASE Write(c)
  <2>1. UNCHANGED <<phase, queue, ready, batch, stalled, rx>>
    BY <1>7 DEF Write
  <2>2. Listed' = Listed
    BY <2>1 DEF Listed, ToSet
  <2>3. c \in Listed
    <3>1. batch \in Seq(Socket) /\ batch # <<>> /\ Head(batch) = c
      BY <1>1, <1>2 DEF Now, TypeInv
    <3>2. 1 \in DOMAIN batch /\ batch[1] = c
      BY <3>1
    <3> QED
      BY <3>2 DEF ToSet, Listed
  <2>4. \A d \in Client : d # c => conn'[d] = conn[d] /\ tx'[d] = tx[d]
    BY <1>1, <1>7 DEF Write, TypeInv
  <2>5. conn'[c] # None
    <3>1. TypeInv'
      BY <1>1, <1>7, TypeServe DEF Serve
    <3>2. PICK r \in Conn : r = conn[c]
      BY <1>1, <1>2, WantsIs
    <3>3. PICK q : q = [r EXCEPT !.left = r.left - 1]
      OBVIOUS
    <3>4. q \in Conn
      <4>1. r.left > 0 /\ r.left \in Nat
        BY <1>1, <1>2, <1>7, <3>2, WantsIs DEF Write
      <4> QED
        BY <3>3, <4>1, SMT DEF Conn
    <3>5. conn' = [conn EXCEPT ![c] = q]
      BY <1>7, <3>2, <3>3 DEF Write
    <3>6. conn'[c] = q
      BY <1>1, <3>5 DEF TypeInv
    <3> QED
      BY <3>4, <3>6, NoneAssumption
  <2>6. ASSUME NEW d \in Client, d # c, conn'[d] # None, Pending(d)' PROVE d \in Listed'
    <3>1. Pending(d) /\ conn[d] # None
      BY <1>3, <2>1, <2>4, <2>6, PendingKept
    <3> QED
      BY <2>2, <3>1 DEF EdgeInv, PendingInv
  <2>7. PendingInv'
    BY <2>2, <2>3, <2>6 DEF PendingInv
  <2>8. OpenInv'
    BY <1>2, <2>1, <2>4, <2>5 DEF EdgeInv, OpenInv
  <2> QED
    BY <2>1, <2>2, <2>7, <2>8 DEF EdgeInv, QueueInv, ListenInv
<1>8. CASE BrokenPipe(c)
  <2>1. UNCHANGED <<phase, kernel, queue, conn, ready, batch, stalled>>
    BY <1>8 DEF BrokenPipe
  <2>2. Listed' = Listed /\ \A d \in Client : Pending(d)' <=> Pending(d)
    BY <2>1 DEF kernel, Listed, Pending, Wants, HasInput, ToSet
  <2> QED
    BY <2>1, <2>2 DEF EdgeInv, OpenInv, QueueInv, PendingInv, ListenInv
<1> QED
  BY <1>4, <1>5, <1>6, <1>7, <1>8 DEF Serve

LEMMA EdgeStep == EdgeInv /\ [Next]_vars => EdgeInv'
<1> SUFFICES ASSUME EdgeInv, [Next]_vars PROVE EdgeInv'
  OBVIOUS
<1>1. TypeInv'
  BY TypeStep DEF EdgeInv
<1>2. CASE UNCHANGED vars
  <2>1. Listed' = Listed /\ \A d \in Client : Pending(d)' <=> Pending(d)
    BY <1>2 DEF vars, kernel, Listed, Pending, Wants, HasInput, ToSet
  <2> QED
    BY <1>1, <1>2, <2>1 DEF vars, EdgeInv, OpenInv, QueueInv, PendingInv, ListenInv
<1>3. CASE \E c \in Client : Connect(c) \/ Send(c) \/ Finish(c) \/ Reset(c) \/ Receive(c)
  BY <1>1, <1>3, EdgeClient DEF EdgeInv
<1>4. CASE Loop
  BY <1>1, <1>4, EdgeListen, EdgeServe DEF Loop, EdgeInv
<1> QED
  BY <1>2, <1>3, <1>4 DEF Next

\* run's loop never waits while there is something left to do, with edges that
\* epoll reports once (accept_connections, on_readable, on_writable).
THEOREM EdgesCorrect == Spec => []NoLostEdge
<1>1. EdgeInv => NoLostEdge
  <2> SUFFICES ASSUME EdgeInv, batch = <<>> PROVE NoLostEdge
    BY DEF NoLostEdge
  <2>1. Listed = ToSet(ready)
    BY DEF Listed, ToSet
  <2>2. \A c \in Open : conn[c] # None
    BY DEF EdgeInv, OpenInv, Open
  <2> QED
    BY <2>1, <2>2 DEF EdgeInv, PendingInv, ListenInv, Pending, NoLostEdge, Open
<1> QED
  BY <1>1, EdgeInit, EdgeStep, PTL DEF Spec

-----------------------------------------------------------------------------
(***************************************************************************)
(* Whole requests.  What is left in a parser's buffer is the part of the   *)
(* stream behind the lines it has taken, and its state and length are what *)
(* those lines made of them.                                               *)
(***************************************************************************)
Good(c, i) == \A k \in BadLines(Requests[c]) : ~(k <= i)
\* l is the last Content-Length of the first i lines.
DeclaredBy(c, i, l) ==
  LET L == Requests[c].lines
  IN  \/ l = 0 /\ \A k \in 1 .. i : L[k] \notin DOMAIN Length
      \/ \E k \in 1 .. i : /\ L[k] \in DOMAIN Length /\ l = Length[L[k]]
                          /\ \A m \in k + 1 .. i : L[m] \notin DOMAIN Length
\* b is the end of the first k symbols.
Placed(c, b, k) ==
  /\ k \in Nat /\ Len(b) <= k /\ k <= Len(Stream[c])
  /\ \A i \in 1 .. Len(b) : b[i] = Stream[c][k - Len(b) + i]
ParserAt(c, p, k) ==
  LET j == k - Len(p.buffer)
      n == Len(Requests[c].lines)
  IN  /\ Placed(c, p.buffer, k)
      /\ p.state = "REQUEST_LINE" => j = 0 /\ p.length = 0
      /\ p.state = "HEADERS" =>
           \E i \in 1 .. n : j = 3 * i /\ Good(c, i) /\ DeclaredBy(c, i, p.length)
      /\ p.state = "BODY" => j = 3 * n + 2 /\ Good(c, n) /\ DeclaredBy(c, n, p.length)
      /\ p.state = "COMPLETE" =>
           Good(c, n) /\ DeclaredBy(c, n, p.length) /\ 3 * n + 2 + p.length <= k

StreamOf(c) ==
  /\ 0 <= Taken(c)
  /\ \A i \in 1 .. Len(rx[c]) : rx[c][i] = Stream[c][Taken(c) + i]
  /\ \A i \in 1 .. Len(todo[c]) : todo[c][i] = Stream[c][Len(Stream[c]) - Len(todo[c]) + i]
  /\ phase[c] \in {"new", "queued"} => Taken(c) = 0
ParserOf(c) ==
  conn[c] # None =>
    IF conn[c].state = "READING"
    THEN /\ conn[c].parser.state \notin {"COMPLETE", "ERROR"}
         /\ ParserAt(c, conn[c].parser, Taken(c))
         /\ ParseStep[conn[c].parser] = conn[c].parser
    ELSE c \notin Malformed /\ Taken(c) >= Decided[c]
ReadInv == EdgeInv /\ \A c \in Client : StreamOf(c) /\ ParserOf(c)

LEMMA EndsAt ==
  ASSUME NEW b \in Seq(Symbol), NEW n \in 1 .. Len(b) - 1
  PROVE  n \in Ends(b) <=> b[n] = "CR" /\ b[n + 1] = "LF"
<1>1. /\ n \in 1 .. Len(b) + 1 /\ n + 1 \in n - 1 .. Len(b) /\ (n + 1) - n + 1 = 2
      /\ n + 1 - 1 = n /\ n + 2 - 1 = n + 1
  OBVIOUS
<1>2. PICK d : d = SubSeq(b, n, n + 1)
  OBVIOUS
<1>3. d \in Seq(Symbol) /\ Len(d) = 2 /\ \A i \in 1 .. 2 : d[i] = b[n + i - 1]
  <2>1. /\ SubSeq(b, n, n + 1) \in Seq(Symbol) /\ Len(SubSeq(b, n, n + 1)) = (n + 1) - n + 1
        /\ \A i \in 1 .. (n + 1) - n + 1 : SubSeq(b, n, n + 1)[i] = b[n + i - 1]
    BY <1>1, CutOut
  <2> QED
    BY <1>1, <1>2, <2>1
<1>4. d[1] = b[n] /\ d[2] = b[n + 1]
  BY <1>1, <1>3
<1>5. CRLF \in Seq(Symbol) /\ Len(CRLF) = 2 /\ CRLF[1] = "CR" /\ CRLF[2] = "LF"
  BY DEF CRLF, Symbol
<1>6. d = CRLF <=> d[1] = "CR" /\ d[2] = "LF"
  <2>1. ASSUME d[1] = "CR", d[2] = "LF" PROVE d = CRLF
    <3>1. \A i \in 1 .. Len(d) : d[i] = CRLF[i]
      BY <1>3, <1>5, <2>1
    <3>2. Len(d) = Len(CRLF)
      BY <1>3, <1>5
    <3> QED
      BY <1>3, <1>5, <3>1, <3>2, SeqEqual
  <2> QED
    BY <1>5, <2>1
<1> QED
  BY <1>2, <1>4, <1>6 DEF Ends

\* The first line of a buffer that begins with a line's text, or with an end.
LEMMA TextLine ==
  ASSUME NEW b \in Seq(Symbol), Ends(b) # {}, b[1] \in Text,
         Len(b) >= 3 => b[2] = "CR" /\ b[3] = "LF"
  PROVE  /\ Len(b) >= 3 /\ Line(b) = <<b[1]>>
         /\ Behind(b) \in Seq(Symbol) /\ Len(Behind(b)) = Len(b) - 3
         /\ \A i \in 1 .. Len(b) - 3 : Behind(b)[i] = b[i + 3]
<1>1. \A n \in Ends(b) : n \in 2 .. Len(b) - 1
  <2>1. \A n \in Ends(b) : n \in 1 .. Len(b) - 1
    BY DEF Ends
  <2>2. "CR" \notin Text
    BY DEF Text
  <2> QED
    BY <2>1, <2>2, EndsAt
<1>2. Len(b) >= 3 /\ Len(b) \in Nat
  BY <1>1
<1>3. 2 \in Ends(b)
  BY <1>2, EndsAt
<1>4. FirstEnd(b) = 2
  <2>1. FirstEnd(b) \in 2 .. Len(b) - 1 /\ FirstEnd(b) <= 2
    BY <1>1, <1>3, FirstEndIsLeast
  <2> QED
    BY <2>1
<1>5. PICK d, e : d = SubSeq(b, 1, 1) /\ e = SubSeq(b, 4, Len(b))
  OBVIOUS
<1>6. d \in Seq(Symbol) /\ Len(d) = 1 /\ d[1] = b[1]
  <2>1. 1 \in 1 .. Len(b) + 1 /\ 1 \in 1 - 1 .. Len(b)
    BY <1>2
  <2>2. /\ SubSeq(b, 1, 1) \in Seq(Symbol) /\ Len(SubSeq(b, 1, 1)) = 1 - 1 + 1
        /\ \A i \in 1 .. 1 - 1 + 1 : SubSeq(b, 1, 1)[i] = b[1 + i - 1]
    BY <2>1, CutOut
  <2> QED
    BY <1>5, <2>2
<1>7. e \in Seq(Symbol) /\ Len(e) = Len(b) - 3 /\ \A i \in 1 .. Len(b) - 3 : e[i] = b[i + 3]
  <2>1. 4 \in 1 .. Len(b) + 1 /\ Len(b) \in 4 - 1 .. Len(b)
    BY <1>2
  <2>2. /\ SubSeq(b, 4, Len(b)) \in Seq(Symbol) /\ Len(SubSeq(b, 4, Len(b))) = Len(b) - 4 + 1
        /\ \A i \in 1 .. Len(b) - 4 + 1 : SubSeq(b, 4, Len(b))[i] = b[4 + i - 1]
    BY <2>1, CutOut
  <2>3. Len(b) - 4 + 1 = Len(b) - 3 /\ \A i \in 1 .. Len(b) - 3 : 4 + i - 1 = i + 3
    BY <1>2
  <2> QED
    BY <1>5, <2>2, <2>3
<1>8. d = <<b[1]>>
  BY <1>6
<1>9. Line(b) = d /\ Behind(b) = e
  <2>1. FirstEnd(b) - 1 = 1 /\ FirstEnd(b) + 2 = 4
    BY <1>4
  <2> QED
    BY <1>5, <2>1 DEF Line, Behind
<1> QED
  BY <1>2, <1>7, <1>8, <1>9

LEMMA EmptyLine ==
  ASSUME NEW b \in Seq(Symbol), Len(b) >= 2, b[1] = "CR", b[2] = "LF"
  PROVE  /\ Ends(b) # {} /\ Line(b) = <<>>
         /\ Behind(b) \in Seq(Symbol) /\ Len(Behind(b)) = Len(b) - 2
         /\ \A i \in 1 .. Len(b) - 2 : Behind(b)[i] = b[i + 2]
<1>1. 1 \in Ends(b)
  BY EndsAt
<1>2. FirstEnd(b) = 1
  <2>1. FirstEnd(b) \in 1 .. Len(b) - 1 /\ FirstEnd(b) <= 1
    BY <1>1, FirstEndIsLeast
  <2> QED
    BY <2>1
<1>3. PICK e : e = SubSeq(b, 3, Len(b))
  OBVIOUS
<1>4. e \in Seq(Symbol) /\ Len(e) = Len(b) - 2 /\ \A i \in 1 .. Len(b) - 2 : e[i] = b[i + 2]
  <2>1. 3 \in 1 .. Len(b) + 1 /\ Len(b) \in 3 - 1 .. Len(b)
    OBVIOUS
  <2>2. /\ SubSeq(b, 3, Len(b)) \in Seq(Symbol) /\ Len(SubSeq(b, 3, Len(b))) = Len(b) - 3 + 1
        /\ \A i \in 1 .. Len(b) - 3 + 1 : SubSeq(b, 3, Len(b))[i] = b[3 + i - 1]
    BY <2>1, CutOut
  <2>3. Len(b) - 3 + 1 = Len(b) - 2 /\ \A i \in 1 .. Len(b) - 2 : 3 + i - 1 = i + 2
    OBVIOUS
  <2> QED
    BY <1>3, <2>2, <2>3
<1>5. SubSeq(b, 1, 0) = <<>>
  BY SubSeqEmpty
<1> QED
  BY <1>1, <1>2, <1>3, <1>4, <1>5 DEF Line, Behind

LEMMA PlacedCut ==
  ASSUME NEW c \in Client, NEW b \in Seq(Symbol), NEW k, Placed(c, b, k),
         NEW d \in Seq(Symbol), NEW m \in Nat, m <= Len(b), Len(d) = Len(b) - m,
         \A i \in 1 .. Len(b) - m : d[i] = b[i + m]
  PROVE  Placed(c, d, k) /\ k - Len(d) = (k - Len(b)) + m
<1>1. k \in Nat /\ Len(b) \in Nat /\ Len(d) \in Nat
  BY DEF Placed
<1>2. k - Len(d) = (k - Len(b)) + m /\ Len(d) <= k
  BY <1>1 DEF Placed
<1>3. ASSUME NEW i \in 1 .. Len(d) PROVE d[i] = Stream[c][k - Len(d) + i]
  <2>1. i + m \in 1 .. Len(b) /\ k - Len(b) + (i + m) = k - Len(d) + i
    BY <1>1, <1>2
  <2> QED
    BY <1>3, <2>1 DEF Placed
<1> QED
  BY <1>2, <1>3 DEF Placed

LEMMA BadIs ==
  ASSUME NEW c \in Client, NEW i \in 1 .. Len(Requests[c].lines)
  PROVE  i \in BadLines(Requests[c]) <=>
           Requests[c].lines[i] \in IF i = 1 THEN {"junk"} ELSE {"nocolon", "lenbad"}
BY DEF BadLines

LEMMA GoodNext ==
  ASSUME NEW c \in Client, NEW i \in Nat, i = 0 \/ Good(c, i),
         i + 1 \notin BadLines(Requests[c])
  PROVE  Good(c, i + 1)
<1>1. \A k \in BadLines(Requests[c]) : k \in Nat /\ k >= 1
  BY RequestFields DEF BadLines
<1> QED
  BY <1>1 DEF Good

LEMMA DeclaredNext ==
  ASSUME NEW c \in Client, NEW i \in Nat, NEW l, DeclaredBy(c, i, l),
         NEW m, m = IF Requests[c].lines[i + 1] \in DOMAIN Length
                    THEN Length[Requests[c].lines[i + 1]] ELSE l
  PROVE  DeclaredBy(c, i + 1, m)
<1> DEFINE L == Requests[c].lines
<1>1. \A k \in 1 .. i + 1 : k \in 1 .. i \/ k = i + 1
  OBVIOUS
<1>2. i + 1 \in 1 .. i + 1 /\ (\A k : k \notin (i + 1) + 1 .. i + 1)
      /\ \A k \in 1 .. i : k \in 1 .. i + 1
  OBVIOUS
<1>3. CASE L[i + 1] \in DOMAIN Length
  BY <1>2, <1>3 DEF DeclaredBy
<1>4. CASE L[i + 1] \notin DOMAIN Length /\ l = 0 /\ \A k \in 1 .. i : L[k] \notin DOMAIN Length
  BY <1>1, <1>4 DEF DeclaredBy
<1>5. CASE /\ L[i + 1] \notin DOMAIN Length
           /\ \E k \in 1 .. i : /\ L[k] \in DOMAIN Length /\ l = Length[L[k]]
                               /\ \A n \in k + 1 .. i : L[n] \notin DOMAIN Length
  <2>1. PICK k \in 1 .. i : /\ L[k] \in DOMAIN Length /\ l = Length[L[k]]
                            /\ \A n \in k + 1 .. i : L[n] \notin DOMAIN Length
    BY <1>5
  <2>2. \A n \in k + 1 .. i + 1 : n \in k + 1 .. i \/ n = i + 1
    OBVIOUS
  <2>3. \A n \in k + 1 .. i + 1 : L[n] \notin DOMAIN Length
    BY <1>5, <2>1, <2>2
  <2> QED
    BY <1>2, <1>5, <2>1, <2>3 DEF DeclaredBy
<1> QED
  BY <1>3, <1>4, <1>5 DEF DeclaredBy

\* Every step of the parser keeps it where the stream says.
LEMMA StepKeepsPlace ==
  ASSUME NEW c \in Client, NEW k, NEW p \in Sane, ParserAt(c, p, k)
  PROVE  ParserAt(c, ParseStep[p], k)
<1>1. PICK n, L, S : n = Len(Requests[c].lines) /\ L = Requests[c].lines /\ S = Stream[c]
  OBVIOUS
<1>2. PICK b, l : b = p.buffer /\ l = p.length
  OBVIOUS
<1>3. /\ b \in Seq(Symbol) /\ Len(b) \in Nat /\ l \in Nat /\ p \in Parser
      /\ p.state \in {"REQUEST_LINE", "HEADERS", "BODY", "COMPLETE", "ERROR"}
  BY <1>2 DEF Sane, Parser
<1>4. L \in Seq(Text) /\ n \in Nat \ {0} /\ n = Len(L) /\ \A i \in 1 .. n : L[i] \in Text
  <2>1. L \in Seq(Text) /\ n \in Nat \ {0} /\ n = Len(L)
    BY <1>1, RequestFields
  <2> QED
    BY <2>1
<1>5. /\ \A i \in 1 .. n : S[3 * i - 2] = L[i] /\ S[3 * i - 1] = "CR" /\ S[3 * i] = "LF"
      /\ S[3 * n + 1] = "CR" /\ S[3 * n + 2] = "LF"
  <2>1. n = Len(Requests[c].lines)
    BY <1>1
  <2>2. ASSUME NEW i \in 1 .. n
        PROVE  /\ Stream[c][3 * i - 2] = Requests[c].lines[i]
               /\ Stream[c][3 * i - 1] = "CR" /\ Stream[c][3 * i] = "LF"
    BY <2>1, StreamIs, Zenon
  <2>3. Stream[c][3 * n + 1] = "CR" /\ Stream[c][3 * n + 2] = "LF"
    BY <2>1, StreamIs, Zenon
  <2> QED
    BY <1>1, <2>2, <2>3, Zenon
<1>6. Placed(c, b, k) /\ k \in Nat /\ Len(b) <= k
  BY <1>2 DEF ParserAt, Placed
<1>7. PICK j \in Nat : j = k - Len(b)
  BY <1>3, <1>6
<1>8. \A i \in 1 .. Len(b) : b[i] = S[j + i]
  BY <1>1, <1>6, <1>7 DEF Placed
\* Lines taken: the buffer is cut behind one.
<1>9. ASSUME NEW i \in 0 .. n - 1, j = 3 * i, Ends(b) # {}
      PROVE  /\ Line(b) = <<L[i + 1]>> /\ Placed(c, Behind(b), k)
             /\ k - Len(Behind(b)) = 3 * (i + 1) /\ i + 1 \in 1 .. n
             /\ Behind(b) \in Seq(Symbol)
  <2>1. i + 1 \in 1 .. n /\ 3 * (i + 1) - 2 = j + 1 /\ 3 * (i + 1) - 1 = j + 2
        /\ 3 * (i + 1) = j + 3
    BY <1>4, <1>9
  <2>2. S[j + 1] = L[i + 1] /\ S[j + 2] = "CR" /\ S[j + 3] = "LF"
    BY <1>5, <2>1
  <2>3. Len(b) >= 2
    <3>1. PICK e : e \in Ends(b)
      BY <1>9
    <3>2. e \in 1 .. Len(b) - 1
      BY <3>1 DEF Ends
    <3> QED
      BY <1>3, <3>2
  <2>4. b[1] = L[i + 1] /\ b[1] \in Text /\ (Len(b) >= 3 => b[2] = "CR" /\ b[3] = "LF")
    BY <1>3, <1>4, <1>8, <2>1, <2>2, <2>3
  <2>5. /\ Len(b) >= 3 /\ Line(b) = <<b[1]>>
        /\ Behind(b) \in Seq(Symbol) /\ Len(Behind(b)) = Len(b) - 3
        /\ \A m \in 1 .. Len(b) - 3 : Behind(b)[m] = b[m + 3]
    BY <1>3, <1>9, <2>4, TextLine
  <2>6. Placed(c, Behind(b), k) /\ k - Len(Behind(b)) = (k - Len(b)) + 3
    BY <1>3, <1>6, <2>5, PlacedCut
  <2> QED
    BY <1>7, <2>1, <2>4, <2>5, <2>6
<1>10. CASE ParseStep[p] = p
  BY <1>10
<1>11. CASE p.state = "REQUEST_LINE" /\ ParseStep[p] # p
  <2>1. Ends(b) # {} /\ j = 3 * 0 /\ l = 0 /\ 0 \in 0 .. n - 1
    BY <1>2, <1>3, <1>4, <1>7, <1>11, StepFields DEF ParserAt
  <2>2. /\ Line(b) = <<L[1]>> /\ Placed(c, Behind(b), k) /\ k - Len(Behind(b)) = 3 * 1
        /\ 1 \in 1 .. n
    BY <1>9, <2>1
  <2>3. ParseStep[p] = At(IF L[1] = "get" THEN "HEADERS" ELSE "ERROR", Behind(b), 0)
    <3>1. Line(b) = <<"get">> <=> L[1] = "get"
      BY <2>2
    <3>2. ParseStep[p] = At(IF Line(b) = <<"get">> THEN "HEADERS" ELSE "ERROR", Behind(b), l)
      BY <1>2, <1>3, <1>11, <2>1, StepFields
    <3> QED
      BY <2>1, <3>1, <3>2
  <2>4. CASE L[1] = "get"
    <3>1. ParseStep[p] = At("HEADERS", Behind(b), 0)
      BY <2>3, <2>4
    <3>2. 1 \notin BadLines(Requests[c]) /\ "get" \notin DOMAIN Length
      BY <1>1, <2>2, <2>4, BadIs DEF Length
    <3>3. Good(c, 1)
      BY <3>2, GoodNext
    <3>4. DeclaredBy(c, 1, 0)
      BY <1>1, <2>4, <3>2 DEF DeclaredBy
    <3> QED
      BY <1>1, <2>2, <3>1, <3>3, <3>4 DEF ParserAt, At
  <2>5. CASE L[1] # "get"
    <3>1. ParseStep[p] = At("ERROR", Behind(b), 0)
      BY <2>3, <2>5
    <3> QED
      BY <2>2, <3>1 DEF ParserAt, At
  <2> QED
    BY <2>4, <2>5
<1>12. CASE p.state = "HEADERS" /\ ParseStep[p] # p
  <2>1. PICK i \in 1 .. n : j = 3 * i /\ Good(c, i) /\ DeclaredBy(c, i, l)
    BY <1>1, <1>2, <1>7, <1>12 DEF ParserAt
  <2>2. Ends(b) # {}
    BY <1>2, <1>3, <1>12, StepFields
  <2>3. CASE i < n
    <3>1. i \in 0 .. n - 1 /\ i \in Nat
      BY <1>4, <2>3
    <3>2. /\ Line(b) = <<L[i + 1]>> /\ Placed(c, Behind(b), k)
          /\ k - Len(Behind(b)) = 3 * (i + 1) /\ i + 1 \in 1 .. n
      BY <1>9, <2>1, <2>2, <3>1
    <3>3. Line(b) # <<>> /\ Line(b)[1] = L[i + 1]
      BY <3>2
    <3>4. CASE L[i + 1] \in {"nocolon", "lenbad"}
      <4>1. ParseStep[p] = At("ERROR", Behind(b), l)
        BY <1>2, <1>3, <1>12, <2>2, <3>3, <3>4, StepFields
      <4> QED
        BY <3>2, <4>1 DEF ParserAt, At
    <3>5. CASE L[i + 1] \notin {"nocolon", "lenbad"}
      <4>1. PICK m : m = IF L[i + 1] \in DOMAIN Length THEN Length[L[i + 1]] ELSE l
        OBVIOUS
      <4>2. ParseStep[p] = At("HEADERS", Behind(b), m)
        BY <1>2, <1>3, <1>12, <2>2, <3>3, <3>5, <4>1, StepFields
      <4>3. DeclaredBy(c, i + 1, m)
        BY <1>1, <2>1, <3>1, <4>1, DeclaredNext
      <4>4. i + 1 \notin BadLines(Requests[c])
        <5>1. i + 1 # 1
          BY <3>1, <2>1
        <5> QED
          BY <1>1, <3>2, <3>5, <5>1, BadIs
      <4>5. Good(c, i + 1)
        BY <2>1, <3>1, <4>4, GoodNext
      <4> QED
        BY <1>1, <3>2, <4>2, <4>3, <4>5 DEF ParserAt, At
    <3> QED
      BY <3>4, <3>5
  <2>4. CASE i = n
    <3>1. Len(b) >= 2
      <4>1. PICK e : e \in Ends(b)
        BY <2>2
      <4>2. e \in 1 .. Len(b) - 1
        BY <4>1 DEF Ends
      <4> QED
        BY <1>3, <4>2
    <3>2. b[1] = "CR" /\ b[2] = "LF"
      <4>1. j + 1 = 3 * n + 1 /\ j + 2 = 3 * n + 2 /\ 1 \in 1 .. Len(b) /\ 2 \in 1 .. Len(b)
        BY <1>3, <1>4, <2>1, <2>4, <3>1
      <4> QED
        BY <1>5, <1>8, <4>1
    <3>3. /\ Line(b) = <<>>
          /\ Behind(b) \in Seq(Symbol) /\ Len(Behind(b)) = Len(b) - 2
          /\ \A m \in 1 .. Len(b) - 2 : Behind(b)[m] = b[m + 2]
      BY <1>3, <3>1, <3>2, EmptyLine
    <3>4. Placed(c, Behind(b), k) /\ k - Len(Behind(b)) = (k - Len(b)) + 2
      BY <1>3, <1>6, <3>1, <3>3, PlacedCut
    <3>5. k - Len(Behind(b)) = 3 * n + 2
      BY <1>7, <2>1, <2>4, <3>4
    <3>6. ParseStep[p] = At(IF l > 0 THEN "BODY" ELSE "COMPLETE", Behind(b), l)
      BY <1>2, <1>3, <1>12, <2>2, <3>3, StepFields
    <3>7. CASE l > 0
      <4>1. ParseStep[p] = At("BODY", Behind(b), l)
        BY <3>6, <3>7
      <4> QED
        BY <1>1, <2>1, <2>4, <3>4, <3>5, <4>1 DEF ParserAt, At
    <3>8. CASE ~(l > 0)
      <4>1. ParseStep[p] = At("COMPLETE", Behind(b), l) /\ l = 0
        BY <1>3, <3>6, <3>8
      <4>2. 3 * n + 2 + l <= k
        BY <1>3, <1>4, <1>6, <3>1, <3>3, <3>5, <4>1
      <4> QED
        BY <1>1, <2>1, <2>4, <3>4, <4>1, <4>2 DEF ParserAt, At
    <3> QED
      BY <3>7, <3>8
  <2> QED
    BY <1>4, <2>1, <2>3, <2>4
<1>13. CASE p.state = "BODY" /\ ParseStep[p] # p
  <2>1. l <= Len(b) /\ ParseStep[p] = At("COMPLETE", SubSeq(b, l + 1, Len(b)), l)
    BY <1>2, <1>3, <1>13, StepFields
  <2>2. PICK d : d = SubSeq(b, l + 1, Len(b))
    OBVIOUS
  <2>3. d \in Seq(Symbol) /\ Len(d) = Len(b) - l /\ \A i \in 1 .. Len(b) - l : d[i] = b[i + l]
    <3>1. l + 1 \in 1 .. Len(b) + 1 /\ Len(b) \in (l + 1) - 1 .. Len(b)
      BY <1>3, <2>1
    <3>2. /\ SubSeq(b, l + 1, Len(b)) \in Seq(Symbol)
          /\ Len(SubSeq(b, l + 1, Len(b))) = Len(b) - (l + 1) + 1
          /\ \A i \in 1 .. Len(b) - (l + 1) + 1 : SubSeq(b, l + 1, Len(b))[i] = b[(l + 1) + i - 1]
      BY <1>3, <3>1, CutOut
    <3>3. Len(b) - (l + 1) + 1 = Len(b) - l /\ \A i \in 1 .. Len(b) - l : (l + 1) + i - 1 = i + l
      BY <1>3
    <3> QED
      BY <2>2, <3>2, <3>3
  <2>4. Placed(c, d, k) /\ k - Len(d) = (k - Len(b)) + l
    BY <1>3, <1>6, <2>1, <2>3, PlacedCut
  <2>5. j = 3 * n + 2 /\ Good(c, n) /\ DeclaredBy(c, n, l)
    BY <1>1, <1>2, <1>7, <1>13 DEF ParserAt
  <2>6. 3 * n + 2 + l <= k
    BY <1>3, <1>4, <1>6, <1>7, <2>1, <2>5
  <2>7. ParseStep[p] = At("COMPLETE", d, l)
    BY <2>1, <2>2
  <2> QED
    BY <1>1, <2>4, <2>5, <2>6, <2>7 DEF ParserAt, At
<1>14. p.state \in {"COMPLETE", "ERROR"} => ParseStep[p] = p
  BY <1>3, StepFields
<1> QED
  BY <1>3, <1>10, <1>11, <1>12, <1>13, <1>14

LEMMA ParsedAt ==
  ASSUME NEW c \in Client, NEW k, NEW p \in Sane, ParserAt(c, p, k)
  PROVE  /\ Parse(p) \in Sane /\ ParseStep[Parse(p)] = Parse(p)
         /\ ParserAt(c, Parse(p), k)
<1>1. PICK K : K = {q \in Sane : ParserAt(c, q, k)}
  OBVIOUS
<1>2. p \in K /\ \A q \in K \cap Sane : ParseStep[q] \in K
  BY <1>1, StepShortens, StepKeepsPlace
<1>3. Parse(p) \in K
  BY <1>2, ParseEnds
<1> QED
  BY <1>1, <1>3, ParseEnds

\* What a read brings is put where it belongs.
LEMMA FedAt ==
  ASSUME NEW c \in Client, NEW k, NEW p \in Sane, ParserAt(c, p, k),
         p.state \notin {"COMPLETE", "ERROR"}, NEW data \in Seq(Symbol),
         k + Len(data) <= Len(Stream[c]), \A i \in 1 .. Len(data) : data[i] = Stream[c][k + i]
  PROVE  ParserAt(c, Grown(p, data), k + Len(data))
<1>1. PICK s, b, l, q : /\ s = p.state /\ b = p.buffer /\ l = p.length
                       /\ q = Grown(p, data)
  OBVIOUS
<1>2. PICK d : d = b \o data
  OBVIOUS
<1>3. q.state = s /\ q.buffer = d /\ q.length = l
  BY <1>1, <1>2 DEF Grown, At
<1>4. b \in Seq(Symbol) /\ Len(b) \in Nat /\ Placed(c, b, k) /\ k \in Nat
  BY <1>1, SaneFacts DEF ParserAt, Placed
<1>5. /\ d \in Seq(Symbol) /\ Len(d) = Len(b) + Len(data)
      /\ \A i \in 1 .. Len(b) : d[i] = b[i]
      /\ \A i \in 1 .. Len(data) : d[Len(b) + i] = data[i]
  BY <1>2, <1>4, Joined, SMT
<1>6. PICK m \in Nat : m = Len(data)
  OBVIOUS
<1>7. (k + m) - Len(d) = k - Len(b) /\ Len(d) <= k + m /\ k + m \in Nat
  BY <1>4, <1>5, <1>6 DEF Placed
<1>8. ASSUME NEW i \in 1 .. Len(d) PROVE d[i] = Stream[c][(k + m) - Len(d) + i]
  <2>1. CASE i <= Len(b)
    <3>1. i \in 1 .. Len(b)
      BY <1>4, <2>1
    <3> QED
      BY <1>4, <1>5, <1>7, <3>1 DEF Placed
  <2>2. CASE ~(i <= Len(b))
    <3>1. /\ i - Len(b) \in 1 .. m /\ Len(b) + (i - Len(b)) = i
          /\ k + (i - Len(b)) = (k + m) - Len(d) + i
      BY <1>4, <1>5, <1>6, <2>2
    <3>2. d[i] = data[i - Len(b)]
      BY <1>5, <1>6, <3>1
    <3> QED
      BY <1>6, <3>1, <3>2
  <2> QED
    BY <2>1, <2>2
<1>9. Placed(c, d, k + m)
  BY <1>6, <1>7, <1>8 DEF Placed
<1> QED
  BY <1>1, <1>3, <1>6, <1>7, <1>9 DEF ParserAt

LEMMA Greatest ==
  ASSUME NEW n \in Nat, NEW T \in SUBSET (1 .. n), T # {}
  PROVE  \E i \in T : \A k \in T : k <= i
<1> DEFINE U == {x \in Nat : n - x \in T}
<1>1. U \in SUBSET Nat /\ U # {}
  <2>1. PICK t \in T : TRUE
    OBVIOUS
  <2>2. n - t \in Nat /\ n - (n - t) = t
    OBVIOUS
  <2> QED
    BY <2>1, <2>2
<1>2. PICK x \in U : \A y \in U : x <= y
  <2> HIDE DEF U
  <2> QED
    BY <1>1, Least
<1>3. ASSUME NEW k \in T PROVE k <= n - x
  <2>1. k \in 1 .. n /\ n - k \in Nat /\ n - (n - k) = k
    OBVIOUS
  <2>2. n - k \in U /\ x \in Nat
    BY <1>2, <2>1
  <2>3. x <= n - k
    BY <1>2, <2>2
  <2> QED
    BY <2>1, <2>2, <2>3
<1> QED
  BY <1>2, <1>3

\* Where a request is decided, by what its lines are.
LEMMA DeclaredIs ==
  ASSUME NEW c \in Client, NEW n, n = Len(Requests[c].lines)
  PROVE  /\ Declared(Requests[c]) \in Nat
         /\ \A l : DeclaredBy(c, n, l) => l = Declared(Requests[c])
<1>1. PICK r, L : r = Requests[c] /\ L = r.lines /\ n = Len(L) /\ n \in Nat
  BY RequestFields
<1>2. \A x \in DOMAIN Length : Length[x] \in Nat
  BY SMT DEF Length
<1>3. Lengths(r) = {i \in 1 .. n : L[i] \in DOMAIN Length}
  BY <1>1 DEF Lengths
<1>4. CASE Lengths(r) = {}
  <2>1. Declared(r) = 0
    BY <1>4 DEF Declared
  <2>2. \A k \in 1 .. n : L[k] \notin DOMAIN Length
    BY <1>3, <1>4
  <2> QED
    BY <1>1, <2>1, <2>2 DEF DeclaredBy
<1>5. CASE Lengths(r) # {}
  <2>1. PICK m : m = CHOOSE i \in Lengths(r) : \A k \in Lengths(r) : k <= i
    OBVIOUS
  <2>2. \E i \in Lengths(r) : \A k \in Lengths(r) : k <= i
    <3>1. Lengths(r) \in SUBSET (1 .. n)
      BY <1>3
    <3> QED
      BY <1>1, <1>5, <3>1, Greatest
  <2>3. m \in Lengths(r) /\ \A k \in Lengths(r) : k <= m
    BY <2>1, <2>2
  <2>4. Declared(r) = Length[L[m]]
    BY <1>1, <1>5, <2>1 DEF Declared
  <2>5. Declared(r) \in Nat
    BY <1>2, <1>3, <2>3, <2>4
  <2>6. ASSUME NEW l, DeclaredBy(c, n, l) PROVE l = Declared(r)
    <3>1. PICK k \in 1 .. n : /\ L[k] \in DOMAIN Length /\ l = Length[L[k]]
                              /\ \A i \in k + 1 .. n : L[i] \notin DOMAIN Length
      BY <1>1, <1>3, <1>5, <2>6 DEF DeclaredBy
    <3>2. k <= m /\ m \in 1 .. n /\ L[m] \in DOMAIN Length
      BY <1>3, <2>3, <3>1
    <3>3. ~(m \in k + 1 .. n)
      BY <3>1, <3>2
    <3>4. m = k
      BY <1>1, <3>2, <3>3
    <3> QED
      BY <2>4, <3>1, <3>4
  <2> QED
    BY <1>1, <2>5, <2>6
<1> QED
  BY <1>4, <1>5

LEMMA DecidedIs ==
  ASSUME NEW c \in Client, NEW n, n = Len(Requests[c].lines)
  PROVE  /\ c \notin Malformed => Decided[c] = 3 * n + 2 + Declared(Requests[c])
         /\ c \in Malformed => \E i \in BadLines(Requests[c]) : i \in 1 .. n /\ Decided[c] = 3 * i
         /\ c \in Malformed <=> BadLines(Requests[c]) # {}
<1>1. PICK B : B = BadLines(Requests[c]) /\ B \subseteq 1 .. n
  BY DEF BadLines
<1>2. Decided[c] = IF c \notin Malformed
                   THEN Len(RequestHead(Requests[c])) + Declared(Requests[c])
                   ELSE 3 * (CHOOSE i \in B : \A j \in B : i <= j)
  BY <1>1 DEF Decided
<1>3. c \in Malformed <=> B # {}
  BY <1>1 DEF Malformed
<1>4. Len(RequestHead(Requests[c])) = 3 * n + 2
  BY StreamIs
<1>5. ASSUME B # {} PROVE \E i \in B : Decided[c] = 3 * i
  <2>1. B \in SUBSET Nat
    BY <1>1
  <2>2. \E i \in B : \A j \in B : i <= j
    BY <1>5, <2>1, Least
  <2>3. PICK i : i = CHOOSE x \in B : \A j \in B : x <= j
    OBVIOUS
  <2>4. i \in B
    BY <2>2, <2>3
  <2>5. Decided[c] = 3 * i
    BY <1>2, <1>3, <1>5, <2>3
  <2> QED
    BY <2>4, <2>5
<1> QED
  BY <1>1, <1>2, <1>3, <1>4, <1>5

\* A parser that waits waits for a request that is not decided.
LEMMA Undecided ==
  ASSUME NEW c \in Client, NEW k, NEW p \in Sane, ParserAt(c, p, k), ParseStep[p] = p,
         p.state \notin {"COMPLETE", "ERROR"}
  PROVE  k < Decided[c]
<1>1. PICK n, L, S : n = Len(Requests[c].lines) /\ L = Requests[c].lines /\ S = Stream[c]
  OBVIOUS
<1>2. PICK b, l : b = p.buffer /\ l = p.length
  OBVIOUS
<1>3. /\ b \in Seq(Symbol) /\ Len(b) \in Nat /\ l \in Nat /\ p \in Parser
      /\ p.state \in {"REQUEST_LINE", "HEADERS", "BODY"}
  BY <1>2 DEF Sane, Parser
<1>4. n \in Nat \ {0} /\ Declared(Requests[c]) \in Nat
  BY <1>1, RequestFields, DeclaredIs
<1>5. /\ \A i \in 1 .. n : S[3 * i - 1] = "CR" /\ S[3 * i] = "LF"
      /\ S[3 * n + 1] = "CR" /\ S[3 * n + 2] = "LF"
  <2>1. n = Len(Requests[c].lines)
    BY <1>1
  <2>2. ASSUME NEW i \in 1 .. n PROVE Stream[c][3 * i - 1] = "CR" /\ Stream[c][3 * i] = "LF"
    BY <2>1, StreamIs, Zenon
  <2>3. Stream[c][3 * n + 1] = "CR" /\ Stream[c][3 * n + 2] = "LF"
    BY <2>1, StreamIs, Zenon
  <2> QED
    BY <1>1, <2>2, <2>3, Zenon
<1>6. Placed(c, b, k) /\ k \in Nat /\ Len(b) <= k
  BY <1>2 DEF ParserAt, Placed
<1>7. PICK j \in Nat : j = k - Len(b)
  BY <1>3, <1>6
<1>8. \A i \in 1 .. Len(b) : b[i] = S[j + i]
  BY <1>1, <1>6, <1>7 DEF Placed
<1>9. /\ c \notin Malformed => Decided[c] >= 3 * n + 2 /\ Decided[c] \in Nat
                             /\ Decided[c] = 3 * n + 2 + Declared(Requests[c])
      /\ c \in Malformed => \E i \in BadLines(Requests[c]) : i \in 1 .. n /\ Decided[c] = 3 * i
      /\ c \in Malformed <=> BadLines(Requests[c]) # {}
  <2>1. n = Len(Requests[c].lines)
    BY <1>1
  <2>2. c \notin Malformed => Decided[c] = 3 * n + 2 + Declared(Requests[c])
    BY <2>1, DecidedIs, Zenon
  <2>3. c \in Malformed =>
          \E i \in BadLines(Requests[c]) : i \in 1 .. n /\ Decided[c] = 3 * i
    BY <2>1, DecidedIs, Zenon
  <2>4. c \in Malformed <=> BadLines(Requests[c]) # {}
    BY <2>1, DecidedIs, Zenon
  <2>5. 3 * n + 2 + Declared(Requests[c]) \in Nat /\ 3 * n + 2 + Declared(Requests[c]) >= 3 * n + 2
    BY <1>4
  <2> QED
    BY <2>2, <2>3, <2>4, <2>5
<1>10. p.state \in {"REQUEST_LINE", "HEADERS"} => Ends(b) = {}
  <2> SUFFICES ASSUME p.state \in {"REQUEST_LINE", "HEADERS"}, Ends(b) # {} PROVE FALSE
    OBVIOUS
  <2>1. \E s, x : p = At(s, Behind(b), x)
    <3>1. CASE p.state = "REQUEST_LINE"
      BY <1>2, <1>3, <3>1, StepFields
    <3>2. CASE p.state = "HEADERS"
      BY <1>2, <1>3, <3>2, StepFields
    <3> QED
      BY <3>1, <3>2
  <2>2. b = Behind(b)
    BY <1>2, <2>1 DEF At
  <2>3. Len(Behind(b)) < Len(b)
    BY <1>3, BehindIsShorter
  <2> QED
    BY <1>3, <2>2, <2>3
\* Where an end of a line is due, the buffer does not reach.
<1>11. ASSUME Ends(b) = {}, NEW e \in Nat \ {0}, S[j + e] = "CR", S[j + e + 1] = "LF"
       PROVE  Len(b) < e + 1
  <2> SUFFICES ASSUME Len(b) >= e + 1 PROVE FALSE
    BY <1>3
  <2>1. e \in 1 .. Len(b) - 1 /\ e \in 1 .. Len(b) /\ e + 1 \in 1 .. Len(b)
        /\ j + (e + 1) = j + e + 1
    BY <1>3
  <2>2. b[e] = "CR" /\ b[e + 1] = "LF"
    BY <1>8, <1>11, <2>1
  <2> QED
    BY <1>3, <1>11, <2>1, <2>2, EndsAt
<1>12. ASSUME NEW i \in 0 .. n, j = 3 * i, Ends(b) = {}, i = 0 \/ Good(c, i)
       PROVE  k < Decided[c]
  <2>1. CASE i < n
    <3>1. i + 1 \in 1 .. n /\ 3 * (i + 1) - 1 = j + 2 /\ 3 * (i + 1) = j + 2 + 1
      BY <1>4, <1>12, <2>1
    <3>2. S[j + 2] = "CR" /\ S[j + 2 + 1] = "LF"
      BY <1>5, <3>1
    <3>3. Len(b) < 3
      BY <1>11, <1>12, <3>2
    <3>4. k < 3 * (i + 1)
      BY <1>3, <1>6, <1>7, <3>1, <3>3
    <3>5. CASE c \notin Malformed
      BY <1>4, <1>6, <1>9, <3>1, <3>4, <3>5
    <3>6. CASE c \in Malformed
      <4>1. PICK m \in BadLines(Requests[c]) : m \in 1 .. n /\ Decided[c] = 3 * m
        BY <1>9, <3>6
      <4>2. m >= i + 1
        BY <1>4, <1>12, <4>1 DEF Good
      <4> QED
        BY <1>4, <1>6, <3>1, <3>4, <4>1, <4>2
    <3> QED
      BY <3>5, <3>6
  <2>2. CASE i = n
    <3>1. Good(c, n) /\ j = 3 * n
      BY <1>4, <1>12, <2>2
    <3>2. S[j + 1] = "CR" /\ S[j + 1 + 1] = "LF"
      <4>1. j + 1 = 3 * n + 1 /\ j + 1 + 1 = 3 * n + 2
        BY <1>4, <3>1
      <4> QED
        BY <1>5, <4>1
    <3>3. Len(b) < 2
      BY <1>11, <1>12, <3>2
    <3>4. c \notin Malformed
      <4>1. BadLines(Requests[c]) \subseteq 1 .. n
        BY <1>1 DEF BadLines
      <4> QED
        BY <1>4, <1>9, <3>1, <4>1 DEF Good
    <3> QED
      BY <1>3, <1>4, <1>6, <1>7, <1>9, <3>1, <3>3, <3>4
  <2> QED
    BY <1>4, <2>1, <2>2
<1>13. CASE p.state = "REQUEST_LINE"
  <2>1. j = 3 * 0 /\ 0 \in 0 .. n
    BY <1>2, <1>4, <1>7, <1>13 DEF ParserAt
  <2> QED
    BY <1>10, <1>12, <1>13, <2>1
<1>14. CASE p.state = "HEADERS"
  <2>1. PICK i \in 1 .. n : j = 3 * i /\ Good(c, i)
    BY <1>1, <1>2, <1>7, <1>14 DEF ParserAt
  <2>2. i \in 0 .. n
    BY <1>4
  <2> QED
    BY <1>10, <1>12, <1>14, <2>1, <2>2
<1>15. CASE p.state = "BODY"
  <2>1. j = 3 * n + 2 /\ Good(c, n) /\ DeclaredBy(c, n, l)
    BY <1>1, <1>2, <1>7, <1>15 DEF ParserAt
  <2>2. c \notin Malformed
    <3>1. BadLines(Requests[c]) \subseteq 1 .. n
      BY <1>1 DEF BadLines
    <3> QED
      BY <1>4, <1>9, <2>1, <3>1 DEF Good
  <2>3. l = Declared(Requests[c])
    BY <1>1, <2>1, DeclaredIs
  <2>4. Len(b) < l
    <3>1. ~(Len(b) < l) => p = At("COMPLETE", SubSeq(b, l + 1, Len(b)), l)
      BY <1>2, <1>3, <1>15, StepFields
    <3> QED
      BY <1>15, <3>1 DEF At
  <2> QED
    BY <1>3, <1>4, <1>6, <1>7, <1>9, <2>1, <2>2, <2>3, <2>4
<1> QED
  BY <1>3, <1>13, <1>14, <1>15

\* Only a whole, well-formed request is complete.
LEMMA Whole ==
  ASSUME NEW c \in Client, NEW k, NEW p \in Sane, ParserAt(c, p, k), p.state = "COMPLETE"
  PROVE  c \notin Malformed /\ k >= Decided[c]
<1>1. PICK n : n = Len(Requests[c].lines) /\ n \in Nat
  BY RequestFields
<1>2. Good(c, n) /\ DeclaredBy(c, n, p.length) /\ 3 * n + 2 + p.length <= k
  BY <1>1 DEF ParserAt
<1>3. c \notin Malformed
  <2>1. BadLines(Requests[c]) \subseteq 1 .. n
    BY <1>1 DEF BadLines
  <2>2. BadLines(Requests[c]) = {}
    BY <1>1, <1>2, <2>1 DEF Good
  <2> QED
    BY <1>1, <2>2, DecidedIs
<1>4. Decided[c] = 3 * n + 2 + Declared(Requests[c]) /\ p.length = Declared(Requests[c])
  BY <1>1, <1>2, <1>3, DecidedIs, DeclaredIs
<1> QED
  BY <1>1, <1>2, <1>3, <1>4, DeclaredIs DEF ParserAt, Placed

LEMMA StreamType ==
  ASSUME NEW c \in Client
  PROVE  Stream[c] \in Seq(Symbol) /\ Len(Stream[c]) \in Nat
<1>1. Stream[c] \in Seq(Symbol)
  BY StreamIs
<1> QED
  BY <1>1

LEMMA NewParserAt ==
  ASSUME NEW c \in Client
  PROVE  ParserAt(c, NewParser, 0) /\ ParseStep[NewParser] = NewParser
<1>1. /\ NewParser \in Sane /\ NewParser \in Parser /\ NewParser.state = "REQUEST_LINE"
      /\ NewParser.buffer = <<>> /\ NewParser.length = 0
  BY NewParserIs DEF Sane
<1>2. Ends(<<>>) = {}
  BY DEF Ends
<1>3. ParseStep[NewParser] = NewParser
  BY <1>1, <1>2, StepFields
<1>4. Placed(c, <<>>, 0)
  <2>1. Stream[c] \in Seq(Symbol) /\ Len(Stream[c]) \in Nat
    BY StreamType
  <2>2. Len(<<>>) = 0 /\ 1 .. 0 = {}
    OBVIOUS
  <2> QED
    BY <2>1, <2>2 DEF Placed
<1>5. PICK p : p = NewParser
  OBVIOUS
<1>6. 0 - Len(p.buffer) = 0
  BY <1>1, <1>5
<1>7. ParserAt(c, p, 0)
  BY <1>1, <1>4, <1>5, <1>6 DEF ParserAt
<1> QED
  BY <1>3, <1>5, <1>7

\* What is the same for a client that a step leaves alone.
LEMMA StreamKept ==
  ASSUME NEW c \in Client, StreamOf(c), rx'[c] = rx[c], todo'[c] = todo[c],
         phase'[c] \in {"new", "queued"} => phase[c] \in {"new", "queued"}
  PROVE  StreamOf(c)'
<1>1. Taken(c)' = Taken(c)
  BY DEF Taken
<1>2. PICK x, t, k : x = rx[c] /\ t = todo[c] /\ k = Taken(c)
  OBVIOUS
<1>3. rx'[c] = x /\ todo'[c] = t /\ Taken(c)' = k
  BY <1>1, <1>2
<1> QED
  BY <1>2, <1>3 DEF StreamOf

LEMMA ParserKept ==
  ASSUME NEW c \in Client, ParserOf(c), Taken(c)' = Taken(c),
         conn'[c] # None => /\ conn[c] # None /\ conn'[c].state = conn[c].state
                            /\ conn'[c].parser = conn[c].parser
  PROVE  ParserOf(c)'
BY DEF ParserOf, Malformed

LEMMA TakenKept ==
  ASSUME NEW c \in Client, rx'[c] = rx[c], todo'[c] = todo[c]
  PROVE  Taken(c)' = Taken(c)
BY DEF Taken

LEMMA ReadInit == Init => ReadInv
<1> SUFFICES ASSUME Init PROVE ReadInv
  OBVIOUS
<1>1. ASSUME NEW c \in Client PROVE StreamOf(c) /\ ParserOf(c)
  <2>1. /\ rx[c] = <<>> /\ todo[c] = Stream[c] /\ conn[c] = None
        /\ Len(Stream[c]) \in Nat /\ Len(<<>>) = 0
    BY StreamType DEF Init
  <2>2. Taken(c) = 0
    <3>1. Taken(c) = Len(Stream[c]) - Len(Stream[c]) - 0
      BY <2>1 DEF Taken
    <3> QED
      BY <2>1, <3>1
  <2>3. \A i \in 1 .. Len(Stream[c]) : Stream[c][i] = Stream[c][Len(Stream[c]) - Len(Stream[c]) + i]
    BY <2>1
  <2> QED
    BY <2>1, <2>2, <2>3 DEF StreamOf, ParserOf
<1> QED
  BY <1>1, EdgeInit DEF ReadInv

\* A packet takes symbols from what is to be sent to what is to be read.
LEMMA ReadSend ==
  ASSUME ReadInv, NEW c \in Client, Send(c)
  PROVE  StreamOf(c)' /\ Taken(c)' = Taken(c)
<1>1. TypeInv
  BY DEF ReadInv, EdgeInv
<1>2. PICK t, x \in Seq(Symbol) : t = todo[c] /\ x = rx[c]
  BY <1>1 DEF TypeInv
<1>3. PICK m \in 1 .. Len(t) :
        /\ rx' = [rx EXCEPT ![c] = x \o SubSeq(t, 1, m)]
        /\ todo' = [todo EXCEPT ![c] = SubSeq(t, m + 1, Len(t))]
  BY <1>2 DEF Send
<1>4. PICK d, u, y : d = SubSeq(t, 1, m) /\ u = SubSeq(t, m + 1, Len(t)) /\ y = x \o d
  OBVIOUS
<1>5. rx'[c] = y /\ todo'[c] = u /\ phase'[c] = phase[c]
  BY <1>1, <1>3, <1>4 DEF TypeInv, Send
<1>6. d \in Seq(Symbol) /\ Len(d) = m /\ \A i \in 1 .. m : d[i] = t[i]
  <2>1. 1 \in 1 .. Len(t) + 1 /\ m \in 1 - 1 .. Len(t)
    OBVIOUS
  <2>2. /\ SubSeq(t, 1, m) \in Seq(Symbol) /\ Len(SubSeq(t, 1, m)) = m - 1 + 1
        /\ \A i \in 1 .. m - 1 + 1 : SubSeq(t, 1, m)[i] = t[1 + i - 1]
    BY <2>1, CutOut
  <2>3. m - 1 + 1 = m /\ \A i \in 1 .. m : 1 + i - 1 = i
    OBVIOUS
  <2> QED
    BY <1>4, <2>2, <2>3
<1>7. u \in Seq(Symbol) /\ Len(u) = Len(t) - m /\ \A i \in 1 .. Len(t) - m : u[i] = t[m + i]
  <2>1. m + 1 \in 1 .. Len(t) + 1 /\ Len(t) \in (m + 1) - 1 .. Len(t)
    OBVIOUS
  <2>2. /\ SubSeq(t, m + 1, Len(t)) \in Seq(Symbol)
        /\ Len(SubSeq(t, m + 1, Len(t))) = Len(t) - (m + 1) + 1
        /\ \A i \in 1 .. Len(t) - (m + 1) + 1 : SubSeq(t, m + 1, Len(t))[i] = t[(m + 1) + i - 1]
    BY <2>1, CutOut
  <2>3. Len(t) - (m + 1) + 1 = Len(t) - m /\ \A i \in 1 .. Len(t) - m : (m + 1) + i - 1 = m + i
    OBVIOUS
  <2> QED
    BY <1>4, <2>2, <2>3
<1>8. /\ y \in Seq(Symbol) /\ Len(y) = Len(x) + m
      /\ \A i \in 1 .. Len(x) : y[i] = x[i]
      /\ \A i \in 1 .. m : y[Len(x) + i] = d[i]
  <2>1. /\ x \o d \in Seq(Symbol) /\ Len(x \o d) = Len(x) + Len(d)
        /\ \A i \in 1 .. Len(x) : (x \o d)[i] = x[i]
        /\ \A i \in 1 .. Len(d) : (x \o d)[Len(x) + i] = d[i]
    BY <1>6, Joined, SMT
  <2> QED
    BY <1>4, <1>6, <2>1
<1>9. PICK S \in Seq(Symbol), N \in Nat : S = Stream[c] /\ N = Len(S)
  BY StreamType
<1>10. PICK k \in Int : k = Taken(c) /\ k = N - Len(t) - Len(x)
  <2>1. Taken(c) = N - Len(t) - Len(x)
    BY <1>2, <1>9 DEF Taken
  <2>2. Len(t) \in Nat /\ Len(x) \in Nat
    OBVIOUS
  <2>3. N - Len(t) - Len(x) \in Int
    BY <2>2
  <2> QED
    BY <2>1, <2>3
<1>11. Taken(c)' = k
  <2>1. Taken(c)' = Len(Stream[c]) - Len(u) - Len(y)
    BY <1>5 DEF Taken
  <2> QED
    BY <1>7, <1>8, <1>9, <1>10, <2>1
<1>12. /\ 0 <= k
       /\ \A i \in 1 .. Len(x) : x[i] = S[k + i]
       /\ \A i \in 1 .. Len(t) : t[i] = S[N - Len(t) + i]
       /\ phase[c] \in {"new", "queued"} => k = 0
  BY <1>2, <1>9, <1>10 DEF ReadInv, StreamOf
<1>13. ASSUME NEW i \in 1 .. Len(y) PROVE y[i] = S[k + i]
  <2>1. CASE i <= Len(x)
    <3>1. i \in 1 .. Len(x)
      BY <2>1
    <3> QED
      BY <1>8, <1>12, <3>1
  <2>2. CASE ~(i <= Len(x))
    <3>1. /\ i - Len(x) \in 1 .. m /\ Len(x) + (i - Len(x)) = i
          /\ N - Len(t) + (i - Len(x)) = k + i /\ i - Len(x) \in 1 .. Len(t)
      BY <1>8, <1>10, <2>2
    <3>2. y[i] = t[i - Len(x)]
      BY <1>6, <1>8, <3>1
    <3> QED
      BY <1>12, <3>1, <3>2
  <2> QED
    BY <2>1, <2>2
<1>14. ASSUME NEW i \in 1 .. Len(u) PROVE u[i] = S[N - Len(u) + i]
  <2>1. m + i \in 1 .. Len(t) /\ N - Len(t) + (m + i) = N - Len(u) + i
    BY <1>7
  <2> QED
    BY <1>7, <1>12, <2>1
<1>15. StreamOf(c)'
  BY <1>5, <1>9, <1>10, <1>11, <1>12, <1>13, <1>14 DEF StreamOf
<1> QED
  BY <1>10, <1>11, <1>15

\* A read takes them from there, and the parser gets what it is due.
LEMMA ReadRead ==
  ASSUME ReadInv, NEW c \in Client, Read(c)
  PROVE  StreamOf(c)' /\ ParserOf(c)'
<1>1. TypeInv /\ OpenInv
  BY DEF ReadInv, EdgeInv
<1>2. PICK n \in 1 .. Len(rx[c]), data \in Seq(Symbol), parser \in Sane :
        /\ conn[c] \in Conn /\ conn[c].state = "READING" /\ conn[c].parser \in Sane
        /\ conn[c] # None
        /\ data = SubSeq(rx[c], 1, n) /\ parser = Feed(conn[c].parser, data)
        /\ rx' = [rx EXCEPT ![c] = SubSeq(rx[c], n + 1, Len(rx[c]))]
        /\ \/ /\ parser.state = "COMPLETE"
              /\ conn' = [conn EXCEPT ![c] = [state |-> "WRITING", parser |-> parser,
                                              left |-> Answer]]
              /\ ready' = Edge(c)
              /\ Handled
              /\ UNCHANGED <<phase, tx>>
           \/ /\ parser.state = "ERROR"
              /\ RemoveConnection(c)
           \/ /\ parser.state \notin {"COMPLETE", "ERROR"}
              /\ conn' = [conn EXCEPT ![c].parser = parser]
              /\ UNCHANGED <<phase, tx, ready, batch>>
  BY <1>1, ReadIs
<1>3. PICK x \in Seq(Symbol), t \in Seq(Symbol) : x = rx[c] /\ t = todo[c] /\ todo' = todo
  BY <1>1 DEF TypeInv, Read
<1>4. PICK y : y = SubSeq(x, n + 1, Len(x)) /\ rx'[c] = y
  BY <1>1, <1>2, <1>3 DEF TypeInv
<1>5. n \in 1 .. Len(x)
  BY <1>2, <1>3
<1>6. y \in Seq(Symbol) /\ Len(y) = Len(x) - n /\ \A i \in 1 .. Len(x) - n : y[i] = x[n + i]
  <2>1. n + 1 \in 1 .. Len(x) + 1 /\ Len(x) \in (n + 1) - 1 .. Len(x)
    BY <1>5
  <2>2. /\ SubSeq(x, n + 1, Len(x)) \in Seq(Symbol)
        /\ Len(SubSeq(x, n + 1, Len(x))) = Len(x) - (n + 1) + 1
        /\ \A i \in 1 .. Len(x) - (n + 1) + 1 : SubSeq(x, n + 1, Len(x))[i] = x[(n + 1) + i - 1]
    BY <2>1, CutOut
  <2>3. Len(x) - (n + 1) + 1 = Len(x) - n /\ \A i \in 1 .. Len(x) - n : (n + 1) + i - 1 = n + i
    BY <1>5
  <2> QED
    BY <1>4, <2>2, <2>3
<1>7. Len(data) = n /\ \A i \in 1 .. n : data[i] = x[i]
  <2>1. 1 \in 1 .. Len(x) + 1 /\ n \in 1 - 1 .. Len(x)
    BY <1>5
  <2>2. /\ Len(SubSeq(x, 1, n)) = n - 1 + 1
        /\ \A i \in 1 .. n - 1 + 1 : SubSeq(x, 1, n)[i] = x[1 + i - 1]
    BY <2>1, CutOut
  <2>3. n - 1 + 1 = n /\ \A i \in 1 .. n : 1 + i - 1 = i
    BY <1>5
  <2> QED
    BY <1>2, <1>3, <2>2, <2>3
<1>8. PICK S \in Seq(Symbol), N \in Nat : S = Stream[c] /\ N = Len(S)
  BY StreamType
<1>9. PICK k \in Int : k = Taken(c) /\ k = N - Len(t) - Len(x)
  <2>1. Taken(c) = N - Len(t) - Len(x)
    BY <1>3, <1>8 DEF Taken
  <2>2. Len(t) \in Nat /\ Len(x) \in Nat
    OBVIOUS
  <2>3. N - Len(t) - Len(x) \in Int
    BY <2>2
  <2> QED
    BY <2>1, <2>3
<1>10. Taken(c)' = k + n
  <2>1. Taken(c)' = Len(Stream[c]) - Len(t) - Len(y)
    BY <1>3, <1>4 DEF Taken
  <2> QED
    BY <1>5, <1>6, <1>8, <1>9, <2>1
<1>11. /\ 0 <= k
       /\ \A i \in 1 .. Len(x) : x[i] = S[k + i]
       /\ \A i \in 1 .. Len(t) : t[i] = S[N - Len(t) + i]
  BY <1>3, <1>8, <1>9 DEF ReadInv, StreamOf
<1>12. StreamOf(c)'
  <2>1. ASSUME NEW i \in 1 .. Len(y) PROVE y[i] = S[(k + n) + i]
    <3>1. n + i \in 1 .. Len(x) /\ k + (n + i) = (k + n) + i
      BY <1>5, <1>6
    <3> QED
      BY <1>6, <1>11, <3>1
  <2>2. phase'[c] \notin {"new", "queued"}
    <3>1. phase[c] = "open"
      BY <1>1, <1>2 DEF OpenInv
    <3>2. phase'[c] \in {"open", "closed"}
      BY <1>1, <1>2, <3>1 DEF RemoveConnection, TypeInv
    <3> QED
      BY <3>2
  <2>3. 0 <= k + n
    BY <1>5, <1>11
  <2> QED
    BY <1>3, <1>4, <1>8, <1>10, <1>11, <2>1, <2>2, <2>3 DEF StreamOf
<1>13. PICK p \in Sane : p = conn[c].parser
  BY <1>2
<1>14. ParserAt(c, p, k) /\ p.state \notin {"COMPLETE", "ERROR"}
  BY <1>2, <1>9, <1>13 DEF ReadInv, ParserOf
<1>15. ParserAt(c, Grown(p, data), k + n)
  <2>1. k + Len(data) <= Len(Stream[c])
    BY <1>5, <1>7, <1>8, <1>9
  <2>2. ASSUME NEW i \in 1 .. Len(data) PROVE data[i] = Stream[c][k + i]
    <3>1. i \in 1 .. n /\ i \in 1 .. Len(x)
      BY <1>5, <1>7
    <3> QED
      BY <1>7, <1>8, <1>11, <3>1
  <2> QED
    BY <1>7, <1>14, <2>1, <2>2, FedAt
<1>16. ParserAt(c, parser, k + n) /\ ParseStep[parser] = parser
  <2>1. Grown(p, data) \in Sane /\ parser = Parse(Grown(p, data))
    BY <1>2, <1>13, FeedIs
  <2> QED
    BY <1>15, <2>1, ParsedAt
<1>17. ParserOf(c)'
  <2>1. CASE /\ parser.state = "COMPLETE"
             /\ conn' = [conn EXCEPT ![c] = [state |-> "WRITING", parser |-> parser,
                                             left |-> Answer]]
    <3>1. conn'[c] = [state |-> "WRITING", parser |-> parser, left |-> Answer]
      BY <1>1, <2>1 DEF TypeInv
    <3>2. conn'[c].state = "WRITING"
      BY <3>1
    <3>3. c \notin Malformed /\ k + n >= Decided[c]
      BY <1>16, <2>1, Whole
    <3> QED
      BY <1>10, <3>2, <3>3 DEF ParserOf, Malformed
  <2>2. CASE RemoveConnection(c)
    <3>1. conn'[c] = None
      BY <1>1, <2>2 DEF RemoveConnection, TypeInv
    <3> QED
      BY <3>1 DEF ParserOf
  <2>3. CASE /\ parser.state \notin {"COMPLETE", "ERROR"}
             /\ conn' = [conn EXCEPT ![c].parser = parser]
    <3>1. conn'[c].state = "READING" /\ conn'[c].parser = parser
      BY <1>1, <1>2, <2>3, ParserReplaced
    <3> QED
      BY <1>10, <1>16, <2>3, <3>1 DEF ParserOf
  <2> QED
    BY <1>2, <2>1, <2>2, <2>3
<1> QED
  BY <1>12, <1>17

LEMMA ReadStep == ReadInv /\ [Next]_vars => ReadInv'
<1> SUFFICES ASSUME ReadInv, [Next]_vars PROVE ReadInv'
  OBVIOUS
<1>1. TypeInv /\ OpenInv /\ QueueInv /\ EdgeInv'
  BY EdgeStep DEF ReadInv, EdgeInv
<1> SUFFICES ASSUME NEW d \in Client PROVE StreamOf(d)' /\ ParserOf(d)'
  BY <1>1 DEF ReadInv
<1>2. StreamOf(d) /\ ParserOf(d)
  BY DEF ReadInv
\* A client that a step neither sends for, nor accepts, nor serves.
<1>3. ASSUME rx'[d] = rx[d], todo'[d] = todo[d],
             phase'[d] \in {"new", "queued"} => phase[d] \in {"new", "queued"},
             conn'[d] # None => /\ conn[d] # None /\ conn'[d].state = conn[d].state
                                /\ conn'[d].parser = conn[d].parser
      PROVE  StreamOf(d)' /\ ParserOf(d)'
  BY <1>2, <1>3, StreamKept, ParserKept, TakenKept
<1>4. CASE UNCHANGED vars
  BY <1>3, <1>4 DEF vars, kernel
<1>5. ASSUME NEW c \in Client,
             Connect(c) \/ Send(c) \/ Finish(c) \/ Reset(c) \/ Receive(c)
      PROVE  StreamOf(d)' /\ ParserOf(d)'
  <2>1. CASE Send(c) /\ c = d
    <3>1. StreamOf(d)' /\ Taken(d)' = Taken(d)
      BY <2>1, ReadSend
    <3>2. conn' = conn
      BY <2>1 DEF Send
    <3> QED
      BY <1>2, <3>1, <3>2, ParserKept
  <2>2. CASE Send(c) /\ c # d
    <3>1. rx'[d] = rx[d] /\ todo'[d] = todo[d] /\ UNCHANGED <<phase, conn>>
      BY <1>1, <2>2 DEF Send, TypeInv
    <3> QED
      BY <1>3, <3>1
  <2>3. CASE Connect(c)
    <3>1. UNCHANGED <<rx, todo, conn>> /\ phase[c] = "new" /\ phase' = [phase EXCEPT ![c] = "queued"]
      BY <2>3 DEF Connect, kernel
    <3>2. phase'[d] \in {"new", "queued"} => phase[d] \in {"new", "queued"}
      BY <1>1, <3>1 DEF TypeInv
    <3> QED
      BY <1>3, <3>1, <3>2
  <2>4. CASE Finish(c) \/ Reset(c) \/ Receive(c)
    <3>1. UNCHANGED <<rx, todo, conn, phase>>
      BY <2>4 DEF Finish, Reset, Receive
    <3> QED
      BY <1>3, <3>1
  <2> QED
    BY <1>5, <2>1, <2>2, <2>3, <2>4
<1>6. CASE EpollWait \/ AcceptEnds
  <2>1. UNCHANGED <<rx, todo, conn, phase>>
    BY <1>6 DEF EpollWait, AcceptEnds, kernel
  <2> QED
    BY <1>3, <2>1
<1>7. CASE Accept \/ AcceptRefused
  <2>1. PICK c \in Client : c = Head(queue) /\ queue # <<>>
    BY <1>1, <1>7 DEF Accept, AcceptRefused, TypeInv
  <2>2. UNCHANGED <<rx, todo>>
    BY <1>7 DEF Accept, AcceptRefused, kernel
  <2>3. phase[c] = "queued"
    <3>1. queue \in Seq(Client) /\ queue # <<>>
      BY <1>1, <2>1 DEF TypeInv
    <3>2. 1 \in DOMAIN queue /\ queue[1] = c
      BY <2>1, <3>1
    <3> QED
      BY <1>1, <3>2 DEF QueueInv
  <2>4. phase'[d] \in {"new", "queued"} => phase[d] \in {"new", "queued"}
    BY <1>1, <1>7, <2>1 DEF Accept, AcceptRefused, TypeInv
  <2>5. CASE AcceptRefused \/ c # d
    <3>1. conn'[d] = conn[d]
      BY <1>1, <1>7, <2>1, <2>5 DEF Accept, AcceptRefused, TypeInv
    <3> QED
      BY <1>3, <2>2, <2>4, <3>1
  <2>6. CASE Accept /\ c = d
    <3>1. PICK r : r = [state |-> "READING", parser |-> NewParser, left |-> 0]
      OBVIOUS
    <3>2. conn' = [conn EXCEPT ![d] = r]
      BY <2>1, <2>6, <3>1 DEF Accept
    <3>3. conn'[d] = r
      BY <1>1, <3>2 DEF TypeInv
    <3>4. conn'[d].state = "READING" /\ conn'[d].parser = NewParser
      BY <3>1, <3>3
    <3>5. Taken(d) = 0
      BY <1>2, <2>3, <2>6 DEF StreamOf
    <3>6. Taken(d)' = 0
      BY <2>2, <3>5, TakenKept
    <3>7. NewParser.state \notin {"COMPLETE", "ERROR"}
      BY NewParserIs
    <3>8. ParserOf(d)'
      BY <3>4, <3>6, <3>7, NewParserAt DEF ParserOf
    <3> QED
      BY <1>2, <2>2, <2>4, <3>8, StreamKept
  <2> QED
    BY <1>7, <2>5, <2>6
<1>8. ASSUME NEW c \in Client, Serve(c) PROVE StreamOf(d)' /\ ParserOf(d)'
  <2>1. CASE Read(c) /\ c = d
    BY <2>1, ReadRead
  <2>2. ASSUME RemoveConnection(c), rx'[d] = rx[d], todo' = todo
        PROVE  StreamOf(d)' /\ ParserOf(d)'
    <3>1. phase'[d] \in {phase[d], "closed"} /\ conn'[d] \in {conn[d], None}
      BY <1>1, <2>2 DEF RemoveConnection, TypeInv
    <3> QED
      BY <1>3, <2>2, <3>1
  <2>3. CASE Read(c) /\ c # d
    <3>1. PICK n \in 1 .. Len(rx[c]), data \in Seq(Symbol), parser \in Sane :
            /\ rx' = [rx EXCEPT ![c] = SubSeq(rx[c], n + 1, Len(rx[c]))]
            /\ \/ conn' = [conn EXCEPT ![c] = [state |-> "WRITING", parser |-> parser,
                                               left |-> Answer]] /\ phase' = phase
               \/ RemoveConnection(c)
               \/ conn' = [conn EXCEPT ![c].parser = parser] /\ phase' = phase
      BY <1>1, <2>3, ReadIs
    <3>2. rx'[d] = rx[d] /\ todo' = todo
      BY <1>1, <2>3, <3>1 DEF TypeInv, Read
    <3>3. CASE RemoveConnection(c)
      BY <2>2, <3>2, <3>3
    <3>4. CASE ~RemoveConnection(c)
      <4>1. conn'[d] = conn[d] /\ phase' = phase
        BY <1>1, <2>3, <3>1, <3>4 DEF TypeInv
      <4> QED
        BY <1>3, <3>2, <4>1
    <3> QED
      BY <3>3, <3>4
  <2>4. CASE ReadAgain(c) \/ WriteAgain(c) \/ BrokenPipe(c)
    <3>1. UNCHANGED <<rx, todo, conn, phase>>
      BY <2>4 DEF ReadAgain, WriteAgain, BrokenPipe, kernel
    <3> QED
      BY <1>3, <3>1
  <2>5. CASE ReadEnd(c) \/ WriteEnd(c)
    <3>1. RemoveConnection(c) /\ UNCHANGED <<rx, todo>>
      BY <2>5 DEF ReadEnd, WriteEnd
    <3> QED
      BY <2>2, <3>1
  <2>6. CASE Write(c)
    <3>1. UNCHANGED <<rx, todo, phase>> /\ conn' = [conn EXCEPT ![c].left = conn[c].left - 1]
      BY <2>6 DEF Write
    <3>2. PICK r \in Conn : r = conn[c] /\ r # None
      BY <1>1, <2>6, WantsIs DEF Write, Writing
    <3>3. PICK q : q = [r EXCEPT !.left = r.left - 1]
      OBVIOUS
    <3>4. q.state = r.state /\ q.parser = r.parser
      BY <3>3, SMT DEF Conn
    <3>5. conn' = [conn EXCEPT ![c] = q]
      BY <3>1, <3>2, <3>3
    <3>6. conn'[d] = IF d = c THEN q ELSE conn[d]
      BY <1>1, <3>5 DEF TypeInv
    <3> QED
      BY <1>3, <3>1, <3>2, <3>4, <3>6
  <2> QED
    BY <1>8, <2>1, <2>3, <2>4, <2>5, <2>6 DEF Serve
<1> QED
  BY <1>4, <1>5, <1>6, <1>7, <1>8 DEF Next, Loop

\* However a request is cut into packets and reads, its connection reads until
\* it is decided and no longer, and only a whole, well-formed one is answered
\* (HgConnection::on_readable, HgParser::feed).
THEOREM ReadsCorrect == Spec => []ReadsWholeRequests
<1>1. ReadInv => ReadsWholeRequests
  <2> SUFFICES ASSUME ReadInv, NEW c \in Client, phase[c] = "open"
               PROVE  IF Wants(c) = "READING" THEN Taken(c) < Decided[c]
                      ELSE c \notin Malformed /\ Taken(c) >= Decided[c]
    BY DEF ReadsWholeRequests, Open
  <2>1. TypeInv /\ conn[c] # None
    BY DEF ReadInv, EdgeInv, OpenInv
  <2>2. Wants(c) \in {"READING", "WRITING"} /\ Wants(c) = conn[c].state /\ conn[c].parser \in Sane
    BY <2>1, WantsIs
  <2>3. ParserOf(c)
    BY DEF ReadInv
  <2>4. CASE Wants(c) = "READING"
    <3>1. /\ conn[c].parser.state \notin {"COMPLETE", "ERROR"}
          /\ ParserAt(c, conn[c].parser, Taken(c))
          /\ ParseStep[conn[c].parser] = conn[c].parser
      BY <2>1, <2>2, <2>3, <2>4 DEF ParserOf
    <3>2. Taken(c) < Decided[c]
      BY <2>2, <3>1, Undecided
    <3> QED
      BY <2>4, <3>2
  <2>5. CASE Wants(c) # "READING"
    BY <2>1, <2>2, <2>3, <2>5 DEF ParserOf
  <2> QED
    BY <2>4, <2>5
<1> QED
  BY <1>1, ReadInit, ReadStep, PTL DEF Spec
=============================================================================
