----------------------------- MODULE HgShowProofs -----------------------------
(***************************************************************************)
(* Proofs about HgShow, for any number of addresses in any order of the    *)
(* map, whatever is added, removed or counted between any two steps of a   *)
(* call, and any filter and limit.                                         *)
(***************************************************************************)
EXTENDS HgShow, FiniteSetTheorems, SequenceTheorems, WellFoundedInduction, TLAPS

-----------------------------------------------------------------------------
(***************************************************************************)
(* Induction, as a least counterexample, and iteration.                    *)
(***************************************************************************)
LEMMA Least ==
  ASSUME NEW S \in SUBSET Nat, S # {}
  PROVE  \E n \in S : \A m \in S : n <= m
<1>1. IsWellFoundedOn(OpToRel(<, Nat), Nat)
  BY NatLessThanWellFounded
<1>2. PICK R : R = OpToRel(<, Nat)
  OBVIOUS
<1>3. PICK n \in S : \A m \in S : ~(<<m, n>> \in R)
  BY <1>1, <1>2, WFMin
<1>4. \A m \in S : ~ (m < n)
  BY <1>2, <1>3, Zenon DEF OpToRel
<1> QED
  BY <1>4

\* g solves a recursive definition that starts from a and has f[n] for its n-th
\* step.
Solves(g, D, f, a) ==
  g \in [Nat -> D] /\ g[0] = a /\ \A n \in Nat \ {0} : g[n] = f[n][g[n - 1]]

LEMMA Iterates ==
  ASSUME NEW D, NEW f \in [Nat -> [D -> D]], NEW a \in D
  PROVE  \E g : Solves(g, D, f, a)
<1> DEFINE Part(n) == {g \in [0..n -> D] :
                         \A i \in 0..n : g[i] = IF i = 0 THEN a ELSE f[i][g[i - 1]]}
<1>1. \A n \in Nat : Part(n) # {}
  <2> DEFINE Bad == {n \in Nat : Part(n) = {}}
  <2> SUFFICES ASSUME Bad # {} PROVE FALSE
    OBVIOUS
  <2>1. PICK n \in Bad : \A m \in Bad : n <= m
    <3>1. Bad \in SUBSET Nat
      OBVIOUS
    <3> HIDE DEF Bad
    <3> QED
      BY <3>1, Least
  <2>2. n # 0
    <3>1. [i \in 0..0 |-> a] \in Part(0)
      OBVIOUS
    <3> QED
      BY <2>1, <3>1
  <2>3. n - 1 \in Nat /\ Part(n - 1) # {}
    <3>1. n \in Nat /\ n - 1 \in Nat /\ ~(n <= n - 1)
      BY <2>1, <2>2
    <3> HIDE DEF Part
    <3> QED
      BY <2>1, <3>1
  <2>4. PICK g : g \in Part(n - 1)
    BY <2>3
  <2>5. [i \in 0..n |-> IF i = n THEN f[n][g[n - 1]] ELSE g[i]] \in Part(n)
    BY <2>1, <2>2, <2>4
  <2> QED
    BY <2>1, <2>5
<1>2. ASSUME NEW m \in Nat, NEW n \in Nat, m <= n, NEW g \in Part(m), NEW h \in Part(n)
      PROVE  \A i \in 0..m : g[i] = h[i]
  <2> DEFINE Bad == {i \in Nat : i <= m /\ g[i] # h[i]}
  <2> SUFFICES ASSUME NEW k \in 0..m, g[k] # h[k] PROVE FALSE
    OBVIOUS
  <2>1. PICK i \in Bad : \A j \in Bad : i <= j
    <3>1. Bad \in SUBSET Nat /\ k \in Bad
      OBVIOUS
    <3> HIDE DEF Bad
    <3> QED
      BY <3>1, Least
  <2>2. i # 0 => i - 1 \in Nat /\ g[i - 1] = h[i - 1]
    BY <2>1
  <2> QED
    BY <1>2, <2>1, <2>2
<1>3. PICK p : \A n \in Nat : p[n] \in Part(n)
  <2> DEFINE p == [n \in Nat |-> CHOOSE g : g \in Part(n)]
  <2>1. \A n \in Nat : p[n] \in Part(n)
    BY <1>1
  <2> QED
    BY <2>1
<1> DEFINE g == [n \in Nat |-> p[n][n]]
<1>4. ASSUME NEW n \in Nat PROVE g[n] \in D /\ g[n] = IF n = 0 THEN a ELSE f[n][g[n - 1]]
  <2>1. p[n][n] \in D /\ p[n][n] = IF n = 0 THEN a ELSE f[n][p[n][n - 1]]
    BY <1>3
  <2>2. n # 0 => n - 1 \in Nat /\ n - 1 <= n /\ n - 1 \in 0..(n - 1)
    OBVIOUS
  <2>3. n # 0 => p[n][n - 1] = p[n - 1][n - 1]
    <3> HIDE DEF Part
    <3> QED
      BY <1>2, <1>3, <2>2
  <2> QED
    BY <2>1, <2>2, <2>3
<1>5. g \in [Nat -> D] /\ g[0] = a /\ \A n \in Nat \ {0} : g[n] = f[n][g[n - 1]]
  BY <1>4
<1> HIDE DEF g
<1> QED
  BY <1>5 DEF Solves

-----------------------------------------------------------------------------
(***************************************************************************)
(* The answer: the filter's loop, the sort and the limit.                  *)
(***************************************************************************)
\* What the loop has kept after n entries.
Loop(r, s, n, f) ==
  f[n] = IF n = 0 THEN <<>>
         ELSE IF Matches(r, s[n]) THEN Append(f[n - 1], s[n]) ELSE f[n - 1]

LEMMA KeptLoop ==
  ASSUME NEW Q, NEW s, NEW r, Len(s) \in Nat, <<>> \in Q,
         \A n \in 1 .. Len(s), t \in Q : Append(t, s[n]) \in Q
  PROVE  \E f \in [0 .. Len(s) -> Q] :
           Kept(r, s) = f[Len(s)] /\ \A n \in 0 .. Len(s) : Loop(r, s, n, f)
<1> DEFINE keep(n, t) == IF n \in 1 .. Len(s) /\ Matches(r, s[n]) THEN Append(t, s[n]) ELSE t
           step == [n \in Nat |-> [t \in Q |-> keep(n, t)]]
<1>1. \A n \in Nat, t \in Q : keep(n, t) \in Q
  OBVIOUS
<1>2. step \in [Nat -> [Q -> Q]]
  <2> HIDE DEF keep
  <2> QED
    BY <1>1
<1>3. PICK g \in [Nat -> Q] : g[0] = <<>> /\ \A n \in Nat \ {0} : g[n] = step[n][g[n - 1]]
  <2> HIDE DEF step
  <2>1. \E g : Solves(g, Q, step, <<>>)
    BY <1>2, Iterates
  <2> QED
    BY <2>1 DEF Solves
<1>4. \A n \in Nat \ {0} : n - 1 \in Nat /\ g[n - 1] \in Q
  BY <1>3
<1>5. \A n \in Nat \ {0} : g[n] = keep(n, g[n - 1])
  <2> SUFFICES ASSUME NEW n \in Nat \ {0} PROVE g[n] = keep(n, g[n - 1])
    OBVIOUS
  <2>1. g[n] = step[n][g[n - 1]] /\ g[n - 1] \in Q
    <3> HIDE DEF step, keep
    <3> QED
      BY <1>3, <1>4
  <2> HIDE DEF keep
  <2> QED
    BY <2>1
<1>6. g[0] = <<>>
  BY <1>3
<1> DEFINE body(h) == [n \in 0 .. Len(s) |->
                         IF n = 0 THEN <<>>
                         ELSE IF Matches(r, s[n]) THEN Append(h[n - 1], s[n]) ELSE h[n - 1]]
           f == [n \in 0 .. Len(s) |-> g[n]]
<1>7. f \in [0 .. Len(s) -> Q]
  BY <1>3
<1>8. f = body(f)
  <2>1. ASSUME NEW n \in 0 .. Len(s) PROVE f[n] = body(f)[n]
    <3>1. CASE n = 0
      BY <1>6, <3>1
    <3>2. CASE n # 0
      <4>1. n \in 1 .. Len(s) /\ n \in Nat /\ n - 1 \in 0 .. Len(s)
        BY <3>2
      <4>2. f[n] = keep(n, f[n - 1])
        <5>1. g[n] = keep(n, g[n - 1])
          BY <1>5, <3>2, <4>1
        <5>2. f[n] = g[n] /\ f[n - 1] = g[n - 1]
          BY <4>1
        <5> HIDE DEF keep, f
        <5> QED
          BY <5>1, <5>2
      <4> QED
        BY <3>2, <4>1, <4>2
    <3> QED
      BY <3>1, <3>2
  <2>2. body(f) = [n \in 0 .. Len(s) |-> body(f)[n]] /\ f = [n \in 0 .. Len(s) |-> f[n]]
    OBVIOUS
  <2> HIDE DEF f, body
  <2> QED
    BY <2>1, <2>2
<1>9. ASSUME NEW h, h = body(h) PROVE \A n \in 0 .. Len(s) : h[n] = f[n]
  <2> DEFINE Bad == {n \in 0 .. Len(s) : h[n] # f[n]}
  <2> SUFFICES ASSUME Bad # {} PROVE FALSE
    OBVIOUS
  <2>1. PICK n \in Bad : \A m \in Bad : n <= m
    <3>1. Bad \in SUBSET Nat
      OBVIOUS
    <3> HIDE DEF Bad
    <3> QED
      BY <3>1, Least
  <2>2. n \in 0 .. Len(s) /\ h[n] # f[n]
    BY <2>1
  <2>3. h[n] = body(h)[n] /\ f[n] = body(f)[n]
    BY <1>8, <1>9
  <2>4. n # 0
    BY <2>2, <2>3
  <2>5. n - 1 \in 0 .. Len(s) /\ h[n - 1] = f[n - 1]
    <3>1. n - 1 \in 0 .. Len(s) /\ ~(n <= n - 1)
      BY <2>2, <2>4
    <3>2. ~(n - 1 \in Bad)
      <4> HIDE DEF Bad
      <4> QED
        BY <2>1, <3>1
    <3> HIDE DEF f
    <3> QED
      BY <3>1, <3>2
  <2>6. body(h)[n] = body(f)[n]
    <3>1. PICK k : k = f
      OBVIOUS
    <3>2. h[n - 1] = k[n - 1]
      BY <2>5, <3>1
    <3>3. body(h)[n] = body(k)[n]
      BY <2>2, <3>2
    <3> HIDE DEF f, body
    <3> QED
      BY <3>1, <3>3
  <2> HIDE DEF f, body
  <2> QED
    BY <2>2, <2>3, <2>6
<1>10. Kept(r, s) = f[Len(s)]
  <2> DEFINE h == CHOOSE h : h = body(h)
  <2>1. h = body(h)
    <3> HIDE DEF f, body
    <3> QED
      BY <1>8
  <2>2. Kept(r, s) = h[Len(s)]
    BY DEF Kept
  <2>3. Len(s) \in 0 .. Len(s)
    OBVIOUS
  <2> HIDE DEF f, body, h
  <2> QED
    BY <1>9, <2>1, <2>2, <2>3
<1>11. \A n \in 0 .. Len(s) : Loop(r, s, n, f)
  <2>1. \A n \in 0 .. Len(s) : f[n] = body(f)[n]
    <3> HIDE DEF f, body
    <3> QED
      BY <1>8
  <2> HIDE DEF f
  <2> QED
    BY <2>1 DEF Loop
<1> HIDE DEF f
<1> QED
  BY <1>7, <1>10, <1>11

\* t is what is left of s, at g, when the entries that do not match are taken out.
Picked(r, s, t, g) ==
  /\ g \in [1 .. Len(t) -> 1 .. Len(s)]
  /\ \A k \in 1 .. Len(t) : t[k] = s[g[k]] /\ Matches(r, s[g[k]])
  /\ \A j, k \in 1 .. Len(t) : j < k => g[j] < g[k]
  /\ \A i \in 1 .. Len(s) : Matches(r, s[i]) => \E k \in 1 .. Len(t) : g[k] = i

LEMMA KeptIsSubsequence ==
  ASSUME NEW E, NEW s \in Seq(E), NEW r
  PROVE  Kept(r, s) \in Seq(E) /\ \E g : Picked(r, s, Kept(r, s), g)
<1>1. PICK f \in [0 .. Len(s) -> Seq(E)] :
        Kept(r, s) = f[Len(s)] /\ \A n \in 0 .. Len(s) : Loop(r, s, n, f)
  <2>1. /\ Len(s) \in Nat /\ <<>> \in Seq(E)
        /\ \A n \in 1 .. Len(s), t \in Seq(E) : Append(t, s[n]) \in Seq(E)
    OBVIOUS
  <2> QED
    BY <2>1, KeptLoop
<1> DEFINE Sub(n, t, g) ==
             /\ g \in [1 .. Len(t) -> 1 .. n]
             /\ \A k \in 1 .. Len(t) : t[k] = s[g[k]] /\ Matches(r, s[g[k]])
             /\ \A j, k \in 1 .. Len(t) : j < k => g[j] < g[k]
             /\ \A i \in 1 .. n : Matches(r, s[i]) => \E k \in 1 .. Len(t) : g[k] = i
<1>2. \A n \in 0 .. Len(s) : \E g : Sub(n, f[n], g)
  <2> DEFINE Bad == {n \in 0 .. Len(s) : ~ \E g : Sub(n, f[n], g)}
  <2> SUFFICES ASSUME Bad # {} PROVE FALSE
    <3> HIDE DEF Sub
    <3> QED
      OBVIOUS
  <2>1. PICK n \in Bad : \A m \in Bad : n <= m
    <3>1. Bad \in SUBSET Nat
      OBVIOUS
    <3> HIDE DEF Bad
    <3> QED
      BY <3>1, Least
  <2>2. n \in 0 .. Len(s) /\ ~ \E g : Sub(n, f[n], g)
    BY <2>1
  <2>3. n # 0
    <3>1. ASSUME n = 0 PROVE FALSE
      <4>1. f[n] = <<>>
        BY <1>1, <2>2, <3>1 DEF Loop
      <4>2. Sub(0, <<>>, [k \in 1 .. Len(<<>>) |-> 1])
        OBVIOUS
      <4>3. PICK h : h = [k \in 1 .. Len(<<>>) |-> 1]
        OBVIOUS
      <4>4. Sub(n, f[n], h)
        BY <3>1, <4>1, <4>2, <4>3
      <4> HIDE DEF Sub
      <4> QED
        BY <2>2, <4>4
    <3> QED
      BY <3>1
  <2>4. n - 1 \in 0 .. Len(s) /\ n \in 1 .. Len(s) /\ n \in Nat
    BY <2>2, <2>3
  <2>5. PICK g : Sub(n - 1, f[n - 1], g)
    <3>1. ~(n <= n - 1)
      BY <2>4
    <3>2. ~(n - 1 \in Bad)
      <4> HIDE DEF Bad
      <4> QED
        BY <2>1, <3>1
    <3> HIDE DEF Sub
    <3> QED
      BY <2>4, <3>2
  <2>6. PICK t \in Seq(E) : t = f[n - 1]
    BY <2>4
  <2>7. f[n] = IF Matches(r, s[n]) THEN Append(t, s[n]) ELSE t
    BY <1>1, <2>4, <2>3, <2>6 DEF Loop
  <2>8. Sub(n - 1, t, g)
    <3> HIDE DEF Sub
    <3> QED
      BY <2>5, <2>6
  <2>9. CASE ~Matches(r, s[n])
    <3>1. Sub(n, t, g)
      <4>1. g \in [1 .. Len(t) -> 1 .. n]
        BY <2>4, <2>8
      <4>2. \A i \in 1 .. n : Matches(r, s[i]) => \E k \in 1 .. Len(t) : g[k] = i
        <5> SUFFICES ASSUME NEW i \in 1 .. n, Matches(r, s[i])
                     PROVE  \E k \in 1 .. Len(t) : g[k] = i
          OBVIOUS
        <5>1. i # n
          BY <2>9
        <5>2. i \in 1 .. n - 1
          BY <2>4, <5>1
        <5> QED
          BY <2>8, <5>2
      <4> QED
        BY <2>8, <4>1, <4>2
    <3>2. f[n] = t
      BY <2>7, <2>9
    <3> HIDE DEF Sub
    <3> QED
      BY <2>2, <3>1, <3>2
  <2>10. CASE Matches(r, s[n])
    <3> DEFINE u == Append(t, s[n])
               h == [k \in 1 .. Len(t) + 1 |-> IF k <= Len(t) THEN g[k] ELSE n]
    <3>1. /\ Len(t) \in Nat /\ Len(u) = Len(t) + 1 /\ u[Len(t) + 1] = s[n]
          /\ \A k \in 1 .. Len(t) : u[k] = t[k]
      BY <2>4
    <3>2. PICK l \in Nat : l = Len(t)
      BY <3>1
    <3>3. /\ \A k \in 1 .. l : g[k] \in 1 .. n - 1
          /\ \A k \in 1 .. l : t[k] = s[g[k]] /\ Matches(r, s[g[k]])
          /\ \A j, k \in 1 .. l : j < k => g[j] < g[k]
          /\ \A i \in 1 .. n - 1 : Matches(r, s[i]) => \E k \in 1 .. l : g[k] = i
      BY <2>8, <3>2
    <3>4. /\ \A k \in 1 .. l : h[k] = g[k]
          /\ h[l + 1] = n /\ h = [k \in 1 .. l + 1 |-> h[k]]
      BY <3>2
    <3>5. \A k \in 1 .. l + 1 : k \in 1 .. l \/ k = l + 1
      BY <3>2
    <3>6. /\ Len(u) = l + 1 /\ u[l + 1] = s[n] /\ \A k \in 1 .. l : u[k] = t[k]
      BY <3>1, <3>2
    <3> HIDE DEF h, u
    <3>7. h \in [1 .. l + 1 -> 1 .. n]
      <4>1. \A k \in 1 .. l + 1 : h[k] \in 1 .. n
        <5>1. \A k \in 1 .. l : h[k] \in 1 .. n - 1
          BY <3>3, <3>4
        <5>2. \A i \in 1 .. n - 1 : i \in 1 .. n
          BY <2>4
        <5>3. h[l + 1] \in 1 .. n
          BY <2>4, <3>4
        <5> QED
          BY <3>5, <5>1, <5>2, <5>3
      <4> QED
        BY <3>4, <4>1
    <3>8. \A k \in 1 .. l + 1 : u[k] = s[h[k]] /\ Matches(r, s[h[k]])
      BY <2>10, <3>3, <3>4, <3>5, <3>6
    <3>9. \A j, k \in 1 .. l + 1 : j < k => h[j] < h[k]
      <4> SUFFICES ASSUME NEW j \in 1 .. l + 1, NEW k \in 1 .. l + 1, j < k
                   PROVE  h[j] < h[k]
        OBVIOUS
      <4>1. j \in 1 .. l
        BY <3>5
      <4>2. CASE k \in 1 .. l
        BY <3>3, <3>4, <4>1, <4>2
      <4>3. CASE k = l + 1
        <5>1. h[j] \in 1 .. n - 1 /\ h[k] = n
          BY <3>3, <3>4, <4>1, <4>3
        <5> QED
          BY <2>4, <5>1
      <4> QED
        BY <3>5, <4>2, <4>3
    <3>10. \A i \in 1 .. n : Matches(r, s[i]) => \E k \in 1 .. l + 1 : h[k] = i
      <4> SUFFICES ASSUME NEW i \in 1 .. n, Matches(r, s[i])
                   PROVE  \E k \in 1 .. l + 1 : h[k] = i
        OBVIOUS
      <4>1. CASE i = n
        <5>1. l + 1 \in 1 .. l + 1 /\ h[l + 1] = i
          BY <3>2, <3>4, <4>1
        <5> QED
          BY <5>1
      <4>2. CASE i # n
        <5>1. i \in 1 .. n - 1
          BY <2>4, <4>2
        <5>2. PICK k \in 1 .. l : g[k] = i
          BY <3>3, <5>1
        <5>3. k \in 1 .. l + 1 /\ h[k] = i
          <6>1. k \in 1 .. l + 1
            BY <3>2
          <6>2. h[k] = g[k]
            BY <3>4
          <6> QED
            BY <5>2, <6>1, <6>2
        <5> QED
          BY <5>3
      <4> QED
        BY <4>1, <4>2
    <3>11. Sub(n, u, h)
      BY <3>6, <3>7, <3>8, <3>9, <3>10
    <3>12. f[n] = u
      BY <2>7, <2>10 DEF u
    <3> HIDE DEF Sub
    <3> QED
      BY <2>2, <3>11, <3>12
  <2> HIDE DEF Sub, Bad
  <2> QED
    BY <2>9, <2>10
<1>3. Len(s) \in 0 .. Len(s)
  OBVIOUS
<1>4. PICK g : Sub(Len(s), Kept(r, s), g)
  <2> HIDE DEF Sub
  <2> QED
    BY <1>1, <1>2, <1>3
<1>5. Kept(r, s) \in Seq(E)
  BY <1>1, <1>3
<1>6. Picked(r, s, Kept(r, s), g)
  <2>1. PICK t : t = Kept(r, s)
    OBVIOUS
  <2>2. Sub(Len(s), t, g)
    <3> HIDE DEF Sub
    <3> QED
      BY <1>4, <2>1
  <2>3. Picked(r, s, t, g)
    BY <2>2 DEF Picked
  <2> QED
    BY <2>1, <2>3
<1> HIDE DEF Sub
<1> QED
  BY <1>5, <1>6

\* qsort puts nothing after a heavier entry, next to it or not.
LEMMA SortedThroughout ==
  ASSUME NEW n \in Nat, NEW b \in [1 .. n -> Nat], \A k \in 1 .. n - 1 : b[k] >= b[k + 1]
  PROVE  \A j, k \in 1 .. n : j <= k => b[j] >= b[k]
<1> SUFFICES ASSUME NEW j \in 1 .. n, NEW i \in 1 .. n, j <= i, ~(b[j] >= b[i]) PROVE FALSE
  OBVIOUS
<1> DEFINE Bad == {k \in 1 .. n : j <= k /\ ~(b[j] >= b[k])}
<1>1. PICK k \in Bad : \A m \in Bad : k <= m
  <2>1. Bad \in SUBSET Nat /\ i \in Bad
    OBVIOUS
  <2> HIDE DEF Bad
  <2> QED
    BY <2>1, Least
<1>2. k \in 1 .. n /\ j <= k /\ ~(b[j] >= b[k]) /\ b[k] \in Nat /\ b[j] \in Nat
  BY <1>1
<1>3. k # j
  BY <1>2
<1>4. k - 1 \in 1 .. n /\ k - 1 \in 1 .. n - 1 /\ j <= k - 1 /\ ~(k <= k - 1) /\ (k - 1) + 1 = k
  BY <1>2, <1>3
<1>5. ~(k - 1 \in Bad)
  <2> HIDE DEF Bad
  <2> QED
    BY <1>1, <1>4
<1>6. b[j] >= b[k - 1]
  BY <1>4, <1>5
<1>7. b[k - 1] >= b[k] /\ b[k - 1] \in Nat
  BY <1>4
<1> QED
  BY <1>2, <1>6, <1>7

LEMMA CutOut ==
  ASSUME NEW S, NEW s \in Seq(S), NEW m \in 1 .. Len(s) + 1, NEW n \in m - 1 .. Len(s)
  PROVE  /\ SubSeq(s, m, n) \in Seq(S) /\ Len(SubSeq(s, m, n)) = n - m + 1
         /\ \A i \in 1 .. n - m + 1 : SubSeq(s, m, n)[i] = s[m + i - 1]
<1>1. m \in Int /\ n \in Int /\ \A i \in m .. n : s[i] \in S
  OBVIOUS
<1>2. /\ SubSeq(s, m, n) \in Seq(S)
      /\ Len(SubSeq(s, m, n)) = IF m <= n THEN n - m + 1 ELSE 0
      /\ \A i \in 1 .. n - m + 1 : SubSeq(s, m, n)[i] = s[m + i - 1]
  BY <1>1, SubSeqProperties
<1> QED
  BY <1>1, <1>2

\* t is the answer to r made of s: h tells which entries match, heaviest first,
\* K in all, and t has the first of them.
Answers(r, s, t, K, h) ==
  /\ h \in [1 .. K -> 1 .. Len(s)]
  /\ \A j, k \in 1 .. K : h[j] = h[k] => j = k
  /\ \A k \in 1 .. K : Matches(r, s[h[k]])
  /\ \A n \in 1 .. Len(s) : Matches(r, s[n]) => \E k \in 1 .. K : h[k] = n
  /\ \A j, k \in 1 .. K : j <= k => s[h[j]].bytes >= s[h[k]].bytes
  /\ Len(t) = IF r.limit > 0 /\ K > r.limit THEN r.limit ELSE K
  /\ \A k \in 1 .. Len(t) : t[k] = s[h[k]]

LEMMA FinishAnswers ==
  ASSUME NEW E, \A e \in E : e.bytes \in Nat,
         NEW s \in Seq(E), NEW r, r.limit \in Nat, NEW u \in Heaviest(s)
  PROVE  /\ Limited(r, u) \in Seq(E) /\ Len(Limited(r, u)) <= Len(s)
         /\ \E K \in Nat : \E h : Answers(r, s, Limited(r, u), K, h)
<1>1. PICK n \in Nat : n = Len(s) /\ DOMAIN s = 1 .. n
  OBVIOUS
<1>2. PICK f \in Bijection(1 .. n, 1 .. n) :
        /\ u = [k \in 1 .. n |-> s[f[k]]]
        /\ \A k \in 1 .. n - 1 : u[k].bytes >= u[k + 1].bytes
  BY <1>1 DEF Heaviest
<1>3. /\ f \in [1 .. n -> 1 .. n]
      /\ \A j, k \in 1 .. n : f[j] = f[k] => j = k
      /\ \A k \in 1 .. n : \E j \in 1 .. n : f[j] = k
  BY <1>2 DEF Bijection, Injection, Surjection, IsInjective
<1>4. \A k \in 1 .. n : s[k] \in E /\ f[k] \in 1 .. n
  BY <1>1, <1>3
<1>5. /\ u \in Seq(E) /\ Len(u) = n
      /\ \A k \in 1 .. n : u[k] = s[f[k]] /\ u[k].bytes \in Nat
  <2>1. u \in [1 .. n -> E]
    BY <1>2, <1>4
  <2>2. \A k \in 1 .. n : u[k] = s[f[k]] /\ u[k].bytes \in Nat
    BY <1>2, <1>4
  <2> QED
    BY <2>1, <2>2
<1>6. \A j, k \in 1 .. n : j <= k => u[j].bytes >= u[k].bytes
  <2> DEFINE b == [k \in 1 .. n |-> u[k].bytes]
  <2>1. b \in [1 .. n -> Nat]
    BY <1>5
  <2>2. \A k \in 1 .. n : b[k] = u[k].bytes
    OBVIOUS
  <2>3. \A k \in 1 .. n - 1 : k \in 1 .. n /\ k + 1 \in 1 .. n
    BY <1>1
  <2> HIDE DEF b
  <2>4. \A k \in 1 .. n - 1 : b[k] >= b[k + 1]
    BY <1>2, <2>2, <2>3
  <2>5. \A j, k \in 1 .. n : j <= k => b[j] >= b[k]
    BY <2>1, <2>4, SortedThroughout
  <2> QED
    BY <2>2, <2>5
<1>7. PICK t \in Seq(E) : t = Kept(r, u)
  BY <1>5, KeptIsSubsequence
<1>8. PICK K \in Nat : K = Len(t)
  OBVIOUS
<1>9. PICK g \in [1 .. K -> 1 .. n] :
        /\ \A k \in 1 .. K : t[k] = u[g[k]] /\ Matches(r, u[g[k]])
        /\ \A j, k \in 1 .. K : j < k => g[j] < g[k]
        /\ \A i \in 1 .. n : Matches(r, u[i]) => \E k \in 1 .. K : g[k] = i
  <2>1. PICK g : Picked(r, u, t, g)
    BY <1>5, <1>7, KeptIsSubsequence
  <2>2. Len(u) = n /\ Len(t) = K
    BY <1>5, <1>8
  <2>3. g \in [1 .. K -> 1 .. n]
    BY <2>1, <2>2 DEF Picked
  <2>4. /\ \A k \in 1 .. K : t[k] = u[g[k]] /\ Matches(r, u[g[k]])
        /\ \A j, k \in 1 .. K : j < k => g[j] < g[k]
    BY <2>1, <2>2 DEF Picked
  <2>5. \A i \in 1 .. n : Matches(r, u[i]) => \E k \in 1 .. K : g[k] = i
    BY <2>1, <2>2 DEF Picked
  <2> QED
    BY <2>3, <2>4, <2>5
<1> DEFINE h == [k \in 1 .. K |-> f[g[k]]]
<1>10. \A k \in 1 .. K : g[k] \in 1 .. n /\ g[k] \in Nat /\ h[k] = f[g[k]] /\ h[k] \in 1 .. n
  BY <1>3, <1>9
<1>11. h \in [1 .. K -> 1 .. n]
  BY <1>10
<1> HIDE DEF h
<1>12. \A k \in 1 .. K : t[k] = s[h[k]] /\ u[g[k]] = s[h[k]]
  <2> SUFFICES ASSUME NEW k \in 1 .. K PROVE t[k] = s[h[k]] /\ u[g[k]] = s[h[k]]
    OBVIOUS
  <2>1. t[k] = u[g[k]]
    BY <1>9
  <2>2. g[k] \in 1 .. n /\ h[k] = f[g[k]]
    BY <1>10
  <2>3. u[g[k]] = s[f[g[k]]]
    BY <1>5, <2>2
  <2> QED
    BY <2>1, <2>2, <2>3
<1>13. \A j, k \in 1 .. K : h[j] = h[k] => j = k
  <2> SUFFICES ASSUME NEW j \in 1 .. K, NEW k \in 1 .. K, h[j] = h[k] PROVE j = k
    OBVIOUS
  <2>1. g[j] = g[k]
    BY <1>3, <1>10
  <2>2. ~(j < k) /\ ~(k < j)
    BY <1>9, <1>10, <2>1
  <2> QED
    BY <2>2
<1>14. \A i \in 1 .. n : Matches(r, s[i]) => \E k \in 1 .. K : h[k] = i
  <2> SUFFICES ASSUME NEW i \in 1 .. n, Matches(r, s[i]) PROVE \E k \in 1 .. K : h[k] = i
    OBVIOUS
  <2>1. PICK m \in 1 .. n : f[m] = i
    BY <1>3
  <2>2. Matches(r, u[m])
    BY <1>5, <2>1
  <2>3. PICK k \in 1 .. K : g[k] = m
    BY <1>9, <2>2
  <2> QED
    BY <1>10, <2>1, <2>3
<1>15. \A j, k \in 1 .. K : j <= k => s[h[j]].bytes >= s[h[k]].bytes
  <2> SUFFICES ASSUME NEW j \in 1 .. K, NEW k \in 1 .. K, j <= k
               PROVE  s[h[j]].bytes >= s[h[k]].bytes
    OBVIOUS
  <2>1. g[j] <= g[k]
    <3>1. CASE j = k
      BY <1>10, <3>1
    <3>2. CASE j < k
      BY <1>9, <1>10, <3>2
    <3> QED
      BY <3>1, <3>2
  <2>2. u[g[j]].bytes >= u[g[k]].bytes
    BY <1>6, <1>10, <2>1
  <2> QED
    BY <1>12, <2>2
<1>16. \A k \in 1 .. K : Matches(r, s[h[k]])
  BY <1>9, <1>12
<1> DEFINE v == FirstOf(r.limit, t)
<1>17. /\ v \in Seq(E) /\ Len(v) = IF r.limit > 0 /\ K > r.limit THEN r.limit ELSE K
       /\ \A k \in 1 .. Len(v) : k \in 1 .. K /\ v[k] = t[k]
  <2>1. CASE r.limit > 0 /\ K > r.limit
    <3>1. PICK m \in Nat : m = r.limit
      OBVIOUS
    <3>2. v = SubSeq(t, 1, m)
      BY <1>8, <2>1, <3>1 DEF FirstOf
    <3>3. m \in 1 - 1 .. Len(t) /\ 1 \in 1 .. Len(t) + 1 /\ m - 1 + 1 = m
      BY <1>8, <2>1, <3>1
    <3>4. /\ SubSeq(t, 1, m) \in Seq(E) /\ Len(SubSeq(t, 1, m)) = m - 1 + 1
          /\ \A i \in 1 .. m - 1 + 1 : SubSeq(t, 1, m)[i] = t[1 + i - 1]
      BY <3>3, CutOut
    <3>5. \A i \in 1 .. m : 1 + i - 1 = i /\ i \in 1 .. K
      BY <2>1, <3>1
    <3> HIDE DEF v
    <3> QED
      BY <2>1, <3>1, <3>2, <3>3, <3>4, <3>5
  <2>2. CASE ~(r.limit > 0 /\ K > r.limit)
    BY <1>8, <2>2 DEF FirstOf
  <2> HIDE DEF v
  <2> QED
    BY <2>1, <2>2
<1>18. Limited(r, u) = v
  BY <1>7 DEF Limited
<1>19. Len(v) <= n
  <2>1. K <= n
    <3>1. g \in Injection(1 .. K, 1 .. n)
      <4>1. \A j, k \in 1 .. K : g[j] = g[k] => j = k
        BY <1>10, <1>13
      <4> QED
        BY <4>1 DEF Injection, IsInjective
    <3>2. /\ IsFiniteSet(1 .. K) /\ Cardinality(1 .. K) = K
          /\ IsFiniteSet(1 .. n) /\ Cardinality(1 .. n) = n
      <4>1. \A m \in Nat : /\ IsFiniteSet(1 .. m)
                           /\ Cardinality(1 .. m) = IF 1 > m THEN 0 ELSE m - 1 + 1
        <5>1. 1 \in Int /\ \A m \in Nat : m \in Int
          OBVIOUS
        <5> QED
          BY <5>1, FS_Interval
      <4>2. \A m \in Nat : (IF 1 > m THEN 0 ELSE m - 1 + 1) = m
        OBVIOUS
      <4> QED
        BY <4>1, <4>2
    <3> QED
      BY <3>1, <3>2, FS_Injection
  <2> HIDE DEF v
  <2> QED
    BY <1>17, <2>1
<1>20. Answers(r, s, v, K, h)
  <2> HIDE DEF v
  <2> QED
    BY <1>1, <1>11, <1>12, <1>13, <1>14, <1>15, <1>16, <1>17 DEF Answers
<1> HIDE DEF v
<1> QED
  BY <1>1, <1>17, <1>18, <1>19, <1>20

-----------------------------------------------------------------------------
(***************************************************************************)
(* The inductive invariant.                                                *)
(***************************************************************************)
Rows == [ip: IP, st: Status, bytes: Bytes]

ShowType ==
  /\ counters \in [IP -> Counter \cup {None}]
  /\ req \in [filter: Filter, limit: Nat]
  /\ pc \in {"idle", "count", "fill", "next", "finish", "done"}
  /\ key \in IP \cup {None}
  /\ total \in Nat
  /\ buf \in Seq(Rows)
  /\ summary \in [clients: Nat, active: Nat, expired: Nat]
  /\ churn \in Seq({"added", "removed", "changed"})

\* There is room for the entry at hand, and a call starts with nothing.
FitsInv ==
  /\ Len(buf) <= total
  /\ pc = "fill" => Len(buf) < total /\ key # None
  /\ pc \in {"idle", "count"} => buf = <<>> /\ summary = NoTotals
  /\ pc = "idle" => key = None /\ total = 0 /\ churn = <<>>

\* The totals count the entries filled.
With(s, st) == {k \in 1 .. Len(s) : s[k].st = st}

SumInv ==
  pc \in {"next", "fill", "finish"} =>
    summary = [clients |-> Len(buf), active |-> Cardinality(With(buf, "AUTH_OK")),
               expired |-> Cardinality(With(buf, "EXPIRE"))]

\* How far a walk has come that has found key k.
At(k) == IF k = None THEN 0 ELSE Place(k)
UpTo(k) == {i \in Present : Place(i) <= At(k)}
Before(k) == {i \in Present : Place(i) < At(k)}

\* As long as nothing is removed the key at hand is there, so that the walk goes
\* on behind it and does not fill a client twice.
Steady == "removed" \notin ToSet(churn)
Once == \A j, k \in 1 .. Len(buf) : buf[j].ip = buf[k].ip => j = k

WalkInv ==
  Steady =>
    /\ pc \in {"count", "next", "fill"} /\ key # None => counters[key] # None
    /\ pc \in {"next", "fill", "finish"} => Once
    /\ pc = "next" => \A k \in 1 .. Len(buf) : Place(buf[k].ip) <= At(key)
    /\ pc = "fill" => \A k \in 1 .. Len(buf) : Place(buf[k].ip) < At(key)

\* As long as nothing happens the first pass counts, and the second one fills,
\* what there is up to the key at hand.
ExactInv ==
  churn = <<>> =>
    /\ pc = "count" => total = Cardinality(UpTo(key))
    /\ pc \in {"next", "fill"} => total = Cardinality(Present)
    /\ pc = "next" => ToSet(buf) = Entries(UpTo(key))
    /\ pc = "fill" => ToSet(buf) = Entries(Before(key))
    /\ pc = "finish" => ToSet(buf) = Entries(Present)

ShowInv ==
  /\ ShowType /\ FitsInv /\ SumInv /\ WalkInv /\ ExactInv
  /\ SummaryAgrees /\ ListIsFaithful

-----------------------------------------------------------------------------
(***************************************************************************)
(* The walk.                                                               *)
(***************************************************************************)
LEMMA Places ==
  /\ DOMAIN Order = 1 .. Len(Order) /\ Len(Order) \in Nat
  /\ \A n \in DOMAIN Order : Order[n] \in IP /\ Place(Order[n]) = n
  /\ \A i \in IP : Place(i) \in DOMAIN Order /\ Place(i) \in Nat \ {0} /\ Order[Place(i)] = i
  /\ \A i, j \in IP : Place(i) = Place(j) => i = j
  /\ IsFiniteSet(IP)
<1>1. /\ DOMAIN Order = 1 .. Len(Order) /\ Len(Order) \in Nat
      /\ IP = {Order[n] : n \in DOMAIN Order}
  BY OrderAssumption DEF IP, ToSet
<1>2. \A n, m \in DOMAIN Order : Order[n] = Order[m] => n = m
  BY OrderAssumption DEF IsInjective
<1>3. \A i \in IP : Place(i) \in DOMAIN Order /\ Order[Place(i)] = i
  <2> SUFFICES ASSUME NEW i \in IP PROVE Place(i) \in DOMAIN Order /\ Order[Place(i)] = i
    OBVIOUS
  <2>1. \E n \in DOMAIN Order : Order[n] = i
    BY <1>1
  <2> QED
    BY <2>1 DEF Place
<1>4. \A n \in DOMAIN Order : Order[n] \in IP
  BY <1>1
<1>5. \A n \in DOMAIN Order : Place(Order[n]) = n
  BY <1>2, <1>3, <1>4
<1>6. IsFiniteSet(IP)
  <2> DEFINE f == [n \in 1 .. Len(Order) |-> Order[n]]
  <2>1. IsFiniteSet(1 .. Len(Order))
    <3>1. 1 \in Int /\ Len(Order) \in Int
      BY <1>1
    <3> QED
      BY <3>1, FS_Interval
  <2>2. f \in Surjection(1 .. Len(Order), IP)
    BY <1>1, <1>4 DEF Surjection
  <2> QED
    BY <2>1, <2>2, FS_Surjection
<1>7. \A i \in IP : Place(i) \in Nat \ {0}
  BY <1>1, <1>3
<1>8. \A i, j \in IP : Place(i) = Place(j) => i = j
  BY <1>3
<1> QED
  BY <1>1, <1>3, <1>4, <1>5, <1>6, <1>7, <1>8

LEMMA PresentFinite ==
  /\ IsFiniteSet(Present) /\ Cardinality(Present) \in Nat
  /\ \A S : S \subseteq Present => /\ IsFiniteSet(S) /\ Cardinality(S) \in Nat
                                   /\ Cardinality(S) <= Cardinality(Present)
                                   /\ Cardinality(S) = Cardinality(Present) => S = Present
<1>1. Present \in SUBSET IP
  BY DEF Present
<1>2. IsFiniteSet(Present)
  BY <1>1, Places, FS_Subset
<1>3. ASSUME NEW S \in SUBSET Present
      PROVE  /\ IsFiniteSet(S) /\ Cardinality(S) \in Nat
             /\ Cardinality(S) <= Cardinality(Present)
             /\ Cardinality(S) = Cardinality(Present) => S = Present
  <2>1. /\ IsFiniteSet(S) /\ Cardinality(S) <= Cardinality(Present)
        /\ Cardinality(Present) = Cardinality(S) => Present = S
    BY <1>2, FS_Subset
  <2> QED
    BY <2>1, FS_CardinalityType
<1> QED
  BY <1>2, <1>3, FS_CardinalityType

LEMMA AtType ==
  ASSUME NEW k \in IP \cup {None}
  PROVE  /\ At(k) \in Nat /\ At(None) = 0
         /\ k \in IP => At(k) = Place(k) /\ k # None
BY Places, NoneAssumption DEF At

\* The next key is one that is there, the first behind the one at hand.
LEMMA NextKeyIsFirst ==
  ASSUME NEW k \in IP \cup {None}
  PROVE  /\ NextKey(k) \in Present \cup {None}
         /\ k = None \/ counters[k] # None =>
              IF NextKey(k) = None THEN UpTo(k) = Present
              ELSE /\ Place(NextKey(k)) > At(k)
                   /\ Before(NextKey(k)) = UpTo(k)
<1>1. PICK from \in Nat : /\ from = IF k = None \/ counters[k] = None THEN 0 ELSE Place(k)
                          /\ k = None \/ counters[k] # None => from = At(k)
  BY Places, NoneAssumption DEF At
<1>2. PICK ahead \in SUBSET Nat :
        ahead = {n \in DOMAIN Order : n > from /\ counters[Order[n]] # None}
  <2> DEFINE A == {n \in DOMAIN Order : n > from /\ counters[Order[n]] # None}
  <2>1. A \subseteq DOMAIN Order /\ DOMAIN Order \subseteq Nat
    BY Places
  <2>2. A \in SUBSET Nat
    BY <2>1
  <2> QED
    BY <2>2
<1>3. NextKey(k) = IF ahead = {} THEN None ELSE Order[Min(ahead)]
  BY <1>1, <1>2 DEF NextKey
<1>4. ASSUME NEW i \in IP
      PROVE  Place(i) \in ahead <=> i \in Present /\ Place(i) > from
  BY <1>2, Places DEF Present
<1>5. CASE ahead = {}
  <2>1. NextKey(k) = None
    BY <1>3, <1>5
  <2>2. ASSUME k = None \/ counters[k] # None PROVE UpTo(k) = Present
    <3>1. \A i \in Present : i \in IP /\ Place(i) \in Nat /\ ~(Place(i) > At(k))
      BY <1>1, <1>4, <1>5, <2>2, Places DEF Present
    <3>2. At(k) \in Nat
      BY AtType
    <3> QED
      BY <3>1, <3>2 DEF UpTo
  <2> QED
    BY <2>1, <2>2
<1>6. CASE ahead # {}
  <2>1. PICK m \in ahead : \A n \in ahead : m <= n
    BY <1>6, Least
  <2>2. Min(ahead) \in ahead /\ \A n \in ahead : Min(ahead) <= n
    BY <2>1 DEF Min
  <2>3. PICK i \in IP : i = NextKey(k) /\ Place(i) = Min(ahead)
    BY <1>2, <1>3, <1>6, <2>2, Places
  <2>4. i \in Present /\ Place(i) > from
        /\ \A j \in Present : Place(j) > from => Place(i) <= Place(j)
    BY <1>4, <2>2, <2>3 DEF Present
  <2>5. i # None
    BY NoneAssumption
  <2>6. ASSUME k = None \/ counters[k] # None
        PROVE  Place(i) > At(k) /\ Before(i) = UpTo(k)
    <3>1. At(k) = from /\ At(i) = Place(i) /\ Place(i) \in Nat
      BY <1>1, <2>6, AtType, Places
    <3>2. \A j \in Present : Place(j) \in Nat /\ (Place(j) < Place(i) <=> Place(j) <= from)
      BY <2>4, <3>1, Places DEF Present
    <3> QED
      BY <2>4, <3>1, <3>2 DEF Before, UpTo
  <2> QED
    BY <2>3, <2>4, <2>5, <2>6
<1> QED
  BY <1>5, <1>6

\* The key found is the one more that the walk has come to.
LEMMA OneMore ==
  ASSUME NEW k \in Present
  PROVE  /\ UpTo(k) = Before(k) \cup {k} /\ k \notin Before(k)
         /\ Cardinality(UpTo(k)) = Cardinality(Before(k)) + 1
<1>1. k \in IP /\ At(k) = Place(k) /\ \A i \in Present : i \in IP
  BY AtType DEF Present
<1>2. \A i \in Present : /\ Place(i) \in Nat /\ Place(k) \in Nat
                         /\ Place(i) = Place(k) => i = k
  BY <1>1, Places
<1>3. UpTo(k) = Before(k) \cup {k} /\ k \notin Before(k)
  BY <1>1, <1>2 DEF UpTo, Before
<1>4. IsFiniteSet(Before(k))
  <2>1. Before(k) \subseteq Present
    BY DEF Before
  <2> QED
    BY <2>1, PresentFinite
<1> QED
  BY <1>3, <1>4, FS_AddElement

-----------------------------------------------------------------------------
(***************************************************************************)
(* Counting.                                                               *)
(***************************************************************************)
LEMMA Numbered ==
  ASSUME NEW n \in Nat, NEW T, NEW f \in [1 .. n -> T],
         \A j, k \in 1 .. n : f[j] = f[k] => j = k,
         \A t \in T : \E k \in 1 .. n : f[k] = t
  PROVE  IsFiniteSet(T) /\ Cardinality(T) = n
<1>1. IsFiniteSet(1 .. n) /\ Cardinality(1 .. n) = n
  <2>1. 1 \in Int /\ n \in Int /\ (IF 1 > n THEN 0 ELSE n - 1 + 1) = n
    OBVIOUS
  <2> QED
    BY <2>1, FS_Interval
<1>2. f \in Surjection(1 .. n, T) /\ f \in Injection(1 .. n, T)
  BY DEF Surjection, Injection, IsInjective
<1> QED
  BY <1>1, <1>2, FS_Surjection

LEMMA SetOf ==
  ASSUME NEW S, NEW s \in Seq(S)
  PROVE  /\ DOMAIN s = 1 .. Len(s) /\ Len(s) \in Nat
         /\ ToSet(s) = {s[k] : k \in 1 .. Len(s)}
         /\ \A e \in S : /\ Append(s, e) \in Seq(S) /\ Len(Append(s, e)) = Len(s) + 1
                         /\ \A k \in 1 .. Len(s) : Append(s, e)[k] = s[k]
                         /\ Append(s, e)[Len(s) + 1] = e
                         /\ ToSet(Append(s, e)) = ToSet(s) \cup {e}
<1>1. DOMAIN s = 1 .. Len(s) /\ Len(s) \in Nat
  OBVIOUS
<1>2. ToSet(s) = {s[k] : k \in 1 .. Len(s)}
  BY <1>1 DEF ToSet
<1>3. ASSUME NEW e \in S
      PROVE  /\ Append(s, e) \in Seq(S) /\ Len(Append(s, e)) = Len(s) + 1
             /\ \A k \in 1 .. Len(s) : Append(s, e)[k] = s[k]
             /\ Append(s, e)[Len(s) + 1] = e
  OBVIOUS
<1>4. ASSUME NEW e \in S PROVE ToSet(Append(s, e)) = ToSet(s) \cup {e}
  <2>1. PICK t \in Seq(S) : t = Append(s, e)
    BY <1>3
  <2>2. DOMAIN t = 1 .. Len(s) + 1
    BY <1>3, <2>1
  <2>3. ToSet(t) = {t[k] : k \in 1 .. Len(s) + 1}
    BY <2>2 DEF ToSet
  <2>4. /\ \A k \in 1 .. Len(s) : t[k] = s[k] /\ k \in 1 .. Len(s) + 1
        /\ t[Len(s) + 1] = e /\ Len(s) + 1 \in 1 .. Len(s) + 1
    BY <1>1, <1>3, <2>1
  <2>5. \A k \in 1 .. Len(s) + 1 : k \in 1 .. Len(s) \/ k = Len(s) + 1
    BY <1>1
  <2>6. ToSet(t) \subseteq ToSet(s) \cup {e}
    <3> SUFFICES ASSUME NEW k \in 1 .. Len(s) + 1 PROVE t[k] \in ToSet(s) \cup {e}
      BY <2>3
    <3> QED
      BY <1>2, <2>4, <2>5
  <2>7. ToSet(s) \cup {e} \subseteq ToSet(t)
    <3>1. ASSUME NEW k \in 1 .. Len(s) PROVE s[k] \in ToSet(t)
      <4>1. t[k] \in ToSet(t)
        BY <2>3, <2>4
      <4> QED
        BY <2>4, <4>1
    <3>2. e \in ToSet(t)
      BY <2>3, <2>4
    <3> QED
      BY <1>2, <3>1, <3>2
  <2> QED
    BY <2>1, <2>6, <2>7
<1> QED
  BY <1>1, <1>2, <1>3, <1>4

\* The share of one entry in the totals.
LEMMA OneMoreWith ==
  ASSUME NEW s \in Seq(Rows), NEW e \in Rows, NEW st
  PROVE  /\ Cardinality(With(s, st)) \in Nat
         /\ Cardinality(With(Append(s, e), st)) =
              Cardinality(With(s, st)) + (IF e.st = st THEN 1 ELSE 0)
<1>1. PICK n \in Nat : n = Len(s)
  OBVIOUS
<1>2. IsFiniteSet(With(s, st)) /\ Cardinality(With(s, st)) \in Nat
  <2>1. IsFiniteSet(1 .. n)
    <3>1. 1 \in Int /\ n \in Int
      OBVIOUS
    <3> QED
      BY <3>1, FS_Interval
  <2>2. With(s, st) \subseteq 1 .. n
    BY <1>1 DEF With
  <2> QED
    BY <2>1, <2>2, FS_Subset, FS_CardinalityType
<1>3. PICK t : t = Append(s, e)
  OBVIOUS
<1>4. /\ Len(t) = n + 1 /\ t[n + 1] = e
      /\ \A k \in 1 .. n : t[k] = s[k]
  BY <1>1, <1>3, SetOf
<1>5. \A k : k \in 1 .. n + 1 <=> k \in 1 .. n \/ k = n + 1
  OBVIOUS
<1>6. n + 1 \notin 1 .. n
  OBVIOUS
<1>7. With(t, st) = IF e.st = st THEN With(s, st) \cup {n + 1} ELSE With(s, st)
  BY <1>1, <1>4, <1>5, <1>6 DEF With
<1>8. n + 1 \notin With(s, st)
  BY <1>1, <1>6 DEF With
<1>9. Cardinality(With(s, st) \cup {n + 1}) = Cardinality(With(s, st)) + 1
  BY <1>2, <1>8, FS_AddElement
<1>10. CASE e.st = st
  BY <1>2, <1>3, <1>7, <1>9, <1>10
<1>11. CASE e.st # st
  <2>1. With(t, st) = With(s, st)
    BY <1>7, <1>11
  <2> QED
    BY <1>2, <1>3, <1>11, <2>1
<1> QED
  BY <1>10, <1>11

-----------------------------------------------------------------------------
(***************************************************************************)
(* Every step keeps the invariant.                                         *)
(***************************************************************************)
\* What a walk knows that nothing was removed under.
LEMMA Undisturbed ==
  ASSUME ShowInv, Steady, pc \in {"count", "next", "fill"}
  PROVE  key = None \/ counters[key] # None
BY DEF ShowInv, WalkInv

LEMMA Untouched ==
  ASSUME churn = <<>>
  PROVE  Steady
BY DEF Steady, ToSet

\* What holds of every state in which there is no answer.
LEMMA Unanswered ==
  ASSUME pc # "done"
  PROVE  SummaryAgrees /\ ListIsFaithful
BY DEF SummaryAgrees, ListIsFaithful, Ready

LEMMA InitHolds ==
  ASSUME ShowInit
  PROVE  ShowInv
<1>1. ShowType
  BY DEF ShowInit, ShowType, Filter, NoTotals, IP
<1>2. FitsInv /\ SumInv /\ WalkInv /\ ExactInv
  BY DEF ShowInit, FitsInv, SumInv, WalkInv, ExactInv
<1>3. SummaryAgrees /\ ListIsFaithful
  BY Unanswered DEF ShowInit
<1> QED
  BY <1>1, <1>2, <1>3 DEF ShowInv

LEMMA ChangeKeeps ==
  ASSUME ShowInv, NEW i \in IP, NEW c \in Counter \cup {None},
         NEW what \in {"added", "removed", "changed"}, c = None => what = "removed",
         Change(i, c, what)
  PROVE  ShowInv'
<1> USE DEF Change, ShowInv
<1>1. churn' \in Seq({"added", "removed", "changed"}) /\ churn' # <<>>
      /\ ToSet(churn') = ToSet(churn) \cup {what}
  <2>1. /\ churn' \in Seq({"added", "removed", "changed"}) /\ Len(churn') = Len(churn) + 1
        /\ Len(churn) \in Nat /\ ToSet(churn') = ToSet(churn) \cup {what}
    BY SetOf DEF ShowType
  <2> QED
    BY <2>1
<1>2. ShowType'
  BY <1>1 DEF ShowType
<1>3. FitsInv' /\ SumInv'
  BY DEF FitsInv, SumInv, With
<1>4. WalkInv'
  <2> SUFFICES ASSUME Steady' PROVE WalkInv'
    BY DEF WalkInv
  <2>1. Steady /\ c # None
    BY <1>1 DEF Steady
  <2>2. key # None => counters'[key] # None
    BY <2>1 DEF WalkInv, ShowType
  <2> QED
    BY <2>1, <2>2 DEF WalkInv, Once
<1>5. ExactInv'
  BY <1>1 DEF ExactInv
<1>6. (SummaryAgrees /\ ListIsFaithful)'
  BY DEF SummaryAgrees, ListIsFaithful, Ready
<1> QED
  BY <1>2, <1>3, <1>4, <1>5, <1>6

LEMMA ReadAllKeeps ==
  ASSUME ShowInv, ReadAll
  PROVE  ShowInv'
<1> USE DEF ReadAll, ShowInv
<1>1. ShowType'
  BY DEF ShowType
<1>2. FitsInv' /\ SumInv'
  BY DEF FitsInv, SumInv
<1>3. WalkInv'
  BY DEF WalkInv, FitsInv
<1>4. ExactInv'
  <2>1. UpTo(key)' = {}
    <3>1. \A i \in Present' : i \in IP
      BY DEF Present
    <3>2. At(key) = 0
      BY AtType DEF FitsInv
    <3>3. At(key)' = 0
      BY <3>2 DEF At
    <3> QED
      BY <3>1, <3>3, Places DEF UpTo
  <2>2. total' = 0 /\ pc' = "count"
    BY DEF FitsInv
  <2> QED
    BY <2>1, <2>2, FS_EmptySet DEF ExactInv
<1>5. (SummaryAgrees /\ ListIsFaithful)'
  BY DEF SummaryAgrees, ListIsFaithful, Ready
<1> QED
  BY <1>1, <1>2, <1>3, <1>4, <1>5

LEMMA ShownKeeps ==
  ASSUME ShowInv, Shown
  PROVE  ShowInv'
<1> USE DEF Shown, ShowInv
<1>1. ShowType'
  BY DEF ShowType, Filter, NoTotals
<1>2. FitsInv' /\ SumInv' /\ WalkInv' /\ ExactInv'
  BY DEF FitsInv, SumInv, WalkInv, ExactInv
<1>3. (SummaryAgrees /\ ListIsFaithful)'
  BY DEF SummaryAgrees, ListIsFaithful, Ready
<1> QED
  BY <1>1, <1>2, <1>3

LEMMA StutterKeeps ==
  ASSUME ShowInv, UNCHANGED showVars
  PROVE  ShowInv'
<1> USE DEF ShowInv, showVars
<1>1. ShowType' /\ FitsInv' /\ SumInv'
  BY DEF ShowType, FitsInv, SumInv, With
<1>2. WalkInv' /\ ExactInv'
  BY DEF WalkInv, Steady, Once, ExactInv, UpTo, Before, Present, Entries
<1>3. (SummaryAgrees /\ ListIsFaithful)'
  BY DEF SummaryAgrees, ListIsFaithful, Ready, Listed, Entries, Present
<1> QED
  BY <1>1, <1>2, <1>3

LEMMA CountKeyKeeps ==
  ASSUME ShowInv, CountKey
  PROVE  ShowInv'
<1> USE DEF CountKey
<1>1. ShowType /\ FitsInv /\ WalkInv /\ ExactInv /\ pc = "count" /\ key \in IP \cup {None}
  BY DEF ShowInv, ShowType
<1>2. UNCHANGED <<counters, req, buf, summary, churn>> /\ buf = <<>> /\ summary = NoTotals
  BY <1>1 DEF FitsInv
<1>3. Present' = Present
  BY <1>2 DEF Present
<1>4. CASE NextKey(key) # None
  <2>1. PICK k \in Present : k = NextKey(key) /\ k \in IP
    BY <1>1, <1>4, NextKeyIsFirst DEF Present
  <2>2. pc' = "count" /\ key' = k /\ total' = total + 1
    BY <1>1, <1>4, <2>1
  <2>3. ShowType'
    BY <1>1, <1>2, <2>1, <2>2 DEF ShowType
  <2>4. FitsInv' /\ SumInv'
    BY <1>1, <1>2, <2>2 DEF FitsInv, SumInv, ShowType
  <2>5. WalkInv'
    BY <1>2, <2>1, <2>2 DEF WalkInv, Present
  <2>6. ExactInv'
    <3> SUFFICES ASSUME churn = <<>> PROVE total' = Cardinality(UpTo(key)')
      BY <1>2, <2>2 DEF ExactInv
    <3>1. key = None \/ counters[key] # None
      BY <1>1, Undisturbed, Untouched
    <3>2. Before(k) = UpTo(key)
      BY <1>1, <1>4, <2>1, <3>1, NextKeyIsFirst
    <3>3. total = Cardinality(UpTo(key))
      BY <1>1 DEF ExactInv
    <3>4. Cardinality(UpTo(k)) = total + 1
      BY <3>2, <3>3, OneMore
    <3>5. UpTo(key)' = UpTo(k)
      BY <1>2, <2>2 DEF UpTo, Present, At
    <3> QED
      BY <2>2, <3>4, <3>5
  <2>7. (SummaryAgrees /\ ListIsFaithful)'
    BY <2>2 DEF SummaryAgrees, ListIsFaithful, Ready
  <2> QED
    BY <2>3, <2>4, <2>5, <2>6, <2>7 DEF ShowInv
<1>5. CASE NextKey(key) = None
  <2>1. /\ key' = None /\ total' = total
        /\ pc' = IF total = 0 THEN "done" ELSE "next"
    BY <1>5
  <2>2. ShowType'
    BY <1>1, <1>2, <2>1 DEF ShowType
  <2>3. FitsInv'
    BY <1>1, <1>2, <2>1 DEF FitsInv, ShowType
  <2>4. SumInv'
    <3>1. With(buf', "AUTH_OK") = {} /\ With(buf', "EXPIRE") = {} /\ Len(buf') = 0
      BY <1>2 DEF With
    <3>2. Cardinality({}) = 0
      BY FS_EmptySet
    <3> QED
      BY <1>2, <2>1, <3>1, <3>2 DEF SumInv, NoTotals
  <2>5. WalkInv'
    <3>1. DOMAIN buf' = {} /\ Len(buf') = 0
      BY <1>2
    <3> QED
      BY <2>1, <3>1 DEF WalkInv, Once
  <2>6. ExactInv'
    <3> SUFFICES ASSUME churn = <<>>, pc' = "next"
                 PROVE  total' = Cardinality(Present') /\ ToSet(buf') = Entries(UpTo(key))'
      BY <1>2, <2>1 DEF ExactInv
    <3>1. key = None \/ counters[key] # None
      BY <1>1, Undisturbed, Untouched
    <3>2. UpTo(key) = Present
      BY <1>1, <1>5, <3>1, NextKeyIsFirst
    <3>3. total = Cardinality(Present)
      BY <1>1, <3>2 DEF ExactInv
    <3>4. UpTo(key)' = {}
      <4>1. At(key)' = 0
        BY <2>1 DEF At
      <4>2. \A i \in Present' : Place(i) \in Nat \ {0}
        BY <1>3, Places DEF Present
      <4> QED
        BY <4>1, <4>2 DEF UpTo
    <3>5. Entries(UpTo(key))' = {}
      BY <3>4 DEF Entries
    <3>6. ToSet(buf') = {}
      BY <1>2 DEF ToSet
    <3> QED
      BY <1>3, <2>1, <3>3, <3>5, <3>6
  <2>7. (SummaryAgrees /\ ListIsFaithful)'
    <3>1. ~ Ready'
      BY <2>1 DEF Ready
    <3> QED
      BY <3>1 DEF SummaryAgrees, ListIsFaithful
  <2> QED
    BY <2>2, <2>3, <2>4, <2>5, <2>6, <2>7 DEF ShowInv
<1> QED
  BY <1>4, <1>5

\* A table that lists each of the clients in S once has as many entries.
LEMMA ListsEach ==
  ASSUME ShowType, Once, NEW S \in SUBSET Present, ToSet(buf) = Entries(S)
  PROVE  Len(buf) = Cardinality(S)
<1>1. PICK n \in Nat : n = Len(buf)
  BY DEF ShowType
<1>2. ToSet(buf) = {buf[k] : k \in 1 .. n}
  BY <1>1, SetOf DEF ShowType
<1>3. \A i \in S : Entry(i, counters[i]).ip = i
  BY DEF Entry
<1>4. \A k \in 1 .. n : buf[k].ip \in S
  <2> SUFFICES ASSUME NEW k \in 1 .. n PROVE buf[k].ip \in S
    OBVIOUS
  <2>1. buf[k] \in Entries(S)
    BY <1>2
  <2> QED
    BY <1>3, <2>1 DEF Entries
<1>5. \A i \in S : \E k \in 1 .. n : buf[k].ip = i
  <2> SUFFICES ASSUME NEW i \in S PROVE \E k \in 1 .. n : buf[k].ip = i
    OBVIOUS
  <2>1. Entry(i, counters[i]) \in ToSet(buf)
    BY DEF Entries
  <2> QED
    BY <1>2, <1>3, <2>1
<1> DEFINE f == [k \in 1 .. n |-> buf[k].ip]
<1>6. /\ f \in [1 .. n -> S]
      /\ \A j, k \in 1 .. n : f[j] = f[k] => j = k
      /\ \A i \in S : \E k \in 1 .. n : f[k] = i
  BY <1>1, <1>4, <1>5 DEF Once
<1> HIDE DEF f
<1> QED
  BY <1>1, <1>6, Numbered

LEMMA WalkKeyKeeps ==
  ASSUME ShowInv, WalkKey
  PROVE  ShowInv'
<1> USE DEF WalkKey
<1>1. /\ ShowType /\ FitsInv /\ SumInv /\ WalkInv /\ ExactInv
      /\ pc = "next" /\ key \in IP \cup {None}
  BY DEF ShowInv, ShowType
<1>2. /\ UNCHANGED <<counters, req, total, buf, summary, churn>>
      /\ pc' = IF key' # None /\ Room THEN "fill" ELSE "finish"
      /\ key' = NextKey(key)
  OBVIOUS
<1>3. Present' = Present /\ Len(buf) \in Nat
  BY <1>1, <1>2 DEF Present, ShowType
<1>4. key' \in Present \cup {None} /\ Present \subseteq IP
  BY <1>1, <1>2, NextKeyIsFirst DEF Present
<1>5. ASSUME Steady
      PROVE  IF key' = None THEN UpTo(key) = Present
             ELSE Place(key') > At(key) /\ Before(key') = UpTo(key)
  <2>1. key = None \/ counters[key] # None
    BY <1>1, <1>5, Undisturbed
  <2> QED
    BY <1>1, <1>2, <2>1, NextKeyIsFirst
<1>6. ShowType'
  BY <1>1, <1>2, <1>4 DEF ShowType
<1>7. FitsInv' /\ SumInv'
  BY <1>1, <1>2 DEF FitsInv, SumInv, With, Room
<1>8. WalkInv'
  <2> SUFFICES ASSUME Steady' PROVE WalkInv'
    BY DEF WalkInv
  <2>1. Steady
    BY <1>2 DEF Steady
  <2>2. Once /\ \A k \in 1 .. Len(buf) : Place(buf[k].ip) <= At(key)
    BY <1>1, <2>1 DEF WalkInv
  <2>3. Once'
    BY <1>2, <2>2 DEF Once
  <2>4. CASE pc' = "finish"
    BY <2>3, <2>4 DEF WalkInv
  <2>5. CASE pc' = "fill"
    <3>1. PICK i \in Present : i = key' /\ i \in IP /\ i # None
      BY <1>2, <1>4, <2>5
    <3>2. At(i) = Place(i) /\ At(i) \in Nat /\ At(key) \in Nat /\ Place(i) > At(key)
      BY <1>1, <1>5, <2>1, <3>1, AtType
    <3>3. At(key)' = At(i)
      BY <3>1 DEF At
    <3>4. \A k \in 1 .. Len(buf) : Place(buf[k].ip) \in Nat
      <4>1. \A k \in 1 .. Len(buf) : buf[k] \in Rows
        BY <1>1 DEF ShowType
      <4>2. \A k \in 1 .. Len(buf) : buf[k].ip \in IP
        BY <4>1 DEF Rows
      <4> QED
        BY <4>2, Places
    <3>5. \A k \in 1 .. Len(buf) : Place(buf[k].ip) < At(i)
      BY <2>2, <3>2, <3>4
    <3>6. counters'[key'] # None
      BY <1>2, <3>1 DEF Present
    <3> QED
      BY <1>2, <2>3, <2>5, <3>3, <3>5, <3>6 DEF WalkInv
  <2> QED
    BY <1>2, <2>4, <2>5
<1>9. ExactInv'
  <2> SUFFICES ASSUME churn = <<>>
               PROVE  /\ pc' = "fill" => /\ total' = Cardinality(Present')
                                         /\ ToSet(buf') = Entries(Before(key))'
                      /\ pc' = "finish" => ToSet(buf') = Entries(Present)'
    BY <1>2 DEF ExactInv
  <2>1. Steady
    BY Untouched
  <2>2. total = Cardinality(Present) /\ ToSet(buf) = Entries(UpTo(key))
    BY <1>1 DEF ExactInv
  <2>3. ToSet(buf') = ToSet(buf)
    BY <1>2
  <2>4. CASE key' = None
    <3>1. ToSet(buf) = Entries(Present) /\ Entries(Present)' = Entries(Present)
      BY <1>2, <1>5, <2>1, <2>2, <2>4 DEF Entries, Present
    <3> QED
      BY <1>2, <2>3, <2>4, <3>1
  <2>5. CASE key' # None
    <3>1. PICK i \in Present : i = key'
      BY <1>4, <2>5
    <3>2. Before(i) = UpTo(key) /\ i \notin Before(i)
      BY <1>5, <2>1, <2>5, <3>1, OneMore
    <3>3. Len(buf) = Cardinality(UpTo(key))
      <4>1. Once
        BY <1>1, <2>1 DEF WalkInv
      <4>2. UpTo(key) \in SUBSET Present
        BY DEF UpTo
      <4> QED
        BY <1>1, <2>2, <4>1, <4>2, ListsEach
    <3>4. Room
      <4>1. UpTo(key) \subseteq Present /\ UpTo(key) # Present
        BY <3>1, <3>2 DEF UpTo
      <4>2. /\ Cardinality(UpTo(key)) \in Nat /\ Cardinality(Present) \in Nat
            /\ Cardinality(UpTo(key)) <= Cardinality(Present)
            /\ Cardinality(UpTo(key)) # Cardinality(Present)
        BY <4>1, PresentFinite
      <4> QED
        BY <2>2, <3>3, <4>2 DEF Room
    <3>5. Entries(Before(key))' = Entries(Before(i))
      BY <1>2, <3>1 DEF Entries, Before, Present, At
    <3> QED
      BY <1>2, <1>3, <2>2, <2>3, <2>5, <3>2, <3>4, <3>5
  <2> QED
    BY <2>4, <2>5
<1>10. (SummaryAgrees /\ ListIsFaithful)'
  BY <1>2 DEF SummaryAgrees, ListIsFaithful, Ready
<1> QED
  BY <1>6, <1>7, <1>8, <1>9, <1>10 DEF ShowInv

LEMMA FillEntryKeeps ==
  ASSUME ShowInv, FillEntry
  PROVE  ShowInv'
<1>1. /\ ShowType /\ FitsInv /\ SumInv /\ WalkInv /\ ExactInv
      /\ pc = "fill" /\ key \in IP
  BY DEF ShowInv, ShowType, FitsInv, FillEntry
<1>2. /\ UNCHANGED <<counters, req, key, total, churn>> /\ pc' = "next"
      /\ counters[key] = None => UNCHANGED <<buf, summary>>
      /\ counters[key] # None => /\ buf' = Append(buf, Entry(key, counters[key]))
                                 /\ summary' = Tally(summary, counters[key].st)
  BY DEF FillEntry
<1>3. (SummaryAgrees /\ ListIsFaithful)'
  BY <1>2 DEF SummaryAgrees, ListIsFaithful, Ready
<1>4. CASE counters[key] = None
  <2>1. ~ Steady /\ churn # <<>>
    BY <1>1, <1>4, Untouched DEF WalkInv, FitsInv
  <2>2. ShowType'
    BY <1>1, <1>2, <1>4 DEF ShowType
  <2>3. FitsInv' /\ SumInv'
    BY <1>1, <1>2, <1>4 DEF FitsInv, SumInv, With
  <2>4. WalkInv' /\ ExactInv'
    BY <1>2, <2>1 DEF WalkInv, ExactInv, Steady
  <2> QED
    BY <1>3, <2>2, <2>3, <2>4 DEF ShowInv
<1>5. CASE counters[key] # None
  <2>1. PICK e \in Rows : e = Entry(key, counters[key])
    <3>1. counters[key] \in Counter
      BY <1>1, <1>5 DEF ShowType
    <3> QED
      BY <1>1, <3>1 DEF Entry, Rows, Counter
  <2>2. e.ip = key /\ e.st \in Status /\ counters[key].st = e.st
    BY <2>1 DEF Entry, Rows
  <2>3. PICK n \in Nat : n = Len(buf)
    BY <1>1 DEF ShowType
  <2>4. /\ buf' \in Seq(Rows) /\ Len(buf') = n + 1 /\ buf'[n + 1] = e
        /\ \A k \in 1 .. n : buf'[k] = buf[k] /\ buf[k] \in Rows
        /\ ToSet(buf') = ToSet(buf) \cup {e}
    <3>1. buf \in Seq(Rows) /\ buf' = Append(buf, e)
      BY <1>1, <1>2, <1>5, <2>1 DEF ShowType
    <3>2. /\ Append(buf, e) \in Seq(Rows) /\ Len(Append(buf, e)) = Len(buf) + 1
          /\ \A k \in 1 .. Len(buf) : Append(buf, e)[k] = buf[k]
          /\ Append(buf, e)[Len(buf) + 1] = e
          /\ ToSet(Append(buf, e)) = ToSet(buf) \cup {e}
      BY <3>1, SetOf
    <3>3. \A k \in 1 .. Len(buf) : buf[k] \in Rows
      BY <3>1
    <3> QED
      BY <2>3, <3>1, <3>2, <3>3
  <2>5. \A k : k \in 1 .. n + 1 <=> k \in 1 .. n \/ k = n + 1
    BY <2>3
  <2>6. SumInv'
    <3>1. /\ summary.clients = n /\ summary.active = Cardinality(With(buf, "AUTH_OK"))
          /\ summary.expired = Cardinality(With(buf, "EXPIRE"))
      BY <1>1, <2>3 DEF SumInv
    <3>2. /\ Cardinality(With(buf', "AUTH_OK")) =
               Cardinality(With(buf, "AUTH_OK")) + (IF e.st = "AUTH_OK" THEN 1 ELSE 0)
          /\ Cardinality(With(buf', "EXPIRE")) =
               Cardinality(With(buf, "EXPIRE")) + (IF e.st = "EXPIRE" THEN 1 ELSE 0)
      <4>1. buf \in Seq(Rows) /\ buf' = Append(buf, e)
        BY <1>1, <1>2, <1>5, <2>1 DEF ShowType
      <4>2. \A st : Cardinality(With(Append(buf, e), st)) =
                      Cardinality(With(buf, st)) + (IF e.st = st THEN 1 ELSE 0)
        BY <4>1, OneMoreWith
      <4> QED
        BY <4>1, <4>2
    <3>3. summary' = Tally(summary, e.st)
      BY <1>2, <1>5, <2>2
    <3> QED
      BY <1>2, <2>4, <3>1, <3>2, <3>3 DEF SumInv, Tally
  <2>7. ShowType'
    <3>1. summary' \in [clients: Nat, active: Nat, expired: Nat]
      BY <1>1, <1>2, <1>5 DEF ShowType, Tally
    <3> QED
      BY <1>1, <1>2, <2>4, <3>1 DEF ShowType
  <2>8. FitsInv'
    BY <1>1, <1>2, <2>3, <2>4 DEF FitsInv, ShowType
  <2>9. WalkInv'
    <3> SUFFICES ASSUME Steady' PROVE WalkInv'
      BY DEF WalkInv
    <3>1. Once /\ \A k \in 1 .. n : Place(buf[k].ip) < At(key)
      BY <1>1, <1>2, <2>3 DEF WalkInv, Steady
    <3>2. At(key) = Place(key) /\ At(key) \in Nat
      BY <1>1, AtType
    <3>3. \A k \in 1 .. n : Place(buf[k].ip) \in Nat
      <4>1. \A k \in 1 .. n : buf[k].ip \in IP
        BY <2>4 DEF Rows
      <4> QED
        BY <4>1, Places
    <3>4. \A k \in 1 .. n : buf[k].ip # key
      BY <3>1, <3>2, <3>3
    <3>5. Once'
      <4> SUFFICES ASSUME NEW j \in 1 .. n + 1, NEW k \in 1 .. n + 1, buf'[j].ip = buf'[k].ip
                   PROVE  j = k
        BY <2>4 DEF Once
      <4>1. CASE j \in 1 .. n /\ k \in 1 .. n
        BY <2>3, <2>4, <3>1, <4>1 DEF Once
      <4>2. CASE j \in 1 .. n /\ k = n + 1
        BY <2>2, <2>4, <3>4, <4>2
      <4>3. CASE j = n + 1 /\ k \in 1 .. n
        BY <2>2, <2>4, <3>4, <4>3
      <4> QED
        BY <2>5, <4>1, <4>2, <4>3
    <3>6. \A k \in 1 .. n + 1 : Place(buf'[k].ip) <= At(key)
      <4> SUFFICES ASSUME NEW k \in 1 .. n + 1 PROVE Place(buf'[k].ip) <= At(key)
        OBVIOUS
      <4>1. CASE k \in 1 .. n
        BY <2>4, <3>1, <3>2, <3>3, <4>1
      <4>2. CASE k = n + 1
        BY <2>2, <2>4, <3>2, <4>2
      <4> QED
        BY <2>5, <4>1, <4>2
    <3>7. At(key)' = At(key)
      BY <1>2 DEF At
    <3> QED
      BY <1>2, <1>5, <2>4, <3>5, <3>6, <3>7 DEF WalkInv
  <2>10. ExactInv'
    <3> SUFFICES ASSUME churn = <<>>
                 PROVE  /\ total' = Cardinality(Present')
                        /\ ToSet(buf') = Entries(UpTo(key))'
      BY <1>2 DEF ExactInv
    <3>1. total = Cardinality(Present) /\ ToSet(buf) = Entries(Before(key))
      BY <1>1 DEF ExactInv
    <3>2. Present' = Present /\ Entries(UpTo(key))' = Entries(UpTo(key))
      BY <1>2 DEF Present, Entries, UpTo, At
    <3>3. UpTo(key) = Before(key) \cup {key}
      <4>1. key \in Present
        BY <1>1, <1>5 DEF Present
      <4> QED
        BY <4>1, OneMore
    <3>4. Entries(UpTo(key)) = Entries(Before(key)) \cup {e}
      BY <2>1, <3>3 DEF Entries
    <3> QED
      BY <1>2, <2>4, <3>1, <3>2, <3>4
  <2> QED
    BY <1>3, <2>6, <2>7, <2>8, <2>9, <2>10 DEF ShowInv
<1> QED
  BY <1>4, <1>5

\* The answer has, before the limit, every entry that matches.
LEMMA AnswerCounts ==
  ASSUME NEW s \in Seq(Rows), NEW t, NEW r, NEW K \in Nat, NEW h, Answers(r, s, t, K, h)
  PROVE  Cardinality({n \in 1 .. Len(s) : Matches(r, s[n])}) = K
<1>1. PICK T : T = {n \in 1 .. Len(s) : Matches(r, s[n])}
  OBVIOUS
<1>2. /\ h \in [1 .. K -> 1 .. Len(s)]
      /\ \A j, k \in 1 .. K : h[j] = h[k] => j = k
      /\ \A k \in 1 .. K : Matches(r, s[h[k]])
      /\ \A n \in 1 .. Len(s) : Matches(r, s[n]) => \E k \in 1 .. K : h[k] = n
  BY DEF Answers
<1>3. h \in [1 .. K -> T] /\ \A n \in T : \E k \in 1 .. K : h[k] = n
  BY <1>1, <1>2
<1> QED
  BY <1>1, <1>2, <1>3, Numbered

\* The answer names a client twice only if the table does.
LEMMA AnswerIsOnce ==
  ASSUME NEW s \in Seq(Rows), NEW t \in Seq(Rows), NEW r, r.limit \in Nat,
         NEW K \in Nat, NEW h, Answers(r, s, t, K, h),
         \A j, k \in 1 .. Len(s) : s[j].ip = s[k].ip => j = k
  PROVE  Cardinality({t[k].ip : k \in DOMAIN t}) = Len(t)
<1>1. PICK n \in Nat : n = Len(t) /\ DOMAIN t = 1 .. n /\ n <= K
  BY DEF Answers
<1>2. \A k \in 1 .. n : k \in 1 .. K
  BY <1>1
<1>3. \A k \in 1 .. n : t[k] = s[h[k]] /\ h[k] \in 1 .. Len(s)
  BY <1>1, <1>2 DEF Answers
<1>4. \A j, k \in 1 .. n : h[j] = h[k] => j = k
  BY <1>2 DEF Answers
<1> DEFINE T == {t[k].ip : k \in 1 .. n}
           f == [k \in 1 .. n |-> t[k].ip]
<1>5. /\ f \in [1 .. n -> T]
      /\ \A j, k \in 1 .. n : f[j] = f[k] => j = k
      /\ \A i \in T : \E k \in 1 .. n : f[k] = i
  <2>1. f \in [1 .. n -> T]
    OBVIOUS
  <2>2. \A i \in T : \E k \in 1 .. n : f[k] = i
    OBVIOUS
  <2>3. ASSUME NEW j \in 1 .. n, NEW k \in 1 .. n, f[j] = f[k] PROVE j = k
    <3>1. s[h[j]].ip = s[h[k]].ip
      BY <1>3, <2>3
    <3>2. h[j] = h[k]
      BY <1>3, <3>1
    <3> QED
      BY <1>4, <3>2
  <2> HIDE DEF f, T
  <2> QED
    BY <2>1, <2>2, <2>3
<1>6. Cardinality(T) = n
  <2> HIDE DEF f, T
  <2> QED
    BY <1>5, Numbered
<1> QED
  BY <1>1, <1>6

\* The answer has the heaviest entries that match.
Matching(r, s) == {e \in ToSet(s) : Matches(r, e)}

LEMMA AnswerIsHeaviest ==
  ASSUME NEW s \in Seq(Rows), NEW t \in Seq(Rows), NEW r, r.limit \in Nat,
         NEW K \in Nat, NEW h, Answers(r, s, t, K, h),
         \A j, k \in 1 .. Len(s) : s[j].ip = s[k].ip => j = k
  PROVE  /\ ToSet(t) \subseteq Matching(r, s) /\ Cardinality(Matching(r, s)) = K
         /\ \A e \in Matching(r, s) \ ToSet(t), k \in DOMAIN t : t[k].bytes >= e.bytes
<1>0. PICK all : all = Matching(r, s) /\ all = {e \in ToSet(s) : Matches(r, e)}
  BY DEF Matching
<1>1. PICK n \in Nat : n = Len(t) /\ DOMAIN t = 1 .. n /\ n <= K
  BY DEF Answers
<1>2. \A k \in 1 .. K : h[k] \in 1 .. Len(s)
  BY DEF Answers
<1>3. \A k \in 1 .. n : k \in 1 .. K /\ t[k] = s[h[k]]
  BY <1>1 DEF Answers
<1>4. ToSet(s) = {s[k] : k \in 1 .. Len(s)} /\ ToSet(t) = {t[k] : k \in 1 .. n}
  BY <1>1, SetOf
<1>5. \A k \in 1 .. K : s[h[k]] \in all
  BY <1>0, <1>2, <1>4 DEF Answers
<1>6. \A e \in all : \E k \in 1 .. K : s[h[k]] = e
  <2> SUFFICES ASSUME NEW e \in all PROVE \E k \in 1 .. K : s[h[k]] = e
    OBVIOUS
  <2>1. PICK m \in 1 .. Len(s) : s[m] = e /\ Matches(r, s[m])
    BY <1>0, <1>4
  <2>2. PICK k \in 1 .. K : h[k] = m
    BY <2>1 DEF Answers
  <2> QED
    BY <2>1, <2>2
<1>7. ToSet(t) \subseteq all
  BY <1>3, <1>4, <1>5
<1>8. Cardinality(all) = K
  <2> DEFINE f == [k \in 1 .. K |-> s[h[k]]]
  <2>1. f \in [1 .. K -> all]
    BY <1>5
  <2>2. \A e \in all : \E k \in 1 .. K : f[k] = e
    BY <1>6
  <2>3. ASSUME NEW j \in 1 .. K, NEW k \in 1 .. K, f[j] = f[k] PROVE j = k
    <3>1. s[h[j]] = s[h[k]]
      BY <2>3
    <3>2. h[j] = h[k]
      BY <1>2, <3>1
    <3> QED
      BY <3>2 DEF Answers
  <2> HIDE DEF f
  <2> QED
    BY <2>1, <2>2, <2>3, Numbered
<1>9. ASSUME NEW e \in all \ ToSet(t), NEW k \in 1 .. n PROVE t[k].bytes >= e.bytes
  <2>1. PICK j \in 1 .. K : s[h[j]] = e
    BY <1>6
  <2>2. j \notin 1 .. n
    BY <1>3, <1>4, <1>9, <2>1
  <2>3. k <= j /\ k \in 1 .. K
    BY <1>3, <2>2
  <2>4. s[h[k]].bytes >= s[h[j]].bytes
    BY <2>3 DEF Answers
  <2> QED
    BY <1>3, <2>1, <2>4
<1> QED
  BY <1>0, <1>1, <1>7, <1>8, <1>9

LEMMA FinishKeeps ==
  ASSUME ShowInv, Finish
  PROVE  ShowInv'
<1>1. /\ ShowType /\ FitsInv /\ SumInv /\ WalkInv /\ ExactInv /\ pc = "finish"
      /\ buf \in Seq(Rows) /\ Len(buf) \in Nat
  BY DEF ShowInv, ShowType, Finish
<1>2. /\ UNCHANGED <<counters, key, total, summary, churn>> /\ pc' = "done"
      /\ req' \in [filter : Filter, limit : Nat]
  <2>1. req' \in [filter : Filter, limit : Limits] /\ Limits \subseteq Nat
    BY BytesAssumption DEF Finish
  <2> QED
    BY <2>1 DEF Finish
<1>3. PICK u \in Heaviest(buf) : buf' = Limited(req', u)
  BY DEF Finish
<1>4. PICK r : r = req' /\ r.limit \in Nat /\ r.filter \in Filter
  BY <1>2
<1>5. PICK s \in Seq(Rows) : s = buf
  BY <1>1
<1>6. \A e \in Rows : e.bytes \in Nat
  BY BytesAssumption DEF Rows
<1>7. PICK t \in Seq(Rows) : /\ t = buf' /\ Len(t) <= Len(s)
                             /\ \E K \in Nat : \E h : Answers(r, s, t, K, h)
  <2>1. u \in Heaviest(s) /\ buf' = Limited(r, u)
    BY <1>3, <1>4, <1>5
  <2>2. /\ Limited(r, u) \in Seq(Rows) /\ Len(Limited(r, u)) <= Len(s)
        /\ \E K \in Nat : \E h : Answers(r, s, Limited(r, u), K, h)
    BY <1>4, <1>6, <2>1, FinishAnswers
  <2> QED
    BY <2>1, <2>2
<1>8. PICK K, h : K \in Nat /\ Answers(r, s, t, K, h)
  BY <1>7
<1>9. Len(t) = IF r.limit > 0 /\ K > r.limit THEN r.limit ELSE K
  BY <1>8 DEF Answers
<1>10. ShowType'
  BY <1>1, <1>2, <1>7 DEF ShowType
<1>11. FitsInv' /\ SumInv' /\ WalkInv' /\ ExactInv'
  <2>1. Len(s) \in Nat /\ Len(t) \in Nat /\ total \in Nat /\ Len(s) <= total
    BY <1>1, <1>5 DEF FitsInv, ShowType
  <2> QED
    BY <1>2, <1>7, <2>1 DEF FitsInv, SumInv, WalkInv, ExactInv
<1>12. SummaryAgrees'
  <2> SUFFICES ASSUME r.limit = 0
               PROVE  K = CASE r.filter = "ALL" -> summary.clients
                            [] r.filter = "ACTIVE" -> summary.active
                            [] r.filter = "EXPIRED" -> summary.expired
    <3>1. r.limit = 0 => Len(t) = K
      BY <1>9
    <3> QED
      BY <1>2, <1>4, <1>7, <3>1 DEF SummaryAgrees
  <2>1. Cardinality({n \in 1 .. Len(s) : Matches(r, s[n])}) = K
    BY <1>8, AnswerCounts
  <2>2. /\ summary.clients = Len(s) /\ summary.active = Cardinality(With(s, "AUTH_OK"))
        /\ summary.expired = Cardinality(With(s, "EXPIRE"))
    BY <1>1, <1>5 DEF SumInv
  <2>3. CASE r.filter = "ALL"
    <3>1. {n \in 1 .. Len(s) : Matches(r, s[n])} = 1 .. Len(s)
      BY <2>3 DEF Matches
    <3>2. Cardinality(1 .. Len(s)) = Len(s)
      <4>1. /\ 1 \in Int /\ Len(s) \in Int
            /\ (IF 1 > Len(s) THEN 0 ELSE Len(s) - 1 + 1) = Len(s)
        BY <1>1, <1>5
      <4> QED
        BY <4>1, FS_Interval
    <3> QED
      BY <2>1, <2>2, <2>3, <3>1, <3>2
  <2>4. CASE r.filter = "ACTIVE"
    <3>1. {n \in 1 .. Len(s) : Matches(r, s[n])} = With(s, "AUTH_OK")
      BY <2>4 DEF Matches, With
    <3> QED
      BY <2>1, <2>2, <2>4, <3>1
  <2>5. CASE r.filter = "EXPIRED"
    <3>1. {n \in 1 .. Len(s) : Matches(r, s[n])} = With(s, "EXPIRE")
      BY <2>5 DEF Matches, With
    <3> QED
      BY <2>1, <2>2, <2>5, <3>1
  <2> QED
    BY <1>4, <2>3, <2>4, <2>5 DEF Filter
<1>13. ASSUME Steady PROVE \A j, k \in 1 .. Len(s) : s[j].ip = s[k].ip => j = k
  BY <1>1, <1>5, <1>13 DEF WalkInv, Once
<1>14. ListIsFaithful'
  <2>1. ASSUME churn = <<>>, NEW all, all = {e \in Entries(Present) : Matches(r, e)}
        PROVE  /\ ToSet(t) \subseteq all
               /\ Len(t) = IF r.limit > 0 /\ Cardinality(all) > r.limit
                           THEN r.limit ELSE Cardinality(all)
               /\ \A e \in all \ ToSet(t), k \in DOMAIN t : t[k].bytes >= e.bytes
    <3>1. all = Matching(r, s)
      BY <1>1, <1>5, <2>1 DEF ExactInv, Matching
    <3>2. \A j, k \in 1 .. Len(s) : s[j].ip = s[k].ip => j = k
      BY <1>13, <2>1, Untouched
    <3>3. /\ ToSet(t) \subseteq all /\ Cardinality(all) = K
          /\ \A e \in all \ ToSet(t), k \in DOMAIN t : t[k].bytes >= e.bytes
      BY <1>4, <1>8, <3>1, <3>2, AnswerIsHeaviest
    <3> QED
      BY <1>9, <3>3
  <2>2. ASSUME Steady PROVE Cardinality({t[k].ip : k \in DOMAIN t}) = Len(t)
    BY <1>4, <1>8, <1>13, <2>2, AnswerIsOnce
  <2>3. /\ Listed' = {t[k].ip : k \in DOMAIN t}
        /\ Entries(Present)' = Entries(Present)
    BY <1>2, <1>7 DEF Listed, Entries, Present
  <2>4. {e \in Entries(Present) : Matches(req, e)}' = {e \in Entries(Present) : Matches(r, e)}
    BY <1>4, <2>3
  <2>5. "removed" \notin ToSet(churn') => Cardinality(Listed') = Len(buf')
    BY <1>2, <1>7, <2>2, <2>3 DEF Steady
  <2> QED
    BY <1>2, <1>4, <1>7, <2>1, <2>4, <2>5 DEF ListIsFaithful
<1> QED
  BY <1>10, <1>11, <1>12, <1>14 DEF ShowInv

-----------------------------------------------------------------------------
(***************************************************************************)
(* The theorems.                                                           *)
(***************************************************************************)
\* No interleaving of changes with a call leads out of the invariant.
THEOREM ShowInvariant == ShowSpec => []ShowInv
<1>1. ASSUME ShowInv, [ShowNext]_showVars PROVE ShowInv'
  <2>1. ASSUME NEW i \in IP, AddCounter(i) PROVE ShowInv'
    <3>1. PICK c \in Counter : Change(i, c, "added")
      BY <2>1 DEF AddCounter
    <3> QED
      BY <1>1, <3>1, ChangeKeeps, NoneAssumption
  <2>2. ASSUME NEW i \in IP, RemoveCounter(i) PROVE ShowInv'
    BY <1>1, <2>2, ChangeKeeps DEF RemoveCounter
  <2>3. ASSUME NEW i \in IP, Count(i) PROVE ShowInv'
    <3>1. PICK c \in Counter : Change(i, c, "changed")
      BY <2>3 DEF Count
    <3> QED
      BY <1>1, <3>1, ChangeKeeps, NoneAssumption
  <2>4. CASE ReadAll
    BY <1>1, <2>4, ReadAllKeeps
  <2>5. CASE CountKey
    BY <1>1, <2>5, CountKeyKeeps
  <2>6. CASE WalkKey
    BY <1>1, <2>6, WalkKeyKeeps
  <2>7. CASE FillEntry
    BY <1>1, <2>7, FillEntryKeeps
  <2>8. CASE Finish
    BY <1>1, <2>8, FinishKeeps
  <2>9. CASE Shown
    BY <1>1, <2>9, ShownKeeps
  <2>10. CASE UNCHANGED showVars
    BY <1>1, <2>10, StutterKeeps
  <2> QED
    BY <1>1, <2>1, <2>2, <2>3, <2>4, <2>5, <2>6, <2>7, <2>8, <2>9, <2>10 DEF ShowNext
<1> QED
  BY InitHolds, <1>1, PTL DEF ShowSpec

\* hg_read_all never fills more entries than its first pass counted, and so
\* never writes behind the table, whatever happens between the passes.
THEOREM ListAlwaysFits == ShowSpec => []ListFits
<1>1. ShowInv => ListFits
  BY DEF ShowInv, FitsInv, ListFits
<1> QED
  BY <1>1, ShowInvariant, PTL

\* The totals above the table are those of the clients in it.
THEOREM SummaryAlwaysAgrees == ShowSpec => []SummaryAgrees
<1>1. ShowInv => SummaryAgrees
  BY DEF ShowInv
<1> QED
  BY <1>1, ShowInvariant, PTL

\* A call that nothing disturbs returns the heaviest clients that match, as many
\* as were asked for, and one under which nothing is removed none twice.
THEOREM ListIsAlwaysFaithful == ShowSpec => []ListIsFaithful
<1>1. ShowInv => ListIsFaithful
  BY DEF ShowInv
<1> QED
  BY <1>1, ShowInvariant, PTL
=============================================================================
