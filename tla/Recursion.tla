------------------------------ MODULE Recursion -----------------------------
(***************************************************************************)
(* Induction over the natural numbers, stated for a set rather than a      *)
(* predicate, and recursion along a sequence: a step of which only the     *)
(* name is known, taken from left to right.  A module that folds or        *)
(* recurses instantiates this one with its own step, so that what holds of *)
(* every recursion is proved once.                                         *)
(***************************************************************************)
EXTENDS Integers, Sequences, NaturalsInduction, WellFoundedInduction, TLAPS

CONSTANT Step(_, _, _)   \* of a parameter, the value so far and an element

\* A set of naturals that holds 0 and is closed under successor is Nat.
LEMMA SetInduction ==
  ASSUME NEW S \in SUBSET Nat, 0 \in S, \A n \in S : n + 1 \in S
  PROVE  S = Nat
<1>1. SUFFICES ASSUME Nat \ S # {} PROVE FALSE
  OBVIOUS
<1> DEFINE R == OpToRel(<, Nat)
<1>2. IsWellFoundedOn(R, Nat)
  BY NatLessThanWellFounded, Zenon
<1> HIDE DEF R
<1>3. \E x \in Nat \ S : \A y \in Nat \ S : ~(<<y, x>> \in R)
  BY <1>1, <1>2, WFMin
<1>4. PICK x \in Nat \ S : \A y \in Nat \ S : ~(<<y, x>> \in R)
  BY <1>3
<1>5. x - 1 \in Nat
  BY <1>4
<1>6. <<x - 1, x>> \in R
  BY <1>5 DEF R, OpToRel
<1>7. (x - 1) + 1 \in S
  BY <1>4, <1>5, <1>6
<1>. QED
  BY <1>5, <1>7

\* The same up to a bound.
LEMMA IntervalInduction ==
  ASSUME NEW m \in Nat, NEW T, 0 \in T,
         \A n \in Nat : n < m /\ n \in T => n + 1 \in T
  PROVE  0..m \subseteq T
<1> DEFINE U == {n \in Nat : n <= m => n \in T}
<1>1. U \in SUBSET Nat /\ 0 \in U
  OBVIOUS
<1>2. \A n \in U : n + 1 \in U
  OBVIOUS
<1> HIDE DEF U
<1>3. U = Nat
  BY <1>1, <1>2, SetInduction
<1>. QED
  BY <1>3 DEF U

-----------------------------------------------------------------------------
(* Recursive functions on an interval *)

\* The body of a recursive function on lo..hi that starts at lo.
Body(g, par, base, s, lo, hi) ==
  [n \in lo..hi |-> IF n = lo THEN base ELSE Step(par, g[n-1], s[n])]

\* There is one, whatever the step: what CHOOSE names satisfies its equation.
LEMMA RunExists ==
  ASSUME NEW par, NEW base, NEW s, NEW lo \in Int, NEW hi \in Int, lo <= hi
  PROVE  \E g : g = Body(g, par, base, s, lo, hi)
<1> DEFINE T == {m \in Nat : \E g : g = Body(g, par, base, s, lo, lo + m)}
<1>1. 0 \in T
  <2> DEFINE g == [n \in lo..lo+0 |-> base]
  <2>1. g = Body(g, par, base, s, lo, lo + 0)  BY DEF Body
  <2> HIDE DEF g
  <2> QED  BY <2>1
<1>2. ASSUME NEW m \in Nat, m \in T  PROVE m + 1 \in T
  <2>1. PICK g : g = Body(g, par, base, s, lo, lo + m)  BY <1>2
  <2> DEFINE h == [n \in lo..lo+(m+1) |-> IF n <= lo + m THEN g[n]
                                          ELSE Step(par, g[n-1], s[n])]
  <2>2. \A n \in lo..lo+m : g[n] = IF n = lo THEN base ELSE Step(par, g[n-1], s[n])
    BY <2>1 DEF Body
  <2>3. \A n \in lo..lo+(m+1) :
          h[n] = IF n = lo THEN base ELSE Step(par, h[n-1], s[n])
    <3> SUFFICES ASSUME NEW n \in lo..lo+(m+1)
                 PROVE  h[n] = IF n = lo THEN base ELSE Step(par, h[n-1], s[n])
      OBVIOUS
    <3>1. CASE n = lo  BY <2>2, <3>1
    <3>2. CASE n # lo
      <4>1. n - 1 \in lo..lo+m  BY <3>2
      <4>2. h[n-1] = g[n-1]  BY <4>1
      <4>3. h[n] = Step(par, g[n-1], s[n])
        <5>1. CASE n <= lo + m
          <6>1. n \in lo..lo+m /\ h[n] = g[n]  BY <5>1
          <6> QED  BY <2>2, <3>2, <6>1
        <5>2. CASE ~(n <= lo + m)  BY <5>2
        <5> QED  BY <5>1, <5>2
      <4> QED  BY <3>2, <4>2, <4>3
    <3> QED  BY <3>1, <3>2
  <2>4. h = [n \in lo..lo+(m+1) |-> h[n]]  OBVIOUS
  <2> HIDE DEF h
  <2>5. h = Body(h, par, base, s, lo, lo + (m + 1))  BY <2>3, <2>4 DEF Body
  <2> QED  BY <2>5
<1>3. T \in SUBSET Nat  OBVIOUS
<1> HIDE DEF T
<1>4. T = Nat  BY <1>1, <1>2, <1>3, SetInduction
<1>5. hi - lo \in T  BY <1>4
<1>6. lo + (hi - lo) = hi  OBVIOUS
<1> QED  BY <1>5, <1>6 DEF T

\* The same of a function that starts at 0, and what its equation says point by
\* point.
RunBody(g, par, base, s, m) == Body(g, par, base, s, 0, m)

LEMMA RunIs ==
  ASSUME NEW par, NEW base, NEW s, NEW m \in Nat
  PROVE  \E g : g = RunBody(g, par, base, s, m)
BY RunExists DEF RunBody

LEMMA RunEquations ==
  ASSUME NEW f, NEW par, NEW base, NEW s, NEW m \in Nat,
         f = RunBody(f, par, base, s, m)
  PROVE  /\ f = [n \in 0..m |-> f[n]]
         /\ f[0] = base
         /\ \A n \in 1..m : f[n] = Step(par, f[n-1], s[n])
<1>1. \A n \in 0..m : f[n] = IF n = 0 THEN base ELSE Step(par, f[n-1], s[n])
  BY DEF RunBody, Body
<1>2. f = [n \in 0..m |-> f[n]]
  <2> DEFINE r == RunBody(f, par, base, s, m)
  <2>1. r = [n \in 0..m |-> r[n]]  BY DEF RunBody, Body
  <2> QED  BY <2>1
<1>3. 0 \in 0..m /\ \A n \in 1..m : n \in 0..m /\ n # 0  OBVIOUS
<1> QED  BY <1>1, <1>2, <1>3

-----------------------------------------------------------------------------
(* Folds *)

\* FoldLeft of the community modules, with Step for the operator.
Folded(par, base, s) ==
  LET iter[S \in SUBSET DOMAIN s] ==
        IF S = {} THEN base
        ELSE LET x == CHOOSE y \in S : \A z \in S : y >= z
             IN  Step(par, iter[S \ {x}], s[x])
  IN  iter[DOMAIN s]

\* The values that a fold goes through.
IsRun(f, par, base, s) ==
  /\ f[0] = base
  /\ \A n \in 1..Len(s) : f[n] = Step(par, f[n-1], s[n])

Highest(S) == CHOOSE y \in S : \A z \in S : y >= z

LEMMA HighestExists ==
  ASSUME NEW k \in Nat, NEW S \in SUBSET (1..k), S # {}
  PROVE  \E y \in S : \A z \in S : y >= z
<1> DEFINE T == {m \in Nat : \A U \in SUBSET (1..m) :
                   U # {} => \E y \in U : \A z \in U : y >= z}
<1>1. 0 \in T
  <2>1. 1..0 = {}  OBVIOUS
  <2> QED  BY <2>1
<1>2. ASSUME NEW m \in Nat, m \in T  PROVE m + 1 \in T
  <2> SUFFICES ASSUME NEW U \in SUBSET (1..m+1), U # {}
               PROVE  \E y \in U : \A z \in U : y >= z
    OBVIOUS
  <2>1. CASE m + 1 \in U
    <3>1. \A z \in U : m + 1 >= z  OBVIOUS
    <3> QED  BY <2>1, <3>1
  <2>2. CASE m + 1 \notin U
    <3>1. U \in SUBSET (1..m)  BY <2>2
    <3> QED  BY <1>2, <3>1
  <2> QED  BY <2>1, <2>2
<1>3. T \in SUBSET Nat  OBVIOUS
<1> HIDE DEF T
<1>4. T = Nat  BY <1>1, <1>2, <1>3, SetInduction
<1> QED  BY <1>4 DEF T

LEMMA HighestIsHighest ==
  ASSUME NEW k \in Nat, NEW S \in SUBSET (1..k), S # {}
  PROVE  Highest(S) \in S /\ \A z \in S : Highest(S) >= z
BY HighestExists DEF Highest

FoldBody(g, par, base, s, k) ==
  [S \in SUBSET (1..k) |-> IF S = {} THEN base
                           ELSE Step(par, g[S \ {Highest(S)}], s[Highest(S)])]

LEMMA FoldExists ==
  ASSUME NEW par, NEW base, NEW s, NEW N \in Nat
  PROVE  \E g : g = FoldBody(g, par, base, s, N)
<1> DEFINE T == {k \in Nat : \E g : g = FoldBody(g, par, base, s, k)}
<1>1. 0 \in T
  <2> DEFINE g == [S \in SUBSET (1..0) |-> base]
  <2>1. \A S \in SUBSET (1..0) : S = {}  OBVIOUS
  <2>2. g = FoldBody(g, par, base, s, 0)  BY <2>1 DEF FoldBody
  <2> HIDE DEF g
  <2> QED  BY <2>2
<1>2. ASSUME NEW k \in Nat, k \in T  PROVE k + 1 \in T
  <2>1. PICK g : g = FoldBody(g, par, base, s, k)  BY <1>2
  <2> DEFINE D == SUBSET (1..k+1)
             h == [S \in D |-> IF S \in SUBSET (1..k) THEN g[S]
                               ELSE Step(par, g[S \ {k+1}], s[k+1])]
  <2>2. \A S \in SUBSET (1..k) :
          g[S] = IF S = {} THEN base ELSE Step(par, g[S \ {Highest(S)}], s[Highest(S)])
    BY <2>1 DEF FoldBody
  <2>3. \A S \in D :
          h[S] = IF S = {} THEN base ELSE Step(par, h[S \ {Highest(S)}], s[Highest(S)])
    <3> SUFFICES ASSUME NEW S \in D
                 PROVE  h[S] = IF S = {} THEN base
                               ELSE Step(par, h[S \ {Highest(S)}], s[Highest(S)])
      OBVIOUS
    <3>1. CASE S = {}
      <4>1. S \in SUBSET (1..k)  BY <3>1
      <4>2. h[S] = g[S]  BY <4>1
      <4> HIDE DEF h
      <4> QED  BY <2>2, <3>1, <4>1, <4>2
    <3>2. CASE S # {}
      <4> DEFINE x == Highest(S)
                 R == S \ {x}
      <4>1. x \in S /\ \A z \in S : x >= z
        <5>1. k + 1 \in Nat  OBVIOUS
        <5> QED  BY <3>2, <5>1, HighestIsHighest
      <4> HIDE DEF x
      <4>2. R \in SUBSET (1..k) /\ R \in D
        <5>1. x \in 1..k+1  BY <4>1
        <5>2. \A y \in R : y \in 1..k+1 /\ y # x /\ x >= y  BY <4>1
        <5>3. \A y \in R : y \in 1..k  BY <5>1, <5>2
        <5> QED  BY <5>3
      <4>3. h[R] = g[R]  BY <4>2
      <4>4. h[S] = Step(par, g[R], s[x])
        <5>1. CASE S \in SUBSET (1..k)
          <6>1. h[S] = g[S]  BY <5>1
          <6> HIDE DEF h
          <6> QED  BY <2>2, <3>2, <5>1, <6>1 DEF x
        <5>2. CASE S \notin SUBSET (1..k)
          <6>1. k + 1 \in S  BY <5>2
          <6>2. x = k + 1  BY <4>1, <6>1
          <6> QED  BY <5>2, <6>2
        <5> QED  BY <5>1, <5>2
      <4> HIDE DEF h
      <4> QED  BY <3>2, <4>3, <4>4 DEF x
    <3> QED  BY <3>1, <3>2
  <2>4. h = [S \in D |-> h[S]]  OBVIOUS
  <2> HIDE DEF h
  <2>5. h = FoldBody(h, par, base, s, k + 1)  BY <2>3, <2>4 DEF FoldBody
  <2> QED  BY <2>5
<1>3. T \in SUBSET Nat  OBVIOUS
<1> HIDE DEF T
<1>4. T = Nat  BY <1>1, <1>2, <1>3, SetInduction
<1>5. N \in T  BY <1>4
<1> QED  BY <1>5 DEF T

\* A fold goes through a run: it starts from the base, each element takes one
\* step, and what it returns is the last value.
THEOREM FoldedRuns ==
  ASSUME NEW par, NEW base, NEW s, Len(s) \in Nat, DOMAIN s = 1..Len(s)
  PROVE  \E f : IsRun(f, par, base, s) /\ Folded(par, base, s) = f[Len(s)]
<1> DEFINE N == Len(s)
           iter == CHOOSE g : g = FoldBody(g, par, base, s, N)
           f == [n \in 0..N |-> iter[1..n]]
<1>1. Folded(par, base, s) = iter[1..N]
  BY DEF Folded, FoldBody, Highest
<1>2. iter = FoldBody(iter, par, base, s, N)  BY FoldExists
<1>0. N \in Nat  OBVIOUS
<1> HIDE DEF iter, N
<1>3. \A S \in SUBSET (1..N) :
        iter[S] = IF S = {} THEN base ELSE Step(par, iter[S \ {Highest(S)}], s[Highest(S)])
  BY <1>2 DEF FoldBody
<1>4. f[0] = base
  <2>1. 1..0 = {} /\ {} \in SUBSET (1..N)  OBVIOUS
  <2>2. iter[{}] = base  BY <1>3, <2>1
  <2>3. 0 \in 0..N  BY <1>0
  <2>4. f[0] = iter[1..0]  BY <2>3
  <2> HIDE DEF f
  <2> QED  BY <2>1, <2>2, <2>4
<1>5. ASSUME NEW n \in 1..N  PROVE f[n] = Step(par, f[n-1], s[n])
  <2>0. n \in Nat /\ n <= N /\ n \in 1..n  BY <1>0
  <2>1. 1..n \in SUBSET (1..N) /\ 1..n # {}
    <3>1. \A k \in 1..n : k \in 1..N  BY <1>0, <2>0
    <3>2. 1..n # {}  BY <2>0
    <3> QED  BY <3>1, <3>2
  <2>2. Highest(1..n) \in 1..n /\ \A z \in 1..n : Highest(1..n) >= z
    <3>1. 1..n \in SUBSET (1..n)  OBVIOUS
    <3> QED  BY <2>0, <2>1, <3>1, HighestIsHighest
  <2>3. Highest(1..n) = n  BY <2>0, <2>2
  <2>4. (1..n) \ {n} = 1..(n-1)  OBVIOUS
  <2>5. iter[1..n] = Step(par, iter[1..(n-1)], s[n])  BY <1>3, <2>1, <2>3, <2>4
  <2>6. n \in 0..N /\ n-1 \in 0..N  BY <1>0
  <2> QED  BY <2>5, <2>6
<1>6. f[N] = iter[1..N]  BY <1>0
<1> HIDE DEF f
<1> QED  BY <1>1, <1>4, <1>5, <1>6 DEF IsRun, N

\* What every step keeps, the fold has.
THEOREM FoldedStays ==
  ASSUME NEW par, NEW base, NEW s, NEW E, s \in Seq(E), NEW Acc, base \in Acc,
         \A acc \in Acc : \A x \in E : Step(par, acc, x) \in Acc
  PROVE  Folded(par, base, s) \in Acc
<1>1. Len(s) \in Nat /\ DOMAIN s = 1..Len(s) /\ \A n \in 1..Len(s) : s[n] \in E
  OBVIOUS
<1>2. PICK f : IsRun(f, par, base, s) /\ Folded(par, base, s) = f[Len(s)]
  BY <1>1, FoldedRuns
<1> DEFINE T == {n \in 0..Len(s) : f[n] \in Acc}
<1>3. 0 \in T  BY <1>1, <1>2 DEF IsRun
<1>4. \A n \in Nat : n < Len(s) /\ n \in T => n + 1 \in T
  <2> SUFFICES ASSUME NEW n \in Nat, n < Len(s), n \in T  PROVE n + 1 \in T
    OBVIOUS
  <2>1. n + 1 \in 1..Len(s) /\ (n + 1) - 1 = n  BY <1>1
  <2>2. f[n + 1] = Step(par, f[n], s[n + 1])  BY <1>2, <2>1 DEF IsRun
  <2>3. f[n] \in Acc /\ s[n + 1] \in E  BY <1>1, <2>1
  <2>4. f[n + 1] \in Acc  BY <2>2, <2>3
  <2> QED  BY <2>1, <2>4
<1> HIDE DEF T
<1>5. 0..Len(s) \subseteq T  BY <1>1, <1>3, <1>4, IntervalInduction
<1> QED  BY <1>1, <1>2, <1>5 DEF T

\* There is one run.
LEMMA RunsAgree ==
  ASSUME NEW par, NEW base, NEW s, Len(s) \in Nat, NEW f, NEW g,
         IsRun(f, par, base, s), IsRun(g, par, base, s)
  PROVE  \A n \in 0..Len(s) : f[n] = g[n]
<1> DEFINE T == {n \in 0..Len(s) : f[n] = g[n]}
<1>1. 0 \in T  BY DEF IsRun
<1>2. \A n \in Nat : n < Len(s) /\ n \in T => n + 1 \in T
  <2> SUFFICES ASSUME NEW n \in Nat, n < Len(s), n \in T  PROVE n + 1 \in T
    OBVIOUS
  <2>1. n + 1 \in 1..Len(s) /\ (n + 1) - 1 = n  OBVIOUS
  <2> QED  BY <2>1 DEF IsRun
<1> HIDE DEF T
<1>3. 0..Len(s) \subseteq T  BY <1>1, <1>2, IntervalInduction
<1> QED  BY <1>3 DEF T

\* To fold a concatenation is to fold the second part from where the first ends.
THEOREM FoldedConcat ==
  ASSUME NEW par, NEW base, NEW E, NEW s \in Seq(E), NEW t \in Seq(E)
  PROVE  Folded(par, base, s \o t) = Folded(par, Folded(par, base, s), t)
<1> DEFINE m == Len(s)
           n == Len(t)
<1>1. /\ m \in Nat /\ DOMAIN s = 1..m /\ n \in Nat /\ DOMAIN t = 1..n
      /\ Len(s \o t) = m + n /\ DOMAIN (s \o t) = 1..(m + n)
      /\ \A i \in 1..m : (s \o t)[i] = s[i]
      /\ \A i \in 1..n : (s \o t)[m + i] = t[i]
  OBVIOUS
<1>2. PICK f : IsRun(f, par, base, s \o t) /\ Folded(par, base, s \o t) = f[m + n]
  <2> DEFINE q == s \o t
  <2>1. Len(q) = m + n /\ Len(q) \in Nat /\ DOMAIN q = 1..Len(q)  BY <1>1
  <2> HIDE DEF q
  <2>2. \E f : IsRun(f, par, base, q) /\ Folded(par, base, q) = f[Len(q)]
    BY <2>1, FoldedRuns
  <2> QED  BY <2>1, <2>2 DEF q
<1>3. PICK g : IsRun(g, par, base, s) /\ Folded(par, base, s) = g[m]
  BY <1>1, FoldedRuns
<1>4. PICK h : IsRun(h, par, g[m], t) /\ Folded(par, g[m], t) = h[n]
  BY <1>1, FoldedRuns
<1>5. IsRun(f, par, base, s)
  <2>1. \A i \in 1..m : i \in 1..(m + n)  BY <1>1
  <2> QED  BY <1>1, <1>2, <2>1 DEF IsRun
<1>6. f[m] = g[m]  BY <1>1, <1>3, <1>5, RunsAgree
<1> DEFINE k == [i \in 0..n |-> f[m + i]]
<1>7. IsRun(k, par, g[m], t)
  <2>1. k[0] = g[m]  BY <1>1, <1>6
  <2>2. ASSUME NEW i \in 1..n  PROVE k[i] = Step(par, k[i-1], t[i])
    <3>1. m + i \in 1..(m + n) /\ (m + i) - 1 = m + (i - 1) /\ i \in 0..n /\ i - 1 \in 0..n
      BY <1>1
    <3> QED  BY <1>1, <1>2, <3>1 DEF IsRun
  <2> QED  BY <1>1, <2>1, <2>2 DEF IsRun
<1>8. k[n] = f[m + n] /\ n \in 0..n  BY <1>1
<1> HIDE DEF k
<1>9. k[n] = h[n]  BY <1>1, <1>4, <1>7, <1>8, RunsAgree
<1> QED  BY <1>2, <1>3, <1>4, <1>8, <1>9

-----------------------------------------------------------------------------
(* Walks *)

\* The values along a sequence, as a recursive function spells them.
Walk(par, base, s) ==
  LET tip[n \in 0..Len(s)] == IF n = 0 THEN base ELSE Step(par, tip[n-1], s[n])
  IN  tip

\* A walk is a run.
LEMMA WalkRuns ==
  ASSUME NEW par, NEW base, NEW s, Len(s) \in Nat
  PROVE  IsRun(Walk(par, base, s), par, base, s)
<1> DEFINE f == Walk(par, base, s)
           m == Len(s)
<1>1. m \in Nat  OBVIOUS
<1> HIDE DEF m
<1>2. f = RunBody(f, par, base, s, m)
  <2>1. \E g : g = RunBody(g, par, base, s, m)  BY <1>1, RunIs
  <2> QED  BY <2>1 DEF Walk, RunBody, Body, m
<1> HIDE DEF f
<1>3. f[0] = base /\ \A n \in 1..m : f[n] = Step(par, f[n-1], s[n])
  BY <1>1, <1>2, RunEquations
<1> QED  BY <1>3 DEF IsRun, f, m

\* Sequences that agree on their first n elements are walked alike so far.
LEMMA WalksAgree ==
  ASSUME NEW par, NEW base, NEW s, NEW t, Len(s) \in Nat, Len(t) \in Nat,
         NEW n \in Nat, n <= Len(s), n <= Len(t), \A i \in 1..n : s[i] = t[i]
  PROVE  \A i \in 0..n : Walk(par, base, s)[i] = Walk(par, base, t)[i]
<1> DEFINE f == Walk(par, base, s)
           g == Walk(par, base, t)
           T == {i \in 0..n : f[i] = g[i]}
<1>1. IsRun(f, par, base, s) /\ IsRun(g, par, base, t)  BY WalkRuns
<1> HIDE DEF f, g
<1>2. 0 \in T  BY <1>1 DEF IsRun
<1>3. \A i \in Nat : i < n /\ i \in T => i + 1 \in T
  <2> SUFFICES ASSUME NEW i \in Nat, i < n, i \in T  PROVE i + 1 \in T
    OBVIOUS
  <2>1. /\ i + 1 \in 1..n /\ i + 1 \in 1..Len(s) /\ i + 1 \in 1..Len(t)
        /\ (i + 1) - 1 = i
    OBVIOUS
  <2> QED  BY <1>1, <2>1 DEF IsRun
<1> HIDE DEF T
<1>4. 0..n \subseteq T  BY <1>2, <1>3, IntervalInduction
<1> QED  BY <1>4 DEF T, f, g

\* A concatenation is walked as its first part, and then as its second from
\* where the first ends.
THEOREM WalkConcat ==
  ASSUME NEW par, NEW base, NEW E, NEW s \in Seq(E), NEW t \in Seq(E)
  PROVE  /\ \A i \in 0..Len(s) : Walk(par, base, s \o t)[i] = Walk(par, base, s)[i]
         /\ \A i \in 0..Len(t) :
              Walk(par, base, s \o t)[Len(s) + i]
                = Walk(par, Walk(par, base, s)[Len(s)], t)[i]
<1> DEFINE m == Len(s)
           n == Len(t)
           q == s \o t
<1>1. /\ m \in Nat /\ n \in Nat /\ Len(q) = m + n
      /\ \A i \in 1..m : q[i] = s[i]
      /\ \A i \in 1..n : q[m + i] = t[i]
  OBVIOUS
<1> HIDE DEF q
<1> DEFINE f == Walk(par, base, q)
           mid == Walk(par, base, s)[m]
           g == Walk(par, mid, t)
<1>2. \A i \in 0..m : f[i] = Walk(par, base, s)[i]
  <2>1. m <= Len(q) /\ Len(q) \in Nat /\ m <= Len(s) /\ Len(s) \in Nat  BY <1>1
  <2> HIDE DEF m
  <2>2. \A i \in 1..m : q[i] = s[i]  BY <1>1
  <2> QED  BY <1>1, <2>1, <2>2, WalksAgree
<1>3. f[m] = mid  BY <1>1, <1>2
<1>4. IsRun(f, par, base, q)
  <2>1. Len(q) \in Nat  BY <1>1
  <2> QED  BY <2>1, WalkRuns
<1>5. IsRun(g, par, mid, t)  BY <1>1, WalkRuns
<1> HIDE DEF f, mid
<1> DEFINE k == [i \in 0..n |-> f[m + i]]
<1>6. IsRun(k, par, mid, t)
  <2>1. k[0] = mid  BY <1>1, <1>3
  <2>2. ASSUME NEW i \in 1..n  PROVE k[i] = Step(par, k[i-1], t[i])
    <3>1. m + i \in 1..(m + n) /\ (m + i) - 1 = m + (i - 1) /\ i \in 0..n /\ i - 1 \in 0..n
      BY <1>1
    <3> QED  BY <1>1, <1>4, <3>1 DEF IsRun
  <2> QED  BY <1>1, <2>1, <2>2 DEF IsRun
<1>7. \A i \in 0..n : k[i] = f[m + i]  OBVIOUS
<1> HIDE DEF k, g
<1>8. \A i \in 0..Len(t) : k[i] = g[i]  BY <1>5, <1>6, RunsAgree
<1>9. \A i \in 0..n : f[m + i] = g[i]  BY <1>7, <1>8
<1> QED  BY <1>2, <1>9 DEF f, g, mid, q
=============================================================================
