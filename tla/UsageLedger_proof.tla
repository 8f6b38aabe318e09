-------------------------- MODULE UsageLedger_proof --------------------------
(***************************************************************************)
(* The usage ledger, for any number of processes, any budget and any old   *)
(* ledger: typing, what a baseline restores, what makes the ledger drift   *)
(* and by how much spending passes the cap.                                *)
(***************************************************************************)
EXTENDS UsageLedger, TLAPS

(* Sums of sequences of naturals. *)

LEMMA LenType ==
  ASSUME NEW u \in Seq(Nat)
  PROVE  Len(u) \in Nat
OBVIOUS

AddUp(none, sum, x) == sum + x

Summing == INSTANCE Recursion WITH Step <- AddUp

LEMMA SumsEquations ==
  ASSUME NEW u \in Seq(Nat)
  PROVE  /\ PartialSums(u)[0] = 0
         /\ \A n \in 1..Len(u) : PartialSums(u)[n] = PartialSums(u)[n-1] + u[n]
         /\ \A n \in 0..Len(u) : PartialSums(u)[n] \in Nat
<1> DEFINE f == PartialSums(u)
           m == Len(u)
           T == {n \in Nat : n <= m => f[n] \in Nat}
<1>1. m \in Nat /\ \A n \in 1..m : u[n] \in Nat
  BY LenType
<1> HIDE DEF m
<1>2. f = Summing!RunBody(f, u, 0, u, m)
  <2>1. \E g : g = Summing!RunBody(g, u, 0, u, m)
    BY <1>1, Summing!RunIs
  <2>. QED
    BY <2>1 DEF PartialSums, Summing!RunBody, Summing!Body, AddUp, m
<1> HIDE DEF f
<1>3. f[0] = 0 /\ \A n \in 1..m : f[n] = f[n-1] + u[n]
  BY <1>1, <1>2, Summing!RunEquations DEF AddUp
<1>4. 0 \in T
  BY <1>3
<1>5. ASSUME NEW n \in Nat, n < m, n \in T PROVE n + 1 \in T
  <2>1. n + 1 \in 1..m /\ (n + 1) - 1 = n
    BY <1>1, <1>5
  <2>2. f[n+1] = f[n] + u[n+1] /\ u[n+1] \in Nat /\ f[n] \in Nat
    BY <1>1, <1>3, <1>5, <2>1
  <2>. QED
    BY <2>2
<1>6. 0..m \subseteq T
  <2> HIDE DEF T
  <2>. QED
    BY <1>1, <1>4, <1>5, Summing!IntervalInduction
<1>. QED
  BY <1>3, <1>6 DEF f, m

LEMMA SumsStep ==
  ASSUME NEW u \in Seq(Nat), NEW n \in Nat, n < Len(u)
  PROVE  /\ PartialSums(u)[n+1] = PartialSums(u)[n] + u[n+1]
         /\ PartialSums(u)[n] \in Nat /\ u[n+1] \in Nat
<1>1. n + 1 \in 1..Len(u) /\ n \in 0..Len(u) /\ (n + 1) - 1 = n
  BY LenType
<1>2. PartialSums(u)[n+1] = PartialSums(u)[(n+1)-1] + u[n+1]
  BY <1>1, SumsEquations
<1>3. PartialSums(u)[n] \in Nat
  BY <1>1, SumsEquations
<1>4. u[n+1] \in Nat
  BY <1>1
<1>. QED
  BY <1>1, <1>2, <1>3, <1>4

LEMMA TotalType ==
  ASSUME NEW u \in Seq(Nat)
  PROVE  Total(u) \in Nat
BY SumsEquations DEF Total

\* Terms that add up one by one add up in all.
LEMMA TotalPlus ==
  ASSUME NEW u \in Seq(Nat), NEW v \in Seq(Nat), NEW w \in Seq(Nat),
         Len(v) = Len(u), Len(w) = Len(u), \A i \in 1..Len(u) : w[i] = u[i] + v[i]
  PROVE  Total(w) = Total(u) + Total(v)
<1> DEFINE A == PartialSums(u)
           B == PartialSums(v)
           C == PartialSums(w)
           T == {n \in Nat : n <= Len(u) => C[n] = A[n] + B[n]}
<1>1. A[0] = 0 /\ B[0] = 0 /\ C[0] = 0
  BY SumsEquations
<1>2. ASSUME NEW n \in Nat, n < Len(u)
      PROVE  /\ A[n+1] = A[n] + u[n+1] /\ A[n] \in Nat /\ u[n+1] \in Nat
             /\ B[n+1] = B[n] + v[n+1] /\ B[n] \in Nat /\ v[n+1] \in Nat
             /\ C[n+1] = C[n] + w[n+1] /\ w[n+1] = u[n+1] + v[n+1]
  <2>1. A[n+1] = A[n] + u[n+1] /\ A[n] \in Nat /\ u[n+1] \in Nat
    BY <1>2, SumsStep
  <2>2. B[n+1] = B[n] + v[n+1] /\ B[n] \in Nat /\ v[n+1] \in Nat
    BY <1>2, SumsStep
  <2>3. C[n+1] = C[n] + w[n+1]
    BY <1>2, SumsStep
  <2>4. n + 1 \in 1..Len(u)
    BY <1>2, LenType
  <2>. QED
    BY <2>1, <2>2, <2>3, <2>4
<1> HIDE DEF A, B, C
<1>3. 0 \in T
  BY <1>1
<1>4. \A n \in Nat : n < Len(u) /\ n \in T => n + 1 \in T
  <2>1. ASSUME NEW n \in Nat, n < Len(u), n \in T PROVE n + 1 \in T
    <3>1. C[n] = A[n] + B[n]
      BY <2>1
    <3>2. C[n+1] = A[n+1] + B[n+1]
      <4>1. /\ A[n+1] = A[n] + u[n+1] /\ A[n] \in Nat /\ u[n+1] \in Nat
            /\ B[n+1] = B[n] + v[n+1] /\ B[n] \in Nat /\ v[n+1] \in Nat
            /\ C[n+1] = C[n] + w[n+1] /\ w[n+1] = u[n+1] + v[n+1]
        BY <1>2, <2>1
      <4> DEFINE a == A[n]
                 b == B[n]
                 p == u[n+1]
                 q == v[n+1]
      <4>2. a \in Nat /\ b \in Nat /\ p \in Nat /\ q \in Nat
        BY <4>1
      <4>3. C[n+1] = (a + b) + (p + q) /\ A[n+1] = a + p /\ B[n+1] = b + q
        BY <3>1, <4>1, Zenon
      <4> HIDE DEF a, b, p, q
      <4>4. (a + b) + (p + q) = (a + p) + (b + q)
        BY <4>2
      <4>. QED
        BY <4>3, <4>4, Zenon
    <3>. QED
      BY <3>2
  <2>. QED
    BY <2>1
<1>5. 0..Len(u) \subseteq T
  <2> HIDE DEF T
  <2>. QED
    BY <1>3, <1>4, LenType, Summing!IntervalInduction
<1>6. C[Len(u)] = A[Len(u)] + B[Len(u)]
  BY <1>5, LenType
<1>. QED
  BY <1>6 DEF Total, A, B, C

\* Terms that are each at most another's have at most its total.
LEMMA TotalMono ==
  ASSUME NEW u \in Seq(Nat), NEW v \in Seq(Nat),
         Len(v) = Len(u), \A i \in 1..Len(u) : u[i] <= v[i]
  PROVE  Total(u) <= Total(v)
<1> DEFINE d == [i \in 1..Len(u) |-> v[i] - u[i]]
<1>1. d \in Seq(Nat) /\ Len(d) = Len(u)
  <2>1. \A i \in 1..Len(u) : v[i] - u[i] \in Nat
    OBVIOUS
  <2>. QED
    BY <2>1
<1>2. \A i \in 1..Len(u) : v[i] = u[i] + d[i]
  OBVIOUS
<1> HIDE DEF d
<1>3. Total(v) = Total(u) + Total(d)
  BY <1>1, <1>2, TotalPlus
<1>. QED
  BY <1>1, <1>3, TotalType

LEMMA TotalConcat ==
  ASSUME NEW u \in Seq(Nat), NEW v \in Seq(Nat)
  PROVE  Total(u \o v) = Total(u) + Total(v)
<1> DEFINE w == u \o v
           A == PartialSums(u)
           B == PartialSums(v)
           C == PartialSums(w)
           S == {n \in Nat : n <= Len(u) => C[n] = A[n]}
           T == {n \in Nat : n <= Len(v) => C[Len(u) + n] = A[Len(u)] + B[n]}
<1>1. /\ w \in Seq(Nat) /\ Len(w) = Len(u) + Len(v)
      /\ Len(u) \in Nat /\ Len(v) \in Nat
      /\ \A n \in 1..Len(u) : w[n] = u[n]
      /\ \A n \in 1..Len(v) : w[Len(u) + n] = v[n]
  BY LenType
<1> HIDE DEF w
<1>2. A[0] = 0 /\ B[0] = 0 /\ C[0] = 0 /\ A[Len(u)] \in Nat
  BY <1>1, SumsEquations
<1>3. ASSUME NEW n \in Nat, n < Len(u)
      PROVE  C[n+1] = C[n] + u[n+1] /\ A[n+1] = A[n] + u[n+1]
  <2>1. n < Len(w) /\ n + 1 \in 1..Len(u)
    BY <1>1, <1>3
  <2>2. C[n+1] = C[n] + w[n+1]
    BY <1>1, <2>1, SumsStep
  <2>3. A[n+1] = A[n] + u[n+1]
    BY <1>3, SumsStep
  <2>4. w[n+1] = u[n+1]
    BY <1>1, <2>1
  <2>. QED
    BY <2>2, <2>3, <2>4
<1>4. ASSUME NEW n \in Nat, n < Len(v)
      PROVE  /\ C[Len(u) + (n + 1)] = C[Len(u) + n] + v[n+1]
             /\ B[n+1] = B[n] + v[n+1] /\ B[n] \in Nat /\ v[n+1] \in Nat
  <2> DEFINE k == Len(u) + n
  <2>1. k \in Nat /\ k < Len(w) /\ k + 1 = Len(u) + (n + 1) /\ n + 1 \in 1..Len(v)
    BY <1>1, <1>4
  <2>2. w[Len(u) + (n + 1)] = v[n+1]
    BY <1>1, <2>1
  <2> HIDE DEF k
  <2>3. C[k+1] = C[k] + w[k+1]
    BY <1>1, <2>1, SumsStep
  <2>4. B[n+1] = B[n] + v[n+1] /\ B[n] \in Nat /\ v[n+1] \in Nat
    BY <1>4, SumsStep
  <2>. QED
    BY <2>1, <2>2, <2>3, <2>4 DEF k
<1> HIDE DEF A, B, C
<1>5. 0..Len(u) \subseteq S
  <2>1. 0 \in S
    BY <1>2
  <2>2. \A n \in Nat : n < Len(u) /\ n \in S => n + 1 \in S
    <3>1. ASSUME NEW n \in Nat, n < Len(u), n \in S PROVE n + 1 \in S
      <4>1. C[n+1] = C[n] + u[n+1] /\ A[n+1] = A[n] + u[n+1]
        BY <1>3, <3>1
      <4>2. C[n] = A[n]
        BY <3>1
      <4>3. C[n+1] = A[n+1]
        BY <4>1, <4>2
      <4>. QED
        BY <4>3
    <3>. QED
      BY <3>1
  <2> HIDE DEF S
  <2>. QED
    BY <1>1, <2>1, <2>2, Summing!IntervalInduction
<1>6. C[Len(u)] = A[Len(u)]
  <2>1. Len(u) \in S
    <3>1. Len(u) \in 0..Len(u)
      BY <1>1
    <3> HIDE DEF S
    <3>. QED
      BY <1>5, <3>1
  <2>. QED
    BY <1>1, <2>1
<1>7. 0..Len(v) \subseteq T
  <2>1. 0 \in T
    BY <1>1, <1>2, <1>6
  <2>2. \A n \in Nat : n < Len(v) /\ n \in T => n + 1 \in T
    <3>1. ASSUME NEW n \in Nat, n < Len(v), n \in T PROVE n + 1 \in T
      <4>1. /\ C[Len(u) + (n + 1)] = C[Len(u) + n] + v[n+1]
            /\ B[n+1] = B[n] + v[n+1] /\ B[n] \in Nat /\ v[n+1] \in Nat
        BY <1>4, <3>1
      <4>2. C[Len(u) + n] = A[Len(u)] + B[n] /\ A[Len(u)] \in Nat
        BY <1>2, <3>1
      <4>3. C[Len(u) + (n + 1)] = A[Len(u)] + B[n+1]
        BY <4>1, <4>2
      <4>. QED
        BY <4>3
    <3>. QED
      BY <3>1
  <2> HIDE DEF T
  <2>. QED
    BY <1>1, <2>1, <2>2, Summing!IntervalInduction
<1>8. C[Len(u) + Len(v)] = A[Len(u)] + B[Len(v)]
  <2>1. Len(v) \in T
    <3>1. Len(v) \in 0..Len(v)
      BY <1>1
    <3> HIDE DEF T
    <3>. QED
      BY <1>7, <3>1
  <2>. QED
    BY <1>1, <2>1
<1>. QED
  BY <1>1, <1>8 DEF Total, A, B, C, w

\* The total of a sequence whose terms are all at most m.
LEMMA TotalBound ==
  ASSUME NEW u \in Seq(Nat), NEW m \in Nat, \A i \in 1..Len(u) : u[i] <= m
  PROVE  Total(u) <= Len(u) * m
<1> DEFINE A == PartialSums(u)
           T == {n \in Nat : n <= Len(u) => A[n] <= n * m}
<1>1. /\ A[0] = 0 /\ \A n \in 1..Len(u) : A[n] = A[n-1] + u[n]
      /\ \A n \in 0..Len(u) : A[n] \in Nat
  BY SumsEquations
<1> HIDE DEF A
<1>2. 0 \in T
  BY <1>1
<1>3. \A n \in Nat : n < Len(u) /\ n \in T => n + 1 \in T
  <2>1. ASSUME NEW n \in Nat, n < Len(u), n \in T PROVE n + 1 \in T
    <3>1. A[n+1] = A[n] + u[n+1] /\ u[n+1] \in Nat /\ u[n+1] <= m
      BY <1>1, <2>1
    <3>2. (n + 1) * m = n * m + m /\ n * m \in Nat
      BY <2>1
    <3>3. A[n] \in Nat /\ A[n] <= n * m
      BY <1>1, <2>1
    <3>. QED
      BY <3>1, <3>2, <3>3
  <2>. QED
    BY <2>1
<1>4. 0..Len(u) \subseteq T
  <2> HIDE DEF T
  <2>. QED
    BY <1>2, <1>3, LenType, Summing!IntervalInduction
<1>. QED
  BY <1>4 DEF Total, A

LEMMA TotalOne ==
  ASSUME NEW x \in Nat
  PROVE  Total(<<x>>) = x
<1>1. <<x>> \in Seq(Nat) /\ Len(<<x>>) = 1 /\ <<x>>[1] = x
  OBVIOUS
<1> DEFINE u == <<x>>
<1> HIDE DEF u
<1>2. /\ PartialSums(u)[0] = 0
      /\ \A n \in 1..Len(u) : PartialSums(u)[n] = PartialSums(u)[n-1] + u[n]
  BY <1>1, SumsEquations DEF u
<1>3. PartialSums(u)[1] = PartialSums(u)[0] + u[1]
  BY <1>1, <1>2 DEF u
<1>. QED
  BY <1>1, <1>2, <1>3 DEF Total, u

\* Replacing one term.
LEMMA TotalExcept ==
  ASSUME NEW u \in Seq(Nat), NEW c \in 1..Len(u), NEW x \in Nat
  PROVE  Total([u EXCEPT ![c] = x]) = Total(u) - u[c] + x
<1> DEFINE l == [i \in 1..(c-1) |-> u[i]]
           r == [i \in 1..(Len(u)-c) |-> u[c+i]]
<1>1. l \in Seq(Nat) /\ r \in Seq(Nat) /\ Len(l) = c - 1 /\ Len(r) = Len(u) - c
  OBVIOUS
<1>2. ASSUME NEW y \in Nat PROVE [u EXCEPT ![c] = y] = (l \o <<y>>) \o r
  OBVIOUS
<1>3. ASSUME NEW y \in Nat PROVE Total([u EXCEPT ![c] = y]) = Total(l) + y + Total(r)
  <2>1. l \o <<y>> \in Seq(Nat) /\ <<y>> \in Seq(Nat)
    BY <1>1
  <2>2. [u EXCEPT ![c] = y] = (l \o <<y>>) \o r
    BY <1>2
  <2> HIDE DEF l, r
  <2>3. Total((l \o <<y>>) \o r) = Total(l \o <<y>>) + Total(r)
    BY <1>1, <2>1, TotalConcat
  <2>4. Total(l \o <<y>>) = Total(l) + Total(<<y>>)
    BY <1>1, <2>1, TotalConcat
  <2>. QED
    BY <2>2, <2>3, <2>4, TotalOne
<1>4. u[c] \in Nat /\ [u EXCEPT ![c] = u[c]] = u
  OBVIOUS
<1> HIDE DEF l, r
<1>5. Total(l) \in Nat /\ Total(r) \in Nat
  BY <1>1, TotalType
<1>6. Total(u) = Total(l) + u[c] + Total(r)
  BY <1>3, <1>4
<1>7. Total([u EXCEPT ![c] = x]) = Total(l) + x + Total(r)
  BY <1>3
<1> DEFINE a == Total(l)
           b == Total(r)
           q == u[c]
<1>8. a \in Nat /\ b \in Nat /\ q \in Nat /\ Total(u) = a + q + b
      /\ Total([u EXCEPT ![c] = x]) = a + x + b
  BY <1>4, <1>5, <1>6, <1>7, Zenon
<1> HIDE DEF a, b, q
<1>9. Total([u EXCEPT ![c] = x]) = Total(u) - q + x
  BY <1>8
<1>. QED
  BY <1>9 DEF q

LEMMA TotalTerm ==
  ASSUME NEW u \in Seq(Nat), NEW c \in 1..Len(u)
  PROVE  u[c] <= Total(u)
<1>1. [u EXCEPT ![c] = 0] \in Seq(Nat) /\ u[c] \in Nat
  OBVIOUS
<1>2. Total([u EXCEPT ![c] = 0]) = Total(u) - u[c] + 0
  BY TotalExcept
<1>3. Total(u) \in Nat /\ Total([u EXCEPT ![c] = 0]) \in Nat
  BY <1>1, TotalType
<1>. QED
  BY <1>1, <1>2, <1>3

------------------------------------------------------------------------------
(* What the ledger says of a sequence of rows. *)

LEMMA MaxIs ==
  ASSUME NEW S \in SUBSET Nat, 0 \in S, NEW b \in Nat, \A x \in S : x <= b
  PROVE  Max(S) \in S /\ \A x \in S : x <= Max(S)
<1> DEFINE G(n) == \E m \in S : \A y \in S : y <= n => y <= m
           U == {n \in Nat : G(n)}
<1>1. 0 \in U
  OBVIOUS
<1>2. \A n \in Nat : n < b /\ n \in U => n + 1 \in U
  <2>1. ASSUME NEW n \in Nat, n \in U PROVE G(n + 1)
    <3>1. CASE n + 1 \in S
      BY <3>1
    <3>2. CASE n + 1 \notin S
      <4>1. \A y \in S : y <= n + 1 => y <= n
        BY <3>2
      <4>2. PICK m \in S : \A y \in S : y <= n => y <= m
        BY <2>1
      <4>. QED
        BY <4>1, <4>2
    <3>. QED
      BY <3>1, <3>2
  <2> HIDE DEF G
  <2>. QED
    BY <2>1
<1>3. 0..b \subseteq U
  <2> HIDE DEF U
  <2>. QED
    BY <1>1, <1>2, Summing!IntervalInduction
<1>4. PICK m \in S : \A y \in S : y <= m
  <2>0. b \in 0..b
    OBVIOUS
  <2>1. b \in U
    <3> HIDE DEF U
    <3>. QED
      BY <1>3, <2>0
  <2>. QED
    BY <2>1
<1>5. \E z \in S : \A y \in S : z >= y
  BY <1>4
<1>6. Max(S) \in S /\ \A y \in S : Max(S) >= y
  BY <1>5, Zenon DEF Max
<1>. QED
  BY <1>6

LEMMA MaxOfTwo ==
  ASSUME NEW a \in Int, NEW b \in Int
  PROVE  /\ Max({a, b}) \in {a, b}
         /\ Max({a, b}) >= a /\ Max({a, b}) >= b
<1>1. \E m \in {a, b} : \A y \in {a, b} : m >= y
  OBVIOUS
<1>. QED
  BY <1>1 DEF Max

LEMMA MinOfTwo ==
  ASSUME NEW a \in Int, NEW b \in Int
  PROVE  /\ Min({a, b}) \in {a, b}
         /\ Min({a, b}) <= a /\ Min({a, b}) <= b
<1>1. \E m \in {a, b} : \A y \in {a, b} : m <= y
  OBVIOUS
<1>. QED
  BY <1>1 DEF Min

\* The figures of the rows of a ledger are bounded, so the latest exists.
LEMMA MaxOfRows ==
  ASSUME NEW rows \in Seq(Row), NEW K \in SUBSET ToSet(rows)
  PROVE  /\ Max({0} \cup {r.ts : r \in K}) \in {0} \cup {r.ts : r \in K}
         /\ \A r \in K : r.ts <= Max({0} \cup {q.ts : q \in K})
         /\ Max({0} \cup {r.usd : r \in K}) \in {0} \cup {r.usd : r \in K}
         /\ \A r \in K : r.usd <= Max({0} \cup {q.usd : q \in K})
<1>1. ToSet(rows) \subseteq Row
  BY DEF ToSet
<1>2. \A r \in K : r.ts \in Nat /\ r.usd \in Nat
  BY <1>1 DEF Row
<1> DEFINE u == [i \in 1..Len(rows) |-> rows[i].ts]
           v == [i \in 1..Len(rows) |-> rows[i].usd]
<1>3. u \in Seq(Nat) /\ v \in Seq(Nat) /\ Len(u) = Len(rows) /\ Len(v) = Len(rows)
  <2>1. \A i \in 1..Len(rows) : rows[i] \in Row
    OBVIOUS
  <2>2. \A i \in 1..Len(rows) : rows[i].ts \in Nat /\ rows[i].usd \in Nat
    BY <2>1 DEF Row
  <2>. QED
    BY <2>2, LenType
<1>4. ASSUME NEW r \in K PROVE r.ts <= Total(u) /\ r.usd <= Total(v)
  <2>1. PICK i \in 1..Len(rows) : rows[i] = r
    BY DEF ToSet
  <2>2. u[i] = r.ts /\ v[i] = r.usd
    BY <2>1
  <2> HIDE DEF u, v
  <2>3. u[i] <= Total(u) /\ v[i] <= Total(v)
    BY <1>3, TotalTerm
  <2>. QED
    BY <2>2, <2>3
<1> HIDE DEF u, v
<1>5. Total(u) \in Nat /\ Total(v) \in Nat
  BY <1>3, TotalType
<1> DEFINE S == {0} \cup {r.ts : r \in K}
           W == {0} \cup {r.usd : r \in K}
<1>6. S \in SUBSET Nat /\ 0 \in S /\ \A x \in S : x <= Total(u)
  BY <1>2, <1>4, <1>5
<1>7. W \in SUBSET Nat /\ 0 \in W /\ \A x \in W : x <= Total(v)
  BY <1>2, <1>4, <1>5
<1>8. (\A r \in K : r.ts \in S) /\ (\A r \in K : r.usd \in W)
  OBVIOUS
<1> HIDE DEF S, W
<1>9. Max(S) \in S /\ (\A x \in S : x <= Max(S))
  BY <1>5, <1>6, MaxIs
<1>10. Max(W) \in W /\ (\A x \in W : x <= Max(W))
  BY <1>5, <1>7, MaxIs
<1>11. (\A r \in K : r.ts <= Max(S)) /\ (\A r \in K : r.usd <= Max(W))
  BY <1>8, <1>9, <1>10
<1>. QED
  BY <1>9, <1>10, <1>11 DEF S, W

LEMMA BaselineTsIs ==
  ASSUME NEW rows \in Seq(Row)
  PROVE  /\ BaselineTs(rows) \in Nat
         /\ \A r \in Baselines(rows) : r.ts <= BaselineTs(rows)
         /\ BaselineTs(rows) # 0 => \E r \in Baselines(rows) : r.ts = BaselineTs(rows)
<1>1. Baselines(rows) \in SUBSET ToSet(rows) /\ ToSet(rows) \subseteq Row
  BY DEF Baselines, ToSet
<1>2. /\ BaselineTs(rows) \in {0} \cup {r.ts : r \in Baselines(rows)}
      /\ \A r \in Baselines(rows) : r.ts <= BaselineTs(rows)
  BY <1>1, MaxOfRows DEF BaselineTs
<1>3. \A r \in Baselines(rows) : r.ts \in Nat
  BY <1>1 DEF Row
<1>. QED
  BY <1>2, <1>3

LEMMA BaselineUsdIs ==
  ASSUME NEW rows \in Seq(Row)
  PROVE  /\ BaselineUsd(rows) \in Nat
         /\ \A r \in Baselines(rows) : r.ts = BaselineTs(rows) => r.usd <= BaselineUsd(rows)
         /\ BaselineUsd(rows) # 0 =>
              \E r \in Baselines(rows) : r.ts = BaselineTs(rows) /\ r.usd = BaselineUsd(rows)
<1> DEFINE K == {b \in Baselines(rows) : b.ts = BaselineTs(rows)}
<1>1. K \in SUBSET ToSet(rows) /\ ToSet(rows) \subseteq Row
  BY DEF Baselines, ToSet
<1>2. \A r \in K : r.usd \in Nat /\ r \in Baselines(rows) /\ r.ts = BaselineTs(rows)
  BY <1>1 DEF Row
<1>3. \A r \in Baselines(rows) : r.ts = BaselineTs(rows) => r \in K
  OBVIOUS
<1>4. BaselineUsd(rows) = Max({0} \cup {r.usd : r \in K})
  BY DEF BaselineUsd
<1> HIDE DEF K
<1>5. /\ BaselineUsd(rows) \in {0} \cup {r.usd : r \in K}
      /\ \A r \in K : r.usd <= BaselineUsd(rows)
  BY <1>1, <1>4, MaxOfRows
<1>6. BaselineUsd(rows) # 0 => \E r \in K : r.usd = BaselineUsd(rows)
  BY <1>5
<1>7. BaselineUsd(rows) \in Nat
  BY <1>2, <1>5
<1>. QED
  BY <1>2, <1>3, <1>5, <1>6, <1>7, Zenon

\* What each row adds to the cost when calls up to since are covered.
Costs(rows, since) ==
  [i \in 1..Len(rows) |->
     IF ~rows[i].baseline /\ rows[i].ts > since THEN rows[i].usd ELSE 0]

LEMMA RowAt ==
  ASSUME NEW rows \in Seq(Row), NEW i \in 1..Len(rows)
  PROVE  /\ rows[i] \in Row /\ rows[i] \in ToSet(rows)
         /\ rows[i].ts \in Nat /\ rows[i].usd \in Nat /\ rows[i].baseline \in BOOLEAN
<1>1. rows[i] \in Row
  OBVIOUS
<1>2. rows[i] \in ToSet(rows)
  BY DEF ToSet
<1>. QED
  BY <1>1, <1>2 DEF Row

LEMMA CostsType ==
  ASSUME NEW rows \in Seq(Row), NEW b \in Nat
  PROVE  Costs(rows, b) \in Seq(Nat) /\ Len(Costs(rows, b)) = Len(rows)
<1>1. \A i \in 1..Len(rows) : rows[i].usd \in Nat
  BY RowAt
<1>. QED
  BY <1>1, LenType DEF Costs

LEMMA AgentCostIs ==
  ASSUME NEW rows \in Seq(Row)
  PROVE  AgentCost(rows) = BaselineUsd(rows) + Total(Costs(rows, BaselineTs(rows)))
<1>1. DOMAIN rows = 1..Len(rows)
  OBVIOUS
<1>. QED
  BY <1>1 DEF AgentCost, Costs, Counted

LEMMA AgentCostType ==
  ASSUME NEW rows \in Seq(Row)
  PROVE  AgentCost(rows) \in Nat
<1>1. Costs(rows, BaselineTs(rows)) \in Seq(Nat)
  BY BaselineTsIs, CostsType
<1>2. Total(Costs(rows, BaselineTs(rows))) \in Nat
  BY <1>1, TotalType
<1>. QED
  BY <1>2, AgentCostIs, BaselineUsdIs

LEMMA CostsConcat ==
  ASSUME NEW s \in Seq(Row), NEW t \in Seq(Row), NEW b \in Nat
  PROVE  Total(Costs(s \o t, b)) = Total(Costs(s, b)) + Total(Costs(t, b))
<1>1. Costs(s \o t, b) = Costs(s, b) \o Costs(t, b)
  BY DEF Costs
<1>. QED
  BY <1>1, CostsType, TotalConcat

LEMMA CostsMono ==
  ASSUME NEW s \in Seq(Row), NEW a \in Nat, NEW b \in Nat, b <= a
  PROVE  Total(Costs(s, a)) <= Total(Costs(s, b))
<1>1. \A i \in 1..Len(s) : s[i].ts \in Nat /\ s[i].usd \in Nat
  BY RowAt
<1>2. \A i \in 1..Len(s) : Costs(s, a)[i] <= Costs(s, b)[i]
  BY <1>1 DEF Costs
<1>. QED
  BY <1>2, CostsType, TotalMono

\* Calls that are all covered add nothing.
LEMMA CostsCovered ==
  ASSUME NEW s \in Seq(Row), NEW b \in Nat, \A r \in ToSet(s) : r.ts <= b
  PROVE  Total(Costs(s, b)) = 0
<1>1. \A i \in 1..Len(s) : s[i].ts \in Nat /\ s[i].ts <= b
  BY RowAt
<1>2. \A i \in 1..Len(s) : Costs(s, b)[i] <= 0
  BY <1>1 DEF Costs
<1>3. Costs(s, b) \in Seq(Nat) /\ Len(Costs(s, b)) = Len(s)
  BY CostsType
<1>4. Total(Costs(s, b)) <= Len(Costs(s, b)) * 0
  BY <1>2, <1>3, TotalBound
<1>5. Total(Costs(s, b)) \in Nat /\ Len(Costs(s, b)) \in Nat
  BY <1>3, TotalType, LenType
<1>. QED
  BY <1>4, <1>5

LEMMA EmptyCost ==
  AgentCost(<<>>) = 0
<1> DEFINE e == <<>>
<1>1. e \in Seq(Row) /\ ToSet(e) = {}
  BY DEF ToSet
<1> HIDE DEF e
<1>2. BaselineUsd(e) = 0
  BY <1>1, BaselineUsdIs DEF Baselines
<1>3. BaselineTs(e) \in Nat
  BY <1>1, BaselineTsIs
<1>4. Total(Costs(e, BaselineTs(e))) = 0
  BY <1>1, <1>3, CostsCovered
<1>5. AgentCost(e) = 0
  BY <1>1, <1>2, <1>4, AgentCostIs
<1>. QED
  BY <1>5 DEF e

LEMMA ToSetConcat ==
  ASSUME NEW s \in Seq(Row), NEW t \in Seq(Row)
  PROVE  /\ s \o t \in Seq(Row)
         /\ ToSet(s \o t) = ToSet(s) \cup ToSet(t)
<1>1. /\ s \o t \in Seq(Row)
      /\ Len(s \o t) = Len(s) + Len(t)
      /\ \A i \in 1..Len(s) : (s \o t)[i] = s[i]
      /\ \A i \in 1..Len(t) : (s \o t)[Len(s) + i] = t[i]
      /\ \A i \in 1..(Len(s) + Len(t)) : i \in 1..Len(s) \/ i - Len(s) \in 1..Len(t)
  BY LenType
<1>2. \A i \in 1..(Len(s) + Len(t)) : i - Len(s) \in 1..Len(t) => (s \o t)[i] = t[i - Len(s)]
  OBVIOUS
<1>3. ToSet(s \o t) \subseteq ToSet(s) \cup ToSet(t)
  BY <1>1, <1>2 DEF ToSet
<1>4. ToSet(s) \subseteq ToSet(s \o t)
  BY <1>1 DEF ToSet
<1>5. ToSet(t) \subseteq ToSet(s \o t)
  <2>1. ASSUME NEW i \in 1..Len(t) PROVE t[i] \in ToSet(s \o t)
    <3>1. Len(s) + i \in 1..Len(s \o t) /\ (s \o t)[Len(s) + i] = t[i]
      BY <1>1
    <3>. QED
      BY <3>1 DEF ToSet
  <2>. QED
    BY <2>1 DEF ToSet
<1>. QED
  BY <1>1, <1>3, <1>4, <1>5

LEMMA ToSetOne ==
  ASSUME NEW r \in Row
  PROVE  <<r>> \in Seq(Row) /\ ToSet(<<r>>) = {r}
BY DEF ToSet

\* The figures of two parts of a ledger bound the figure of the whole.
LEMMA AgentCostSubadditive ==
  ASSUME NEW s \in Seq(Row), NEW t \in Seq(Row)
  PROVE  AgentCost(s \o t) <= AgentCost(s) + AgentCost(t)
<1> DEFINE w == s \o t
           S == BaselineTs(s)
           T == BaselineTs(t)
           W == BaselineTs(w)
<1>1. w \in Seq(Row) /\ Baselines(w) = Baselines(s) \cup Baselines(t)
  BY ToSetConcat DEF Baselines
<1>2. S \in Nat /\ T \in Nat /\ W \in Nat
  BY <1>1, BaselineTsIs
<1>3. S <= W /\ T <= W
  <2>1. \A r \in Baselines(w) : r.ts <= W
    BY <1>1, BaselineTsIs
  <2>2. (S # 0 => \E r \in Baselines(w) : r.ts = S) /\ (T # 0 => \E r \in Baselines(w) : r.ts = T)
    BY <1>1, BaselineTsIs
  <2> HIDE DEF S, T, W, w
  <2>. QED
    BY <1>2, <2>1, <2>2
<1>4. BaselineUsd(w) <= BaselineUsd(s) + BaselineUsd(t)
  <2>1. BaselineUsd(w) \in Nat /\ BaselineUsd(s) \in Nat /\ BaselineUsd(t) \in Nat
    BY <1>1, BaselineUsdIs
  <2>2. CASE BaselineUsd(w) = 0
    BY <2>1, <2>2
  <2>3. CASE BaselineUsd(w) # 0
    <3>1. PICK r \in Baselines(w) : r.ts = W /\ r.usd = BaselineUsd(w)
      BY <1>1, <2>3, BaselineUsdIs
    <3>2. CASE r \in Baselines(s)
      <4>1. r.ts = S
        BY <1>2, <1>3, <3>1, <3>2, BaselineTsIs
      <4>. QED
        BY <2>1, <3>1, <3>2, <4>1, BaselineUsdIs
    <3>3. CASE r \in Baselines(t)
      <4>1. r.ts = T
        BY <1>2, <1>3, <3>1, <3>3, BaselineTsIs
      <4>. QED
        BY <2>1, <3>1, <3>3, <4>1, BaselineUsdIs
    <3>. QED
      BY <1>1, <3>2, <3>3
  <2>. QED
    BY <2>2, <2>3
<1> HIDE DEF S, T, W
<1>5. Total(Costs(w, W)) = Total(Costs(s, W)) + Total(Costs(t, W))
  BY <1>2, CostsConcat
<1>6. Total(Costs(s, W)) <= Total(Costs(s, S)) /\ Total(Costs(t, W)) <= Total(Costs(t, T))
  BY <1>2, <1>3, CostsMono
<1> HIDE DEF w
<1>7. /\ Total(Costs(s, W)) \in Nat /\ Total(Costs(s, S)) \in Nat
      /\ Total(Costs(t, W)) \in Nat /\ Total(Costs(t, T)) \in Nat
  BY <1>2, CostsType, TotalType
<1>8. /\ AgentCost(s) = BaselineUsd(s) + Total(Costs(s, S))
      /\ AgentCost(t) = BaselineUsd(t) + Total(Costs(t, T))
      /\ AgentCost(w) = BaselineUsd(w) + Total(Costs(w, W))
  BY <1>1, AgentCostIs DEF S, T, W
<1>9. BaselineUsd(w) \in Nat /\ BaselineUsd(s) \in Nat /\ BaselineUsd(t) \in Nat
  BY <1>1, BaselineUsdIs
<1>10. AgentCost(w) <= AgentCost(s) + AgentCost(t)
  BY <1>4, <1>5, <1>6, <1>7, <1>8, <1>9
<1>. QED
  BY <1>10 DEF w

\* A ledger whose rows are all at most n.
UpTo(rows, n) == \A r \in ToSet(rows) : r.ts <= n

\* A row appended to the day files, before the legacy rows.
LEMMA AppendedRows ==
  ASSUME NEW d \in Seq(Row), NEW l \in Seq(Row), NEW r \in Row
  PROVE  /\ Append(d, r) \in Seq(Row) /\ Append(d, r) \o l \in Seq(Row)
         /\ ToSet(Append(d, r)) = ToSet(d) \cup {r}
         /\ ToSet(Append(d, r) \o l) = ToSet(d \o l) \cup {r}
<1> DEFINE e == <<r>>
           a == d \o e
<1>1. Append(d, r) = a
  OBVIOUS
<1>2. e \in Seq(Row) /\ ToSet(e) = {r}
  BY ToSetOne
<1> HIDE DEF e
<1>3. a \in Seq(Row) /\ ToSet(a) = ToSet(d) \cup {r}
  BY <1>2, ToSetConcat
<1> HIDE DEF a
<1>4. a \o l \in Seq(Row) /\ ToSet(a \o l) = ToSet(a) \cup ToSet(l)
  BY <1>3, ToSetConcat
<1>5. ToSet(d \o l) = ToSet(d) \cup ToSet(l)
  BY ToSetConcat
<1>6. ToSet(a \o l) = ToSet(d \o l) \cup {r}
  BY <1>3, <1>4, <1>5
<1>. QED
  BY <1>1, <1>3, <1>4, <1>6

LEMMA AppendedCosts ==
  ASSUME NEW d \in Seq(Row), NEW l \in Seq(Row), NEW r \in Row, NEW b \in Nat
  PROVE  Total(Costs(Append(d, r) \o l, b))
           = Total(Costs(d \o l, b)) + Total(Costs(<<r>>, b))
<1> DEFINE e == <<r>>
           a == d \o e
<1>1. Append(d, r) = a
  OBVIOUS
<1>2. e \in Seq(Row)
  BY ToSetOne
<1> HIDE DEF e
<1>3. a \in Seq(Row) /\ Total(Costs(a, b)) = Total(Costs(d, b)) + Total(Costs(e, b))
  BY <1>2, CostsConcat, ToSetConcat
<1> HIDE DEF a
<1>4. /\ Total(Costs(a \o l, b)) = Total(Costs(a, b)) + Total(Costs(l, b))
      /\ Total(Costs(d \o l, b)) = Total(Costs(d, b)) + Total(Costs(l, b))
  BY <1>3, CostsConcat
<1>5. /\ Total(Costs(d, b)) \in Nat /\ Total(Costs(l, b)) \in Nat
      /\ Total(Costs(e, b)) \in Nat
  BY <1>2, CostsType, TotalType
<1>6. Total(Costs(a \o l, b)) = Total(Costs(d \o l, b)) + Total(Costs(e, b))
  BY <1>3, <1>4, <1>5
<1>. QED
  BY <1>1, <1>6 DEF e

LEMMA NewestTs ==
  ASSUME NEW rows \in Seq(Row), NEW n \in Nat, UpTo(rows, n)
  PROVE  BaselineTs(rows) <= n
<1>1. \A r \in Baselines(rows) : r.ts <= n
  BY DEF Baselines, UpTo
<1>. QED
  BY <1>1, BaselineTsIs

\* A call later than every row adds its cost.
LEMMA NewestCall ==
  ASSUME NEW d \in Seq(Row), NEW l \in Seq(Row), NEW n \in Nat, NEW x \in Nat,
         UpTo(d \o l, n)
  PROVE  AgentCost(Append(d, [ts |-> n + 1, usd |-> x, baseline |-> FALSE]) \o l)
           = AgentCost(d \o l) + x
<1> DEFINE r == [ts |-> n + 1, usd |-> x, baseline |-> FALSE]
           old == d \o l
           new == Append(d, r) \o l
           B == BaselineTs(old)
<1>1. r \in Row /\ r.ts = n + 1 /\ r.usd = x /\ ~r.baseline
  BY DEF Row
<1> HIDE DEF r
<1>2. old \in Seq(Row) /\ new \in Seq(Row) /\ ToSet(new) = ToSet(old) \cup {r}
  <2>1. old \in Seq(Row)
    BY ToSetConcat
  <2>. QED
    BY <1>1, <2>1, AppendedRows
<1>3. B \in Nat /\ B <= n
  BY <1>2, NewestTs, BaselineTsIs
<1>4. Baselines(new) = Baselines(old)
  BY <1>1, <1>2 DEF Baselines
<1>5. BaselineTs(new) = B /\ BaselineUsd(new) = BaselineUsd(old)
  BY <1>4 DEF BaselineTs, BaselineUsd
<1>6. Costs(<<r>>, B) = <<x>>
  BY <1>1, <1>3 DEF Costs
<1>7. Total(Costs(new, B)) = Total(Costs(old, B)) + x
  BY <1>1, <1>3, <1>6, AppendedCosts, TotalOne
<1>8. Total(Costs(old, B)) \in Nat /\ BaselineUsd(old) \in Nat
  BY <1>2, <1>3, CostsType, TotalType, BaselineUsdIs
<1>9. /\ AgentCost(old) = BaselineUsd(old) + Total(Costs(old, B))
      /\ AgentCost(new) = BaselineUsd(new) + Total(Costs(new, BaselineTs(new)))
  BY <1>2, AgentCostIs
<1> HIDE DEF old, new, B
<1>10. AgentCost(new) = AgentCost(old) + x
  BY <1>5, <1>7, <1>8, <1>9
<1>. QED
  BY <1>10 DEF old, new, r

\* A baseline later than every row replaces the figure.
LEMMA NewestBaseline ==
  ASSUME NEW d \in Seq(Row), NEW l \in Seq(Row), NEW n \in Nat, NEW x \in Nat,
         UpTo(d \o l, n)
  PROVE  AgentCost(Append(d, [ts |-> n + 1, usd |-> x, baseline |-> TRUE]) \o l) = x
<1> DEFINE r == [ts |-> n + 1, usd |-> x, baseline |-> TRUE]
           old == d \o l
           new == Append(d, r) \o l
<1>1. r \in Row /\ r.ts = n + 1 /\ r.usd = x /\ r.baseline
  BY DEF Row
<1> HIDE DEF r
<1>2. old \in Seq(Row) /\ new \in Seq(Row) /\ ToSet(new) = ToSet(old) \cup {r}
  <2>1. old \in Seq(Row)
    BY ToSetConcat
  <2>. QED
    BY <1>1, <2>1, AppendedRows
<1>3. Baselines(new) = Baselines(old) \cup {r} /\ \A q \in Baselines(old) : q.ts <= n
  BY <1>1, <1>2 DEF Baselines, UpTo
<1>4. UpTo(new, n + 1)
  <2>1. \A q \in ToSet(old) : q.ts \in Nat
    <3>1. ASSUME NEW i \in 1..Len(old) PROVE old[i].ts \in Nat
      BY <1>2, RowAt
    <3>. QED
      BY <1>2, <3>1 DEF ToSet
  <2>. QED
    BY <1>1, <1>2, <2>1 DEF UpTo
<1> HIDE DEF old, new
<1>5. BaselineTs(new) = n + 1
  <2>1. BaselineTs(new) \in Nat /\ BaselineTs(new) <= n + 1
    BY <1>2, <1>4, NewestTs, BaselineTsIs
  <2>2. n + 1 <= BaselineTs(new)
    BY <1>1, <1>2, <1>3, BaselineTsIs
  <2>. QED
    BY <2>1, <2>2
<1>6. BaselineUsd(new) = x
  <2>1. BaselineUsd(new) \in Nat /\ x <= BaselineUsd(new)
    BY <1>1, <1>2, <1>3, <1>5, BaselineUsdIs
  <2>2. CASE BaselineUsd(new) = 0
    BY <2>1, <2>2
  <2>3. CASE BaselineUsd(new) # 0
    <3>1. PICK q \in Baselines(new) : q.ts = n + 1 /\ q.usd = BaselineUsd(new)
      BY <1>2, <1>5, <2>3, BaselineUsdIs
    <3>2. q = r
      BY <1>3, <3>1
    <3>. QED
      BY <1>1, <3>1, <3>2
  <2>. QED
    BY <2>2, <2>3
<1>7. Total(Costs(new, n + 1)) = 0
  BY <1>2, <1>4, CostsCovered DEF UpTo
<1>8. AgentCost(new) = x
  BY <1>2, <1>5, <1>6, <1>7, AgentCostIs
<1>. QED
  BY <1>8 DEF new, r

------------------------------------------------------------------------------
(* Types. *)

TypesButDrift ==
  /\ day \in Seq(Row) /\ legacy \in Seq(Row) /\ held \in Seq(Row)
  /\ now \in Nat /\ charged \in 0..Ceiling
  /\ pc \in [Callers -> {"check", "checking", "call", "log"}]
  /\ owed \in [Callers -> 0..MaxCost]
  /\ seen \in [Callers -> Seq(Row)]
  /\ \A c \in Callers : owed[c] > 0 <=> pc[c] = "log"
  /\ \A c \in Callers : seen[c] # <<>> => pc[c] = "checking"
  /\ job \in {"none", "reprice", "migrate", "baseline"}
  /\ console \in Nat /\ upsets \in 0..MaxUpsets

LEMMA Constants ==
  /\ Processes \in Nat /\ Cap \in Nat /\ Reserve \in Nat /\ MaxCost \in Nat
  /\ MaxUpsets \in Nat /\ Ceiling \in Nat
  /\ OldRows \in Seq(Row)
  /\ AgentCost(OldRows) \in Nat /\ AgentCost(OldRows) <= Ceiling
BY AgentCostType, LedgerAssumption, OldCostAssumption

LEMMA OwedIsSeq ==
  ASSUME NEW u \in [Callers -> 0..MaxCost]
  PROVE  u \in Seq(Nat) /\ Len(u) = Processes
BY Constants DEF Callers

LEMMA ZeroTotal ==
  Total([c \in Callers |-> 0]) = 0
<1> DEFINE u == [c \in Callers |-> 0]
<1>1. u \in Seq(Nat) /\ Len(u) = Processes /\ \A i \in 1..Len(u) : u[i] <= 0
  BY Constants DEF Callers
<1> HIDE DEF u
<1>2. Total(u) <= Len(u) * 0
  BY <1>1, TotalBound
<1>3. Total(u) \in Nat
  BY <1>1, TotalType
<1>4. Total(u) = 0
  BY <1>1, <1>2, <1>3, Constants
<1>. QED
  BY <1>4 DEF u

\* How far a ledger falls short is an integer.
LEMMA ShortfallType ==
  ASSUME NEW d \in Seq(Row), NEW l \in Seq(Row), NEW u \in [Callers -> 0..MaxCost], NEW k \in Nat
  PROVE  /\ AgentCost(d \o l) \in Nat /\ Total(u) \in Nat
         /\ k - Total(u) - AgentCost(d \o l) \in Int
<1>1. AgentCost(d \o l) \in Nat
  BY AgentCostType, ToSetConcat
<1>2. Total(u) \in Nat
  BY OwedIsSeq, TotalType
<1>. QED
  BY <1>1, <1>2

LEMMA TypeInit == Init => TypeOK
<1> SUFFICES ASSUME Init PROVE TypeOK
  OBVIOUS
<1>1. now \in Nat
  <2>1. ToSet(OldRows) \in SUBSET ToSet(OldRows) /\ \A r \in ToSet(OldRows) : r.ts \in Nat
    <3>1. \A i \in 1..Len(OldRows) : OldRows[i].ts \in Nat
      BY Constants, RowAt
    <3>. QED
      BY <3>1, Constants DEF ToSet
  <2>2. now \in {0} \cup {r.ts : r \in ToSet(OldRows)}
    BY <2>1, Constants, MaxOfRows DEF Init
  <2>. QED
    BY <2>1, <2>2
<1>. QED
  BY <1>1, Constants DEF Init, TypeOK

LEMMA TypeStep == TypeOK /\ [Next]_vars => TypeOK'
<1> SUFFICES ASSUME TypeOK, [Next]_vars PROVE TypeOK'
  OBVIOUS
<1>1. CASE UNCHANGED vars
  BY <1>1 DEF TypeOK, vars, ledger, callers, operator
<1>2. CASE Next
  <2>1. TypesButDrift
    BY DEF TypeOK, TypesButDrift
  <2>2. ASSUME NEW c \in Callers, CallerStep(c) PROVE TypesButDrift'
    <3>1. CASE ReadDays(c)
      BY <2>1, <3>1 DEF ReadDays, At, TypesButDrift, ledger, operator
    <3>2. CASE CheckBudget(c)
      BY <2>1, <3>2 DEF CheckBudget, At, TypesButDrift, ledger, operator
    <3>3. CASE Call(c)
      <4>1. PICK cost \in 1..MaxCost : /\ owed' = [owed EXCEPT ![c] = cost]
                                       /\ charged' = Min({charged + cost, Ceiling})
        BY <3>3 DEF Call
      <4>2. charged' \in 0..Ceiling
        <5>1. charged + cost \in Nat /\ Ceiling \in Nat
          BY <2>1, Constants DEF TypesButDrift
        <5>2. charged' \in {charged + cost, Ceiling} /\ charged' <= Ceiling
          BY <4>1, <5>1, MinOfTwo
        <5>. QED
          BY <5>1, <5>2
      <4>. QED
        BY <2>1, <3>3, <4>1, <4>2, Constants DEF Call, At, TypesButDrift, ledger, operator
    <3>4. CASE CallFails(c)
      BY <2>1, <3>4 DEF CallFails, At, TypesButDrift, ledger, operator
    <3>5. CASE LogUsage(c)
      <4> DEFINE r == [ts |-> now + 1, usd |-> owed[c], baseline |-> FALSE]
      <4>1. r \in Row /\ day' = Append(day, r)
        BY <2>1, <3>5, Constants DEF LogUsage, Appended, TypesButDrift, Row
      <4> HIDE DEF r
      <4>2. day' \in Seq(Row)
        BY <2>1, <4>1, AppendedRows DEF TypesButDrift
      <4>3. /\ pc[c] = "log" /\ pc' = [pc EXCEPT ![c] = "check"]
            /\ owed' = [owed EXCEPT ![c] = 0]
            /\ now' = now + 1
            /\ UNCHANGED <<legacy, seen, operator, charged, upsets>>
        BY <3>5 DEF LogUsage, At
      <4>. QED
        BY <2>1, <4>2, <4>3, Constants DEF TypesButDrift, operator
    <3>6. CASE LogFails(c)
      BY <2>1, <3>6, Constants DEF LogFails, Upset, At, TypesButDrift, ledger, operator
    <3>. QED
      BY <2>2, <3>1, <3>2, <3>3, <3>4, <3>5, <3>6 DEF CallerStep
  <2>3. ASSUME Maintenance PROVE TypesButDrift'
    <3>1. CASE RepriceReads
      BY <2>1, <3>1, Constants DEF RepriceReads, Start, Upset, TypesButDrift, ledger, callers
    <3>2. CASE RepriceReplaces
      BY <2>1, <3>2 DEF RepriceReplaces, TypesButDrift, callers
    <3>3. CASE MigrateSplits
      <4>1. day' \in Seq(Row)
        BY <2>1, <3>3, ToSetConcat DEF MigrateSplits, TypesButDrift
      <4>. QED
        BY <2>1, <3>3, <4>1, Constants DEF MigrateSplits, Start, Upset, TypesButDrift, callers
    <3>4. CASE MigrateArchives
      BY <2>1, <3>4 DEF MigrateArchives, TypesButDrift, callers
    <3>5. CASE ReadConsole
      BY <2>1, <3>5, Constants DEF ReadConsole, Start, Upset, TypesButDrift, ledger, callers
    <3>6. CASE RecordBaseline
      <4> DEFINE r == [ts |-> now + 1, usd |-> console, baseline |-> TRUE]
      <4>1. r \in Row /\ day' = Append(day, r)
        BY <2>1, <3>6 DEF RecordBaseline, Appended, TypesButDrift, Row
      <4> HIDE DEF r
      <4>2. day' \in Seq(Row)
        BY <2>1, <4>1, AppendedRows DEF TypesButDrift
      <4>3. /\ now' = now + 1 /\ job' = "none" /\ console' = 0
            /\ UNCHANGED <<legacy, callers, held, charged, upsets>>
        BY <3>6 DEF RecordBaseline
      <4>. QED
        BY <2>1, <4>2, <4>3 DEF TypesButDrift, callers
    <3>7. CASE Killed
      BY <2>1, <3>7 DEF Killed, TypesButDrift, ledger, callers
    <3>. QED
      BY <2>3, <3>1, <3>2, <3>3, <3>4, <3>5, <3>6, <3>7 DEF Maintenance
  <2>4. TypesButDrift'
    BY <1>2, <2>2, <2>3 DEF Next
  <2>5. drift' \in Nat
    <3>1. Shortfall' \in Int
      <4>1. /\ day' \in Seq(Row) /\ legacy' \in Seq(Row)
            /\ owed' \in [Callers -> 0..MaxCost] /\ charged' \in Nat
        BY <2>4, Constants DEF TypesButDrift
      <4>2. charged' - Total(owed') - AgentCost(day' \o legacy') \in Int
        BY <4>1, ShortfallType
      <4>. QED
        BY <4>2 DEF Shortfall, InFlight, RecordFiles
    <3>2. drift' = Max({drift, Shortfall'}) /\ drift \in Nat
      BY <1>2 DEF Next, TypeOK
    <3>. QED
      BY <3>1, <3>2, MaxOfTwo
  <2>. QED
    BY <2>4, <2>5 DEF TypeOK, TypesButDrift
<1>. QED
  BY <1>1, <1>2

\* The types of the ledger (log_usage's rows, the callers' positions, the
\* command in progress) hold in every reachable state.
THEOREM LedgerTyping == Spec => []TypeOK
BY TypeInit, TypeStep, PTL DEF Spec

------------------------------------------------------------------------------
(* No row is later than the latest timestamp taken, so a row appended now   *)
(* is later than all of them.                                              *)

Stamped == UpTo(day, now) /\ UpTo(legacy, now) /\ UpTo(held, now)

LEMMA StampedInit == Init => Stamped
<1> SUFFICES ASSUME Init PROVE Stamped
  OBVIOUS
<1>1. ToSet(OldRows) \in SUBSET ToSet(OldRows)
  OBVIOUS
<1>2. \A r \in ToSet(OldRows) : r.ts <= Max({0} \cup {q.ts : q \in ToSet(OldRows)})
  BY <1>1, Constants, MaxOfRows
<1>3. UpTo(<<>>, now)
  BY DEF UpTo, ToSet
<1>. QED
  BY <1>2, <1>3 DEF Init, Stamped, UpTo

LEMMA StampedLater ==
  ASSUME NEW d \in Seq(Row), NEW n \in Nat, UpTo(d, n)
  PROVE  UpTo(d, n + 1)
<1>1. ASSUME NEW i \in 1..Len(d) PROVE d[i].ts <= n + 1
  BY RowAt DEF UpTo
<1>. QED
  BY <1>1 DEF UpTo, ToSet

\* An appended row takes the next timestamp.
LEMMA StampedAppend ==
  ASSUME NEW d \in Seq(Row), NEW r \in Row, NEW n \in Nat, UpTo(d, n), r.ts = n + 1
  PROVE  UpTo(Append(d, r), n + 1)
<1>1. ToSet(Append(d, r)) = ToSet(d) \cup {r}
  BY AppendedRows
<1>2. \A q \in ToSet(d) : q.ts <= n + 1
  BY StampedLater DEF UpTo
<1>. QED
  BY <1>1, <1>2 DEF UpTo

LEMMA StampedStep == TypeOK /\ Stamped /\ [Next]_vars => Stamped'
<1> SUFFICES ASSUME TypeOK, Stamped, [Next]_vars PROVE Stamped'
  OBVIOUS
<1>1. day \in Seq(Row) /\ legacy \in Seq(Row) /\ held \in Seq(Row) /\ now \in Nat
  BY DEF TypeOK
<1>2. UpTo(day, now) /\ UpTo(legacy, now) /\ UpTo(held, now)
  BY DEF Stamped
<1>3. UpTo(<<>>, now)
  BY DEF UpTo, ToSet
<1>4. CASE UNCHANGED <<day, legacy, now, held>>
  BY <1>2, <1>4 DEF Stamped
<1>5. ASSUME NEW c \in Callers, LogUsage(c) PROVE Stamped'
  <2> DEFINE r == [ts |-> now + 1, usd |-> owed[c], baseline |-> FALSE]
  <2>1. /\ r \in Row /\ r.ts = now + 1 /\ day' = Append(day, r)
        /\ now' = now + 1 /\ legacy' = legacy /\ held' = held
    BY <1>5, Constants DEF LogUsage, Appended, TypeOK, Row, operator
  <2> HIDE DEF r
  <2>. QED
    BY <1>1, <1>2, <2>1, StampedAppend, StampedLater DEF Stamped
<1>6. CASE RecordBaseline
  <2> DEFINE r == [ts |-> now + 1, usd |-> console, baseline |-> TRUE]
  <2>1. /\ r \in Row /\ r.ts = now + 1 /\ day' = Append(day, r)
        /\ now' = now + 1 /\ legacy' = legacy /\ held' = held
    BY <1>6 DEF RecordBaseline, Appended, TypeOK, Row
  <2> HIDE DEF r
  <2>. QED
    BY <1>1, <1>2, <2>1, StampedAppend, StampedLater DEF Stamped
<1>7. CASE RepriceReads \/ RepriceReplaces \/ MigrateArchives \/ Killed
  BY <1>2, <1>3, <1>7
     DEF RepriceReads, RepriceReplaces, MigrateArchives, Killed, Stamped, ledger
<1>8. CASE MigrateSplits
  <2>1. day' = day \o legacy /\ now' = now /\ legacy' = legacy /\ held' = held
    BY <1>8 DEF MigrateSplits
  <2>2. UpTo(day \o legacy, now)
    BY <1>1, <1>2, ToSetConcat DEF UpTo
  <2>. QED
    BY <1>2, <2>1, <2>2 DEF Stamped
<1>9. CASE ReadConsole
  BY <1>4, <1>9 DEF ReadConsole, ledger
<1>10. ASSUME NEW c \in Callers, CallerStep(c), ~LogUsage(c) PROVE Stamped'
  BY <1>4, <1>10
     DEF CallerStep, ReadDays, CheckBudget, Call, CallFails, LogFails, ledger, operator
<1>11. CASE UNCHANGED vars
  BY <1>4, <1>11 DEF vars, ledger, operator
<1>. QED
  BY <1>5, <1>6, <1>7, <1>8, <1>9, <1>10, <1>11 DEF Next, Maintenance

LEMMA LedgerStamped == Spec => [](TypeOK /\ Stamped)
BY TypeInit, TypeStep, StampedInit, StampedStep, PTL DEF Spec

\* record_baseline: agent_cost then gives the operator's figure, whatever
\* the ledger held (no row is as late, so the baseline covers every call).
THEOREM LedgerReconciles == Spec => BaselineReconciles
<1>1. TypeOK /\ Stamped /\ RecordBaseline => AgentCost(RecordFiles)' = console
  <2> SUFFICES ASSUME TypeOK, Stamped, RecordBaseline
               PROVE  AgentCost(RecordFiles)' = console
    OBVIOUS
  <2>1. day \in Seq(Row) /\ legacy \in Seq(Row) /\ now \in Nat /\ console \in Nat
    BY DEF TypeOK
  <2>2. UpTo(day \o legacy, now)
    BY <2>1, ToSetConcat DEF UpTo, Stamped
  <2>3. /\ day' = Append(day, [ts |-> now + 1, usd |-> console, baseline |-> TRUE])
        /\ legacy' = legacy
    BY DEF RecordBaseline, Appended
  <2>4. AgentCost(day' \o legacy') = console
    BY <2>1, <2>2, <2>3, NewestBaseline
  <2>. QED
    BY <2>4 DEF RecordFiles
<1>. QED
  BY <1>1, LedgerStamped, PTL DEF Spec, BaselineReconciles

------------------------------------------------------------------------------
(* What makes the ledger drift. *)

LEMMA OwedChanges ==
  ASSUME NEW u \in [Callers -> 0..MaxCost], NEW c \in Callers, NEW x \in Nat
  PROVE  Total([u EXCEPT ![c] = x]) = Total(u) - u[c] + x
<1>1. u \in Seq(Nat) /\ c \in 1..Len(u)
  BY OwedIsSeq DEF Callers
<1>. QED
  BY <1>1, TotalExcept

\* No step of a caller makes the ledger fall short of the charges by more
\* or less, except a failed log_usage, and that by the cost of its call.
THEOREM LedgerDrift == Spec => OnlyFaultsDrift
<1> DEFINE Kept == \/ Shortfall' = Shortfall
                   \/ upsets' # upsets /\ \E c \in Callers : Shortfall' = Shortfall + owed[c]
<1>1. TypeOK /\ Stamped /\ [Next]_vars /\ ~Maintenance /\ charged' < Ceiling => Kept
  <2> SUFFICES ASSUME TypeOK, Stamped, [Next]_vars, ~Maintenance, charged' < Ceiling
               PROVE  Kept
    OBVIOUS
  <2>1. /\ day \in Seq(Row) /\ legacy \in Seq(Row) /\ now \in Nat /\ charged \in Nat
        /\ owed \in [Callers -> 0..MaxCost]
    BY Constants DEF TypeOK
  <2>2. UpTo(day \o legacy, now)
    BY <2>1, ToSetConcat DEF UpTo, Stamped
  <2>3. AgentCost(day \o legacy) \in Nat /\ Total(owed) \in Nat
    BY <2>1, ShortfallType
  <2>4. CASE UNCHANGED <<day, legacy, owed, charged>>
    BY <2>4 DEF Shortfall, InFlight, RecordFiles
  <2>5. ASSUME NEW c \in Callers, CallerStep(c) PROVE Kept
    <3>1. CASE ReadDays(c) \/ CheckBudget(c) \/ CallFails(c)
      BY <2>4, <3>1 DEF ReadDays, CheckBudget, CallFails, ledger
    <3>2. CASE Call(c)
      <4>1. PICK cost \in 1..MaxCost : /\ owed' = [owed EXCEPT ![c] = cost]
                                       /\ charged' = Min({charged + cost, Ceiling})
        BY <3>2 DEF Call
      <4>2. charged' = charged + cost
        <5>1. charged + cost \in Int /\ Ceiling \in Int
          BY <2>1, Constants
        <5>2. charged' \in {charged + cost, Ceiling}
          BY <4>1, <5>1, MinOfTwo
        <5>. QED
          BY <5>1, <5>2
      <4>3. owed[c] = 0
        <5>1. pc[c] = "call" /\ (owed[c] > 0 <=> pc[c] = "log")
          BY <3>2 DEF Call, At, TypeOK
        <5>2. owed[c] \in Nat
          BY <2>1, Constants
        <5>3. ~(owed[c] > 0)
          BY <5>1
        <5>. QED
          BY <5>2, <5>3
      <4>4. Total(owed') = Total(owed) - owed[c] + cost
        <5>1. cost \in Nat /\ owed \in [Callers -> 0..MaxCost]
          BY <2>1, Constants
        <5>. QED
          BY <4>1, <5>1, OwedChanges
      <4>5. day' = day /\ legacy' = legacy
        BY <3>2 DEF Call, ledger
      <4>. QED
        BY <2>1, <2>3, <4>2, <4>3, <4>4, <4>5 DEF Shortfall, InFlight, RecordFiles
    <3>3. CASE LogUsage(c)
      <4>1. owed[c] \in Nat
        BY <2>1, Constants
      <4>2. /\ day' = Append(day, [ts |-> now + 1, usd |-> owed[c], baseline |-> FALSE])
            /\ legacy' = legacy /\ charged' = charged
            /\ owed' = [owed EXCEPT ![c] = 0]
        BY <3>3 DEF LogUsage, Appended
      <4>3. AgentCost(day' \o legacy') = AgentCost(day \o legacy) + owed[c]
        BY <2>1, <2>2, <4>1, <4>2, NewestCall
      <4>4. Total(owed') = Total(owed) - owed[c] + 0
        BY <2>1, <4>2, OwedChanges
      <4>. QED
        BY <2>1, <2>3, <4>1, <4>2, <4>3, <4>4 DEF Shortfall, InFlight, RecordFiles
    <3>4. CASE LogFails(c)
      <4>1. /\ day' = day /\ legacy' = legacy /\ charged' = charged
            /\ owed' = [owed EXCEPT ![c] = 0] /\ upsets' = upsets + 1
        BY <3>4 DEF LogFails, Upset, ledger
      <4>2. owed[c] \in Nat /\ upsets \in Nat
        BY <2>1, Constants DEF TypeOK
      <4>3. Total(owed') = Total(owed) - owed[c] + 0
        BY <2>1, <4>1, OwedChanges
      <4>4. Shortfall' = Shortfall + owed[c]
        BY <2>1, <2>3, <4>1, <4>2, <4>3 DEF Shortfall, InFlight, RecordFiles
      <4>. QED
        BY <4>1, <4>2, <4>4
    <3>. QED
      BY <2>5, <3>1, <3>2, <3>3, <3>4 DEF CallerStep
  <2>6. CASE UNCHANGED vars
    BY <2>4, <2>6 DEF vars, ledger, callers
  <2>. QED
    BY <2>5, <2>6 DEF Next
<1>. QED
  BY <1>1, LedgerStamped, PTL DEF Spec, OnlyFaultsDrift

------------------------------------------------------------------------------
(* By how much spending passes the cap.  A caller is armed once nothing    *)
(* stands between it and its next call, and loose once migrate could arm   *)
(* it, by taking away the legacy rows it has not read yet.  What was       *)
(* charged, with the most that armed callers may yet be charged, is the    *)
(* invariant: arming happens on a fresh reading of the day files, when the *)
(* charges are what that reading says, what is in flight and the drift.    *)

WouldPass(rows) == AgentCost(rows) + Reserve < Cap

Armed(c) ==
  \/ pc[c] = "call"
  \/ pc[c] = "checking" /\ WouldPass(seen[c] \o legacy)

Loose(c) ==
  \/ Armed(c)
  \/ pc[c] = "checking" /\ WouldPass(seen[c])

ArmedCost == [c \in Callers |-> IF Armed(c) THEN MaxCost ELSE 0]
LooseCost == [c \in Callers |-> IF Loose(c) THEN MaxCost ELSE 0]

Limit == Max({Cap - Reserve, AgentCost(OldRows) + 1}) + Processes * MaxCost

Covered ==
  /\ legacy = OldRows \/ legacy = <<>>
  /\ Shortfall <= drift
  /\ legacy = OldRows => charged + Total(ArmedCost) < Limit + drift
  /\ charged + Total(LooseCost) < Limit + drift + AgentCost(OldRows)

LEMMA LimitIs ==
  /\ Limit \in Int
  /\ Cap - Reserve + Processes * MaxCost <= Limit
  /\ AgentCost(OldRows) + Processes * MaxCost < Limit
  /\ Processes * MaxCost \in Nat
<1>1. Processes * MaxCost \in Nat /\ Cap - Reserve \in Int /\ AgentCost(OldRows) + 1 \in Int
  BY Constants
<1> DEFINE m == Max({Cap - Reserve, AgentCost(OldRows) + 1})
<1>2. m \in Int /\ m >= Cap - Reserve /\ m >= AgentCost(OldRows) + 1
  BY <1>1, MaxOfTwo
<1> HIDE DEF m
<1>3. Limit = m + Processes * MaxCost
  BY DEF Limit, m
<1>. QED
  BY <1>1, <1>2, <1>3, Constants

LEMMA CoverType ==
  ASSUME NEW v \in [Callers -> {0, MaxCost}]
  PROVE  v \in Seq(Nat) /\ Len(v) = Processes /\ Total(v) \in Nat
<1>1. v \in Seq(Nat) /\ Len(v) = Processes
  BY Constants DEF Callers
<1>. QED
  BY <1>1, TotalType

LEMMA CoverMono ==
  ASSUME NEW v \in [Callers -> {0, MaxCost}], NEW w \in [Callers -> {0, MaxCost}],
         \A i \in Callers : w[i] = MaxCost => v[i] = MaxCost
  PROVE  Total(w) <= Total(v)
<1>1. \A i \in 1..Len(w) : w[i] <= v[i]
  BY CoverType, Constants DEF Callers
<1>. QED
  BY <1>1, CoverType, TotalMono

\* A caller owes for a call or may yet make one, not both.
LEMMA Exposure ==
  ASSUME NEW u \in [Callers -> 0..MaxCost], NEW v \in [Callers -> {0, MaxCost}],
         \A i \in Callers : u[i] = 0 \/ v[i] = 0
  PROVE  Total(u) + Total(v) <= Processes * MaxCost
<1> DEFINE w == [i \in Callers |-> u[i] + v[i]]
<1>1. w \in [Callers -> 0..MaxCost] /\ \A i \in Callers : w[i] = u[i] + v[i]
  BY Constants
<1> HIDE DEF w
<1>2. /\ u \in Seq(Nat) /\ Len(u) = Processes
      /\ w \in Seq(Nat) /\ Len(w) = Processes
      /\ v \in Seq(Nat) /\ Len(v) = Processes
  BY <1>1, OwedIsSeq, CoverType
<1>3. Total(w) = Total(u) + Total(v)
  <2>1. Len(v) = Len(u) /\ Len(w) = Len(u) /\ \A i \in 1..Len(u) : w[i] = u[i] + v[i]
    BY <1>1, <1>2 DEF Callers
  <2>. QED
    BY <1>2, <2>1, TotalPlus
<1>4. \A i \in 1..Len(w) : w[i] <= MaxCost
  BY <1>1, <1>2, Constants DEF Callers
<1>5. Total(w) <= Len(w) * MaxCost
  BY <1>2, <1>4, Constants, TotalBound
<1>. QED
  BY <1>2, <1>3, <1>5

LEMMA CoveredInit == Init => Covered
<1> SUFFICES ASSUME Init PROVE Covered
  OBVIOUS
<1>1. \A c \in Callers : ~Armed(c) /\ ~Loose(c)
  BY DEF Init, Armed, Loose
<1>2. ArmedCost = [c \in Callers |-> 0] /\ LooseCost = [c \in Callers |-> 0]
  BY <1>1 DEF ArmedCost, LooseCost
<1>3. Total(ArmedCost) = 0 /\ Total(LooseCost) = 0
  BY <1>2, ZeroTotal
<1>4. Total(owed) = 0
  BY ZeroTotal DEF Init
<1>5. day \o legacy = OldRows
  BY Constants DEF Init
<1>6. Shortfall = 0
  BY <1>4, <1>5, Constants DEF Shortfall, InFlight, RecordFiles, Init
<1>. QED
  BY <1>3, <1>6, LimitIs, Constants DEF Init, Covered

\* A step that charges nothing and arms nobody.
LEMMA CoveredQuiet ==
  ASSUME TypeOK, TypeOK', Covered, Shortfall' <= drift', drift <= drift',
         charged' = charged,
         legacy' = OldRows \/ legacy' = <<>>,
         legacy' = OldRows => legacy = OldRows /\ \A i \in Callers : Armed(i)' => Armed(i),
         \A i \in Callers : Loose(i)' => Loose(i)
  PROVE  Covered'
<1>1. /\ charged \in Int /\ drift \in Int /\ drift' \in Int
      /\ Limit \in Int /\ AgentCost(OldRows) \in Int
  BY LimitIs, Constants DEF TypeOK
<1>2. /\ ArmedCost \in [Callers -> {0, MaxCost}] /\ ArmedCost' \in [Callers -> {0, MaxCost}]
      /\ LooseCost \in [Callers -> {0, MaxCost}] /\ LooseCost' \in [Callers -> {0, MaxCost}]
  BY DEF ArmedCost, LooseCost
<1>3. Total(LooseCost') <= Total(LooseCost)
  <2>1. \A i \in Callers : LooseCost'[i] = MaxCost => LooseCost[i] = MaxCost
    BY DEF LooseCost
  <2>. QED
    BY <1>2, <2>1, CoverMono
<1>4. legacy' = OldRows => Total(ArmedCost') <= Total(ArmedCost)
  <2> SUFFICES ASSUME legacy' = OldRows PROVE Total(ArmedCost') <= Total(ArmedCost)
    OBVIOUS
  <2>1. \A i \in Callers : ArmedCost'[i] = MaxCost => ArmedCost[i] = MaxCost
    BY DEF ArmedCost
  <2>. QED
    BY <1>2, <2>1, CoverMono
<1>5. /\ Total(LooseCost) \in Nat /\ Total(LooseCost') \in Nat
      /\ Total(ArmedCost) \in Nat /\ Total(ArmedCost') \in Nat
  BY <1>2, CoverType
<1>6. legacy' = OldRows => charged' + Total(ArmedCost') < Limit + drift'
  <2> SUFFICES ASSUME legacy' = OldRows PROVE charged' + Total(ArmedCost') < Limit + drift'
    OBVIOUS
  <2>1. charged + Total(ArmedCost) < Limit + drift
    BY DEF Covered
  <2>2. Total(ArmedCost') <= Total(ArmedCost)
    BY <1>4
  <2>. QED
    BY <1>1, <1>5, <2>1, <2>2
<1>7. charged' + Total(LooseCost') < Limit + drift' + AgentCost(OldRows)
  <2>1. charged + Total(LooseCost) < Limit + drift + AgentCost(OldRows)
    BY DEF Covered
  <2>. QED
    BY <1>1, <1>3, <1>5, <2>1
<1>. QED
  BY <1>6, <1>7 DEF Covered, Limit

\* agent_cost reads the day files: a caller it arms was charged for nothing
\* that the reading, the calls in flight and the drift do not account for.
LEMMA CoveredReading ==
  ASSUME NEW c \in Callers, TypeOK, TypeOK', Covered, ReadDays(c),
         Shortfall' <= drift', drift <= drift'
  PROVE  Covered'
<1>1. /\ charged \in Nat /\ drift \in Nat /\ drift' \in Nat
      /\ day \in Seq(Row) /\ legacy \in Seq(Row) /\ owed \in [Callers -> 0..MaxCost]
  BY Constants DEF TypeOK
<1>2. /\ day' = day /\ legacy' = legacy /\ owed' = owed /\ charged' = charged
      /\ pc' = [pc EXCEPT ![c] = "checking"]
      /\ seen' = [seen EXCEPT ![c] = day]
      /\ pc \in [Callers -> {"check", "checking", "call", "log"}]
      /\ seen \in [Callers -> Seq(Row)]
  BY DEF ReadDays, At, ledger, TypeOK
<1>3. \A i \in Callers : i # c => (Armed(i)' => Armed(i)) /\ (Loose(i)' => Loose(i))
  BY <1>2 DEF Armed, Loose
<1>4. pc'[c] = "checking" /\ seen'[c] = day
  BY <1>2
<1>5. /\ Armed(c)' <=> WouldPass(day \o legacy)
      /\ Loose(c)' <=> WouldPass(day \o legacy) \/ WouldPass(day)
  BY <1>2, <1>4 DEF Armed, Loose, WouldPass
<1>6. /\ AgentCost(day) \in Nat /\ AgentCost(legacy) \in Nat
      /\ AgentCost(day \o legacy) \in Nat
      /\ AgentCost(day \o legacy) <= AgentCost(day) + AgentCost(legacy)
  BY <1>1, AgentCostType, AgentCostSubadditive, ToSetConcat
<1>7. AgentCost(legacy) <= AgentCost(OldRows)
  <2>1. CASE legacy = OldRows
    BY <1>6, <2>1
  <2>2. CASE legacy = <<>>
    BY <2>2, EmptyCost, Constants
  <2>. QED
    BY <2>1, <2>2 DEF Covered
<1>8. Total(owed) \in Nat /\ charged <= drift + Total(owed) + AgentCost(day \o legacy)
  <2>1. Total(owed) \in Nat
    BY <1>1, ShortfallType
  <2>2. charged - Total(owed) - AgentCost(day \o legacy) <= drift
    BY DEF Covered, Shortfall, InFlight, RecordFiles
  <2>. QED
    BY <1>1, <1>6, <2>1, <2>2
<1>9. /\ ArmedCost \in [Callers -> {0, MaxCost}] /\ ArmedCost' \in [Callers -> {0, MaxCost}]
      /\ LooseCost \in [Callers -> {0, MaxCost}] /\ LooseCost' \in [Callers -> {0, MaxCost}]
  BY DEF ArmedCost, LooseCost
<1>10. /\ Total(ArmedCost) \in Nat /\ Total(ArmedCost') \in Nat
       /\ Total(LooseCost) \in Nat /\ Total(LooseCost') \in Nat
  BY <1>9, CoverType
<1>11. /\ Total(owed) + Total(ArmedCost') <= Processes * MaxCost
       /\ Total(owed) + Total(LooseCost') <= Processes * MaxCost
  <2>1. \A i \in Callers : owed[i] > 0 => ~Armed(i)' /\ ~Loose(i)'
    BY <1>2 DEF TypeOK, Armed, Loose
  <2>2. \A i \in Callers : owed[i] = 0 \/ owed[i] > 0
    BY <1>1, Constants
  <2>3. \A i \in Callers : owed[i] = 0 \/ ArmedCost'[i] = 0
    BY <2>1, <2>2 DEF ArmedCost
  <2>4. \A i \in Callers : owed[i] = 0 \/ LooseCost'[i] = 0
    BY <2>1, <2>2 DEF LooseCost
  <2>5. Total(owed) + Total(ArmedCost') <= Processes * MaxCost
    BY <1>1, <1>9, <2>3, Exposure
  <2>6. Total(owed) + Total(LooseCost') <= Processes * MaxCost
    BY <1>1, <1>9, <2>4, Exposure
  <2>. QED
    BY <2>5, <2>6
<1>12. /\ Limit \in Int /\ Processes * MaxCost \in Nat
       /\ Cap - Reserve + Processes * MaxCost <= Limit
       /\ AgentCost(OldRows) \in Nat /\ Cap \in Nat /\ Reserve \in Nat
  BY LimitIs, Constants
<1> DEFINE most == Processes * MaxCost
<1> HIDE DEF most
<1>13. WouldPass(day \o legacy) => charged + Total(ArmedCost') < Limit + drift
  <2> SUFFICES ASSUME WouldPass(day \o legacy)
               PROVE  charged + Total(ArmedCost') < Limit + drift
    OBVIOUS
  <2>1. AgentCost(day \o legacy) + Reserve < Cap
    BY DEF WouldPass
  <2>2. /\ Total(owed) + Total(ArmedCost') <= most
        /\ most \in Nat /\ Cap - Reserve + most <= Limit
        /\ Limit \in Int /\ Cap \in Nat /\ Reserve \in Nat
        /\ AgentCost(OldRows) \in Nat
    BY <1>11, <1>12 DEF most
  <2> DEFINE A == AgentCost(day \o legacy)
             F == Total(owed)
             C == Total(ArmedCost')
  <2>3. /\ A \in Nat /\ F \in Nat /\ C \in Nat /\ charged \in Nat /\ drift \in Nat
        /\ charged <= drift + F + A
    BY <1>1, <1>6, <1>8, <1>10
  <2>4. A + Reserve < Cap /\ F + C <= most
    BY <2>1, <2>2
  <2> HIDE DEF A, F, C
  <2>5. charged + C < Limit + drift
    BY <2>2, <2>3, <2>4
  <2>. QED
    BY <2>5 DEF C
<1>14. ~WouldPass(day \o legacy) => Total(ArmedCost') <= Total(ArmedCost)
  <2> SUFFICES ASSUME ~WouldPass(day \o legacy)
               PROVE  Total(ArmedCost') <= Total(ArmedCost)
    OBVIOUS
  <2>1. \A i \in Callers : ArmedCost'[i] = MaxCost => ArmedCost[i] = MaxCost
    BY <1>3, <1>5 DEF ArmedCost
  <2>. QED
    BY <1>9, <2>1, CoverMono
<1>15. WouldPass(day \o legacy) \/ WouldPass(day)
         => charged + Total(LooseCost') < Limit + drift + AgentCost(OldRows)
  <2> SUFFICES ASSUME WouldPass(day \o legacy) \/ WouldPass(day)
               PROVE  charged + Total(LooseCost') < Limit + drift + AgentCost(OldRows)
    OBVIOUS
  <2>1. AgentCost(day \o legacy) + Reserve < Cap + AgentCost(OldRows)
    BY <1>6, <1>7, <1>12 DEF WouldPass
  <2>2. /\ Total(owed) + Total(LooseCost') <= most
        /\ most \in Nat /\ Cap - Reserve + most <= Limit
        /\ Limit \in Int /\ Cap \in Nat /\ Reserve \in Nat
        /\ AgentCost(OldRows) \in Nat
    BY <1>11, <1>12 DEF most
  <2> DEFINE A == AgentCost(day \o legacy)
             F == Total(owed)
             C == Total(LooseCost')
             M == AgentCost(OldRows)
  <2>3. /\ A \in Nat /\ F \in Nat /\ C \in Nat /\ charged \in Nat /\ drift \in Nat
        /\ charged <= drift + F + A
    BY <1>1, <1>6, <1>8, <1>10
  <2>4. A + Reserve < Cap + M /\ F + C <= most /\ M \in Nat
    BY <2>1, <2>2
  <2> HIDE DEF A, F, C, M
  <2>5. charged + C < Limit + drift + M
    BY <2>2, <2>3, <2>4
  <2>. QED
    BY <2>5 DEF C, M
<1>16. ~WouldPass(day \o legacy) /\ ~WouldPass(day) => Total(LooseCost') <= Total(LooseCost)
  <2> SUFFICES ASSUME ~WouldPass(day \o legacy), ~WouldPass(day)
               PROVE  Total(LooseCost') <= Total(LooseCost)
    OBVIOUS
  <2>1. \A i \in Callers : LooseCost'[i] = MaxCost => LooseCost[i] = MaxCost
    BY <1>3, <1>5 DEF LooseCost
  <2>. QED
    BY <1>9, <2>1, CoverMono
<1>17. legacy' = OldRows => charged' + Total(ArmedCost') < Limit + drift'
  <2> SUFFICES ASSUME legacy = OldRows PROVE charged + Total(ArmedCost') < Limit + drift'
    BY <1>2
  <2>1. charged + Total(ArmedCost) < Limit + drift
    BY DEF Covered
  <2>2. /\ Limit \in Int /\ charged \in Nat /\ drift \in Nat /\ drift' \in Nat
        /\ Total(ArmedCost) \in Nat /\ Total(ArmedCost') \in Nat
    BY <1>1, <1>10, <1>12
  <2>3. CASE WouldPass(day \o legacy)
    BY <1>13, <2>2, <2>3
  <2>4. CASE ~WouldPass(day \o legacy)
    <3>1. Total(ArmedCost') <= Total(ArmedCost)
      BY <1>14, <2>4
    <3>. QED
      BY <2>1, <2>2, <3>1
  <2>. QED
    BY <2>3, <2>4
<1>18. charged' + Total(LooseCost') < Limit + drift' + AgentCost(OldRows)
  <2>1. charged + Total(LooseCost) < Limit + drift + AgentCost(OldRows)
    BY DEF Covered
  <2>2. /\ Limit \in Int /\ AgentCost(OldRows) \in Nat
        /\ charged' = charged /\ charged \in Nat /\ drift \in Nat /\ drift' \in Nat
        /\ Total(LooseCost) \in Nat /\ Total(LooseCost') \in Nat
    BY <1>1, <1>2, <1>10, <1>12
  <2>3. CASE WouldPass(day \o legacy) \/ WouldPass(day)
    BY <1>15, <2>2, <2>3
  <2>4. CASE ~WouldPass(day \o legacy) /\ ~WouldPass(day)
    <3>1. Total(LooseCost') <= Total(LooseCost)
      BY <1>16, <2>4
    <3>. QED
      BY <2>1, <2>2, <3>1
  <2>. QED
    BY <2>3, <2>4
<1>. QED
  BY <1>2, <1>17, <1>18 DEF Covered, Limit

\* A call: what its caller might be charged becomes what it was charged.
LEMMA CoveredCall ==
  ASSUME NEW c \in Callers, TypeOK, TypeOK', Covered, Call(c),
         Shortfall' <= drift', drift <= drift'
  PROVE  Covered'
<1>1. /\ charged \in Nat /\ drift \in Nat /\ drift' \in Nat /\ charged' \in Nat
      /\ pc \in [Callers -> {"check", "checking", "call", "log"}]
  BY Constants DEF TypeOK
<1>2. /\ legacy' = legacy /\ seen' = seen /\ pc[c] = "call"
      /\ pc' = [pc EXCEPT ![c] = "log"]
  BY DEF Call, At, ledger
<1>3. charged' <= charged + MaxCost
  <2>1. PICK cost \in 1..MaxCost : charged' = Min({charged + cost, Ceiling})
    BY DEF Call
  <2>2. charged + cost \in Int /\ Ceiling \in Int
    BY <1>1, Constants
  <2>3. charged' <= charged + cost
    BY <2>1, <2>2, MinOfTwo
  <2>. QED
    BY <1>1, <2>2, <2>3, Constants
<1>4. /\ \A i \in Callers : i # c => (Armed(i)' <=> Armed(i)) /\ (Loose(i)' <=> Loose(i))
      /\ Armed(c) /\ Loose(c) /\ ~Armed(c)' /\ ~Loose(c)'
  <2>1. pc'[c] = "log" /\ \A i \in Callers : i # c => pc'[i] = pc[i]
    BY <1>1, <1>2
  <2>2. Armed(c) /\ Loose(c) /\ ~Armed(c)' /\ ~Loose(c)'
    BY <1>2, <2>1 DEF Armed, Loose
  <2>3. ASSUME NEW i \in Callers, i # c
        PROVE  (Armed(i)' <=> Armed(i)) /\ (Loose(i)' <=> Loose(i))
    BY <1>2, <2>1, <2>3 DEF Armed, Loose
  <2>. QED
    BY <2>2, <2>3
<1>5. /\ ArmedCost \in [Callers -> {0, MaxCost}] /\ LooseCost \in [Callers -> {0, MaxCost}]
      /\ ArmedCost[c] = MaxCost /\ LooseCost[c] = MaxCost
      /\ ArmedCost' = [ArmedCost EXCEPT ![c] = 0]
      /\ LooseCost' = [LooseCost EXCEPT ![c] = 0]
  BY <1>4 DEF ArmedCost, LooseCost
<1>6. /\ Total(ArmedCost') = Total(ArmedCost) - MaxCost + 0
      /\ Total(LooseCost') = Total(LooseCost) - MaxCost + 0
  <2>1. ArmedCost \in [Callers -> 0..MaxCost] /\ LooseCost \in [Callers -> 0..MaxCost]
    BY <1>5, Constants
  <2> DEFINE a == ArmedCost
             l == LooseCost
  <2>2. /\ a \in [Callers -> 0..MaxCost] /\ l \in [Callers -> 0..MaxCost]
        /\ a[c] = MaxCost /\ l[c] = MaxCost
    BY <1>5, <2>1
  <2> HIDE DEF a, l
  <2>3. 0 \in Nat
    OBVIOUS
  <2>4. Total([a EXCEPT ![c] = 0]) = Total(a) - a[c] + 0
    BY <2>2, <2>3, OwedChanges
  <2>5. Total([l EXCEPT ![c] = 0]) = Total(l) - l[c] + 0
    BY <2>2, <2>3, OwedChanges
  <2>. QED
    BY <1>5, <2>2, <2>4, <2>5 DEF a, l
<1>7. Total(ArmedCost) \in Nat /\ Total(LooseCost) \in Nat
  BY <1>5, CoverType
<1>8. Limit \in Int /\ AgentCost(OldRows) \in Nat /\ MaxCost \in Nat
  BY LimitIs, Constants
<1>9. legacy' = OldRows => charged' + Total(ArmedCost') < Limit + drift'
  <2> SUFFICES ASSUME legacy = OldRows PROVE charged' + Total(ArmedCost') < Limit + drift'
    BY <1>2
  <2>1. charged + Total(ArmedCost) < Limit + drift
    BY DEF Covered
  <2>2. Total(ArmedCost') = Total(ArmedCost) - MaxCost + 0
    BY <1>6
  <2>. QED
    BY <1>1, <1>3, <1>7, <1>8, <2>1, <2>2
<1>10. charged' + Total(LooseCost') < Limit + drift' + AgentCost(OldRows)
  <2>1. charged + Total(LooseCost) < Limit + drift + AgentCost(OldRows)
    BY DEF Covered
  <2>2. Total(LooseCost') = Total(LooseCost) - MaxCost + 0
    BY <1>6
  <2>. QED
    BY <1>1, <1>3, <1>7, <1>8, <2>1, <2>2
<1>. QED
  BY <1>2, <1>9, <1>10 DEF Covered, Limit

LEMMA CoveredStep == TypeOK /\ TypeOK' /\ Covered /\ [Next]_vars => Covered'
<1> SUFFICES ASSUME TypeOK, TypeOK', Covered, [Next]_vars PROVE Covered'
  OBVIOUS
<1>1. Shortfall' <= drift' /\ drift <= drift'
  <2>1. CASE UNCHANGED vars
    <3>1. Shortfall' = Shortfall /\ drift' = drift
      BY <2>1 DEF vars, ledger, callers, Shortfall, InFlight, RecordFiles
    <3>. QED
      BY <3>1 DEF Covered, TypeOK
  <2>2. CASE Next
    <3>1. /\ day' \in Seq(Row) /\ legacy' \in Seq(Row)
          /\ owed' \in [Callers -> 0..MaxCost] /\ charged' \in Nat
      BY Constants DEF TypeOK
    <3>2. charged' - Total(owed') - AgentCost(day' \o legacy') \in Int
      BY <3>1, ShortfallType
    <3>3. Shortfall' \in Int
      BY <3>2 DEF Shortfall, InFlight, RecordFiles
    <3>4. drift' = Max({drift, Shortfall'}) /\ drift \in Int
      BY <2>2 DEF Next, TypeOK
    <3>. QED
      BY <3>3, <3>4, MaxOfTwo
  <2>. QED
    BY <2>1, <2>2
<1>2. legacy = OldRows \/ legacy = <<>>
  BY DEF Covered
<1>3. CASE UNCHANGED <<legacy, callers, charged>>
  <2>1. \A i \in Callers : (Armed(i)' => Armed(i)) /\ (Loose(i)' => Loose(i))
    BY <1>3 DEF callers, Armed, Loose
  <2>. QED
    BY <1>1, <1>2, <1>3, <2>1, CoveredQuiet
<1>4. ASSUME NEW c \in Callers, CallerStep(c) PROVE Covered'
  <2>1. pc \in [Callers -> {"check", "checking", "call", "log"}] /\ seen \in [Callers -> Seq(Row)]
    BY DEF TypeOK
  <2>2. CASE ReadDays(c)
    BY <1>1, <2>2, CoveredReading
  <2>3. CASE CheckBudget(c)
    <3>1. /\ pc[c] = "checking" /\ legacy' = legacy /\ charged' = charged
          /\ pc' = [pc EXCEPT ![c] = IF WouldPass(seen[c] \o legacy)
                                       THEN "call" ELSE "check"]
          /\ seen' = [seen EXCEPT ![c] = <<>>]
      BY <2>3 DEF CheckBudget, WithinBudget, At, ledger, WouldPass
    <3>2. \A i \in Callers : i # c => (Armed(i)' => Armed(i)) /\ (Loose(i)' => Loose(i))
      BY <2>1, <3>1 DEF Armed, Loose
    <3>3. (Armed(c)' => Armed(c)) /\ (Loose(c)' => Loose(c))
      <4>1. CASE WouldPass(seen[c] \o legacy)
        BY <3>1, <4>1 DEF Armed, Loose
      <4>2. CASE ~WouldPass(seen[c] \o legacy)
        <5>1. pc'[c] = "check"
          BY <2>1, <3>1, <4>2
        <5>. QED
          BY <5>1 DEF Armed, Loose
      <4>. QED
        BY <4>1, <4>2
    <3>. QED
      BY <1>1, <1>2, <3>1, <3>2, <3>3, CoveredQuiet
  <2>4. CASE Call(c)
    BY <1>1, <2>4, CoveredCall
  <2>5. CASE CallFails(c) \/ LogUsage(c) \/ LogFails(c)
    <3>1. /\ legacy' = legacy /\ charged' = charged /\ seen' = seen
          /\ pc' = [pc EXCEPT ![c] = "check"]
      BY <2>5 DEF CallFails, LogUsage, LogFails, At, ledger
    <3>2. \A i \in Callers : (Armed(i)' => Armed(i)) /\ (Loose(i)' => Loose(i))
      BY <2>1, <3>1 DEF Armed, Loose
    <3>. QED
      BY <1>1, <1>2, <3>1, <3>2, CoveredQuiet
  <2>. QED
    BY <1>4, <2>2, <2>3, <2>4, <2>5 DEF CallerStep
<1>5. CASE MigrateArchives
  <2>1. legacy' = <<>> /\ pc' = pc /\ seen' = seen /\ charged' = charged
    BY <1>5 DEF MigrateArchives, callers
  <2>2. ASSUME NEW i \in Callers PROVE Loose(i)' => Loose(i)
    <3>1. seen[i] \o <<>> = seen[i]
      BY DEF TypeOK
    <3>2. WouldPass(seen'[i] \o legacy') => WouldPass(seen[i])
      BY <2>1, <3>1 DEF WouldPass
    <3>. QED
      BY <2>1, <3>2 DEF Armed, Loose
  <2>3. legacy' = OldRows => legacy = OldRows /\ \A i \in Callers : Armed(i)' => Armed(i)
    BY <1>2, <2>1 DEF Armed
  <2>. QED
    BY <1>1, <2>1, <2>2, <2>3, CoveredQuiet
<1>6. CASE Maintenance /\ ~MigrateArchives
  BY <1>3, <1>6
     DEF Maintenance, RepriceReads, RepriceReplaces, MigrateSplits, ReadConsole,
         RecordBaseline, Killed, ledger
<1>7. CASE UNCHANGED vars
  BY <1>3, <1>7 DEF vars, ledger
<1>. QED
  BY <1>4, <1>5, <1>6, <1>7 DEF Next

\* Spending passes Cap - Reserve by less than one call per process, the
\* drift and what migrate moved, with any number of processes: check_budget,
\* the call and log_usage interleave freely and migrate runs at any point.
THEOREM LedgerOvershoot == Spec => []OvershootBounded
<1>1. TypeOK /\ Covered => OvershootBounded
  <2> SUFFICES ASSUME TypeOK, Covered PROVE OvershootBounded
    OBVIOUS
  <2>1. /\ ArmedCost \in [Callers -> {0, MaxCost}]
        /\ LooseCost \in [Callers -> {0, MaxCost}]
    BY DEF ArmedCost, LooseCost
  <2>2. Total(ArmedCost) \in Nat /\ Total(LooseCost) \in Nat
    BY <2>1, CoverType
  <2>3. /\ charged \in Nat /\ drift \in Nat /\ Limit \in Int
        /\ AgentCost(OldRows) \in Nat
    BY LimitIs, Constants DEF TypeOK
  <2>4. charged < Limit + drift + Migrated
    <3>1. CASE legacy = OldRows
      BY <2>2, <2>3, <3>1 DEF Covered, Migrated
    <3>2. CASE legacy # OldRows
      BY <2>2, <2>3, <3>2 DEF Covered, Migrated
    <3>. QED
      BY <3>1, <3>2
  <2>. QED
    BY <2>4 DEF OvershootBounded, Limit
<1>. QED
  BY <1>1, TypeInit, TypeStep, CoveredInit, CoveredStep, PTL DEF Spec
=============================================================================
