-------------------------- MODULE Composition_proof -------------------------
(***************************************************************************)
(* What composition makes of a spec's actions, for every spec of the       *)
(* engine's shape and every meaning of the expressions: which targets      *)
(* there are, what the wires and an edge keep, what the edge writes, and   *)
(* what the steps of an action are worth when they are composed.           *)
(***************************************************************************)
EXTENDS Composition, SequenceTheorems, FiniteSetTheorems, TLAPS

-----------------------------------------------------------------------------
(* Sequences: joined, filtered, without repetition *)

\* The operators that the folds take their steps with.
Join(none, x, y)     == x \o y
New(none, seen, t)   == AddNew(seen, t)
First(none, seen, u) == KeepFirst(seen, u)
Final(none, seen, u) == KeepLast(seen, u)
WireOne(s, e, u)     == Wire(s, e, u)
Again(s, e, none)    == Pass(s, e)
Put(none, mem, w)    == Write(mem, w)

Joining   == INSTANCE Recursion WITH Step <- Join
Renewing  == INSTANCE Recursion WITH Step <- New
Framing   == INSTANCE Recursion WITH Step <- First
Merging   == INSTANCE Recursion WITH Step <- Final
Running   == INSTANCE Recursion WITH Step <- RunUpdate
Passing   == INSTANCE Recursion WITH Step <- WireOne
Settling  == INSTANCE Recursion WITH Step <- Again
Writing   == INSTANCE Recursion WITH Step <- Put

LEMMA SeqIs ==
  ASSUME NEW S, NEW s, s \in Seq(S)
  PROVE  /\ Len(s) \in Nat /\ DOMAIN s = 1..Len(s)
         /\ \A i \in 1..Len(s) : s[i] \in S
OBVIOUS

LEMMA JoinedRange ==
  ASSUME NEW S, NEW a, NEW b, a \in Seq(S), b \in Seq(S)
  PROVE  \A x : x \in Range(a \o b) <=> x \in Range(a) \/ x \in Range(b)
<1>1. /\ Len(a \o b) = Len(a) + Len(b) /\ Len(a) \in Nat /\ Len(b) \in Nat
      /\ DOMAIN (a \o b) = 1..(Len(a) + Len(b))
      /\ DOMAIN a = 1..Len(a) /\ DOMAIN b = 1..Len(b)
      /\ \A i \in 1..Len(a) : (a \o b)[i] = a[i] /\ i \in 1..(Len(a) + Len(b))
      /\ \A i \in 1..Len(b) : /\ (a \o b)[Len(a) + i] = b[i]
                              /\ Len(a) + i \in 1..(Len(a) + Len(b))
  OBVIOUS
<1> SUFFICES ASSUME NEW x
             PROVE  x \in Range(a \o b) <=> x \in Range(a) \/ x \in Range(b)
  OBVIOUS
<1>2. ASSUME x \in Range(a \o b)  PROVE x \in Range(a) \/ x \in Range(b)
  <2>1. PICK i \in 1..(Len(a) + Len(b)) : x = (a \o b)[i]
    BY <1>1, <1>2 DEF Range
  <2>2. CASE i <= Len(a)
    <3>1. i \in 1..Len(a)  BY <1>1, <2>2
    <3> QED  BY <1>1, <2>1, <3>1 DEF Range
  <2>3. CASE i > Len(a)
    <3>1. i - Len(a) \in 1..Len(b) /\ Len(a) + (i - Len(a)) = i
      BY <1>1, <2>3
    <3>2. x = b[i - Len(a)]  BY <1>1, <2>1, <3>1
    <3> QED  BY <1>1, <3>1, <3>2 DEF Range
  <2> QED  BY <1>1, <2>2, <2>3
<1>3. ASSUME x \in Range(a)  PROVE x \in Range(a \o b)
  <2>1. PICK i \in 1..Len(a) : x = a[i]  BY <1>1, <1>3 DEF Range
  <2> QED  BY <1>1, <2>1 DEF Range
<1>4. ASSUME x \in Range(b)  PROVE x \in Range(a \o b)
  <2>1. PICK i \in 1..Len(b) : x = b[i]  BY <1>1, <1>4 DEF Range
  <2>2. (a \o b)[Len(a) + i] = b[i] /\ Len(a) + i \in DOMAIN (a \o b)
    BY <1>1, <2>1
  <2> QED  BY <2>1, <2>2 DEF Range
<1> QED  BY <1>2, <1>3, <1>4

LEMMA JoinedExists ==
  ASSUME NEW ss, NEW b, NEW m \in Int, 1 <= m
  PROVE  \E h : h = Joining!Body(h, ss, b, ss, 1, m)
BY Joining!RunExists

LEMMA FlattenRuns ==
  ASSUME NEW ss, Len(ss) \in Nat, Len(ss) # 0
  PROVE  \E g : /\ FlattenSeq(ss) = g[Len(ss)]
                /\ g[1] = ss[1]
                /\ \A i \in 1..Len(ss) : i # 1 => g[i] = g[i-1] \o ss[i]
<1> DEFINE m == Len(ss)
           b == ss[1]
           flat == CHOOSE flat : flat = [i \in 1..m |-> IF i = 1 THEN ss[i] ELSE flat[i-1] \o ss[i]]
<1>1. 1 \in Int /\ m \in Int /\ 1 <= m /\ 1 \in 1..m  OBVIOUS
<1>2. FlattenSeq(ss) = flat[m]  BY DEF FlattenSeq
<1> HIDE DEF b, flat, m
<1>3. \E h : h = Joining!Body(h, ss, b, ss, 1, m)
  <2>1. ASSUME NEW k \in Int, 1 <= k  PROVE \E h : h = Joining!Body(h, ss, b, ss, 1, k)
    BY <2>1, JoinedExists
  <2> QED  BY <1>1, <2>1
<1>4. \E h : h = [i \in 1..m |-> IF i = 1 THEN b ELSE h[i-1] \o ss[i]]
  BY <1>3 DEF Joining!Body, Join
<1>5. PICK h : h = [i \in 1..m |-> IF i = 1 THEN ss[i] ELSE h[i-1] \o ss[i]]
  BY <1>4 DEF b
<1>6. flat = [i \in 1..m |-> IF i = 1 THEN ss[i] ELSE flat[i-1] \o ss[i]]  BY <1>5 DEF flat
<1>7. flat[1] = ss[1] /\ \A i \in 1..m : i # 1 => flat[i] = flat[i-1] \o ss[i]
  BY <1>1, <1>6
<1> QED  BY <1>2, <1>7 DEF m

\* FlattenSeq has the elements of its members and no other.
LEMMA Flattened ==
  ASSUME NEW S, NEW ss, ss \in Seq(Seq(S))
  PROVE  /\ FlattenSeq(ss) \in Seq(S)
         /\ \A x : x \in Range(FlattenSeq(ss)) <=> \E i \in DOMAIN ss : x \in Range(ss[i])
<1> DEFINE m == Len(ss)
<1>1. m \in Nat /\ DOMAIN ss = 1..m /\ \A i \in 1..m : ss[i] \in Seq(S)
  OBVIOUS
<1>2. CASE m = 0
  <2>1. FlattenSeq(ss) = ss /\ DOMAIN ss = {} /\ ss = <<>>  BY <1>2 DEF FlattenSeq
  <2> QED  BY <2>1 DEF Range
<1>3. CASE m # 0
  <2>1. Len(ss) \in Nat /\ Len(ss) # 0  BY <1>3
  <2> HIDE DEF m
  <2>2. PICK g : /\ FlattenSeq(ss) = g[Len(ss)]
                 /\ g[1] = ss[1]
                 /\ \A i \in 1..Len(ss) : i # 1 => g[i] = g[i-1] \o ss[i]
    BY <2>1, FlattenRuns
  <2> DEFINE P(k) == /\ g[k] \in Seq(S)
                     /\ \A x : x \in Range(g[k]) <=> \E i \in 1..k : x \in Range(ss[i])
             T == {n \in Nat : n + 1 <= m => P(n + 1)}
  <2>3. g[1] = ss[1] /\ \A i \in 1..m : i # 1 => g[i] = g[i-1] \o ss[i]
    BY <2>2 DEF m
  <2>4. P(1)
    <3>1. 1..1 = {1} /\ 1 \in 1..m  BY <1>1, <1>3
    <3> QED  BY <1>1, <2>3, <3>1
  <2>5. ASSUME NEW k \in Nat, k # 0, k + 1 <= m, P(k)  PROVE P(k + 1)
    <3>1. /\ k + 1 \in 1..m /\ k + 1 # 1 /\ (k + 1) - 1 = k
          /\ 1..k+1 = (1..k) \cup {k+1}
      BY <1>1, <2>5
    <3>2. g[k+1] = g[k] \o ss[k+1] /\ ss[k+1] \in Seq(S)  BY <1>1, <2>3, <3>1
    <3>3. g[k+1] \in Seq(S)  BY <2>5, <3>2
    <3>4. \A x : x \in Range(g[k+1]) <=> x \in Range(g[k]) \/ x \in Range(ss[k+1])
      BY <2>5, <3>2, JoinedRange
    <3>5. \A x : x \in Range(g[k+1]) <=> \E i \in 1..k+1 : x \in Range(ss[i])
      BY <2>5, <3>1, <3>4
    <3> QED  BY <3>3, <3>5
  <2> HIDE DEF P
  <2>6. 0 \in T /\ T \in SUBSET Nat  BY <2>4
  <2>7. \A n \in T : n + 1 \in T
    <3> SUFFICES ASSUME NEW n \in T, (n + 1) + 1 <= m  PROVE P((n + 1) + 1)
      OBVIOUS
    <3>1. n + 1 \in Nat /\ n + 1 # 0 /\ n + 1 <= m  BY <1>1
    <3> QED  BY <2>5, <3>1
  <2> HIDE DEF T
  <2>8. T = Nat  BY <2>6, <2>7, Joining!SetInduction
  <2>9. m - 1 \in T /\ (m - 1) + 1 = m  BY <1>1, <1>3, <2>8
  <2>10. P(m)  BY <1>1, <2>9 DEF T
  <2> QED  BY <1>1, <2>2, <2>10 DEF P, m
<1> QED  BY <1>2, <1>3

\* The parts of a sequence of parts, in one.
LEMMA Parted ==
  ASSUME NEW S, NEW n \in Nat, NEW ss, ss = [i \in 1..n |-> ss[i]],
         \A i \in 1..n : ss[i] \in Seq(S)
  PROVE  ss \in Seq(Seq(S)) /\ DOMAIN ss = 1..n
OBVIOUS

LEMMA OnlyIs ==
  ASSUME NEW S, NEW s, s \in Seq(S), NEW I
  PROVE  /\ Only(s, I) \in Seq(S)
         /\ \A x : x \in Range(Only(s, I)) <=> \E i \in DOMAIN s : i \in I /\ x = s[i]
<1> DEFINE ss == [i \in DOMAIN s |-> IF i \in I THEN <<s[i]>> ELSE <<>>]
<1>1. Len(s) \in Nat /\ DOMAIN s = 1..Len(s) /\ \A i \in 1..Len(s) : s[i] \in S
  OBVIOUS
<1>2. ss = [i \in 1..Len(s) |-> ss[i]]  BY <1>1
<1>3. \A i \in 1..Len(s) : ss[i] \in Seq(S)  BY <1>1
<1>4. Only(s, I) = FlattenSeq(ss)  BY DEF Only
<1>5. \A i \in DOMAIN s : \A x : x \in Range(ss[i]) <=> i \in I /\ x = s[i]
  <2> SUFFICES ASSUME NEW i \in DOMAIN s, NEW x
               PROVE  x \in Range(ss[i]) <=> i \in I /\ x = s[i]
    OBVIOUS
  <2>1. CASE i \in I
    <3>1. ss[i] = <<s[i]>>  BY <2>1
    <3>2. DOMAIN <<s[i]>> = {1} /\ <<s[i]>>[1] = s[i]  OBVIOUS
    <3> QED  BY <2>1, <3>1, <3>2 DEF Range
  <2>2. CASE i \notin I
    <3>1. ss[i] = <<>> /\ DOMAIN <<>> = {}  BY <2>2
    <3> QED  BY <2>2, <3>1 DEF Range
  <2> QED  BY <2>1, <2>2
<1> HIDE DEF ss
<1>6. ss \in Seq(Seq(S)) /\ DOMAIN ss = 1..Len(s)  BY <1>1, <1>2, <1>3, Parted
<1> QED  BY <1>1, <1>4, <1>5, <1>6, Flattened

LEMMA AppendedRange ==
  ASSUME NEW S, NEW s \in Seq(S), NEW x \in S
  PROVE  /\ Append(s, x) \in Seq(S)
         /\ \A y : y \in Range(Append(s, x)) <=> y \in Range(s) \/ y = x
<1>1. /\ Append(s, x) \in Seq(S) /\ Len(s) \in Nat /\ DOMAIN s = 1..Len(s)
      /\ DOMAIN Append(s, x) = 1..(Len(s) + 1)
      /\ Append(s, x)[Len(s) + 1] = x /\ Len(s) + 1 \in 1..(Len(s) + 1)
      /\ \A i \in 1..Len(s) : Append(s, x)[i] = s[i] /\ i \in 1..(Len(s) + 1)
      /\ \A i \in 1..(Len(s) + 1) : i \in 1..Len(s) \/ i = Len(s) + 1
  BY AppendProperties
<1> QED  BY <1>1 DEF Range

\* One step of Distinct.
LEMMA AddedNew ==
  ASSUME NEW S, NEW s \in Seq(S), NEW x \in S
  PROVE  /\ AddNew(s, x) \in Seq(S)
         /\ \A y : y \in Range(AddNew(s, x)) <=> y \in Range(s) \/ y = x
BY AppendedRange DEF AddNew

LEMMA DistinctIs ==
  ASSUME NEW S, NEW ts, ts \in Seq(S)
  PROVE  /\ Distinct(ts) \in Seq(S)
         /\ \A x : x \in Range(Distinct(ts)) <=> x \in Range(ts)
<1>1. Len(ts) \in Nat /\ DOMAIN ts = 1..Len(ts) /\ \A i \in 1..Len(ts) : ts[i] \in S
  OBVIOUS
<1>2. Distinct(ts) = Renewing!Folded(ts, <<>>, ts)
  BY DEF Distinct, Renewing!Folded, New, FoldLeft, MapThenFoldSet, Max
<1>3. PICK f : Renewing!IsRun(f, ts, <<>>, ts) /\ Renewing!Folded(ts, <<>>, ts) = f[Len(ts)]
  BY <1>1, Renewing!FoldedRuns
<1>4. f[0] = <<>> /\ \A n \in 1..Len(ts) : f[n] = AddNew(f[n-1], ts[n])
  BY <1>3 DEF Renewing!IsRun, New
<1> DEFINE P(n) == /\ f[n] \in Seq(S)
                   /\ \A x : x \in Range(f[n]) <=> \E i \in 1..n : x = ts[i]
           T == {n \in 0..Len(ts) : P(n)}
<1>5. P(0)
  <2>1. 1..0 = {} /\ <<>> \in Seq(S) /\ Range(<<>>) = {}  BY DEF Range
  <2> QED  BY <1>4, <2>1
<1>6. ASSUME NEW n \in Nat, n < Len(ts), P(n)  PROVE P(n + 1)
  <2>1. n + 1 \in 1..Len(ts) /\ (n + 1) - 1 = n  BY <1>1, <1>6
  <2>0. 1..n+1 = (1..n) \cup {n+1}  BY <1>6
  <2>2. f[n+1] = AddNew(f[n], ts[n+1]) /\ ts[n+1] \in S  BY <1>1, <1>4, <2>1
  <2>3. /\ f[n+1] \in Seq(S)
        /\ \A y : y \in Range(f[n+1]) <=> y \in Range(f[n]) \/ y = ts[n+1]
    BY <1>6, <2>2, AddedNew
  <2> QED  BY <1>6, <2>0, <2>3
<1> HIDE DEF P
<1>7. 0 \in T /\ \A n \in Nat : n < Len(ts) /\ n \in T => n + 1 \in T  BY <1>1, <1>5, <1>6
<1> HIDE DEF T
<1>8. 0..Len(ts) \subseteq T  BY <1>1, <1>7, Renewing!IntervalInduction
<1>9. P(Len(ts))  BY <1>1, <1>8 DEF T
<1>10. \A x : x \in Range(ts) <=> \E i \in 1..Len(ts) : x = ts[i]  BY <1>1 DEF Range
<1> QED  BY <1>2, <1>3, <1>9, <1>10 DEF P

-----------------------------------------------------------------------------
(* What the rules write *)

LEMMA FirstStays ==
  ASSUME NEW us, NEW E, us \in Seq(E), NEW A, <<>> \in A,
         \A acc \in A : \A u \in E : KeepFirst(acc, u) \in A
  PROVE  FoldLeft(KeepFirst, <<>>, us) \in A
<1>1. FoldLeft(KeepFirst, <<>>, us) = Framing!Folded(us, <<>>, us)
  BY DEF Framing!Folded, First, FoldLeft, MapThenFoldSet, Max
<1>2. Framing!Folded(us, <<>>, us) \in A  BY Framing!FoldedStays DEF First
<1> QED  BY <1>1, <1>2

LEMMA FinalStays ==
  ASSUME NEW us, NEW E, us \in Seq(E), NEW A, <<>> \in A,
         \A acc \in A : \A u \in E : KeepLast(acc, u) \in A
  PROVE  FoldLeft(KeepLast, <<>>, us) \in A
<1>1. FoldLeft(KeepLast, <<>>, us) = Merging!Folded(us, <<>>, us)
  BY DEF Merging!Folded, Final, FoldLeft, MapThenFoldSet, Max
<1>2. Merging!Folded(us, <<>>, us) \in A  BY Merging!FoldedStays DEF Final
<1> QED  BY <1>1, <1>2

LEMMA FrameIs ==
  ASSUME NEW G, \A g \in G : g.updates \in Seq(Updates), NEW gs, gs \in Seq(G)
  PROVE  Frame(gs) \in Seq(Updates)
<1> DEFINE ss == [g \in DOMAIN gs |-> gs[g].updates]
           us == FlattenSeq(ss)
<1>1. Len(gs) \in Nat /\ DOMAIN gs = 1..Len(gs) /\ \A i \in 1..Len(gs) : gs[i] \in G
  OBVIOUS
<1>2. ss = [i \in 1..Len(gs) |-> ss[i]] /\ \A i \in 1..Len(gs) : ss[i] \in Seq(Updates)
  BY <1>1
<1>3. Frame(gs) = FoldLeft(KeepFirst, <<>>, us)  BY DEF Frame
<1> HIDE DEF ss
<1>4. us \in Seq(Updates)  BY <1>1, <1>2, Parted, Flattened
<1> HIDE DEF us
<1> DEFINE A == Seq(Updates)
<1>5. \A acc \in A : \A u \in Updates : KeepFirst(acc, u) \in A
  BY AppendProperties DEF KeepFirst
<1>6. us \in Seq(Updates) /\ <<>> \in A  BY <1>4
<1> HIDE DEF A
<1>7. FoldLeft(KeepFirst, <<>>, us) \in A  BY <1>5, <1>6, FirstStays
<1> QED  BY <1>3, <1>7 DEF A

LEMMA KeptLast ==
  ASSUME NEW acc \in Seq(Updates), NEW u \in Updates
  PROVE  KeepLast(acc, u) \in Seq(Updates)
<1>1. CASE Mentions(acc, u.var)
  <2>1. KeepLast(acc, u) =
          [k \in 1..Len(acc) |-> IF acc[k].var = u.var THEN u ELSE acc[k]]
    BY <1>1 DEF KeepLast
  <2>2. Len(acc) \in Nat /\ \A k \in 1..Len(acc) : acc[k] \in Updates  OBVIOUS
  <2> QED  BY <2>1, <2>2
<1>2. CASE ~Mentions(acc, u.var)
  <2>1. KeepLast(acc, u) = Append(acc, u)  BY <1>2 DEF KeepLast
  <2> QED  BY <2>1, AppendProperties
<1> QED  BY <1>1, <1>2

LEMMA MergeIs ==
  ASSUME NEW old \in Seq(Updates), NEW new \in Seq(Updates)
  PROVE  Merge(old, new) \in Seq(Updates)
<1> DEFINE us == old \o new
<1>1. us \in Seq(Updates)  OBVIOUS
<1>2. Merge(old, new) = FoldLeft(KeepLast, <<>>, us)  BY DEF Merge
<1> HIDE DEF us
<1> DEFINE A == Seq(Updates)
<1>3. \A acc \in A : \A u \in Updates : KeepLast(acc, u) \in A
  BY KeptLast
<1>4. us \in Seq(Updates) /\ <<>> \in A  BY <1>1
<1> HIDE DEF A
<1>5. FoldLeft(KeepLast, <<>>, us) \in A  BY <1>3, <1>4, FinalStays
<1> QED  BY <1>2, <1>5 DEF A

-----------------------------------------------------------------------------
(* Targets *)

Targets == [var : STRING, idx : STRING \cup {None}]

LEMMA GroupsAre ==
  ASSUME NEW a \in Actions
  PROVE  LET gs == Groups(a)
         IN  /\ Len(gs) \in Nat /\ DOMAIN gs = 1..Len(gs)
             /\ \A i \in 1..Len(gs) : gs[i].updates \in Seq(Updates)
<1> DEFINE gs == Groups(a)
<1>1. a.branches \in Seq(Branches) /\ a.steps \in Seq(Steps) /\ a.updates \in Seq(Updates)
  BY DEF Actions
<1>2. /\ Len(gs) \in Nat /\ DOMAIN gs = 1..Len(gs)
      /\ \A i \in 1..Len(gs) : gs[i].updates \in Seq(Updates)
  <2>1. CASE a.branches # <<>>
    <3>1. gs = a.branches  BY <2>1 DEF Groups
    <3> HIDE DEF gs
    <3>2. gs \in Seq(Branches)  BY <1>1, <3>1
    <3>3. /\ Len(gs) \in Nat /\ DOMAIN gs = 1..Len(gs)
          /\ \A i \in 1..Len(gs) : gs[i] \in Branches
      BY <3>2, SeqIs
    <3> QED  BY <3>3 DEF Branches
  <2>2. CASE a.branches = <<>> /\ a.steps # <<>>
    <3>1. gs = a.steps  BY <2>2 DEF Groups
    <3> HIDE DEF gs
    <3>2. gs \in Seq(Steps)  BY <1>1, <3>1
    <3>3. /\ Len(gs) \in Nat /\ DOMAIN gs = 1..Len(gs)
          /\ \A i \in 1..Len(gs) : gs[i] \in Steps
      BY <3>2, SeqIs
    <3> QED  BY <3>3 DEF Steps
  <2>3. CASE a.branches = <<>> /\ a.steps = <<>>
    <3>1. gs = <<[guard |-> True, updates |-> a.updates]>>  BY <2>3 DEF Groups
    <3> HIDE DEF gs
    <3>2. Len(gs) = 1 /\ DOMAIN gs = {1} /\ gs[1].updates = a.updates  BY <3>1
    <3> QED  BY <1>1, <3>2
  <2> QED  BY <2>1, <2>2, <2>3
<1> QED  BY <1>2

LEMMA UpdatesAre ==
  ASSUME NEW a \in Actions
  PROVE  /\ AllUpdates(a) \in Seq(Updates)
         /\ \A g \in DOMAIN Groups(a) : \A k \in DOMAIN Groups(a)[g].updates :
              Groups(a)[g].updates[k] \in Range(AllUpdates(a))
<1> DEFINE gs == Groups(a)
           ss == [g \in DOMAIN gs |-> gs[g].updates]
<1>1. /\ Len(gs) \in Nat /\ DOMAIN gs = 1..Len(gs)
      /\ \A i \in 1..Len(gs) : gs[i].updates \in Seq(Updates)
  BY GroupsAre
<1>2. AllUpdates(a) = FlattenSeq(ss)  BY DEF AllUpdates
<1> HIDE DEF gs
<1>3. ss = [i \in 1..Len(gs) |-> ss[i]] /\ \A i \in 1..Len(gs) : ss[i] = gs[i].updates
  BY <1>1
<1> HIDE DEF ss
<1>4. ss \in Seq(Seq(Updates)) /\ DOMAIN ss = 1..Len(gs)  BY <1>1, <1>3, Parted
<1>5. \A g \in DOMAIN gs : \A k \in DOMAIN gs[g].updates :
        gs[g].updates[k] \in Range(FlattenSeq(ss))
  <2> SUFFICES ASSUME NEW g \in DOMAIN gs, NEW k \in DOMAIN gs[g].updates
               PROVE  gs[g].updates[k] \in Range(FlattenSeq(ss))
    OBVIOUS
  <2>1. g \in DOMAIN ss /\ gs[g].updates[k] \in Range(ss[g])  BY <1>1, <1>3, <1>4 DEF Range
  <2> QED  BY <1>4, <2>1, Flattened
<1> QED  BY <1>2, <1>4, <1>5, Flattened DEF gs

LEMMA UpdatesOf ==
  ASSUME NEW a \in Actions
  PROVE  AllUpdates(a) \in Seq(Updates)
BY UpdatesAre

\* An update of a branch or step is a write of its action.
LEMMA GroupWrites ==
  ASSUME NEW a \in Actions, NEW g \in DOMAIN Groups(a),
         NEW k \in DOMAIN Groups(a)[g].updates
  PROVE  Writes(a, Target(Groups(a)[g].updates[k]))
<1> DEFINE u == Groups(a)[g].updates[k]
<1>1. u \in Range(AllUpdates(a))  BY UpdatesAre
<1> HIDE DEF u
<1>2. PICK i \in DOMAIN AllUpdates(a) : u = AllUpdates(a)[i]  BY <1>1 DEF Range
<1> QED  BY <1>2 DEF Writes, u

\* The targets are those that some action writes.
LEMMA TargetsAre ==
  ASSUME NEW as \in Seq(Actions)
  PROVE  /\ TargetsOf(as) \in Seq(Targets)
         /\ \A t : t \in Range(TargetsOf(as)) <=> \E i \in DOMAIN as : Writes(as[i], t)
<1> DEFINE ss == [i \in DOMAIN as |->
                    [k \in DOMAIN AllUpdates(as[i]) |-> Target(AllUpdates(as[i])[k])]]
           all == FlattenSeq(ss)
<1>1. Len(as) \in Nat /\ DOMAIN as = 1..Len(as) /\ \A i \in 1..Len(as) : as[i] \in Actions
  BY SeqIs
<1>2. ASSUME NEW i \in 1..Len(as)
      PROVE  /\ ss[i] \in Seq(Targets)
             /\ \A t : t \in Range(ss[i]) <=> Writes(as[i], t)
  <2> DEFINE us == AllUpdates(as[i])
  <2>1. us \in Seq(Updates)  BY <1>1, UpdatesOf
  <2>2. ss[i] = [k \in DOMAIN us |-> Target(us[k])]  BY <1>1
  <2>3. \A t : Writes(as[i], t) <=> \E k \in DOMAIN us : Target(us[k]) = t
    BY DEF Writes
  <2> HIDE DEF us, ss
  <2>4. Len(us) \in Nat /\ DOMAIN us = 1..Len(us) /\ \A k \in 1..Len(us) : us[k] \in Updates
    BY <2>1
  <2>5. \A k \in 1..Len(us) : Target(us[k]) \in Targets
    BY <2>4 DEF Target, Targets, Updates
  <2>6. ss[i] \in Seq(Targets)  BY <2>2, <2>4, <2>5
  <2>7. \A t : t \in Range(ss[i]) <=> \E k \in DOMAIN us : Target(us[k]) = t
    BY <2>2 DEF Range
  <2> QED  BY <2>3, <2>6, <2>7
<1>3. ss = [i \in 1..Len(as) |-> ss[i]] /\ TargetsOf(as) = Distinct(all)
  BY <1>1 DEF TargetsOf
<1> HIDE DEF ss
<1>4. ss \in Seq(Seq(Targets)) /\ DOMAIN ss = 1..Len(as)  BY <1>1, <1>2, <1>3, Parted
<1>5. /\ all \in Seq(Targets)
      /\ \A t : t \in Range(all) <=> \E i \in DOMAIN ss : t \in Range(ss[i])
  BY <1>4, Flattened
<1> HIDE DEF all
<1>6. /\ Distinct(all) \in Seq(Targets)
      /\ \A t : t \in Range(Distinct(all)) <=> t \in Range(all)
  BY <1>5, DistinctIs
<1> QED  BY <1>1, <1>2, <1>3, <1>4, <1>5, <1>6

LEMMA PartsAre ==
  ASSUME NEW s, IsSpec(s)
  PROVE  /\ Clocked(s) \in Seq(Actions)
         /\ \A a : a \in Range(Clocked(s))
                    <=> \E i \in Others(s) : s.actions[i].clocked /\ a = s.actions[i]
         /\ Wiring(s) \in Seq(Actions)
         /\ \A a : a \in Range(Wiring(s))
                    <=> \E i \in Others(s) : s.actions[i].comb /\ a = s.actions[i]
         /\ Resetting(s) \in Seq(Actions)
         /\ \A a : a \in Range(Resetting(s))
                    <=> \E i \in DOMAIN s.actions :
                          s.actions[i].name = s.reset /\ a = s.actions[i]
<1>1. s.actions \in Seq(Actions)  BY DEF IsSpec
<1>2. Others(s) \subseteq DOMAIN s.actions  BY DEF Others
<1>3. \A I : /\ Only(s.actions, I) \in Seq(Actions)
             /\ \A x : x \in Range(Only(s.actions, I))
                        <=> \E i \in DOMAIN s.actions : i \in I /\ x = s.actions[i]
  BY <1>1, OnlyIs
<1> QED  BY <1>2, <1>3 DEF Clocked, Wiring, Resetting

-----------------------------------------------------------------------------
(* Values: a number or undefined *)

Cells == Int \cup {X}

\* A state of the signals: every scalar and every element of a memory has a
\* value.
IsEnv(e) ==
  /\ \A v \in DOMAIN e.sig : e.sig[v] \in Cells
  /\ \A v \in DOMAIN e.mem : \A k \in DOMAIN e.mem[v] : e.mem[v][k] \in Cells

\* What spec_sim._eval promises: an int or None.
Evaluates == \A x, e : IsEnv(e) => Eval(x, e) \in Cells

Holds(w, x) == x = X \/ x \in 0..2^w - 1

LEMMA PowerIs == ASSUME NEW w \in Nat  PROVE 2^w \in Nat \ {0}
<1>1. IsFiniteSet(1..w) /\ Cardinality(1..w) = w  BY FS_Interval
<1>2. /\ IsFiniteSet(SUBSET (1..w)) /\ Cardinality(SUBSET (1..w)) = 2^w  BY <1>1, FS_SUBSET
<1>3. SUBSET (1..w) # {}  OBVIOUS
<1> QED  BY <1>2, <1>3, FS_CardinalityType, FS_EmptySet

LEMMA MaskIs ==
  ASSUME NEW w \in Nat, NEW x \in Cells
  PROVE  Mask(x, w) \in Cells /\ Holds(w, Mask(x, w))
<1> DEFINE m == 2^w
<1>1. m \in Nat \ {0}  BY PowerIs
<1> HIDE DEF m
<1>2. CASE x = X  BY <1>2 DEF Mask, Holds, Cells
<1>3. CASE x # X
  <2>1. x \in Int  BY <1>3 DEF Cells
  <2>2. x % m \in 0..m-1  BY <1>1, <2>1
  <2>3. Mask(x, w) = x % m  BY <1>3 DEF Mask, m
  <2> QED  BY <1>1, <2>2, <2>3 DEF Cells, Holds, m
<1> QED  BY <1>2, <1>3

\* Masking changes nothing that already fits.
LEMMA MaskAgain ==
  ASSUME NEW w \in Nat, NEW x, Holds(w, x)
  PROVE  Mask(x, w) = x
<1> DEFINE m == 2^w
<1>1. m \in Nat \ {0}  BY PowerIs
<1>2. CASE x = X  BY <1>2 DEF Mask
<1>3. CASE x # X
  <2>1. x \in 0..m-1 /\ Mask(x, w) = x % m  BY <1>3 DEF Mask, Holds
  <2> HIDE DEF m
  <2>2. x % m = x  BY <1>1, <2>1
  <2> QED  BY <2>1, <2>2
<1> QED  BY <1>2, <1>3

LEMMA CommitIs ==
  ASSUME NEW s, IsSpec(s), NEW v, NEW x \in Cells
  PROVE  /\ Commit(s, v, x) \in Cells
         /\ v \in DOMAIN s.vars => Holds(s.vars[v].width, Commit(s, v, x))
<1>1. CASE v \in DOMAIN s.vars
  <2>1. s.vars[v].width \in Nat  BY <1>1 DEF IsSpec, IsVariable
  <2> QED  BY <1>1, <2>1, MaskIs DEF Commit
<1>2. CASE v \notin DOMAIN s.vars  BY <1>2 DEF Commit
<1> QED  BY <1>1, <1>2

\* The first of a set of positions is one of them.
LEMMA MinExists ==
  ASSUME NEW n \in Nat, NEW S \in SUBSET (1..n), S # {}
  PROVE  \E x \in S : \A y \in S : x <= y
<1> DEFINE T == {m \in Nat : \A U \in SUBSET (1..m) :
                   U # {} => \E x \in U : \A y \in U : x <= y}
<1>1. 0 \in T
  <2>1. 1..0 = {}  OBVIOUS
  <2> QED  BY <2>1
<1>2. ASSUME NEW m \in Nat, m \in T  PROVE m + 1 \in T
  <2> SUFFICES ASSUME NEW U \in SUBSET (1..m+1), U # {}
               PROVE  \E x \in U : \A y \in U : x <= y
    OBVIOUS
  <2> DEFINE R == U \ {m+1}
  <2>1. R \in SUBSET (1..m)  OBVIOUS
  <2>2. CASE R = {}
    <3>1. U = {m+1}  BY <2>2
    <3> QED  BY <3>1
  <2>3. CASE R # {}
    <3>1. PICK x \in R : \A y \in R : x <= y  BY <1>2, <2>1, <2>3
    <3>2. x \in 1..m  BY <2>1, <3>1
    <3>3. \A y \in U : x <= y  BY <3>1, <3>2
    <3> QED  BY <3>1, <3>3
  <2> QED  BY <2>2, <2>3
<1>3. T \in SUBSET Nat  OBVIOUS
<1> HIDE DEF T
<1>4. T = Nat  BY <1>1, <1>2, <1>3, Joining!SetInduction
<1> QED  BY <1>4 DEF T

LEMMA MinIs ==
  ASSUME NEW n \in Nat, NEW S \in SUBSET (1..n), S # {}
  PROVE  Min(S) \in S /\ \A y \in S : Min(S) <= y
BY MinExists DEF Min

LEMMA MaxIs ==
  ASSUME NEW n \in Nat, NEW S \in SUBSET (1..n), S # {}
  PROVE  Max(S) \in S /\ \A y \in S : Max(S) >= y
<1>1. \E x \in S : \A y \in S : x >= y  BY Joining!HighestExists
<1> QED  BY <1>1 DEF Max

-----------------------------------------------------------------------------
(* The value of a target *)

\* The signals have the target.
Good(t, e) ==
  IF t.idx = None THEN t.var \in DOMAIN e.sig ELSE t.var \in DOMAIN e.mem

LEMMA ReadIs ==
  ASSUME NEW t, NEW e, IsEnv(e), Good(t, e)  PROVE Read(t, e) \in Cells
BY DEF IsEnv, Good, Read, Cells

LEMMA CondIs ==
  ASSUME NEW g, NEW x, NEW y, x \in Cells, y \in Cells  PROVE Cond(g, x, y) \in Cells
BY DEF Cond, Cells

LEMMA AlternationValueIs ==
  ASSUME Evaluates, NEW a, NEW t, NEW e, IsEnv(e), Good(t, e)
  PROVE  AlternationValue(a, t, e) \in Cells
<1> DEFINE b == a.branches
           Value(g) == Eval(b[g].updates[SelectInSeq(b[g].updates,
                                           LAMBDA u : Target(u) = t)].expr, e)
           taken == {k \in 1..Len(b) : Assigns(b[k], t) /\ Eval(b[k].guard, e) # 0}
<1>1. AlternationValue(a, t, e) =
        IF taken = {} THEN Read(t, e)
        ELSE Cond(Eval(b[Min(taken)].guard, e), Value(Min(taken)), Read(t, e))
  BY DEF AlternationValue, NestedIf
<1>2. Value(Min(taken)) \in Cells  BY DEF Evaluates
<1> HIDE DEF taken, Value
<1> QED  BY <1>1, <1>2, ReadIs, CondIs

Guardeds == [guard : Cells, upd : Updates]

LEMMA FlatIs ==
  ASSUME Evaluates, NEW a \in Actions, NEW e, IsEnv(e)
  PROVE  Flat(a, e) \in Seq(Guardeds)
<1> DEFINE p == a.steps
           ss == [s \in DOMAIN p |->
                    [k \in DOMAIN p[s].updates |->
                       [guard |-> StepGuard(p[s], e), upd |-> p[s].updates[k]]]]
<1>1. p \in Seq(Steps)  BY DEF Actions
<1>2. Len(p) \in Nat /\ DOMAIN p = 1..Len(p) /\ \A i \in 1..Len(p) : p[i] \in Steps
  BY <1>1, SeqIs
<1>3. Flat(a, e) = FlattenSeq(ss)  BY DEF Flat
<1>4. ASSUME NEW i \in 1..Len(p)  PROVE ss[i] \in Seq(Guardeds)
  <2> DEFINE us == p[i].updates
             g == StepGuard(p[i], e)
  <2>1. us \in Seq(Updates)  BY <1>2 DEF Steps
  <2>2. g \in Cells  BY DEF StepGuard, Evaluates, Cells
  <2>3. ss[i] = [k \in DOMAIN us |-> [guard |-> g, upd |-> us[k]]]  BY <1>2
  <2> HIDE DEF us, g, ss
  <2>4. Len(us) \in Nat /\ DOMAIN us = 1..Len(us) /\ \A k \in 1..Len(us) : us[k] \in Updates
    BY <2>1, SeqIs
  <2>5. \A k \in 1..Len(us) : [guard |-> g, upd |-> us[k]] \in Guardeds
    BY <2>2, <2>4 DEF Guardeds
  <2> QED  BY <2>3, <2>4, <2>5
<1>5. ss = [i \in 1..Len(p) |-> ss[i]]  BY <1>2
<1> HIDE DEF p, ss
<1>6. ss \in Seq(Seq(Guardeds))  BY <1>2, <1>4, <1>5, Parted
<1> QED  BY <1>3, <1>6, Flattened

\* What the updates of all steps compute, one after the other.
AfterSteps(a, e) ==
  Running!Folded(e, [u \in Range(TargetsOf(<<a>>)) |-> Read(u, e)], Flat(a, e))

LEMMA SequentialValueRuns ==
  ASSUME NEW a, NEW t, NEW e  PROVE SequentialValue(a, t, e) = AfterSteps(a, e)[t]
BY DEF SequentialValue, AfterSteps, Running!Folded, FoldLeft, MapThenFoldSet, Max

LEMMA RunStays ==
  ASSUME NEW e, NEW start, NEW us, NEW E, us \in Seq(E), NEW A, start \in A,
         \A r \in A : \A s \in E : RunUpdate(e, r, s) \in A
  PROVE  Running!Folded(e, start, us) \in A
BY Running!FoldedStays DEF RunUpdate

LEMMA SequentialValueIs ==
  ASSUME Evaluates, NEW a \in Actions, NEW t, NEW e, IsEnv(e), Good(t, e), Writes(a, t)
  PROVE  SequentialValue(a, t, e) \in Cells
<1> DEFINE D == Range(TargetsOf(<<a>>))
           start == [u \in D |-> Read(u, e)]
           V == Cells \cup {Read(u, e) : u \in D}
           A == {r \in [D -> V] : \A u \in D : Good(u, e) => r[u] \in Cells}
           end == Running!Folded(e, start, Flat(a, e))
<1>1. t \in D
  <2>1. <<a>> \in Seq(Actions) /\ 1 \in DOMAIN <<a>> /\ <<a>>[1] = a  OBVIOUS
  <2> QED  BY <2>1, TargetsAre
<1>2. SequentialValue(a, t, e) = end[t]  BY SequentialValueRuns DEF AfterSteps
<1> HIDE DEF D
<1>3. start \in A  BY ReadIs
<1>4. \A r \in A : \A s \in Guardeds : RunUpdate(e, r, s) \in A
  <2> SUFFICES ASSUME NEW r \in A, NEW s \in Guardeds  PROVE RunUpdate(e, r, s) \in A
    OBVIOUS
  <2> DEFINE x == Eval(s.upd.expr, Overlay(r, e))
             c(old) == Cond(s.guard, x, old)
  <2>1. RunUpdate(e, r, s) = [r EXCEPT ![Target(s.upd)] = c(@)]  BY DEF RunUpdate
  <2>2. r \in [D -> V] /\ \A u \in D : Good(u, e) => r[u] \in Cells  OBVIOUS
  <2>3. IsEnv(Overlay(r, e))
    <3> DEFINE T(v) == [var |-> v, idx |-> None]
    <3>1. \A v \in DOMAIN e.sig : T(v) \in D => r[T(v)] \in Cells  BY <2>2 DEF Good
    <3>2. /\ Overlay(r, e).mem = e.mem
          /\ DOMAIN Overlay(r, e).sig = DOMAIN e.sig
          /\ \A v \in DOMAIN e.sig :
               Overlay(r, e).sig[v] = IF T(v) \in D THEN r[T(v)] ELSE e.sig[v]
      BY <2>2 DEF Overlay
    <3> HIDE DEF T
    <3> QED  BY <3>1, <3>2 DEF IsEnv
  <2>4. x \in Cells  BY <2>3 DEF Evaluates
  <2> HIDE DEF x
  <2>5. \A old : c(old) \in {X, x, old}  BY DEF Cond
  <2>6. \A old : (old \in Cells => c(old) \in Cells) /\ (old \in V => c(old) \in V)
    BY <2>4, <2>5 DEF Cells
  <2> HIDE DEF c, V
  <2> QED  BY <2>1, <2>2, <2>6
<1>5. Flat(a, e) \in Seq(Guardeds)  BY FlatIs
<1> HIDE DEF A, start
<1>6. end \in A  BY <1>3, <1>4, <1>5, RunStays
<1> HIDE DEF end
<1> QED  BY <1>1, <1>2, <1>6 DEF A

LEMMA ActionValueIs ==
  ASSUME Evaluates, NEW a \in Actions, NEW t, NEW e, IsEnv(e), Good(t, e), Writes(a, t)
  PROVE  ActionValue(a, t, e) \in Cells
<1>1. FlatValue(a, t, e) \in Cells  BY DEF FlatValue, Evaluates
<1> QED  BY <1>1, AlternationValueIs, SequentialValueIs DEF ActionValue

LEMMA NextValueIs ==
  ASSUME Evaluates, NEW as \in Seq(Actions), NEW t, NEW e, IsEnv(e), Good(t, e)
  PROVE  NextValue(as, t, e) \in Cells
<1> DEFINE Value(k) == ActionValue(as[k], t, e)
           taken == {k \in 1..Len(as) : (Writes(as[k], t) /\ Guarded(as[k]))
                                        /\ Eval(as[k].guard, e) # 0}
           free == {k \in DOMAIN as : Writes(as[k], t) /\ ~Guarded(as[k])}
           default == IF free = {} THEN Read(t, e) ELSE Value(Min(free))
<1>1. NextValue(as, t, e) =
        IF taken = {} THEN default
        ELSE Cond(Eval(as[Min(taken)].guard, e), Value(Min(taken)), default)
  BY DEF NextValue, NestedIf
<1>2. Len(as) \in Nat /\ DOMAIN as = 1..Len(as) /\ \A i \in 1..Len(as) : as[i] \in Actions
  BY SeqIs
<1>3. \A k \in 1..Len(as) : Writes(as[k], t) => Value(k) \in Cells
  BY <1>2, ActionValueIs
<1>4. taken # {} => Min(taken) \in 1..Len(as) /\ Writes(as[Min(taken)], t)
  BY <1>2, MinIs
<1>5. free # {} => Min(free) \in 1..Len(as) /\ Writes(as[Min(free)], t)
  BY <1>2, MinIs
<1>6. Read(t, e) \in Cells  BY ReadIs
<1> HIDE DEF Value, taken, free
<1> QED  BY <1>1, <1>3, <1>4, <1>5, <1>6, CondIs

-----------------------------------------------------------------------------
(* The wires *)

LEMMA NetsAre ==
  ASSUME NEW s, IsSpec(s)
  PROVE  /\ Nets(s) \in Seq(Updates)
         /\ \A u : u \in Range(Nets(s))
                    <=> \E i \in DOMAIN Wiring(s) : u \in Range(Wiring(s)[i].updates)
<1> DEFINE w == Wiring(s)
           ss == [i \in DOMAIN w |-> w[i].updates]
<1>1. w \in Seq(Actions)  BY PartsAre
<1>2. Nets(s) = FlattenSeq(ss)  BY DEF Nets
<1> HIDE DEF w
<1>3. /\ Len(w) \in Nat /\ DOMAIN w = 1..Len(w)
      /\ \A i \in 1..Len(w) : w[i] \in Actions
  BY <1>1, SeqIs
<1>4. \A i \in 1..Len(w) : w[i].updates \in Seq(Updates)  BY <1>3 DEF Actions
<1>5. /\ ss = [i \in 1..Len(w) |-> ss[i]]
      /\ \A i \in 1..Len(w) : ss[i] = w[i].updates /\ ss[i] \in Seq(Updates)
  BY <1>3, <1>4
<1> HIDE DEF ss
<1>6. ss \in Seq(Seq(Updates)) /\ DOMAIN ss = DOMAIN w  BY <1>3, <1>5, Parted
<1> QED  BY <1>2, <1>3, <1>5, <1>6, Flattened DEF w

LEMMA PassIs ==
  ASSUME NEW s, NEW e  PROVE Pass(s, e) = Passing!Folded(s, e, Nets(s))
BY DEF Pass, Passing!Folded, WireOne, FoldLeft, MapThenFoldSet, Max

LEMMA PassStays ==
  ASSUME NEW s, NEW e, NEW us, NEW E, us \in Seq(E), NEW A, e \in A,
         \A r \in A : \A u \in E : Wire(s, r, u) \in A
  PROVE  Passing!Folded(s, e, us) \in A
BY Passing!FoldedStays DEF WireOne

\* Settling is a number of passes.
LEMMA SettleRuns ==
  ASSUME NEW s, IsSpec(s), NEW e
  PROVE  \E f : /\ f[0] = e
                /\ \A n \in 1..Len(Nets(s)) + 1 : f[n] = Pass(s, f[n-1])
                /\ Settle(s, e) = f[Len(Nets(s)) + 1]
<1> DEFINE m == Len(Nets(s)) + 1
           f == CHOOSE f : f = [n \in 0..m |-> IF n = 0 THEN e ELSE Pass(s, f[n-1])]
<1>1. m \in Nat
  <2>1. Nets(s) \in Seq(Updates)  BY NetsAre
  <2> QED  BY <2>1, SeqIs
<1>2. Settle(s, e) = f[m]  BY DEF Settle
<1> HIDE DEF m
<1>3. f = Settling!RunBody(f, s, e, s, m)
  <2>1. \E g : g = Settling!RunBody(g, s, e, s, m)  BY <1>1, Settling!RunIs
  <2> QED  BY <2>1 DEF Settling!RunBody, Settling!Body, Again
<1> HIDE DEF f
<1>4. f[0] = e /\ \A n \in 1..m : f[n] = Pass(s, f[n-1])
  BY <1>1, <1>3, Settling!RunEquations DEF Again
<1> QED  BY <1>2, <1>4 DEF m

LEMMA SettleStays ==
  ASSUME NEW s, IsSpec(s), NEW e, NEW A, e \in A, \A r \in A : Pass(s, r) \in A
  PROVE  Settle(s, e) \in A
<1> DEFINE m == Len(Nets(s)) + 1
<1>1. m \in Nat
  <2>1. Nets(s) \in Seq(Updates)  BY NetsAre
  <2> QED  BY <2>1, SeqIs
<1>2. PICK f : /\ f[0] = e
               /\ \A n \in 1..m : f[n] = Pass(s, f[n-1])
               /\ Settle(s, e) = f[m]
  BY SettleRuns
<1> HIDE DEF m
<1> DEFINE T == {n \in 0..m : f[n] \in A}
<1>3. 0 \in T  BY <1>1, <1>2
<1>4. \A n \in Nat : n < m /\ n \in T => n + 1 \in T
  <2> SUFFICES ASSUME NEW n \in Nat, n < m, n \in T  PROVE n + 1 \in T
    OBVIOUS
  <2>1. n + 1 \in 1..m /\ (n + 1) - 1 = n /\ n + 1 \in 0..m  BY <1>1
  <2>2. f[n + 1] = Pass(s, f[n])  BY <1>2, <2>1
  <2> QED  BY <2>1, <2>2
<1> HIDE DEF T
<1>5. 0..m \subseteq T  BY <1>1, <1>3, <1>4, Settling!IntervalInduction
<1> QED  BY <1>1, <1>2, <1>5 DEF T

-----------------------------------------------------------------------------
(* What every edge keeps: the signals of a spec, each within its width.  The *)
(* inputs I hold what they are driven to.                                    *)

Scalars(s)  == {v \in DOMAIN s.vars : ~IsMemory(s, v)}
Memories(s) == {v \in DOMAIN s.vars : IsMemory(s, v)}

Fitting(s, v) == {x \in Cells : Holds(s.vars[v].width, x)}
Array(s, v)   == [0..s.vars[v].depth - 1 -> Fitting(s, v)]

Sigs(s, I) ==
  {f \in [Scalars(s) \cup I -> Cells] : \A v \in Scalars(s) \ I : f[v] \in Fitting(s, v)}

Mems(s) ==
  {f \in [Memories(s) -> UNION {Array(s, v) : v \in Memories(s)}] :
     \A v \in Memories(s) : f[v] \in Array(s, v)}

Envs(s, I) == [sig : Sigs(s, I), mem : Mems(s)]

LEMMA EnvIs ==
  ASSUME NEW s, NEW I, NEW e \in Envs(s, I)
  PROVE  /\ IsEnv(e)
         /\ e = [sig |-> e.sig, mem |-> e.mem]
         /\ e.sig \in Sigs(s, I) /\ DOMAIN e.sig = Scalars(s) \cup I
         /\ e.mem \in Mems(s) /\ DOMAIN e.mem = Memories(s)
<1>1. /\ e = [sig |-> e.sig, mem |-> e.mem]
      /\ e.sig \in Sigs(s, I) /\ e.mem \in Mems(s)
  BY DEF Envs
<1>2. DOMAIN e.sig = Scalars(s) \cup I /\ \A v \in DOMAIN e.sig : e.sig[v] \in Cells
  BY <1>1 DEF Sigs
<1>3. DOMAIN e.mem = Memories(s) /\ \A v \in Memories(s) : e.mem[v] \in Array(s, v)
  BY <1>1 DEF Mems
<1>4. \A v \in DOMAIN e.mem : \A k \in DOMAIN e.mem[v] : e.mem[v][k] \in Cells
  BY <1>3 DEF Array, Fitting
<1> QED  BY <1>1, <1>2, <1>3, <1>4 DEF IsEnv

LEMMA WireKeeps ==
  ASSUME Evaluates, NEW s, IsSpec(s), NEW I, NEW e \in Envs(s, I), NEW u
  PROVE  Wire(s, e, u) \in Envs(s, I)
<1> DEFINE c == Commit(s, u.var, Eval(u.expr, e))
           f == [e.sig EXCEPT ![u.var] = c]
<1>1. /\ IsEnv(e) /\ e = [sig |-> e.sig, mem |-> e.mem]
      /\ e.sig \in Sigs(s, I) /\ e.mem \in Mems(s)
  BY EnvIs
<1>2. c \in Cells /\ (u.var \in DOMAIN s.vars => c \in Fitting(s, u.var))
  BY <1>1, CommitIs DEF Evaluates, Fitting
<1> HIDE DEF c
<1>3. f \in Sigs(s, I)
  <2>1. f \in [Scalars(s) \cup I -> Cells]  BY <1>1, <1>2 DEF Sigs
  <2>2. \A v \in Scalars(s) \ I : f[v] \in Fitting(s, v)
    BY <1>1, <1>2 DEF Sigs, Scalars
  <2> QED  BY <2>1, <2>2 DEF Sigs
<1>4. Wire(s, e, u) = [sig |-> f, mem |-> e.mem]  BY <1>1 DEF Wire, c
<1> QED  BY <1>1, <1>3, <1>4 DEF Envs

LEMMA SettleKeeps ==
  ASSUME Evaluates, NEW s, IsSpec(s), NEW I, NEW e \in Envs(s, I)
  PROVE  Settle(s, e) \in Envs(s, I)
<1> DEFINE A == Envs(s, I)
<1>1. \A r \in A : \A u \in Updates : Wire(s, r, u) \in A  BY WireKeeps
<1>2. Nets(s) \in Seq(Updates)  BY NetsAre
<1>3. e \in A  OBVIOUS
<1> HIDE DEF A
<1>4. \A r \in A : Pass(s, r) \in A  BY <1>1, <1>2, PassIs, PassStays
<1>5. Settle(s, e) \in A  BY <1>3, <1>4, SettleStays
<1> QED  BY <1>5 DEF A

LEMMA SeenIs ==
  ASSUME Evaluates, NEW s, IsSpec(s), NEW I, NEW e \in Envs(s, I),
         NEW J, J \subseteq I, NEW in \in [J -> Cells]
  PROVE  Seen(s, e, in) \in Envs(s, I)
<1> DEFINE f == [v \in DOMAIN e.sig |-> IF v \in DOMAIN in THEN in[v] ELSE e.sig[v]]
<1>1. /\ e = [sig |-> e.sig, mem |-> e.mem]
      /\ e.sig \in Sigs(s, I) /\ e.mem \in Mems(s)
  BY EnvIs
<1>2. f \in Sigs(s, I)  BY <1>1 DEF Sigs
<1>3. WithInputs(e, in) = [sig |-> f, mem |-> e.mem]  BY <1>1 DEF WithInputs
<1> HIDE DEF f
<1>4. WithInputs(e, in) \in Envs(s, I)  BY <1>1, <1>2, <1>3 DEF Envs
<1> QED  BY <1>4, SettleKeeps DEF Seen

\* The memory writes of an edge, in the order of the targets.
LEMMA WriteStays ==
  ASSUME NEW mem, NEW ws, NEW E, ws \in Seq(E), NEW A, mem \in A,
         \A r \in A : \A w \in E : Write(r, w) \in A
  PROVE  Writing!Folded(ws, mem, ws) \in A
BY Writing!FoldedStays DEF Put

Scalar(v) == [var |-> v, idx |-> None]

\* The parts of a normal edge: what a target gets, the scalars, the memories.
Landing(s, pre, t) == Commit(s, t.var, NextValue(Clocked(s), t, pre))

EdgeSig(s, pre) ==
  [v \in DOMAIN pre.sig |-> IF Scalar(v) \in Range(TargetsOf(Clocked(s)))
                            THEN Landing(s, pre, Scalar(v)) ELSE pre.sig[v]]

EdgeWrite(s, pre, t) ==
  [var |-> t.var, value |-> Landing(s, pre, t),
   at |-> IF t.idx = None THEN X ELSE Eval(t.idx, pre)]

EdgeWrites(s, pre) ==
  [i \in DOMAIN TargetsOf(Clocked(s)) |-> EdgeWrite(s, pre, TargetsOf(Clocked(s))[i])]

EdgeMem(s, pre) == FoldLeft(Write, pre.mem, EdgeWrites(s, pre))

LEMMA ClockEdgeIs ==
  ASSUME NEW s, NEW e, NEW in
  PROVE  ClockEdge(s, e, in) =
           Settle(s, [sig |-> EdgeSig(s, Seen(s, e, in)), mem |-> EdgeMem(s, Seen(s, e, in))])
BY DEF ClockEdge, EdgeSig, EdgeMem, EdgeWrites, EdgeWrite, Landing, Scalar

LEMMA LandingIs ==
  ASSUME Evaluates, NEW s, IsSpec(s), NEW e, IsEnv(e), NEW t, Good(t, e)
  PROVE  /\ Landing(s, e, t) \in Cells
         /\ t.var \in DOMAIN s.vars => Landing(s, e, t) \in Fitting(s, t.var)
<1>1. Clocked(s) \in Seq(Actions)  BY PartsAre
<1>2. NextValue(Clocked(s), t, e) \in Cells  BY <1>1, NextValueIs
<1> QED  BY <1>2, CommitIs DEF Landing, Fitting

LEMMA EdgeSigIs ==
  ASSUME Evaluates, NEW s, IsSpec(s), NEW I, NEW pre \in Envs(s, I)
  PROVE  EdgeSig(s, pre) \in Sigs(s, I)
<1>1. /\ IsEnv(pre) /\ pre.sig \in Sigs(s, I)
      /\ DOMAIN pre.sig = Scalars(s) \cup I
  BY EnvIs
<1>2. ASSUME NEW v \in DOMAIN pre.sig
      PROVE  /\ Landing(s, pre, Scalar(v)) \in Cells
             /\ v \in DOMAIN s.vars => Landing(s, pre, Scalar(v)) \in Fitting(s, v)
  <2>1. Good(Scalar(v), pre) /\ Scalar(v).var = v  BY DEF Good, Scalar
  <2> QED  BY <1>1, <2>1, LandingIs
<1>3. EdgeSig(s, pre) \in [Scalars(s) \cup I -> Cells]
  BY <1>1, <1>2 DEF EdgeSig, Sigs
<1>4. \A v \in Scalars(s) \ I : EdgeSig(s, pre)[v] \in Fitting(s, v)
  BY <1>1, <1>2 DEF EdgeSig, Sigs, Scalars
<1> QED  BY <1>3, <1>4 DEF Sigs

\* A write lands in the memory with a value that fits it, or is lost.
LEMMA WriteKeeps ==
  ASSUME NEW s, NEW mem \in Mems(s), NEW w,
         w.var \in Memories(s) /\ w.at \in 0..s.vars[w.var].depth - 1
           => w.value \in Fitting(s, w.var)
  PROVE  Write(mem, w) \in Mems(s)
<1>1. /\ mem = [v \in Memories(s) |-> mem[v]]
      /\ \A v \in Memories(s) : mem[v] \in Array(s, v)
  BY DEF Mems
<1>2. CASE ~(w.var \in DOMAIN mem /\ w.at \in DOMAIN mem[w.var])
  BY <1>2 DEF Write
<1>3. CASE w.var \in DOMAIN mem /\ w.at \in DOMAIN mem[w.var]
  <2> DEFINE c == [mem[w.var] EXCEPT ![w.at] = w.value]
  <2>1. w.var \in Memories(s) /\ mem[w.var] \in Array(s, w.var)  BY <1>1, <1>3
  <2>2. w.at \in 0..s.vars[w.var].depth - 1  BY <1>3, <2>1 DEF Array
  <2>3. c \in Array(s, w.var)  BY <2>1, <2>2 DEF Array
  <2>4. Write(mem, w) = [v \in Memories(s) |-> IF v = w.var THEN c ELSE mem[v]]
    BY <1>1, <1>3 DEF Write
  <2> HIDE DEF c
  <2>5. \A v \in Memories(s) : (IF v = w.var THEN c ELSE mem[v]) \in Array(s, v)
    BY <1>1, <2>3
  <2> QED  BY <2>4, <2>5 DEF Mems
<1> QED  BY <1>2, <1>3

LEMMA WritesAre ==
  ASSUME NEW s, IsSpec(s), NEW pre
  PROVE  LET ts == TargetsOf(Clocked(s))
             ws == EdgeWrites(s, pre)
         IN  /\ ts \in Seq(Targets) /\ Len(ts) \in Nat /\ DOMAIN ts = 1..Len(ts)
             /\ ws \in Seq(Range(ws)) /\ Len(ws) = Len(ts) /\ DOMAIN ws = 1..Len(ts)
             /\ \A i \in 1..Len(ts) : ts[i] \in Targets /\ ws[i] = EdgeWrite(s, pre, ts[i])
<1> DEFINE ts == TargetsOf(Clocked(s))
           ws == EdgeWrites(s, pre)
<1>1. ts \in Seq(Targets)  BY PartsAre, TargetsAre
<1>2. ws = [i \in DOMAIN ts |-> EdgeWrite(s, pre, ts[i])]  BY DEF EdgeWrites
<1> HIDE DEF ts, ws
<1>3. Len(ts) \in Nat /\ DOMAIN ts = 1..Len(ts) /\ \A i \in 1..Len(ts) : ts[i] \in Targets
  BY <1>1, SeqIs
<1>4. ws = [i \in 1..Len(ts) |-> ws[i]] /\ \A i \in 1..Len(ts) : ws[i] \in Range(ws)
  BY <1>2, <1>3 DEF Range
<1>5. ws \in Seq(Range(ws)) /\ Len(ws) = Len(ts)  BY <1>3, <1>4
<1> QED  BY <1>1, <1>2, <1>3, <1>5 DEF ts, ws

LEMMA EdgeMemIs ==
  ASSUME Evaluates, NEW s, IsSpec(s), NEW I, NEW pre \in Envs(s, I)
  PROVE  EdgeMem(s, pre) \in Mems(s)
<1> DEFINE ts == TargetsOf(Clocked(s))
           ws == EdgeWrites(s, pre)
           A == Mems(s)
<1>1. /\ DOMAIN ts = 1..Len(ts)
      /\ ws \in Seq(Range(ws)) /\ DOMAIN ws = 1..Len(ts)
      /\ \A i \in 1..Len(ts) : ts[i] \in Targets /\ ws[i] = EdgeWrite(s, pre, ts[i])
  BY WritesAre
<1>2. /\ IsEnv(pre) /\ pre.mem \in Mems(s) /\ DOMAIN pre.mem = Memories(s)
  BY EnvIs
<1> HIDE DEF ts, ws
<1>3. ASSUME NEW i \in 1..Len(ts), ts[i].var \in Memories(s),
             ws[i].at \in 0..s.vars[ts[i].var].depth - 1
      PROVE  ws[i].value \in Fitting(s, ts[i].var)
  <2>1. /\ ws[i].value = Landing(s, pre, ts[i])
        /\ ws[i].at = IF ts[i].idx = None THEN X ELSE Eval(ts[i].idx, pre)
    BY <1>1 DEF EdgeWrite
  <2>2. ts[i].idx # None  BY <1>3, <2>1, XAssumption
  <2>3. Good(ts[i], pre)  BY <1>2, <1>3, <2>2 DEF Good
  <2>4. ts[i].var \in DOMAIN s.vars  BY <1>3 DEF Memories
  <2> QED  BY <1>2, <2>1, <2>3, <2>4, LandingIs
<1>4. \A mem \in A : \A w \in Range(ws) : Write(mem, w) \in A
  <2> SUFFICES ASSUME NEW mem \in Mems(s), NEW w \in Range(ws)  PROVE Write(mem, w) \in Mems(s)
    OBVIOUS
  <2>1. PICK i \in 1..Len(ts) : w = ws[i]  BY <1>1 DEF Range
  <2>2. w.var = ts[i].var  BY <1>1, <2>1 DEF EdgeWrite
  <2> QED  BY <1>3, <2>1, <2>2, WriteKeeps
<1>5. pre.mem \in A  BY <1>2
<1>6. FoldLeft(Write, pre.mem, ws) \in A
  <2> DEFINE E == Range(ws)
             base == pre.mem
  <2>1. ws \in Seq(E)  BY <1>1
  <2>2. base \in A /\ \A mem \in A : \A w \in E : Write(mem, w) \in A  BY <1>4, <1>5
  <2> HIDE DEF A, E, base
  <2>3. Writing!Folded(ws, base, ws) \in A  BY <2>1, <2>2, WriteStays
  <2>4. FoldLeft(Write, base, ws) = Writing!Folded(ws, base, ws)
    BY DEF Writing!Folded, Put, FoldLeft, MapThenFoldSet, Max
  <2> QED  BY <2>3, <2>4 DEF base
<1> QED  BY <1>6 DEF EdgeMem, A, ws

\* An edge settles the wires on signals within their widths.
LEMMA ClockEdgeSettles ==
  ASSUME Evaluates, NEW s, IsSpec(s), NEW I, NEW e \in Envs(s, I),
         NEW J, J \subseteq I, NEW in \in [J -> Cells]
  PROVE  \E post \in Envs(s, I) : ClockEdge(s, e, in) = Settle(s, post)
<1> DEFINE pre == Seen(s, e, in)
           post == [sig |-> EdgeSig(s, pre), mem |-> EdgeMem(s, pre)]
<1>1. pre \in Envs(s, I)  BY SeenIs
<1>2. ClockEdge(s, e, in) = Settle(s, post)  BY ClockEdgeIs
<1> HIDE DEF pre
<1>3. post \in Envs(s, I)  BY <1>1, EdgeSigIs, EdgeMemIs DEF Envs
<1> HIDE DEF post
<1> QED  BY <1>2, <1>3

LEMMA ResetEdgeSettles ==
  ASSUME Evaluates, NEW s, IsSpec(s), NEW I, NEW e \in Envs(s, I),
         NEW J, J \subseteq I, NEW in \in [J -> Cells]
  PROVE  \E post \in Envs(s, I) : ResetEdge(s, e, in) = Settle(s, post)
<1> DEFINE pre == Seen(s, e, in)
           ra == Resetting(s)
           resets(v) == /\ v \in DOMAIN s.vars /\ IsRegister(s, v)
                        /\ ra # <<>> /\ Writes(ra[1], Scalar(v))
           value(v) == Commit(s, v, ActionValue(ra[1], Scalar(v), pre))
           f == [v \in DOMAIN pre.sig |-> IF resets(v) THEN value(v) ELSE pre.sig[v]]
           post == [pre EXCEPT !.sig = f]
<1>1. pre \in Envs(s, I)  BY SeenIs
<1>2. ResetEdge(s, e, in) = Settle(s, post)  BY DEF ResetEdge, Scalar
<1> HIDE DEF pre
<1>3. /\ IsEnv(pre) /\ pre = [sig |-> pre.sig, mem |-> pre.mem]
      /\ pre.sig \in Sigs(s, I) /\ pre.mem \in Mems(s) /\ DOMAIN pre.sig = Scalars(s) \cup I
  BY <1>1, EnvIs
<1>4. ra \in Seq(Actions)  BY PartsAre
<1>5. ASSUME NEW v \in DOMAIN pre.sig, resets(v)
      PROVE  value(v) \in Cells /\ value(v) \in Fitting(s, v)
  <2>1. ra[1] \in Actions
    <3> HIDE DEF ra
    <3>1. ra # <<>>  BY <1>5
    <3> QED  BY <1>4, <3>1
  <2>2. Good(Scalar(v), pre)  BY DEF Good, Scalar
  <2>3. ActionValue(ra[1], Scalar(v), pre) \in Cells
    BY <1>3, <1>5, <2>1, <2>2, ActionValueIs
  <2> QED  BY <1>5, <2>3, CommitIs DEF Fitting
<1> HIDE DEF resets, value
<1>6. f \in Sigs(s, I)  BY <1>3, <1>5 DEF Sigs
<1>7. post = [sig |-> f, mem |-> pre.mem]  BY <1>3
<1> HIDE DEF f, post
<1>8. post \in Envs(s, I)  BY <1>3, <1>6, <1>7 DEF Envs
<1> QED  BY <1>2, <1>8

\* An edge leaves every signal within its width (spec_sim.py _mask), whatever
\* the expressions are worth.
THEOREM ClockEdgeKeeps ==
  ASSUME Evaluates, NEW s, IsSpec(s), NEW I, NEW e \in Envs(s, I),
         NEW J, J \subseteq I, NEW in \in [J -> Cells]
  PROVE  ClockEdge(s, e, in) \in Envs(s, I)
BY ClockEdgeSettles, SettleKeeps

\* A reset edge, too.
THEOREM ResetEdgeKeeps ==
  ASSUME Evaluates, NEW s, IsSpec(s), NEW I, NEW e \in Envs(s, I),
         NEW J, J \subseteq I, NEW in \in [J -> Cells]
  PROVE  ResetEdge(s, e, in) \in Envs(s, I)
BY ResetEdgeSettles, SettleKeeps
-----------------------------------------------------------------------------
(* What an edge leaves alone, and where it writes *)

\* Settling the wires touches neither a memory nor a signal that is no wire.
LEMMA SettleFrame ==
  ASSUME Evaluates, NEW s, IsSpec(s), NEW I, NEW e \in Envs(s, I)
  PROVE  /\ Settle(s, e).mem = e.mem
         /\ \A v \in Scalars(s) \cup I :
              (\A u \in Range(Nets(s)) : u.var # v) => Settle(s, e).sig[v] = e.sig[v]
<1> DEFINE us == Nets(s)
           E == Range(us)
           Same(r, v) == (\A u \in E : u.var # v) => r.sig[v] = e.sig[v]
           A == {r \in Envs(s, I) : r.mem = e.mem /\ \A v \in Scalars(s) \cup I : Same(r, v)}
<1>1. us \in Seq(E)
  <2>1. us \in Seq(Updates)  BY NetsAre
  <2> HIDE DEF us
  <2>2. Len(us) \in Nat /\ DOMAIN us = 1..Len(us) /\ us = [i \in 1..Len(us) |-> us[i]]
    BY <2>1
  <2>3. \A i \in 1..Len(us) : us[i] \in Range(us)  BY <2>2 DEF Range
  <2> QED  BY <2>2, <2>3
<1> HIDE DEF us
<1>2. ASSUME NEW r \in A, NEW u \in E  PROVE Wire(s, r, u) \in A
  <2>1. Wire(s, r, u) \in Envs(s, I)  BY WireKeeps
  <2> DEFINE c == Commit(s, u.var, Eval(u.expr, r))
             f == [r.sig EXCEPT ![u.var] = c]
  <2>2. r = [sig |-> r.sig, mem |-> r.mem]  BY EnvIs
  <2>3. DOMAIN r.sig = Scalars(s) \cup I  BY EnvIs
  <2>4. Wire(s, r, u) = [sig |-> f, mem |-> r.mem]  BY <2>2 DEF Wire
  <2> HIDE DEF c
  <2>5. \A v \in Scalars(s) \cup I : v # u.var => f[v] = r.sig[v]  BY <2>3
  <2>6. \A v \in Scalars(s) \cup I : Same(Wire(s, r, u), v)
    <3> HIDE DEF f
    <3>1. Wire(s, r, u).sig = f  BY <2>4
    <3> QED  BY <2>5, <3>1
  <2>7. Wire(s, r, u).mem = e.mem  BY <2>4
  <2> QED  BY <2>1, <2>6, <2>7
<1>3. e \in A  OBVIOUS
<1> HIDE DEF A, E
<1>4. \A r \in A : Pass(s, r) \in A  BY <1>1, <1>2, PassIs, PassStays DEF us
<1>5. Settle(s, e) \in A  BY <1>3, <1>4, SettleStays
<1> QED  BY <1>5 DEF A, E, us

LEMMA WriteAt ==
  ASSUME NEW mem, NEW w, NEW v \in DOMAIN mem, NEW k \in DOMAIN mem[v]
  PROVE  /\ v \in DOMAIN Write(mem, w) /\ k \in DOMAIN Write(mem, w)[v]
         /\ Write(mem, w)[v][k] =
              IF w.var = v /\ w.at = k THEN w.value ELSE mem[v][k]
<1>1. CASE ~(w.var \in DOMAIN mem /\ w.at \in DOMAIN mem[w.var])
  BY <1>1 DEF Write
<1>2. CASE w.var \in DOMAIN mem /\ w.at \in DOMAIN mem[w.var]
  <2>1. Write(mem, w) = [mem EXCEPT ![w.var] = [mem[w.var] EXCEPT ![w.at] = w.value]]
    BY <1>2 DEF Write
  <2> QED  BY <1>2, <2>1
<1> QED  BY <1>1, <1>2

\* The writes that meet in an element agree on its value.
Agree(ws, v, k, value) ==
  \A i \in 1..Len(ws) : ws[i].var = v /\ ws[i].at = k => ws[i].value = value

\* Then it gets that.
LEMMA WritesLand ==
  ASSUME NEW mem, NEW ws, Len(ws) \in Nat, DOMAIN ws = 1..Len(ws),
         NEW v \in DOMAIN mem, NEW k \in DOMAIN mem[v], NEW value,
         Agree(ws, v, k, value)
  PROVE  Writing!Folded(ws, mem, ws)[v][k] =
           IF \E i \in 1..Len(ws) : ws[i].var = v /\ ws[i].at = k
           THEN value ELSE mem[v][k]
<1>1. PICK f : Writing!IsRun(f, ws, mem, ws) /\ Writing!Folded(ws, mem, ws) = f[Len(ws)]
  BY Writing!FoldedRuns
<1>2. f[0] = mem /\ \A n \in 1..Len(ws) : f[n] = Write(f[n-1], ws[n])
  BY <1>1 DEF Writing!IsRun, Put
<1> DEFINE Hit(i) == ws[i].var = v /\ ws[i].at = k
           P(n) == /\ v \in DOMAIN f[n] /\ k \in DOMAIN f[n][v]
                   /\ f[n][v][k] = IF \E i \in 1..n : Hit(i) THEN value ELSE mem[v][k]
           T == {n \in 0..Len(ws) : P(n)}
<1>3. P(0)
  <2>1. 1..0 = {}  OBVIOUS
  <2> QED  BY <1>2, <2>1
<1>4. ASSUME NEW n \in Nat, n < Len(ws), P(n)  PROVE P(n + 1)
  <2>1. n + 1 \in 1..Len(ws) /\ (n + 1) - 1 = n  BY <1>4
  <2>2. 1..n+1 = (1..n) \cup {n+1}  BY <1>4
  <2>3. f[n+1] = Write(f[n], ws[n+1])  BY <1>2, <2>1
  <2>4. /\ v \in DOMAIN f[n+1] /\ k \in DOMAIN f[n+1][v]
        /\ f[n+1][v][k] = IF Hit(n+1) THEN ws[n+1].value ELSE f[n][v][k]
    BY <1>4, <2>3, WriteAt
  <2>5. Hit(n+1) => ws[n+1].value = value  BY <2>1 DEF Agree
  <2> QED  BY <1>4, <2>2, <2>4, <2>5
<1> HIDE DEF P
<1>5. 0 \in T /\ \A n \in Nat : n < Len(ws) /\ n \in T => n + 1 \in T
  BY <1>3, <1>4
<1> HIDE DEF T
<1>6. 0..Len(ws) \subseteq T  BY <1>5, Writing!IntervalInduction
<1>7. P(Len(ws))
  <2>1. Len(ws) \in 0..Len(ws)  OBVIOUS
  <2> QED  BY <1>6, <2>1 DEF T
<1> QED  BY <1>1, <1>7 DEF P

\* At power-on nothing is known.
Blank(s, I) ==
  [sig |-> [v \in Scalars(s) \cup I |-> X],
   mem |-> [v \in Memories(s) |-> [k \in 0..s.vars[v].depth - 1 |-> X]]]

LEMMA BlankIs ==
  ASSUME NEW s, IsSpec(s), NEW I
  PROVE  Blank(s, I) \in Envs(s, I)
<1> DEFINE f == [v \in Scalars(s) \cup I |-> X]
           blank(v) == [k \in 0..s.vars[v].depth - 1 |-> X]
           m == [v \in Memories(s) |-> blank(v)]
<1>1. Blank(s, I) = [sig |-> f, mem |-> m]  BY DEF Blank
<1>2. f \in Sigs(s, I)  BY DEF Sigs, Cells, Fitting, Holds
<1>3. \A v \in Memories(s) : blank(v) \in Array(s, v)
  BY DEF Array, Fitting, Cells, Holds
<1> HIDE DEF blank
<1>4. m \in Mems(s)  BY <1>3 DEF Mems
<1> HIDE DEF f, m
<1> QED  BY <1>1, <1>2, <1>4 DEF Envs

-----------------------------------------------------------------------------
(* What settling reaches.  A rank orders the wires when the value of each is  *)
(* a matter of the signals and of the wires of lower rank.                    *)

SingleDriver(s) ==
  /\ \A i, j \in DOMAIN Nets(s) : Nets(s)[i].var = Nets(s)[j].var => i = j
  /\ \A i \in DOMAIN Nets(s) : Nets(s)[i].var \in Scalars(s)

\* e and f differ in wires of the rank of net i and above only.
AlikeBelow(s, I, r, i, e, f) ==
  /\ e.mem = f.mem
  /\ \A v \in Scalars(s) \cup I :
       f.sig[v] = e.sig[v] \/ \E j \in DOMAIN Nets(s) : Nets(s)[j].var = v /\ r[j] >= r[i]

Ranks(s, I, r) ==
  \A i \in DOMAIN Nets(s) : \A e, f \in Envs(s, I) :
    AlikeBelow(s, I, r, i, e, f) => Eval(Nets(s)[i].expr, f) = Eval(Nets(s)[i].expr, e)

\* What net i should show in e.
Equation(s, i, e) == Mask(Eval(Nets(s)[i].expr, e), s.vars[Nets(s)[i].var].width)

Stable(s, r, n, e) ==
  \A i \in DOMAIN Nets(s) : r[i] <= n => e.sig[Nets(s)[i].var] = Equation(s, i, e)

LEMMA WireSets ==
  ASSUME Evaluates, NEW s, IsSpec(s), NEW I, NEW e \in Envs(s, I),
         NEW u, u.var \in Scalars(s)
  PROVE  /\ Wire(s, e, u) \in Envs(s, I) /\ Wire(s, e, u).mem = e.mem
         /\ \A v \in Scalars(s) \cup I :
              Wire(s, e, u).sig[v] =
                IF v = u.var THEN Mask(Eval(u.expr, e), s.vars[u.var].width) ELSE e.sig[v]
<1> DEFINE c == Commit(s, u.var, Eval(u.expr, e))
           f == [e.sig EXCEPT ![u.var] = c]
<1>1. e = [sig |-> e.sig, mem |-> e.mem] /\ DOMAIN e.sig = Scalars(s) \cup I  BY EnvIs
<1>2. Wire(s, e, u) = [sig |-> f, mem |-> e.mem]  BY <1>1 DEF Wire
<1>3. c = Mask(Eval(u.expr, e), s.vars[u.var].width)  BY DEF Commit, Scalars
<1> HIDE DEF c
<1>4. \A v \in Scalars(s) \cup I : f[v] = IF v = u.var THEN c ELSE e.sig[v]  BY <1>1
<1> HIDE DEF f
<1> QED  BY <1>2, <1>3, <1>4, WireKeeps

\* A pass settles one rank more.
LEMMA PassSettles ==
  ASSUME Evaluates, NEW s, IsSpec(s), NEW I, SingleDriver(s),
         NEW r \in [DOMAIN Nets(s) -> Nat], Ranks(s, I, r),
         NEW e \in Envs(s, I), NEW n \in Nat, Stable(s, r, n, e)
  PROVE  Pass(s, e) \in Envs(s, I) /\ Stable(s, r, n + 1, Pass(s, e))
<1> DEFINE us == Nets(s)
           m == Len(us)
<1>1. us \in Seq(Updates)  BY NetsAre
<1>2. m \in Nat /\ DOMAIN us = 1..m  BY <1>1, SeqIs
<1>3. PICK f : Passing!IsRun(f, s, e, us) /\ Passing!Folded(s, e, us) = f[m]
  BY <1>2, Passing!FoldedRuns
<1>4. f[0] = e /\ \A k \in 1..m : f[k] = Wire(s, f[k-1], us[k])
  BY <1>3 DEF Passing!IsRun, WireOne
<1>5. Pass(s, e) = f[m]  BY <1>3, PassIs
<1> DEFINE Above(v) == \E j \in 1..m : us[j].var = v /\ r[j] >= n + 1
           Q(k) == /\ f[k] \in Envs(s, I) /\ f[k].mem = e.mem
                   /\ \A v \in Scalars(s) \cup I : f[k].sig[v] = e.sig[v] \/ Above(v)
                   /\ \A j \in 1..k : r[j] <= n + 1 => f[k].sig[us[j].var] = Equation(s, j, e)
           T == {k \in 0..m : Q(k)}
<1>6. /\ \A i, j \in 1..m : us[i].var = us[j].var => i = j
      /\ \A i \in 1..m : us[i].var \in Scalars(s) /\ r[i] \in Nat
  BY <1>2 DEF SingleDriver
\* What is left of the pass does not matter to the wires up to this rank.
<1>7. ASSUME NEW k \in 0..m, f[k] \in Envs(s, I), f[k].mem = e.mem,
             \A v \in Scalars(s) \cup I : f[k].sig[v] = e.sig[v] \/ Above(v),
             NEW i \in 1..m, r[i] <= n + 1
      PROVE  Equation(s, i, f[k]) = Equation(s, i, e)
  <2>1. AlikeBelow(s, I, r, i, e, f[k])
    <3>1. ASSUME NEW v, Above(v)  PROVE \E j \in DOMAIN Nets(s) : Nets(s)[j].var = v /\ r[j] >= r[i]
      BY <1>2, <1>6, <1>7, <3>1
    <3> QED  BY <1>7, <3>1 DEF AlikeBelow
  <2>2. Eval(us[i].expr, f[k]) = Eval(us[i].expr, e)
    BY <1>2, <1>7, <2>1 DEF Ranks
  <2> QED  BY <2>2 DEF Equation
<1>8. Q(0)
  <2>1. 1..0 = {}  OBVIOUS
  <2> QED  BY <1>4, <2>1
<1> HIDE DEF us, m
<1>9. ASSUME NEW k \in Nat, k < m, Q(k)  PROVE Q(k + 1)
  <2>1. k + 1 \in 1..m /\ (k + 1) - 1 = k /\ k \in 0..m  BY <1>2, <1>9
  <2>2. 1..k+1 = (1..k) \cup {k+1} /\ k + 1 \notin 1..k  BY <1>9
  <2> DEFINE i == k + 1
  <2>3. f[i] = Wire(s, f[k], us[i])  BY <1>4, <2>1
  <2>4. Equation(s, i, f[k]) = Mask(Eval(us[i].expr, f[k]), s.vars[us[i].var].width)
    BY DEF Equation, us
  <2>5. /\ f[i] \in Envs(s, I) /\ f[i].mem = e.mem
        /\ \A v \in Scalars(s) \cup I :
             f[i].sig[v] = IF v = us[i].var THEN Equation(s, i, f[k]) ELSE f[k].sig[v]
    BY <1>6, <1>9, <2>1, <2>3, <2>4, WireSets
  <2>6. r[i] <= n + 1 => Equation(s, i, f[k]) = Equation(s, i, e)
    BY <1>7, <1>9, <2>1
  <2>7. r[i] <= n => Equation(s, i, e) = e.sig[us[i].var]
    BY <1>2, <2>1 DEF Stable, us
  <2>8. r[i] \in Nat /\ us[i].var \in Scalars(s)  BY <1>6, <2>1
  <2>9. \A v \in Scalars(s) \cup I : f[i].sig[v] = e.sig[v] \/ Above(v)
    <3> SUFFICES ASSUME NEW v \in Scalars(s) \cup I  PROVE f[i].sig[v] = e.sig[v] \/ Above(v)
      OBVIOUS
    <3>1. CASE v # us[i].var  BY <1>9, <2>5, <3>1
    <3>2. CASE v = us[i].var /\ r[i] >= n + 1  BY <2>1, <3>2
    <3>3. CASE v = us[i].var /\ r[i] <= n
      <4>1. r[i] <= n + 1  BY <2>8, <3>3
      <4> QED  BY <2>5, <2>6, <2>7, <3>3, <4>1
    <3> QED  BY <2>8, <3>1, <3>2, <3>3
  <2>10. \A j \in 1..i : r[j] <= n + 1 => f[i].sig[us[j].var] = Equation(s, j, e)
    <3> SUFFICES ASSUME NEW j \in 1..i, r[j] <= n + 1
                 PROVE  f[i].sig[us[j].var] = Equation(s, j, e)
      OBVIOUS
    <3>1. CASE j = i  BY <2>5, <2>6, <2>8, <3>1
    <3>2. CASE j \in 1..k
      <4>1. j \in 1..m /\ j # i  BY <1>2, <1>9, <2>2, <3>2
      <4>2. us[j].var # us[i].var /\ us[j].var \in Scalars(s)  BY <1>6, <2>1, <4>1
      <4> QED  BY <1>9, <2>5, <3>2, <4>2
    <3> QED  BY <2>2, <3>1, <3>2
  <2> QED  BY <2>5, <2>9, <2>10
<1> HIDE DEF Q
<1>10. 0 \in T /\ \A k \in Nat : k < m /\ k \in T => k + 1 \in T
  BY <1>2, <1>8, <1>9
<1> HIDE DEF T
<1>11. 0..m \subseteq T  BY <1>2, <1>10, Passing!IntervalInduction
<1>12. m \in 0..m  BY <1>2
<1>13. Q(m)  BY <1>11, <1>12 DEF T
<1> USE DEF Q
<1>14. f[m] \in Envs(s, I)  BY <1>13
<1>15. Stable(s, r, n + 1, f[m])
  <2> SUFFICES ASSUME NEW i \in 1..m, r[i] <= n + 1
               PROVE  f[m].sig[us[i].var] = Equation(s, i, f[m])
    BY <1>2 DEF Stable, us
  <2>1. f[m].sig[us[i].var] = Equation(s, i, e)  BY <1>13
  <2>2. Equation(s, i, f[m]) = Equation(s, i, e)  BY <1>7, <1>12, <1>13
  <2> QED  BY <2>1, <2>2
<1> QED  BY <1>5, <1>14, <1>15

\* Settling settles every wire: there are no more ranks than wires.
THEOREM SettleSettles ==
  ASSUME Evaluates, NEW s, IsSpec(s), NEW I, SingleDriver(s),
         NEW r \in [DOMAIN Nets(s) -> 1..Len(Nets(s))], Ranks(s, I, r),
         NEW e \in Envs(s, I)
  PROVE  \A i \in DOMAIN Nets(s) :
           Settle(s, e).sig[Nets(s)[i].var] = Equation(s, i, Settle(s, e))
<1> DEFINE m == Len(Nets(s))
<1>1. m \in Nat /\ DOMAIN Nets(s) = 1..m
  <2>1. Nets(s) \in Seq(Updates)  BY NetsAre
  <2> QED  BY <2>1, SeqIs
<1>2. PICK f : /\ f[0] = e
               /\ \A n \in 1..m + 1 : f[n] = Pass(s, f[n-1])
               /\ Settle(s, e) = f[m + 1]
  BY SettleRuns
<1>3. r \in [DOMAIN Nets(s) -> Nat] /\ \A i \in DOMAIN Nets(s) : r[i] \in 1..m
  BY <1>1
<1> HIDE DEF m
<1> DEFINE T == {n \in 0..m + 1 : f[n] \in Envs(s, I) /\ Stable(s, r, n, f[n])}
<1>4. 0 \in T
  <2>1. Stable(s, r, 0, e)  BY <1>3 DEF Stable
  <2> QED  BY <1>1, <1>2, <2>1
<1>5. \A n \in Nat : n < m + 1 /\ n \in T => n + 1 \in T
  <2> SUFFICES ASSUME NEW n \in Nat, n < m + 1, n \in T  PROVE n + 1 \in T
    OBVIOUS
  <2>1. n + 1 \in 1..m + 1 /\ (n + 1) - 1 = n /\ n + 1 \in 0..m + 1  BY <1>1
  <2>2. f[n + 1] = Pass(s, f[n])  BY <1>2, <2>1
  <2> DEFINE g == f[n]
  <2>3. g \in Envs(s, I) /\ Stable(s, r, n, g)  OBVIOUS
  <2> HIDE DEF g, T
  <2>4. Pass(s, g) \in Envs(s, I) /\ Stable(s, r, n + 1, Pass(s, g))
    BY <1>3, <2>3, PassSettles
  <2> QED  BY <2>1, <2>2, <2>4 DEF g, T
<1> HIDE DEF T
<1>6. m + 1 \in Nat  BY <1>1
<1>7. 0..m + 1 \subseteq T  BY <1>4, <1>5, <1>6, Settling!IntervalInduction
<1>8. Stable(s, r, m + 1, f[m + 1])  BY <1>6, <1>7 DEF T
<1>9. \A i \in DOMAIN Nets(s) : r[i] <= m + 1  BY <1>1, <1>3
<1> QED  BY <1>2, <1>8, <1>9 DEF Stable
-----------------------------------------------------------------------------
(* What is known: an edge makes no signal undefined. *)

AllKnown(s, I, e) ==
  /\ DOMAIN e.sig = Scalars(s) \cup I /\ e.mem \in Mems(s)
  /\ \A v \in DOMAIN e.sig : e.sig[v] \in Int

\* What the action is written with has a value where all signals have one.
Strict(s, I, a) ==
  \A e : AllKnown(s, I, e) =>
    /\ Eval(a.guard, e) \in Int
    /\ \A g \in Range(Groups(a)) :
         /\ g.guard # None => Eval(g.guard, e) \in Int
         /\ \A u \in Range(g.updates) : Eval(u.expr, e) \in Int

Firm(s, I) == {u \in Updates : \A e : AllKnown(s, I, e) => Eval(u.expr, e) \in Int}

FirstAt(us, t) == SelectInSeq(us, LAMBDA u : Target(u) = t)
LastAt(us, t)  == SelectLastInSeq(us, LAMBDA u : Target(u) = t)

LEMMA SelectedIs ==
  ASSUME NEW us \in Seq(Updates), NEW t, \E k \in DOMAIN us : Target(us[k]) = t
  PROVE  /\ FirstAt(us, t) \in DOMAIN us /\ Target(us[FirstAt(us, t)]) = t
         /\ LastAt(us, t) \in DOMAIN us
<1> DEFINE on == {k \in 1..Len(us) : Target(us[k]) = t}
<1>1. Len(us) \in Nat /\ DOMAIN us = 1..Len(us)  BY SeqIs
<1>2. on \in SUBSET (1..Len(us)) /\ on # {}  BY <1>1
<1>3. /\ FirstAt(us, t) = IF on # {} THEN Min(on) ELSE 0
      /\ LastAt(us, t) = IF on # {} THEN Max(on) ELSE 0
  BY DEF FirstAt, LastAt, SelectInSeq, SelectLastInSeq
<1> HIDE DEF on
<1>4. Min(on) \in on /\ Max(on) \in on  BY <1>1, <1>2, MinIs, MaxIs
<1>5. \A k \in on : k \in DOMAIN us /\ Target(us[k]) = t  BY <1>1 DEF on
<1> QED  BY <1>2, <1>3, <1>4, <1>5

LEMMA ReadKnown ==
  ASSUME NEW s, NEW I, NEW e, AllKnown(s, I, e), NEW v \in DOMAIN e.sig
  PROVE  Read(Scalar(v), e) = e.sig[v] /\ Read(Scalar(v), e) \in Int
BY DEF Read, Scalar, AllKnown

LEMMA CondKnown ==
  ASSUME NEW g \in Int, NEW x, NEW y  PROVE Cond(g, x, y) = IF g # 0 THEN x ELSE y
BY XAssumption DEF Cond

LEMMA AlternationKnown ==
  ASSUME NEW s, NEW I, NEW a \in Actions, Strict(s, I, a), a.branches # <<>>,
         NEW e, AllKnown(s, I, e), NEW v \in DOMAIN e.sig
  PROVE  AlternationValue(a, Scalar(v), e) \in Int
<1> DEFINE b == a.branches
           t == Scalar(v)
           Value(g) == Eval(b[g].updates[FirstAt(b[g].updates, t)].expr, e)
           taken == {k \in 1..Len(b) : Assigns(b[k], t) /\ Eval(b[k].guard, e) # 0}
<1>1. AlternationValue(a, t, e) =
        IF taken = {} THEN Read(t, e)
        ELSE Cond(Eval(b[Min(taken)].guard, e), Value(Min(taken)), Read(t, e))
  BY DEF AlternationValue, NestedIf, FirstAt
<1>2. b \in Seq(Branches) /\ Groups(a) = b  BY DEF Actions, Groups
<1>3. Len(b) \in Nat /\ DOMAIN b = 1..Len(b) /\ \A g \in 1..Len(b) : b[g] \in Branches
  BY <1>2, SeqIs
<1>4. Read(t, e) \in Int  BY ReadKnown
<1>5. ASSUME NEW g \in taken  PROVE Eval(b[g].guard, e) # 0 /\ Value(g) \in Int
  <2> DEFINE us == b[g].updates
             k == FirstAt(us, t)
  <2>1. us \in Seq(Updates) /\ b[g] \in Range(Groups(a))
    BY <1>2, <1>3 DEF Branches, Range
  <2>2. k \in DOMAIN us  BY <2>1, SelectedIs DEF Assigns
  <2> HIDE DEF k
  <2>3. us[k] \in Range(us)  BY <2>2 DEF Range
  <2>4. Eval(us[k].expr, e) \in Int  BY <2>1, <2>3 DEF Strict
  <2> QED  BY <2>4 DEF k
<1>6. taken # {} => Min(taken) \in taken  BY <1>3, MinIs
<1>7. \A g \in taken : Eval(b[g].guard, e) \in Int
  <2> SUFFICES ASSUME NEW g \in taken  PROVE Eval(b[g].guard, e) \in Int  OBVIOUS
  <2>1. b[g] \in Range(Groups(a))  BY <1>2, <1>3 DEF Range
  <2>2. b[g].guard # None  BY <1>3, NoneAssumption DEF Branches
  <2> QED  BY <2>1, <2>2 DEF Strict
<1> HIDE DEF taken, Value, b, t
<1> QED  BY <1>1, <1>4, <1>5, <1>6, <1>7, CondKnown DEF t

LEMMA FlatKnown ==
  ASSUME NEW s, NEW I, NEW a \in Actions, Strict(s, I, a),
         a.branches = <<>>, a.steps # <<>>, NEW e, AllKnown(s, I, e)
  PROVE  Flat(a, e) \in Seq([guard : Int, upd : Firm(s, I)])
<1> DEFINE p == a.steps
           S == [guard : Int, upd : Firm(s, I)]
           ss == [i \in DOMAIN p |->
                    [k \in DOMAIN p[i].updates |->
                       [guard |-> StepGuard(p[i], e), upd |-> p[i].updates[k]]]]
<1>1. p \in Seq(Steps) /\ Groups(a) = p  BY DEF Actions, Groups
<1>2. Len(p) \in Nat /\ DOMAIN p = 1..Len(p) /\ \A i \in 1..Len(p) : p[i] \in Steps
  BY <1>1, SeqIs
<1>3. Flat(a, e) = FlattenSeq(ss)  BY DEF Flat
<1>4. ASSUME NEW i \in 1..Len(p)  PROVE ss[i] \in Seq(S)
  <2> DEFINE us == p[i].updates
             g == StepGuard(p[i], e)
  <2>1. us \in Seq(Updates)  BY <1>2 DEF Steps
  <2>2. p[i] \in Range(Groups(a))  BY <1>1, <1>2 DEF Range
  <2>3. g \in Int  BY <2>2 DEF StepGuard, Strict
  <2>4. ss[i] = [k \in DOMAIN us |-> [guard |-> g, upd |-> us[k]]]  BY <1>2
  <2>5. \A u \in Range(us) : \A f : AllKnown(s, I, f) => Eval(u.expr, f) \in Int
    BY <2>2 DEF Strict
  <2> HIDE DEF us, g, ss, S
  <2>6. Len(us) \in Nat /\ DOMAIN us = 1..Len(us) /\ \A k \in 1..Len(us) : us[k] \in Updates
    BY <2>1, SeqIs
  <2>7. \A k \in 1..Len(us) : us[k] \in Range(us)  BY <2>6 DEF Range
  <2>8. \A k \in 1..Len(us) : us[k] \in Firm(s, I)  BY <2>5, <2>6, <2>7 DEF Firm
  <2>9. \A k \in 1..Len(us) : [guard |-> g, upd |-> us[k]] \in S  BY <2>3, <2>8 DEF S
  <2> QED  BY <2>4, <2>6, <2>9
<1>5. ss = [i \in 1..Len(p) |-> ss[i]]  BY <1>2
<1> HIDE DEF p, ss, S
<1>6. ss \in Seq(Seq(S))  BY <1>2, <1>4, <1>5, Parted
<1>7. FlattenSeq(ss) \in Seq(S)  BY <1>6, Flattened
<1> QED  BY <1>3, <1>7 DEF S

LEMMA SequentialKnown ==
  ASSUME NEW s, NEW I, NEW a \in Actions, Strict(s, I, a),
         a.branches = <<>>, a.steps # <<>>, NEW e, AllKnown(s, I, e),
         NEW v \in DOMAIN e.sig, Writes(a, Scalar(v))
  PROVE  SequentialValue(a, Scalar(v), e) \in Int
<1> DEFINE D == Range(TargetsOf(<<a>>))
           start == [u \in D |-> Read(u, e)]
           V == Int \cup {Read(u, e) : u \in D}
           A == {r \in [D -> V] : \A w \in DOMAIN e.sig : Scalar(w) \in D => r[Scalar(w)] \in Int}
           S == [guard : Int, upd : Firm(s, I)]
           end == Running!Folded(e, start, Flat(a, e))
<1>1. Scalar(v) \in D
  <2>1. <<a>> \in Seq(Actions) /\ 1 \in DOMAIN <<a>> /\ <<a>>[1] = a  OBVIOUS
  <2> QED  BY <2>1, TargetsAre
<1>2. SequentialValue(a, Scalar(v), e) = end[Scalar(v)]  BY SequentialValueRuns DEF AfterSteps
<1> HIDE DEF D
<1>3. start \in A  BY ReadKnown
<1>4. \A r \in A : \A z \in S : RunUpdate(e, r, z) \in A
  <2> SUFFICES ASSUME NEW r \in A, NEW z \in S  PROVE RunUpdate(e, r, z) \in A
    OBVIOUS
  <2> DEFINE x == Eval(z.upd.expr, Overlay(r, e))
             c(old) == Cond(z.guard, x, old)
  <2>1. RunUpdate(e, r, z) = [r EXCEPT ![Target(z.upd)] = c(@)]  BY DEF RunUpdate
  <2>2. r \in [D -> V] /\ \A w \in DOMAIN e.sig : Scalar(w) \in D => r[Scalar(w)] \in Int
    OBVIOUS
  <2>3. AllKnown(s, I, Overlay(r, e))
    <3> DEFINE T(w) == [var |-> w, idx |-> None]
    <3>1. \A w \in DOMAIN e.sig : T(w) \in D => r[T(w)] \in Int  BY <2>2 DEF Scalar
    <3>2. /\ Overlay(r, e).mem = e.mem
          /\ DOMAIN Overlay(r, e).sig = DOMAIN e.sig
          /\ \A w \in DOMAIN e.sig :
               Overlay(r, e).sig[w] = IF T(w) \in D THEN r[T(w)] ELSE e.sig[w]
      BY <2>2 DEF Overlay
    <3> HIDE DEF T
    <3> QED  BY <3>1, <3>2 DEF AllKnown
  <2>4. x \in Int /\ z.guard \in Int  BY <2>3 DEF Firm
  <2> HIDE DEF x
  <2>5. \A old : c(old) \in {x, old}  BY <2>4, CondKnown
  <2> HIDE DEF c
  <2>6. \A old : (old \in Int => c(old) \in Int) /\ (old \in V => c(old) \in V)
    BY <2>4, <2>5
  <2>7. /\ DOMAIN RunUpdate(e, r, z) = D
        /\ RunUpdate(e, r, z) = [q \in D |-> RunUpdate(e, r, z)[q]]
        /\ \A q \in D : RunUpdate(e, r, z)[q] \in {r[q], c(r[q])}
    BY <2>1, <2>2
  <2> HIDE DEF V
  <2> QED  BY <2>2, <2>6, <2>7
<1>5. Flat(a, e) \in Seq(S)  BY FlatKnown
<1> HIDE DEF A, S, start
<1>6. end \in A  BY <1>3, <1>4, <1>5, RunStays
<1> HIDE DEF end
<1> QED  BY <1>1, <1>2, <1>6 DEF A

\* What an action without branches and steps writes.
LEMMA PlainWrites ==
  ASSUME NEW a \in Actions, a.branches = <<>>, a.steps = <<>>, NEW t
  PROVE  Writes(a, t) <=> \E k \in DOMAIN a.updates : Target(a.updates[k]) = t
<1>1. a.updates \in Seq(Updates)  BY DEF Actions
<1> DEFINE gs == <<[guard |-> True, updates |-> a.updates]>>
           ss == [g \in DOMAIN gs |-> gs[g].updates]
<1>2. AllUpdates(a) = FlattenSeq(ss)  BY DEF AllUpdates, Groups
<1>3. DOMAIN gs = 1..1 /\ gs[1].updates = a.updates /\ 1..1 = {1}  OBVIOUS
<1> HIDE DEF gs
<1>4. ss = [g \in 1..1 |-> ss[g]] /\ ss[1] = a.updates  BY <1>3
<1> HIDE DEF ss
<1>5. ss \in Seq(Seq(Updates)) /\ DOMAIN ss = 1..1  BY <1>1, <1>3, <1>4, Parted
<1>6. \A x : x \in Range(FlattenSeq(ss)) <=> \E i \in DOMAIN ss : x \in Range(ss[i])
  BY <1>5, Flattened
<1>7. \A x : x \in Range(AllUpdates(a)) <=> x \in Range(a.updates)
  BY <1>2, <1>3, <1>4, <1>5, <1>6
<1>8. Writes(a, t) <=> \E x \in Range(AllUpdates(a)) : Target(x) = t
  BY DEF Writes, Range
<1>9. (\E k \in DOMAIN a.updates : Target(a.updates[k]) = t)
        <=> \E x \in Range(a.updates) : Target(x) = t
  BY DEF Range
<1> QED  BY <1>7, <1>8, <1>9

LEMMA ActionKnown ==
  ASSUME NEW s, NEW I, NEW a \in Actions, Strict(s, I, a), NEW e, AllKnown(s, I, e),
         NEW v \in DOMAIN e.sig, Writes(a, Scalar(v))
  PROVE  ActionValue(a, Scalar(v), e) \in Int
<1>1. CASE a.branches # <<>>  BY <1>1, AlternationKnown DEF ActionValue
<1>2. CASE a.branches = <<>> /\ a.steps # <<>>
  BY <1>2, SequentialKnown DEF ActionValue
<1>3. CASE a.branches = <<>> /\ a.steps = <<>>
  <2> DEFINE us == a.updates
             t == Scalar(v)
             k == LastAt(us, t)
  <2>1. ActionValue(a, t, e) = Eval(us[k].expr, e)  BY <1>3 DEF ActionValue, FlatValue, LastAt
  <2>2. us \in Seq(Updates) /\ \E g \in Range(Groups(a)) : g.updates = us
    <3>1. Groups(a) = <<[guard |-> True, updates |-> us]>>  BY <1>3 DEF Groups
    <3>2. Groups(a)[1] \in Range(Groups(a)) /\ Groups(a)[1].updates = us
      BY <3>1 DEF Range
    <3> QED  BY <3>2 DEF Actions
  <2>3. \E j \in DOMAIN us : Target(us[j]) = t
    <3>1. Writes(a, t)  OBVIOUS
    <3> QED  BY <1>3, <3>1, PlainWrites
  <2>4. k \in DOMAIN us  BY <2>2, <2>3, SelectedIs
  <2> HIDE DEF k
  <2>5. us[k] \in Range(us)  BY <2>4 DEF Range
  <2>6. Eval(us[k].expr, e) \in Int  BY <2>2, <2>5 DEF Strict
  <2> QED  BY <2>1, <2>6
<1> QED  BY <1>1, <1>2, <1>3

LEMMA NextKnown ==
  ASSUME NEW s, NEW I, NEW as \in Seq(Actions), \A i \in DOMAIN as : Strict(s, I, as[i]),
         NEW e, AllKnown(s, I, e), NEW v \in DOMAIN e.sig
  PROVE  NextValue(as, Scalar(v), e) \in Int
<1> DEFINE t == Scalar(v)
           Value(k) == ActionValue(as[k], t, e)
           taken == {k \in 1..Len(as) : (Writes(as[k], t) /\ Guarded(as[k]))
                                        /\ Eval(as[k].guard, e) # 0}
           free == {k \in DOMAIN as : Writes(as[k], t) /\ ~Guarded(as[k])}
           default == IF free = {} THEN Read(t, e) ELSE Value(Min(free))
<1>1. NextValue(as, t, e) =
        IF taken = {} THEN default
        ELSE Cond(Eval(as[Min(taken)].guard, e), Value(Min(taken)), default)
  BY DEF NextValue, NestedIf
<1>2. Len(as) \in Nat /\ DOMAIN as = 1..Len(as) /\ \A i \in 1..Len(as) : as[i] \in Actions
  BY SeqIs
<1>3. \A k \in 1..Len(as) : Writes(as[k], t) => Value(k) \in Int
  BY <1>2, ActionKnown
<1>4. taken # {} => Min(taken) \in taken  BY <1>2, MinIs
<1>5. free # {} => Min(free) \in 1..Len(as) /\ Writes(as[Min(free)], t)
  BY <1>2, MinIs
<1>6. Read(t, e) \in Int  BY ReadKnown
<1>7. \A k \in taken : /\ Writes(as[k], t) /\ k \in 1..Len(as)
                       /\ Eval(as[k].guard, e) \in Int /\ Eval(as[k].guard, e) # 0
  BY <1>2 DEF Strict
<1> HIDE DEF Value, taken, free, t
<1>8. default \in Int  BY <1>3, <1>5, <1>6
<1> HIDE DEF default
<1>9. CASE taken # {}
  <2> DEFINE m == Min(taken)
             g == Eval(as[m].guard, e)
  <2>1. m \in taken  BY <1>4, <1>9
  <2>2. NextValue(as, t, e) = Cond(g, Value(m), default)  BY <1>1, <1>9
  <2> HIDE DEF m
  <2>3. Writes(as[m], t) /\ m \in 1..Len(as) /\ g \in Int /\ g # 0  BY <1>7, <2>1
  <2> HIDE DEF g
  <2>4. Cond(g, Value(m), default) = Value(m)  BY <2>3, CondKnown
  <2> QED  BY <1>3, <2>2, <2>3, <2>4 DEF t
<1> QED  BY <1>1, <1>8, <1>9 DEF t

LEMMA MaskKnown == ASSUME NEW w \in Nat, NEW x \in Int  PROVE Mask(x, w) \in Int
<1> DEFINE m == 2^w
<1>1. m \in Nat \ {0} /\ Mask(x, w) = x % m  BY PowerIs, XAssumption DEF Mask
<1> HIDE DEF m
<1> QED  BY <1>1

LEMMA CommitKnown ==
  ASSUME NEW s, IsSpec(s), NEW v, NEW x \in Int  PROVE Commit(s, v, x) \in Int
<1>1. v \in DOMAIN s.vars => s.vars[v].width \in Nat  BY DEF IsSpec, IsVariable
<1> QED  BY <1>1, MaskKnown DEF Commit

\* Each wire has a value where all wires before it have one.
LEMMA SettledKnown ==
  ASSUME Evaluates, NEW s, IsSpec(s), NEW I, SingleDriver(s),
         NEW r \in [DOMAIN Nets(s) -> 1..Len(Nets(s))], Ranks(s, I, r),
         \A u \in Range(Nets(s)) : u \in Firm(s, I),
         NEW e \in Envs(s, I),
         \A v \in Scalars(s) \cup I : (\A u \in Range(Nets(s)) : u.var # v) => e.sig[v] \in Int
  PROVE  AllKnown(s, I, Settle(s, e))
<1> DEFINE us == Nets(s)
           m == Len(us)
           q == Settle(s, e)
           off == {v \in Scalars(s) \cup I : q.sig[v] = X}
           R == {k \in 1..m : \E j \in DOMAIN us : r[j] = k /\ us[j].var \in off}
<1>1. q \in Envs(s, I)  BY SettleKeeps
<1>2. \A v \in Scalars(s) \cup I :
        (\A u \in Range(us) : u.var # v) => q.sig[v] \in Int
  BY SettleFrame
<1>3. \A i \in DOMAIN us : q.sig[us[i].var] = Equation(s, i, q)  BY SettleSettles
<1> HIDE DEF q
<1>4. /\ DOMAIN q.sig = Scalars(s) \cup I /\ \A v \in DOMAIN q.sig : q.sig[v] \in Cells
      /\ q = [sig |-> q.sig, mem |-> q.mem] /\ q.mem \in Mems(s)
      /\ q.sig \in Sigs(s, I)
  BY <1>1, EnvIs DEF IsEnv
<1>5. m \in Nat /\ DOMAIN us = 1..m
  <2>1. us \in Seq(Updates)  BY NetsAre
  <2> QED  BY <2>1, SeqIs
<1>6. SUFFICES off = {}
  <2>1. ASSUME off = {}  PROVE \A v \in DOMAIN q.sig : q.sig[v] \in Int
    BY <1>4, <2>1 DEF Cells
  <2> QED  BY <1>4, <2>1 DEF AllKnown, q
\* What is undefined is a wire.
<1>7. \A v \in off : \E j \in DOMAIN us : us[j].var = v
  <2> SUFFICES ASSUME NEW v \in off  PROVE \E j \in DOMAIN us : us[j].var = v  OBVIOUS
  <2>1. \E u \in Range(us) : u.var = v  BY <1>2, XAssumption
  <2> QED  BY <2>1 DEF Range
<1> SUFFICES ASSUME off # {}  PROVE FALSE  OBVIOUS
<1>8. R # {}  BY <1>5, <1>7
<1>9. PICK k \in R : \A y \in R : k <= y  BY <1>5, <1>8, MinExists
<1>10. PICK i \in DOMAIN us : r[i] = k /\ us[i].var \in off  BY <1>9
\* The same signals with 0 for what is undefined.
<1> DEFINE f == [v \in Scalars(s) \cup I |-> IF v \in off THEN 0 ELSE q.sig[v]]
           g == [sig |-> f, mem |-> q.mem]
<1>11. g \in Envs(s, I) /\ AllKnown(s, I, g)
  <2>1. \A v \in Scalars(s) \ I : 0 \in Fitting(s, v)
    <3> SUFFICES ASSUME NEW v \in Scalars(s)  PROVE 0 \in Fitting(s, v)  OBVIOUS
    <3> DEFINE w == s.vars[v].width
    <3>1. w \in Nat  BY DEF IsSpec, IsVariable, Scalars
    <3> HIDE DEF w
    <3>2. 2^w \in Nat \ {0}  BY <3>1, PowerIs
    <3> QED  BY <3>2 DEF Fitting, Holds, Cells, w
  <2>2. f \in Sigs(s, I)
    <3>1. \A v \in Scalars(s) \cup I : f[v] \in Cells  BY <1>4 DEF Cells
    <3>2. \A v \in Scalars(s) \ I : f[v] \in Fitting(s, v)  BY <1>4, <2>1 DEF Sigs
    <3> QED  BY <3>1, <3>2 DEF Sigs
  <2>3. \A v \in Scalars(s) \cup I : f[v] \in Int  BY <1>4 DEF Cells
  <2> HIDE DEF f
  <2>4. DOMAIN f = Scalars(s) \cup I  BY <2>2 DEF Sigs
  <2> QED  BY <1>4, <2>2, <2>3, <2>4 DEF Envs, AllKnown
<1>12. AlikeBelow(s, I, r, i, q, g)
  <2>1. \A v \in Scalars(s) \cup I :
          g.sig[v] = q.sig[v] \/ \E j \in DOMAIN us : us[j].var = v /\ r[j] >= r[i]
    <3> SUFFICES ASSUME NEW v \in off  PROVE \E j \in DOMAIN us : us[j].var = v /\ r[j] >= r[i]
      OBVIOUS
    <3>1. PICK j \in DOMAIN us : us[j].var = v  BY <1>7
    <3>2. r[j] \in R  BY <3>1
    <3>3. r[j] \in 1..m  OBVIOUS
    <3> QED  BY <1>9, <1>10, <3>1, <3>2, <3>3
  <2> QED  BY <2>1 DEF AlikeBelow
<1> HIDE DEF g, R, off
<1>13. Eval(us[i].expr, g) = Eval(us[i].expr, q)  BY <1>1, <1>10, <1>11, <1>12 DEF Ranks
<1>14. Eval(us[i].expr, g) \in Int
  <2>1. us[i] \in Range(us)  BY <1>10 DEF Range
  <2> QED  BY <1>11, <2>1 DEF Firm
<1>15. us[i].var \in Scalars(s) /\ q.sig[us[i].var] = X
  BY <1>10 DEF off, SingleDriver
<1>16. Equation(s, i, q) \in Int
  <2> DEFINE w == s.vars[us[i].var].width
             x == Eval(us[i].expr, q)
  <2>1. w \in Nat  BY <1>15 DEF IsSpec, IsVariable, Scalars
  <2>2. x \in Int  BY <1>13, <1>14
  <2>3. Equation(s, i, q) = Mask(x, w)  BY DEF Equation
  <2> HIDE DEF w, x
  <2>4. Mask(x, w) \in Int  BY <2>1, <2>2, MaskKnown
  <2> QED  BY <2>3, <2>4
<1> QED  BY <1>3, <1>10, <1>15, <1>16, XAssumption

\* Wires that settle, and clocked actions and wires without undefined texts.
Definite(s, I) ==
  /\ SingleDriver(s)
  /\ \E r \in [DOMAIN Nets(s) -> 1..Len(Nets(s))] : Ranks(s, I, r)
  /\ \A u \in Range(Nets(s)) : u \in Firm(s, I)
  /\ \A i \in DOMAIN Clocked(s) : Strict(s, I, Clocked(s)[i])

Undriven(s, v) == \A u \in Range(Nets(s)) : u.var # v

\* The reset action gives every register a value, whatever the signals are.
ResetsAll(s, I) ==
  LET ra == Resetting(s)
  IN  /\ \A v \in Scalars(s) \ I :
           Undriven(s, v) => ra # <<>> /\ IsRegister(s, v) /\ Writes(ra[1], Scalar(v))
      /\ ra # <<>> =>
           \A v : Writes(ra[1], Scalar(v)) =>
             \A e \in Envs(s, I) : ActionValue(ra[1], Scalar(v), e) \in Int

LEMMA WiresKnown ==
  ASSUME Evaluates, NEW s, IsSpec(s), NEW I, Definite(s, I), NEW e \in Envs(s, I),
         \A v \in Scalars(s) \cup I : Undriven(s, v) => e.sig[v] \in Int
  PROVE  AllKnown(s, I, Settle(s, e))
<1>1. PICK r \in [DOMAIN Nets(s) -> 1..Len(Nets(s))] : Ranks(s, I, r)  BY DEF Definite
<1>2. SingleDriver(s) /\ \A u \in Range(Nets(s)) : u \in Firm(s, I)  BY DEF Definite
<1>3. \A v \in Scalars(s) \cup I : (\A u \in Range(Nets(s)) : u.var # v) => e.sig[v] \in Int
  BY DEF Undriven
<1> QED  BY <1>1, <1>2, <1>3, SettledKnown

\* What an edge sees of the inputs and of what no wire drives.
LEMMA SeenFrame ==
  ASSUME Evaluates, NEW s, IsSpec(s), NEW I, NEW e \in Envs(s, I), NEW in \in [I -> Cells]
  PROVE  \E start \in Envs(s, I) :
           /\ Seen(s, e, in) = Settle(s, start)
           /\ \A v \in Scalars(s) \cup I :
                start.sig[v] = IF v \in I THEN in[v] ELSE e.sig[v]
<1> DEFINE f == [v \in DOMAIN e.sig |-> IF v \in DOMAIN in THEN in[v] ELSE e.sig[v]]
           start == [sig |-> f, mem |-> e.mem]
<1>1. /\ e = [sig |-> e.sig, mem |-> e.mem] /\ DOMAIN e.sig = Scalars(s) \cup I
      /\ e.sig \in Sigs(s, I) /\ e.mem \in Mems(s)
  BY EnvIs
<1>2. WithInputs(e, in) = start  BY <1>1 DEF WithInputs
<1>3. f \in Sigs(s, I) /\ \A v \in Scalars(s) \cup I : f[v] = IF v \in I THEN in[v] ELSE e.sig[v]
  BY <1>1 DEF Sigs
<1> HIDE DEF f
<1>4. start \in Envs(s, I)  BY <1>1, <1>3 DEF Envs
<1> QED  BY <1>2, <1>3, <1>4 DEF Seen

\* A normal edge makes nothing undefined.
THEOREM ClockEdgeKnows ==
  ASSUME Evaluates, NEW s, IsSpec(s), NEW I, Definite(s, I),
         NEW e \in Envs(s, I), AllKnown(s, I, e), NEW in \in [I -> Int]
  PROVE  AllKnown(s, I, ClockEdge(s, e, in))
<1> DEFINE pre == Seen(s, e, in)
           post == [sig |-> EdgeSig(s, pre), mem |-> EdgeMem(s, pre)]
<1>1. in \in [I -> Cells] /\ \A v \in I : in[v] \in Int  BY DEF Cells
<1>2. pre \in Envs(s, I)  BY <1>1, SeenIs
<1>3. ClockEdge(s, e, in) = Settle(s, post)  BY ClockEdgeIs
<1>4. AllKnown(s, I, pre)
  <2>1. PICK start \in Envs(s, I) :
          /\ pre = Settle(s, start)
          /\ \A v \in Scalars(s) \cup I : start.sig[v] = IF v \in I THEN in[v] ELSE e.sig[v]
    BY <1>1, SeenFrame
  <2>2. \A v \in Scalars(s) \cup I : start.sig[v] \in Int  BY <1>1, <2>1 DEF AllKnown
  <2> QED  BY <2>1, <2>2, WiresKnown
<1> HIDE DEF pre
<1>5. post \in Envs(s, I)  BY <1>2, EdgeSigIs, EdgeMemIs DEF Envs
<1>6. \A v \in Scalars(s) \cup I : EdgeSig(s, pre)[v] \in Int
  <2> SUFFICES ASSUME NEW v \in Scalars(s) \cup I  PROVE EdgeSig(s, pre)[v] \in Int
    OBVIOUS
  <2> DEFINE as == Clocked(s)
             x == NextValue(as, Scalar(v), pre)
  <2>1. v \in DOMAIN pre.sig /\ pre.sig[v] \in Int  BY <1>4 DEF AllKnown
  <2>2. as \in Seq(Actions)  BY PartsAre
  <2>3. \A i \in DOMAIN as : Strict(s, I, as[i])  BY DEF Definite
  <2> HIDE DEF as
  <2>4. x \in Int  BY <1>4, <2>1, <2>2, <2>3, NextKnown
  <2>5. Landing(s, pre, Scalar(v)) = Commit(s, v, x)  BY DEF Landing, Scalar, as
  <2> HIDE DEF x
  <2>6. Commit(s, v, x) \in Int  BY <2>4, CommitKnown
  <2> QED  BY <2>1, <2>5, <2>6 DEF EdgeSig
<1>7. \A v \in Scalars(s) \cup I : post.sig[v] \in Int  BY <1>6
<1> HIDE DEF post
<1> QED  BY <1>3, <1>5, <1>7, WiresKnown

\* A reset edge leaves everything known, whatever it found.
THEOREM ResetEdgeKnows ==
  ASSUME Evaluates, NEW s, IsSpec(s), NEW I, Definite(s, I), ResetsAll(s, I),
         NEW e \in Envs(s, I), NEW in \in [I -> Int]
  PROVE  AllKnown(s, I, ResetEdge(s, e, in))
<1> DEFINE pre == Seen(s, e, in)
           ra == Resetting(s)
           resets(v) == /\ v \in DOMAIN s.vars /\ IsRegister(s, v)
                        /\ ra # <<>> /\ Writes(ra[1], Scalar(v))
           value(v) == Commit(s, v, ActionValue(ra[1], Scalar(v), pre))
           f == [v \in DOMAIN pre.sig |-> IF resets(v) THEN value(v) ELSE pre.sig[v]]
           post == [pre EXCEPT !.sig = f]
<1>1. in \in [I -> Cells] /\ \A v \in I : in[v] \in Int  BY DEF Cells
<1>2. pre \in Envs(s, I)  BY <1>1, SeenIs
<1>3. ResetEdge(s, e, in) = Settle(s, post)  BY DEF ResetEdge, Scalar
<1>4. ASSUME NEW v \in I, Undriven(s, v)  PROVE pre.sig[v] \in Int
  <2>1. PICK start \in Envs(s, I) :
          /\ pre = Settle(s, start)
          /\ \A w \in Scalars(s) \cup I : start.sig[w] = IF w \in I THEN in[w] ELSE e.sig[w]
    BY <1>1, SeenFrame
  <2>2. pre.sig[v] = start.sig[v]  BY <1>4, <2>1, SettleFrame DEF Undriven
  <2> QED  BY <1>1, <2>1, <2>2
<1> HIDE DEF pre
<1>5. /\ pre = [sig |-> pre.sig, mem |-> pre.mem] /\ pre.mem \in Mems(s)
      /\ pre.sig \in Sigs(s, I) /\ DOMAIN pre.sig = Scalars(s) \cup I
  BY <1>2, EnvIs
<1>6. ASSUME NEW v, resets(v)  PROVE value(v) \in Int /\ value(v) \in Fitting(s, v)
  <2> DEFINE x == ActionValue(ra[1], Scalar(v), pre)
  <2>1. x \in Int  BY <1>2, <1>6 DEF ResetsAll
  <2> HIDE DEF x
  <2>2. Commit(s, v, x) \in Int  BY <2>1, CommitKnown
  <2>3. Commit(s, v, x) \in Fitting(s, v)  BY <1>6, <2>1, CommitIs DEF Fitting, Cells
  <2> QED  BY <2>2, <2>3 DEF x
<1>7. \A v \in Scalars(s) \cup I : Undriven(s, v) => resets(v) \/ pre.sig[v] \in Int
  <2>1. \A v \in Scalars(s) \ I : Undriven(s, v) => resets(v)
    BY DEF ResetsAll, Scalars
  <2> QED  BY <1>4, <2>1
<1> HIDE DEF resets, value
<1>8. f \in Sigs(s, I)  BY <1>5, <1>6 DEF Sigs, Cells
<1>9. \A v \in Scalars(s) \cup I : Undriven(s, v) => f[v] \in Int
  BY <1>5, <1>6, <1>7
<1>10. post = [sig |-> f, mem |-> pre.mem]  BY <1>5
<1> HIDE DEF f
<1>11. post \in Envs(s, I) /\ post.sig = f  BY <1>5, <1>8, <1>10 DEF Envs
<1> HIDE DEF post
<1> QED  BY <1>3, <1>9, <1>11, WiresKnown
-----------------------------------------------------------------------------
(* Steps: what the running values of the composition mean in registers *)

\* One step on the registers: its updates at once (SpecCircuit!RunSteps).
AfterStep(s, e, g) ==
  IF StepGuard(g, e) = 0 THEN e
  ELSE [e EXCEPT !.sig = [v \in DOMAIN @ |->
          LET mine == {k \in DOMAIN g.updates : g.updates[k].var = v}
          IN  IF mine = {} THEN @[v]
              ELSE Mask(Eval(g.updates[CHOOSE k \in mine : TRUE].expr, e), s.vars[v].width)]]

Stepping == INSTANCE Recursion WITH Step <- AfterStep

\* What the first n of a list of updates write, and the steps before step j.
Firsts(us, n) == {us[i].var : i \in 1..n}

Earlier(a, j) ==
  UNION {Firsts(a.steps[i].updates, Len(a.steps[i].updates)) : i \in 1..j-1}

\* e and f differ in V only.
AlikeOutside(V, e, f) ==
  /\ e.mem = f.mem
  /\ \A v \in DOMAIN f.sig : v \notin V => e.sig[v] = f.sig[v]

\* The value of x does not depend on V.
Blind(s, I, V, x) ==
  \A e, f \in Envs(s, I) : AlikeOutside(V, e, f) => Eval(x, e) = Eval(x, f)

\* What f holds in V is what e holds there, cut to its width.
Carries(s, I, V, e, f) ==
  /\ IsEnv(e) /\ f \in Envs(s, I)
  /\ DOMAIN e.sig = DOMAIN f.sig /\ AlikeOutside(V, e, f)
  /\ \A v \in DOMAIN f.sig : v \in V => f.sig[v] = Commit(s, v, e.sig[v])

\* The width that is cut off does not show in what u writes.
Uncarried(s, I, V, u) ==
  \A e, f : Carries(s, I, V, e, f) =>
    Commit(s, u.var, Eval(u.expr, e)) = Commit(s, u.var, Eval(u.expr, f))

\* One update for each register.
Once(us) ==
  \A i, k \in DOMAIN us : us[i].var = us[k].var /\ us[k].idx = None => i = k

\* Update k of us, after steps that write the registers in V: it reads nothing
\* that its own step has written, and shows no carry.
Composable(s, I, V, us, k) ==
  /\ Blind(s, I, Firsts(us, k - 1), us[k].expr)
  /\ Uncarried(s, I, V \cup Firsts(us, k - 1), us[k])

\* The branches and steps can be composed into one expression per register.
Ordered(s, I, a) ==
  /\ \A j \in DOMAIN a.branches : Once(a.branches[j].updates)
  /\ \A j \in DOMAIN a.steps :
       /\ Once(a.steps[j].updates)
       /\ a.steps[j].guard # None => Blind(s, I, Earlier(a, j), a.steps[j].guard)
       /\ \A k \in DOMAIN a.steps[j].updates :
            a.steps[j].updates[k].idx = None =>
              Composable(s, I, Earlier(a, j), a.steps[j].updates, k)

\* Targets that a clocked action may have.
Proper(s, I, D) ==
  \A t \in D : /\ t \in Targets /\ t.var \in DOMAIN s.vars /\ t.var \notin I
               /\ t.idx = None <=> ~IsMemory(s, t.var)

\* Running values of the targets D.
Runs(D, r) ==
  /\ r = [t \in D |-> r[t]]
  /\ \A v : Scalar(v) \in D => r[Scalar(v)] \in Cells

\* The signals when the registers take their running values.
HeldSig(s, r, pre) ==
  [v \in DOMAIN pre.sig |->
     IF Scalar(v) \in DOMAIN r THEN Commit(s, v, r[Scalar(v)]) ELSE pre.sig[v]]

Held(s, r, pre) == [sig |-> HeldSig(s, r, pre), mem |-> pre.mem]

\* Without an address: a register that is no input.  With one: a memory.
LEMMA ProperScalar ==
  ASSUME NEW s, NEW I, NEW D, Proper(s, I, D), NEW t \in D
  PROVE  /\ t.var \in Scalars(s) <=> t.idx = None
         /\ t.idx = None => t = Scalar(t.var) /\ t.var \in Scalars(s) /\ t.var \notin I
         /\ t.idx # None => t.var \notin Scalars(s) \cup I
BY DEF Proper, Scalars, Scalar, Targets

\* They are a state of the signals.
LEMMA HeldIs ==
  ASSUME NEW s, IsSpec(s), NEW I, NEW pre \in Envs(s, I), NEW D, Proper(s, I, D),
         NEW r, Runs(D, r)
  PROVE  /\ Held(s, r, pre) \in Envs(s, I)
         /\ Held(s, r, pre).mem = pre.mem /\ DOMAIN Held(s, r, pre).sig = DOMAIN pre.sig
         /\ \A v \in DOMAIN pre.sig :
              Held(s, r, pre).sig[v] =
                IF Scalar(v) \in D THEN Commit(s, v, r[Scalar(v)]) ELSE pre.sig[v]
<1> DEFINE f == HeldSig(s, r, pre)
<1>1. /\ pre.sig \in Sigs(s, I) /\ DOMAIN pre.sig = Scalars(s) \cup I
      /\ pre.mem \in Mems(s)
  BY EnvIs
<1>2. DOMAIN r = D  BY DEF Runs
<1>3. DOMAIN f = DOMAIN pre.sig /\ f = [v \in DOMAIN pre.sig |-> f[v]]
  BY DEF HeldSig
<1>4. \A v \in DOMAIN pre.sig :
        f[v] = IF Scalar(v) \in D THEN Commit(s, v, r[Scalar(v)]) ELSE pre.sig[v]
  BY <1>2 DEF HeldSig
<1>5. \A v \in DOMAIN pre.sig :
        Scalar(v) \in D => f[v] \in Cells /\ (v \in DOMAIN s.vars => f[v] \in Fitting(s, v))
  BY <1>4, CommitIs DEF Runs, Fitting
<1> HIDE DEF f
<1>6. f \in Sigs(s, I)
  <2>1. \A v \in Scalars(s) \cup I : f[v] \in Cells
    BY <1>1, <1>4, <1>5 DEF Sigs
  <2>2. \A v \in Scalars(s) \ I : f[v] \in Fitting(s, v)
    BY <1>1, <1>4, <1>5 DEF Sigs, Scalars
  <2> QED  BY <1>1, <1>3, <2>1, <2>2 DEF Sigs
<1>7. Held(s, r, pre) = [sig |-> f, mem |-> pre.mem]  BY DEF Held, f
<1> QED  BY <1>1, <1>3, <1>4, <1>6, <1>7 DEF Envs

\* What the expressions are evaluated in: running values, not cut to a width.
LEMMA OverlayIs ==
  ASSUME NEW s, NEW I, NEW pre \in Envs(s, I), NEW D, NEW r, Runs(D, r)
  PROVE  /\ IsEnv(Overlay(r, pre))
         /\ Overlay(r, pre).mem = pre.mem /\ DOMAIN Overlay(r, pre).sig = DOMAIN pre.sig
         /\ \A v \in DOMAIN pre.sig :
              Overlay(r, pre).sig[v] = IF Scalar(v) \in D THEN r[Scalar(v)] ELSE pre.sig[v]
<1>1. IsEnv(pre) /\ pre \in [sig : Sigs(s, I), mem : Mems(s)]  BY EnvIs DEF Envs
<1>2. DOMAIN r = D  BY DEF Runs
<1> DEFINE T(v) == [var |-> v, idx |-> None]
<1>3. /\ Overlay(r, pre).mem = pre.mem
      /\ DOMAIN Overlay(r, pre).sig = DOMAIN pre.sig
      /\ \A v \in DOMAIN pre.sig :
           Overlay(r, pre).sig[v] = IF T(v) \in D THEN r[T(v)] ELSE pre.sig[v]
  BY <1>1, <1>2 DEF Overlay
<1>4. \A v : T(v) = Scalar(v)  BY DEF Scalar
<1> HIDE DEF T
<1> QED  BY <1>1, <1>3, <1>4 DEF IsEnv, Runs

\* Signals of a spec fit their widths: to commit them changes nothing.
LEMMA CommitAgain ==
  ASSUME NEW s, IsSpec(s), NEW I, NEW pre \in Envs(s, I), NEW v \in Scalars(s), v \notin I
  PROVE  Commit(s, v, pre.sig[v]) = pre.sig[v]
<1>1. pre.sig \in Sigs(s, I)  BY EnvIs
<1>2. pre.sig[v] \in Fitting(s, v)  BY <1>1 DEF Sigs
<1>3. v \in DOMAIN s.vars /\ s.vars[v].width \in Nat  BY DEF Scalars, IsSpec, IsVariable
<1> QED  BY <1>2, <1>3, MaskAgain DEF Fitting, Commit

\* The values of the targets that are not in V are those of pre.
Untouched(D, V, r, pre) ==
  \A v : Scalar(v) \in D /\ v \notin V => r[Scalar(v)] = pre.sig[v]

\* The two differ by the width that is cut off, in what has been written.
LEMMA OverlayCarries ==
  ASSUME NEW s, IsSpec(s), NEW I, NEW pre \in Envs(s, I), NEW D, Proper(s, I, D),
         NEW r, Runs(D, r), NEW V, Untouched(D, V, r, pre),
         \A v \in V : v \in DOMAIN pre.sig => Scalar(v) \in D
  PROVE  Carries(s, I, V, Overlay(r, pre), Held(s, r, pre))
<1> DEFINE e == Overlay(r, pre)
           f == Held(s, r, pre)
<1>1. /\ IsEnv(e) /\ e.mem = pre.mem /\ DOMAIN e.sig = DOMAIN pre.sig
      /\ \A v \in DOMAIN pre.sig :
           e.sig[v] = IF Scalar(v) \in D THEN r[Scalar(v)] ELSE pre.sig[v]
  BY OverlayIs
<1>2. /\ f \in Envs(s, I) /\ f.mem = pre.mem /\ DOMAIN f.sig = DOMAIN pre.sig
      /\ \A v \in DOMAIN pre.sig :
           f.sig[v] = IF Scalar(v) \in D THEN Commit(s, v, r[Scalar(v)]) ELSE pre.sig[v]
  BY HeldIs
<1> HIDE DEF e, f
<1>3. ASSUME NEW v \in DOMAIN pre.sig, v \notin V  PROVE e.sig[v] = f.sig[v]
  <2>1. CASE Scalar(v) \in D
    <3>1. Scalar(v).var = v /\ Scalar(v).idx = None  BY DEF Scalar
    <3>2. v \in Scalars(s) /\ v \notin I  BY <2>1, <3>1, ProperScalar
    <3>3. r[Scalar(v)] = pre.sig[v]  BY <1>3, <2>1 DEF Untouched
    <3> QED  BY <1>1, <1>2, <2>1, <3>2, <3>3, CommitAgain
  <2>2. CASE Scalar(v) \notin D  BY <1>1, <1>2, <2>2
  <2> QED  BY <2>1, <2>2
<1>4. \A v \in DOMAIN f.sig : v \in V => f.sig[v] = Commit(s, v, e.sig[v])
  BY <1>1, <1>2
<1>5. AlikeOutside(V, e, f)  BY <1>1, <1>2, <1>3 DEF AlikeOutside
<1>6. Carries(s, I, V, e, f)  BY <1>1, <1>2, <1>4, <1>5 DEF Carries
<1> QED  BY <1>6 DEF e, f

\* Where the updates that have written V, and only V, have led from pre.
Reached(s, D, V, r, pre) ==
  /\ Runs(D, r) /\ Untouched(D, V, r, pre)
  /\ \A v \in V : v \in DOMAIN pre.sig => Scalar(v) \in D

\* The updates of one step write to D.
Within(D, us) == \A k \in DOMAIN us : Target(us[k]) \in D

\* The registers that the first k updates do not write.
Unmoved(D, us, k, r, q) ==
  \A v : Scalar(v) \in D /\ v \notin Firsts(us, k) => q[Scalar(v)] = r[Scalar(v)]

\* What the first updates write are signals only where they are targets.
LEMMA FirstsOk ==
  ASSUME NEW s, IsSpec(s), NEW I, NEW pre \in Envs(s, I), NEW D, Proper(s, I, D),
         NEW us \in Seq(Updates), Within(D, us), NEW k \in 0..Len(us)
  PROVE  \A v \in Firsts(us, k) : v \in DOMAIN pre.sig => Scalar(v) \in D
<1> SUFFICES ASSUME NEW v \in Firsts(us, k), v \in DOMAIN pre.sig  PROVE Scalar(v) \in D
  OBVIOUS
<1>1. PICK i \in 1..k : v = us[i].var  BY DEF Firsts
<1>2. i \in DOMAIN us  BY <1>1, SeqIs
<1> DEFINE t == Target(us[i])
<1>3. t \in D /\ t.var = v  BY <1>1, <1>2 DEF Within, Target
<1> HIDE DEF t
<1>4. v \in Scalars(s) \cup I  BY EnvIs
<1>5. t.idx = None  BY <1>3, <1>4, ProperScalar
<1> QED  BY <1>3, <1>5, ProperScalar

\* What update u sees in the running values, and what in those of the step's start.
LEMMA UpdateSees ==
  ASSUME Evaluates, NEW s, IsSpec(s), NEW I, NEW pre \in Envs(s, I), NEW D, Proper(s, I, D),
         NEW V, NEW r, Reached(s, D, V, r, pre),
         NEW us \in Seq(Updates), Within(D, us), NEW k \in 1..Len(us),
         NEW q, Runs(D, q), Unmoved(D, us, k - 1, r, q),
         us[k].idx = None => Composable(s, I, V, us, k)
  PROVE  LET x == Eval(us[k].expr, Overlay(q, pre))
         IN  /\ x \in Cells
             /\ us[k].idx = None =>
                  Commit(s, us[k].var, x)
                    = Commit(s, us[k].var, Eval(us[k].expr, Held(s, r, pre)))
<1> DEFINE F == Firsts(us, k - 1)
           W == V \cup F
           u == us[k]
<1>1. k - 1 \in 0..Len(us)  BY SeqIs
<1>2. \A v \in W : v \in DOMAIN pre.sig => Scalar(v) \in D
  BY <1>1, FirstsOk DEF Reached
<1>3. Untouched(D, W, q, pre)  BY DEF Reached, Untouched, Unmoved
<1> HIDE DEF W
<1>4. Carries(s, I, W, Overlay(q, pre), Held(s, q, pre))  BY <1>2, <1>3, OverlayCarries
<1>5. Eval(u.expr, Overlay(q, pre)) \in Cells  BY <1>4 DEF Carries, Evaluates
<1> DEFINE e == Held(s, q, pre)
           f == Held(s, r, pre)
<1>6. /\ e \in Envs(s, I) /\ e.mem = pre.mem /\ DOMAIN e.sig = DOMAIN pre.sig
      /\ \A v \in DOMAIN pre.sig :
           e.sig[v] = IF Scalar(v) \in D THEN Commit(s, v, q[Scalar(v)]) ELSE pre.sig[v]
  BY HeldIs
<1>7. /\ f \in Envs(s, I) /\ f.mem = pre.mem /\ DOMAIN f.sig = DOMAIN pre.sig
      /\ \A v \in DOMAIN pre.sig :
           f.sig[v] = IF Scalar(v) \in D THEN Commit(s, v, r[Scalar(v)]) ELSE pre.sig[v]
  BY HeldIs DEF Reached
<1> HIDE DEF e, f
<1>8. AlikeOutside(F, e, f)  BY <1>6, <1>7 DEF AlikeOutside, Unmoved
<1>9. ASSUME u.idx = None
      PROVE  Commit(s, u.var, Eval(u.expr, Overlay(q, pre))) = Commit(s, u.var, Eval(u.expr, f))
  <2>1. Blind(s, I, F, u.expr) /\ Uncarried(s, I, W, u)  BY <1>9 DEF Composable, W
  <2> HIDE DEF F, u
  <2>2. Commit(s, u.var, Eval(u.expr, Overlay(q, pre))) = Commit(s, u.var, Eval(u.expr, e))
    BY <1>4, <2>1 DEF Uncarried, e
  <2>3. Eval(u.expr, e) = Eval(u.expr, f)  BY <1>6, <1>7, <1>8, <2>1 DEF Blind
  <2> QED  BY <2>2, <2>3
<1> QED  BY <1>5, <1>9 DEF f

\* What the first k updates have written.
Written(s, us, k, g, r, q, e) ==
  \A i \in 1..k : us[i].idx = None =>
    Commit(s, us[i].var, q[Target(us[i])]) =
      IF g = 0 THEN Commit(s, us[i].var, r[Target(us[i])])
      ELSE Commit(s, us[i].var, Eval(us[i].expr, e))

\* The updates of a step as the fold takes them.
Part(g, us) == [k \in DOMAIN us |-> [guard |-> g, upd |-> us[k]]]

\* One update more.
LEMMA UpdateMoves ==
  ASSUME Evaluates, NEW s, IsSpec(s), NEW I, NEW pre \in Envs(s, I), NEW D, Proper(s, I, D),
         NEW V, NEW r, Reached(s, D, V, r, pre), NEW g \in Int,
         NEW us \in Seq(Updates), Within(D, us), Once(us), NEW k \in 1..Len(us),
         NEW q, Runs(D, q), Unmoved(D, us, k - 1, r, q),
         Written(s, us, k - 1, g, r, q, Held(s, r, pre)),
         us[k].idx = None => Composable(s, I, V, us, k)
  PROVE  LET p == RunUpdate(pre, q, [guard |-> g, upd |-> us[k]])
         IN  /\ Runs(D, p) /\ Unmoved(D, us, k, r, p)
             /\ Written(s, us, k, g, r, p, Held(s, r, pre))
<1> DEFINE u == us[k]
           t == Target(u)
           x == Eval(u.expr, Overlay(q, pre))
           c == IF g = 0 THEN q[t] ELSE x
           p == RunUpdate(pre, q, [guard |-> g, upd |-> u])
           e == Held(s, r, pre)
<1>1. Len(us) \in Nat /\ DOMAIN us = 1..Len(us) /\ k \in DOMAIN us  BY SeqIs
<1>2. /\ x \in Cells
      /\ u.idx = None => Commit(s, u.var, x) = Commit(s, u.var, Eval(u.expr, e))
  BY UpdateSees
<1>3. t \in D /\ t.var = u.var /\ t.idx = u.idx  BY <1>1 DEF Within, Target
<1>4. p = [q EXCEPT ![t] = c]
  <2>1. g # X /\ Cond(g, x, q[t]) = c  BY XAssumption DEF Cond
  <2> HIDE DEF x, c, t
  <2>2. p = [q EXCEPT ![t] = Cond(g, x, q[t])]  BY DEF RunUpdate, t, x
  <2> QED  BY <2>1, <2>2
<1> HIDE DEF p, e, x
<1>5. q = [w \in D |-> q[w]]  BY DEF Runs
<1>6. /\ p = [w \in D |-> p[w]] /\ p[t] = c
      /\ \A w \in D : w # t => p[w] = q[w]
  <2> HIDE DEF c, t
  <2> QED  BY <1>3, <1>4, <1>5
<1>7. Runs(D, p)
  <2>1. \A v : Scalar(v) \in D => p[Scalar(v)] \in Cells
    <3> SUFFICES ASSUME NEW v, Scalar(v) \in D  PROVE p[Scalar(v)] \in Cells  OBVIOUS
    <3>1. q[Scalar(v)] \in Cells  BY DEF Runs
    <3> QED  BY <1>2, <1>6, <3>1
  <2> QED  BY <1>6, <2>1 DEF Runs
<1>8. Unmoved(D, us, k, r, p)
  <2> SUFFICES ASSUME NEW v, Scalar(v) \in D, v \notin Firsts(us, k)
               PROVE  p[Scalar(v)] = r[Scalar(v)]
    BY DEF Unmoved
  <2>1. v \notin Firsts(us, k - 1) /\ v # u.var  BY <1>1 DEF Firsts
  <2>2. Scalar(v) # t  BY <1>3, <2>1 DEF Scalar
  <2> QED  BY <1>6, <2>1, <2>2 DEF Unmoved
<1>9. Written(s, us, k, g, r, p, e)
  <2> SUFFICES ASSUME NEW i \in 1..k, us[i].idx = None
               PROVE  Commit(s, us[i].var, p[Target(us[i])]) =
                        IF g = 0 THEN Commit(s, us[i].var, r[Target(us[i])])
                        ELSE Commit(s, us[i].var, Eval(us[i].expr, e))
    BY DEF Written
  <2>1. CASE i = k
    <3>1. CASE g = 0
      <4>1. t = Scalar(u.var)  BY <2>1 DEF Target, Scalar
      <4>2. u.var \notin Firsts(us, k - 1)
        <5> SUFFICES ASSUME NEW j \in 1..k-1, us[j].var = u.var  PROVE FALSE
          BY DEF Firsts
        <5>1. j \in DOMAIN us /\ j # k  BY <1>1
        <5> QED  BY <1>1, <2>1, <5>1 DEF Once
      <4>3. q[t] = r[t]  BY <1>3, <4>1, <4>2 DEF Unmoved
      <4> QED  BY <1>6, <2>1, <3>1, <4>3
    <3>2. CASE g # 0  BY <1>2, <1>6, <2>1, <3>2
    <3> QED  BY <3>1, <3>2
  <2>2. CASE i # k
    <3>1. i \in 1..k-1 /\ i \in DOMAIN us  BY <1>1, <2>2
    <3>2. us[i].var # u.var  BY <1>1, <2>2, <3>1 DEF Once
    <3>3. Target(us[i]) \in D /\ Target(us[i]) # t  BY <1>3, <3>1, <3>2 DEF Within, Target
    <3>4. p[Target(us[i])] = q[Target(us[i])]  BY <1>6, <3>3
    <3> QED  BY <3>1, <3>4 DEF Written, e
  <2> QED  BY <2>1, <2>2
<1> QED  BY <1>7, <1>8, <1>9 DEF p, e

\* The updates of a step.
LEMMA PartMoves ==
  ASSUME Evaluates, NEW s, IsSpec(s), NEW I, NEW pre \in Envs(s, I), NEW D, Proper(s, I, D),
         NEW V, NEW r, Reached(s, D, V, r, pre), NEW g \in Int,
         NEW us \in Seq(Updates), Within(D, us), Once(us),
         \A k \in DOMAIN us : us[k].idx = None => Composable(s, I, V, us, k)
  PROVE  LET q == Running!Folded(pre, r, Part(g, us))
         IN  /\ Runs(D, q) /\ Unmoved(D, us, Len(us), r, q)
             /\ Written(s, us, Len(us), g, r, q, Held(s, r, pre))
<1> DEFINE n == Len(us)
           part == Part(g, us)
           e == Held(s, r, pre)
<1>1. n \in Nat /\ DOMAIN us = 1..n  BY SeqIs
<1>2. /\ Len(part) = n /\ DOMAIN part = 1..n
      /\ \A k \in 1..n : part[k] = [guard |-> g, upd |-> us[k]]
  BY <1>1 DEF Part
<1> HIDE DEF part, e
<1>3. PICK f : Running!IsRun(f, pre, r, part) /\ Running!Folded(pre, r, part) = f[n]
  BY <1>1, <1>2, Running!FoldedRuns
<1>4. f[0] = r /\ \A k \in 1..n : f[k] = RunUpdate(pre, f[k-1], [guard |-> g, upd |-> us[k]])
  <2>1. \A k \in 1..n : f[k] = RunUpdate(pre, f[k-1], part[k])
    BY <1>2, <1>3 DEF Running!IsRun, RunUpdate
  <2> QED  BY <1>2, <1>3, <2>1 DEF Running!IsRun
<1> DEFINE T == {k \in 0..n : /\ Runs(D, f[k]) /\ Unmoved(D, us, k, r, f[k])
                              /\ Written(s, us, k, g, r, f[k], e)}
<1>5. 0 \in T
  <2>1. Runs(D, r) /\ Unmoved(D, us, 0, r, r)  BY DEF Reached, Unmoved
  <2>2. Written(s, us, 0, g, r, r, e)  BY DEF Written
  <2> QED  BY <1>1, <1>4, <2>1, <2>2
<1>6. \A m \in Nat : m < n /\ m \in T => m + 1 \in T
  <2> SUFFICES ASSUME NEW m \in Nat, m < n, m \in T  PROVE m + 1 \in T  OBVIOUS
  <2> DEFINE k == m + 1
  <2>1. k \in 1..n /\ k - 1 = m /\ k \in DOMAIN us /\ k \in 0..n  BY <1>1
  <2>2. /\ Runs(D, f[m]) /\ Unmoved(D, us, m, r, f[m]) /\ Written(s, us, m, g, r, f[m], e)
    OBVIOUS
  <2>3. f[k] = RunUpdate(pre, f[m], [guard |-> g, upd |-> us[k]])  BY <1>4, <2>1
  <2> HIDE DEF k, n
  <2>4. /\ Runs(D, f[k]) /\ Unmoved(D, us, k, r, f[k]) /\ Written(s, us, k, g, r, f[k], e)
    BY <2>1, <2>2, <2>3, UpdateMoves DEF n, e
  <2> QED  BY <2>1, <2>4 DEF k
<1> HIDE DEF T
<1>7. 0..n \subseteq T  BY <1>1, <1>5, <1>6, Running!IntervalInduction
<1>8. n \in T  BY <1>1, <1>7
<1> QED  BY <1>3, <1>8 DEF T, part, e

\* What a step may be, after the registers in V.
Stepwise(s, I, D, V, p) ==
  /\ p.updates \in Seq(Updates) /\ Within(D, p.updates) /\ Once(p.updates)
  /\ \A k \in DOMAIN p.updates : p.updates[k].idx = None => Composable(s, I, V, p.updates, k)

\* The guard of step p has a value.
Sure(p, e) == StepGuard(p, e) \in Int

\* Where the updates of step p lead from r.
Taken(pre, r, p) == Running!Folded(pre, r, Part(StepGuard(p, pre), p.updates))

\* From r to q the registers take step p.
Follows(s, pre, r, q, p) == Held(s, q, pre) = AfterStep(s, Held(s, r, pre), p)

\* A step of the composed action is a step of RunSteps.
LEMMA StepMoves ==
  ASSUME Evaluates, NEW s, IsSpec(s), NEW I, NEW pre \in Envs(s, I), NEW D, Proper(s, I, D),
         NEW V, NEW r, Reached(s, D, V, r, pre),
         NEW p, Stepwise(s, I, D, V, p),
         Sure(p, pre), StepGuard(p, Held(s, r, pre)) = StepGuard(p, pre)
  PROVE  /\ Reached(s, D, V \cup Firsts(p.updates, Len(p.updates)), Taken(pre, r, p), pre)
         /\ Follows(s, pre, r, Taken(pre, r, p), p)
<1> DEFINE us == p.updates
           n == Len(us)
           g == StepGuard(p, pre)
           q == Running!Folded(pre, r, Part(g, us))
           e == Held(s, r, pre)
           f == Held(s, q, pre)
<1>1. /\ us \in Seq(Updates) /\ n \in Nat /\ DOMAIN us = 1..n
      /\ Within(D, us) /\ Once(us)
      /\ \A k \in DOMAIN us : us[k].idx = None => Composable(s, I, V, us, k)
  BY SeqIs DEF Stepwise
<1>2. /\ Runs(D, q) /\ Unmoved(D, us, n, r, q) /\ Written(s, us, n, g, r, q, e)
  BY <1>1, PartMoves DEF Sure
<1> HIDE DEF q, e
<1>3. Reached(s, D, V \cup Firsts(us, n), q, pre)
  <2>1. \A v \in Firsts(us, n) : v \in DOMAIN pre.sig => Scalar(v) \in D
    BY <1>1, FirstsOk
  <2>2. Untouched(D, V \cup Firsts(us, n), q, pre)  BY <1>2 DEF Reached, Untouched, Unmoved
  <2> QED  BY <1>2, <2>1, <2>2 DEF Reached
<1>4. /\ e \in Envs(s, I) /\ e.mem = pre.mem /\ DOMAIN e.sig = DOMAIN pre.sig
      /\ \A v \in DOMAIN pre.sig :
           e.sig[v] = IF Scalar(v) \in D THEN Commit(s, v, r[Scalar(v)]) ELSE pre.sig[v]
  BY HeldIs DEF Reached, e
<1>5. /\ f \in Envs(s, I) /\ f.mem = pre.mem /\ DOMAIN f.sig = DOMAIN pre.sig
      /\ \A v \in DOMAIN pre.sig :
           f.sig[v] = IF Scalar(v) \in D THEN Commit(s, v, q[Scalar(v)]) ELSE pre.sig[v]
  BY <1>2, HeldIs
<1>6. StepGuard(p, e) = g  BY DEF e
<1> DEFINE Mine(v) == {k \in DOMAIN us : us[k].var = v}
           h(v) == IF Mine(v) = {} THEN e.sig[v]
                   ELSE Mask(Eval(us[CHOOSE k \in Mine(v) : TRUE].expr, e), s.vars[v].width)
<1>7. ASSUME NEW v \in DOMAIN pre.sig, NEW k \in Mine(v)
      PROVE  /\ Scalar(v) \in D /\ v \in DOMAIN s.vars
             /\ f.sig[v] = IF g = 0 THEN e.sig[v] ELSE Mask(Eval(us[k].expr, e), s.vars[v].width)
  <2> DEFINE t == Target(us[k])
  <2>1. k \in 1..n /\ us[k].var = v  BY <1>1
  <2>2. t \in D /\ t.var = v /\ t.idx = us[k].idx  BY <1>1, <2>1 DEF Within, Target
  <2>3. v \in Scalars(s) \cup I  BY EnvIs
  <2> HIDE DEF t
  <2>4. t.idx = None /\ t = Scalar(v) /\ v \in DOMAIN s.vars
    <3>1. t \in D /\ t.var \in Scalars(s) \cup I  BY <2>2, <2>3
    <3>2. t.idx = None  BY <3>1, ProperScalar
    <3>3. t = Scalar(t.var) /\ t.var \in Scalars(s)  BY <3>1, <3>2, ProperScalar
    <3> QED  BY <2>2, <3>2, <3>3 DEF Scalars
  <2>5. Commit(s, v, q[t]) = IF g = 0 THEN Commit(s, v, r[t]) ELSE Commit(s, v, Eval(us[k].expr, e))
    BY <1>2, <2>1, <2>2, <2>4 DEF Written, t
  <2>6. f.sig[v] = Commit(s, v, q[t]) /\ e.sig[v] = Commit(s, v, r[t])
    BY <1>4, <1>5, <2>2, <2>4
  <2> QED  BY <2>2, <2>4, <2>5, <2>6 DEF Commit
<1>8. ASSUME NEW v \in DOMAIN pre.sig, Mine(v) = {}  PROVE f.sig[v] = e.sig[v]
  <2>1. v \notin Firsts(us, n)  BY <1>1, <1>8 DEF Firsts
  <2>2. Scalar(v) \in D => q[Scalar(v)] = r[Scalar(v)]  BY <1>2, <2>1 DEF Unmoved
  <2> QED  BY <1>4, <1>5, <2>2
<1>9. \A v \in DOMAIN pre.sig : f.sig[v] = IF g = 0 THEN e.sig[v] ELSE h(v)
  <2> SUFFICES ASSUME NEW v \in DOMAIN pre.sig
               PROVE  f.sig[v] = IF g = 0 THEN e.sig[v] ELSE h(v)
    OBVIOUS
  <2>1. CASE Mine(v) = {}  BY <1>8, <2>1
  <2>2. CASE Mine(v) # {}
    <3> DEFINE k == CHOOSE k \in Mine(v) : TRUE
    <3>1. k \in Mine(v)  BY <2>2
    <3>2. h(v) = Mask(Eval(us[k].expr, e), s.vars[v].width)  BY <2>2
    <3> HIDE DEF k, Mine, h
    <3> QED  BY <1>7, <3>1, <3>2
  <2> QED  BY <2>1, <2>2
<1>10. AfterStep(s, e, p) = IF g = 0 THEN e ELSE [e EXCEPT !.sig = [v \in DOMAIN e.sig |-> h(v)]]
  BY <1>6 DEF AfterStep
<1> HIDE DEF f, g, h, us, n
<1>11. f = AfterStep(s, e, p)
  <2>1. /\ e = [sig |-> e.sig, mem |-> e.mem] /\ f = [sig |-> f.sig, mem |-> f.mem]
        /\ e.sig = [v \in DOMAIN pre.sig |-> e.sig[v]]
        /\ f.sig = [v \in DOMAIN pre.sig |-> f.sig[v]]
    <3>1. e = [sig |-> e.sig, mem |-> e.mem] /\ e.sig \in Sigs(s, I)  BY <1>4, EnvIs
    <3>2. f = [sig |-> f.sig, mem |-> f.mem] /\ f.sig \in Sigs(s, I)  BY <1>5, EnvIs
    <3>3. DOMAIN e.sig = DOMAIN pre.sig /\ DOMAIN f.sig = DOMAIN pre.sig  BY <1>4, <1>5
    <3> QED  BY <3>1, <3>2, <3>3 DEF Sigs
  <2>2. CASE g = 0
    <3>1. \A v \in DOMAIN pre.sig : f.sig[v] = e.sig[v]  BY <1>9, <2>2
    <3>2. f.sig = e.sig  BY <2>1, <3>1
    <3> QED  BY <1>4, <1>5, <1>10, <2>1, <2>2, <3>2
  <2>3. CASE g # 0
    <3> DEFINE x == [v \in DOMAIN e.sig |-> h(v)]
    <3>1. AfterStep(s, e, p) = [sig |-> x, mem |-> e.mem]
      <4>1. AfterStep(s, e, p) = [e EXCEPT !.sig = x]  BY <1>10, <2>3
      <4> HIDE DEF x
      <4> QED  BY <2>1, <4>1
    <3>2. f.sig = x  BY <1>4, <1>9, <2>1, <2>3
    <3> HIDE DEF x
    <3> QED  BY <1>4, <1>5, <2>1, <3>1, <3>2
  <2> QED  BY <2>2, <2>3
<1> QED  BY <1>3, <1>11 DEF q, e, f, g, us, n, Taken, Follows

\* Before the first step nothing is written, after each its own besides.
LEMMA EarlierNone == ASSUME NEW a  PROVE Earlier(a, 1) = {}
<1>1. 1..1-1 = {}  OBVIOUS
<1> QED  BY <1>1 DEF Earlier

LEMMA EarlierNext ==
  ASSUME NEW a, NEW j \in Nat
  PROVE  Earlier(a, (j + 1) + 1) =
           Earlier(a, j + 1) \cup Firsts(a.steps[j+1].updates, Len(a.steps[j+1].updates))
<1> DEFINE F(i) == Firsts(a.steps[i].updates, Len(a.steps[i].updates))
<1>1. \A m : Earlier(a, m) = UNION {F(i) : i \in 1..m-1}  BY DEF Earlier
<1> HIDE DEF F
<1>2. 1..((j + 1) + 1) - 1 = (1..(j + 1) - 1) \cup {j + 1}  OBVIOUS
<1>3. Earlier(a, (j + 1) + 1) = Earlier(a, j + 1) \cup F(j + 1)  BY <1>1, <1>2
<1> QED  BY <1>3 DEF F

\* Guards that the steps before do not write keep their values.
LEMMA GuardStays ==
  ASSUME NEW s, IsSpec(s), NEW I, NEW pre \in Envs(s, I), NEW D, Proper(s, I, D),
         NEW V, NEW r, Reached(s, D, V, r, pre), NEW p,
         p.guard # None => Blind(s, I, V, p.guard)
  PROVE  StepGuard(p, Held(s, r, pre)) = StepGuard(p, pre)
<1> DEFINE f == Held(s, r, pre)
<1>1. /\ f \in Envs(s, I) /\ f.mem = pre.mem /\ DOMAIN f.sig = DOMAIN pre.sig
      /\ \A v \in DOMAIN pre.sig :
           f.sig[v] = IF Scalar(v) \in D THEN Commit(s, v, r[Scalar(v)]) ELSE pre.sig[v]
  BY HeldIs DEF Reached
<1> HIDE DEF f
<1>2. ASSUME NEW v \in DOMAIN pre.sig, v \notin V  PROVE f.sig[v] = pre.sig[v]
  <2>1. CASE Scalar(v) \in D
    <3>1. Scalar(v).var = v /\ Scalar(v).idx = None  BY DEF Scalar
    <3>2. v \in Scalars(s) /\ v \notin I  BY <2>1, <3>1, ProperScalar
    <3>3. r[Scalar(v)] = pre.sig[v]  BY <1>2, <2>1 DEF Reached, Untouched
    <3> QED  BY <1>1, <2>1, <3>2, <3>3, CommitAgain
  <2>2. CASE Scalar(v) \notin D  BY <1>1, <2>2
  <2> QED  BY <2>1, <2>2
<1>3. AlikeOutside(V, f, pre)  BY <1>1, <1>2 DEF AlikeOutside
<1>4. p.guard # None => Eval(p.guard, f) = Eval(p.guard, pre)  BY <1>1, <1>3 DEF Blind
<1> QED  BY <1>4 DEF StepGuard, f

\* Before the first update the registers hold what the edge found.
LEMMA StartIs ==
  ASSUME NEW s, IsSpec(s), NEW I, NEW pre \in Envs(s, I), NEW D, Proper(s, I, D)
  PROVE  LET start == [u \in D |-> Read(u, pre)]
         IN  Reached(s, D, {}, start, pre) /\ Held(s, start, pre) = pre
<1> DEFINE start == [u \in D |-> Read(u, pre)]
<1>1. /\ IsEnv(pre) /\ pre = [sig |-> pre.sig, mem |-> pre.mem]
      /\ pre.sig \in Sigs(s, I) /\ DOMAIN pre.sig = Scalars(s) \cup I
  BY EnvIs
<1>2. ASSUME NEW v, Scalar(v) \in D
      PROVE  start[Scalar(v)] = pre.sig[v] /\ v \in Scalars(s) /\ v \notin I
  <2>1. Scalar(v).var = v /\ Scalar(v).idx = None  BY DEF Scalar
  <2>2. v \in Scalars(s) /\ v \notin I  BY <1>2, <2>1, ProperScalar
  <2>3. start[Scalar(v)] = Read(Scalar(v), pre)  BY <1>2
  <2> HIDE DEF start
  <2> QED  BY <2>1, <2>2, <2>3 DEF Read
<1>3. start = [u \in D |-> start[u]]  OBVIOUS
<1> HIDE DEF start
<1>4. Runs(D, start)
  <2>1. \A v : Scalar(v) \in D => start[Scalar(v)] \in Cells  BY <1>1, <1>2 DEF IsEnv
  <2> QED  BY <1>3, <2>1 DEF Runs
<1>5. Reached(s, D, {}, start, pre)  BY <1>2, <1>4 DEF Reached, Untouched
<1> DEFINE f == Held(s, start, pre)
<1>6. /\ f \in Envs(s, I) /\ f.mem = pre.mem /\ DOMAIN f.sig = DOMAIN pre.sig
      /\ \A v \in DOMAIN pre.sig :
           f.sig[v] = IF Scalar(v) \in D THEN Commit(s, v, start[Scalar(v)]) ELSE pre.sig[v]
  BY <1>4, HeldIs
<1> HIDE DEF f
<1>7. f = [sig |-> f.sig, mem |-> f.mem] /\ f.sig \in Sigs(s, I)  BY <1>6, EnvIs
<1>8. \A v \in DOMAIN pre.sig : f.sig[v] = pre.sig[v]  BY <1>2, <1>6, CommitAgain
<1>9. f.sig = pre.sig  BY <1>1, <1>6, <1>7, <1>8 DEF Sigs
<1> QED  BY <1>1, <1>5, <1>6, <1>7, <1>9 DEF start, f

\* The updates of the steps, joined one after the other.
LEMMA FlatJoins ==
  ASSUME Evaluates, NEW a \in Actions, NEW e, IsEnv(e), a.steps # <<>>
  PROVE  \E h : /\ h[0] = <<>> /\ h[Len(a.steps)] = Flat(a, e)
                /\ \A j \in 1..Len(a.steps) :
                     LET part == Part(StepGuard(a.steps[j], e), a.steps[j].updates)
                     IN  part \in Seq(Guardeds) /\ h[j] = h[j-1] \o part
<1> DEFINE p == a.steps
           n == Len(p)
           ss == [s \in DOMAIN p |->
                    [k \in DOMAIN p[s].updates |->
                       [guard |-> StepGuard(p[s], e), upd |-> p[s].updates[k]]]]
<1>1. p \in Seq(Steps)  BY DEF Actions
<1>2. n \in Nat /\ DOMAIN p = 1..n /\ n # 0 /\ \A i \in 1..n : p[i] \in Steps
  BY <1>1, SeqIs
<1>3. Flat(a, e) = FlattenSeq(ss)  BY DEF Flat
<1>4. \A j \in 1..n : ss[j] = Part(StepGuard(p[j], e), p[j].updates)  BY <1>2 DEF Part
<1>5. Len(ss) = n  BY <1>2
<1> HIDE DEF ss
<1>6. ASSUME NEW j \in 1..n  PROVE ss[j] \in Seq(Guardeds)
  <2> DEFINE us == p[j].updates
             g == StepGuard(p[j], e)
  <2>1. us \in Seq(Updates)  BY <1>2 DEF Steps
  <2>2. g \in Cells  BY DEF StepGuard, Evaluates, Cells
  <2>3. ss[j] = [k \in DOMAIN us |-> [guard |-> g, upd |-> us[k]]]  BY <1>4 DEF Part
  <2> HIDE DEF us, g
  <2>4. Len(us) \in Nat /\ DOMAIN us = 1..Len(us) /\ \A k \in 1..Len(us) : us[k] \in Updates
    BY <2>1, SeqIs
  <2>5. \A k \in 1..Len(us) : [guard |-> g, upd |-> us[k]] \in Guardeds
    BY <2>2, <2>4 DEF Guardeds
  <2> QED  BY <2>3, <2>4, <2>5
<1> HIDE DEF p, n
<1>7. PICK f : /\ FlattenSeq(ss) = f[n] /\ f[1] = ss[1]
               /\ \A i \in 1..n : i # 1 => f[i] = f[i-1] \o ss[i]
  BY <1>2, <1>5, FlattenRuns
<1> DEFINE h == [j \in 0..n |-> IF j = 0 THEN <<>> ELSE f[j]]
<1>8. h[0] = <<>> /\ \A j \in 1..n : h[j] = f[j]  BY <1>2
<1> HIDE DEF h
<1>9. ASSUME NEW j \in 1..n  PROVE h[j] = h[j-1] \o ss[j]
  <2>1. CASE j = 1
    <3>1. 1 \in 1..n /\ j - 1 = 0  BY <1>2, <2>1
    <3>2. ss[1] \in Seq(Guardeds)  BY <1>6, <3>1
    <3>3. <<>> \o ss[1] = ss[1]  BY <3>2
    <3>4. h[1] = ss[1] /\ h[0] = <<>>  BY <1>7, <1>8, <3>1
    <3> QED  BY <2>1, <3>1, <3>3, <3>4
  <2>2. CASE j # 1
    <3>1. j - 1 \in 1..n  BY <1>2, <2>2
    <3> QED  BY <1>7, <1>8, <2>2, <3>1
  <2> QED  BY <2>1, <2>2
<1>10. h[n] = Flat(a, e)  BY <1>2, <1>3, <1>7, <1>8
<1> DEFINE P(j) == Part(StepGuard(p[j], e), p[j].updates)
<1>11. \A j \in 1..n : P(j) \in Seq(Guardeds) /\ h[j] = h[j-1] \o P(j)
  BY <1>4, <1>6, <1>9
<1> HIDE DEF P
<1>12. \E x : /\ x[0] = <<>> /\ x[n] = Flat(a, e)
              /\ \A j \in 1..n : P(j) \in Seq(Guardeds) /\ x[j] = x[j-1] \o P(j)
  BY <1>8, <1>10, <1>11
<1> QED  BY <1>12 DEF p, n, P

\* No update, no change.
LEMMA NothingRuns ==
  ASSUME NEW e, NEW r  PROVE Running!Folded(e, r, <<>>) = r
<1> DEFINE s == <<>>
<1>1. Len(s) = 0 /\ DOMAIN s = 1..Len(s)  OBVIOUS
<1> HIDE DEF s
<1>2. PICK f : Running!IsRun(f, e, r, s) /\ Running!Folded(e, r, s) = f[Len(s)]
  BY <1>1, Running!FoldedRuns
<1>3. f[0] = r  BY <1>2 DEF Running!IsRun
<1> QED  BY <1>1, <1>2, <1>3 DEF s
=============================================================================
