----------------------- MODULE RefinementEngine_proof -----------------------
(***************************************************************************)
(* The properties of RefinementEngine for every rule library, picker, TLC  *)
(* verdict, step cap and backtrack depth.                                  *)
(***************************************************************************)
EXTENDS RefinementEngine, TLAPS

(***************************************************************************)
(* Chain replay, for every rule library and every chain.  Each lemma is an *)
(* induction on the length of the chain (module Recursion).                *)
(***************************************************************************)
Outcomes == Specs \cup {Raises, Escapes}

LEMMA AfterType ==
  ASSUME NEW s \in Outcomes, NEW ch \in Choices
  PROVE  After(s, ch) \in Outcomes
BY LibraryAssumption DEF IsLibrary, After, Outcomes

ReplayStep(none, s, ch) == After(s, ch)

Replaying == INSTANCE Recursion WITH Step <- ReplayStep

\* A trail is a walk.
LEMMA TrailWalks ==
  ASSUME NEW s0, NEW c
  PROVE  Trail(s0, c) = Replaying!Walk(<<>>, s0, c)
BY DEF Trail, Replaying!Walk, ReplayStep

\* The equations of a trail.
LEMMA TrailEquations ==
  ASSUME NEW s0, NEW c \in Seq(Choices)
  PROVE  /\ Trail(s0, c)[0] = s0
         /\ \A n \in 1..Len(c) :
              Trail(s0, c)[n] = After(Trail(s0, c)[n-1], c[n])
<1>1. Len(c) \in Nat
  OBVIOUS
<1>2. Replaying!IsRun(Replaying!Walk(<<>>, s0, c), <<>>, s0, c)
  BY <1>1, Replaying!WalkRuns
<1>. QED
  BY <1>2, TrailWalks DEF Replaying!IsRun, ReplayStep

\* Every spec on a trail is an outcome.
LEMMA TrailType ==
  ASSUME NEW s0 \in Outcomes, NEW c \in Seq(Choices)
  PROVE  \A n \in 0..Len(c) : Trail(s0, c)[n] \in Outcomes
<1> DEFINE T == {n \in Nat : n <= Len(c) => Trail(s0, c)[n] \in Outcomes}
<1>1. 0 \in T
  BY TrailEquations
<1>2. ASSUME NEW n \in Nat, n < Len(c), n \in T
      PROVE  n + 1 \in T
  <2>1. Trail(s0, c)[n+1] = After(Trail(s0, c)[n], c[n+1])
    BY <1>2, TrailEquations
  <2>2. c[n+1] \in Choices
    BY <1>2
  <2>3. Trail(s0, c)[n] \in Outcomes
    BY <1>2
  <2>. QED
    BY <2>1, <2>2, <2>3, AfterType
<1>3. 0..Len(c) \subseteq T
  <2>1. Len(c) \in Nat
    OBVIOUS
  <2>2. \A n \in Nat : n < Len(c) /\ n \in T => n + 1 \in T
    BY <1>2
  <2> HIDE DEF T
  <2>. QED
    BY <1>1, <2>1, <2>2, Replaying!IntervalInduction
<1>. QED
  BY <1>3

\* Chains that agree on their first n steps pass through the same specs.
LEMMA TrailAgree ==
  ASSUME NEW s0, NEW c \in Seq(Choices), NEW d \in Seq(Choices),
         NEW n \in Nat, n <= Len(c), n <= Len(d),
         \A i \in 1..n : c[i] = d[i]
  PROVE  \A i \in 0..n : Trail(s0, c)[i] = Trail(s0, d)[i]
<1>1. Len(c) \in Nat /\ Len(d) \in Nat
  OBVIOUS
<1>2. \A i \in 0..n : Replaying!Walk(<<>>, s0, c)[i] = Replaying!Walk(<<>>, s0, d)[i]
  BY <1>1, Replaying!WalksAgree
<1>. QED
  BY <1>2, TrailWalks

\* A chain that goes on from another passes through that one's specs first.
LEMMA TrailConcat ==
  ASSUME NEW s0, NEW p \in Seq(Choices), NEW c \in Seq(Choices)
  PROVE  /\ \A i \in 0..Len(p) : Trail(s0, p \o c)[i] = Trail(s0, p)[i]
         /\ \A i \in 0..Len(c) :
              Trail(s0, p \o c)[Len(p) + i] = Trail(Replay(s0, p), c)[i]
BY Replaying!WalkConcat, TrailWalks DEF Replay
-----------------------------------------------------------------------------
\* Replaying no step gives the spec itself.
LEMMA ReplayEmpty ==
  ASSUME NEW s0 \in Outcomes
  PROVE  Replay(s0, <<>>) = s0
<1>1. <<>> \in Seq(Choices) /\ Len(<<>>) = 0
  OBVIOUS
<1>2. Trail(s0, <<>>)[0] = s0
  BY <1>1, TrailEquations
<1>. QED
  BY <1>1, <1>2 DEF Replay

\* Replaying a truncated chain gives the spec the whole chain passed through.
LEMMA ReplayTruncated ==
  ASSUME NEW s0 \in Outcomes, NEW c \in Seq(Choices), NEW n \in 0..Len(c)
  PROVE  Replay(s0, SubSeq(c, 1, n)) = Trail(s0, c)[n]
<1>1. /\ SubSeq(c, 1, n) \in Seq(Choices)
      /\ Len(SubSeq(c, 1, n)) = n
      /\ \A i \in 1..n : SubSeq(c, 1, n)[i] = c[i]
  OBVIOUS
<1> DEFINE d == SubSeq(c, 1, n)
<1>2. d \in Seq(Choices) /\ Len(d) = n /\ n <= Len(c) /\ n \in Nat
      /\ \A i \in 1..n : c[i] = d[i]
  BY <1>1
<1> HIDE DEF d
<1>3. \A i \in 0..n : Trail(s0, c)[i] = Trail(s0, d)[i]
  BY <1>2, TrailAgree
<1>. QED
  BY <1>2, <1>3 DEF Replay, d

\* Committing one more step applies one more rule.
LEMMA ReplayAppend ==
  ASSUME NEW s0 \in Outcomes, NEW c \in Seq(Choices), NEW ch \in Choices
  PROVE  Replay(s0, Append(c, ch)) = After(Replay(s0, c), ch)
<1> DEFINE d == Append(c, ch)
<1>1. /\ d \in Seq(Choices)
      /\ Len(d) = Len(c) + 1
      /\ \A i \in 1..Len(c) : d[i] = c[i]
      /\ d[Len(c)+1] = ch
  OBVIOUS
<1> HIDE DEF d
<1>2. Trail(s0, d)[Len(c)] = Trail(s0, c)[Len(c)]
  <2>1. Len(c) \in Nat /\ Len(c) <= Len(d)
    BY <1>1
  <2>2. \A i \in 0..Len(c) : Trail(s0, d)[i] = Trail(s0, c)[i]
    BY <1>1, <2>1, TrailAgree
  <2>. QED
    BY <2>1, <2>2
<1>3. Trail(s0, d)[Len(d)] = After(Trail(s0, d)[Len(c)], ch)
  BY <1>1, TrailEquations
<1>. QED
  BY <1>1, <1>2, <1>3 DEF Replay, d

(***************************************************************************)
(* The G13 comment of engine.run(): replaying a prefix and then this       *)
(* pass's steps is replaying their concatenation.                          *)
(***************************************************************************)
THEOREM ReplayConcat ==
  ASSUME NEW s0, NEW p \in Seq(Choices), NEW c \in Seq(Choices)
  PROVE  Replay(s0, p \o c) = Replay(Replay(s0, p), c)
<1>1. Len(p \o c) = Len(p) + Len(c) /\ Len(c) \in 0..Len(c)
  OBVIOUS
<1>2. Trail(s0, p \o c)[Len(p) + Len(c)] = Trail(Replay(s0, p), c)[Len(c)]
  BY <1>1, TrailConcat
<1>. QED
  BY <1>1, <1>2 DEF Replay

-----------------------------------------------------------------------------
(***************************************************************************)
(* Refinements: chains whose every step the engine may commit.             *)
(***************************************************************************)

\* A refinement of a spec passes through specs only, and ends in one.
LEMMA RefinementTrail ==
  ASSUME NEW s0 \in Specs, NEW c \in Seq(Choices), IsRefinement(s0, c)
  PROVE  /\ \A n \in 0..Len(c) : Trail(s0, c)[n] \in Specs
         /\ Replay(s0, c) \in Specs
<1>1. Trail(s0, c)[0] = s0
  BY TrailEquations
<1>2. \A n \in 1..Len(c) : Trail(s0, c)[n] \in Specs
  BY DEF IsRefinement, Commits
<1>3. Len(c) \in Nat /\ \A n \in 0..Len(c) : n = 0 \/ n \in 1..Len(c)
  OBVIOUS
<1>. QED
  BY <1>1, <1>2, <1>3 DEF Replay

\* To refine what a refinement ends in is to refine what it starts from.
LEMMA RefinementConcat ==
  ASSUME NEW s0, NEW p \in Seq(Choices), NEW c \in Seq(Choices),
         IsRefinement(s0, p), IsRefinement(Replay(s0, p), c)
  PROVE  IsRefinement(s0, p \o c)
<1> DEFINE q == p \o c
           m == Len(p)
<1>1. /\ m \in Nat /\ Len(c) \in Nat /\ Len(q) = m + Len(c)
      /\ \A i \in 1..m : q[i] = p[i]
      /\ \A i \in 1..Len(c) : q[m + i] = c[i]
  OBVIOUS
<1>2. \A i \in 0..m : Trail(s0, q)[i] = Trail(s0, p)[i]
  BY TrailConcat
<1>3. \A i \in 0..Len(c) : Trail(s0, q)[m + i] = Trail(Replay(s0, p), c)[i]
  BY TrailConcat
<1> HIDE DEF q, m
<1>4. ASSUME NEW n \in 1..Len(q)
      PROVE  Commits(Trail(s0, q)[n-1], q[n], Trail(s0, q)[n])
  <2>1. CASE n <= m
    <3>1. n \in 1..m /\ n \in 0..m /\ n - 1 \in 0..m
      BY <1>1, <2>1
    <3>2. Commits(Trail(s0, p)[n-1], p[n], Trail(s0, p)[n])
      BY <3>1 DEF IsRefinement, m
    <3>. QED
      BY <1>1, <1>2, <3>1, <3>2
  <2>2. CASE n > m
    <3> DEFINE k == n - m
    <3>1. /\ k \in 1..Len(c) /\ k \in 0..Len(c) /\ k - 1 \in 0..Len(c)
          /\ n = m + k /\ n - 1 = m + (k - 1)
      BY <1>1, <2>2
    <3> HIDE DEF k
    <3>2. Commits(Trail(Replay(s0, p), c)[k-1], c[k], Trail(Replay(s0, p), c)[k])
      BY <3>1 DEF IsRefinement
    <3>3. /\ Trail(s0, q)[n-1] = Trail(Replay(s0, p), c)[k-1]
          /\ Trail(s0, q)[n] = Trail(Replay(s0, p), c)[k]
          /\ q[n] = c[k]
      BY <1>1, <1>3, <3>1
    <3>. QED
      BY <3>2, <3>3
  <2>. QED
    BY <1>1, <2>1, <2>2
<1>. QED
  BY <1>4 DEF IsRefinement, q

\* The first steps of a refinement are one.
LEMMA RefinementPrefix ==
  ASSUME NEW s0, NEW c \in Seq(Choices), NEW d \in Seq(Choices),
         IsRefinement(s0, c), Len(d) <= Len(c), \A i \in 1..Len(d) : d[i] = c[i]
  PROVE  IsRefinement(s0, d)
<1> DEFINE m == Len(d)
<1>1. m \in Nat /\ m <= Len(c) /\ m <= Len(d) /\ Len(c) \in Nat
  OBVIOUS
<1> HIDE DEF m
<1>2. \A i \in 1..m : d[i] = c[i]
  BY DEF m
<1>3. \A i \in 0..m : Trail(s0, d)[i] = Trail(s0, c)[i]
  BY <1>1, <1>2, TrailAgree
<1>4. ASSUME NEW n \in 1..m
      PROVE  Commits(Trail(s0, d)[n-1], d[n], Trail(s0, d)[n])
  <2>1. n \in 1..Len(c) /\ n - 1 \in 0..m /\ n \in 0..m
    BY <1>1
  <2>2. Commits(Trail(s0, c)[n-1], c[n], Trail(s0, c)[n])
    BY <2>1 DEF IsRefinement
  <2>. QED
    BY <1>2, <1>3, <2>1, <2>2
<1>. QED
  BY <1>4 DEF IsRefinement, m

\* One more committed step makes a refinement of a refinement.
LEMMA RefinementAppend ==
  ASSUME NEW s0, NEW c \in Seq(Choices), NEW ch \in Choices,
         IsRefinement(s0, c), Replay(s0, c) \in Specs \ RtlStyle,
         ch[1] \in Applicable[Replay(s0, c)],
         Result[Replay(s0, c)][ch] \in Specs \ {Replay(s0, c)}
  PROVE  IsRefinement(s0, Append(c, ch))
<1> DEFINE mid == Replay(s0, c)
           e == <<ch>>
<1>1. e \in Seq(Choices) /\ Len(e) = 1 /\ e[1] = ch /\ Append(c, ch) = c \o e
  OBVIOUS
<1>2. /\ mid \in Specs \ RtlStyle /\ ch[1] \in Applicable[mid]
      /\ Result[mid][ch] \in Specs \ {mid}
  OBVIOUS
<1> HIDE DEF mid, e
<1>3. Trail(mid, e)[0] = mid
  BY <1>1, TrailEquations
<1>4. Trail(mid, e)[1] = Result[mid][ch]
  <2>1. 1 \in 1..Len(e) /\ 1 - 1 = 0
    BY <1>1
  <2>2. Trail(mid, e)[1] = After(Trail(mid, e)[0], e[1])
    BY <1>1, <2>1, TrailEquations
  <2>. QED
    BY <1>1, <1>2, <1>3, <2>2 DEF After
<1>5. IsRefinement(mid, e)
  <2>1. \A n \in 1..Len(e) : n = 1 /\ n - 1 = 0
    BY <1>1
  <2>. QED
    BY <1>1, <1>2, <1>3, <1>4, <2>1 DEF IsRefinement, Commits
<1>. QED
  BY <1>1, <1>5, RefinementConcat DEF mid
-----------------------------------------------------------------------------

(***************************************************************************)
(* The inductive invariant.  DoneIsReproducible alone is not inductive: a  *)
(* rollback leaves popped steps on disk, so the file differs from the      *)
(* chain.  What saves it is that every spec a rollback can land on has     *)
(* already failed the termination check, so run() cannot return before     *)
(* another commit has rewritten the file.                                  *)
(***************************************************************************)
PassStart == formalSpec = Replay(InitialSpec, prefix)

ChainIsRefinement == IsRefinement(formalSpec, chain)

DiskIsRefinement == IsRefinement(InitialSpec, disk)

DiskCurrentWhenRtl == spec \in RtlStyle => disk = prefix \o chain

DoneWhenRtl == status = "done" => spec \in RtlStyle

IInv ==
  /\ TypeOK
  /\ PassStart
  /\ SpecIsReplay
  /\ ChainIsRefinement
  /\ DiskIsRefinement
  /\ DiskCurrentWhenRtl
  /\ DoneWhenRtl
  /\ DiskReplays
  /\ NoExcludedChoiceInChain
  /\ FreshBudgetOnRollback

LEMMA PrefixType ==
  ASSUME NEW p \in Prefixes
  PROVE  /\ p \in Seq(Choices)
         /\ IsRefinement(InitialSpec, p) /\ Replay(InitialSpec, p) \in Specs
<1>1. p \in Seq(Choices) /\ IsRefinement(InitialSpec, p) /\ InitialSpec \in Specs
  BY EngineAssumption
<1>. QED
  BY <1>1, RefinementTrail

\* The specs behind the current one are not finished.
LEMMA PassedSpecsNotRtl ==
  ASSUME ChainIsRefinement
  PROVE  \A n \in 0..Len(chain)-1 : Trail(formalSpec, chain)[n] \in Specs \ RtlStyle
<1> SUFFICES ASSUME NEW n \in 0..Len(chain)-1
             PROVE  Trail(formalSpec, chain)[n] \in Specs \ RtlStyle
  OBVIOUS
<1> DEFINE k == n + 1
<1>1. k \in 1..Len(chain) /\ k - 1 = n
  OBVIOUS
<1> HIDE DEF k
<1>. QED
  BY <1>1 DEF ChainIsRefinement, IsRefinement, Commits

LEMMA DepthFacts ==
  ASSUME TypeOK
  PROVE  /\ MaxSteps \in Nat /\ totalSteps \in Nat /\ totalSteps <= MaxSteps
         /\ Len(chain) \in Nat /\ depth = Len(chain)
         /\ 0..Len(chain) \subseteq Depths
BY EngineAssumption DEF TypeOK, Depths, depth

LEMMA InitIInv == Init => IInv
<1>1. SUFFICES ASSUME Init PROVE IInv
  OBVIOUS
<1>2. prefix \in Seq(Choices) /\ formalSpec \in Specs
  BY <1>1, PrefixType DEF Init
<1>3. /\ chain = <<>> /\ Len(chain) = 0 /\ chain \in Seq(Choices)
      /\ spec = formalSpec /\ status = "running" /\ disk = prefix
      /\ totalSteps = 0
  BY <1>1 DEF Init
<1>4. TypeOK
  BY <1>1, <1>2, <1>3, EngineAssumption DEF Init, TypeOK, Depths, Statuses
<1>5. PassStart
  BY <1>1 DEF Init, PassStart
<1>6. SpecIsReplay
  BY <1>2, <1>3, ReplayEmpty DEF SpecIsReplay, Outcomes
<1>7. ChainIsRefinement /\ NoExcludedChoiceInChain /\ FreshBudgetOnRollback
  BY <1>3 DEF ChainIsRefinement, IsRefinement, NoExcludedChoiceInChain, FreshBudgetOnRollback
<1>8. DiskCurrentWhenRtl
  BY <1>2, <1>3 DEF DiskCurrentWhenRtl
<1>9. DoneWhenRtl
  BY <1>3 DEF DoneWhenRtl
<1>10. DiskReplays
  BY <1>1, <1>2, <1>3 DEF DiskReplays, Init
<1>11. DiskIsRefinement
  BY <1>1, <1>3, PrefixType DEF DiskIsRefinement, Init
<1>. QED
  BY <1>4, <1>5, <1>6, <1>7, <1>8, <1>9, <1>10, <1>11 DEF IInv

(***************************************************************************)
(* A step that leaves the search where it is and only adds exclusions and  *)
(* strikes at the current depth.                                           *)
(***************************************************************************)
LEMMA StayKeepsIInv ==
  ASSUME IInv, status' \in Statuses, status' # "done" \/ spec \in RtlStyle,
         UNCHANGED <<formalSpec, spec, prefix, chain, disk>>,
         totalSteps' \in Depths, totalSteps <= totalSteps',
         excluded' \in [Depths -> SUBSET Choices],
         strikes' \in [Depths -> Nat],
         \A d \in 0..Len(chain)-1 : excluded'[d] = excluded[d]
                                     /\ strikes'[d] = strikes[d]
  PROVE  IInv'
<1>1. TypeOK'
  BY DEF IInv, TypeOK, Depths
<1>2. PassStart' /\ SpecIsReplay' /\ DiskReplays' /\ ChainIsRefinement'
      /\ DiskIsRefinement' /\ DiskCurrentWhenRtl' /\ DoneWhenRtl'
  BY DEF IInv, PassStart, SpecIsReplay, DiskReplays, ChainIsRefinement,
         DiskIsRefinement, DiskCurrentWhenRtl, DoneWhenRtl
<1>3. NoExcludedChoiceInChain'
  <2>1. Len(chain) \in Nat
    BY DEF IInv, TypeOK
  <2>2. \A i \in 1..Len(chain) : i - 1 \in 0..Len(chain)-1
    BY <2>1
  <2>3. \A i \in 1..Len(chain) : chain[i] \notin excluded[i-1]
    BY DEF IInv, NoExcludedChoiceInChain
  <2>4. \A i \in 1..Len(chain) : chain[i] \notin excluded'[i-1]
    BY <2>2, <2>3
  <2>. QED
    BY <2>4 DEF NoExcludedChoiceInChain
<1>4. FreshBudgetOnRollback'
  BY DEF IInv, FreshBudgetOnRollback
<1>. QED
  BY <1>1, <1>2, <1>3, <1>4 DEF IInv

(***************************************************************************)
(* _backtrack.                                                             *)
(***************************************************************************)
LEMMA RollBackKeepsIInv ==
  ASSUME IInv, status = "running",
         NEW excl \in [Depths -> SUBSET Choices],
         \A d \in 1..Len(chain) : chain[d] \notin excl[d-1],
         RollBack(excl),
         UNCHANGED <<formalSpec, prefix, disk>>,
         totalSteps' \in Depths, totalSteps <= totalSteps',
         strikes' \in [Depths -> Nat],
         \A d \in 0..Len(chain)-1 : strikes'[d] = strikes[d]
  PROVE  IInv'
<1>1. PICK k \in Landings(excl) :
        /\ spec' = Replay(formalSpec, Popped(k))
        /\ chain' = Popped(k)
        /\ excluded' = ExcludedAfterPop(excl, k)
        /\ status' = status
  BY DEF RollBack, Rebuilt
<1> DEFINE m == Len(chain) - k
<1>2. /\ chain \in Seq(Choices) /\ Len(chain) \in Nat
      /\ m \in Nat /\ m < Len(chain) /\ m \in 0..Len(chain)
      /\ Popped(k) = SubSeq(chain, 1, m)
      /\ depth - k = m /\ depth = Len(chain)
  BY EngineAssumption DEF IInv, TypeOK, Landings, depth, Popped
<1>2a. excluded' = [d \in Depths |-> IF d \in m .. Len(chain) - 1
                                     THEN excl[d] \cup {chain[d+1]} ELSE excl[d]]
  BY <1>1, <1>2 DEF ExcludedAfterPop
<1> HIDE DEF m
<1>3. /\ chain' = SubSeq(chain, 1, m)
      /\ chain' \in Seq(Choices)
      /\ Len(chain') = m
      /\ \A d \in 1..m : chain'[d] = chain[d]
  BY <1>1, <1>2
<1>4. formalSpec \in Outcomes
  BY DEF IInv, TypeOK, Outcomes
<1>5. spec' = Trail(formalSpec, chain)[m]
  BY <1>1, <1>2, <1>4, ReplayTruncated
<1>6. spec' \in Specs \ RtlStyle
  <2>1. m \in 0..Len(chain)-1
    BY <1>2
  <2>. QED
    BY <1>5, <2>1, PassedSpecsNotRtl DEF IInv
<1>7. excluded' \in [Depths -> SUBSET Choices]
  <2>1. ASSUME NEW d \in Depths, d \in m .. Len(chain) - 1
        PROVE  excl[d] \cup {chain[d+1]} \in SUBSET Choices
    <3>1. d + 1 \in 1..Len(chain)
      BY <1>2, <2>1
    <3>. QED
      BY <1>2, <2>1, <3>1
  <2>. QED
    BY <1>2a, <2>1
<1>8. TypeOK'
  BY <1>1, <1>3, <1>2, <1>6, <1>7 DEF IInv, TypeOK, Depths
<1>9. PassStart'
  BY DEF IInv, PassStart
<1>10. SpecIsReplay'
  BY <1>1 DEF SpecIsReplay
<1>11. ChainIsRefinement'
  <2> DEFINE c == chain'
  <2>1. /\ c \in Seq(Choices) /\ Len(c) <= Len(chain)
        /\ \A i \in 1..Len(c) : c[i] = chain[i]
    BY <1>2, <1>3
  <2> HIDE DEF c
  <2>2. IsRefinement(formalSpec, c)
    BY <1>2, <2>1, RefinementPrefix DEF IInv, ChainIsRefinement
  <2>. QED
    BY <2>2 DEF ChainIsRefinement, c
<1>12. DiskCurrentWhenRtl'
  BY <1>6 DEF DiskCurrentWhenRtl
<1>13. DoneWhenRtl'
  BY <1>1 DEF DoneWhenRtl
<1>14. DiskReplays' /\ DiskIsRefinement'
  BY DEF IInv, DiskReplays, DiskIsRefinement
<1>15. NoExcludedChoiceInChain'
  <2>1. ASSUME NEW d \in 1..m
        PROVE  chain'[d] \notin excluded'[d-1]
    <3>1. d - 1 \in Depths /\ ~(d - 1 \in m .. Len(chain) - 1)
          /\ d \in 1..Len(chain)
      BY <1>2, DepthFacts DEF IInv
    <3>2. excluded'[d-1] = excl[d-1]
      BY <1>2a, <3>1
    <3>. QED
      BY <1>3, <3>1, <3>2
  <2>. QED
    BY <1>3, <2>1 DEF NoExcludedChoiceInChain
<1>16. FreshBudgetOnRollback'
  <2>1. ASSUME NEW d \in 0..m-1 PROVE strikes'[d] = 0
    <3>1. d \in 0..Len(chain)-1
      BY <1>2
    <3>. QED
      BY <3>1 DEF IInv, FreshBudgetOnRollback
  <2>. QED
    BY <1>3, <2>1 DEF FreshBudgetOnRollback
<1>. QED
  BY <1>8, <1>9, <1>10, <1>11, <1>12, <1>13, <1>14, <1>15, <1>16 DEF IInv

(***************************************************************************)
(* Backtrack, whether it lands or stalls.                                  *)
(***************************************************************************)
LEMMA BacktrackKeepsIInv ==
  ASSUME IInv, status = "running", spec \notin RtlStyle,
         NEW excl \in [Depths -> SUBSET Choices],
         \A d \in 0..Len(chain)-1 : excl[d] = excluded[d],
         Backtrack(excl),
         UNCHANGED <<formalSpec, prefix, disk>>,
         totalSteps' \in Depths, totalSteps <= totalSteps',
         strikes' \in [Depths -> Nat],
         \A d \in 0..Len(chain)-1 : strikes'[d] = strikes[d]
  PROVE  IInv'
<1>1. CASE RollBack(excl)
  <2>1. ASSUME NEW d \in 1..Len(chain) PROVE chain[d] \notin excl[d-1]
    <3>1. d - 1 \in 0..Len(chain)-1
      BY DEF IInv, TypeOK
    <3>. QED
      BY <3>1 DEF IInv, NoExcludedChoiceInChain
  <2>. QED
    BY <1>1, <2>1, RollBackKeepsIInv
<1>2. CASE BacktrackExhausted(excl)
  BY <1>2, StayKeepsIInv DEF BacktrackExhausted, Statuses
<1>. QED
  BY <1>1, <1>2 DEF Backtrack

LEMMA StrikeKeepsIInv ==
  ASSUME IInv, status = "running", spec \notin RtlStyle,
         NEW excl \in [Depths -> SUBSET Choices],
         \A d \in 0..Len(chain)-1 : excl[d] = excluded[d],
         Strike(excl),
         UNCHANGED <<formalSpec, prefix, disk>>,
         totalSteps' \in Depths, totalSteps <= totalSteps'
  PROVE  IInv'
<1>1. /\ strikes' \in [Depths -> Nat]
      /\ \A d \in 0..Len(chain)-1 : strikes'[d] = strikes[d]
  <2>1. strikes' = [strikes EXCEPT ![Len(chain)] = @ + 1]
    BY DEF Strike, depth
  <2>2. strikes \in [Depths -> Nat]
    BY DEF IInv, TypeOK
  <2>. QED
    BY <2>1, <2>2, DepthFacts DEF IInv
<1>2. CASE Backtrack(excl)
  BY <1>1, <1>2, BacktrackKeepsIInv
<1>3. CASE excluded' = excl /\ UNCHANGED <<status, spec, chain>>
  BY <1>1, <1>3, StayKeepsIInv DEF Statuses
<1>. QED
  BY <1>2, <1>3 DEF Strike

LEMMA ExcludingType ==
  ASSUME IInv, NEW ch \in Choices
  PROVE  /\ Excluding(ch) \in [Depths -> SUBSET Choices]
         /\ \A d \in 0..Len(chain)-1 : Excluding(ch)[d] = excluded[d]
<1>1. excluded \in [Depths -> SUBSET Choices]
  BY DEF IInv, TypeOK
<1>2. Excluding(ch) = [excluded EXCEPT ![Len(chain)] = @ \cup {ch}]
  BY DEF Excluding, depth
<1>. QED
  BY <1>1, <1>2, DepthFacts DEF IInv

LEMMA CommitKeepsIInv ==
  ASSUME IInv, NEW ch \in Choices, Commit(ch)
  PROVE  IInv'
<1>1. /\ status = "running" /\ spec \notin RtlStyle /\ spec \in Specs
      /\ totalSteps' = totalSteps + 1 /\ totalSteps' \in Depths
      /\ formalSpec' = formalSpec /\ prefix' = prefix
      /\ ch \notin excluded[depth]
      /\ chain' = Append(chain, ch) /\ disk' = prefix \o chain'
      /\ strikes' = [strikes EXCEPT ![depth] = 0]
      /\ spec' = Result[spec][ch] /\ spec' \in Specs
      /\ status' = status /\ excluded' = excluded
  <2>1. /\ status = "running" /\ spec \notin RtlStyle /\ totalSteps < MaxSteps
        /\ totalSteps' = totalSteps + 1
        /\ formalSpec' = formalSpec /\ prefix' = prefix
        /\ ch \notin excluded[depth]
    BY DEF Commit, Saved, Resolved, ValidPick, Iterate
  <2>2. /\ chain' = Append(chain, ch) /\ disk' = prefix \o chain'
        /\ strikes' = [strikes EXCEPT ![depth] = 0]
        /\ spec' = Result[spec][ch] /\ Result[spec][ch] \in Specs
        /\ status' = status /\ excluded' = excluded
    BY DEF Commit, Saved, Resolved
  <2>3. spec \in Specs
    BY DEF IInv, TypeOK
  <2>4. totalSteps' \in Depths
    BY <2>1, DepthFacts DEF IInv, Depths
  <2>. QED
    BY <2>1, <2>2, <2>3, <2>4
<1> DEFINE n == Len(chain)
<1>2. /\ chain \in Seq(Choices) /\ n \in Nat /\ n <= totalSteps
      /\ prefix \in Seq(Choices) /\ Replay(InitialSpec, prefix) \in Specs
      /\ formalSpec \in Specs /\ formalSpec \in Outcomes
      /\ InitialSpec \in Outcomes
  BY PrefixType, EngineAssumption DEF IInv, TypeOK, Outcomes
<1>3. /\ chain' \in Seq(Choices) /\ Len(chain') = n + 1
      /\ chain'[n+1] = ch
      /\ \A i \in 1..n : chain'[i] = chain[i]
      /\ disk' \in Seq(Choices)
  BY <1>1, <1>2
<1>4. TypeOK'
  <2>1. strikes' \in [Depths -> Nat]
    BY <1>1 DEF IInv, TypeOK
  <2>2. Len(chain') <= totalSteps'
    BY <1>1, <1>2, <1>3, DepthFacts DEF IInv
  <2>. QED
    BY <1>1, <1>2, <1>3, <2>1, <2>2 DEF IInv, TypeOK
<1>5. PassStart'
  BY <1>1 DEF IInv, PassStart
<1>6. SpecIsReplay'
  <2>1. Replay(formalSpec, chain') = After(spec, ch)
    BY <1>1, <1>2, ReplayAppend DEF IInv, SpecIsReplay
  <2>. QED
    BY <1>1, <2>1 DEF SpecIsReplay, After
<1>7. ChainIsRefinement'
  <2>1. /\ Replay(formalSpec, chain) \in Specs \ RtlStyle
        /\ ch[1] \in Applicable[Replay(formalSpec, chain)]
        /\ Result[Replay(formalSpec, chain)][ch]
             \in Specs \ {Replay(formalSpec, chain)}
    <3>1. ch[1] \in Applicable[spec] /\ Result[spec][ch] \in Specs \ {spec}
      BY DEF Commit, ValidPick, Offered
    <3>. QED
      BY <1>1, <3>1 DEF IInv, SpecIsReplay
  <2>2. IsRefinement(formalSpec, Append(chain, ch))
    BY <1>2, <2>1, RefinementAppend DEF IInv, ChainIsRefinement
  <2>. QED
    BY <1>1, <2>2 DEF ChainIsRefinement
<1>8. DiskCurrentWhenRtl'
  BY <1>1 DEF DiskCurrentWhenRtl
<1>9. DoneWhenRtl'
  BY <1>1 DEF DoneWhenRtl
<1>10. DiskReplays'
  <2>1. Replay(InitialSpec, disk') = spec'
    <3> DEFINE c == chain'
    <3>1. c \in Seq(Choices) /\ disk' = prefix \o c /\ spec' = Replay(formalSpec, c)
      BY <1>1, <1>3, <1>6 DEF SpecIsReplay
    <3> HIDE DEF c
    <3>2. Replay(InitialSpec, prefix \o c) = Replay(Replay(InitialSpec, prefix), c)
      BY <1>2, <3>1, ReplayConcat
    <3>. QED
      BY <3>1, <3>2 DEF IInv, PassStart
  <2>2. Len(prefix) <= Len(disk') /\ SubSeq(disk', 1, Len(prefix)) = prefix
    <3> DEFINE c == chain'
    <3>1. c \in Seq(Choices) /\ disk' = prefix \o c
      BY <1>1, <1>3
    <3> HIDE DEF c
    <3>. QED
      BY <1>2, <3>1
  <2>. QED
    BY <1>1, <2>1, <2>2 DEF DiskReplays
<1>10a. DiskIsRefinement'
  <2> DEFINE c == chain'
  <2>1. /\ c \in Seq(Choices) /\ disk' = prefix \o c
        /\ IsRefinement(Replay(InitialSpec, prefix), c)
    BY <1>1, <1>3, <1>7 DEF IInv, PassStart, ChainIsRefinement
  <2> HIDE DEF c
  <2>2. IsRefinement(InitialSpec, prefix)
    BY PrefixType DEF IInv, TypeOK
  <2>3. IsRefinement(InitialSpec, prefix \o c)
    BY <1>2, <2>1, <2>2, RefinementConcat
  <2>. QED
    BY <2>1, <2>3 DEF DiskIsRefinement
<1>11. NoExcludedChoiceInChain'
  <2>1. ASSUME NEW d \in 1..n+1 PROVE chain'[d] \notin excluded[d-1]
    <3>1. CASE d = n + 1
      BY <1>1, <1>2, <1>3, <3>1 DEF depth
    <3>2. CASE d \in 1..n
      BY <1>3, <3>2 DEF IInv, NoExcludedChoiceInChain
    <3>. QED
      BY <1>2, <3>1, <3>2
  <2>. QED
    BY <1>1, <1>3, <2>1 DEF NoExcludedChoiceInChain
<1>12. FreshBudgetOnRollback'
  <2>1. strikes' = [strikes EXCEPT ![n] = 0]
    BY <1>1 DEF depth
  <2>2. strikes \in [Depths -> Nat] /\ 0..n \subseteq Depths
    BY DepthFacts DEF IInv, TypeOK
  <2>3. ASSUME NEW d \in 0..n PROVE strikes'[d] = 0
    <3>1. CASE d = n
      BY <2>1, <2>2, <3>1
    <3>2. CASE d \in 0..n-1
      BY <1>2, <2>1, <2>2, <3>2 DEF IInv, FreshBudgetOnRollback
    <3>. QED
      BY <1>2, <3>1, <3>2
  <2>. QED
    BY <1>2, <1>3, <2>3 DEF FreshBudgetOnRollback
<1>. QED
  BY <1>4, <1>5, <1>6, <1>7, <1>8, <1>9, <1>10, <1>10a, <1>11, <1>12 DEF IInv

(***************************************************************************)
(* Every step of the loop.                                                 *)
(***************************************************************************)
LEMMA IterateFacts ==
  ASSUME IInv, Iterate
  PROVE  /\ status = "running" /\ spec \notin RtlStyle
         /\ UNCHANGED <<formalSpec, prefix>>
         /\ totalSteps' \in Depths /\ totalSteps <= totalSteps'
BY DepthFacts DEF IInv, Iterate, Depths

LEMMA NextKeepsIInv == IInv /\ [Next]_vars => IInv'
<1>1. SUFFICES ASSUME IInv, [Next]_vars PROVE IInv'
  OBVIOUS
<1>2. /\ totalSteps \in Depths /\ totalSteps <= totalSteps
      /\ excluded \in [Depths -> SUBSET Choices]
      /\ strikes \in [Depths -> Nat] /\ status \in Statuses
  BY <1>1, DepthFacts DEF IInv, TypeOK
<1>3. CASE Finish
  BY <1>1, <1>2, <1>3, StayKeepsIInv DEF Finish, Statuses
<1>4. CASE StepCap
  BY <1>1, <1>2, <1>4, StayKeepsIInv DEF StepCap, Statuses
<1>5. CASE NothingApplicable
  <2>1. Iterate /\ Backtrack(excluded) /\ UNCHANGED <<strikes, disk>>
    BY <1>5 DEF NothingApplicable
  <2>. QED
    BY <1>1, <1>2, <2>1, IterateFacts, BacktrackKeepsIInv
<1>6. CASE BadPick
  <2>1. Iterate /\ Strike(excluded) /\ UNCHANGED disk
    BY <1>6 DEF BadPick
  <2>. QED
    BY <1>1, <1>2, <2>1, IterateFacts, StrikeKeepsIInv
<1>7. ASSUME NEW ch \in Choices, ApplyRaises(ch) \/ GateRejects(ch)
      PROVE  IInv'
  <2>1. Iterate /\ excluded' = Excluding(ch)
        /\ UNCHANGED <<status, spec, chain, strikes, disk>>
    BY <1>7 DEF ApplyRaises, GateRejects, ValidPick
  <2>. QED
    BY <1>1, <1>2, <2>1, IterateFacts, ExcludingType, StayKeepsIInv
<1>8. ASSUME NEW ch \in Choices, ApplyEscapes(ch)
      PROVE  IInv'
  <2>1. Iterate /\ status' = "raised"
        /\ UNCHANGED <<spec, chain, excluded, strikes, disk>>
    BY <1>8 DEF ApplyEscapes, ValidPick
  <2>. QED
    BY <1>1, <1>2, <2>1, IterateFacts, StayKeepsIInv DEF Statuses
<1>9. ASSUME NEW ch \in Choices, NoOp(ch)
      PROVE  IInv'
  <2>1. Iterate /\ Strike(Excluding(ch)) /\ UNCHANGED disk
    BY <1>9 DEF NoOp, ValidPick
  <2>. QED
    BY <1>1, <2>1, IterateFacts, ExcludingType, StrikeKeepsIInv
<1>10. ASSUME NEW ch \in Choices, Commit(ch)
       PROVE  IInv'
  BY <1>1, <1>10, CommitKeepsIInv
<1>11. CASE UNCHANGED vars
  BY <1>1, <1>2, <1>11, StayKeepsIInv DEF vars, IInv, DoneWhenRtl
<1>. QED
  BY <1>1, <1>3, <1>4, <1>5, <1>6, <1>7, <1>8, <1>9, <1>10, <1>11 DEF Next

THEOREM Invariance == Spec => []IInv
BY InitIInv, NextKeepsIInv, PTL DEF Spec
-----------------------------------------------------------------------------
\* Every variable keeps its type, for every rule library and every cap.
THEOREM EngineTyping == Spec => []TypeOK
<1>1. IInv => TypeOK
  BY DEF IInv
<1>. QED
  BY <1>1, Invariance, PTL

\* The spec in memory is the replay of the chain in memory, whatever the
\* picker did and however often the engine rolled back.
THEOREM EngineSpecIsReplay == Spec => []SpecIsReplay
<1>1. IInv => SpecIsReplay
  BY DEF IInv
<1>. QED
  BY <1>1, Invariance, PTL

\* G13: when run() returns, replaying refinement_chain.json from the abstract
\* spec gives exactly the returned spec, whatever chain it found there, given
\* that it was called with that chain's replay.
THEOREM EngineDoneIsReproducible == Spec => []DoneIsReproducible
<1>1. IInv => DoneIsReproducible
  <2>1. SUFFICES ASSUME IInv, status = "done"
                 PROVE  Replay(InitialSpec, disk) = spec /\ spec \in RtlStyle
    BY DEF DoneIsReproducible
  <2>2. spec \in RtlStyle /\ disk = prefix \o chain
    BY <2>1 DEF IInv, DoneWhenRtl, DiskCurrentWhenRtl
  <2>3. /\ prefix \in Seq(Choices) /\ chain \in Seq(Choices)
        /\ InitialSpec \in Outcomes
    BY <2>1, PrefixType, EngineAssumption DEF IInv, TypeOK, Outcomes
  <2>4. Replay(InitialSpec, prefix \o chain)
          = Replay(Replay(InitialSpec, prefix), chain)
    BY <2>3, ReplayConcat
  <2>. QED
    BY <2>1, <2>2, <2>4 DEF IInv, PassStart, SpecIsReplay
<1>. QED
  BY <1>1, Invariance, PTL

\* The file replays at every moment, rolled-back steps included.
THEOREM EngineDiskReplays == Spec => []DiskReplays
<1>1. IInv => DiskReplays
  BY DEF IInv
<1>. QED
  BY <1>1, Invariance, PTL

\* No choice excluded at a depth stands in the chain at that depth.
THEOREM EngineNoExcludedChoice == Spec => []NoExcludedChoiceInChain
<1>1. IInv => NoExcludedChoiceInChain
  BY DEF IInv
<1>. QED
  BY <1>1, Invariance, PTL

\* Every depth a rollback can land on has its full budget of strikes.
THEOREM EngineFreshBudget == Spec => []FreshBudgetOnRollback
<1>1. IInv => FreshBudgetOnRollback
  BY DEF IInv
<1>. QED
  BY <1>1, Invariance, PTL

(***************************************************************************)
(* What a step does to the chain and the file.                             *)
(***************************************************************************)
LEMMA BacktrackChain ==
  ASSUME IInv, NEW excl, Backtrack(excl)
  PROVE  \/ /\ status' = status
            /\ \A d \in 1..Len(chain) : d > Len(chain') => chain[d] \in excluded'[d-1]
         \/ status' = "stalled" /\ chain' = chain /\ spec' = spec
<1>1. CASE BacktrackExhausted(excl)
  BY <1>1 DEF BacktrackExhausted
<1>2. CASE RollBack(excl)
  <2>1. PICK k \in Landings(excl) :
          /\ chain' = Popped(k)
          /\ excluded' = ExcludedAfterPop(excl, k)
          /\ status' = status
    BY <1>2 DEF RollBack, Rebuilt
  <2>2. /\ Len(chain) \in Nat /\ chain \in Seq(Choices)
        /\ k \in Nat \ {0} /\ k <= Len(chain) /\ depth = Len(chain)
    BY EngineAssumption DEF IInv, TypeOK, Landings, depth
  <2>3. Len(chain') = Len(chain) - k
    BY <2>1, <2>2 DEF Popped
  <2>4. ASSUME NEW d \in 1..Len(chain), d > Len(chain')
        PROVE  chain[d] \in excluded'[d-1]
    <3>1. d - 1 \in Depths
      BY DepthFacts DEF IInv
    <3>2. d - 1 \in Len(chain) - k .. Len(chain) - 1 /\ (d - 1) + 1 = d
      BY <2>2, <2>3, <2>4
    <3> DEFINE e == d - 1
    <3>3. e \in Depths /\ e \in depth - k .. depth - 1 /\ e + 1 = d
      BY <2>2, <3>1, <3>2
    <3> HIDE DEF e
    <3>4. excluded'[e] = excl[e] \cup {chain[e+1]}
      BY <2>1, <3>3 DEF ExcludedAfterPop
    <3>. QED
      BY <3>3, <3>4 DEF e
  <2>. QED
    BY <2>1, <2>4
<1>. QED
  BY <1>1, <1>2 DEF Backtrack

LEMMA StrikeChain ==
  ASSUME IInv, NEW excl, Strike(excl)
  PROVE  \/ /\ status' = status
            /\ \A d \in 1..Len(chain) : d > Len(chain') => chain[d] \in excluded'[d-1]
         \/ status' = "stalled" /\ chain' = chain /\ spec' = spec
<1>1. CASE Backtrack(excl)
  BY <1>1, BacktrackChain
<1>2. CASE UNCHANGED <<status, spec, chain>>
  BY <1>2 DEF IInv, TypeOK
<1>. QED
  BY <1>1, <1>2 DEF Strike

\* A step either leaves the file alone and goes on, stalls or aborts; or it
\* returns; or it rewrites the file and goes on.
LEMMA StepShape ==
  ASSUME IInv, Next
  PROVE  /\ prefix' = prefix
         /\ status = "running"
         /\ \A d \in 1..Len(chain) : d > Len(chain') => chain[d] \in excluded'[d-1]
         /\ \/ status' = "done" /\ disk' = disk /\ spec' = spec
            \/ status' = "running"
            \/ status' \in {"stalled", "raised"} /\ disk' = disk
<1>0. chain \in Seq(Choices) /\ Len(chain) \in Nat
  BY DEF IInv, TypeOK
<1>1. CASE Finish
  BY <1>0, <1>1 DEF Finish
<1>2. CASE StepCap
  BY <1>0, <1>2 DEF StepCap
<1>3. CASE NothingApplicable
  BY <1>0, <1>3, BacktrackChain DEF NothingApplicable, Iterate
<1>4. CASE BadPick
  BY <1>0, <1>4, StrikeChain DEF BadPick, Iterate
<1>5. ASSUME NEW ch \in Choices, ApplyRaises(ch) \/ GateRejects(ch) \/ ApplyEscapes(ch)
      PROVE  /\ UNCHANGED <<prefix, chain, disk>>
             /\ status = "running" /\ status' \in {"running", "raised"}
  BY <1>5 DEF ApplyRaises, GateRejects, ApplyEscapes, ValidPick, Iterate
<1>6. ASSUME NEW ch \in Choices, NoOp(ch)
      PROVE  Iterate /\ Strike(Excluding(ch)) /\ disk' = disk
  BY <1>6 DEF NoOp, ValidPick
<1>7. ASSUME NEW ch \in Choices, Commit(ch)
      PROVE  /\ Iterate /\ status' = status /\ Len(chain') = Len(chain) + 1
  BY <1>0, <1>7 DEF Commit, Saved, ValidPick
<1>8. ASSUME NEW ch \in Choices, NoOp(ch)
      PROVE  /\ prefix' = prefix /\ status = "running" /\ disk' = disk
             /\ \/ /\ status' = status
                   /\ \A d \in 1..Len(chain) : d > Len(chain') => chain[d] \in excluded'[d-1]
                \/ status' = "stalled" /\ chain' = chain
  BY <1>6, <1>8, StrikeChain DEF Iterate
<1>9. CASE \E ch \in Choices : ApplyRaises(ch) \/ GateRejects(ch) \/ ApplyEscapes(ch)
  BY <1>0, <1>5, <1>9
<1>10. CASE \E ch \in Choices : NoOp(ch)
  BY <1>0, <1>8, <1>10
<1>11. CASE \E ch \in Choices : Commit(ch)
  BY <1>0, <1>7, <1>11 DEF Iterate
<1>. QED
  BY <1>1, <1>2, <1>3, <1>4, <1>9, <1>10, <1>11 DEF Next

\* Every choice a rollback takes off the chain is excluded where it stood.
THEOREM EngineRolledBackIsExcluded == Spec => RolledBackIsExcluded
<1>1. IInv /\ [Next]_vars =>
        [\A d \in 1..Len(chain) :
           d > Len(chain') => chain[d] \in excluded'[d-1]]_vars
  BY StepShape
<1>. QED
  BY <1>1, Invariance, PTL DEF Spec, RolledBackIsExcluded

-----------------------------------------------------------------------------
(***************************************************************************)
(* The contract.                                                           *)
(***************************************************************************)

\* At every moment the file is a refinement of the abstract spec: every step
\* on it was applicable, changed the spec and started from one that was not
\* RTL-style, across passes and whatever was rolled back.
THEOREM EngineDiskIsRefinement == Spec => []DiskIsRefinement
<1>1. IInv => DiskIsRefinement
  BY DEF IInv
<1>. QED
  BY <1>1, Invariance, PTL

\* run() implements the contract its callers rely on: what it writes are
\* refinements through the prefix, and what it returns is the replay of the
\* file it leaves.
THEOREM EngineImplementsContract == Spec => ImplementsContract
<1>0. ASSUME NEW c
      PROVE  /\ Contract!Replay(InitialSpec, c) = Replay(InitialSpec, c)
             /\ Contract!IsRefinement(InitialSpec, c) <=> IsRefinement(InitialSpec, c)
  BY DEF Contract!Replay, Contract!Trail, Contract!After, Replay, Trail, After,
         Contract!IsRefinement, Contract!Commits, IsRefinement, Commits
<1>1. Init => Contract!ContractInit
  BY DEF Init, Contract!ContractInit
<1>2. IInv /\ IInv' /\ [Next]_vars => [Contract!ContractNext]_(Contract!contractVars)
  <2>1. SUFFICES ASSUME IInv, IInv', [Next]_vars
                 PROVE  [Contract!ContractNext]_(Contract!contractVars)
    OBVIOUS
  <2>2. CASE UNCHANGED vars
    BY <2>2 DEF vars, Contract!contractVars
  <2>3. CASE Next
    <3>1. prefix' = prefix /\ status = "running"
      BY <2>1, <2>3, StepShape
    <3>2. CASE status' = "done" /\ disk' = disk /\ spec' = spec
      <4>1. Replay(InitialSpec, disk') = spec' /\ spec' \in RtlStyle
        <5>1. spec' \in RtlStyle /\ disk' = prefix' \o chain'
          BY <2>1, <3>2 DEF IInv, DoneWhenRtl, DiskCurrentWhenRtl
        <5>2. /\ prefix' \in Seq(Choices) /\ chain' \in Seq(Choices)
              /\ InitialSpec \in Outcomes
          BY <2>1, PrefixType, EngineAssumption DEF IInv, TypeOK, Outcomes
        <5>3. Replay(InitialSpec, prefix' \o chain')
                = Replay(Replay(InitialSpec, prefix'), chain')
          BY <5>2, ReplayConcat
        <5>. QED
          BY <2>1, <5>1, <5>3 DEF IInv, PassStart, SpecIsReplay
      <4>2. Contract!Return
        BY <1>0, <3>1, <3>2, <4>1 DEF Contract!Return
      <4>. QED
        BY <4>2 DEF Contract!ContractNext
    <3>3. CASE status' = "running"
      <4>1. Contract!Persist
        BY <1>0, <2>1, <3>1, <3>3
           DEF Contract!Persist, Contract!Leaves, Contract!Extends, IInv,
               DiskReplays, DiskIsRefinement
      <4>. QED
        BY <4>1 DEF Contract!ContractNext
    <3>4. CASE status' \in {"stalled", "raised"} /\ disk' = disk
      <4>1. Contract!Fail
        BY <3>1, <3>4 DEF Contract!Fail
      <4>. QED
        BY <4>1 DEF Contract!ContractNext
    <3>. QED
      BY <2>1, <2>3, <3>2, <3>3, <3>4, StepShape
  <2>. QED
    BY <2>1, <2>2, <2>3
<1>. QED
  BY <1>1, <1>2, Invariance, PTL DEF Spec, ImplementsContract, Contract!ContractSpec

\* What a caller may conclude from the contract, once it calls the engine on a
\* refinement.
THEOREM ContractKeepsPromise == ImplementsContract => []Contract!Promise
<1> DEFINE P == prefix \in Prefixes /\ Contract!Promise
<1>0. ASSUME NEW p \in Prefixes PROVE Contract!Leaves(InitialSpec, p, p)
  <2>1. p \in Seq(Choices) /\ IsRefinement(InitialSpec, p)
    BY PrefixType
  <2>2. Contract!IsRefinement(InitialSpec, p)
    BY <2>1
       DEF Contract!IsRefinement, Contract!Commits, Contract!Trail, Contract!After,
           IsRefinement, Commits, Trail, After
  <2>3. Contract!Extends(p, p)
    BY <2>1 DEF Contract!Extends
  <2>. QED
    BY <2>2, <2>3 DEF Contract!Leaves
<1>1. Contract!ContractInit => P
  BY <1>0 DEF Contract!ContractInit, Contract!Promise
<1>2. P /\ [Contract!ContractNext]_(Contract!contractVars) => P'
  <2>1. SUFFICES ASSUME P, [Contract!ContractNext]_(Contract!contractVars)
                 PROVE  P'
    OBVIOUS
  <2>2. CASE Contract!Persist
    BY <2>1, <2>2 DEF Contract!Persist, Contract!Promise
  <2>3. CASE Contract!Return
    BY <2>1, <2>3 DEF Contract!Return, Contract!Promise, Contract!Delivers
  <2>4. CASE Contract!Fail
    BY <2>1, <2>4 DEF Contract!Fail, Contract!Promise
  <2>5. CASE UNCHANGED Contract!contractVars
    BY <2>1, <2>5 DEF Contract!contractVars, Contract!Promise
  <2>. QED
    BY <2>1, <2>2, <2>3, <2>4, <2>5 DEF Contract!ContractNext
<1> HIDE DEF P
<1>3. P => Contract!Promise
  BY DEF P
<1>. QED
  BY <1>1, <1>2, <1>3, PTL DEF ImplementsContract, Contract!ContractSpec

\* So the engine keeps that promise.
THEOREM EngineKeepsPromise == Spec => []Contract!Promise
BY EngineImplementsContract, ContractKeepsPromise, PTL

(***************************************************************************)
(* What is left of a pass: the iterations under the cap and the last test. *)
(* Every step uses some of it up, strikes, exclusions and rollbacks        *)
(* included, so that a pass ends after at most MaxSteps + 1 steps unless   *)
(* one of its callables never returns: the safety half of Terminates.      *)
(***************************************************************************)
Left == (MaxSteps - totalSteps) + (IF status = "running" THEN 1 ELSE 0)

THEOREM EngineEnds == Spec => [](Left \in Nat) /\ [][Left' < Left]_vars
<1>1. IInv => Left \in Nat
  BY EngineAssumption DEF IInv, TypeOK, Depths, Left
<1>2. IInv /\ [Next]_vars => [Left' < Left]_vars
  <2>1. SUFFICES ASSUME IInv, Next PROVE Left' < Left
    OBVIOUS
  <2>2. totalSteps \in Nat /\ MaxSteps \in Nat
    BY <2>1, EngineAssumption DEF IInv, TypeOK, Depths
  <2>3. CASE status = "running" /\ status' # "running" /\ totalSteps' = totalSteps
    BY <2>2, <2>3 DEF Left
  <2>4. CASE status = "running" /\ totalSteps' = totalSteps + 1
    BY <2>2, <2>4 DEF Left
  <2>5. CASE Finish \/ StepCap
    BY <2>3, <2>5 DEF Finish, StepCap
  <2>6. CASE Iterate
    BY <2>4, <2>6 DEF Iterate
  <2>7. Finish \/ StepCap \/ Iterate
    BY <2>1
       DEF Next, NothingApplicable, BadPick, ApplyRaises, ApplyEscapes, NoOp,
           GateRejects, Commit, ValidPick
  <2>. QED
    BY <2>5, <2>6, <2>7
<1>. QED
  BY <1>1, <1>2, Invariance, PTL DEF Spec
=============================================================================
