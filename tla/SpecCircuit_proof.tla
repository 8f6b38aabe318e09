-------------------------- MODULE SpecCircuit_proof -------------------------
(***************************************************************************)
(* What the rules do to a spec, for every design and every picker, and     *)
(* what composition makes of actions of which one fires, and of its        *)
(* branches and steps, for every number of them and every meaning of the   *)
(* expressions.                                                            *)
(***************************************************************************)
EXTENDS SpecCircuit, Composition_proof

Shape(s, t) == IsSpec(t) /\ Adds(s, t)

\* What continuous logic looks like, and what a rule may do to an action.
Plain(a) == ~a.clocked /\ a.branches = <<>> /\ a.steps = <<>>

Refined(a, b) ==
  /\ b \in Actions
  /\ b.name = a.name /\ b.comb = a.comb
  /\ a.clocked => b.clocked
  /\ a.comb /\ Plain(a) => Plain(b)

\* Rules that rewrite actions one by one keep the spec's shape and take
\* nothing back.
LEMMA Rewritten ==
  ASSUME NEW s, IsSpec(s), NEW acts,
         acts = [i \in DOMAIN s.actions |-> acts[i]],
         \A i \in DOMAIN s.actions : Refined(s.actions[i], acts[i])
  PROVE  LET t == [s EXCEPT !.actions = acts]
         IN  /\ Shape(s, t)
             /\ t.vars = s.vars /\ t.reset = s.reset /\ t.actions = acts
             /\ ContinuousStays(s) => ContinuousStays(t)
<1> DEFINE t == [s EXCEPT !.actions = acts]
<1>1. t = [vars |-> s.vars, actions |-> acts, reset |-> s.reset]
  BY DEF IsSpec
<1>2. s.actions \in Seq(Actions)  BY DEF IsSpec
<1>3. DOMAIN s.actions = 1..Len(s.actions) /\ Len(s.actions) \in Nat  BY <1>2, SeqIs
<1>4. DOMAIN acts = DOMAIN s.actions  OBVIOUS
<1>5. acts \in Seq(Actions)
  <2>1. \A i \in DOMAIN s.actions : acts[i] \in Actions  BY DEF Refined
  <2> QED  BY <1>3, <2>1, Parted
<1>6. t.actions = acts /\ t.vars = s.vars /\ t.reset = s.reset  BY <1>1
<1> HIDE DEF t
<1>7. IsSpec(t)
  BY <1>1, <1>5, <1>6 DEF IsSpec
<1>8. Adds(s, t)
  BY <1>4, <1>6 DEF Adds, Refined
<1>9. ContinuousStays(s) => ContinuousStays(t)
  BY <1>4, <1>6 DEF ContinuousStays, Refined, Plain
<1> QED  BY <1>6, <1>7, <1>8, <1>9 DEF t, Shape

LEMMA ActionOf ==
  ASSUME NEW s, IsSpec(s), NEW i \in DOMAIN s.actions  PROVE s.actions[i] \in Actions
<1>1. s.actions \in Seq(Actions)  BY DEF IsSpec
<1> QED  BY <1>1, SeqIs

Keeps(s, t) ==
  /\ Shape(s, t)
  /\ ContinuousStays(s) /\ NeverReset(s) => ContinuousStays(t) /\ NeverReset(t)

\* A choice to assign, split or sequence one action.
LEMMA AssignmentKeeps ==
  ASSUME NEW s, IsSpec(s), NEW p, IsChoice(p), p.rule = "Assignment"
  PROVE  Keeps(s, Assignment(s, p))
<1> DEFINE new(i) == [s.actions[i] EXCEPT !.updates = Merge(@, p.updates)]
           acts == [i \in DOMAIN s.actions |->
                      IF IsFirst(s, i, p.action) THEN new(i) ELSE s.actions[i]]
           t == [s EXCEPT !.actions = acts]
<1>1. Assignment(s, p) = t  BY DEF Assignment, Rewrite
<1>2. \A i \in DOMAIN s.actions :
        Refined(s.actions[i], s.actions[i]) /\ Refined(s.actions[i], new(i))
  <2> SUFFICES ASSUME NEW i \in DOMAIN s.actions
               PROVE  /\ Refined(s.actions[i], s.actions[i])
                      /\ Refined(s.actions[i], new(i))
    OBVIOUS
  <2> DEFINE a == s.actions[i]
             us == Merge(a.updates, p.updates)
  <2>1. a \in Actions  BY ActionOf
  <2>2. Refined(a, a)  BY <2>1 DEF Refined
  <2>3. us \in Seq(Updates)
    <3>1. a.updates \in Seq(Updates) /\ p.updates \in Seq(Updates)
      BY <2>1 DEF Actions, IsChoice
    <3> QED  BY <3>1, MergeIs
  <2>4. new(i) = [a EXCEPT !.updates = us]  OBVIOUS
  <2> HIDE DEF new, a, us
  <2>5. Refined(a, new(i))  BY <2>1, <2>3, <2>4 DEF Actions, Refined, Plain
  <2> QED  BY <2>2, <2>5 DEF a
<1>3. \A i \in DOMAIN s.actions : Refined(s.actions[i], acts[i])  BY <1>2
<1>4. acts = [i \in DOMAIN s.actions |-> acts[i]]  OBVIOUS
<1> HIDE DEF new, acts
<1>5. /\ Shape(s, t) /\ t.vars = s.vars
      /\ ContinuousStays(s) => ContinuousStays(t)
  BY <1>3, <1>4, Rewritten
<1> QED  BY <1>1, <1>5 DEF Keeps, NeverReset, Unresettable, IsRegister, IsWire, IsMemory

LEMMA AlternationKeeps ==
  ASSUME NEW s, IsSpec(s), NEW p, IsChoice(p), p.rule = "Alternation"
  PROVE  Keeps(s, Alternation(s, p))
<1> DEFINE new(i) == IF s.actions[i].comb THEN s.actions[i]
                     ELSE [s.actions[i] EXCEPT !.branches = p.branches,
                                               !.updates = Frame(p.branches)]
           acts == [i \in DOMAIN s.actions |->
                      IF IsFirst(s, i, p.action) THEN new(i) ELSE s.actions[i]]
           t == [s EXCEPT !.actions = acts]
<1>1. Alternation(s, p) = t  BY DEF Alternation, Rewrite
<1>2. \A i \in DOMAIN s.actions :
        Refined(s.actions[i], s.actions[i]) /\ Refined(s.actions[i], new(i))
  <2> SUFFICES ASSUME NEW i \in DOMAIN s.actions
               PROVE  /\ Refined(s.actions[i], s.actions[i])
                      /\ Refined(s.actions[i], new(i))
    OBVIOUS
  <2> DEFINE a == s.actions[i]
  <2>1. a \in Actions  BY ActionOf
  <2>2. Refined(a, a)  BY <2>1 DEF Refined
  <2>3. CASE a.comb  BY <2>2, <2>3
  <2>4. CASE ~a.comb
    <3> DEFINE us == Frame(p.branches)
    <3>1. new(i) = [a EXCEPT !.branches = p.branches, !.updates = us]
      BY <2>4
    <3>2. p.branches \in Seq(Branches) /\ us \in Seq(Updates)
      <4>1. p.branches \in Seq(Branches)  BY DEF IsChoice
      <4>2. \A b \in Branches : b.updates \in Seq(Updates)  BY DEF Branches
      <4> QED  BY <4>1, <4>2, FrameIs
    <3> HIDE DEF new, a, us
    <3>3. Refined(a, new(i))  BY <2>1, <2>4, <3>1, <3>2 DEF Actions, Refined
    <3> QED  BY <2>2, <3>3 DEF a
  <2> QED  BY <2>3, <2>4
<1>3. \A i \in DOMAIN s.actions : Refined(s.actions[i], acts[i])  BY <1>2
<1>4. acts = [i \in DOMAIN s.actions |-> acts[i]]  OBVIOUS
<1> HIDE DEF new, acts
<1>5. /\ Shape(s, t) /\ t.vars = s.vars
      /\ ContinuousStays(s) => ContinuousStays(t)
  BY <1>3, <1>4, Rewritten
<1> QED  BY <1>1, <1>5 DEF Keeps, NeverReset, Unresettable, IsRegister, IsWire, IsMemory

LEMMA InheritedIs ==
  ASSUME NEW ss \in Seq(Steps), NEW g \in STRING
  PROVE  Inherited(ss, g) \in Seq(Steps)
<1>1. CASE ss = <<>> \/ ss[1].guard # None  BY <1>1 DEF Inherited
<1>2. CASE ss # <<>> /\ ss[1].guard = None
  <2>1. Inherited(ss, g) = [ss EXCEPT ![1].guard = g]  BY <1>2 DEF Inherited
  <2>2. 1 \in DOMAIN ss /\ ss[1] \in Steps  BY <1>2
  <2>3. [ss[1] EXCEPT !.guard = g] \in Steps  BY <2>2 DEF Steps
  <2> DEFINE x == [ss[1] EXCEPT !.guard = g]
  <2>4. Inherited(ss, g) = [ss EXCEPT ![1] = x]  BY <2>1
  <2> HIDE DEF x
  <2>5. [ss EXCEPT ![1] = x] \in Seq(Steps)  BY <2>2, <2>3, ExceptSeq DEF x
  <2> QED  BY <2>4, <2>5
<1> QED  BY <1>1, <1>2

LEMMA SequentialCompositionKeeps ==
  ASSUME NEW s, IsSpec(s), NEW p, IsChoice(p), p.rule = "SequentialComposition"
  PROVE  Keeps(s, SequentialComposition(s, p))
<1> DEFINE new(i) == IF s.actions[i].comb THEN s.actions[i]
                     ELSE [s.actions[i] EXCEPT
                             !.steps = Inherited(p.steps, s.actions[i].guard),
                             !.updates = Frame(p.steps)]
           acts == [i \in DOMAIN s.actions |->
                      IF IsFirst(s, i, p.action) THEN new(i) ELSE s.actions[i]]
           t == [s EXCEPT !.actions = acts]
<1>1. SequentialComposition(s, p) = t  BY DEF SequentialComposition, Rewrite
<1>2. \A i \in DOMAIN s.actions :
        Refined(s.actions[i], s.actions[i]) /\ Refined(s.actions[i], new(i))
  <2> SUFFICES ASSUME NEW i \in DOMAIN s.actions
               PROVE  /\ Refined(s.actions[i], s.actions[i])
                      /\ Refined(s.actions[i], new(i))
    OBVIOUS
  <2> DEFINE a == s.actions[i]
  <2>1. a \in Actions  BY ActionOf
  <2>2. Refined(a, a)  BY <2>1 DEF Refined
  <2>3. CASE a.comb  BY <2>2, <2>3
  <2>4. CASE ~a.comb
    <3> DEFINE us == Frame(p.steps)
               ss == Inherited(p.steps, a.guard)
    <3>1. new(i) = [a EXCEPT !.steps = ss, !.updates = us]
      BY <2>4
    <3>2. ss \in Seq(Steps) /\ us \in Seq(Updates)
      <4>1. p.steps \in Seq(Steps) /\ a.guard \in STRING
        BY <2>1 DEF IsChoice, Actions
      <4>2. \A x \in Steps : x.updates \in Seq(Updates)  BY DEF Steps
      <4> QED  BY <4>1, <4>2, FrameIs, InheritedIs
    <3> HIDE DEF new, a, us, ss
    <3>3. Refined(a, new(i))  BY <2>1, <2>4, <3>1, <3>2 DEF Actions, Refined
    <3> QED  BY <2>2, <3>3 DEF a
  <2> QED  BY <2>3, <2>4
<1>3. \A i \in DOMAIN s.actions : Refined(s.actions[i], acts[i])  BY <1>2
<1>4. acts = [i \in DOMAIN s.actions |-> acts[i]]  OBVIOUS
<1> HIDE DEF new, acts
<1>5. /\ Shape(s, t) /\ t.vars = s.vars
      /\ ContinuousStays(s) => ContinuousStays(t)
  BY <1>3, <1>4, Rewritten
<1> QED  BY <1>1, <1>5 DEF Keeps, NeverReset, Unresettable, IsRegister, IsWire, IsMemory

\* Rules that rewrite variables one by one, or add one.
LEMMA Revalued ==
  ASSUME NEW s, IsSpec(s), NEW vs,
         vs = [v \in DOMAIN vs |-> vs[v]],
         DOMAIN s.vars \subseteq DOMAIN vs,
         \A v \in DOMAIN vs : IsVariable(vs[v]),
         \A v \in DOMAIN s.vars :
           /\ ~s.vars[v].abstract => ~vs[v].abstract
           /\ s.vars[v].clocked => vs[v].clocked
           /\ s.vars[v].reset # None => vs[v].reset # None
  PROVE  LET t == [s EXCEPT !.vars = vs]
         IN  /\ Shape(s, t)
             /\ t.vars = vs /\ t.reset = s.reset /\ t.actions = s.actions
             /\ ContinuousStays(s) => ContinuousStays(t)
<1> DEFINE t == [s EXCEPT !.vars = vs]
<1>1. t = [vars |-> vs, actions |-> s.actions, reset |-> s.reset]
  BY DEF IsSpec
<1>2. t.actions = s.actions /\ t.vars = vs /\ t.reset = s.reset  BY <1>1
<1> HIDE DEF t
<1>3. IsSpec(t)  BY <1>1, <1>2 DEF IsSpec
<1>4. Adds(s, t)  BY <1>2 DEF Adds
<1>5. ContinuousStays(s) => ContinuousStays(t)  BY <1>2 DEF ContinuousStays
<1> QED  BY <1>2, <1>3, <1>4, <1>5 DEF t, Shape

LEMMA IntroduceVariableKeeps ==
  ASSUME NEW s, IsSpec(s), NEW p, IsChoice(p), p.rule = "IntroduceVariable",
         p.name \notin DOMAIN s.vars
  PROVE  Keeps(s, IntroduceVariable(s, p))
<1> DEFINE fresh == [width |-> p.width, depth |-> 0, comb |-> FALSE,
                     abstract |-> p.abstract, reset |-> p.reset, clocked |-> FALSE]
           vs == [v \in DOMAIN s.vars \cup {p.name} |->
                    IF v = p.name THEN fresh ELSE s.vars[v]]
           t == [s EXCEPT !.vars = vs]
<1>1. IntroduceVariable(s, p) = t  BY DEF IntroduceVariable
<1>2. IsVariable(fresh)  BY DEF IsChoice, IsVariable
<1>3. ~fresh.comb /\ fresh.depth = 0  OBVIOUS
<1> HIDE DEF fresh
<1>4. \A v \in DOMAIN vs : IsVariable(vs[v])  BY <1>2 DEF IsSpec
<1>5. \A v \in DOMAIN s.vars : vs[v] = s.vars[v]  OBVIOUS
<1>6. /\ vs = [v \in DOMAIN vs |-> vs[v]]
      /\ DOMAIN vs = DOMAIN s.vars \cup {p.name} /\ vs[p.name] = fresh
  OBVIOUS
<1> HIDE DEF vs
<1>7. /\ Shape(s, t) /\ t.vars = vs
      /\ ContinuousStays(s) => ContinuousStays(t)
  BY <1>4, <1>5, <1>6, Revalued
<1>8. NeverReset(s) => NeverReset(t)
  BY <1>3, <1>5, <1>6, <1>7
  DEF NeverReset, Unresettable, IsRegister, IsWire, IsMemory
<1> QED  BY <1>1, <1>7, <1>8 DEF Keeps

LEMMA FirstIsUnique ==
  ASSUME NEW s, IsSpec(s), NEW name, NEW i \in DOMAIN s.actions,
         NEW j \in DOMAIN s.actions, IsFirst(s, i, name), IsFirst(s, j, name)
  PROVE  i = j
<1>1. s.actions \in Seq(Actions)  BY DEF IsSpec
<1>2. i \in 1..Len(s.actions) /\ j \in 1..Len(s.actions) /\ Len(s.actions) \in Nat
  BY <1>1, SeqIs
<1> QED  BY <1>2 DEF IsFirst

LEMMA IterationKeeps ==
  ASSUME NEW s, IsSpec(s), NEW p  PROVE  Keeps(s, Iteration(s, p))
<1> DEFINE new(i) == [s.actions[i] EXCEPT !.clocked = TRUE]
           acts == [i \in DOMAIN s.actions |->
                      IF IsFirst(s, i, p.action) THEN new(i) ELSE s.actions[i]]
           m == [s EXCEPT !.actions = acts]
           written(v) == \E i \in DOMAIN s.actions :
                           /\ s.actions[i].name = p.action
                           /\ Mentions(s.actions[i].updates, v)
           vs == [v \in DOMAIN m.vars |->
                    IF written(v)
                    THEN [m.vars[v] EXCEPT !.clocked = TRUE, !.abstract = FALSE]
                    ELSE m.vars[v]]
           t == [m EXCEPT !.vars = vs]
           clockable == \E i \in DOMAIN s.actions :
                          IsFirst(s, i, p.action) /\ Clockable(s.actions[i])
<1>1. Iteration(s, p) = IF clockable THEN t ELSE s  BY DEF Iteration, Rewrite
<1>2. CASE ~clockable
  <2>1. Adds(s, s)  BY DEF Adds
  <2> HIDE DEF clockable
  <2> QED  BY <1>1, <1>2, <2>1 DEF Keeps, Shape
<1>3. CASE clockable
  <2>1. \A i \in DOMAIN s.actions :
          /\ Refined(s.actions[i], s.actions[i])
          /\ ~s.actions[i].comb => Refined(s.actions[i], new(i))
    <3> SUFFICES ASSUME NEW i \in DOMAIN s.actions
                 PROVE  /\ Refined(s.actions[i], s.actions[i])
                        /\ ~s.actions[i].comb => Refined(s.actions[i], new(i))
      OBVIOUS
    <3> DEFINE a == s.actions[i]
    <3>1. a \in Actions  BY ActionOf
    <3>2. Refined(a, a)  BY <3>1 DEF Refined
    <3>3. new(i) = [a EXCEPT !.clocked = TRUE]  OBVIOUS
    <3> HIDE DEF new, a
    <3>4. ~a.comb => Refined(a, new(i))  BY <3>1, <3>3 DEF Actions, Refined
    <3> QED  BY <3>2, <3>4 DEF a
  <2>2. \A i \in DOMAIN s.actions :
          IsFirst(s, i, p.action) => ~s.actions[i].comb
    <3>1. PICK j \in DOMAIN s.actions :
            IsFirst(s, j, p.action) /\ Clockable(s.actions[j])
      BY <1>3
    <3>2. ~s.actions[j].comb  BY <3>1 DEF Clockable
    <3> QED  BY <3>1, <3>2, FirstIsUnique
  <2>3. \A i \in DOMAIN s.actions : Refined(s.actions[i], acts[i])  BY <2>1, <2>2
  <2>4. acts = [i \in DOMAIN s.actions |-> acts[i]]  OBVIOUS
  <2> HIDE DEF new, acts
  <2>5. /\ Shape(s, m) /\ m.vars = s.vars /\ m.actions = acts
        /\ ContinuousStays(s) => ContinuousStays(m)
    BY <2>3, <2>4, Rewritten
  <2> HIDE DEF m, written
  <2>6. \A v \in DOMAIN m.vars :
          /\ IsVariable(vs[v])
          /\ ~vs[v].abstract \/ vs[v].abstract = m.vars[v].abstract
          /\ vs[v].clocked \/ vs[v].clocked = m.vars[v].clocked
          /\ vs[v].reset = m.vars[v].reset
          /\ vs[v].comb = m.vars[v].comb /\ vs[v].depth = m.vars[v].depth
    <3> TAKE v \in DOMAIN m.vars
    <3> DEFINE r == m.vars[v]
    <3>1. IsVariable(r)  BY <2>5 DEF Shape, IsSpec
    <3>2. vs[v] = r \/ vs[v] = [r EXCEPT !.clocked = TRUE, !.abstract = FALSE]
      OBVIOUS
    <3> HIDE DEF r, vs
    <3>3. IsVariable([r EXCEPT !.clocked = TRUE, !.abstract = FALSE])
      BY <3>1 DEF IsVariable
    <3> QED  BY <3>1, <3>2, <3>3 DEF IsVariable, r
  <2>7. vs = [v \in DOMAIN vs |-> vs[v]] /\ DOMAIN vs = DOMAIN m.vars  OBVIOUS
  <2> HIDE DEF vs
  <2>8. IsSpec(m)  BY <2>5 DEF Shape
  <2>9. /\ Shape(m, t) /\ t.vars = vs
        /\ ContinuousStays(m) => ContinuousStays(t)
    BY <2>6, <2>7, <2>8, Revalued
  <2>10. Adds(s, t)  BY <2>5, <2>9 DEF Shape, Adds
  <2>11. NeverReset(s) => NeverReset(t)
    BY <2>5, <2>6, <2>7, <2>9
    DEF NeverReset, Unresettable, IsRegister, IsWire, IsMemory
  <2> HIDE DEF t, clockable
  <2> QED  BY <1>1, <1>3, <2>5, <2>9, <2>10, <2>11 DEF Keeps, Shape
<1> QED  BY <1>2, <1>3

LEMMA ResetValueKept ==
  ASSUME NEW s, IsSpec(s), NEW values \in Seq(Updates),
         NEW v \in DOMAIN s.vars
  PROVE  /\ ResetValue(s, values, v) \in STRING \cup {None}
         /\ s.vars[v].reset # None => ResetValue(s, values, v) # None
         /\ v \in Unresettable(s) => ResetValue(s, values, v) = s.vars[v].reset
<1> DEFINE mine == Valued(values, v)
           u == CHOOSE x \in mine : TRUE
<1>1. CASE mine # {} /\ v \notin Unresettable(s)
  <2>1. u \in Range(values)  BY <1>1 DEF Valued
  <2>2. u.expr \in STRING /\ u.expr # None
    <3> HIDE DEF u
    <3>1. PICK k \in 1..Len(values) : u = values[k]  BY <2>1, SeqIs DEF Range
    <3>2. u \in Updates  BY <3>1, SeqIs
    <3> QED  BY <3>2, NoneAssumption DEF Updates
  <2>3. ResetValue(s, values, v) = u.expr  BY <1>1 DEF ResetValue
  <2> HIDE DEF u, mine
  <2> QED  BY <1>1, <2>2, <2>3
<1>2. CASE ~(mine # {} /\ v \notin Unresettable(s))
  <2>1. ResetValue(s, values, v) = s.vars[v].reset  BY <1>2 DEF ResetValue
  <2>2. s.vars[v].reset \in STRING \cup {None}  BY DEF IsSpec, IsVariable
  <2> QED  BY <2>1, <2>2
<1> QED  BY <1>1, <1>2

LEMMA InitializationKeeps ==
  ASSUME NEW s, IsSpec(s), NEW p, IsChoice(p), p.rule = "Initialization"
  PROVE  Keeps(s, Initialization(s, p))
<1> DEFINE vs == [v \in DOMAIN s.vars |->
                    [s.vars[v] EXCEPT !.reset = ResetValue(s, p.values, v)]]
           ra == ResetAction(s, p)
           acts == IF Named(s, p.name) THEN s.actions ELSE Append(s.actions, ra)
           t == Initialization(s, p)
<1>1. t = [vars |-> vs, actions |-> acts, reset |-> p.name]  BY DEF Initialization
<1>2. t.vars = vs /\ t.actions = acts  BY <1>1
<1>3. DOMAIN vs = DOMAIN s.vars /\ vs = [v \in DOMAIN vs |-> vs[v]]  OBVIOUS
<1>4. p.name \in STRING /\ p.values \in Seq(Updates)  BY DEF IsChoice
<1>5. \A v \in DOMAIN s.vars :
        /\ IsVariable(vs[v])
        /\ vs[v].abstract = s.vars[v].abstract /\ vs[v].clocked = s.vars[v].clocked
        /\ vs[v].comb = s.vars[v].comb /\ vs[v].depth = s.vars[v].depth
        /\ s.vars[v].reset # None => vs[v].reset # None
        /\ v \in Unresettable(s) => vs[v].reset = s.vars[v].reset
  <2> SUFFICES ASSUME NEW v \in DOMAIN s.vars
               PROVE  /\ IsVariable(vs[v])
                      /\ vs[v].abstract = s.vars[v].abstract
                      /\ vs[v].clocked = s.vars[v].clocked
                      /\ vs[v].comb = s.vars[v].comb /\ vs[v].depth = s.vars[v].depth
                      /\ s.vars[v].reset # None => vs[v].reset # None
                      /\ v \in Unresettable(s) => vs[v].reset = s.vars[v].reset
    OBVIOUS
  <2> DEFINE r == ResetValue(s, p.values, v)
             x == s.vars[v]
  <2>1. IsVariable(x)  BY DEF IsSpec
  <2>2. /\ r \in STRING \cup {None} /\ (x.reset # None => r # None)
        /\ v \in Unresettable(s) => r = x.reset
    BY <1>4, ResetValueKept
  <2>3. vs[v] = [x EXCEPT !.reset = r]  OBVIOUS
  <2> HIDE DEF x, r, vs
  <2>4. /\ IsVariable(vs[v])
        /\ vs[v].abstract = x.abstract /\ vs[v].clocked = x.clocked
        /\ vs[v].comb = x.comb /\ vs[v].depth = x.depth /\ vs[v].reset = r
    BY <2>1, <2>2, <2>3 DEF IsVariable
  <2> QED  BY <2>2, <2>4 DEF x
<1>6. ra \in Actions /\ ~ra.comb
  <2> DEFINE kept == {k \in DOMAIN p.values : p.values[k].var \notin Unresettable(s)}
             us == Only(p.values, kept)
             n == p.name
             bs == <<>>
             no == FALSE
  <2>1. ra = [name |-> n, guard |-> RstHigh, updates |-> us,
              branches |-> bs, steps |-> bs, clocked |-> no, comb |-> no]
    BY DEF ResetAction
  <2>2. n \in STRING  BY <1>4
  <2>6. no \in BOOLEAN /\ ~no  OBVIOUS
  <2>3. bs \in Seq(Branches) /\ bs \in Seq(Steps)  OBVIOUS
  <2> HIDE DEF ra, n, bs, no, kept
  <2>4. us \in Seq(Updates)  BY <1>4, OnlyIs
  <2> HIDE DEF us
  <2>5. ra \in Actions  BY <2>1, <2>2, <2>3, <2>4, <2>6, TextAssumption DEF Actions
  <2> QED  BY <2>1, <2>6, <2>5
<1>7. s.actions \in Seq(Actions)  BY DEF IsSpec
<1>8. DOMAIN s.actions = 1..Len(s.actions) /\ Len(s.actions) \in Nat  BY <1>7, SeqIs
<1> HIDE DEF ra, vs
<1>9. /\ acts \in Seq(Actions)
      /\ DOMAIN s.actions \subseteq DOMAIN acts
      /\ \A i \in DOMAIN s.actions : acts[i] = s.actions[i]
      /\ \A i \in DOMAIN acts : i \in DOMAIN s.actions \/ acts[i] = ra
  <2>1. CASE Named(s, p.name)  BY <1>7, <1>8, <2>1
  <2>2. CASE ~Named(s, p.name)
    <3>1. acts = Append(s.actions, ra)  BY <2>2
    <3> HIDE DEF acts
    <3>2. /\ acts \in Seq(Actions)
          /\ Len(acts) = Len(s.actions) + 1
          /\ \A i \in 1..Len(s.actions) : acts[i] = s.actions[i]
          /\ acts[Len(s.actions) + 1] = ra
      BY <1>6, <1>7, <3>1, AppendProperties
    <3>3. DOMAIN acts = 1..Len(acts)  BY <3>2, SeqIs
    <3> QED  BY <1>8, <3>2, <3>3
  <2> QED  BY <2>1, <2>2
<1> HIDE DEF acts, t
<1>12. IsSpec(t)  BY <1>1, <1>2, <1>3, <1>4, <1>5, <1>9 DEF IsSpec
<1>13. Adds(s, t)  BY <1>2, <1>3, <1>5, <1>9 DEF Adds
<1>14. ContinuousStays(s) => ContinuousStays(t)
  BY <1>2, <1>6, <1>9 DEF ContinuousStays
<1>15. NeverReset(s) => NeverReset(t)
  BY <1>2, <1>3, <1>5 DEF NeverReset, Unresettable, IsRegister, IsWire, IsMemory
<1> QED  BY <1>12, <1>13, <1>14, <1>15 DEF t, Keeps, Shape

LEMMA ApplyKeeps ==
  ASSUME NEW s, IsSpec(s), NEW p, IsChoice(p)
  PROVE  Keeps(s, Apply(p, s))
<1>1. CASE p.rule = "IntroduceVariable"
  <2>1. CASE p.name \in DOMAIN s.vars
    <3>1. Apply(p, s) = s  BY <1>1, <2>1 DEF Apply
    <3>2. Keeps(s, s)  BY DEF Keeps, Shape, Adds
    <3> QED  BY <3>1, <3>2
  <2>2. CASE p.name \notin DOMAIN s.vars
    BY <1>1, <2>2, IntroduceVariableKeeps DEF Apply
  <2> QED  BY <2>1, <2>2
<1>2. CASE p.rule = "Assignment"  BY <1>2, AssignmentKeeps DEF Apply
<1>3. CASE p.rule = "Alternation"  BY <1>3, AlternationKeeps DEF Apply
<1>4. CASE p.rule = "SequentialComposition"
  BY <1>4, SequentialCompositionKeeps DEF Apply
<1>5. CASE p.rule = "Iteration"  BY <1>5, IterationKeeps DEF Apply
<1>6. CASE p.rule = "Initialization"  BY <1>6, InitializationKeeps DEF Apply
<1> QED  BY <1>1, <1>2, <1>3, <1>4, <1>5, <1>6 DEF IsChoice, RuleNames

-----------------------------------------------------------------------------
\* The picker is offered what the rules document.
PickerDocuments ==
  \A x \in Designs : \A s : IsSpec(s) => \A p \in Offers(x, s) : IsChoice(p)

SInv == d \in Designs /\ IsSpec(spec) /\ ContinuousStays(spec) /\ NeverReset(spec)

LEMMA SInvInit == Init => SInv
<1> SUFFICES ASSUME Init  PROVE SInv  OBVIOUS
<1>1. IsFresh(spec)  BY DesignAssumption DEF Init
<1> QED
  BY <1>1 DEF Init, IsFresh, SInv, ContinuousStays, NeverReset, Unresettable

\* Only Refine changes the spec.
LEMMA StepKeeps ==
  ASSUME PickerDocuments, SInv, [Next]_vars
  PROVE  SInv' /\ Adds(spec, spec')
<1>1. CASE \E p \in Offers(d, spec) : Refine(p)
  <2>1. PICK p \in Offers(d, spec) : Refine(p)  BY <1>1
  <2>2. IsChoice(p)  BY DEF PickerDocuments, SInv
  <2>3. spec' = Apply(p, spec)  BY <2>1 DEF Refine, Refines
  <2>4. Keeps(spec, Apply(p, spec))  BY <2>2, ApplyKeeps DEF SInv
  <2> QED  BY <2>1, <2>3, <2>4 DEF Keeps, Shape, SInv, Refine
<1>2. CASE spec' = spec /\ d' = d  BY <1>2 DEF SInv, Adds
<1> QED
  BY <1>1, <1>2
  DEF Next, Compile, AssertReset, DeassertReset, Vector, ResetVector, vars

\* Refinement only adds (engine.py, rules/): whatever the picker proposes, in
\* whatever order, what a rule has decided about a variable or an action stays.
THEOREM SpecAdds == PickerDocuments => (Spec => RefinementOnlyAdds)
<1> SUFFICES ASSUME PickerDocuments  PROVE Spec => RefinementOnlyAdds  OBVIOUS
<1>1. Init => SInv  BY SInvInit
<1>2. SInv /\ [Next]_vars => SInv'  BY StepKeeps
<1>3. SInv /\ [Next]_vars => [Adds(spec, spec')]_vars  BY StepKeeps
<1> QED  BY <1>1, <1>2, <1>3, PTL DEF Spec, RefinementOnlyAdds

-----------------------------------------------------------------------------
(* The reset branch *)

\* The picker leaves the reset action's parts to Initialization, and names a
\* reset action that no other action's name is (initialization.py: Reset).
Spares ==
  \A p \in Offers(d, spec) :
    /\ p.rule \in {"Assignment", "Alternation", "SequentialComposition"} =>
         spec.reset = None \/ p.action # spec.reset
    /\ p.rule = "Initialization" => p.name = spec.reset \/ ~Named(spec, p.name)

\* A variable is introduced without a reset value, and Initialization, when its
\* turn comes, finds no reset action.
ResetsOnce(p, s) ==
  /\ p.rule = "IntroduceVariable" => p.reset = None
  /\ p.rule = "Initialization" =>
       s.reset = None /\ \A k \in DOMAIN p.values : p.values[k].idx = None

OneReset ==
  \A p \in Offers(d, spec) : IsApplicable(p.rule, spec) => ResetsOnce(p, spec)

\* A reset action is a list of updates of registers.
Resets(s, a) ==
  /\ a.branches = <<>> /\ a.steps = <<>>
  /\ \A k \in DOMAIN a.updates : a.updates[k].var \notin Unresettable(s)

ResetsRegisters(s) ==
  s.reset # None =>
    \A i \in DOMAIN s.actions : s.actions[i].name = s.reset => Resets(s, s.actions[i])

\* What has a reset value is named by the reset action.
Names(a, v) == \E k \in DOMAIN a.updates : Target(a.updates[k]) = Scalar(v)

Valueless(s) == \A v \in DOMAIN s.vars : s.vars[v].reset = None

Populated(s) ==
  IF s.reset = None THEN Valueless(s)
  ELSE /\ Named(s, s.reset)
       /\ \A i \in DOMAIN s.actions :
            s.actions[i].name = s.reset =>
              \A v \in DOMAIN s.vars : s.vars[v].reset # None => Names(s.actions[i], v)

\* The rule gives nothing a reset value.
NoneReset(s, t) ==
  \A v \in DOMAIN t.vars :
    t.vars[v].reset # None => v \in DOMAIN s.vars /\ s.vars[v].reset # None

LEMMA SparedStays ==
  ASSUME NEW s, NEW t, ResetsRegisters(s), t.reset = s.reset,
         Unresettable(t) = Unresettable(s),
         DOMAIN t.actions = DOMAIN s.actions,
         \A i \in DOMAIN s.actions :
           /\ t.actions[i].name = s.actions[i].name
           /\ s.reset # None /\ s.actions[i].name = s.reset =>
                /\ t.actions[i].branches = s.actions[i].branches
                /\ t.actions[i].steps = s.actions[i].steps
                /\ t.actions[i].updates = s.actions[i].updates
  PROVE  ResetsRegisters(t) /\ (NoneReset(s, t) /\ Populated(s) => Populated(t))
<1>1. ResetsRegisters(t)  BY DEF ResetsRegisters, Resets
<1>2. ASSUME NoneReset(s, t), Populated(s), s.reset = None  PROVE Populated(t)
  BY <1>2 DEF NoneReset, Populated, Valueless
<1>3. ASSUME NoneReset(s, t), Populated(s), s.reset # None  PROVE Populated(t)
  <2>1. Named(t, t.reset)  BY <1>3 DEF Populated, Named
  <2>2. ASSUME NEW i \in DOMAIN t.actions, t.actions[i].name = t.reset,
               NEW v \in DOMAIN t.vars, t.vars[v].reset # None
        PROVE  Names(t.actions[i], v)
    <3>1. Names(s.actions[i], v)  BY <1>3, <2>2 DEF Populated, NoneReset
    <3> QED  BY <1>3, <2>2, <3>1 DEF Names
  <2> QED  BY <1>3, <2>1, <2>2 DEF Populated
<1> QED  BY <1>1, <1>2, <1>3

\* A rule that rewrites the actions of another name.
LEMMA RewrittenSpares ==
  ASSUME NEW s, IsSpec(s), ResetsRegisters(s), NEW acts, NEW name,
         s.reset = None \/ name # s.reset,
         DOMAIN acts = DOMAIN s.actions,
         \A i \in DOMAIN s.actions :
           /\ acts[i].name = s.actions[i].name
           /\ ~IsFirst(s, i, name) => acts[i] = s.actions[i]
  PROVE  LET t == [s EXCEPT !.actions = acts]
         IN  ResetsRegisters(t) /\ (Populated(s) => Populated(t))
<1> DEFINE t == [s EXCEPT !.actions = acts]
<1>1. t.actions = acts /\ t.vars = s.vars /\ t.reset = s.reset  BY DEF IsSpec
<1> HIDE DEF t
<1>2. Unresettable(t) = Unresettable(s)
  BY <1>1 DEF Unresettable, IsRegister, IsWire, IsMemory
<1>3. \A i \in DOMAIN s.actions :
        s.reset # None /\ s.actions[i].name = s.reset => acts[i] = s.actions[i]
  BY DEF IsFirst
<1>4. NoneReset(s, t)  BY <1>1 DEF NoneReset
<1>5. ResetsRegisters(t) /\ (Populated(s) => Populated(t))
  BY <1>1, <1>2, <1>3, <1>4, SparedStays
<1> QED  BY <1>5 DEF t

LEMMA IterationSpares ==
  ASSUME NEW s, IsSpec(s), NEW p, ResetsRegisters(s)
  PROVE  LET t == Iteration(s, p)
         IN  ResetsRegisters(t) /\ (Populated(s) => Populated(t))
<1> DEFINE written(v) == \E i \in DOMAIN s.actions :
                           /\ s.actions[i].name = p.action
                           /\ Mentions(s.actions[i].updates, v)
           acts == [i \in DOMAIN s.actions |->
                      IF IsFirst(s, i, p.action)
                      THEN [s.actions[i] EXCEPT !.clocked = TRUE] ELSE s.actions[i]]
           vs == [v \in DOMAIN s.vars |->
                    IF written(v)
                    THEN [s.vars[v] EXCEPT !.clocked = TRUE, !.abstract = FALSE]
                    ELSE s.vars[v]]
           t == [vars |-> vs, actions |-> acts, reset |-> s.reset]
<1>1. Iteration(s, p) = t \/ Iteration(s, p) = s
  BY DEF Iteration, Rewrite, IsSpec
<1>2. \A i \in DOMAIN s.actions :
        /\ acts[i].name = s.actions[i].name
        /\ acts[i].branches = s.actions[i].branches
        /\ acts[i].steps = s.actions[i].steps
        /\ acts[i].updates = s.actions[i].updates
  BY ActionOf DEF Actions
<1>3. \A v \in DOMAIN s.vars : /\ vs[v].comb = s.vars[v].comb
                               /\ vs[v].depth = s.vars[v].depth
                               /\ vs[v].reset = s.vars[v].reset
  BY DEF IsSpec, IsVariable
<1>4. t.vars = vs /\ t.actions = acts /\ t.reset = s.reset
  OBVIOUS
<1>5. DOMAIN acts = DOMAIN s.actions /\ DOMAIN vs = DOMAIN s.vars  OBVIOUS
<1> HIDE DEF acts, vs, t
<1>6. Unresettable(t) = Unresettable(s)
  BY <1>3, <1>4, <1>5 DEF Unresettable, IsRegister, IsWire, IsMemory
<1>7. NoneReset(s, t)  BY <1>3, <1>4, <1>5 DEF NoneReset
<1>8. ResetsRegisters(t) /\ (Populated(s) => Populated(t))
  BY <1>2, <1>4, <1>5, <1>6, <1>7, SparedStays
<1> QED  BY <1>1, <1>8

LEMMA IntroduceVariableSpares ==
  ASSUME NEW s, IsSpec(s), NEW p, p.name \notin DOMAIN s.vars, ResetsRegisters(s)
  PROVE  LET t == IntroduceVariable(s, p)
         IN  ResetsRegisters(t) /\ (p.reset = None /\ Populated(s) => Populated(t))
<1> DEFINE new == [width |-> p.width, depth |-> 0, comb |-> FALSE,
                   abstract |-> p.abstract, reset |-> p.reset, clocked |-> FALSE]
           vs == [v \in DOMAIN s.vars \cup {p.name} |->
                    IF v = p.name THEN new ELSE s.vars[v]]
           t == [s EXCEPT !.vars = vs]
<1>1. IntroduceVariable(s, p) = t  BY DEF IntroduceVariable
<1>2. t.vars = vs /\ t.actions = s.actions /\ t.reset = s.reset  BY DEF IsSpec
<1>3. /\ DOMAIN vs = DOMAIN s.vars \cup {p.name}
      /\ \A v \in DOMAIN s.vars : vs[v] = s.vars[v]
      /\ ~vs[p.name].comb /\ ~(vs[p.name].depth > 0)
      /\ vs[p.name].reset = p.reset
  OBVIOUS
<1> HIDE DEF vs, t
<1>4. Unresettable(t) = Unresettable(s)
  BY <1>2, <1>3 DEF Unresettable, IsRegister, IsWire, IsMemory
<1>5. p.reset = None => NoneReset(s, t)  BY <1>2, <1>3 DEF NoneReset
<1>6. ResetsRegisters(t) /\ (p.reset = None /\ Populated(s) => Populated(t))
  BY <1>2, <1>4, <1>5, SparedStays
<1> QED  BY <1>1, <1>6

\* The new reset action updates none but registers; one that keeps its name
\* stays as it is.
LEMMA InitializationSpares ==
  ASSUME NEW s, IsSpec(s), NEW p, IsChoice(p), p.rule = "Initialization",
         p.name = s.reset \/ ~Named(s, p.name), ResetsRegisters(s)
  PROVE  ResetsRegisters(Initialization(s, p))
<1> DEFINE vs == [v \in DOMAIN s.vars |->
                    [s.vars[v] EXCEPT !.reset = ResetValue(s, p.values, v)]]
           ra == ResetAction(s, p)
           acts == IF Named(s, p.name) THEN s.actions ELSE Append(s.actions, ra)
           t == Initialization(s, p)
<1>1. t = [vars |-> vs, actions |-> acts, reset |-> p.name]  BY DEF Initialization
<1>2. t.vars = vs /\ t.actions = acts /\ t.reset = p.name  BY <1>1
<1>3. DOMAIN vs = DOMAIN s.vars
  OBVIOUS
<1>4. \A v \in DOMAIN s.vars : vs[v].comb = s.vars[v].comb /\ vs[v].depth = s.vars[v].depth
  BY DEF IsSpec, IsVariable
<1>5. p.name \in STRING /\ p.name # None /\ p.values \in Seq(Updates)
  BY NoneAssumption DEF IsChoice
<1> HIDE DEF vs, t
<1>6. Unresettable(t) = Unresettable(s)
  BY <1>2, <1>3, <1>4 DEF Unresettable, IsRegister, IsWire, IsMemory
<1>7. CASE Named(s, p.name)
  <2>1. p.name = s.reset /\ acts = s.actions  BY <1>7
  <2> HIDE DEF acts
  <2>2. t.reset = s.reset /\ t.actions = s.actions  BY <1>2, <2>1
  <2> QED  BY <1>6, <2>2 DEF ResetsRegisters, Resets, t
<1>8. CASE ~Named(s, p.name)
  <2> DEFINE kept == {k \in DOMAIN p.values : p.values[k].var \notin Unresettable(s)}
             us == Only(p.values, kept)
  <2>1. ra.branches = <<>> /\ ra.steps = <<>> /\ ra.updates = us  BY DEF ResetAction
  <2>2. \A u \in Range(us) : u.var \notin Unresettable(s)
    <3>1. us \in Seq(Updates)
          /\ \A x : x \in Range(us)
                     <=> \E k \in DOMAIN p.values : k \in kept /\ x = p.values[k]
      <4> HIDE DEF kept
      <4> QED  BY <1>5, OnlyIs
    <3> QED  BY <3>1
  <2> HIDE DEF us, ra
  <2>3. Resets(t, ra)  BY <1>6, <2>1, <2>2 DEF Resets, Range
  <2>4. /\ DOMAIN s.actions = 1..Len(s.actions) /\ Len(s.actions) \in Nat
        /\ s.actions \in Seq(Actions)
    BY SeqIs DEF IsSpec
  <2>5. acts = Append(s.actions, ra)  BY <1>8
  <2> HIDE DEF acts
  <2>6. \A i \in DOMAIN acts : (i \in DOMAIN s.actions /\ acts[i] = s.actions[i]) \/ acts[i] = ra
    BY <2>4, <2>5
  <2> QED  BY <1>2, <1>8, <2>3, <2>6 DEF ResetsRegisters, Named, t
<1> QED  BY <1>7, <1>8

\* The first Initialization lists in the reset action what it gives a value.
LEMMA InitializationPopulates ==
  ASSUME NEW s, IsSpec(s), NEW p, IsChoice(p), p.rule = "Initialization",
         ~Named(s, p.name), Valueless(s), \A k \in DOMAIN p.values : p.values[k].idx = None
  PROVE  Populated(Initialization(s, p))
<1> DEFINE vs == [v \in DOMAIN s.vars |->
                    [s.vars[v] EXCEPT !.reset = ResetValue(s, p.values, v)]]
           ra == ResetAction(s, p)
           acts == Append(s.actions, ra)
           kept == {k \in DOMAIN p.values : p.values[k].var \notin Unresettable(s)}
           us == Only(p.values, kept)
           t == Initialization(s, p)
<1>1. t = [vars |-> vs, actions |-> acts, reset |-> p.name]  BY DEF Initialization
<1>2. t.vars = vs /\ t.actions = acts /\ t.reset = p.name  BY <1>1
<1>3. ra.name = p.name /\ ra.updates = us  BY DEF ResetAction
<1>4. DOMAIN vs = DOMAIN s.vars
      /\ \A v \in DOMAIN s.vars : vs[v].reset = ResetValue(s, p.values, v)
  BY DEF IsSpec, IsVariable
<1>5. p.name \in STRING /\ p.name # None /\ p.values \in Seq(Updates)
  BY NoneAssumption DEF IsChoice
<1>6. \A x : x \in Range(us) <=> \E k \in DOMAIN p.values : k \in kept /\ x = p.values[k]
  <2> HIDE DEF kept
  <2> QED  BY <1>5, OnlyIs
<1>7. /\ DOMAIN s.actions = 1..Len(s.actions) /\ Len(s.actions) \in Nat
      /\ s.actions \in Seq(Actions)
  BY SeqIs DEF IsSpec
<1>8. /\ DOMAIN acts = 1..Len(s.actions) + 1 /\ acts[Len(s.actions) + 1] = ra
      /\ \A i \in DOMAIN s.actions : acts[i] = s.actions[i]
  BY <1>7
<1>9. ASSUME NEW v \in DOMAIN s.vars, vs[v].reset # None  PROVE Names(ra, v)
  <2>1. Valued(p.values, v) # {} /\ v \notin Unresettable(s)
    BY <1>4, <1>9 DEF ResetValue, Valueless
  <2>2. PICK u \in Range(p.values) : u.var = v  BY <2>1 DEF Valued
  <2>3. PICK k \in DOMAIN p.values : p.values[k] = u  BY <2>2 DEF Range
  <2>4. u \in Range(us) /\ u.idx = None  BY <1>6, <2>1, <2>2, <2>3
  <2> HIDE DEF us
  <2>5. PICK j \in DOMAIN us : us[j] = u  BY <2>4 DEF Range
  <2>6. Target(u) = Scalar(v)  BY <2>2, <2>4 DEF Target, Scalar
  <2> QED  BY <1>3, <2>5, <2>6 DEF Names
<1> HIDE DEF vs, ra, acts, us, t
<1>10. Named(t, t.reset)  BY <1>2, <1>3, <1>7, <1>8 DEF Named
<1>11. \A i \in DOMAIN acts : acts[i].name = p.name => acts[i] = ra
  BY <1>7, <1>8 DEF Named
<1>12. t.reset # None  BY <1>2, <1>5
<1> QED  BY <1>2, <1>4, <1>9, <1>10, <1>11, <1>12 DEF Populated, t

LEMMA ApplySpares ==
  ASSUME NEW s, IsSpec(s), NEW p, IsChoice(p), ResetsRegisters(s),
         p.rule \in {"Assignment", "Alternation", "SequentialComposition"} =>
           s.reset = None \/ p.action # s.reset,
         p.rule = "Initialization" => p.name = s.reset \/ ~Named(s, p.name)
  PROVE  LET t == Apply(p, s)
         IN  ResetsRegisters(t) /\ (ResetsOnce(p, s) /\ Populated(s) => Populated(t))
<1>1. CASE p.rule = "IntroduceVariable"
  <2>1. CASE p.name \in DOMAIN s.vars  BY <1>1, <2>1 DEF Apply
  <2>2. CASE p.name \notin DOMAIN s.vars
    BY <1>1, <2>2, IntroduceVariableSpares DEF Apply, ResetsOnce
  <2> QED  BY <2>1, <2>2
<1>2. CASE p.rule = "Assignment"
  <2> DEFINE acts == [i \in DOMAIN s.actions |->
                        IF IsFirst(s, i, p.action)
                        THEN [s.actions[i] EXCEPT !.updates = Merge(@, p.updates)]
                        ELSE s.actions[i]]
  <2>1. Apply(p, s) = [s EXCEPT !.actions = acts]  BY <1>2 DEF Apply, Assignment, Rewrite
  <2>2. \A i \in DOMAIN s.actions :
          /\ acts[i].name = s.actions[i].name
          /\ ~IsFirst(s, i, p.action) => acts[i] = s.actions[i]
    BY ActionOf DEF Actions
  <2>3. DOMAIN acts = DOMAIN s.actions  OBVIOUS
  <2> HIDE DEF acts
  <2>4. LET t == [s EXCEPT !.actions = acts]
        IN  ResetsRegisters(t) /\ (Populated(s) => Populated(t))
    BY <1>2, <2>2, <2>3, RewrittenSpares
  <2> QED  BY <2>1, <2>4
<1>3. CASE p.rule = "Alternation"
  <2> DEFINE acts == [i \in DOMAIN s.actions |->
                        IF IsFirst(s, i, p.action)
                        THEN IF s.actions[i].comb THEN s.actions[i]
                             ELSE [s.actions[i] EXCEPT !.branches = p.branches,
                                                       !.updates = Frame(p.branches)]
                        ELSE s.actions[i]]
  <2>1. Apply(p, s) = [s EXCEPT !.actions = acts]  BY <1>3 DEF Apply, Alternation, Rewrite
  <2>2. \A i \in DOMAIN s.actions :
          /\ acts[i].name = s.actions[i].name
          /\ ~IsFirst(s, i, p.action) => acts[i] = s.actions[i]
    BY ActionOf DEF Actions
  <2>3. DOMAIN acts = DOMAIN s.actions  OBVIOUS
  <2> HIDE DEF acts
  <2>4. LET t == [s EXCEPT !.actions = acts]
        IN  ResetsRegisters(t) /\ (Populated(s) => Populated(t))
    BY <1>3, <2>2, <2>3, RewrittenSpares
  <2> QED  BY <2>1, <2>4
<1>4. CASE p.rule = "SequentialComposition"
  <2> DEFINE acts == [i \in DOMAIN s.actions |->
                        IF IsFirst(s, i, p.action)
                        THEN IF s.actions[i].comb THEN s.actions[i]
                             ELSE [s.actions[i] EXCEPT
                                     !.steps = Inherited(p.steps, s.actions[i].guard),
                                     !.updates = Frame(p.steps)]
                        ELSE s.actions[i]]
  <2>1. Apply(p, s) = [s EXCEPT !.actions = acts]
    BY <1>4 DEF Apply, SequentialComposition, Rewrite
  <2>2. \A i \in DOMAIN s.actions :
          /\ acts[i].name = s.actions[i].name
          /\ ~IsFirst(s, i, p.action) => acts[i] = s.actions[i]
    BY ActionOf DEF Actions
  <2>3. DOMAIN acts = DOMAIN s.actions  OBVIOUS
  <2> HIDE DEF acts
  <2>4. LET t == [s EXCEPT !.actions = acts]
        IN  ResetsRegisters(t) /\ (Populated(s) => Populated(t))
    BY <1>4, <2>2, <2>3, RewrittenSpares
  <2> QED  BY <2>1, <2>4
<1>5. CASE p.rule = "Iteration"  BY <1>5, IterationSpares DEF Apply
<1>6. CASE p.rule = "Initialization"
  <2>1. Apply(p, s) = Initialization(s, p)  BY <1>6 DEF Apply
  <2>2. ResetsRegisters(Apply(p, s))  BY <1>6, <2>1, InitializationSpares
  <2>3. ASSUME ResetsOnce(p, s), Populated(s)  PROVE Populated(Apply(p, s))
    <3>1. p.name \in STRING /\ s.reset = None  BY <1>6, <2>3 DEF IsChoice, ResetsOnce
    <3>2. ~Named(s, p.name) /\ Valueless(s)
      BY <1>6, <2>3, <3>1, NoneAssumption DEF Populated
    <3> QED  BY <1>6, <2>1, <2>3, <3>2, InitializationPopulates DEF ResetsOnce
  <2> QED  BY <2>2, <2>3
<1> QED  BY <1>1, <1>2, <1>3, <1>4, <1>5, <1>6 DEF IsChoice, RuleNames

LEMMA ResettingIs ==
  ASSUME NEW s, IsSpec(s), s.reset # None, ResetsRegisters(s)
  PROVE  Bases(Resetting(s)) \cap Unresettable(s) = {}
<1> SUFFICES ASSUME NEW t \in Range(TargetsOf(Resetting(s)))
             PROVE  t.var \notin Unresettable(s)
  BY DEF Bases
<1> DEFINE as == Resetting(s)
<1>1. /\ as \in Seq(Actions)
      /\ \A a : a \in Range(as) <=> \E i \in DOMAIN s.actions :
                                      s.actions[i].name = s.reset /\ a = s.actions[i]
  BY PartsAre
<1> HIDE DEF as
<1>2. PICK i \in DOMAIN as : Writes(as[i], t)  BY <1>1, TargetsAre DEF as
<1>3. as[i] \in Range(as)  BY <1>2 DEF Range
<1>4. PICK j \in DOMAIN s.actions : s.actions[j].name = s.reset /\ as[i] = s.actions[j]
  BY <1>1, <1>3
<1> DEFINE a == s.actions[j]
<1>5. a \in Actions /\ Resets(s, a)  BY <1>4, ActionOf DEF ResetsRegisters
<1>6. Writes(a, t)  BY <1>2, <1>4
<1> HIDE DEF a
<1>7. PICK k \in DOMAIN a.updates : Target(a.updates[k]) = t
  BY <1>5, <1>6, PlainWrites DEF Resets
<1> QED  BY <1>5, <1>7 DEF Resets, Target

LEMMA ResetsStay ==
  ASSUME PickerDocuments, Spares, SInv, ResetsRegisters(spec), [Next]_vars
  PROVE  /\ ResetsRegisters(spec')
         /\ OneReset /\ Populated(spec) => Populated(spec')
<1>1. CASE \E p \in Offers(d, spec) : Refine(p)
  <2>1. PICK p \in Offers(d, spec) : Refine(p)  BY <1>1
  <2>2. IsChoice(p) /\ IsSpec(spec)  BY DEF PickerDocuments, SInv
  <2>3. spec' = Apply(p, spec) /\ IsApplicable(p.rule, spec)
    BY <2>1 DEF Refine, Refines
  <2> QED  BY <2>2, <2>3, ApplySpares DEF Spares, OneReset
<1>2. CASE spec' = spec  BY <1>2
<1> QED
  BY <1>1, <1>2
  DEF Next, Compile, AssertReset, DeassertReset, Vector, ResetVector, vars

\* Continuous logic is never clocked or split, memories and wires get no reset
\* value, and the reset branch drives neither (alternation.py,
\* sequential_composition.py, initialization.py), however long the refinement:
\* as long as the picker leaves the reset action alone.
THEOREM SpecStaysOut ==
  PickerDocuments => (Spec /\ []Spares => []WiresAndMemoriesStayOut)
<1> SUFFICES ASSUME PickerDocuments  PROVE Spec /\ []Spares => []WiresAndMemoriesStayOut
  OBVIOUS
<1> DEFINE RInv == SInv /\ ResetsRegisters(spec)
<1>1. Init => RInv
  BY SInvInit, DesignAssumption DEF Init, IsFresh, ResetsRegisters
<1>2. RInv /\ Spares /\ [Next]_vars => RInv'
  <2> SUFFICES ASSUME RInv, Spares, [Next]_vars  PROVE RInv'  OBVIOUS
  <2>1. SInv'  BY StepKeeps
  <2>2. ResetsRegisters(spec')  BY ResetsStay
  <2> QED  BY <2>1, <2>2
<1>3. RInv => WiresAndMemoriesStayOut
  BY ResettingIs DEF SInv, WiresAndMemoriesStayOut
<1> HIDE DEF RInv
<1> QED  BY <1>1, <1>2, <1>3, PTL DEF Spec

\* A compiled spec whose reset branch leaves no register out.
Compiled == phase # "refine" => Missed(spec) = {}

LEMMA HeadIs ==
  ASSUME NEW S, NEW s \in Seq(S), NEW x \in Range(s)
  PROVE  s # <<>> /\ s[1] \in Range(s)
<1>1. PICK n \in DOMAIN s : x = s[n]  BY DEF Range
<1>2. 1 \in DOMAIN s /\ s # <<>>  BY <1>1
<1> QED  BY <1>2 DEF Range

LEMMA PopulatedMisses ==
  ASSUME IsSpec(spec), NeverReset(spec), ResetsRegisters(spec), Populated(spec),
         IsRtlStyle(spec)
  PROVE  Missed(spec) = {}
<1> SUFFICES ASSUME NEW v \in DOMAIN spec.vars, IsRegister(spec, v)
             PROVE  /\ Resetting(spec) # <<>>
                    /\ Writes(Resetting(spec)[1], Scalar(v))
  BY DEF Missed, Scalar
<1> DEFINE as == Resetting(spec)
<1>1. spec.reset # None /\ spec.vars[v].reset # None  BY DEF IsRtlStyle
<1>2. /\ as \in Seq(Actions)
      /\ \A a : a \in Range(as) <=> \E i \in DOMAIN spec.actions :
                                      spec.actions[i].name = spec.reset /\ a = spec.actions[i]
  BY PartsAre
<1> HIDE DEF as
<1>3. PICK i \in DOMAIN spec.actions : spec.actions[i].name = spec.reset
  BY <1>1 DEF Populated, Named
<1>4. spec.actions[i] \in Range(as)  BY <1>2, <1>3
<1>5. as # <<>> /\ as[1] \in Range(as)  BY <1>2, <1>4, HeadIs
<1>6. PICK j \in DOMAIN spec.actions :
        spec.actions[j].name = spec.reset /\ as[1] = spec.actions[j]
  BY <1>2, <1>5
<1>7. /\ spec.actions[j] \in Actions /\ Resets(spec, spec.actions[j])
      /\ Names(spec.actions[j], v)
  BY <1>1, <1>6, ActionOf DEF ResetsRegisters, Populated
<1>8. Writes(spec.actions[j], Scalar(v))  BY <1>7, PlainWrites DEF Resets, Names
<1> QED  BY <1>5, <1>6, <1>8 DEF as

\* A register that stays out of the reset branch takes a second Initialization
\* (initialization.py adds the reset action once and then sets reset values only)
\* or a variable introduced with a reset value: where the picker does neither,
\* the reset branch of every compiled design names every register, for any
\* number of rules in any other order (engine.py: reset branch).
THEOREM SpecPopulated ==
  PickerDocuments => (Spec /\ []Spares /\ []OneReset => []Compiled)
<1> SUFFICES ASSUME PickerDocuments
             PROVE  Spec /\ []Spares /\ []OneReset => []Compiled
  OBVIOUS
<1> DEFINE PInv == /\ SInv /\ ResetsRegisters(spec) /\ Populated(spec)
                   /\ phase # "refine" => IsRtlStyle(spec)
<1>1. Init => PInv
  BY SInvInit, DesignAssumption
  DEF Init, IsFresh, ResetsRegisters, Populated, Valueless
<1>2. PInv /\ Spares /\ OneReset /\ [Next]_vars => PInv'
  <2> SUFFICES ASSUME PInv, Spares, OneReset, [Next]_vars  PROVE PInv'
    OBVIOUS
  <2>1. SInv' /\ ResetsRegisters(spec)' /\ Populated(spec)'
    BY StepKeeps, ResetsStay
  <2>2. phase' # "refine" => IsRtlStyle(spec)'
    BY DEF Next, Refine, Compile, AssertReset, DeassertReset, Vector, ResetVector, vars
  <2> QED  BY <2>1, <2>2
<1>3. PInv => Compiled  BY PopulatedMisses DEF Compiled, SInv
<1> HIDE DEF PInv
<1> QED  BY <1>1, <1>2, <1>3, PTL DEF Spec
-----------------------------------------------------------------------------
(* The signals *)

EInv == Built => env \in Envs(spec, Inputs)

LEMMA InputsAre ==
  ASSUME d \in Designs
  PROVE  \A in \in Stimuli[d] : in \in [Inputs -> Cells]
<1> DEFINE one == CHOOSE in \in Stimuli[d] : TRUE
<1>1. one \in Stimuli[d]  BY StimulusAssumption
<1>2. Inputs = DOMAIN one  BY DEF Inputs
<1> HIDE DEF one
<1> QED  BY <1>1, <1>2, StimulusAssumption DEF Cells

LEMMA IdleIs == Idle \in [Inputs -> Cells]
BY DEF Idle, Cells

LEMMA PowerOnIs ==
  ASSUME NEW s, IsSpec(s)
  PROVE  PowerOn(s) \in Envs(s, Inputs)
<1>1. PowerOn(s) = Blank(s, Inputs)  BY DEF PowerOn, Blank, Scalars, Memories
<1> QED  BY <1>1, BlankIs

\* Every edge, and power-on, leaves the signals of the spec within their
\* widths; no step changes both the spec and the signals.
LEMMA EnvStays ==
  ASSUME Evaluates, PickerDocuments, SInv, EInv, [Next]_vars
  PROVE  EInv'
<1>1. d \in Designs /\ IsSpec(spec)  BY DEF SInv
<1>2. CASE \E p \in Offers(d, spec) : Refine(p)
  BY <1>2 DEF Refine, EInv, Built
<1>3. CASE Compile
  <2>1. CASE MultiDriver(spec)  BY <1>3, <2>1 DEF Compile, EInv, Built
  <2>2. CASE ~MultiDriver(spec)
    <3>1. PowerOn(spec) \in Envs(spec, Inputs)  BY <1>1, PowerOnIs
    <3> QED  BY <1>3, <2>2, <3>1 DEF Compile, EInv, Inputs
  <2> QED  BY <2>1, <2>2
<1>4. ASSUME Built, spec' = spec, d' = d,
             NEW in \in [Inputs -> Cells],
             env' = ClockEdge(spec, env, in) \/ env' = ResetEdge(spec, env, in)
      PROVE  EInv'
  <2> DEFINE I == Inputs
  <2>1. I' = I  BY <1>4 DEF Inputs
  <2>2. env \in Envs(spec, I) /\ I \subseteq I /\ in \in [I -> Cells]  BY <1>4 DEF EInv
  <2> HIDE DEF I
  <2>3. env' \in Envs(spec, I)
    BY <1>1, <1>4, <2>2, ClockEdgeKeeps, ResetEdgeKeeps
  <2> QED  BY <1>4, <2>1, <2>3 DEF EInv, I
<1>5. CASE AssertReset
  BY <1>4, <1>5, IdleIs DEF AssertReset, Built
<1>6. CASE DeassertReset
  BY <1>4, <1>6, IdleIs DEF DeassertReset, Built
<1>7. CASE \E in \in Stimuli[d] : Vector(in) \/ ResetVector(in)
  <2>1. PICK in \in Stimuli[d] : Vector(in) \/ ResetVector(in)  BY <1>7
  <2>2. in \in [Inputs -> Cells]  BY <1>1, InputsAre
  <2> QED  BY <1>4, <2>1, <2>2 DEF Vector, ResetVector, Built
<1>8. CASE UNCHANGED vars  BY <1>8 DEF vars, EInv, Built, Inputs
<1> QED  BY <1>2, <1>3, <1>5, <1>6, <1>7, <1>8 DEF Next

Phases == {"refine", "refused", "power", "pulse", "run", "reset"}

LEMMA FitsIs ==
  ASSUME SInv, EInv, PickerDocuments, phase \in Phases  PROVE TypeOK
<1>1. /\ d \in Designs /\ IsSpec(spec)
      /\ \A p \in Offers(d, spec) : IsChoice(p)
  BY DEF SInv, PickerDocuments
<1>2. ASSUME Built, NEW v \in DOMAIN spec.vars \ Inputs
      PROVE  IF IsMemory(spec, v)
             THEN \A k \in 0..spec.vars[v].depth - 1 : Fits(v, env.mem[v][k])
             ELSE Fits(v, env.sig[v])
  <2> DEFINE I == Inputs
  <2>1. env \in Envs(spec, I)  BY <1>2 DEF EInv
  <2> HIDE DEF I
  <2>2. env.sig \in Sigs(spec, I) /\ env.mem \in Mems(spec)  BY <2>1, EnvIs
  <2>3. CASE IsMemory(spec, v)
    <3>1. env.mem[v] \in Array(spec, v)  BY <2>2, <2>3 DEF Mems, Memories
    <3> QED  BY <2>3, <3>1 DEF Array, Fitting, Holds, Fits
  <2>4. CASE ~IsMemory(spec, v)
    <3>1. v \in Scalars(spec) \ I  BY <2>4 DEF Scalars, I
    <3>2. env.sig[v] \in Fitting(spec, v)  BY <2>2, <3>1 DEF Sigs
    <3> QED  BY <2>4, <3>2 DEF Fitting, Holds, Fits
  <2> QED  BY <2>3, <2>4
<1> QED  BY <1>1, <1>2 DEF TypeOK, Phases

\* The spec keeps its shape through every rule, and each register, wire and
\* memory element holds what its width can hold after every edge
\* (spec_sim.py _mask), for every meaning of the expressions.
THEOREM SpecTyped == Evaluates /\ PickerDocuments => (Spec => []TypeOK)
<1> SUFFICES ASSUME Evaluates, PickerDocuments  PROVE Spec => []TypeOK  OBVIOUS
<1> DEFINE TInv == SInv /\ EInv /\ phase \in Phases
<1>1. Init => TInv
  BY SInvInit DEF Init, EInv, Built, Phases
<1>2. TInv /\ [Next]_vars => TInv'
  <2> SUFFICES ASSUME TInv, [Next]_vars  PROVE TInv'  OBVIOUS
  <2>1. SInv' /\ EInv'  BY StepKeeps, EnvStays
  <2>2. phase' \in Phases
    BY DEF Next, Refine, Compile, AssertReset, DeassertReset, Vector, ResetVector, vars, Phases
  <2> QED  BY <2>1, <2>2
<1>3. TInv => TypeOK  BY FitsIs
<1> HIDE DEF TInv
<1> QED  BY <1>1, <1>2, <1>3, PTL DEF Spec

-----------------------------------------------------------------------------
(* Composition *)

LEMMA MinOfOne == ASSUME NEW i \in Int  PROVE Min({i}) = i
BY DEF Min

On(g, e) == Eval(g, e) # 0
Off(g, e) == Eval(g, e) = 0

\* The guard TRUE holds, and undefined is no number.
Sane(e) == On(True, e) /\ X # 0

\* One driver per target (bridge.py, FIX 2): when one writer's guard holds and
\* the other writers' do not, the target gets that writer's value, wherever
\* the writer stands and whether or not it is guarded.
THEOREM OneFires ==
  ASSUME NEW as, NEW t, NEW e, Sane(e), Len(as) \in Nat, DOMAIN as = 1..Len(as),
         NEW i \in DOMAIN as, Writes(as[i], t),
         On(as[i].guard, e), Known(Eval(as[i].guard, e)),
         \A j \in DOMAIN as : Writes(as[j], t) /\ j # i => Off(as[j].guard, e)
  PROVE  NextValue(as, t, e) = ActionValue(as[i], t, e)
<1> DEFINE Value(k) == ActionValue(as[k], t, e)
           taken == {k \in 1..Len(as) : (Writes(as[k], t) /\ Guarded(as[k]))
                                        /\ Eval(as[k].guard, e) # 0}
           free == {k \in DOMAIN as : Writes(as[k], t) /\ ~Guarded(as[k])}
           default == IF free = {} THEN Read(t, e) ELSE Value(Min(free))
<1>1. NextValue(as, t, e) =
        IF taken = {} THEN default
        ELSE Cond(Eval(as[Min(taken)].guard, e), Value(Min(taken)), default)
  BY DEF NextValue, NestedIf
<1>2. taken \subseteq {i} /\ free \subseteq {i}  BY DEF On, Off, Sane, Guarded
<1>3. Min({i}) = i  BY MinOfOne
<1>4. CASE Guarded(as[i])
  <2>1. taken = {i}  BY <1>2, <1>4 DEF On
  <2> HIDE DEF taken, default, Value
  <2>2. NextValue(as, t, e) = Cond(Eval(as[i].guard, e), Value(i), default)
    BY <1>1, <1>3, <2>1
  <2>3. NextValue(as, t, e) = Value(i)  BY <2>2 DEF Cond, On, Known
  <2> QED  BY <2>3 DEF Value
<1>5. CASE ~Guarded(as[i])
  <2>1. taken = {} /\ free = {i}  BY <1>2, <1>5
  <2> HIDE DEF taken, free, Value
  <2>2. NextValue(as, t, e) = Value(i)  BY <1>1, <1>3, <2>1
  <2> QED  BY <2>2 DEF Value
<1> QED  BY <1>4, <1>5

\* A target none of whose writers fires holds.
THEOREM NoneFires ==
  ASSUME NEW as, NEW t, NEW e, Sane(e), DOMAIN as = 1..Len(as),
         \A j \in DOMAIN as : Writes(as[j], t) => Off(as[j].guard, e)
  PROVE  NextValue(as, t, e) = Read(t, e)
<1> DEFINE Value(k) == ActionValue(as[k], t, e)
           taken == {k \in 1..Len(as) : (Writes(as[k], t) /\ Guarded(as[k]))
                                        /\ Eval(as[k].guard, e) # 0}
           free == {k \in DOMAIN as : Writes(as[k], t) /\ ~Guarded(as[k])}
           default == IF free = {} THEN Read(t, e) ELSE Value(Min(free))
<1>1. NextValue(as, t, e) =
        IF taken = {} THEN default
        ELSE Cond(Eval(as[Min(taken)].guard, e), Value(Min(taken)), default)
  BY DEF NextValue, NestedIf
<1>2. taken = {} /\ free = {}  BY DEF On, Off, Sane, Guarded
<1> HIDE DEF taken, free, Value
<1> QED  BY <1>1, <1>2

\* A branch that is on, when no other that assigns the target is, decides the
\* target: with its own expression, whatever the branches before and after it.
THEOREM OneBranch ==
  ASSUME NEW a, NEW t, NEW e, Len(a.branches) \in Nat,
         NEW i \in 1..Len(a.branches), Assigns(a.branches[i], t),
         On(a.branches[i].guard, e), Known(Eval(a.branches[i].guard, e)),
         \A j \in 1..Len(a.branches) :
           Assigns(a.branches[j], t) /\ j # i => Off(a.branches[j].guard, e)
  PROVE  LET us == a.branches[i].updates
         IN  AlternationValue(a, t, e) = Eval(us[FirstAt(us, t)].expr, e)
<1> DEFINE b == a.branches
           Value(g) == Eval(b[g].updates[FirstAt(b[g].updates, t)].expr, e)
           taken == {k \in 1..Len(b) : Assigns(b[k], t) /\ Eval(b[k].guard, e) # 0}
<1>1. AlternationValue(a, t, e) =
        IF taken = {} THEN Read(t, e)
        ELSE Cond(Eval(b[Min(taken)].guard, e), Value(Min(taken)), Read(t, e))
  BY DEF AlternationValue, NestedIf, FirstAt
<1>2. taken = {i}  BY DEF On, Off
<1>3. Min({i}) = i  BY MinOfOne
<1>4. Known(Eval(b[i].guard, e)) /\ On(b[i].guard, e)  OBVIOUS
<1> HIDE DEF taken, Value
<1>5. AlternationValue(a, t, e) = Cond(Eval(b[i].guard, e), Value(i), Read(t, e))
  BY <1>1, <1>2, <1>3
<1>6. AlternationValue(a, t, e) = Value(i)  BY <1>4, <1>5 DEF Cond, On, Known
<1> QED  BY <1>6 DEF Value
-----------------------------------------------------------------------------
(* The edge performs the actions that fire *)

\* A guard that is no guard holds (spec_sim._eval of TRUE).
TrueHolds == \A e : IsEnv(e) => On(True, e)

\* Scalars are written without an address, memories at one.
Addressed ==
  \A t \in Range(TargetsOf(Clocked(spec))) :
    t.var \in DOMAIN spec.vars => (t.idx = None <=> ~IsMemory(spec, t.var))

\* And no action and no wire drives an input.
WellDriven ==
  /\ (Bases(Clocked(spec)) \cup Bases(Wiring(spec))) \cap Inputs = {}
  /\ Addressed

\* No two write ports of a memory meet at one address, whether or not they are
\* enabled: each writes, if only the old value.
Apart(pre) ==
  \A t, u \in Range(TargetsOf(Clocked(spec))) :
    t # u /\ t.var = u.var /\ t.var \in Memories(spec) =>
      Eval(t.idx, pre) = X \/ Eval(t.idx, pre) # Eval(u.idx, pre)

PortsApart == phase' = "run" => Apart(Seen(spec, env, Driven'))

\* The edges that EdgeFires speaks of.
Clear(pre) ==
  /\ \A i \in DOMAIN Clocked(spec) : Known(Eval(Clocked(spec)[i].guard, pre))
  /\ \A i, j \in Firing(pre) : i # j => WrittenBy(i) \cap WrittenBy(j) = {}

By(pre, v) == {i \in Firing(pre) : v \in WrittenBy(i)}

LEMMA ClockedIs ==
  ASSUME IsSpec(spec)
  PROVE  /\ Clocked(spec) \in Seq(Actions)
         /\ Len(Clocked(spec)) \in Nat /\ DOMAIN Clocked(spec) = 1..Len(Clocked(spec))
         /\ \A i \in DOMAIN Clocked(spec) : Clocked(spec)[i] \in Actions
         /\ TargetsOf(Clocked(spec)) \in Seq(Targets)
         /\ \A t : t \in Range(TargetsOf(Clocked(spec)))
                    <=> \E i \in DOMAIN Clocked(spec) : Writes(Clocked(spec)[i], t)
<1>1. Clocked(spec) \in Seq(Actions)  BY PartsAre
<1> QED  BY <1>1, SeqIs, TargetsAre

LEMMA OneTargets ==
  ASSUME NEW a \in Actions
  PROVE  \A t : t \in Range(TargetsOf(<<a>>)) <=> Writes(a, t)
<1> DEFINE as == <<a>>
<1>1. as \in Seq(Actions) /\ DOMAIN as = {1} /\ as[1] = a  OBVIOUS
<1> HIDE DEF as
<1>2. \A t : t \in Range(TargetsOf(as)) <=> \E i \in DOMAIN as : Writes(as[i], t)
  BY <1>1, TargetsAre
<1> QED  BY <1>1, <1>2 DEF as

LEMMA WrittenIs ==
  ASSUME IsSpec(spec), NEW i \in DOMAIN Clocked(spec)
  PROVE  \A v : v \in WrittenBy(i) <=> \E t : Writes(Clocked(spec)[i], t) /\ t.var = v
<1>1. Clocked(spec)[i] \in Actions  BY ClockedIs
<1> QED  BY <1>1, OneTargets DEF WrittenBy, Bases

\* A target that a firing action writes gets its value, another one holds.
LEMMA TargetFires ==
  ASSUME Evaluates, TrueHolds, IsSpec(spec), NEW pre, IsEnv(pre), Clear(pre), NEW t
  PROVE  LET as == Clocked(spec)
         IN  /\ (\A i \in Firing(pre) : ~Writes(as[i], t)) =>
                  NextValue(as, t, pre) = Read(t, pre)
             /\ \A i \in Firing(pre) : Writes(as[i], t) =>
                  NextValue(as, t, pre) = ActionValue(as[i], t, pre)
<1> DEFINE as == Clocked(spec)
<1>1. Len(as) \in Nat /\ DOMAIN as = 1..Len(as)  BY ClockedIs
<1>2. Sane(pre)  BY XAssumption DEF Sane, TrueHolds
<1>3. \A i \in DOMAIN as : /\ i \in Firing(pre) <=> On(as[i].guard, pre)
                           /\ i \in Firing(pre) \/ Off(as[i].guard, pre)
                           /\ Known(Eval(as[i].guard, pre))
  BY DEF Firing, On, Off, Clear
<1>4. Firing(pre) \subseteq DOMAIN as  BY DEF Firing
<1>5. \A i, j \in Firing(pre) : Writes(as[i], t) /\ Writes(as[j], t) => i = j
  <2> SUFFICES ASSUME NEW i \in Firing(pre), NEW j \in Firing(pre),
                      Writes(as[i], t), Writes(as[j], t), i # j
               PROVE  FALSE
    OBVIOUS
  <2>1. t.var \in WrittenBy(i) /\ t.var \in WrittenBy(j)  BY <1>4, WrittenIs
  <2> QED  BY <2>1 DEF Clear
<1> HIDE DEF as
<1>6. ASSUME \A i \in Firing(pre) : ~Writes(as[i], t)
      PROVE  NextValue(as, t, pre) = Read(t, pre)
  <2>1. \A j \in DOMAIN as : Writes(as[j], t) => Off(as[j].guard, pre)  BY <1>3, <1>6
  <2> QED  BY <1>1, <1>2, <2>1, NoneFires
<1>7. ASSUME NEW i \in Firing(pre), Writes(as[i], t)
      PROVE  NextValue(as, t, pre) = ActionValue(as[i], t, pre)
  <2>1. \A j \in DOMAIN as : Writes(as[j], t) /\ j # i => Off(as[j].guard, pre)
    BY <1>3, <1>5, <1>7
  <2>2. i \in DOMAIN as /\ On(as[i].guard, pre) /\ Known(Eval(as[i].guard, pre))
    BY <1>3, <1>4
  <2> QED  BY <1>1, <1>2, <1>7, <2>1, <2>2, OneFires
<1> QED  BY <1>6, <1>7 DEF as
LEMMA ByOne ==
  ASSUME NEW pre, Clear(pre), NEW v, NEW i \in By(pre, v)
  PROVE  By(pre, v) = {i}
BY DEF Clear, By

LEMMA TargetOf ==
  ASSUME IsSpec(spec), NEW i \in DOMAIN Clocked(spec), NEW t, Writes(Clocked(spec)[i], t)
  PROVE  t \in Range(TargetsOf(Clocked(spec))) /\ t \in Targets
<1>1. t \in Range(TargetsOf(Clocked(spec)))  BY ClockedIs
<1> DEFINE ts == TargetsOf(Clocked(spec))
<1>2. ts \in Seq(Targets)  BY ClockedIs
<1> HIDE DEF ts
<1>3. PICK n \in 1..Len(ts) : t = ts[n]  BY <1>1, <1>2, SeqIs DEF Range, ts
<1>4. t \in Targets  BY <1>2, <1>3, SeqIs
<1> QED  BY <1>1, <1>4

LEMMA ScalarFires ==
  ASSUME Evaluates, TrueHolds, IsSpec(spec), Addressed,
         NEW I, Bases(Clocked(spec)) \cap I = {}, NEW pre \in Envs(spec, I), Clear(pre),
         NEW v \in Scalars(spec)
  PROVE  EdgeSig(spec, pre)[v] =
           IF By(pre, v) = {} THEN pre.sig[v]
           ELSE Effect(CHOOSE i \in By(pre, v) : TRUE, pre, pre.sig[v], v)
<1> DEFINE as == Clocked(spec)
           ts == TargetsOf(as)
           w == spec.vars[v].width
<1>1. /\ IsEnv(pre) /\ pre.sig \in Sigs(spec, I) /\ v \in DOMAIN pre.sig
  BY EnvIs
<1>2. v \in DOMAIN spec.vars /\ ~IsMemory(spec, v)  BY DEF Scalars
<1>3. ASSUME NEW i \in DOMAIN as, NEW t, Writes(as[i], t), t.var = v
      PROVE  t = Scalar(v) /\ t \in Range(ts)
  <2>1. t \in Range(ts) /\ t \in Targets  BY <1>3, TargetOf
  <2>2. t.idx = None  BY <1>2, <1>3, <2>1 DEF Addressed
  <2> QED  BY <1>3, <2>1, <2>2 DEF Targets, Scalar
<1>4. Scalar(v).var = v /\ Scalar(v).idx = None  BY DEF Scalar
<1>5. \A i \in By(pre, v) : i \in DOMAIN as /\ i \in Firing(pre) /\ Writes(as[i], Scalar(v))
  <2> SUFFICES ASSUME NEW i \in By(pre, v)
               PROVE  i \in DOMAIN as /\ i \in Firing(pre) /\ Writes(as[i], Scalar(v))
    OBVIOUS
  <2>1. i \in DOMAIN as /\ i \in Firing(pre) /\ v \in WrittenBy(i)  BY DEF By, Firing
  <2>2. PICK t : Writes(as[i], t) /\ t.var = v  BY <2>1, WrittenIs
  <2> QED  BY <1>3, <2>1, <2>2
<1>6. CASE Scalar(v) \notin Range(ts)
  <2>1. By(pre, v) = {}
    <3> SUFFICES ASSUME NEW i \in By(pre, v)  PROVE FALSE  OBVIOUS
    <3>1. i \in DOMAIN as /\ Writes(as[i], Scalar(v))  BY <1>5
    <3> QED  BY <1>3, <1>4, <1>6, <3>1
  <2> QED  BY <1>1, <1>6, <2>1 DEF EdgeSig
<1>7. CASE Scalar(v) \in Range(ts)
  <2>1. v \notin I  BY <1>4, <1>7 DEF Bases
  <2>2. EdgeSig(spec, pre)[v] = Mask(NextValue(as, Scalar(v), pre), w)
    BY <1>1, <1>2, <1>4, <1>7 DEF EdgeSig, Landing, Commit
  <2>3. CASE By(pre, v) = {}
    <3>1. \A i \in Firing(pre) : ~Writes(as[i], Scalar(v))
      <4> SUFFICES ASSUME NEW i \in Firing(pre), Writes(as[i], Scalar(v))  PROVE FALSE
        OBVIOUS
      <4>1. i \in DOMAIN as  BY DEF Firing
      <4>2. v \in WrittenBy(i)  BY <1>4, <4>1, WrittenIs
      <4> QED  BY <2>3, <4>2 DEF By
    <3>2. NextValue(as, Scalar(v), pre) = pre.sig[v]
      <4>1. Read(Scalar(v), pre) = pre.sig[v]  BY <1>4 DEF Read
      <4> QED  BY <1>1, <3>1, <4>1, TargetFires
    <3>3. Holds(w, pre.sig[v]) /\ w \in Nat
      <4>1. v \in Scalars(spec) \ I  BY <2>1
      <4>2. pre.sig[v] \in Fitting(spec, v)  BY <1>1, <4>1 DEF Sigs
      <4> QED  BY <1>2, <4>2 DEF Fitting, IsSpec, IsVariable
    <3> HIDE DEF as, w
    <3>4. Mask(pre.sig[v], w) = pre.sig[v]  BY <3>3, MaskAgain
    <3> QED  BY <2>2, <2>3, <3>2, <3>4
  <2>4. CASE By(pre, v) # {}
    <3> DEFINE i == CHOOSE i \in By(pre, v) : TRUE
               a == as[i]
               mine == {t \in Range(TargetsOf(<<a>>)) : t.var = v}
    <3>1. i \in By(pre, v)  BY <2>4
    <3> HIDE DEF i
    <3>2. i \in DOMAIN as /\ i \in Firing(pre) /\ Writes(a, Scalar(v))  BY <1>5, <3>1
    <3>3. NextValue(as, Scalar(v), pre) = ActionValue(a, Scalar(v), pre)
      BY <1>1, <3>2, TargetFires
    <3>4. mine = {Scalar(v)}
      <4>1. \A t : t \in Range(TargetsOf(<<a>>)) <=> Writes(a, t)
        BY <3>2, ClockedIs, OneTargets
      <4> QED  BY <1>3, <1>4, <3>2, <4>1
    <3>5. (CHOOSE t \in mine : TRUE) = Scalar(v)  BY <3>4
    <3>6. Effect(i, pre, pre.sig[v], v) = Mask(ActionValue(a, CHOOSE t \in mine : TRUE, pre), w)
      BY <1>2 DEF Effect
    <3> HIDE DEF a, mine, as, w
    <3>7. Effect(i, pre, pre.sig[v], v) = EdgeSig(spec, pre)[v]
      BY <2>2, <3>3, <3>5, <3>6
    <3> QED  BY <2>4, <3>7 DEF i
  <2> QED  BY <2>3, <2>4
<1> QED  BY <1>6, <1>7
\* A write port whose action does not fire writes back what it finds.
LEMMA PortFires ==
  ASSUME Evaluates, TrueHolds, IsSpec(spec), NEW I, NEW pre \in Envs(spec, I), Clear(pre),
         NEW t, t.var \in Memories(spec), t.idx # None,
         NEW k \in DOMAIN pre.mem[t.var], Eval(t.idx, pre) = k
  PROVE  LET as == Clocked(spec)
         IN  /\ (\A i \in Firing(pre) : ~Writes(as[i], t)) =>
                  Landing(spec, pre, t) = pre.mem[t.var][k]
             /\ \A i \in Firing(pre) : Writes(as[i], t) =>
                  Landing(spec, pre, t) =
                    Mask(ActionValue(as[i], t, pre), spec.vars[t.var].width)
<1> DEFINE as == Clocked(spec)
           w == spec.vars[t.var].width
<1>1. IsEnv(pre) /\ pre.mem \in Mems(spec)  BY EnvIs
<1>2. t.var \in DOMAIN spec.vars  BY DEF Memories
<1>3. Landing(spec, pre, t) = Mask(NextValue(as, t, pre), w)
  BY <1>2 DEF Landing, Commit
<1>4. ASSUME \A i \in Firing(pre) : ~Writes(as[i], t)
      PROVE  Landing(spec, pre, t) = pre.mem[t.var][k]
  <2>1. NextValue(as, t, pre) = Read(t, pre)  BY <1>1, <1>4, TargetFires
  <2>2. Read(t, pre) = pre.mem[t.var][k]  BY DEF Read
  <2>3. Holds(w, pre.mem[t.var][k]) /\ w \in Nat
    <3>1. pre.mem[t.var] \in Array(spec, t.var)  BY <1>1 DEF Mems
    <3>2. pre.mem[t.var][k] \in Fitting(spec, t.var)  BY <3>1 DEF Array
    <3> QED  BY <1>2, <3>2 DEF Fitting, IsSpec, IsVariable
  <2> DEFINE x == pre.mem[t.var][k]
  <2> HIDE DEF as, w, x
  <2>4. Mask(x, w) = x  BY <2>3, MaskAgain DEF x
  <2> QED  BY <1>3, <2>1, <2>2, <2>4 DEF x
<1>5. ASSUME NEW i \in Firing(pre), Writes(as[i], t)
      PROVE  Landing(spec, pre, t) = Mask(ActionValue(as[i], t, pre), w)
  <2>1. NextValue(as, t, pre) = ActionValue(as[i], t, pre)  BY <1>1, <1>5, TargetFires
  <2> QED  BY <1>3, <2>1
<1> QED  BY <1>4, <1>5

LEMMA ElementFires ==
  ASSUME Evaluates, TrueHolds, IsSpec(spec), Addressed,
         NEW I, NEW pre \in Envs(spec, I), Clear(pre), Apart(pre),
         NEW v \in Memories(spec), NEW k \in DOMAIN pre.mem[v]
  PROVE  EdgeMem(spec, pre)[v][k] =
           IF By(pre, v) = {} THEN pre.mem[v][k]
           ELSE Effect(CHOOSE i \in By(pre, v) : TRUE, pre, pre.mem[v], v)[k]
<1> DEFINE as == Clocked(spec)
           ts == TargetsOf(as)
           ws == EdgeWrites(spec, pre)
           w == spec.vars[v].width
           Meets(t) == t.var = v /\ Eval(t.idx, pre) = k
<1>1. /\ v \in DOMAIN pre.mem /\ k # X
  <2>1. pre.mem \in Mems(spec) /\ DOMAIN pre.mem = Memories(spec)  BY EnvIs
  <2>2. pre.mem[v] \in Array(spec, v)  BY <2>1 DEF Mems
  <2>3. k \in 0..spec.vars[v].depth - 1  BY <2>2 DEF Array
  <2> QED  BY <2>1, <2>3, XAssumption
<1>2. v \in DOMAIN spec.vars /\ IsMemory(spec, v)  BY DEF Memories
<1>3. /\ Len(ws) \in Nat /\ DOMAIN ws = 1..Len(ws) /\ DOMAIN ts = 1..Len(ws)
      /\ \A n \in 1..Len(ws) : ws[n] = EdgeWrite(spec, pre, ts[n])
  BY WritesAre
<1>4. EdgeMem(spec, pre) = Writing!Folded(ws, pre.mem, ws)
  BY DEF EdgeMem, Writing!Folded, Put, FoldLeft, MapThenFoldSet, Max
<1>5. \A t \in Range(ts) : t.var = v => t.idx # None  BY <1>2 DEF Addressed
<1>6. \A t, u \in Range(ts) : Meets(t) /\ Meets(u) => t = u  BY <1>1 DEF Apart
<1>7. \A i \in By(pre, v) : i \in DOMAIN as /\ i \in Firing(pre)  BY DEF By, Firing
<1>8. \A i \in DOMAIN as : \A t : Writes(as[i], t) => t \in Range(ts)  BY TargetOf
<1>9. \A i \in Firing(pre) : \A t : Writes(as[i], t) /\ t.var = v => i \in By(pre, v)
  BY WrittenIs DEF Firing, By
<1> HIDE DEF ts, ws
<1>10. \A n \in 1..Len(ws) :
         /\ ts[n] \in Range(ts)
         /\ ws[n].var = v /\ ws[n].at = k <=> Meets(ts[n])
         /\ ws[n].value = Landing(spec, pre, ts[n])
  <2> SUFFICES ASSUME NEW n \in 1..Len(ws)
               PROVE  /\ ts[n] \in Range(ts)
                      /\ ws[n].var = v /\ ws[n].at = k <=> Meets(ts[n])
                      /\ ws[n].value = Landing(spec, pre, ts[n])
    OBVIOUS
  <2>1. ts[n] \in Range(ts)  BY <1>3 DEF Range
  <2>2. /\ ws[n].var = ts[n].var /\ ws[n].value = Landing(spec, pre, ts[n])
        /\ ws[n].at = IF ts[n].idx = None THEN X ELSE Eval(ts[n].idx, pre)
    BY <1>3 DEF EdgeWrite
  <2> QED  BY <1>5, <2>1, <2>2
<1> DEFINE old == pre.mem[v][k]
           new == EdgeMem(spec, pre)[v][k]
           Hit(i) == {t \in Range(TargetsOf(<<as[i]>>)) : t.var = v /\ Eval(t.idx, pre) = k}
<1>11. \A i \in By(pre, v) :
         /\ \A t : t \in Hit(i) <=> Writes(as[i], t) /\ Meets(t)
         /\ Effect(i, pre, pre.mem[v], v)[k] =
              IF Hit(i) = {} THEN old
              ELSE Mask(ActionValue(as[i], CHOOSE t \in Hit(i) : TRUE, pre), w)
  <2> SUFFICES ASSUME NEW i \in By(pre, v)
               PROVE  /\ \A t : t \in Hit(i) <=> Writes(as[i], t) /\ Meets(t)
                      /\ Effect(i, pre, pre.mem[v], v)[k] =
                           IF Hit(i) = {} THEN old
                           ELSE Mask(ActionValue(as[i], CHOOSE t \in Hit(i) : TRUE, pre), w)
    OBVIOUS
  <2>1. \A t : t \in Range(TargetsOf(<<as[i]>>)) <=> Writes(as[i], t)
    BY <1>7, ClockedIs, OneTargets
  <2> DEFINE mine == {t \in Range(TargetsOf(<<as[i]>>)) : t.var = v}
  <2>2. Effect(i, pre, pre.mem[v], v)[k] =
          LET hit == {t \in mine : Eval(t.idx, pre) = k}
          IN  IF hit = {} THEN old
              ELSE Mask(ActionValue(as[i], CHOOSE t \in hit : TRUE, pre), w)
    BY <1>2 DEF Effect
  <2>3. {t \in mine : Eval(t.idx, pre) = k} = Hit(i)  OBVIOUS
  <2> HIDE DEF mine
  <2> QED  BY <2>1, <2>2, <2>3
<1>14. ASSUME NEW value,
              \A n \in 1..Len(ws) : ws[n].var = v /\ ws[n].at = k => ws[n].value = value
       PROVE  new = IF \E n \in 1..Len(ws) : ws[n].var = v /\ ws[n].at = k
                    THEN value ELSE old
  <2> DEFINE mem == pre.mem
  <2>1. v \in DOMAIN mem /\ k \in DOMAIN mem[v]  BY <1>1
  <2>2. new = Writing!Folded(ws, mem, ws)[v][k] /\ old = mem[v][k]  BY <1>4
  <2>4. Agree(ws, v, k, value)  BY <1>14 DEF Agree
  <2> HIDE DEF mem, new, old
  <2>3. Writing!Folded(ws, mem, ws)[v][k] =
          IF \E n \in 1..Len(ws) : ws[n].var = v /\ ws[n].at = k THEN value ELSE mem[v][k]
    BY <1>3, <2>1, <2>4, WritesLand
  <2> QED  BY <2>2, <2>3
<1> HIDE DEF as, w, old
<1>12. CASE \A n \in 1..Len(ws) : ~Meets(ts[n])
  <2>1. new = old
    <3> HIDE DEF new
    <3>1. \A n \in 1..Len(ws) : ~(ws[n].var = v /\ ws[n].at = k)  BY <1>10, <1>12
    <3> QED  BY <1>14, <3>1
  <2>2. \A i \in By(pre, v) : Hit(i) = {}
    <3>1. \A t \in Range(ts) : ~Meets(t)  BY <1>3, <1>12 DEF Range
    <3> HIDE DEF Hit, Meets
    <3> QED  BY <1>7, <1>8, <1>11, <3>1
  <2> HIDE DEF Hit, new
  <2> QED  BY <1>11, <2>1, <2>2 DEF new, old
<1>13. CASE \E n \in 1..Len(ws) : Meets(ts[n])
  <2>1. PICK n \in 1..Len(ws) : Meets(ts[n])  BY <1>13
  <2> DEFINE t0 == ts[n]
             value == Landing(spec, pre, t0)
  <2>2. t0 \in Range(ts) /\ Meets(t0) /\ t0.idx # None  BY <1>5, <1>10, <2>1
  <2>3. \A j \in 1..Len(ws) : ws[j].var = v /\ ws[j].at = k => ws[j].value = value
    BY <1>6, <1>10, <2>2
  <2>4. new = value
    <3> HIDE DEF value, new
    <3>1. ws[n].var = v /\ ws[n].at = k  BY <1>10, <2>1
    <3> QED  BY <1>14, <2>3, <3>1
  <2> HIDE DEF t0
  <2>5. /\ (\A i \in Firing(pre) : ~Writes(as[i], t0)) => value = old
        /\ \A i \in Firing(pre) : Writes(as[i], t0) =>
             value = Mask(ActionValue(as[i], t0, pre), w)
    BY <2>2, PortFires DEF as, w, old
  <2> HIDE DEF value, new
  <2>6. CASE By(pre, v) = {}
    <3>1. \A i \in Firing(pre) : ~Writes(as[i], t0)  BY <1>9, <2>2, <2>6
    <3> QED  BY <2>4, <2>5, <2>6, <3>1 DEF new, old
  <2>7. CASE By(pre, v) # {}
    <3> DEFINE i == CHOOSE i \in By(pre, v) : TRUE
    <3>1. i \in By(pre, v)  BY <2>7
    <3> HIDE DEF i
    <3>2. By(pre, v) = {i}  BY <3>1, ByOne
    <3>3. CASE Writes(as[i], t0)
      <4>1. Hit(i) = {t0}
        <5>1. \A t : t \in Hit(i) => t = t0  BY <1>6, <1>7, <1>8, <1>11, <2>2, <3>1
        <5>2. t0 \in Hit(i)  BY <1>11, <2>2, <3>1, <3>3
        <5> HIDE DEF Hit
        <5> QED  BY <5>1, <5>2
      <4> HIDE DEF Hit
      <4>2. (CHOOSE t \in Hit(i) : TRUE) = t0  BY <4>1
      <4>3. Effect(i, pre, pre.mem[v], v)[k] = Mask(ActionValue(as[i], t0, pre), w)
        BY <1>11, <3>1, <4>1, <4>2
      <4>4. value = Mask(ActionValue(as[i], t0, pre), w)  BY <1>7, <2>5, <3>1, <3>3
      <4> QED  BY <2>4, <2>7, <4>3, <4>4 DEF new, i
    <3>4. CASE ~Writes(as[i], t0)
      <4>1. Hit(i) = {}
        <5>1. \A t : t \in Hit(i) => t = t0  BY <1>6, <1>7, <1>8, <1>11, <2>2, <3>1
        <5>2. t0 \notin Hit(i)  BY <1>11, <3>1, <3>4
        <5> HIDE DEF Hit
        <5> QED  BY <5>1, <5>2
      <4> HIDE DEF Hit
      <4>2. Effect(i, pre, pre.mem[v], v)[k] = old  BY <1>11, <3>1, <4>1
      <4>3. \A j \in Firing(pre) : ~Writes(as[j], t0)  BY <1>9, <2>2, <3>2, <3>4
      <4> QED  BY <2>4, <2>5, <2>7, <4>2, <4>3 DEF new, i
    <3> QED  BY <3>3, <3>4
  <2> QED  BY <2>6, <2>7
<1> QED  BY <1>12, <1>13
LEMMA WiresAre ==
  ASSUME NEW s, IsSpec(s), ContinuousStays(s), NEW u \in Range(Nets(s))
  PROVE  u.var \in Bases(Wiring(s))
<1> DEFINE w == Wiring(s)
<1>1. /\ w \in Seq(Actions)
      /\ \A a : a \in Range(w) <=> \E i \in Others(s) : s.actions[i].comb /\ a = s.actions[i]
  BY PartsAre
<1>2. PICK i \in DOMAIN w : u \in Range(w[i].updates)  BY NetsAre
<1> HIDE DEF w
<1> DEFINE a == w[i]
<1>3. a \in Range(w)  BY <1>2 DEF Range
<1>4. PICK j \in Others(s) : s.actions[j].comb /\ a = s.actions[j]  BY <1>1, <1>3
<1>5. j \in DOMAIN s.actions  BY DEF Others
<1>6. a \in Actions /\ a.branches = <<>> /\ a.steps = <<>>
  BY <1>4, <1>5, ActionOf DEF ContinuousStays
<1>7. u \in Range(a.updates)  BY <1>2
<1> HIDE DEF a
<1>8. PICK k \in DOMAIN a.updates : u = a.updates[k]  BY <1>7 DEF Range
<1>9. Writes(a, Target(u))  BY <1>6, <1>8, PlainWrites
<1>10. Target(u) \in Range(TargetsOf(w))  BY <1>1, <1>2, <1>9, TargetsAre DEF a
<1>11. Target(u).var = u.var  BY DEF Target
<1> QED  BY <1>10, <1>11 DEF Bases, w

\* An input that nothing drives shows what the edge was driven with.
LEMMA DrivenBack ==
  ASSUME Evaluates, IsSpec(spec), ContinuousStays(spec), NEW I, NEW e \in Envs(spec, I),
         NEW in \in [I -> Cells], (Bases(Clocked(spec)) \cup Bases(Wiring(spec))) \cap I = {}
  PROVE  \A i \in I : ClockEdge(spec, e, in).sig[i] = in[i]
<1> DEFINE start == WithInputs(e, in)
           pre == Seen(spec, e, in)
           post == [sig |-> EdgeSig(spec, pre), mem |-> EdgeMem(spec, pre)]
           f == [v \in DOMAIN e.sig |-> IF v \in DOMAIN in THEN in[v] ELSE e.sig[v]]
<1>1. /\ e = [sig |-> e.sig, mem |-> e.mem] /\ DOMAIN e.sig = Scalars(spec) \cup I
      /\ e.sig \in Sigs(spec, I) /\ e.mem \in Mems(spec)
  BY EnvIs
<1>2. start = [sig |-> f, mem |-> e.mem]  BY <1>1 DEF WithInputs
<1>3. f \in Sigs(spec, I) /\ \A i \in I : f[i] = in[i]  BY <1>1 DEF Sigs
<1> HIDE DEF f
<1>4. start \in Envs(spec, I) /\ start.sig = f  BY <1>1, <1>2, <1>3 DEF Envs
<1>5. pre = Settle(spec, start)  BY DEF Seen
<1>6. pre \in Envs(spec, I)  BY SeenIs
<1> HIDE DEF start, pre
<1>7. ClockEdge(spec, e, in) = Settle(spec, post)  BY ClockEdgeIs DEF pre
<1>8. post \in Envs(spec, I)  BY <1>6, EdgeSigIs, EdgeMemIs DEF Envs
<1>9. \A i \in I : \A u \in Range(Nets(spec)) : u.var # i  BY WiresAre
<1>10. \A i \in I : pre.sig[i] = in[i]  BY <1>3, <1>4, <1>5, <1>9, SettleFrame
<1>11. \A i \in I : post.sig[i] = pre.sig[i]
  <2> SUFFICES ASSUME NEW i \in I  PROVE EdgeSig(spec, pre)[i] = pre.sig[i]  OBVIOUS
  <2>1. Scalar(i) \notin Range(TargetsOf(Clocked(spec)))
    BY DEF Bases, Scalar
  <2>2. i \in DOMAIN pre.sig  BY <1>6, EnvIs
  <2> QED  BY <2>1, <2>2 DEF EdgeSig
<1> HIDE DEF post
<1> QED  BY <1>7, <1>8, <1>9, <1>10, <1>11, SettleFrame

LEMMA DrivenIs ==
  ASSUME Evaluates, SInv, EInv, Built, WellDriven, d' = d,
         NEW in \in [Inputs -> Cells], env' = ClockEdge(spec, env, in)
  PROVE  Driven' = in
<1> DEFINE I == Inputs
<1>1. /\ IsSpec(spec) /\ ContinuousStays(spec) /\ env \in Envs(spec, I)
      /\ (Bases(Clocked(spec)) \cup Bases(Wiring(spec))) \cap I = {}
      /\ in \in [I -> Cells]
  BY DEF SInv, EInv, WellDriven
<1>2. Inputs' = I  BY DEF Inputs
<1>3. Driven' = [i \in I |-> env'.sig[i]]  BY <1>2 DEF Driven
<1> HIDE DEF I
<1>4. \A i \in I : env'.sig[i] = in[i]  BY <1>1, DrivenBack
<1> QED  BY <1>1, <1>3, <1>4

\* What the actions that fire write, and nothing else, changes.
LEMMA EdgeDoes ==
  ASSUME Evaluates, TrueHolds, SInv, EInv, Built, WellDriven, d' = d,
         NEW in \in [Inputs -> Cells], env' = ClockEdge(spec, env, in),
         Apart(Seen(spec, env, Driven'))
  PROVE  EdgeFires
<1> DEFINE I == Inputs
           pre == Seen(spec, env, in)
           post == [sig |-> EdgeSig(spec, pre), mem |-> EdgeMem(spec, pre)]
<1>1. /\ IsSpec(spec) /\ ContinuousStays(spec) /\ env \in Envs(spec, I)
      /\ (Bases(Clocked(spec)) \cup Bases(Wiring(spec))) \cap I = {}
      /\ Addressed /\ in \in [I -> Cells]
  BY DEF SInv, EInv, WellDriven
<1>2. Driven' = in  BY DrivenIs
<1> HIDE DEF I
<1>3. pre \in Envs(spec, I)  BY <1>1, SeenIs
<1>4. env' = Settle(spec, post)  BY ClockEdgeIs
<1>5. Apart(pre)  BY <1>2
<1> SUFFICES ASSUME Clear(pre), NEW v \in DOMAIN spec.vars \ Bases(Wiring(spec))
             PROVE  Store(env', v) =
                      IF By(pre, v) = {} THEN Store(pre, v)
                      ELSE Effect(CHOOSE i \in By(pre, v) : TRUE, pre, Store(pre, v), v)
  BY <1>2 DEF EdgeFires, Clear, By
<1> HIDE DEF pre
<1>6. post \in Envs(spec, I)  BY <1>1, <1>3, EdgeSigIs, EdgeMemIs DEF Envs
<1>7. post.sig = EdgeSig(spec, pre) /\ post.mem = EdgeMem(spec, pre)  OBVIOUS
<1> HIDE DEF post
<1>8. \A u \in Range(Nets(spec)) : u.var # v  BY <1>1, WiresAre
<1>9. CASE ~IsMemory(spec, v)
  <2>1. v \in Scalars(spec)  BY <1>9 DEF Scalars
  <2>2. env'.sig[v] = EdgeSig(spec, pre)[v]
    BY <1>1, <1>4, <1>6, <1>7, <1>8, <2>1, SettleFrame
  <2>3. Store(env', v) = env'.sig[v] /\ Store(pre, v) = pre.sig[v]  BY <1>9 DEF Store
  <2>4. Bases(Clocked(spec)) \cap I = {}  BY <1>1
  <2> QED  BY <1>1, <1>3, <2>1, <2>2, <2>3, <2>4, ScalarFires
<1>10. CASE IsMemory(spec, v)
  <2>1. v \in Memories(spec)  BY <1>10 DEF Memories
  <2>2. env'.mem = EdgeMem(spec, pre)  BY <1>1, <1>4, <1>6, <1>7, SettleFrame
  <2>3. Store(env', v) = env'.mem[v] /\ Store(pre, v) = pre.mem[v]  BY <1>10 DEF Store
  <2>4. pre.mem[v] \in Array(spec, v) /\ EdgeMem(spec, pre)[v] \in Array(spec, v)
    <3>1. pre.mem \in Mems(spec)  BY <1>3, EnvIs
    <3>2. EdgeMem(spec, pre) \in Mems(spec)  BY <1>1, <1>3, EdgeMemIs
    <3> QED  BY <2>1, <3>1, <3>2 DEF Mems
  <2> DEFINE want == IF By(pre, v) = {} THEN pre.mem[v]
                     ELSE Effect(CHOOSE i \in By(pre, v) : TRUE, pre, pre.mem[v], v)
  <2>5. /\ DOMAIN want = DOMAIN pre.mem[v]
        /\ want = [k \in DOMAIN want |-> want[k]]
    <3>1. \A i : /\ DOMAIN Effect(i, pre, pre.mem[v], v) = DOMAIN pre.mem[v]
                 /\ Effect(i, pre, pre.mem[v], v)
                      = [k \in DOMAIN Effect(i, pre, pre.mem[v], v)
                           |-> Effect(i, pre, pre.mem[v], v)[k]]
      BY <1>10 DEF Effect
    <3>2. pre.mem[v] = [k \in DOMAIN pre.mem[v] |-> pre.mem[v][k]]  BY <2>4 DEF Array
    <3> QED  BY <3>1, <3>2
  <2>6. \A k \in DOMAIN pre.mem[v] : EdgeMem(spec, pre)[v][k] = want[k]
    BY <1>1, <1>3, <1>5, <2>1, ElementFires
  <2> HIDE DEF want
  <2>7. EdgeMem(spec, pre)[v] = want
    BY <2>4, <2>5, <2>6 DEF Array
  <2> QED  BY <2>2, <2>3, <2>7 DEF want
<1> QED  BY <1>9, <1>10

\* A normal edge performs the actions whose guards hold, and no other
\* (bridge.py composes one driver per variable), whatever the number of
\* actions and the depth of the memories: as long as nothing drives an input
\* and the write ports of one memory never meet.
THEOREM SpecFires ==
  Evaluates /\ TrueHolds /\ PickerDocuments =>
    (Spec /\ []WellDriven /\ [][PortsApart]_vars => EdgeFiresEnabled)
<1> SUFFICES ASSUME Evaluates, TrueHolds, PickerDocuments
             PROVE  Spec /\ []WellDriven /\ [][PortsApart]_vars => EdgeFiresEnabled
  OBVIOUS
<1> DEFINE FInv == SInv /\ EInv
<1>1. Init => FInv  BY SInvInit DEF Init, EInv, Built
<1>2. FInv /\ [Next]_vars => FInv'  BY StepKeeps, EnvStays
<1>3. FInv /\ WellDriven /\ [Next]_vars /\ [PortsApart]_vars => [EdgeFires]_vars
  <2> SUFFICES ASSUME FInv, WellDriven, Next, [PortsApart]_vars, phase' = "run",
                      vars' # vars
               PROVE  EdgeFires
    BY DEF EdgeFires
  <2>1. d \in Designs /\ Apart(Seen(spec, env, Driven'))  BY DEF PortsApart, SInv
  <2>2. CASE DeassertReset
    BY <2>1, <2>2, IdleIs, EdgeDoes DEF DeassertReset, Built
  <2>3. CASE \E in \in Stimuli[d] : Vector(in)
    <3>1. PICK in \in Stimuli[d] : Vector(in)  BY <2>3
    <3>2. in \in [Inputs -> Cells]  BY <2>1, InputsAre
    <3> QED  BY <2>1, <3>1, <3>2, EdgeDoes DEF Vector, Built
  <2> QED
    BY <2>2, <2>3 DEF Next, Refine, Compile, AssertReset, ResetVector
<1> HIDE DEF FInv
<1> QED  BY <1>1, <1>2, <1>3, PTL DEF Spec, EdgeFiresEnabled
-----------------------------------------------------------------------------
(* The wires settle *)

\* Each wire has one driver, and no wire is its own, through however many
\* others (what Compiler 2's continuous assignments ask for).
Acyclic ==
  /\ SingleDriver(spec)
  /\ \E r \in [DOMAIN Nets(spec) -> 1..Len(Nets(spec))] : Ranks(spec, Inputs, r)

LEMMA SettledIs ==
  ASSUME Evaluates, SInv, Acyclic, NEW post \in Envs(spec, Inputs),
         env' = Settle(spec, post), spec' = spec
  PROVE  WiresSettled'
<1> DEFINE I == Inputs
<1>1. IsSpec(spec) /\ SingleDriver(spec) /\ post \in Envs(spec, I)  BY DEF SInv, Acyclic
<1>2. PICK r \in [DOMAIN Nets(spec) -> 1..Len(Nets(spec))] : Ranks(spec, I, r)
  BY DEF Acyclic
<1> HIDE DEF I
<1>3. \A j \in DOMAIN Nets(spec) : env'.sig[Nets(spec)[j].var] = Equation(spec, j, env')
  BY <1>1, <1>2, SettleSettles
<1> SUFFICES ASSUME NEW i \in DOMAIN Wiring(spec), NEW k \in DOMAIN Wiring(spec)[i].updates
             PROVE  LET u == Wiring(spec)[i].updates[k]
                    IN  env'.sig[u.var] = Mask(Eval(u.expr, env'), spec.vars[u.var].width)
  BY DEF WiresSettled
<1> DEFINE u == Wiring(spec)[i].updates[k]
<1>4. u \in Range(Wiring(spec)[i].updates)  BY DEF Range
<1>5. u \in Range(Nets(spec))  BY <1>1, <1>4, NetsAre
<1> HIDE DEF u
<1>6. PICK j \in DOMAIN Nets(spec) : u = Nets(spec)[j]  BY <1>5 DEF Range
<1> QED  BY <1>3, <1>6 DEF Equation, u

LEMMA EdgesSettle ==
  ASSUME Evaluates, SInv, EInv, Acyclic, Built, spec' = spec,
         NEW in \in [Inputs -> Cells],
         env' = ClockEdge(spec, env, in) \/ env' = ResetEdge(spec, env, in)
  PROVE  WiresSettled'
<1> DEFINE I == Inputs
<1>1. env \in Envs(spec, I) /\ in \in [I -> Cells] /\ I \subseteq I /\ IsSpec(spec)
  BY DEF EInv, SInv
<1> HIDE DEF I
<1>2. \E post \in Envs(spec, I) : env' = Settle(spec, post)
  BY <1>1, ClockEdgeSettles, ResetEdgeSettles
<1>3. \E post \in Envs(spec, Inputs) : env' = Settle(spec, post)  BY <1>2 DEF I
<1> QED  BY <1>3, SettledIs

\* Every wire shows its equation after every edge (spec_sim.py _settle), through
\* chains of any length and in whatever order they are written: the passes are
\* enough.
THEOREM SpecSettles ==
  Evaluates /\ PickerDocuments => (Spec /\ []Acyclic => []WiresSettled)
<1> SUFFICES ASSUME Evaluates, PickerDocuments  PROVE Spec /\ []Acyclic => []WiresSettled
  OBVIOUS
<1> DEFINE WInv == SInv /\ EInv /\ WiresSettled
<1>1. Init => WInv  BY SInvInit DEF Init, EInv, Built, WiresSettled
<1>2. WInv /\ Acyclic /\ [Next]_vars => WInv'
  <2> SUFFICES ASSUME SInv, EInv, WiresSettled, Acyclic, [Next]_vars
               PROVE  WiresSettled'
    BY StepKeeps, EnvStays
  <2>1. d \in Designs  BY DEF SInv
  <2>2. CASE \E p \in Offers(d, spec) : Refine(p)  BY <2>2 DEF Refine, WiresSettled
  <2>3. CASE Compile  BY <2>3 DEF Compile, WiresSettled
  <2>4. CASE AssertReset  BY <2>1, <2>4, IdleIs, EdgesSettle DEF AssertReset, Built
  <2>5. CASE DeassertReset  BY <2>1, <2>5, IdleIs, EdgesSettle DEF DeassertReset, Built
  <2>6. CASE \E in \in Stimuli[d] : Vector(in) \/ ResetVector(in)
    <3>1. PICK in \in Stimuli[d] : Vector(in) \/ ResetVector(in)  BY <2>6
    <3>2. in \in [Inputs -> Cells]  BY <2>1, InputsAre
    <3> QED  BY <3>1, <3>2, EdgesSettle DEF Vector, ResetVector, Built
  <2>7. CASE UNCHANGED vars  BY <2>7 DEF vars, WiresSettled
  <2> QED  BY <2>2, <2>3, <2>4, <2>5, <2>6, <2>7 DEF Next
<1> HIDE DEF WInv
<1>3. WInv => WiresSettled  BY DEF WInv
<1> QED  BY <1>1, <1>2, <1>3, PTL DEF Spec
-----------------------------------------------------------------------------
(* Nothing is undefined behind the reset pulse *)

\* In a design without memory, texts of known signals are known, every wire has
\* an equation, what the reset branch assigns is known, and the vectors give every
\* input a value.  Which registers the reset branch names is left open.
Defined ==
  LET ra == Resetting(spec)
  IN  Built /\ Memories(spec) = {} =>
        /\ Definite(spec, Inputs)
        /\ \A v \in Scalars(spec) \ Inputs : IsWire(spec, v) => ~Undriven(spec, v)
        /\ ra # <<>> =>
             \A v : Writes(ra[1], Scalar(v)) =>
               \A e \in Envs(spec, Inputs) : ActionValue(ra[1], Scalar(v), e) \in Int
        /\ \A in \in Stimuli[d] : in \in [Inputs -> Int]

\* A design without memory whose reset branch leaves no register out.
Covered(s) == Memories(s) = {} /\ Missed(s) = {}

Knows ==
  phase \in {"pulse", "run", "reset"} /\ Covered(spec) => AllKnown(spec, Inputs, env)

LEMMA CoveredResets ==
  ASSUME Built, Defined, Covered(spec)
  PROVE  ResetsAll(spec, Inputs)
<1>1. ASSUME NEW v \in Scalars(spec) \ Inputs, Undriven(spec, v)
      PROVE  /\ IsRegister(spec, v)
             /\ Resetting(spec) # <<>> /\ Writes(Resetting(spec)[1], Scalar(v))
  <2>1. v \in DOMAIN spec.vars /\ IsRegister(spec, v)
    BY <1>1 DEF Defined, Covered, Scalars, IsRegister
  <2> QED  BY <2>1 DEF Covered, Missed, Scalar
<1> QED  BY <1>1 DEF ResetsAll, Defined, Covered

LEMMA EdgesKnow ==
  ASSUME Evaluates, SInv, EInv, Built, Definite(spec, Inputs), ResetsAll(spec, Inputs),
         UNCHANGED <<d, spec>>, NEW in \in [Inputs -> Int],
         \/ env' = ClockEdge(spec, env, in) /\ AllKnown(spec, Inputs, env)
         \/ env' = ResetEdge(spec, env, in)
  PROVE  Knows'
<1> DEFINE I == Inputs
<1>1. Inputs' = I  BY DEF Inputs
<1>2. /\ IsSpec(spec) /\ env \in Envs(spec, I) /\ in \in [I -> Int]
      /\ Definite(spec, I) /\ ResetsAll(spec, I)
      /\ \/ env' = ClockEdge(spec, env, in) /\ AllKnown(spec, I, env)
         \/ env' = ResetEdge(spec, env, in)
  BY DEF SInv, EInv
<1> HIDE DEF I
<1>3. AllKnown(spec, I, env')  BY <1>2, ClockEdgeKnows, ResetEdgeKnows
<1> QED  BY <1>1, <1>3 DEF Knows, AllKnown, Scalars, Mems, IsMemory

\* Once the harness has pulsed reset no signal is undefined (spec_sim.py None),
\* through every reset and every vector, when the reset branch names every
\* register: the pulse gives each its value, each wire in turn follows, and no
\* edge loses one.  A second Initialization (initialization.py) and a variable
\* introduced with a reset value both leave a register out; SpecPopulated says
\* when none is.
THEOREM SpecKnows ==
  Evaluates /\ PickerDocuments => (Spec /\ []Defined => []KnownAfterReset)
<1> SUFFICES ASSUME Evaluates, PickerDocuments
             PROVE  Spec /\ []Defined => []KnownAfterReset
  OBVIOUS
<1> DEFINE KInv == SInv /\ EInv /\ Knows
<1>1. Init => KInv  BY SInvInit DEF Init, EInv, Built, Knows
<1>2. KInv /\ Defined /\ [Next]_vars => KInv'
  <2> SUFFICES ASSUME SInv, EInv, Knows, Defined, [Next]_vars  PROVE Knows'
    BY StepKeeps, EnvStays
  <2>1. CASE \E p \in Offers(d, spec) : Refine(p)  BY <2>1 DEF Refine, Knows
  <2>2. CASE Compile  BY <2>2 DEF Compile, Knows
  <2>3. CASE UNCHANGED vars  BY <2>3 DEF vars, Knows, Inputs
  <2>4. ASSUME Built, UNCHANGED <<d, spec>>, ~Covered(spec)  PROVE Knows'
    BY <2>4 DEF Knows
  <2>5. ASSUME Built, Covered(spec)
        PROVE  /\ Definite(spec, Inputs) /\ ResetsAll(spec, Inputs)
               /\ \A in \in Stimuli[d] : in \in [Inputs -> Int]
               /\ Idle \in [Inputs -> Int]
    BY <2>5, CoveredResets DEF Defined, Covered, Idle
  <2>6. CASE AssertReset
    BY <2>4, <2>5, <2>6, EdgesKnow DEF AssertReset, Built
  <2>7. CASE DeassertReset
    BY <2>4, <2>5, <2>7, EdgesKnow DEF DeassertReset, Built, Knows
  <2>8. CASE \E in \in Stimuli[d] : Vector(in) \/ ResetVector(in)
    <3>1. PICK in \in Stimuli[d] : Vector(in) \/ ResetVector(in)  BY <2>8
    <3>2. Built /\ UNCHANGED <<d, spec>>  BY <3>1 DEF Vector, ResetVector, Built
    <3>3. CASE ~Covered(spec)  BY <2>4, <3>2, <3>3
    <3>4. CASE Covered(spec)
      <4>1. in \in [Inputs -> Int]  BY <2>5, <3>2, <3>4
      <4>2. AllKnown(spec, Inputs, env)  BY <3>1, <3>4 DEF Vector, ResetVector, Knows
      <4> QED  BY <2>5, <3>1, <3>2, <3>4, <4>1, <4>2, EdgesKnow DEF Vector, ResetVector
    <3> QED  BY <3>3, <3>4
  <2> QED  BY <2>1, <2>2, <2>3, <2>6, <2>7, <2>8 DEF Next
<1>3. KInv => KnownAfterReset
  <2> SUFFICES ASSUME Knows, phase \in {"run", "reset"},
                      \A v \in DOMAIN spec.vars : ~IsMemory(spec, v),
                      Missed(spec) = {}, NEW v \in DOMAIN env.sig
               PROVE  env.sig[v] # X
    BY DEF KnownAfterReset, Known
  <2>1. Covered(spec)  BY DEF Covered, Memories
  <2> QED  BY <2>1, XAssumption DEF Knows, AllKnown
<1> HIDE DEF KInv
<1> QED  BY <1>1, <1>2, <1>3, PTL DEF Spec

Determined ==
  phase \in {"run", "reset"} /\ Memories(spec) = {} =>
    \A v \in DOMAIN env.sig : Known(env.sig[v])

\* Then no premise is left: in a design without memory that was initialized once
\* nothing is undefined behind the reset pulse, in any order of the other rules.
THEOREM SpecDetermined ==
  Evaluates /\ PickerDocuments =>
    (Spec /\ []Spares /\ []OneReset /\ []Defined => []Determined)
<1> SUFFICES ASSUME Evaluates, PickerDocuments
             PROVE  Spec /\ []Spares /\ []OneReset /\ []Defined => []Determined
  OBVIOUS
<1>1. Spec /\ []Spares /\ []OneReset => []Compiled  BY SpecPopulated
<1>2. Spec /\ []Defined => []KnownAfterReset  BY SpecKnows
<1>3. Compiled /\ KnownAfterReset => Determined
  BY DEF Compiled, KnownAfterReset, Determined, Memories
<1> QED  BY <1>1, <1>2, <1>3, PTL
-----------------------------------------------------------------------------
(* What the forms of an action mean *)

\* RunSteps is a fold of AfterStep.
LEMMA RunStepsRuns ==
  ASSUME NEW a, NEW e  PROVE RunSteps(a, e) = Stepping!Folded(spec, e, a.steps)
BY DEF RunSteps, Stepping!Folded, AfterStep, FoldLeft, MapThenFoldSet, Max

\* The guards that decide what the action does have values.
Decides(a, e) ==
  /\ Known(Eval(a.guard, e))
  /\ \A j \in DOMAIN a.branches : Known(Eval(a.branches[j].guard, e))
  /\ \A j \in DOMAIN a.steps : Known(StepGuard(a.steps[j], e))

\* An action with steps leaves in a register what running its steps leaves.
LEMMA StepsMean ==
  ASSUME Evaluates, IsSpec(spec), NEW I, NEW pre \in Envs(spec, I),
         NEW a \in Actions, a.branches = <<>>, a.steps # <<>>,
         Proper(spec, I, Range(TargetsOf(<<a>>))), Ordered(spec, I, a), Decides(a, pre),
         NEW v, Writes(a, Scalar(v))
  PROVE  Commit(spec, v, ActionValue(a, Scalar(v), pre)) = RunSteps(a, pre).sig[v]
<1> DEFINE D == Range(TargetsOf(<<a>>))
           p == a.steps
           n == Len(p)
           start == [u \in D |-> Read(u, pre)]
<1>1. p \in Seq(Steps) /\ n \in Nat /\ DOMAIN p = 1..n /\ \A j \in 1..n : p[j] \in Steps
  <2>1. p \in Seq(Steps)  BY DEF Actions
  <2> QED  BY <2>1, SeqIs
<1>2. IsEnv(pre) /\ DOMAIN pre.sig = Scalars(spec) \cup I  BY EnvIs
<1>3. \A t : t \in D <=> Writes(a, t)  BY OneTargets
<1>4. Proper(spec, I, D)  OBVIOUS
<1>5. ASSUME NEW j \in 1..n
      PROVE  /\ Stepwise(spec, I, D, Earlier(a, j), p[j]) /\ Sure(p[j], pre)
             /\ p[j].guard # None => Blind(spec, I, Earlier(a, j), p[j].guard)
  <2>1. p[j].updates \in Seq(Updates)  BY <1>1 DEF Steps
  <2>2. Groups(a) = p  BY DEF Groups
  <2>3. Within(D, p[j].updates)
    <3> SUFFICES ASSUME NEW k \in DOMAIN p[j].updates
                 PROVE  Writes(a, Target(p[j].updates[k]))
      BY <1>3 DEF Within
    <3>1. j \in DOMAIN Groups(a) /\ k \in DOMAIN Groups(a)[j].updates  BY <1>1, <2>2
    <3>2. Writes(a, Target(Groups(a)[j].updates[k]))  BY <3>1, GroupWrites
    <3> QED  BY <2>2, <3>2
  <2>4. StepGuard(p[j], pre) \in Int
    <3>1. StepGuard(p[j], pre) \in Cells  BY <1>2 DEF StepGuard, Evaluates, Cells
    <3>2. StepGuard(p[j], pre) # X  BY <1>1 DEF Decides, Known
    <3> QED  BY <3>1, <3>2 DEF Cells
  <2> QED  BY <1>1, <2>1, <2>3, <2>4 DEF Ordered, Stepwise, Sure
<1>6. PICK h : /\ h[0] = <<>> /\ h[n] = Flat(a, pre)
               /\ \A j \in 1..n :
                    LET part == Part(StepGuard(p[j], pre), p[j].updates)
                    IN  part \in Seq(Guardeds) /\ h[j] = h[j-1] \o part
  BY <1>2, FlatJoins
<1>7. PICK w : Stepping!IsRun(w, spec, pre, p) /\ Stepping!Folded(spec, pre, p) = w[n]
  BY <1>1, Stepping!FoldedRuns
<1>8. w[0] = pre /\ \A j \in 1..n : w[j] = AfterStep(spec, w[j-1], p[j])
  BY <1>7 DEF Stepping!IsRun, AfterStep
<1>9. Reached(spec, D, {}, start, pre) /\ Held(spec, start, pre) = pre
  BY <1>4, StartIs
<1> DEFINE G(j) == Running!Folded(pre, start, h[j])
<1>10. AfterSteps(a, pre) = G(n)  BY <1>6 DEF AfterSteps
<1> HIDE DEF D, start, p, n
<1> DEFINE T == {j \in 0..n : /\ h[j] \in Seq(Guardeds)
                              /\ Reached(spec, D, Earlier(a, j + 1), G(j), pre)
                              /\ Held(spec, G(j), pre) = w[j]}
<1>11. 0 \in T
  <2>1. G(0) = start  BY <1>6, NothingRuns
  <2>2. Earlier(a, 0 + 1) = {}
    <3>1. 0 + 1 = 1  OBVIOUS
    <3> QED  BY <3>1, EarlierNone
  <2>3. h[0] \in Seq(Guardeds) /\ 0 \in 0..n  BY <1>1, <1>6
  <2> HIDE DEF G
  <2>4. Reached(spec, D, Earlier(a, 0 + 1), G(0), pre) /\ Held(spec, G(0), pre) = w[0]
    BY <1>8, <1>9, <2>1, <2>2
  <2> QED  BY <2>3, <2>4
<1>12. \A m \in Nat : m < n /\ m \in T => m + 1 \in T
  <2> SUFFICES ASSUME NEW m \in Nat, m < n, m \in T  PROVE m + 1 \in T  OBVIOUS
  <2> DEFINE j == m + 1
             b == p[j]
             r == G(m)
             V == Earlier(a, j)
             part == Part(StepGuard(b, pre), b.updates)
             q == Running!Folded(pre, r, part)
  <2>1. j \in 1..n /\ j - 1 = m /\ j \in 0..n  BY <1>1
  <2>2. h[m] \in Seq(Guardeds) /\ Reached(spec, D, V, r, pre) /\ Held(spec, r, pre) = w[m]
    OBVIOUS
  <2>3. part \in Seq(Guardeds) /\ h[j] = h[m] \o part  BY <1>6, <2>1
  <2>4. h[j] \in Seq(Guardeds) /\ G(j) = q
    <3> HIDE DEF part, j
    <3>1. h[j] \in Seq(Guardeds)  BY <2>2, <2>3
    <3>2. Running!Folded(pre, start, h[m] \o part) = Running!Folded(pre, r, part)
      BY <2>2, <2>3, Running!FoldedConcat
    <3> QED  BY <2>3, <3>1, <3>2
  <2> HIDE DEF r
  <2>5. /\ Stepwise(spec, I, D, V, b) /\ Sure(b, pre)
        /\ b.guard # None => Blind(spec, I, V, b.guard)
    BY <1>5, <2>1
  <2>6. Earlier(a, j + 1) = V \cup Firsts(b.updates, Len(b.updates))
    BY EarlierNext DEF p
  <2>7. w[j] = AfterStep(spec, w[m], b)  BY <1>8, <2>1
  <2> HIDE DEF V, b, j
  <2>8. StepGuard(b, Held(spec, r, pre)) = StepGuard(b, pre)
    BY <1>4, <2>2, <2>5, GuardStays
  <2>9. /\ Reached(spec, D, V \cup Firsts(b.updates, Len(b.updates)), q, pre)
        /\ Held(spec, q, pre) = AfterStep(spec, Held(spec, r, pre), b)
    <3>1. /\ Reached(spec, D, V \cup Firsts(b.updates, Len(b.updates)), Taken(pre, r, b), pre)
          /\ Follows(spec, pre, r, Taken(pre, r, b), b)
      BY <1>4, <2>2, <2>5, <2>8, StepMoves
    <3>2. Taken(pre, r, b) = q  BY DEF Taken
    <3> QED  BY <3>1, <3>2 DEF Follows
  <2> HIDE DEF q, G
  <2>10. Reached(spec, D, Earlier(a, j + 1), G(j), pre) /\ Held(spec, G(j), pre) = w[j]
    BY <2>2, <2>4, <2>6, <2>7, <2>9
  <2> QED  BY <2>1, <2>4, <2>10 DEF j
<1> HIDE DEF T
<1>13. 0..n \subseteq T  BY <1>1, <1>11, <1>12, Running!IntervalInduction
<1>14. n \in T  BY <1>1, <1>13
<1> DEFINE end == G(n)
<1>15. Reached(spec, D, Earlier(a, n + 1), end, pre) /\ Held(spec, end, pre) = w[n]
  BY <1>14 DEF T
<1>16. ActionValue(a, Scalar(v), pre) = end[Scalar(v)]
  BY <1>10, SequentialValueRuns DEF ActionValue
<1>17. RunSteps(a, pre) = w[n]  BY <1>7, RunStepsRuns DEF p
<1> HIDE DEF end
<1>18. Scalar(v) \in D /\ v \in DOMAIN pre.sig
  <2>1. Scalar(v).var = v /\ Scalar(v).idx = None  BY DEF Scalar
  <2>2. Scalar(v) \in D  BY <1>3
  <2> QED  BY <1>2, <1>4, <2>1, <2>2, ProperScalar
<1>19. Held(spec, end, pre).sig[v] = Commit(spec, v, end[Scalar(v)])
  BY <1>4, <1>15, <1>18, HeldIs DEF Reached
<1> QED  BY <1>15, <1>16, <1>17, <1>19

\* A branch runs as one step.
LEMMA OneStepRuns ==
  ASSUME NEW b, NEW e  PROVE RunSteps([steps |-> <<b>>], e) = AfterStep(spec, e, b)
<1> DEFINE s == <<b>>
<1>1. Len(s) = 1 /\ DOMAIN s = 1..Len(s) /\ s[1] = b  OBVIOUS
<1>2. RunSteps([steps |-> s], e) = Stepping!Folded(spec, e, s)
  <2>1. [steps |-> s].steps = s  OBVIOUS
  <2> HIDE DEF s
  <2> QED  BY <2>1, RunStepsRuns
<1> HIDE DEF s
<1>3. PICK f : Stepping!IsRun(f, spec, e, s) /\ Stepping!Folded(spec, e, s) = f[Len(s)]
  BY <1>1, Stepping!FoldedRuns
<1>4. f[0] = e /\ f[1] = AfterStep(spec, f[0], s[1])
  <2>1. f[0] = e /\ \A j \in 1..Len(s) : f[j] = AfterStep(spec, f[j-1], s[j])
    BY <1>3 DEF Stepping!IsRun, AfterStep
  <2>2. 1 \in 1..Len(s) /\ 1 - 1 = 0  BY <1>1
  <2> QED  BY <2>1, <2>2
<1> QED  BY <1>1, <1>2, <1>3, <1>4 DEF s

\* An action with exclusive branches leaves what its branch leaves.
LEMMA BranchMeans ==
  ASSUME Evaluates, IsSpec(spec), NEW I, NEW pre \in Envs(spec, I),
         NEW a \in Actions, a.branches # <<>>,
         Proper(spec, I, Range(TargetsOf(<<a>>))), Ordered(spec, I, a), Decides(a, pre),
         Unambiguous(a, pre), NEW v, Writes(a, Scalar(v))
  PROVE  Commit(spec, v, ActionValue(a, Scalar(v), pre)) = TakeBranch(a, pre).sig[v]
<1> DEFINE D == Range(TargetsOf(<<a>>))
           b == a.branches
           n == Len(b)
           t == Scalar(v)
           k == SelectInSeq(b, LAMBDA c : Eval(c.guard, pre) # 0)
           on == {i \in 1..n : Eval(b[i].guard, pre) # 0}
           taken == {i \in 1..n : Assigns(b[i], t) /\ Eval(b[i].guard, pre) # 0}
<1>1. n \in Nat /\ DOMAIN b = 1..n /\ \A j \in 1..n : b[j] \in Branches
  <2>1. b \in Seq(Branches)  BY DEF Actions
  <2> QED  BY <2>1, SeqIs
<1>2. \A u : u \in D <=> Writes(a, u)  BY OneTargets
<1>3. t.var = v /\ t.idx = None  BY DEF Scalar
<1>4. v \in Scalars(spec) /\ v \notin I /\ v \in DOMAIN spec.vars
  <2>1. t \in D  BY <1>2
  <2>2. t.var \in Scalars(spec) /\ t.var \notin I  BY <1>3, <2>1, ProperScalar
  <2> QED  BY <1>3, <2>2 DEF Scalars
<1>5. /\ DOMAIN pre.sig = Scalars(spec) \cup I /\ pre = [sig |-> pre.sig, mem |-> pre.mem]
  BY EnvIs
<1>6. Commit(spec, v, pre.sig[v]) = pre.sig[v]  BY <1>4, CommitAgain
<1>7. Read(t, pre) = pre.sig[v]  BY <1>3 DEF Read
<1>8. ActionValue(a, t, pre) = AlternationValue(a, t, pre)  BY DEF ActionValue
<1>9. taken = {} => AlternationValue(a, t, pre) = Read(t, pre)
  BY DEF AlternationValue, NestedIf
<1>10. k = IF on # {} THEN Min(on) ELSE 0  BY DEF SelectInSeq
<1>11. TakeBranch(a, pre) = IF k = 0 THEN pre ELSE AfterStep(spec, pre, b[k])
  BY OneStepRuns DEF TakeBranch
<1>12. ASSUME NEW i \in 1..n, NEW j \in 1..n, i \in on, j \in on  PROVE i = j
  BY <1>1, <1>12 DEF Unambiguous
<1> HIDE DEF D, k, t
<1>13. CASE on = {}
  <2>1. taken = {}  BY <1>13
  <2> QED  BY <1>6, <1>7, <1>8, <1>9, <1>10, <1>11, <1>13, <2>1 DEF t
<1>14. CASE on # {}
  <2>1. k \in 1..n /\ Eval(b[k].guard, pre) # 0
    <3>1. on \in SUBSET (1..n)  OBVIOUS
    <3> HIDE DEF on
    <3>2. k \in on  BY <1>1, <1>10, <1>14, <3>1, MinIs
    <3> QED  BY <3>2 DEF on
  <2>2. k # 0  BY <1>1, <2>1
  <2> DEFINE c == b[k]
             us == c.updates
             mine == {i \in DOMAIN us : us[i].var = v}
  <2>3. c.guard \in STRING /\ us \in Seq(Updates)  BY <1>1, <2>1 DEF Branches
  <2>4. StepGuard(c, pre) # 0  BY <2>1, <2>3, NoneAssumption DEF StepGuard
  <2>5. TakeBranch(a, pre) = AfterStep(spec, pre, c)  BY <1>11, <2>2
  <2>6. AfterStep(spec, pre, c).sig[v] =
          IF mine = {} THEN pre.sig[v]
          ELSE Mask(Eval(us[CHOOSE i \in mine : TRUE].expr, pre), spec.vars[v].width)
    <3> DEFINE h(w) == LET m == {i \in DOMAIN us : us[i].var = w}
                       IN  IF m = {} THEN pre.sig[w]
                           ELSE Mask(Eval(us[CHOOSE i \in m : TRUE].expr, pre), spec.vars[w].width)
               x == [w \in DOMAIN pre.sig |-> h(w)]
    <3>1. AfterStep(spec, pre, c) = [pre EXCEPT !.sig = x]  BY <2>4 DEF AfterStep
    <3>2. v \in DOMAIN pre.sig  BY <1>4, <1>5
    <3>3. x[v] = h(v)  BY <3>2
    <3> HIDE DEF x
    <3>4. AfterStep(spec, pre, c).sig = x  BY <1>5, <3>1
    <3> QED  BY <3>3, <3>4
  <2>7. CASE Assigns(c, t)
    <3> DEFINE i == FirstAt(us, t)
    <3>1. \E m \in DOMAIN us : Target(us[m]) = t  BY <2>7 DEF Assigns
    <3>2. i \in DOMAIN us /\ Target(us[i]) = t  BY <2>3, <3>1, SelectedIs
    <3>3. AlternationValue(a, t, pre) = Eval(us[i].expr, pre)
      <4>1. On(b[k].guard, pre) /\ Known(Eval(b[k].guard, pre))
        BY <1>1, <2>1 DEF On, Decides
      <4>2. \A j \in 1..Len(a.branches) :
              Assigns(a.branches[j], t) /\ j # k => Off(a.branches[j].guard, pre)
        BY <1>12, <2>1 DEF Off
      <4> QED  BY <1>1, <2>1, <2>7, <4>1, <4>2, OneBranch
    <3> HIDE DEF i
    <3>4. us[i].var = v /\ us[i].idx = None  BY <1>3, <3>2 DEF Target
    <3>5. Once(us)  BY <1>1, <2>1 DEF Ordered
    <3> HIDE DEF us
    <3>6. mine = {i}  BY <3>2, <3>4, <3>5 DEF Once
    <3>7. (CHOOSE j \in mine : TRUE) = i  BY <3>6
    <3>8. AfterStep(spec, pre, c).sig[v] = Mask(Eval(us[i].expr, pre), spec.vars[v].width)
      BY <2>6, <3>6, <3>7
    <3> QED  BY <1>4, <1>8, <2>5, <3>3, <3>8 DEF Commit, t
  <2>8. CASE ~Assigns(c, t)
    <3>1. mine = {}
      <4> SUFFICES ASSUME NEW i \in mine  PROVE FALSE  OBVIOUS
      <4>1. Groups(a) = b  BY DEF Groups
      <4>2. Writes(a, Target(us[i]))  BY <1>1, <2>1, <4>1, GroupWrites
      <4> DEFINE u == Target(us[i])
      <4>3. u \in D /\ u.var = v  BY <1>2, <4>2 DEF Target
      <4> HIDE DEF u
      <4>4. u.idx = None  BY <1>4, <4>3, ProperScalar DEF D
      <4>5. u = Scalar(v)  BY <4>3, <4>4, ProperScalar DEF D
      <4> QED  BY <2>8, <4>5 DEF Assigns, u, t
    <3>2. taken = {}
      <4> SUFFICES ASSUME NEW j \in taken  PROVE FALSE  OBVIOUS
      <4>1. j = k  BY <1>12, <2>1
      <4> QED  BY <2>8, <4>1
    <3> HIDE DEF taken, mine
    <3> QED  BY <1>6, <1>7, <1>8, <1>9, <2>5, <2>6, <3>1, <3>2 DEF t
  <2> QED  BY <2>7, <2>8
<1> QED  BY <1>13, <1>14

\* The forms that can be composed into one expression per register.  Actions
\* write declared variables and no wire; a branch or a step writes a register
\* once; no guard of a step reads what a step before it writes; no update reads
\* what its own step has written, nor shows the width that a step before it
\* has cut off.
Orderly ==
  Built =>
    /\ Bases(Clocked(spec)) \subseteq DOMAIN spec.vars \ Bases(Wiring(spec))
    /\ \A i \in DOMAIN Clocked(spec) : Ordered(spec, Inputs, Clocked(spec)[i])

\* Guards have values where all variables have.
Decided ==
  phase' = "run" =>
    LET pre == Seen(spec, env, Driven')
    IN  (\A v \in DOMAIN spec.vars : Known(Store(pre, v))) =>
          \A i \in DOMAIN Clocked(spec) : Decides(Clocked(spec)[i], pre)

\* A normal edge at which one action with branches or steps fires.
LEMMA EdgeMeans ==
  ASSUME Evaluates, TrueHolds, SInv, EInv, Built, WellDriven, Orderly, Decided, d' = d,
         NEW in \in [Inputs -> Cells], env' = ClockEdge(spec, env, in)
  PROVE  FormsMean
<1> DEFINE I == Inputs
           pre == Seen(spec, env, in)
           post == [sig |-> EdgeSig(spec, pre), mem |-> EdgeMem(spec, pre)]
           as == Clocked(spec)
<1>1. /\ IsSpec(spec) /\ ContinuousStays(spec) /\ env \in Envs(spec, I)
      /\ (Bases(as) \cup Bases(Wiring(spec))) \cap I = {}
      /\ Addressed /\ in \in [I -> Cells]
      /\ Bases(as) \subseteq DOMAIN spec.vars \ Bases(Wiring(spec))
      /\ \A i \in DOMAIN as : Ordered(spec, I, as[i])
  BY DEF SInv, EInv, WellDriven, Orderly
<1>2. Driven' = in  BY DrivenIs
<1> HIDE DEF I
<1>3. pre \in Envs(spec, I)  BY <1>1, SeenIs
<1>4. env' = Settle(spec, post)  BY ClockEdgeIs
<1> SUFFICES ASSUME NEW i \in Firing(pre), Firing(pre) = {i}, phase' = "run",
                    as[i].branches # <<>> \/ as[i].steps # <<>>,
                    Unambiguous(as[i], pre),
                    \A w \in DOMAIN spec.vars : Known(Store(pre, w)),
                    NEW v \in WrittenBy(i), ~IsMemory(spec, v)
             PROVE  env'.sig[v] = Meaning(as[i], pre).sig[v]
  BY <1>2 DEF FormsMean
<1>5. \A j \in DOMAIN as : Decides(as[j], pre)  BY <1>2 DEF Decided
<1> HIDE DEF pre
<1> DEFINE a == as[i]
           D == Range(TargetsOf(<<a>>))
<1>6. i \in DOMAIN as /\ a \in Actions  BY ClockedIs, <1>1 DEF Firing
<1>7. \A t : t \in D <=> Writes(a, t)  BY <1>6, OneTargets
<1>8. ASSUME NEW t, Writes(a, t)
      PROVE  /\ t \in Targets /\ t.var \in DOMAIN spec.vars \ Bases(Wiring(spec))
             /\ t.var \notin I
             /\ t.idx = None <=> ~IsMemory(spec, t.var)
  <2>1. t \in Range(TargetsOf(as)) /\ t \in Targets  BY <1>1, <1>6, <1>8, TargetOf
  <2>2. t.var \in Bases(as)  BY <2>1 DEF Bases
  <2> QED  BY <1>1, <2>1, <2>2 DEF Addressed
<1>9. Proper(spec, I, D)  BY <1>7, <1>8 DEF Proper
<1>10. Writes(a, Scalar(v)) /\ v \in DOMAIN spec.vars \ Bases(Wiring(spec))
  <2>1. PICK t : Writes(a, t) /\ t.var = v  BY <1>1, <1>6, WrittenIs
  <2>2. t \in Targets /\ t.idx = None  BY <1>8, <2>1
  <2>3. t = Scalar(v)  BY <2>1, <2>2 DEF Targets, Scalar
  <2> QED  BY <1>8, <2>1, <2>3
<1>11. v \in Scalars(spec) /\ v \in DOMAIN pre.sig
  BY <1>3, <1>10, EnvIs DEF Scalars
<1>12. Scalar(v) \in Range(TargetsOf(as))  BY <1>1, <1>6, <1>10, TargetOf
<1>13. Clear(pre)  BY <1>5 DEF Clear, Decides
<1>14. IsEnv(pre)  BY <1>3, EnvIs
<1>15. NextValue(as, Scalar(v), pre) = ActionValue(a, Scalar(v), pre)
  BY <1>1, <1>10, <1>13, <1>14, TargetFires
<1> HIDE DEF a, as, D
<1>16. EdgeSig(spec, pre)[v] = Commit(spec, v, ActionValue(a, Scalar(v), pre))
  <2>1. Scalar(v).var = v  BY DEF Scalar
  <2> QED  BY <1>11, <1>12, <1>15, <2>1 DEF EdgeSig, Landing, as
<1>17. env'.sig[v] = EdgeSig(spec, pre)[v]
  <2>1. post \in Envs(spec, I)  BY <1>1, <1>3, EdgeSigIs, EdgeMemIs DEF Envs
  <2>2. post.sig = EdgeSig(spec, pre)  OBVIOUS
  <2> HIDE DEF post
  <2>3. \A u \in Range(Nets(spec)) : u.var # v  BY <1>1, <1>10, WiresAre
  <2> QED  BY <1>1, <1>4, <1>11, <2>1, <2>2, <2>3, SettleFrame
<1>18. Ordered(spec, I, a) /\ Decides(a, pre) /\ Proper(spec, I, Range(TargetsOf(<<a>>)))
  BY <1>1, <1>5, <1>6, <1>9 DEF a, D
<1>19. Unambiguous(a, pre) /\ (a.branches # <<>> \/ a.steps # <<>>)  BY DEF a, as
<1>20. CASE a.branches # <<>>
  <2>1. Commit(spec, v, ActionValue(a, Scalar(v), pre)) = TakeBranch(a, pre).sig[v]
    BY <1>1, <1>3, <1>6, <1>10, <1>18, <1>19, <1>20, BranchMeans
  <2>2. Meaning(a, pre) = TakeBranch(a, pre)  BY <1>20 DEF Meaning
  <2> QED  BY <1>16, <1>17, <2>1, <2>2 DEF a, as
<1>21. CASE a.branches = <<>>
  <2>1. Commit(spec, v, ActionValue(a, Scalar(v), pre)) = RunSteps(a, pre).sig[v]
    BY <1>1, <1>3, <1>6, <1>10, <1>18, <1>19, <1>21, StepsMean
  <2>2. Meaning(a, pre) = RunSteps(a, pre)  BY <1>21 DEF Meaning
  <2> QED  BY <1>16, <1>17, <2>1, <2>2 DEF a, as
<1> QED  BY <1>20, <1>21

\* What the composed expressions leave in the registers is what the branch that
\* is on, or the steps one after the other, leave there (bridge.py composes
\* branches into IF chains and steps by substitution), for every number of
\* branches, steps and updates: as long as the forms are orderly and decided.
THEOREM SpecForms ==
  Evaluates /\ TrueHolds /\ PickerDocuments =>
    (Spec /\ []WellDriven /\ []Orderly /\ [][Decided]_vars => FormsMeanWhatTheySay)
<1> SUFFICES ASSUME Evaluates, TrueHolds, PickerDocuments
             PROVE  Spec /\ []WellDriven /\ []Orderly /\ [][Decided]_vars
                      => FormsMeanWhatTheySay
  OBVIOUS
<1> DEFINE FInv == SInv /\ EInv
<1>1. Init => FInv  BY SInvInit DEF Init, EInv, Built
<1>2. FInv /\ [Next]_vars => FInv'  BY StepKeeps, EnvStays
<1>3. FInv /\ WellDriven /\ Orderly /\ [Next]_vars /\ [Decided]_vars => [FormsMean]_vars
  <2> SUFFICES ASSUME FInv, WellDriven, Orderly, Next, [Decided]_vars, phase' = "run",
                      vars' # vars
               PROVE  FormsMean
    BY DEF FormsMean
  <2>1. d \in Designs /\ Decided  BY DEF SInv
  <2>2. CASE DeassertReset
    BY <2>1, <2>2, IdleIs, EdgeMeans DEF DeassertReset, Built
  <2>3. CASE \E in \in Stimuli[d] : Vector(in)
    <3>1. PICK in \in Stimuli[d] : Vector(in)  BY <2>3
    <3>2. in \in [Inputs -> Cells]  BY <2>1, InputsAre
    <3> QED  BY <2>1, <3>1, <3>2, EdgeMeans DEF Vector, Built
  <2> QED
    BY <2>2, <2>3 DEF Next, Refine, Compile, AssertReset, ResetVector
<1> HIDE DEF FInv
<1> QED  BY <1>1, <1>2, <1>3, PTL DEF Spec, FormsMeanWhatTheySay

-----------------------------------------------------------------------------
(***************************************************************************)
(* The six rules are a library of the engine's.  RefinementEngine knows a  *)
(* rule by two functions, Applicable and Result; here these are what the   *)
(* rules of EngineSpec compute, so that what is proved of the engine's     *)
(* chains, for every library, is about the specs that are compiled and     *)
(* simulated.                                                              *)
(***************************************************************************)
CONSTANTS
  Proposals,   \* params dicts the picker may return
  Raises,      \* apply raised ValueError, KeyError or TypeError
  Escapes,     \* apply raised anything else
  Misused      \* Misused[s][ch]: what a rule does with params it does not document

Entries == [width : Nat \ {0}, depth : Nat, comb : BOOLEAN, abstract : BOOLEAN,
            reset : STRING \cup {None}, clocked : BOOLEAN]

EngineSpecs ==
  [vars : UNION {[D -> Entries] : D \in SUBSET STRING},
   actions : Seq(Actions), reset : STRING \cup {None}]

\* The engine's names are texts, and nothing is both a spec and an exception.
LibraryTexts ==
  /\ Raises \notin EngineSpecs /\ Escapes \notin EngineSpecs /\ Raises # Escapes
  /\ Misused \in [EngineSpecs -> [RuleNames \X Proposals ->
                                    EngineSpecs \cup {Raises, Escapes}]]

\* Params that the rule of the choice documents.
Documented(ch) == IsChoice(ch[2]) /\ ch[2].rule = ch[1]

\* IntroduceVariable raises ValueError on a name it knows.
Applied(s, ch) ==
  IF ~Documented(ch) THEN Misused[s][ch]
  ELSE IF ch[1] = "IntroduceVariable" /\ ch[2].name \in DOMAIN s.vars THEN Raises
  ELSE Apply(ch[2], s)

Library == INSTANCE RuleLibrary WITH
  Specs <- EngineSpecs, Rules <- RuleNames, Params <- Proposals,
  Applicable <- [s \in EngineSpecs |-> {r \in RuleNames : IsApplicable(r, s)}],
  Result <- [s \in EngineSpecs |-> [ch \in RuleNames \X Proposals |-> Applied(s, ch)]],
  RtlStyle <- {s \in EngineSpecs : IsRtlStyle(s)}

LEMMA EngineSpecsAre ==
  ASSUME NEW s  PROVE s \in EngineSpecs <=> IsSpec(s) /\ DOMAIN s.vars \in SUBSET STRING
<1>1. ASSUME s \in EngineSpecs  PROVE IsSpec(s) /\ DOMAIN s.vars \in SUBSET STRING
  <2>1. PICK D \in SUBSET STRING : s.vars \in [D -> Entries]  BY <1>1 DEF EngineSpecs
  <2>2. \A v \in DOMAIN s.vars : IsVariable(s.vars[v])  BY <2>1 DEF Entries, IsVariable
  <2>3. /\ s.actions \in Seq(Actions) /\ s.reset \in STRING \cup {None}
        /\ s = [vars |-> s.vars, actions |-> s.actions, reset |-> s.reset]
    BY <1>1 DEF EngineSpecs
  <2> QED  BY <2>1, <2>2, <2>3 DEF IsSpec
<1>2. ASSUME IsSpec(s), DOMAIN s.vars \in SUBSET STRING  PROVE s \in EngineSpecs
  <2>1. s.vars \in [DOMAIN s.vars -> Entries]  BY <1>2 DEF IsSpec, IsVariable, Entries
  <2> QED  BY <1>2, <2>1 DEF EngineSpecs, IsSpec
<1> QED  BY <1>1, <1>2

LEMMA ApplyNames ==
  ASSUME NEW s, IsSpec(s), DOMAIN s.vars \in SUBSET STRING, NEW p, IsChoice(p)
  PROVE  DOMAIN Apply(p, s).vars \in SUBSET STRING
<1> DEFINE t == Apply(p, s)
<1>0. s = [vars |-> s.vars, actions |-> s.actions, reset |-> s.reset]  BY DEF IsSpec
<1>1. CASE p.rule = "IntroduceVariable"
  <2>1. CASE p.name \in DOMAIN s.vars  BY <1>1, <2>1 DEF Apply
  <2>2. CASE p.name \notin DOMAIN s.vars
    <3>1. t = IntroduceVariable(s, p)  BY <1>1, <2>2 DEF Apply
    <3>2. DOMAIN t.vars = DOMAIN s.vars \cup {p.name}  BY <1>0, <3>1 DEF IntroduceVariable
    <3> QED  BY <1>1, <3>2 DEF IsChoice
  <2> QED  BY <2>1, <2>2
<1>2. CASE p.rule = "Assignment"  BY <1>0, <1>2 DEF Apply, Assignment, Rewrite
<1>3. CASE p.rule = "Alternation"  BY <1>0, <1>3 DEF Apply, Alternation, Rewrite
<1>4. CASE p.rule = "SequentialComposition"
  BY <1>0, <1>4 DEF Apply, SequentialComposition, Rewrite
<1>5. CASE p.rule = "Iteration"
  <2>1. t = Iteration(s, p)  BY <1>5 DEF Apply
  <2> QED  BY <1>0, <2>1 DEF Iteration, Rewrite
<1>6. CASE p.rule = "Initialization"  BY <1>6 DEF Apply, Initialization
<1> QED  BY <1>1, <1>2, <1>3, <1>4, <1>5, <1>6 DEF IsChoice, RuleNames

THEOREM RulesAreLibrary == LibraryTexts => Library!IsLibrary
<1> SUFFICES ASSUME LibraryTexts  PROVE Library!IsLibrary  OBVIOUS
<1>1. ASSUME NEW s \in EngineSpecs, NEW ch \in RuleNames \X Proposals
      PROVE  Applied(s, ch) \in EngineSpecs \cup {Raises, Escapes}
  <2>1. CASE ~Documented(ch)  BY <2>1 DEF Applied, LibraryTexts
  <2>2. CASE Documented(ch)
    <3>1. IsSpec(s) /\ DOMAIN s.vars \in SUBSET STRING  BY EngineSpecsAre
    <3>2. IsSpec(Apply(ch[2], s)) /\ DOMAIN Apply(ch[2], s).vars \in SUBSET STRING
      BY <2>2, <3>1, ApplyKeeps, ApplyNames DEF Documented, Keeps, Shape
    <3>3. Apply(ch[2], s) \in EngineSpecs  BY <3>2, EngineSpecsAre
    <3> QED  BY <2>2, <3>3 DEF Applied
  <2> QED  BY <2>1, <2>2
<1> DEFINE Can == [s \in EngineSpecs |-> {r \in RuleNames : IsApplicable(r, s)}]
           Does == [s \in EngineSpecs |-> [ch \in RuleNames \X Proposals |-> Applied(s, ch)]]
<1>2. Can \in [EngineSpecs -> SUBSET RuleNames]  OBVIOUS
<1>3. Does \in [EngineSpecs -> [RuleNames \X Proposals -> EngineSpecs \cup {Raises, Escapes}]]
  BY <1>1
<1>4. {s \in EngineSpecs : IsRtlStyle(s)} \subseteq EngineSpecs  OBVIOUS
<1> HIDE DEF EngineSpecs
<1> QED  BY <1>2, <1>3, <1>4 DEF Library!IsLibrary, Library!Choices, LibraryTexts

\* What the engine commits of a documented choice is a step of the circuit's
\* refinement, and nothing else is.
LEMMA CommitsRefines ==
  ASSUME LibraryTexts, NEW s \in EngineSpecs, NEW ch \in RuleNames \X Proposals,
         Documented(ch), NEW t
  PROVE  Library!Commits(s, ch, t) <=> Refines(ch[2], s, t)
<1> DEFINE p == ch[2]
<1>1. ch[1] = p.rule /\ IsChoice(p) /\ p.rule \in RuleNames  BY DEF Documented, IsChoice
<1>2. Apply(p, s) \in EngineSpecs
  <2>1. IsSpec(s) /\ DOMAIN s.vars \in SUBSET STRING  BY EngineSpecsAre
  <2>2. IsSpec(Apply(p, s)) /\ DOMAIN Apply(p, s).vars \in SUBSET STRING
    BY <1>1, <2>1, ApplyKeeps, ApplyNames DEF Keeps, Shape
  <2> QED  BY <2>2, EngineSpecsAre
<1>3. Library!Commits(s, ch, t) <=>
        /\ ~IsRtlStyle(s) /\ IsApplicable(p.rule, s)
        /\ t = Applied(s, ch) /\ t \in EngineSpecs /\ t # s
  <2> HIDE DEF EngineSpecs
  <2> QED  BY <1>1 DEF Library!Commits
<1>4. CASE p.rule = "IntroduceVariable" /\ p.name \in DOMAIN s.vars
  <2>1. Applied(s, ch) = Raises  BY <1>1, <1>4 DEF Applied
  <2>2. Apply(p, s) = s  BY <1>4 DEF Apply
  <2> QED  BY <1>3, <2>1, <2>2 DEF Refines, LibraryTexts
<1>5. CASE ~(p.rule = "IntroduceVariable" /\ p.name \in DOMAIN s.vars)
  <2>1. Applied(s, ch) = Apply(p, s)  BY <1>1, <1>5 DEF Applied
  <2> QED  BY <1>2, <1>3, <2>1 DEF Refines
<1> QED  BY <1>4, <1>5

LEMMA KeepsOn ==
  ASSUME NEW r, NEW s, NEW t, Keeps(r, s), Keeps(s, t)  PROVE Keeps(r, t)
<1>1. Adds(r, s) /\ Adds(s, t)  BY DEF Keeps, Shape
<1>2. Adds(r, t)  BY <1>1 DEF Adds
<1> QED  BY <1>2 DEF Keeps, Shape

LEMMA KeepsItself ==
  ASSUME NEW s, IsSpec(s)  PROVE Keeps(s, s)
BY DEF Keeps, Shape, Adds

ReplayStep(none, s, ch) == Library!After(s, ch)

Replaying == INSTANCE Recursion WITH Step <- ReplayStep

LEMMA TrailIsRun ==
  ASSUME NEW s0, NEW c, Len(c) \in Nat
  PROVE  /\ Library!Trail(s0, c) = Replaying!Walk(<<>>, s0, c)
         /\ Library!Trail(s0, c)[0] = s0
         /\ \A n \in 1..Len(c) :
              Library!Trail(s0, c)[n] = Library!After(Library!Trail(s0, c)[n-1], c[n])
<1>1. Library!Trail(s0, c) = Replaying!Walk(<<>>, s0, c)
  BY DEF Library!Trail, Replaying!Walk, ReplayStep
<1>2. Replaying!IsRun(Replaying!Walk(<<>>, s0, c), <<>>, s0, c)  BY Replaying!WalkRuns
<1> QED  BY <1>1, <1>2 DEF Replaying!IsRun, ReplayStep

\* A chain of committed choices: every step of it refines.
DocumentedAll(c) == \A n \in DOMAIN c : Documented(c[n])

THEOREM ChainsRefine ==
  ASSUME LibraryTexts, NEW s0 \in EngineSpecs, NEW c \in Seq(Library!Choices),
         Library!IsRefinement(s0, c), DocumentedAll(c)
  PROVE  LET trail == Library!Trail(s0, c)
         IN  /\ \A n \in 1..Len(c) : Refines(c[n][2], trail[n-1], trail[n])
             /\ \A m \in 0..Len(c) : \A n \in m..Len(c) : Keeps(trail[m], trail[n])
<1> DEFINE trail == Library!Trail(s0, c)
<1>1. /\ Len(c) \in Nat /\ DOMAIN c = 1..Len(c)
      /\ \A n \in 1..Len(c) : c[n] \in RuleNames \X Proposals
  BY SeqIs DEF Library!Choices
<1>2. trail[0] = s0  BY <1>1, TrailIsRun
<1>3. \A n \in 1..Len(c) : Library!Commits(trail[n-1], c[n], trail[n])
  BY DEF Library!IsRefinement
<1> HIDE DEF trail
<1>4. \A n \in 1..Len(c) : trail[n-1] \in EngineSpecs /\ trail[n] \in EngineSpecs
  BY <1>3 DEF Library!Commits
<1>5. \A n \in 0..Len(c) : trail[n] \in EngineSpecs
  <2>1. \A n \in 0..Len(c) : n = 0 \/ n \in 1..Len(c)  BY <1>1
  <2> QED  BY <1>2, <1>4, <2>1
<1>6. \A n \in 1..Len(c) : Refines(c[n][2], trail[n-1], trail[n])
  BY <1>1, <1>3, <1>4, CommitsRefines DEF DocumentedAll
<1>7. \A n \in 1..Len(c) : Keeps(trail[n-1], trail[n])
  <2> SUFFICES ASSUME NEW n \in 1..Len(c)  PROVE Keeps(trail[n-1], trail[n])  OBVIOUS
  <2>1. IsSpec(trail[n-1])  BY <1>4, EngineSpecsAre
  <2>2. IsChoice(c[n][2])  BY <1>1 DEF DocumentedAll, Documented
  <2> QED  BY <1>6, <2>1, <2>2, ApplyKeeps DEF Refines
<1>8. ASSUME NEW m \in 0..Len(c), NEW n \in m..Len(c)  PROVE Keeps(trail[m], trail[n])
  <2> DEFINE T == {k \in Nat : m + k <= Len(c) => Keeps(trail[m], trail[m+k])}
  <2>1. 0 \in T
    <3>1. Keeps(trail[m], trail[m])  BY <1>5, EngineSpecsAre, KeepsItself
    <3> QED  BY <1>1, <3>1
  <2>2. ASSUME NEW k \in T  PROVE k + 1 \in T
    <3>1. CASE m + (k + 1) > Len(c)  BY <1>1, <2>2, <3>1
    <3>2. CASE m + (k + 1) <= Len(c)
      <4>1. m + k <= Len(c) /\ m + (k+1) \in 1..Len(c) /\ (m + (k+1)) - 1 = m + k
        BY <1>1, <3>2
      <4>2. Keeps(trail[m], trail[m+k])  BY <4>1
      <4>3. Keeps(trail[m+k], trail[m+(k+1)])  BY <1>7, <4>1
      <4> QED  BY <4>2, <4>3, KeepsOn
    <3> QED  BY <1>1, <3>1, <3>2
  <2> HIDE DEF T
  <2>3. T = Nat  BY <2>1, <2>2, Replaying!SetInduction DEF T
  <2>4. n - m \in T /\ m + (n - m) = n /\ n <= Len(c)  BY <1>1, <2>3
  <2> QED  BY <2>4 DEF T
<1> QED  BY <1>6, <1>8 DEF trail

\* The trail of a chain that agrees with another is that other's.
LEMMA TrailsAgree ==
  ASSUME NEW s0, NEW c \in Seq(Library!Choices), NEW e \in Seq(Library!Choices),
         Len(c) <= Len(e), \A i \in 1..Len(c) : c[i] = e[i]
  PROVE  \A i \in 0..Len(c) : Library!Trail(s0, c)[i] = Library!Trail(s0, e)[i]
<1> DEFINE m == Len(c)
           k == Len(e)
<1>1. m \in Nat /\ k \in Nat /\ m <= m /\ m <= k  OBVIOUS
<1>2. \A i \in 0..m : Replaying!Walk(<<>>, s0, c)[i] = Replaying!Walk(<<>>, s0, e)[i]
  BY <1>1, Replaying!WalksAgree
<1> QED  BY <1>1, <1>2, TrailIsRun

\* What the engine delivers of a fresh spec (engine.run, also when Stage 3 calls
\* it after a backtrack): whatever the length of the chain and of the prefix that
\* was on disk, the spec is RTL-style, nothing that any step decided is taken
\* back, and wires and memories stayed out.
THEOREM DeliveredSpec ==
  ASSUME LibraryTexts, NEW s0 \in EngineSpecs, IsFresh(s0),
         NEW p \in Seq(Library!Choices), NEW c \in Seq(Library!Choices),
         Library!Delivers(s0, p, c), DocumentedAll(c)
  PROVE  LET t == Library!Replay(s0, c)
         IN  /\ IsSpec(t) /\ IsRtlStyle(t)
             /\ Adds(s0, t) /\ Adds(Library!Replay(s0, p), t)
             /\ ContinuousStays(t) /\ NeverReset(t)
<1> DEFINE trail == Library!Trail(s0, c)
           t == Library!Replay(s0, c)
<1>1. /\ Library!IsRefinement(s0, c) /\ IsRtlStyle(t)
      /\ Len(p) <= Len(c) /\ SubSeq(c, 1, Len(p)) = p
  BY DEF Library!Delivers, Library!Leaves, Library!Extends
<1>2. Len(p) \in 0..Len(c) /\ Len(c) \in 0..Len(c) /\ Len(c) \in Len(p)..Len(c)
      /\ 0 \in 0..Len(c) /\ Len(c) \in 0..Len(c) /\ Len(c) \in Nat /\ Len(p) \in 0..Len(p)
  BY <1>1
<1>3. trail[0] = s0 /\ t = trail[Len(c)]
  BY <1>2, TrailIsRun DEF Library!Replay
<1>4. Library!Replay(s0, p) = trail[Len(p)]
  <2>1. \A i \in 1..Len(p) : p[i] = c[i]  BY <1>1, <1>2
  <2>2. \A i \in 0..Len(p) : Library!Trail(s0, p)[i] = trail[i]
    BY <1>1, <2>1, TrailsAgree
  <2> QED  BY <1>2, <2>2 DEF Library!Replay
<1>5. \A m \in 0..Len(c) : \A n \in m..Len(c) : Keeps(trail[m], trail[n])
  BY <1>1, ChainsRefine
<1> HIDE DEF trail, t
<1>6. Keeps(s0, t) /\ Keeps(Library!Replay(s0, p), t)
  BY <1>2, <1>3, <1>4, <1>5
<1>7. ContinuousStays(s0) /\ NeverReset(s0)
  BY DEF IsFresh, ContinuousStays, NeverReset, Unresettable
<1> QED  BY <1>1, <1>6, <1>7 DEF Keeps, Shape, t

LEMMA ReplayIsSpec ==
  ASSUME NEW s0 \in EngineSpecs, NEW c \in Seq(Library!Choices),
         Library!IsRefinement(s0, c)
  PROVE  Library!Replay(s0, c) \in EngineSpecs
<1>1. Len(c) \in Nat /\ (Len(c) = 0 \/ Len(c) \in 1..Len(c))  OBVIOUS
<1>2. CASE Len(c) = 0  BY <1>1, <1>2, TrailIsRun DEF Library!Replay
<1>3. CASE Len(c) \in 1..Len(c)
  BY <1>3 DEF Library!Replay, Library!IsRefinement, Library!Commits
<1> QED  BY <1>1, <1>2, <1>3

LEMMA ChainGrows ==
  ASSUME NEW s0 \in EngineSpecs, NEW c \in Seq(Library!Choices),
         NEW ch \in Library!Choices, NEW t,
         Library!IsRefinement(s0, c), Library!Commits(Library!Replay(s0, c), ch, t)
  PROVE  /\ Append(c, ch) \in Seq(Library!Choices)
         /\ Library!IsRefinement(s0, Append(c, ch))
         /\ Library!Replay(s0, Append(c, ch)) = t
<1> DEFINE e == Append(c, ch)
           m == Len(c)
<1>1. /\ e \in Seq(Library!Choices) /\ m \in Nat /\ Len(e) = m + 1
      /\ \A i \in 1..m : c[i] = e[i]
      /\ e[m+1] = ch
  OBVIOUS
<1> HIDE DEF e
<1>2. \A i \in 0..m : Library!Trail(s0, e)[i] = Library!Trail(s0, c)[i]
  BY <1>1, TrailsAgree
<1>3. Library!Trail(s0, e)[m] = Library!Replay(s0, c)
  BY <1>1, <1>2 DEF Library!Replay
<1>4. Library!Trail(s0, e)[m+1] = t
  <2>1. Library!Trail(s0, e)[m+1] = Library!After(Library!Trail(s0, e)[m], ch)
    <3>1. m + 1 \in 1..Len(e) /\ (m + 1) - 1 = m /\ Len(e) \in Nat  BY <1>1
    <3> QED  BY <1>1, <3>1, TrailIsRun
  <2> QED  BY <1>3, <2>1 DEF Library!Commits, Library!After
<1>5. ASSUME NEW n \in 1..Len(e)
      PROVE  Library!Commits(Library!Trail(s0, e)[n-1], e[n], Library!Trail(s0, e)[n])
  <2>1. CASE n = m + 1
    <3>1. n - 1 = m  BY <1>1, <2>1
    <3> QED  BY <1>1, <1>3, <1>4, <2>1, <3>1
  <2>2. CASE n # m + 1
    <3>1. n \in 1..m /\ n - 1 \in 0..m /\ n \in 0..m  BY <1>1, <2>2
    <3>2. Library!Commits(Library!Trail(s0, c)[n-1], c[n], Library!Trail(s0, c)[n])
      BY <3>1 DEF Library!IsRefinement
    <3> QED  BY <1>1, <1>2, <3>1, <3>2
  <2> QED  BY <2>1, <2>2
<1>6. Library!IsRefinement(s0, e)  BY <1>5 DEF Library!IsRefinement
<1>7. Library!Replay(s0, e) = t  BY <1>1, <1>4 DEF Library!Replay
<1> QED  BY <1>1, <1>6, <1>7 DEF e

\* The picker returns params of the library, and the names of a design are texts.
PickerProposes ==
  \A x \in Designs :
    /\ DOMAIN Given[x].vars \in SUBSET STRING
    /\ \A s : IsSpec(s) => Offers(x, s) \subseteq Proposals

\* The spec at work is the replay of a chain that the engine may have committed,
\* and one that has gone to the compiler is one it may have delivered.
SpecIsCommitted ==
  \E c \in Seq(Library!Choices) :
    /\ DocumentedAll(c)
    /\ Library!IsRefinement(Given[d], c)
    /\ spec = Library!Replay(Given[d], c)
    /\ phase # "refine" => Library!Delivers(Given[d], <<>>, c)

\* The circuit's refinement is the engine's (engine.run, bridge.py): in every
\* behaviour the spec is the result of a chain that the engine's contract
\* allows, so the two modules speak of the same specs.
THEOREM SpecCommitted ==
  LibraryTexts /\ PickerDocuments /\ PickerProposes => (Spec => []SpecIsCommitted)
<1> SUFFICES ASSUME LibraryTexts, PickerDocuments, PickerProposes
             PROVE  Spec => []SpecIsCommitted
  OBVIOUS
<1>1. \A x \in Designs : Given[x] \in EngineSpecs
  BY DesignAssumption, EngineSpecsAre DEF PickerProposes, IsFresh
<1>2. Init => SpecIsCommitted
  <2> SUFFICES ASSUME Init  PROVE SpecIsCommitted  OBVIOUS
  <2> DEFINE c == <<>>
  <2>1. c \in Seq(Library!Choices) /\ DOMAIN c = {} /\ Len(c) = 0 /\ 1..Len(c) = {}
    OBVIOUS
  <2> HIDE DEF c
  <2>2. Library!Replay(Given[d], c) = Given[d]  BY <2>1, TrailIsRun DEF Library!Replay
  <2>3. Library!IsRefinement(Given[d], c) /\ DocumentedAll(c)
    BY <2>1 DEF Library!IsRefinement, DocumentedAll
  <2> QED  BY <2>1, <2>2, <2>3 DEF Init, SpecIsCommitted
<1>3. SInv /\ SpecIsCommitted /\ [Next]_vars => SpecIsCommitted'
  <2> SUFFICES ASSUME SInv, SpecIsCommitted, [Next]_vars  PROVE SpecIsCommitted'  OBVIOUS
  <2>1. PICK c \in Seq(Library!Choices) :
          /\ DocumentedAll(c) /\ Library!IsRefinement(Given[d], c)
          /\ spec = Library!Replay(Given[d], c)
          /\ phase # "refine" => Library!Delivers(Given[d], <<>>, c)
    BY DEF SpecIsCommitted
  <2>2. CASE \E p \in Offers(d, spec) : Refine(p)
    <3>1. PICK p \in Offers(d, spec) : Refine(p)  BY <2>2
    <3> DEFINE ch == <<p.rule, p>>
               e == Append(c, ch)
    <3>2. /\ IsChoice(p) /\ p \in Proposals /\ p.rule \in RuleNames
          /\ ch[1] = p.rule /\ ch[2] = p /\ d' = d /\ phase' = "refine"
      BY <3>1 DEF SInv, PickerDocuments, PickerProposes, IsChoice, Refine
    <3>3. ch \in Library!Choices /\ Documented(ch)
      BY <3>2 DEF Library!Choices, Documented
    <3> HIDE DEF ch
    <3>4. d \in Designs /\ spec \in EngineSpecs
      BY <1>1, <2>1, ReplayIsSpec DEF SInv
    <3>5. Refines(ch[2], spec, spec')  BY <3>1, <3>2 DEF Refine
    <3>6. Library!Commits(Library!Replay(Given[d], c), ch, spec')
      BY <2>1, <3>3, <3>4, <3>5, CommitsRefines DEF Library!Choices
    <3>7. /\ e \in Seq(Library!Choices) /\ Library!IsRefinement(Given[d], e)
          /\ Library!Replay(Given[d], e) = spec'
      BY <1>1, <2>1, <3>3, <3>4, <3>6, ChainGrows
    <3>8. DocumentedAll(e)
      <4>1. /\ DOMAIN c = 1..Len(c) /\ DOMAIN e = 1..Len(c)+1 /\ Len(c) \in Nat
            /\ e[Len(c)+1] = ch /\ \A n \in 1..Len(c) : e[n] = c[n]
        BY <3>3, SeqIs
      <4>2. \A n \in DOMAIN e : n = Len(c)+1 \/ n \in 1..Len(c)  BY <4>1
      <4> HIDE DEF e
      <4> QED  BY <2>1, <3>3, <4>1, <4>2 DEF DocumentedAll
    <3> HIDE DEF e
    <3> QED  BY <3>2, <3>7, <3>8 DEF SpecIsCommitted
  <2>3. CASE d' = d /\ spec' = spec /\ (phase' # "refine" => IsRtlStyle(spec))
    <3>1. Library!Delivers(Given[d], <<>>, c) <=> IsRtlStyle(spec)
      <4>1. Given[d] \in EngineSpecs  BY <1>1 DEF SInv
      <4>2. spec \in EngineSpecs  BY <2>1, <4>1, ReplayIsSpec
      <4>3. Library!Extends(c, <<>>)  BY DEF Library!Extends
      <4> QED  BY <2>1, <4>2, <4>3 DEF Library!Delivers, Library!Leaves
    <3> QED  BY <2>1, <2>3, <3>1 DEF SpecIsCommitted
  <2>4. CASE Compile  BY <2>3, <2>4 DEF Compile
  <2>5. phase # "refine" => IsRtlStyle(spec)
    BY <2>1 DEF Library!Delivers
  <2>6. CASE UNCHANGED vars  BY <2>3, <2>5, <2>6 DEF vars
  <2>7. CASE AssertReset  BY <2>3, <2>5, <2>7 DEF AssertReset
  <2>8. CASE DeassertReset  BY <2>3, <2>5, <2>8 DEF DeassertReset
  <2>9. CASE \E in \in Stimuli[d] : Vector(in) \/ ResetVector(in)
    <3>1. d' = d /\ spec' = spec /\ phase # "refine"  BY <2>9 DEF Vector, ResetVector
    <3> QED  BY <2>3, <2>5, <3>1
  <2> QED  BY <2>2, <2>4, <2>6, <2>7, <2>8, <2>9 DEF Next
<1>4. Init => SInv  BY SInvInit
<1>5. SInv /\ [Next]_vars => SInv'  BY StepKeeps
<1> QED  BY <1>2, <1>3, <1>4, <1>5, PTL DEF Spec
=============================================================================
