------------------------- MODULE VectorCheck_proof --------------------------
(***************************************************************************)
(* The verdict of Stage 4, for every spec, every expression and every list *)
(* of vectors.  The invariant says that the simulated history is what the  *)
(* simulator's harness does, that a derived bench expects that history,    *)
(* and that correct RTL repeats it as long as the two harnesses drive      *)
(* alike.                                                                  *)
(***************************************************************************)
EXTENDS VectorCheck, Composition_proof

\* A derived bench is at work.
Judging == bench.by # "agent1" /\ phase \in {"bench", "passed", "failed"}

Shape ==
  /\ c \in Cases
  /\ n \in Nat /\ n <= Len(Vectors)
  /\ bench = [by |-> bench.by, vectors |-> bench.vectors]
  /\ IsVectors(Vectors)
  /\ NamedInputs(Vectors) \subseteq DOMAIN Summary[c].inputs
  /\ job \in {"directed", "soak"}
  /\ bench.by = "soak" <=> job = "soak"
  /\ phase = "derive" /\ job = "directed" => bench.by = "agent1"
  /\ bench.by = "agent1" => Vectors = Summary[c].vectors

\* The first k vectors are simulated.
Recorded(k) ==
  /\ model[0] = ModelPulse(c, NamedInputs(Vectors))
  /\ \A i \in 1..k : model[i] = ModelEdge(Refined[c], model[i - 1], Vectors[i])

Expects ==
  /\ Len(Vectors) > 0
  /\ Recorded(Len(Vectors))
  /\ NotDegenerate
  /\ \A i \in 1..Len(Vectors) : Vectors[i].expected = Row(model[i])

Shown == \A i \in 1..n : (phase = "failed" /\ i = n) \/ Shows(dut[i], Vectors[i])

\* The RTL went where the simulated spec went.
InStep ==
  /\ \A i \in 0..n : dut[i] = model[i]
  /\ line = "on" <=> (n > 0 /\ Vectors[n].reset = "on")

Listed ==
  /\ Len(Vectors) = Len(Summary[c].vectors)
  /\ \A i \in 1..Len(Vectors) : \A p \in Outputs :
       Disagree(p, Summary[c].vectors[i].expected, Row(model[i])) => <<i, p>> \in report

IInv ==
  /\ Shape
  /\ phase = "derive" => Recorded(n)
  /\ Judging => Expects /\ Shown
  /\ Judging /\ Correct(c) /\ DrivenAlike(Vectors) => phase # "failed" /\ InStep
  /\ bench.by = "spec" /\ Judging => Listed

-----------------------------------------------------------------------------
(* The derived vectors drive what the vectors drove. *)

LEMMA FunctionIsSequence ==
  ASSUME NEW k \in Nat, NEW f, f = [i \in 1..k |-> f[i]]
  PROVE  f \in Seq(Range(f)) /\ Len(f) = k
<1>1. f \in [1..k -> Range(f)]
  BY DEF Range
<1> QED BY <1>1

LEMMA VectorsLength ==
  ASSUME NEW vs, IsVectors(vs)
  PROVE  Len(vs) \in Nat /\ DOMAIN vs = 1..Len(vs)
BY DEF IsVectors

\* Two lists of vectors that differ in what they expect only.
Alike(vs, ws) ==
  /\ Len(vs) = Len(ws)
  /\ \A i \in 1..Len(vs) : vs[i].drive = ws[i].drive /\ vs[i].reset = ws[i].reset

LEMMA DerivedIsAlike ==
  ASSUME IsVectors(Vectors)
  PROVE  /\ IsVectors(Derived)
         /\ Alike(Derived, Vectors)
         /\ \A i \in 1..Len(Vectors) : Derived[i].expected = Row(model[i])
<1>1. Len(Vectors) \in Nat
  BY VectorsLength
<1>2. Derived \in Seq(Range(Derived)) /\ Len(Derived) = Len(Vectors)
  <2>1. Derived = [i \in 1..Len(Vectors) |-> Derived[i]]
    BY DEF Derived
  <2> QED BY <1>1, <2>1, FunctionIsSequence
<1>3. ASSUME NEW i \in 1..Len(Vectors)
      PROVE  Derived[i] = [drive |-> Vectors[i].drive, reset |-> Vectors[i].reset,
                           expected |-> Row(model[i])]
  <2>1. Vectors[i] = [drive |-> Vectors[i].drive, reset |-> Vectors[i].reset,
                      expected |-> Vectors[i].expected]
    BY DEF IsVectors, IsVector
  <2>2. Derived[i] = [Vectors[i] EXCEPT !.expected = Row(model[i])]
    BY DEF Derived
  <2> QED BY <2>1, <2>2
<1>4. ASSUME NEW i \in 1..Len(Vectors)
      PROVE  /\ IsVector(Derived[i])
             /\ Derived[i].drive = Vectors[i].drive /\ Derived[i].reset = Vectors[i].reset
             /\ Derived[i].expected = Row(model[i])
  <2>1. Derived[i] = [drive |-> Vectors[i].drive, reset |-> Vectors[i].reset,
                      expected |-> Row(model[i])]
    BY <1>3
  <2>2. /\ Derived[i].drive = Vectors[i].drive /\ Derived[i].reset = Vectors[i].reset
        /\ Derived[i].expected = Row(model[i])
    BY <2>1
  <2>3. IsVector(Derived[i])
    BY <2>1, <2>2 DEF IsVector
  <2> QED BY <2>2, <2>3
<1>5. IsVectors(Derived)
  BY <1>2, <1>4 DEF IsVectors
<1>6. Alike(Derived, Vectors)
  BY <1>2, <1>4 DEF Alike
<1> QED BY <1>4, <1>5, <1>6

LEMMA AlikeDrives ==
  ASSUME NEW vs, NEW ws, IsVectors(vs), IsVectors(ws), Alike(vs, ws)
  PROVE  /\ NamedInputs(vs) = NamedInputs(ws)
         /\ PreInit(vs) = PreInit(ws)
         /\ DrivenAlike(vs) <=> DrivenAlike(ws)
<1>1. /\ DOMAIN vs = 1..Len(vs) /\ DOMAIN ws = DOMAIN vs /\ Len(vs) \in Nat
      /\ \A i \in 1..Len(vs) : vs[i].drive = ws[i].drive /\ vs[i].reset = ws[i].reset
  BY VectorsLength DEF Alike
<1>2. NamedInputs(vs) = NamedInputs(ws)
  BY <1>1 DEF NamedInputs
<1>3. PreInit(vs) = PreInit(ws)
  BY <1>1, <1>2 DEF PreInit
<1>4. \A i \in 1..Len(vs) : i > 1 => i - 1 \in 1..Len(vs)
  BY <1>1
<1> QED BY <1>1, <1>2, <1>3, <1>4 DEF DrivenAlike, Alike

LEMMA StimuliAreVectors ==
  ASSUME NEW vs \in Stimuli
  PROVE  /\ IsVectors(vs) /\ Len(vs) = SoakCycles
         /\ NamedInputs(vs) \subseteq DOMAIN Summary[c].inputs
<1>1. SoakCycles \in Nat
  BY SummaryAssumption
<1>2. vs = [i \in 1..SoakCycles |-> vs[i]]
  BY DEF Stimuli
<1>3. vs \in Seq(Range(vs)) /\ Len(vs) = SoakCycles
  BY <1>1, <1>2, FunctionIsSequence
<1>4. ASSUME NEW i \in 1..SoakCycles PROVE IsVector(vs[i])
  BY DEF Stimuli, IsVector
<1>5. ASSUME NEW i \in 1..SoakCycles PROVE DOMAIN vs[i].drive = DOMAIN Summary[c].inputs
  BY DEF Stimuli
<1>6. DOMAIN vs = 1..SoakCycles
  BY <1>2
<1> QED BY <1>3, <1>4, <1>5, <1>6 DEF IsVectors, NamedInputs

-----------------------------------------------------------------------------
\* Derived, adopted and powered up: nothing is driven yet, and the RTL starts
\* where the simulated spec started.
LEMMA PoweredUp ==
  ASSUME IInv, Simulated, NotDegenerate, UNCHANGED <<c, model>>,
         PowerUp(Vectors), bench'.vectors = Derived,
         bench' = [by |-> bench'.by, vectors |-> bench'.vectors]
  PROVE  /\ n' = 0 /\ phase' = "bench"
         /\ IsVectors(Vectors') /\ Len(Vectors') = Len(Vectors)
         /\ NamedInputs(Vectors') = NamedInputs(Vectors)
         /\ Expects' /\ Shown'
         /\ Correct(c) /\ DrivenAlike(Vectors)' => InStep'
<1> USE DEF Vectors
<1>1. /\ IsVectors(Vectors) /\ Recorded(Len(Vectors)) /\ c \in Cases /\ Len(Vectors) \in Nat
      /\ NamedInputs(Vectors) \subseteq DOMAIN Summary[c].inputs
  BY VectorsLength DEF IInv, Shape, Simulated
<1>2. /\ IsVectors(Derived) /\ Alike(Derived, Vectors)
      /\ \A i \in 1..Len(Vectors) : Derived[i].expected = Row(model[i])
  BY <1>1, DerivedIsAlike
<1>3. /\ NamedInputs(Derived) = NamedInputs(Vectors)
      /\ PreInit(Derived) = PreInit(Vectors)
      /\ DrivenAlike(Derived) <=> DrivenAlike(Vectors)
  BY <1>1, <1>2, AlikeDrives
<1>4. n' = 0 /\ phase' = "bench" /\ Vectors' = Derived /\ Len(Vectors') = Len(Vectors)
  BY <1>2 DEF PowerUp, Alike
<1>5. Recorded(Len(Vectors))'
  <2>1. ASSUME NEW i \in 1..Len(Vectors)
        PROVE  ModelEdge(Refined[c], model[i - 1], Derived[i])
                 = ModelEdge(Refined[c], model[i - 1], Vectors[i])
    BY <1>2 DEF Alike, ModelEdge, Coerced
  <2> QED BY <1>1, <1>3, <1>4, <2>1 DEF Recorded
<1>6. NotDegenerate'
  BY <1>4 DEF NotDegenerate, Outputs
<1>7. Expects'
  BY <1>2, <1>4, <1>5, <1>6 DEF Expects, Row, Outputs, Simulated
<1>8. Shown'
  BY <1>4 DEF Shown
<1>9. ASSUME Correct(c), DrivenAlike(Vectors)' PROVE InStep'
  <2>1. DrivenAlike(Vectors)
    BY <1>3, <1>4, <1>9 DEF DrivenAlike
  <2>2. Summary[c].reset /\ PreInit(Vectors) = NamedInputs(Vectors)
    BY <2>1 DEF DrivenAlike
  <2>3. dut'[0] = BenchPulse(c, NamedInputs(Vectors)) /\ line' = "off"
    BY <2>2 DEF PowerUp
  <2>4. BenchPulse(c, NamedInputs(Vectors)) = ModelPulse(c, NamedInputs(Vectors))
    BY <1>1, <1>9, <2>2, WarmUpAssumption
  <2>5. dut'[0] = model'[0]
    BY <1>1, <2>3, <2>4 DEF Recorded
  <2> QED BY <1>4, <2>3, <2>5 DEF InStep
<1> QED BY <1>2, <1>3, <1>4, <1>7, <1>8, <1>9

-----------------------------------------------------------------------------
LEMMA InitInv == Init => IInv
<1> SUFFICES ASSUME Init PROVE IInv
  OBVIOUS
<1> USE DEF Vectors
<1>1. Vectors = Summary[c].vectors /\ c \in Cases /\ n = 0 /\ bench.by = "agent1"
  BY DEF Init
<1>2. IsVectors(Vectors) /\ NamedInputs(Vectors) \subseteq DOMAIN Summary[c].inputs
  BY <1>1, SummaryAssumption
<1>3. Shape
  BY <1>1, <1>2, VectorsLength DEF Init, Shape
<1>4. Recorded(n)
  BY <1>1 DEF Init, Recorded
<1> QED BY <1>1, <1>3, <1>4 DEF IInv, Judging

LEMMA SimulateInv == IInv /\ Simulate => IInv'
<1> SUFFICES ASSUME IInv, Simulate PROVE IInv'
  OBVIOUS
<1> USE DEF Vectors
<1>1. /\ Shape /\ Recorded(n) /\ n \in Nat /\ n < Len(Vectors) /\ Len(Vectors) \in Nat
      /\ n' = n + 1 /\ phase = "derive" /\ phase' = phase /\ UNCHANGED <<c, job, bench>>
  BY VectorsLength DEF IInv, Shape, Simulate
<1>2. Shape'
  BY <1>1 DEF Shape
<1>3. \A i \in 0..n : model'[i] = model[i]
  BY <1>1 DEF Simulate, Extend
<1>4. model'[n + 1] = ModelEdge(Refined[c], model[n], Vectors[n + 1])
  BY <1>1 DEF Simulate, Extend
<1>5. ASSUME NEW i \in 1..n + 1
      PROVE  model'[i] = ModelEdge(Refined[c], model'[i - 1], Vectors[i])
  <2>1. CASE i = n + 1
    BY <1>1, <1>3, <1>4, <2>1
  <2>2. CASE i # n + 1
    <3>1. i \in 1..n /\ i \in 0..n /\ i - 1 \in 0..n
      BY <1>1, <2>2
    <3> QED BY <1>1, <1>3, <3>1 DEF Recorded
  <2> QED BY <2>1, <2>2
<1>6. Recorded(n)'
  BY <1>1, <1>3, <1>5 DEF Recorded
<1> QED BY <1>1, <1>2, <1>6 DEF IInv, Judging

LEMMA AdoptInv == IInv /\ Adopt => IInv'
<1> SUFFICES ASSUME IInv, Adopt PROVE IInv'
  OBVIOUS
<1> USE DEF Vectors
<1>1. /\ UNCHANGED <<c, job, model>> /\ Simulated /\ NotDegenerate /\ PowerUp(Vectors)
      /\ bench' = [by |-> "spec", vectors |-> Derived] /\ job = "directed"
      /\ bench'.by = "spec" /\ bench'.vectors = Derived /\ report' = Compare
  BY DEF Adopt
<1>2. bench' = [by |-> bench'.by, vectors |-> bench'.vectors]
  BY <1>1
<1>3. /\ n' = 0 /\ phase' = "bench"
      /\ IsVectors(Vectors') /\ Len(Vectors') = Len(Vectors)
      /\ NamedInputs(Vectors') = NamedInputs(Vectors)
      /\ Expects' /\ Shown'
      /\ Correct(c) /\ DrivenAlike(Vectors)' => InStep'
  BY <1>1, <1>2, PoweredUp
<1>4. /\ Shape /\ Vectors = Summary[c].vectors /\ Len(Vectors) \in Nat
  BY <1>1, VectorsLength DEF IInv, Shape, Simulated
<1>5. Shape'
  BY <1>1, <1>2, <1>3, <1>4 DEF Shape
<1>6. Listed'
  <2>1. ASSUME NEW i \in 1..Len(Vectors), NEW p \in Outputs,
               Disagree(p, Summary[c].vectors[i].expected, Row(model[i]))
        PROVE  <<i, p>> \in Compare
    <3>1. <<i, p>>[1] = i /\ <<i, p>>[2] = p /\ <<i, p>> \in (1..Len(Vectors)) \X Outputs
      OBVIOUS
    <3> QED BY <1>4, <2>1, <3>1 DEF Compare
  <2>2. Outputs' = Outputs /\ \A i \in 1..Len(Vectors) : Row(model[i])' = Row(model[i])
    BY <1>1 DEF Outputs, Row
  <2> QED BY <1>1, <1>3, <1>4, <2>1, <2>2 DEF Listed, Row, Outputs
<1> QED BY <1>1, <1>3, <1>5, <1>6 DEF IInv, Correct

LEMMA SoakBenchInv == IInv /\ SoakBench => IInv'
<1> SUFFICES ASSUME IInv, SoakBench PROVE IInv'
  OBVIOUS
<1> USE DEF Vectors
<1>1. /\ UNCHANGED <<c, job, model>> /\ Simulated /\ NotDegenerate /\ PowerUp(Vectors)
      /\ job = "soak" /\ bench' = [bench EXCEPT !.vectors = Derived] /\ Shape
  BY DEF SoakBench, IInv
<1>2. /\ bench.by = "soak" /\ bench = [by |-> bench.by, vectors |-> bench.vectors]
  BY <1>1 DEF Shape
<1>3. bench' = [by |-> bench'.by, vectors |-> bench'.vectors] /\ bench'.by = "soak"
      /\ bench'.vectors = Derived
  BY <1>1, <1>2
<1>4. /\ n' = 0 /\ phase' = "bench"
      /\ IsVectors(Vectors') /\ Len(Vectors') = Len(Vectors)
      /\ NamedInputs(Vectors') = NamedInputs(Vectors)
      /\ Expects' /\ Shown'
      /\ Correct(c) /\ DrivenAlike(Vectors)' => InStep'
  BY <1>1, <1>3, PoweredUp
<1>5. Shape'
  BY <1>1, <1>3, <1>4, VectorsLength DEF Shape
<1> QED BY <1>1, <1>3, <1>4, <1>5 DEF IInv, Correct

LEMMA FallBackInv == IInv /\ FallBack => IInv'
<1> SUFFICES ASSUME IInv, FallBack PROVE IInv'
  OBVIOUS
<1> USE DEF Vectors
<1>1. /\ Shape /\ bench.by = "agent1" /\ n' = 0 /\ phase' = "bench"
      /\ UNCHANGED <<c, job, bench>> /\ Len(Vectors) \in Nat
  BY VectorsLength DEF IInv, Shape, FallBack, PowerUp
<1>2. Shape'
  BY <1>1 DEF Shape
<1> QED BY <1>1, <1>2 DEF IInv, Judging

LEMMA DriveInv == IInv /\ Drive => IInv'
<1> SUFFICES ASSUME IInv, Drive PROVE IInv'
  OBVIOUS
<1> USE DEF Vectors
<1> DEFINE v == Vectors[n + 1]
           e == BenchEdge(Rtl[c], dut[n], v)
<1>1. /\ Shape /\ n \in Nat /\ n < Len(Vectors) /\ Len(Vectors) \in Nat
      /\ phase = "bench" /\ n' = n + 1
      /\ UNCHANGED <<c, job, bench, model, report>>
      /\ dut' = Extend(dut, n + 1, e) /\ line' = Level(v)
      /\ phase' = IF Shows(e, v) THEN "bench" ELSE "failed"
  BY VectorsLength DEF IInv, Shape, Drive
<1> HIDE DEF v, e
<1>2. Shape'
  BY <1>1 DEF Shape
<1>3. /\ \A i \in 0..n : dut'[i] = dut[i]
      /\ dut'[n + 1] = e
  BY <1>1 DEF Extend
<1>4. ASSUME Judging PROVE Expects'
  <2>1. Expects
    BY <1>4 DEF IInv
  <2>2. Vectors' = Vectors /\ Outputs' = Outputs /\ c' = c /\ model' = model
    BY <1>1 DEF Outputs
  <2>3. Recorded(Len(Vectors))' /\ NotDegenerate'
    BY <2>1, <2>2 DEF Expects, Recorded, NotDegenerate
  <2>4. \A i \in 1..Len(Vectors) : Row(model[i])' = Row(model[i])
    BY <2>2 DEF Row
  <2> HIDE DEF Vectors
  <2> QED BY <2>1, <2>2, <2>3, <2>4 DEF Expects
<1>5. ASSUME Judging PROVE Shown'
  <2>1. \A i \in 1..n : Shows(dut[i], Vectors[i])
    BY <1>1, <1>5 DEF IInv, Shown
  <2>2. ASSUME NEW i \in 1..n + 1, i # n + 1 PROVE Shows(dut'[i], Vectors[i])
    <3>1. i \in 1..n /\ i \in 0..n
      BY <1>1, <2>2
    <3> QED BY <1>3, <2>1, <3>1
  <2>3. phase' = "failed" \/ Shows(dut'[n + 1], Vectors[n + 1])
    BY <1>1, <1>3 DEF v
  <2> QED BY <1>1, <2>2, <2>3 DEF Shown
<1>6. ASSUME Judging, Correct(c), DrivenAlike(Vectors)
      PROVE  phase' # "failed" /\ InStep'
  <2>1. Expects /\ InStep
    BY <1>6 DEF IInv
  <2>2. Level(v) = "on" <=> v.reset = "on"
    <3>0. None # "on" /\ n \in Nat
      BY <1>1, SummaryAssumption
    <3>1. CASE v.reset # None
      BY <3>1 DEF Level
    <3>2. CASE v.reset = None /\ n = 0
      <4>1. line # "on"
        BY <2>1, <3>2 DEF InStep
      <4> QED BY <3>0, <3>2, <4>1 DEF Level
    <3>3. CASE v.reset = None /\ n > 0
      <4>1. n + 1 \in 1..Len(Vectors) /\ n + 1 > 1 /\ (n + 1) - 1 = n
        BY <1>1, <3>3
      <4>2. Vectors[n].reset # "on"
        BY <1>6, <3>3, <4>1 DEF DrivenAlike, v
      <4>3. line # "on"
        BY <2>1, <4>2 DEF InStep
      <4> QED BY <3>0, <3>3, <4>3 DEF Level
    <3> QED BY <3>0, <3>1, <3>2, <3>3
  <2>3. dut[n] = model[n]
    BY <1>1, <2>1 DEF InStep
  <2>4. e = model[n + 1]
    <3>1. model[n + 1] = ModelEdge(Refined[c], model[(n + 1) - 1], Vectors[n + 1])
      BY <1>1, <2>1 DEF Expects, Recorded
    <3>2. (n + 1) - 1 = n
      BY <1>1
    <3> QED BY <1>6, <2>2, <2>3, <3>1, <3>2 DEF e, v, BenchEdge, ModelEdge, Correct
  <2>5. v.expected = Row(model[n + 1])
    BY <1>1, <2>1 DEF Expects, v
  <2>6. Shows(e, v)
    BY <2>4, <2>5 DEF Shows, Row
  <2>7. \A i \in 0..n + 1 : dut'[i] = model[i]
    BY <1>1, <1>3, <2>1, <2>4 DEF InStep
  <2>8. line' = "on" <=> Vectors[n + 1].reset = "on"
    BY <1>1, <2>2 DEF v
  <2> QED BY <1>1, <2>6, <2>7, <2>8 DEF InStep
<1>7. ASSUME bench.by = "spec", Judging PROVE Listed'
  BY <1>1, <1>7 DEF IInv, Listed, Row, Outputs
<1>8. Judging' => Judging
  BY <1>1 DEF Judging
<1>9. DrivenAlike(Vectors)' <=> DrivenAlike(Vectors)
  BY <1>1 DEF DrivenAlike
<1>10. phase' # "derive"
  BY <1>1
<1> QED BY <1>1, <1>2, <1>4, <1>5, <1>6, <1>7, <1>8, <1>9, <1>10 DEF IInv

LEMMA SoakInv == IInv /\ Soak => IInv'
<1> SUFFICES ASSUME IInv, Soak PROVE IInv'
  OBVIOUS
<1> USE DEF Vectors
<1>1. Shape /\ job = "directed" /\ c' = c
  BY DEF IInv, Soak
<1>2. CASE phase' = "done" /\ UNCHANGED <<job, bench, model, n>>
  BY <1>1, <1>2 DEF IInv, Shape, Judging
<1>3. ASSUME NEW vs \in Stimuli, job' = "soak", phase' = "derive",
             bench' = [by |-> "soak", vectors |-> vs], Begin(vs)
      PROVE  IInv'
  <2>1. IsVectors(vs) /\ NamedInputs(vs) \subseteq DOMAIN Summary[c].inputs
    BY StimuliAreVectors
  <2>2. bench'.by = "soak" /\ Vectors' = vs /\ n' = 0
    BY <1>3 DEF Begin
  <2>3. Shape'
    BY <1>1, <1>3, <2>1, <2>2, VectorsLength DEF Shape
  <2>4. Recorded(n)'
    BY <1>1, <1>3, <2>2 DEF Recorded, Begin
  <2> QED BY <1>3, <2>3, <2>4 DEF IInv, Judging
<1> QED BY <1>2, <1>3 DEF Soak

\* Steps that leave the vectors and both histories alone.
LEMMA QuietInv ==
  ASSUME IInv, UNCHANGED <<c, job, bench, n, model, dut, line, report>>,
         phase' # "derive",
         phase' \in {"bench", "passed", "failed"} =>
           /\ phase = "bench"
           /\ phase' = "failed" => n = 0
           /\ phase' = "failed" => n = Len(Vectors)
  PROVE  IInv'
<1> USE DEF Vectors
<1>1. Shape'
  BY DEF IInv, Shape
<1>2. Judging' => Judging
  BY DEF Judging
<1>3. Judging' => Expects' /\ Shown'
  <2>1. Judging' => Expects'
    BY <1>2 DEF IInv, Expects, Recorded, NotDegenerate, Row, Outputs
  <2>2. Judging' => Shown'
    BY <1>2 DEF IInv, Shown, Judging
  <2> QED BY <2>1, <2>2
<1>4. ASSUME Judging', Correct(c), DrivenAlike(Vectors)'
      PROVE  phase' # "failed" /\ InStep'
  <2>1. InStep /\ Expects
    BY <1>2, <1>4 DEF IInv, DrivenAlike
  <2>2. phase' # "failed"
    BY <2>1 DEF Expects
  <2> QED BY <2>1, <2>2 DEF InStep
<1>5. bench'.by = "spec" /\ Judging' => Listed'
  BY <1>2 DEF IInv, Listed, Row, Outputs
<1> QED BY <1>1, <1>3, <1>4, <1>5 DEF IInv, Correct

LEMMA StepInv == IInv /\ [Next]_vars => IInv'
<1> SUFFICES ASSUME IInv, [Next]_vars PROVE IInv'
  OBVIOUS
<1> USE DEF Vectors
<1>1. CASE Simulate
  BY <1>1, SimulateInv
<1>2. CASE Adopt
  BY <1>2, AdoptInv
<1>3. CASE FallBack
  BY <1>3, FallBackInv
<1>4. CASE Drive
  BY <1>4, DriveInv
<1>5. CASE Finish
  BY <1>5, QuietInv DEF Finish
<1>6. CASE Crash
  BY <1>6, QuietInv DEF Crash
<1>7. CASE Fail
  BY <1>7, QuietInv DEF Fail
<1>8. CASE Soak
  BY <1>8, SoakInv
<1>9. CASE SoakBench
  BY <1>9, SoakBenchInv
<1>10. CASE SkipSoak
  BY <1>10, QuietInv DEF SkipSoak
<1>11. CASE SoakVerdict
  BY <1>11, QuietInv DEF SoakVerdict
<1>12. CASE UNCHANGED vars
  <2>1. UNCHANGED <<c, job, phase, bench, n, model, dut, line, report, Outputs>>
    BY <1>12 DEF vars, Outputs
  <2>2. Shape' /\ (phase' = "derive" => Recorded(n)')
    BY <2>1 DEF IInv, Shape, Recorded
  <2>3. Judging' => Judging /\ Expects' /\ Shown'
    BY <2>1 DEF IInv, Judging, Expects, Shown, Recorded, NotDegenerate, Row
  <2>4. Judging' /\ Correct(c)' /\ DrivenAlike(Vectors)' => phase' # "failed" /\ InStep'
    BY <2>1, <2>3 DEF IInv, InStep, DrivenAlike, Correct
  <2>5. bench'.by = "spec" /\ Judging' => Listed'
    BY <2>1, <2>3 DEF IInv, Listed, Row
  <2> QED BY <2>2, <2>3, <2>4, <2>5 DEF IInv
<1> QED BY <1>1, <1>2, <1>3, <1>4, <1>5, <1>6, <1>7, <1>8, <1>9, <1>10, <1>11, <1>12 DEF Next

\* The bench passes after its last vector only.
PassFinished == phase = "passed" => n = Len(Vectors)

LEMMA Finished == Spec => []PassFinished
<1> USE DEF PassFinished, Vectors
<1>1. Init => PassFinished
  BY DEF Init
<1>2. PassFinished /\ [Next]_vars => PassFinished'
  BY DEF Next, vars, Simulate, Adopt, FallBack, PowerUp, Drive, Finish, Crash, Fail, Soak,
         Begin, SoakBench, SkipSoak, SoakVerdict
<1> QED BY <1>1, <1>2, PTL DEF Spec

\* The invariant holds: histories, derived benches and correct RTL agree.
THEOREM Invariant == Spec => []IInv
BY InitInv, StepInv, PTL DEF Spec

\* RTL that does what the refined spec does is never failed by a bench derived
\* from it, be it the directed one or a soak, for every spec, every meaning of
\* its expressions and every list of vectors that the two harnesses drive
\* alike (vector_check.py, soak.py).
THEOREM NeverFalselyRed == Spec => []NoFalseRed
<1>1. IInv => NoFalseRed
  BY DEF IInv, NoFalseRed, Judging
<1> QED BY <1>1, Invariant, PTL

\* RTL that passes a derived bench matched the simulated spec wherever that is
\* defined, and no output went through unasserted; here the RTL may do
\* anything (the guard of vector_check.py against a degenerate reference).
THEOREM PassesOnlyMatches == Spec => []PassMeansMatched
<1>1. IInv /\ PassFinished => PassMeansMatched
  <2> SUFFICES ASSUME IInv, PassFinished, phase = "passed", bench.by # "agent1",
                      NEW p \in Outputs
               PROVE  /\ \A i \in 1..n : model[i].sig[p] # X => dut[i].sig[p] = model[i].sig[p]
                      /\ \E i \in 1..n : dut[i].sig[p] # X
    BY DEF PassMeansMatched
  <2>1. Expects /\ Shown /\ n = Len(Vectors)
    BY DEF IInv, Judging, PassFinished
  <2>2. ASSUME NEW i \in 1..n, model[i].sig[p] # X PROVE dut[i].sig[p] = model[i].sig[p]
    <3>1. Shows(dut[i], Vectors[i])
      BY <2>1 DEF Shown
    <3>2. Vectors[i].expected = Row(model[i])
      BY <2>1 DEF Expects
    <3>3. p \in DOMAIN Row(model[i]) /\ Row(model[i])[p] = model[i].sig[p]
      BY <2>2 DEF Row
    <3> QED BY <3>1, <3>2, <3>3 DEF Shows
  <2>3. \E i \in 1..n : model[i].sig[p] # X
    BY <2>1 DEF Expects, NotDegenerate
  <2> QED BY <2>2, <2>3
<1> QED BY <1>1, Invariant, Finished, PTL

\* When the RTL passes where Agent 1's own bench would have failed it, the
\* report lists every vector and output at which it would have.
THEOREM DisagreementsListed == Spec => []DisagreementSurfaced
<1>1. IInv /\ PassFinished => DisagreementSurfaced
  <2> SUFFICES ASSUME IInv, PassFinished, phase = "passed", bench.by = "spec",
                      NEW i \in 1..n, NEW p \in Outputs,
                      p \in DOMAIN Summary[c].vectors[i].expected,
                      Summary[c].vectors[i].expected[p] # dut[i].sig[p]
               PROVE  <<i, p>> \in report
    BY DEF DisagreementSurfaced
  <2>1. Expects /\ Shown /\ Listed /\ n = Len(Vectors)
    BY DEF IInv, Judging, PassFinished
  <2>2. Shows(dut[i], Vectors[i]) /\ Vectors[i].expected = Row(model[i])
    BY <2>1 DEF Expects, Shown
  <2>3. Disagree(p, Summary[c].vectors[i].expected, Row(model[i]))
    BY <2>2 DEF Disagree, Shows
  <2> QED BY <2>1, <2>3 DEF Listed
<1> QED BY <1>1, Invariant, Finished, PTL
-----------------------------------------------------------------------------
(* The histories are as long as the work done, and fit *)

Ports == DOMAIN Summary[c].inputs

Typed ==
  /\ phase \in {"derive", "bench", "passed", "failed", "crashed", "done"}
  /\ bench.by \in {"agent1", "spec", "soak"}
  /\ line \in {"on", "off", None}
  /\ eval = [status |-> eval.status, disagreements |-> eval.disagreements, soak |-> eval.soak]
  /\ eval.status \in {"absent", "success", "error"}
  /\ \A i \in 1..Len(Vectors) : IsDriven(Vectors[i])

Modelled ==
  /\ phase = "derive" => DOMAIN model = 0..n
  /\ bench.by # "agent1" /\ phase # "derive" /\ phase # "done" =>
       DOMAIN model = 0..Len(Vectors)
  /\ \A i \in DOMAIN model : model[i] \in Envs(Refined[c], Ports)

Driven ==
  /\ phase \in {"bench", "passed", "failed"} => DOMAIN dut = 0..n
  /\ \A i \in DOMAIN dut : dut[i] \in Envs(Rtl[c], Ports)

TInv == Typed /\ Modelled /\ Driven

LEMMA EdgesFit ==
  ASSUME Evaluates, NEW s, IsSpec(s), NEW I, NEW e \in Envs(s, I),
         NEW v, IsDriven(v), DOMAIN v.drive \subseteq I
  PROVE  /\ ClockEdge(s, e, Coerced(v)) \in Envs(s, I)
         /\ ResetEdge(s, e, Coerced(v)) \in Envs(s, I)
<1> DEFINE J == DOMAIN v.drive
<1>1. Coerced(v) \in [J -> Cells]  BY DEF Coerced, IsDriven, Cells
<1> HIDE DEF J
<1>2. J \subseteq I  BY DEF J
<1> QED  BY <1>1, <1>2, ClockEdgeKeeps, ResetEdgeKeeps

LEMMA ModelPulseFits ==
  ASSUME Evaluates, NEW x \in Cases, NEW names \in SUBSET DOMAIN Summary[x].inputs
  PROVE  ModelPulse(x, names) \in Envs(Refined[x], DOMAIN Summary[x].inputs)
<1> DEFINE s == Refined[x]
           I == DOMAIN Summary[x].inputs
           off == PowerOn(s, I)
<1>1. IsSpec(s)  BY CaseAssumption
<1>2. off = Blank(s, I)  BY DEF PowerOn, Blank, Scalars, Memories
<1>3. Zero(names) \in [names -> Cells] /\ names \subseteq I  BY DEF Zero, Cells
<1>4. ModelPulse(x, names) = ClockEdge(s, ResetEdge(s, off, Zero(names)), Zero(names))
  BY DEF ModelPulse
<1> HIDE DEF s, I, off
<1>5. off \in Envs(s, I)  BY <1>1, <1>2, BlankIs
<1>6. ResetEdge(s, off, Zero(names)) \in Envs(s, I)  BY <1>1, <1>3, <1>5, ResetEdgeKeeps
<1>7. ModelPulse(x, names) \in Envs(s, I)  BY <1>1, <1>3, <1>4, <1>6, ClockEdgeKeeps
<1> QED  BY <1>7 DEF s, I

LEMMA OffFits ==
  ASSUME NEW x \in Cases
  PROVE  Off(x) \in Envs(Rtl[x], DOMAIN Summary[x].inputs)
<1>1. Off(x) = Blank(Rtl[x], DOMAIN Summary[x].inputs)
  BY DEF Off, PowerOn, Blank, Scalars, Memories
<1>2. IsSpec(Rtl[x])  BY CaseAssumption
<1> QED  BY <1>1, <1>2, BlankIs

LEMMA BenchPulseFits ==
  ASSUME Evaluates, NEW x \in Cases, NEW names \in SUBSET DOMAIN Summary[x].inputs
  PROVE  BenchPulse(x, names) \in Envs(Rtl[x], DOMAIN Summary[x].inputs)
<1> DEFINE s == Rtl[x]
           I == DOMAIN Summary[x].inputs
           warm == ClockEdge(s, Off(x), Zero(names))
<1>1. IsSpec(s) /\ Off(x) \in Envs(s, I)  BY CaseAssumption, OffFits
<1>2. Zero(names) \in [names -> Cells] /\ names \subseteq I  BY DEF Zero, Cells
<1>3. \/ BenchPulse(x, names) = ClockEdge(s, ResetEdge(s, warm, Zero(names)), Zero(names))
      \/ BenchPulse(x, names) = warm
  BY DEF BenchPulse
<1> HIDE DEF s, I
<1>4. warm \in Envs(s, I)  BY <1>1, <1>2, ClockEdgeKeeps
<1> HIDE DEF warm
<1>5. ResetEdge(s, warm, Zero(names)) \in Envs(s, I)  BY <1>1, <1>2, <1>4, ResetEdgeKeeps
<1>6. ClockEdge(s, ResetEdge(s, warm, Zero(names)), Zero(names)) \in Envs(s, I)
  BY <1>1, <1>2, <1>5, ClockEdgeKeeps
<1>7. BenchPulse(x, names) \in Envs(s, I)  BY <1>3, <1>4, <1>6
<1> QED  BY <1>7 DEF s, I

LEMMA ExtendIs ==
  ASSUME NEW h, NEW k \in Nat, DOMAIN h = 0..k, NEW e, NEW S,
         \A i \in DOMAIN h : h[i] \in S, e \in S
  PROVE  /\ DOMAIN Extend(h, k + 1, e) = 0..k + 1
         /\ \A i \in 0..k + 1 : Extend(h, k + 1, e)[i] \in S
BY DEF Extend

LEMMA NamedIs ==
  ASSUME NEW vs, IsVectors(vs), NEW i \in 1..Len(vs)
  PROVE  DOMAIN vs[i].drive \subseteq NamedInputs(vs)
BY VectorsLength DEF NamedInputs

\* The random vectors drive ints.
LEMMA StimuliDrive ==
  ASSUME NEW vs \in Stimuli
  PROVE  \A i \in 1..Len(vs) : IsDriven(vs[i])
<1>1. Len(vs) = SoakCycles  BY StimuliAreVectors
<1> SUFFICES ASSUME NEW i \in 1..SoakCycles  PROVE IsDriven(vs[i])  BY <1>1
<1>2. vs[i].reset = None  BY DEF Stimuli
<1>3. ASSUME NEW j \in DOMAIN vs[i].drive  PROVE vs[i].drive[j].n \in Int
  <2> DEFINE ins == Summary[c].inputs
             Value(w) == [n : 0..2^w - 1, plain : {TRUE}]
  <2>1. /\ DOMAIN vs[i].drive = DOMAIN ins
        /\ \A k \in DOMAIN ins : vs[i].drive[k] \in Value(ins[k])
    BY DEF Stimuli
  <2>2. \A w : \A x \in Value(w) : x.n \in Int  OBVIOUS
  <2> HIDE DEF Value
  <2> QED  BY <2>1, <2>2
<1> QED  BY <1>2, <1>3 DEF IsDriven
-----------------------------------------------------------------------------
LEMMA TypedInit == ASSUME Evaluates, Init  PROVE TInv
<1> USE DEF Vectors
<1> DEFINE names == NamedInputs(Summary[c].vectors)
<1>1. c \in Cases /\ names \in SUBSET Ports  BY SummaryAssumption DEF Init, Ports
<1>2. model = [i \in {0} |-> ModelPulse(c, names)] /\ dut = [i \in {0} |-> Off(c)]
  BY DEF Init
<1> HIDE DEF names
<1>3. ModelPulse(c, names) \in Envs(Refined[c], Ports)
  BY <1>1, ModelPulseFits DEF Ports
<1>4. Off(c) \in Envs(Rtl[c], Ports)  BY <1>1, OffFits DEF Ports
<1>5. {0} = 0..0  OBVIOUS
<1>6. Vectors = Summary[c].vectors  BY DEF Init
<1>7. Typed
  <2>1. \A i \in 1..Len(Vectors) : IsDriven(Vectors[i])
    BY <1>1, <1>6, CaseAssumption, SummaryAssumption, VectorsLength
  <2> QED  BY <2>1 DEF Init, Typed, NoVerdict
<1>8. Modelled  BY <1>2, <1>3, <1>5 DEF Modelled, Init
<1>9. Driven  BY <1>2, <1>4 DEF Driven, Init
<1> QED  BY <1>7, <1>8, <1>9 DEF TInv

LEMMA PulseTyped ==
  ASSUME Evaluates, IInv, NEW vs, IsVectors(vs), NamedInputs(vs) \subseteq Ports,
         c' = c, PowerUp(vs)
  PROVE  Driven' /\ line' \in {"off", None} /\ phase' = "bench"
<1> DEFINE first == BenchPulse(c, PreInit(vs))
<1>1. c \in Cases  BY DEF IInv, Shape
<1>2. PreInit(vs) \in SUBSET Ports  BY DEF PreInit
<1>3. first \in Envs(Rtl[c], Ports)  BY <1>1, <1>2, BenchPulseFits DEF Ports
<1>4. dut' = [i \in {0} |-> first] /\ n' = 0  BY DEF PowerUp
<1> HIDE DEF first
<1>5. {0} = 0..0  OBVIOUS
<1>6. Ports' = Ports  BY DEF Ports
<1> QED  BY <1>3, <1>4, <1>5, <1>6 DEF Driven, PowerUp

LEMMA TypedStep ==
  ASSUME Evaluates, IInv, IInv', TInv, [Next]_vars
  PROVE  TInv'
<1> USE DEF Vectors
<1>1. /\ c \in Cases /\ n \in Nat /\ n <= Len(Vectors) /\ IsVectors(Vectors)
      /\ Len(Vectors) \in Nat /\ NamedInputs(Vectors) \subseteq Ports
      /\ IsSpec(Refined[c]) /\ IsSpec(Rtl[c])
  BY CaseAssumption, VectorsLength DEF IInv, Shape, Ports
<1>2. Typed /\ Modelled /\ Driven  BY DEF TInv
<1>3. c' = c /\ Ports' = Ports
  BY DEF Next, vars, Simulate, Adopt, FallBack, Drive, Finish, Crash, Fail, Soak,
         SoakBench, SkipSoak, SoakVerdict, Ports
<1>4. ASSUME bench'.vectors = Derived
      PROVE  (\A i \in 1..Len(Vectors) : IsDriven(Vectors[i]))' /\ Len(Vectors') = Len(Vectors)
  <2>1. Alike(Derived, Vectors)  BY <1>1, DerivedIsAlike
  <2> QED  BY <1>2, <1>4, <2>1 DEF Alike, Typed, IsDriven
<1>5. CASE Simulate
  <2> DEFINE v == Vectors[n + 1]
             e == ModelEdge(Refined[c], model[n], v)
  <2>1. /\ n + 1 \in 1..Len(Vectors) /\ DOMAIN model = 0..n /\ n' = n + 1
        /\ model' = Extend(model, n + 1, e) /\ phase = "derive" /\ phase' = phase
        /\ UNCHANGED <<bench, dut, line, eval>>
    BY <1>1, <1>2, <1>5 DEF Simulate, Modelled
  <2>2. IsDriven(v) /\ DOMAIN v.drive \subseteq Ports
    BY <1>1, <1>2, <2>1, NamedIs DEF Typed
  <2>3. model[n] \in Envs(Refined[c], Ports)  BY <1>1, <1>2, <2>1 DEF Modelled
  <2> HIDE DEF v
  <2>4. e \in Envs(Refined[c], Ports)  BY <1>1, <2>2, <2>3, EdgesFit DEF ModelEdge
  <2> HIDE DEF e
  <2>5. Modelled'
    <3> DEFINE S == Envs(Refined[c], Ports)
    <3>1. \A i \in DOMAIN model : model[i] \in S  BY <1>2 DEF Modelled
    <3> HIDE DEF S
    <3>2. e \in S  BY <2>4 DEF S
    <3>3. DOMAIN model' = 0..n + 1 /\ \A i \in 0..n + 1 : model'[i] \in S
      BY <1>1, <2>1, <3>1, <3>2, ExtendIs
    <3> QED  BY <1>2, <1>3, <2>1, <3>3 DEF Modelled, S
  <2>6. Typed' /\ Driven'  BY <1>2, <1>3, <2>1 DEF Typed, Driven
  <2> QED  BY <2>5, <2>6 DEF TInv
<1>6. CASE Adopt
  <2>1. /\ bench' = [by |-> "spec", vectors |-> Derived] /\ PowerUp(Vectors)
        /\ phase = "derive" /\ n = Len(Vectors) /\ UNCHANGED <<model, eval>>
    BY <1>6 DEF Adopt, Simulated
  <2>2. bench'.by = "spec" /\ bench'.vectors = Derived  BY <2>1
  <2>3. Driven' /\ line' \in {"off", None} /\ phase' = "bench"  BY <1>1, <1>3, <2>1, PulseTyped
  <2>4. Typed'  BY <1>2, <1>4, <2>1, <2>2, <2>3 DEF Typed
  <2>5. Modelled'  BY <1>2, <1>3, <1>4, <2>1, <2>2, <2>3 DEF Modelled
  <2> QED  BY <2>3, <2>4, <2>5 DEF TInv
<1>7. CASE FallBack
  <2>1. /\ PowerUp(Vectors) /\ UNCHANGED <<bench, model, eval>> /\ bench.by = "agent1"
    BY <1>7 DEF FallBack, IInv, Shape
  <2>2. Driven' /\ line' \in {"off", None} /\ phase' = "bench"  BY <1>1, <1>3, <2>1, PulseTyped
  <2>3. Typed'  BY <1>2, <2>1, <2>2 DEF Typed
  <2>4. Modelled'  BY <1>2, <1>3, <2>1, <2>2 DEF Modelled
  <2> QED  BY <2>2, <2>3, <2>4 DEF TInv
<1>8. CASE SoakBench
  <2>1. /\ bench' = [bench EXCEPT !.vectors = Derived] /\ PowerUp(Vectors)
        /\ phase = "derive" /\ n = Len(Vectors) /\ UNCHANGED <<model, eval>>
        /\ bench = [by |-> bench.by, vectors |-> bench.vectors]
    BY <1>8 DEF SoakBench, Simulated, IInv, Shape
  <2>2. bench'.by = bench.by /\ bench'.vectors = Derived  BY <2>1
  <2>3. Driven' /\ line' \in {"off", None} /\ phase' = "bench"  BY <1>1, <1>3, <2>1, PulseTyped
  <2>4. Typed'  BY <1>2, <1>4, <2>1, <2>2, <2>3 DEF Typed
  <2>5. Modelled'  BY <1>2, <1>3, <1>4, <2>1, <2>2, <2>3 DEF Modelled
  <2> QED  BY <2>3, <2>4, <2>5 DEF TInv
<1>9. CASE Drive
  <2> DEFINE v == Vectors[n + 1]
             e == BenchEdge(Rtl[c], dut[n], v)
  <2>1. /\ n + 1 \in 1..Len(Vectors) /\ DOMAIN dut = 0..n /\ n' = n + 1
        /\ dut' = Extend(dut, n + 1, e) /\ line' = Level(v)
        /\ phase = "bench" /\ phase' \in {"bench", "failed"}
        /\ UNCHANGED <<bench, model, eval>>
    BY <1>1, <1>2, <1>9 DEF Drive, Driven
  <2>2. IsDriven(v) /\ DOMAIN v.drive \subseteq Ports
    BY <1>1, <1>2, <2>1, NamedIs DEF Typed
  <2>3. dut[n] \in Envs(Rtl[c], Ports)  BY <1>1, <1>2, <2>1 DEF Driven
  <2> HIDE DEF v
  <2>4. e \in Envs(Rtl[c], Ports)  BY <1>1, <2>2, <2>3, EdgesFit DEF BenchEdge
  <2> HIDE DEF e
  <2>5. Driven'
    <3> DEFINE S == Envs(Rtl[c], Ports)
    <3>1. \A i \in DOMAIN dut : dut[i] \in S  BY <1>2 DEF Driven
    <3> HIDE DEF S
    <3>2. e \in S  BY <2>4 DEF S
    <3>3. DOMAIN dut' = 0..n + 1 /\ \A i \in 0..n + 1 : dut'[i] \in S
      BY <1>1, <2>1, <3>1, <3>2, ExtendIs
    <3> QED  BY <1>2, <1>3, <2>1, <3>3 DEF Driven, S
  <2>6. Typed'  BY <1>2, <2>1, <2>2 DEF Typed, Level, IsDriven
  <2>7. Modelled'  BY <1>2, <1>3, <2>1 DEF Modelled
  <2> QED  BY <2>5, <2>6, <2>7 DEF TInv
<1>10. CASE Soak
  <2>1. /\ phase = "passed" /\ eval' = Passed /\ UNCHANGED <<dut, line>>
        /\ phase' \in {"derive", "done"}
    BY <1>10 DEF Soak
  <2>2. Driven'  BY <1>2, <1>3, <2>1 DEF Driven
  <2>3. /\ eval'.status = "success"
        /\ eval' = [status |-> eval'.status, disagreements |-> eval'.disagreements,
                    soak |-> eval'.soak]
    BY <2>1 DEF Passed, NoVerdict
  <2>4. CASE phase' = "done" /\ UNCHANGED <<job, bench, model, n>>
    BY <1>2, <1>3, <2>1, <2>2, <2>3, <2>4 DEF TInv, Typed, Modelled
  <2>5. ASSUME NEW vs \in Stimuli, phase' = "derive",
               bench' = [by |-> "soak", vectors |-> vs], Begin(vs)
        PROVE  TInv'
    <3>1. NamedInputs(vs) \in SUBSET Ports  BY StimuliAreVectors DEF Ports
    <3>2. ModelPulse(c, NamedInputs(vs)) \in Envs(Refined[c], Ports)
      BY <1>1, <3>1, ModelPulseFits DEF Ports
    <3>3. bench'.by = "soak" /\ Vectors' = vs  BY <2>5
    <3>4. {0} = 0..0  OBVIOUS
    <3>5. Modelled'  BY <1>3, <2>5, <3>2, <3>3, <3>4 DEF Begin, Modelled
    <3>6. Typed'  BY <1>2, <2>1, <2>3, <2>5, <3>3, StimuliDrive DEF Typed
    <3> QED  BY <2>2, <3>5, <3>6 DEF TInv
  <2> QED  BY <1>10, <2>4, <2>5 DEF Soak
<1>11. CASE Finish \/ Crash \/ SkipSoak
  <2>1. /\ UNCHANGED <<bench, n, model, dut, line, eval>>
        /\ phase' \in {"passed", "failed", "crashed", "done"}
        /\ phase' \in {"passed", "failed", "crashed"} => phase = "bench"
    BY <1>11 DEF Finish, Crash, SkipSoak
  <2> QED  BY <1>2, <1>3, <2>1 DEF TInv, Typed, Modelled, Driven
<1>12. CASE Fail \/ SoakVerdict
  <2>1. /\ UNCHANGED <<bench, n, model, dut, line>> /\ phase' = "done"
        /\ \/ eval' = [NoVerdict EXCEPT !.status = "error"]
           \/ \E verdict : eval' = [eval EXCEPT !.soak = verdict]
           \/ eval' = eval
    BY <1>12 DEF Fail, SoakVerdict
  <2>2. /\ eval'.status \in {"absent", "success", "error"}
        /\ eval' = [status |-> eval'.status, disagreements |-> eval'.disagreements,
                    soak |-> eval'.soak]
    BY <1>2, <2>1 DEF Typed, NoVerdict
  <2> QED  BY <1>2, <1>3, <2>1, <2>2 DEF TInv, Typed, Modelled, Driven
<1>13. CASE UNCHANGED vars
  BY <1>2, <1>3, <1>13 DEF vars, TInv, Typed, Modelled, Driven
<1> QED
  BY <1>5, <1>6, <1>7, <1>8, <1>9, <1>10, <1>11, <1>12, <1>13 DEF Next

LEMMA EnvFits ==
  ASSUME NEW s, NEW e \in Envs(s, Ports)
  PROVE  Fits(s, e)
<1>1. \A v \in Scalars(s) \ Ports : e.sig[v] \in Fitting(s, v)  BY EnvIs DEF Sigs
<1>2. \A v \in Memories(s) : e.mem[v] \in Array(s, v)  BY EnvIs DEF Mems
<1>3. \A v \in Memories(s) : \A k \in DOMAIN e.mem[v] : e.mem[v][k] \in Fitting(s, v)
  BY <1>2 DEF Array
<1> QED  BY <1>1, <1>3 DEF Fits, Fitting, Holds, Scalars, Memories, Ports

\* The histories keep pace with the vectors, the level of the reset port is
\* known or undriven, and what the simulator and the RTL hold fits its width
\* (spec_sim.py _mask), for every case.
THEOREM VectorTyped == Evaluates => (Spec => []TypeOK)
<1> SUFFICES ASSUME Evaluates  PROVE Spec => []TypeOK  OBVIOUS
<1>1. Init => TInv  BY TypedInit
<1>2. IInv /\ IInv' /\ TInv /\ [Next]_vars => TInv'  BY TypedStep
<1>3. IInv /\ TInv => TypeOK
  <2> SUFFICES ASSUME IInv, TInv  PROVE TypeOK  OBVIOUS
  <2>1. n \in 0..Len(Vectors)  BY VectorsLength DEF IInv, Shape, Vectors
  <2>2. /\ \A i \in DOMAIN model : Fits(Refined[c], model[i])
        /\ \A i \in DOMAIN dut : Fits(Rtl[c], dut[i])
    BY EnvFits DEF TInv, Modelled, Driven
  <2> QED  BY <2>1, <2>2 DEF TypeOK, IInv, Shape, TInv, Typed, Modelled, Driven
<1> QED  BY <1>1, <1>2, <1>3, Invariant, PTL DEF Spec
=============================================================================
