----------------------------- MODULE VectorCheck ----------------------------
(***************************************************************************)
(* Stage 4: what the verdict on the RTL rests on (nodes/stage4.py,         *)
(* cocotb/vector_check.py, soak.py, generator.py, runner.py and the        *)
(* harness of spec_sim.py).                                                *)
(*                                                                         *)
(* Twice, first for Agent 1's vectors and then for a random soak, the      *)
(* refined spec is simulated on a stimulus, a bench is generated from what *)
(* it shows, and the bench drives the RTL.  Two harnesses, written         *)
(* separately, must drive the spec and the RTL alike.                      *)
(*                                                                         *)
(* A vector is [drive, reset, expected]: the inputs it names with their    *)
(* values, whether it asserts the reset port ("on", "off") or does not     *)
(* name it (None), and the outputs it expects.  A value is [n, plain]:     *)
(* plain is FALSE for a value that is not spelled as an int.  The polarity *)
(* of reset cancels out.                                                   *)
(***************************************************************************)
EXTENDS Composition

CONSTANTS
  Cases,      \* the runs that reach Stage 4
  Refined,    \* Refined[c]: the spec that its chain replays to
  Rtl,        \* Rtl[c]: the spec that its Verilog does
  Summary,    \* Summary[c]: [inputs, outputs, reset, vectors], 01_summary.json;
              \* inputs gives widths, reset is FALSE when reset_port is null
  SoakCycles  \* bound of the model: length of a soak (2000)

VARIABLES
  c,          \* the case at work
  job,        \* "directed" or "soak"
  phase,      \* "derive", "bench", then "passed" or "failed", at last "done"
  bench,      \* who expects, and the vectors
  n,          \* the vectors simulated, or driven, so far
  model,      \* the simulated spec after each vector; model[0] after the pulse
  dut,        \* the RTL after each vector
  line,       \* the level at the RTL's reset port
  report,     \* the disagreements that 02_vector_check.json lists
  eval        \* 04_evaluation.json

vars == <<c, job, phase, bench, n, model, dut, line, report, eval>>

Vectors == bench.vectors
Outputs == Summary[c].outputs

-----------------------------------------------------------------------------
(* The two harnesses *)

\* Everything is undefined at power-on.
PowerOn(spec, inputs) ==
  [sig |-> [v \in {w \in DOMAIN spec.vars : ~IsMemory(spec, w)} \cup inputs |-> X],
   mem |-> [v \in {w \in DOMAIN spec.vars : IsMemory(spec, w)} |->
              [k \in 0..spec.vars[v].depth - 1 |-> X]]]

Off(x) == PowerOn(Rtl[x], DOMAIN Summary[x].inputs)

Zero(names) == [i \in names |-> 0]

NamedInputs(vs) == UNION {DOMAIN vs[i].drive : i \in DOMAIN vs}

Coerced(v) == [i \in DOMAIN v.drive |-> v.drive[i].n]

\* The simulator: every input it will see at 0, reset, then one normal edge.
ModelPulse(x, names) ==
  LET off == PowerOn(Refined[x], DOMAIN Summary[x].inputs)
  IN  ClockEdge(Refined[x], ResetEdge(Refined[x], off, Zero(names)), Zero(names))

\* Mutant: the simulator overlooks a vector's reset.
ModelEdgeDeaf(spec, e, v) == ClockEdge(spec, e, Coerced(v))

\* A vector that does not name reset does not reset.
ModelEdge(spec, e, v) ==
  IF v.reset = "on" THEN ResetEdge(spec, e, Coerced(v)) ELSE ClockEdge(spec, e, Coerced(v))

\* The bench sets to 0 the inputs that are an int wherever they are named.
PreInit(vs) ==
  {i \in NamedInputs(vs) :
     \A k \in DOMAIN vs : i \in DOMAIN vs[k].drive => vs[k].drive[i].plain}

\* One edge with reset undriven, then the pulse if a reset port is declared.
\* A vector that names nothing drives nothing: inputs hold.
BenchPulse(x, names) ==
  LET warm == ClockEdge(Rtl[x], Off(x), Zero(names))
  IN  IF Summary[x].reset
      THEN ClockEdge(Rtl[x], ResetEdge(Rtl[x], warm, Zero(names)), Zero(names))
      ELSE warm

\* The reset port holds its level until a vector drives it again.
Level(v) == IF v.reset = None THEN line ELSE v.reset

BenchEdge(spec, e, v) ==
  IF Level(v) = "on" THEN ResetEdge(spec, e, Coerced(v)) ELSE ClockEdge(spec, e, Coerced(v))

\* Cases whose RTL is what Compiler 2 prints of the refined spec.
Correct(x) == Rtl[x] = Refined[x]

IsVector(v) == v = [drive |-> v.drive, reset |-> v.reset, expected |-> v.expected]

IsVectors(vs) == vs \in Seq(Range(vs)) /\ \A i \in 1..Len(vs) : IsVector(vs[i])

ASSUME SummaryAssumption ==
  /\ SoakCycles \in Nat
  /\ None \notin {"on", "off"}
  /\ \A x \in Cases :
       /\ IsVectors(Summary[x].vectors)
       /\ NamedInputs(Summary[x].vectors) \subseteq DOMAIN Summary[x].inputs

\* Specs of the engine's shape, and vectors as spec_sim reads them: an input
\* is an int or, if it does not read as one, undefined.
IsDriven(v) ==
  /\ v.reset \in {"on", "off", None}
  /\ \A i \in DOMAIN v.drive : v.drive[i].n \in Int \cup {X}

ASSUME CaseAssumption ==
  \A x \in Cases :
    /\ IsSpec(Refined[x]) /\ IsSpec(Rtl[x])
    /\ \A i \in DOMAIN Summary[x].vectors : IsDriven(Summary[x].vectors[i])

\* The edge that only the bench has leaves no trace behind the reset pulse.
ASSUME WarmUpAssumption ==
  \A x \in Cases : Correct(x) /\ Summary[x].reset =>
    \A names \in SUBSET DOMAIN Summary[x].inputs :
      BenchPulse(x, names) = ModelPulse(x, names)

-----------------------------------------------------------------------------
(* The steps of Stage 4 *)

Extend(history, k, e) == [i \in 0..k |-> IF i = k THEN e ELSE history[i]]

Begin(vs) == model' = [i \in {0} |-> ModelPulse(c, NamedInputs(vs))] /\ n' = 0

NoVerdict == [status |-> "absent", disagreements |-> {}, soak |-> None]

Init ==
  /\ c \in Cases
  /\ job = "directed" /\ phase = "derive" /\ n = 0
  /\ bench = [by |-> "agent1", vectors |-> Summary[c].vectors]
  /\ model = [i \in {0} |-> ModelPulse(c, NamedInputs(Summary[c].vectors))]
  /\ dut = [i \in {0} |-> Off(c)] /\ line = None
  /\ report = {} /\ eval = NoVerdict

Simulate ==
  /\ phase = "derive" /\ n < Len(Vectors)
  /\ n' = n + 1
  /\ model' = Extend(model, n + 1, ModelEdge(Refined[c], model[n], Vectors[n + 1]))
  /\ UNCHANGED <<c, job, phase, bench, dut, line, report, eval>>

\* What the simulated spec defines is expected, what it leaves undefined is not.
Row(e) == [p \in {q \in Outputs : e.sig[q] # X} |-> e.sig[p]]

Derived == [i \in 1..Len(Vectors) |-> [Vectors[i] EXCEPT !.expected = Row(model[i])]]

\* Mutant: an output that one of the two leaves out is no disagreement.
DisagreeBoth(p, f, g) == p \in DOMAIN f /\ p \in DOMAIN g /\ f[p] # g[p]

Disagree(p, f, g) ==
  \/ (p \in DOMAIN f) # (p \in DOMAIN g)
  \/ p \in DOMAIN f /\ p \in DOMAIN g /\ f[p] # g[p]

\* _compare: by vector and output port.
Compare ==
  {q \in (1..Len(Vectors)) \X Outputs :
     Disagree(q[2], Vectors[q[1]].expected, Row(model[q[1]]))}

\* Mutant: no guard against a degenerate reference.
AlwaysFine == TRUE

\* Every declared output is expected of some vector.
NotDegenerate == \A p \in Outputs : \E i \in 1..Len(Vectors) : model[i].sig[p] # X

PowerUp(vs) ==
  /\ dut' = [i \in {0} |-> BenchPulse(c, PreInit(vs))]
  /\ line' = IF Summary[c].reset THEN "off" ELSE None
  /\ phase' = "bench" /\ n' = 0

Simulated == phase = "derive" /\ n = Len(Vectors) /\ Len(Vectors) > 0 /\ Outputs # {}

\* The corrected bench replaces Agent 1's.
Adopt ==
  /\ job = "directed" /\ Simulated /\ NotDegenerate
  /\ bench' = [by |-> "spec", vectors |-> Derived]
  /\ report' = Compare
  /\ PowerUp(Vectors)
  /\ UNCHANGED <<c, job, model, eval>>

\* The guard, no replayable chain, or any exception: Agent 1's bench is run.
FallBack ==
  /\ job = "directed" /\ phase = "derive"
  /\ PowerUp(Vectors)
  /\ UNCHANGED <<c, job, bench, model, report, eval>>

\* One vector of the bench, up to the first assertion that fails.
Shows(e, v) == \A p \in DOMAIN v.expected : e.sig[p] = v.expected[p]

Drive ==
  /\ phase = "bench" /\ n < Len(Vectors)
  /\ LET v == Vectors[n + 1]
         e == BenchEdge(Rtl[c], dut[n], v)
     IN  /\ dut' = Extend(dut, n + 1, e)
         /\ line' = Level(v)
         /\ phase' = IF Shows(e, v) THEN "bench" ELSE "failed"
  /\ n' = n + 1
  /\ UNCHANGED <<c, job, bench, model, report, eval>>

\* A bench without vectors fails.
Finish ==
  /\ phase = "bench" /\ n = Len(Vectors)
  /\ phase' = IF n = 0 THEN "failed" ELSE "passed"
  /\ UNCHANGED <<c, job, bench, n, model, dut, line, report, eval>>

\* Icarus or cocotb does not come up, or run_testbench raises.
Crash ==
  /\ phase = "bench"
  /\ phase' = "crashed"
  /\ UNCHANGED <<c, job, bench, n, model, dut, line, report, eval>>

-----------------------------------------------------------------------------
Fail ==
  /\ job = "directed" /\ phase \in {"failed", "crashed"}
  /\ phase' = "done"
  /\ eval' = [NoVerdict EXCEPT !.status = "error"]
  /\ UNCHANGED <<c, job, bench, n, model, dut, line, report>>

Passed == [NoVerdict EXCEPT !.status = "success", !.disagreements = report]

\* In-width values for every free input; reset is left alone.
Stimuli ==
  LET ins == Summary[c].inputs
      Value(w) == [n : 0..2^w - 1, plain : {TRUE}]
      rows == {f \in [DOMAIN ins -> UNION {Value(ins[i]) : i \in DOMAIN ins}] :
                 \A i \in DOMAIN ins : f[i] \in Value(ins[i])}
  IN  [1..SoakCycles -> [drive : rows, reset : {None}, expected : {<<>>}]]

\* The soak comes after a directed pass; disabled, or for any reason skipped,
\* it leaves no trace.
Soak ==
  /\ job = "directed" /\ phase = "passed"
  /\ eval' = Passed
  /\ \/ \E vs \in Stimuli :
          /\ SoakCycles > 0
          /\ job' = "soak" /\ phase' = "derive"
          /\ bench' = [by |-> "soak", vectors |-> vs]
          /\ Begin(vs)
     \/ phase' = "done" /\ UNCHANGED <<job, bench, model, n>>
  /\ UNCHANGED <<c, dut, line, report>>

SoakBench ==
  /\ job = "soak" /\ Simulated /\ NotDegenerate
  /\ bench' = [bench EXCEPT !.vectors = Derived]
  /\ PowerUp(Vectors)
  /\ UNCHANGED <<c, job, model, report, eval>>

\* The reference is degenerate, or something raises.
SkipSoak ==
  /\ job = "soak" /\ phase = "derive"
  /\ phase' = "done"
  /\ UNCHANGED <<c, job, bench, n, model, dut, line, report, eval>>

\* A soak that fails, in whatever way, does not change the status.  A build that
\* fails counts as a failed soak; after an exception it counts as skipped.
SoakVerdict ==
  /\ job = "soak" /\ phase \in {"passed", "failed", "crashed"}
  /\ phase' = "done"
  /\ \/ eval' = [eval EXCEPT !.soak = IF phase = "passed" THEN "success" ELSE "failed"]
     \/ phase = "crashed" /\ eval' = eval
  /\ UNCHANGED <<c, job, bench, n, model, dut, line, report>>

Next == Simulate \/ Adopt \/ FallBack \/ Drive \/ Finish \/ Crash \/ Fail
          \/ Soak \/ SoakBench \/ SkipSoak \/ SoakVerdict

Spec == Init /\ [][Next]_vars
-----------------------------------------------------------------------------
Fits(spec, e) ==
  \A v \in DOMAIN spec.vars \ DOMAIN Summary[c].inputs :
    LET fits(x) == x = X \/ x \in 0..2^spec.vars[v].width - 1
    IN  IF IsMemory(spec, v) THEN \A k \in DOMAIN e.mem[v] : fits(e.mem[v][k])
        ELSE fits(e.sig[v])

\* The histories are as long as the work done, and what they hold fits.
TypeOK ==
  /\ c \in Cases
  /\ job \in {"directed", "soak"} /\ bench.by \in {"agent1", "spec", "soak"}
  /\ phase \in {"derive", "bench", "passed", "failed", "crashed", "done"}
  /\ n \in 0..Len(Vectors) /\ line \in {"on", "off", None}
  /\ phase = "derive" => DOMAIN model = 0..n
  /\ phase \in {"bench", "passed", "failed"} => DOMAIN dut = 0..n
  /\ bench.by # "agent1" /\ phase # "derive" /\ phase # "done" =>
       DOMAIN model = 0..Len(Vectors)
  /\ \A i \in DOMAIN model : Fits(Refined[c], model[i])
  /\ \A i \in DOMAIN dut : Fits(Rtl[c], dut[i])
  /\ eval.status \in {"absent", "success", "error"}

\* The vectors for which generator.py and spec_sim.py drive alike: a reset
\* port is declared, every input is spelled as an int, and a vector after one
\* that resets says whether it resets.
DrivenAlike(vs) ==
  /\ Summary[c].reset
  /\ PreInit(vs) = NamedInputs(vs)
  /\ \A i \in 1..Len(vs) : vs[i].reset = None /\ i > 1 => vs[i - 1].reset # "on"

\* RTL that does what the refined spec does is never failed, neither by the
\* bench that replaces Agent 1's, whatever Agent 1 expected, nor by a soak.
NoFalseRed ==
  Correct(c) /\ bench.by # "agent1" /\ DrivenAlike(Vectors) => phase # "failed"

\* The same of all vectors that Agent 1 may write: a harness that simulates
\* the generator's.
NoFalseRedAtAll == Correct(c) /\ bench.by # "agent1" => phase # "failed"

\* RTL that passes a derived bench has shown, after every vector, whatever the
\* simulated spec defines, and the spec defines every output at least once:
\* no output goes through unasserted.
PassMeansMatched ==
  phase = "passed" /\ bench.by # "agent1" =>
    \A p \in Outputs :
      /\ \A i \in 1..n : model[i].sig[p] # X => dut[i].sig[p] = model[i].sig[p]
      /\ \E i \in 1..n : dut[i].sig[p] # X

\* When RTL passes although Agent 1's own bench would have failed it, every
\* output and vector at which it would have is listed.
DisagreementSurfaced ==
  phase = "passed" /\ bench.by = "spec" =>
    \A i \in 1..n : \A p \in Outputs :
      LET expected == Summary[c].vectors[i].expected
      IN  p \in DOMAIN expected /\ expected[p] # dut[i].sig[p] => <<i, p>> \in report
=============================================================================
