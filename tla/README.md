# Verification of the agentic RTL engine

The program turns a natural-language request into Verilog. LLM agents write a
summary and a formal spec; a refinement engine rewrites the spec, one rule at a
time, into RTL style; two compilers emit TLA+ and Verilog; a cocotb testbench
judges the result, and a diagnosis sends failures back. The agents are not
trusted, so everything that makes the result right is deterministic code around
them. That code is what these modules model: the engine and its rules, the way
from a refined spec to hardware and to the verdict on it, the texts of expressions and
their three readers, the control plane, the kernel that proves a proposed loop
together with the hardware made from it, and the ledger that limits spending.

## 1. The system

| Component | State | Operations | Interacts with |
|---|---|---|---|
| Control plane (`graph.py`, `main.py`, `state.py`) | `retry_counts`, `last_diagnosis` | four routing functions, `graph.invoke` | nodes through artifact files |
| Stage nodes (`nodes/*.py`) | none in memory; seven files per run | read artifacts, call an agent or a tool, write an artifact | agents, engine, compilers, runner |
| Refinement engine (`refinement/engine.py`) | spec, chain, exclusions, strikes, step count; `refinement_chain.json` | pick, validate, apply, gate, commit, backtrack | rules, `pick_rule` and `tlc_check` callbacks |
| Rules (`refinement/rules/*.py`) | none (pure) | `is_applicable`, `apply` | engine; LoopIntroduction calls the kernel |
| Obligation kernel (`refinement/obligations.py`) | none | O1, O2, O3 over enumerated inputs | evaluator of `spec_sim` |
| Start/done scheduling (`rules/schedule_handshake_fsm.py`) | none; its product has registers | writes the FSM of a block | engine; simulator and Compiler 2 execute the product |
| Simulator, vector check, soak (`cocotb/spec_sim.py`, `vector_check.py`, `soak.py`) | register values | clock edge, golden vectors, comparison | replay of the chain on disk |
| Runner, generator (`cocotb/runner.py`, `generator.py`) | `sim_build/` | build, run, read XML | Stage 4 |
| Agents (`agents/*.py`) | conversation | LLM calls, tool loop | usage ledger |
| Bridge, compilers (`refinement/bridge.py`, `compilers/*.py`) | none | text to text | Stage 3 |
| Usage ledger (`usage.py`) | day files, legacy file | append, aggregate, reprice, migrate, budget | agents, other processes |
| Run directories (`run_dirs.py`) | the directory tree | create, rename, link, clean | main, other processes |
| Native core (`core/`) | none | C++ twin of kernel, evaluator, simulator | selected by backend |

What is hard here. The engine interleaves commits, rollbacks of several depths,
exclusions and strikes under a picker that may answer anything, while a file
follows the chain only at commits. The control plane passes everything through
files that several nodes rewrite, with two recovery paths that share one budget,
and another process may delete those files. The scheduled hardware runs a loop
under conditions the kernel did not check it under: ports that move, a test
after the step, registers of finite width, simultaneous loads. Composition turns
any number of guarded actions, each with branches or steps, into one expression
per register that has to mean the same at every edge. Two harnesses, written
separately, must drive a spec and its RTL alike, or right RTL is failed. An expression
is a text that three programs parse, each with its own grammar and arithmetic, and the
bridge builds longer texts by splicing.
`PROJECT.json` lists these hazards line by line.

What makes each component correct:

- engine: the chain on disk rebuilds the result; nothing that failed comes back
  in the same place; the pass ends; whatever the picker does, the caller gets a
  result or a stall;
- control plane: simulated RTL and the reference it is judged against are the
  same design; success means completed refinement; recovery starts from a newer
  spec or a shorter chain than the one judged; retries end the run;
- scheduled block: the answer satisfies the postcondition for the operands of
  its job until the next job, in bounded time, under the start/done promise;
- rules and composition: no rule undoes another; an edge performs exactly the
  enabled actions; branches and steps mean what they say; continuous logic and
  memories stay what they are; nothing is undefined after reset, when the reset
  branch names every register;
- expressions: a text means to the simulator and to the hardware what it meant to
  TLC; a composed text means what its parts mean, and builds if they do;
- ledger: spending stays under the cap plus what is in flight and what the ledger
  missed; only faults and maintenance make it miss anything; spending stops once
  calls stop going unlogged;
- vector check and soak: right RTL never fails a derived bench; RTL that passes
  shows what the spec says of every output; what Agent 1 said otherwise is reported.

## 2. Modules

| Module | Models | Code |
|---|---|---|
| `RuleLibrary` | rules as a transition function on specs; chain replay | `engine._replay_chain`, `rules/base.py` |
| `EngineContract` | what callers rely on from one `engine.run` (abstract) | its uses in `stage3`, `vector_check`, `soak` |
| `RefinementEngine` | `run` and `_backtrack`, one action per outcome of an iteration | `engine.py` |
| `Pipeline` | the graph, its nodes, files, counters, and a concurrent clean-up | `graph.py`, `nodes/`, `agent_diagnoser.py`, `run_dirs.py` |
| `LoopKernel` | the kernel's three obligations as it evaluates them | `obligations.py` |
| `StartDone` | the start/done promise (abstract) | the handshake the rule documents |
| `HandshakeFSM` | the block made of a discharged derivation, edge by edge | `schedule_handshake_fsm.py`, `loop_introduction.py`, `spec_sim.py` |
| `EngineSpec` | the engine's spec dict, `is_rtl_style`, the six table rules | `bridge.formal_spec_to_engine_spec`, `engine.py`, `rules/*.py` |
| `Composition` | next-state composition, settling, clock and reset edge | `bridge.py`, `spec_sim.py`, `compiler2.py` |
| `SpecCircuit` | a design from fresh spec through any refinement to hardware under a harness | `engine.py`, `spec_sim.SpecSimulator.run`, `generator.py` |
| `VectorCheck` | Stage 4: two harnesses, vector check, simulation, soak | `vector_check.py`, `soak.py`, `generator.py`, `spec_sim.SpecSimulator.run`, `stage4.py` |
| `Expressions` | token texts, three grammars, three arithmetics, what TLC accepts | `spec_sim._Interp`; Verilog and TLA+ external |
| `ActionText` | an agent's text, word folding, splicing by branches and steps, translation to Verilog | `bridge.py`, `compiler1.translate_expr`, `compiler2.translate_expr`, `agent3.py` prompt |
| `UsageLedger` | the spend guard and the ledger under several processes and an operator | `usage.py`, the call sites in `agent3.py` |
| `MCRefinementEngine`, `MCShiftAdd`, `MCUnschedulable`, `MCSpecCircuit`, `MCVectorCheck`, `MCActionText`, `MCUsageLedger` | instances for TLC | |
| `Recursion`, `RefinementEngine_proof`, `Pipeline_proof`, `HandshakeFSM_proof`, `Composition_proof`, `SpecCircuit_proof`, `VectorCheck_proof`, `UsageLedger_proof` | lemmas and theorems | |

`RefinementEngine` implements `EngineContract`: what it leaves on disk extends what it
found there and is a refinement (`IsRefinement` of `RuleLibrary`: every step was by an
applicable rule and changed a spec that was not finished), and what it returns is RTL-style.
`Pipeline` knows specs by number and chains by length and choices; section 5 says in
which sense it uses the engine through that contract.
`HandshakeFSM` extends `LoopKernel` because LoopIntroduction installs nothing the
kernel did not discharge; it implements `StartDone`. `SpecCircuit` extends
`Composition`, which extends `EngineSpec`: specs there are the dicts that
`RefinementEngine` treats as opaque, and a step of its `Refine` is one that the
engine may commit (exclusions, rollbacks and the TLC gate only remove steps): the
theorems of the part *Rules as a library* of section 5 say so.
`VectorCheck` extends `Composition` too: it takes the refined spec and the RTL as
given and asks what the verdict on their agreement is worth. `ActionText` extends
`Expressions`; the two stand beside `Composition`, which computes with values: they
show that the texts that are really composed have those values.

Definitions marked "Mutant" are not part of a model: each is a wrong variant of
the definition that follows it, used to confirm that a property would notice.

**Engine.** `spec`, `chain`, `excluded`, `strikes`, `totalSteps`, `prefix` are the
locals `spec`, `chain`, `excluded_at`, `invalid_counts`, `total_steps` and
`committed_prefix`; `disk` is the file. A spec is an element of `Specs` because the
engine only compares specs by hash; a rule application is `Result[spec][choice]`:
a spec (the same one: no-op), `Raises` (the three caught exceptions) or `Escapes`
(any other). The picker's freedom is `BadPick` (it raised, or was refused) and the
quantifier over `ch`. The TLC gate may reject the specs in `Rejectable` and may
accept them too, since its own failures count as acceptance.

**Control plane.** Each node is one action, except that Stage 3 is cut where
its state is visible: authoring, TLC attempts, engine, critic, code generation.
`via` says which of the three Stage 3 nodes is running, since they share these
steps in part. A spec is the number of its authoring; a refinement is that number
with the steps applied. `files` are the artifacts; routing reads only them, as in
the code. `Prune` is `--clean-artifacts` deleting the run from another process
between two nodes: the next node recreates an empty directory, but a recovery node
finds no spec and has no directory to write that down in, so it raises and ends the
run. `RouteTo` counts supersteps as LangGraph does; exceeding its
limit raises (`"aborted"`).

**Scheduled block.** Expressions are operators of the inputs and of a store.
`LoopKernel` evaluates them as the kernel does (init in order, body
simultaneously, guard is 1, at most `MaxIters` steps, no masking).
`HandshakeFSM` evaluates the same ones as the FSM does (all at once, live ports,
masked registers, guard after the step, nonzero is true). The gap between the two
is `Schedulable`: five conditions on the derivation, none of which the code checks.

**Rules and circuit.** A spec is a record of variables (a function) and actions (a
sequence, since order is priority); a rule with its parameters is a choice `p`.
Expressions are names: `Eval` gives them a value over scalars and memories, `X`
being undefined. Composition in the code builds text; here it builds the value
that the text would have, so a substitution is an evaluation with the substituted
values (`Overlay`), a nested conditional is the first clause that holds
(`NestedIf`), and an undefined guard makes the result undefined, as in
`spec_sim._eval`. `Settle` makes as many passes as the simulator at most makes;
stopping early when nothing changes gives the same. Compiler 2 prints the same
expressions in the same order with nonblocking assignments, so `ClockEdge` stands
for the hardware too, where no X is merged (Verilog's `?:` may yield a defined bit
from an undefined condition, the simulator does not). Updates name declared
variables; each action has one name and the types of parameters are those that the
rules document (`IsChoice`). The `type` of a variable, which `is_rtl_style` wants
non-empty, is left out. `init` is left out, since only TLC reads it.

**Vector check.** A case is a refined spec, an RTL (the spec that the Verilog does,
which is the refined one when nothing is wrong), and the summary with Agent 1's
vectors. `model` is the history of the simulated spec under the harness of
`spec_sim.py`, `dut` that of the RTL under the bench that `generator.py` writes; both
start at power-on and go edge by edge through the same `ClockEdge` and `ResetEdge`,
so all that can differ is how they are driven. The bench has one edge before its
reset pulse (the template's first `RisingEdge`), no pulse without a reset port, no 0 on
an input that is somewhere a bool or a string, and holds what a vector does not name.
One module does the directed check and the soak, which share every step but what
starts and ends them. `FallBack`, `SkipSoak` and `Crash` are the fail-soft exits,
open at any time, since any exception takes them. `NoFalseRed` speaks of the vectors
that `DrivenAlike` describes, `NoFalseRedAtAll` of all. Icarus is external; a clock
under another name, literals that are not ints (both harnesses see X) and inputs
wider than their port are left out.

**Texts.** A text is a sequence of tokens (`_tokenize`). `Reading` is a recursive
descent that takes its levels from a grammar: `SimGrammar` is the class `_Interp`, level
by level, with its leniency (a missing `THEN` or parenthesis is not missed, tokens at
the end are ignored, an `IF` in operand position is a name); `VerilogGrammar` and
`TlaGrammar` are the precedences of the two languages and stop at what they cannot
read. A value is a set of at most one number, empty for X. `SimArithmetic` is `_U32`;
`RtlArithmetic` computes in the width of the context as IEEE 1364 has it;
`TlcArithmetic` with integers. `Translate` is `compiler2.translate_expr` with its
character scan as a count of parentheses; `Composed` is `_action_update_exprs`. The
names that Compiler 2 reserves (`TRUE`) are declared nowhere, which `Elaborates` has;
its banlist is `Leaked`. `Draft` and the actions that use it are the agent writing one
text by the rules of its prompt; the bridge folds the words `AND`, `OR`, `NOT` and `mod` of
such a text into symbols (`Fold`). `WriteClause` is one more branch or step of a rule's
parameters, which reaches the composition as the picker wrote it, words included. Only the operators that some reader could take differently are offered;
identifiers, literals, relations and parentheses stand for their kind.

**Usage ledger.** Callers loop through `agent_cost` (two reads, as the files are read
one after the other), the check, the call and `log_usage`; this is the tool loop of
agent 3 and, one turn at a time, its two one-shot calls. A refused caller checks
again, because `pick_rule`'s refusal is an invalid pick to the engine, which asks
again. An operator runs one maintenance command at a time and may kill it between
its steps. Rows keep timestamp, cost and whether they are a baseline. `charged` and
`drift` are ghosts: what the provider charged, and the most the ledger ever fell short.
A row gets its timestamp when it is appended: `log_usage` and `record_baseline` take it
a few lines before (`usage.py:348`, `382`), and section 6 has what that may do.

## 3. Runs

| Run | Size | Question |
|---|---|---|
| `engine` | 7 specs, 4 choices, 9 iterations, 2 prefixes | Does a pass keep spec, chain and file together and end? |
| `pipeline` | 2 choices, chains up to 4, 1 + 2 retries, 1 TLC retry, limit 25 | Does the run judge what it compiled, and end by its own budgets? |
| `shift_add` | 2-bit operands, all port and start histories | Does the block answer each job rightly, in time, once? |
| `ledger` | 2 processes, cap 3, calls of 1 or 2, 2 upsets | How far can spending pass the cap, and what makes the ledger drift? |
| `circuit` | 4 designs, 2 registers or a 2-word memory, widths 1 and 2, all stimuli | Do the rules and the composition keep the meaning of the actions? |
| `vectors` | 11 cases, up to 4 vectors, a soak of 3 cycles with every stimulus | Is right RTL passed, and does a pass mean anything? |
| `expressions` | texts of 3 operators, actions of 3 clauses, 2 registers and a memory, all valuations | Do TLC, simulator and hardware read a text alike? |
| `zero_iterations` | 2-bit operands | Is a discharged derivation always safe to schedule? |
| `held_reset` | `held` | Do the two harnesses drive every vector alike? |
| `port_alias` | `twoport` | Is there one driver per memory? |
| `later_guard` | `compare` | Does a later step's guard see the earlier step? |
| `negated_comparison` | as `expressions`, negations without parentheses | May a comparison be negated as the prompt has it? |

The first seven pass; each of the others violates the one property it checks, and
`findings` in `PROJECT.json` quotes the text it contradicts.

*Engine bounds.* The library has a spec with no rule, a two-cycle, no-ops, a spec
TLC rejects, choices that raise and one that escapes; 9 iterations suffice for two
complete rollbacks with strikes on both sides, and depth 2 of `MAX_BACKTRACK_DEPTH`
makes both its exits occur (chain exhausted, depth exhausted). One prefix is empty
and the other is not, as after a truncation. The theorems remove these bounds.

*Pipeline bounds.* `MaxChain = 4` lets a chain grow to four steps, where a backtrack
drops two, and be backtracked twice. `BacktrackSteps`, the retry limits and the
recursion limit have the code's values; `MaxTlcRetries` is 1 instead of 3, since an
attempt changes nothing but the version. Deadlock is not checked because a run ends.

*Block bounds.* Two bits exercise both branches of the body and every width, and
the loop takes as many cycles as bits. TLC's integers force 2^16 for the
evaluator's 2^32, which these operands do not reach. `Applies` evaluates
`Schedulable`, so the theorems' hypothesis holds of a real derivation.

*Circuit bounds.* `counter` has two exclusive writers and a hold, and wires listed
before the wires they read; `regfile` reads and writes one memory at one edge, at
undefined addresses too; `alu` may be refined flat, by branches or by steps; `toggle`
introduces a register, with a reset value or without, before or after the reset action is
written, initializes it or not, and assigns it to the right action or to a wire's. Every
order of the rules is explored, with picks that name wires, memories and missing
actions, and after reset every input vector at every state; two bits overflow.
Deadlock is not checked: a picker may run out of offers (an action clocked before
its update is assigned stalls, as in the code) and Compiler 2 may refuse. There is
no fairness, as all properties are safety. `twoport` and `compare` each
violate one property, by the findings of their runs, and are no part of
`circuit`: there `EdgeFiresEnabled` holds with one target per memory,
`FormsMeanWhatTheySay` with guards that no earlier step changes, and
`KnownAfterReset` of specs whose reset branch names every register. `toggle` reaches
others too, by a second Initialization and by a register that brings its value along:
there nothing is promised (`Missed`, section 6).

*Vector bounds.* The counter wraps within four vectors and its flag is a wire; the
register file reads words that were never written, so its spec is undefined at some
vectors and not at others. `wild` is RTL that one directed vector catches and `hidden`
RTL that only a soak can, if its stimulus disables the counter once: all stimuli of
three cycles are tried, where the code tries one of 2000. `slip` has a wrong
expectation and one on a wire, `spare` an output that the spec never drives, `empty`
no vectors. `held`, `spelled` and `bare` are the three ways in which the harnesses part,
each of which fails right RTL; `held_reset` shows the first. They are in `vectors` too,
where the properties must hold around them. Deadlock is not checked because Stage 4
ends. All properties are safety.

*Text bounds.* Three operators make every pair of neighbours in the precedence tables
and every pair under a third; operands are a 1-bit register, a literal (which widens
its context to a word) and a memory element. `Word = 4` stands for 32: registers have
at most two bits and texts at most three operators, so that a word is wide enough for
what 32 bits are wide enough for, and differences still wrap. Three clauses make a
substitution into a substituted text and a conditional in a conditional in `THEN`;
guards and phrases with `NOT` and `mod` are among the clauses.
Negations are enclosed on both sides in `expressions`; `negated_comparison` shows why.
`VerifiedIsBuilt` and `BuiltAsSimulated` speak of valuations at which no intermediate
value leaves the width of its context, which `spec_sim.py:75` excepts; `BuiltAsSimulated`
of texts that the simulator reads to the end; `CompositionKeepsMeaning` of branches of
which at most one fires and of intermediate values that fit their register;
`CompositionBuilds` of branches with a guard each and of steps that take no conditional
as an operand. That branches are exclusive is what the rule documents; each other
restriction excludes a difference listed in section 6. Deadlock is not checked: a text has a maximal length.

*Ledger bounds.* Two processes make every race of the check with the charge; cost 2
exceeds the reserve of 1 and cost 1 does not. `MaxUpsets` bounds failed appends and
maintenance commands together: two are enough to interrupt a migration and run it
again, to record a baseline after a loss, or to lose twice. A log that cannot be written
for good, or an endpoint that never reports usage, is outside this bound: under it the
check refuses nobody and no call ends, so `SpendingStops` reads "if only finitely many
calls go unlogged" (section 6). `Ceiling` stops the ghost
counter well above every value it reaches. Without the term for what the ledger missed,
without the one for what migrate moved, or without the reserve in the check, the run
fails: the bound is tight.

*Fairness.* The engine and the graph run in one thread whose calls return (an LLM
call answers or times out, TLC terminates on these specs), so weak fairness of
their steps is what the interpreter gives; `Prune` has none, being another
process. `SpendingStops` needs none: it says that calls cease whether or not the
processes go on. The block's clock does not stop; reset and ports are free.

## 4. Properties

Engine: `SpecIsReplay`, `DoneIsReproducible`, `DiskReplays` relate memory, file and
result across rollbacks; `NoExcludedChoiceInChain` is what backtracking needs to make
progress (and `FreshBudgetOnRollback` and `RolledBackIsExcluded`, which are only
proved); `Terminates`; `ImplementsContract`.

Control plane: `ReferenceIsWhatWasCompiled` is the one the evidence rests on, since
the vector check and the soak rebuild their reference from the files;
`SuccessIsRefined`, `LimitNotNeeded`, `Ends`; `RecoveryStartsElsewhere` says where a
recovery starts and not where it arrives, since the engine may pick the same steps again;
`BacktrackHasSteps` is only proved.

Block: `ResultStands`, `LatencyBounded`, `OnTrack`, `JobsEnd`, `KeepsPromise`.

Rules and circuit: `EdgeFiresEnabled` and `FormsMeanWhatTheySay` compare the composed
edge with the actions taken one at a time (`Effect`, the text TLC was given, and
`Meaning`); `WiresSettled`; `WiresAndMemoriesStayOut` and `RefinementOnlyAdds` are
about the rules under any picker; `KnownAfterReset` needs both, and a reset branch that
names every register.

Vector check: `NoFalseRed` compares two histories made by different rules, for the whole
stream of vectors; `PassMeansMatched` is its converse, and with it no output goes
unasserted; `DisagreementSurfaced` relates Agent 1's vectors, the RTL and the report.

Texts: `VerifiedIsBuilt` compares three readers of one text, TLC's the reference;
`BuiltAsSimulated` the two that judge and make the hardware, on agents' texts and on
composed ones; `CompositionKeepsMeaning` compares a composed text with the clauses taken
one at a time; `CompositionBuilds` says that composing makes nothing that Compiler 2
or the Verilog tools refuse.

Ledger: `OvershootBounded` is what is left of the "hard cap" (README.md of the
repository) once two processes check before either has logged; `OnlyFaultsDrift` is about callers and
`BaselineReconciles` about maintenance; `SpendingStops` if only finitely many calls go
unlogged.

## 5. Proofs

tlapm proves, for all values of the constants under the named assumptions, what follows.
Replays, sums, walks, passes over wires and folds are all recursive functions.
`Recursion` proves once, by induction over intervals as sets, that such a function of a
named step exists and is the only one; the proof modules instantiate it with their steps.

- **Engine** (`RefinementEngine_proof`; `LibraryAssumption`, `EngineAssumption`):
  all safety properties above, that the chain on disk is a refinement at every
  moment (`EngineDiskIsRefinement`), and the implementation of the contract. The
  inductive invariant `IInv` adds to the properties what they lean on: the chain in
  memory is a refinement of the given spec and the one on disk of the abstract spec, so
  that truncating either replays to an unfinished spec, and strikes are zero below the
  current depth. Its first part is what a concatenation, a prefix and one more step do to
  replays and to refinements. `ContractKeepsPromise` proves of the contract alone what a
  caller concludes from the file and the result, and `EngineKeepsPromise` carries
  it over to the engine. `EngineEnds`: every step, strikes and rollbacks included, uses up
  some of `Left`, a natural number.
- **Control plane** (`Pipeline_proof`; `PipelineAssumption`): every safety property.
  `SuccessIsRefined` and `ReferenceIsWhatWasCompiled` are not inductive: a backtrack
  compiles from what the file said several nodes ago. `LineageInv` says, for each
  `pc`, how start, result, compiled RTL, spec on disk and chain on disk descend from
  one another, with the clean-up as the exception it is. `PipelineBudget` counts:
  each recovery costs one unit of budget and at most three supersteps, so the limit
  25 of LangGraph is more than enough for the code's values. `PipelineEnds`: every step
  is counted against the recursion limit or brings down what is left of its node (`ToGo`).
- **Control plane over the engine** (`Pipeline_proof`; `Meant` and, as a hypothesis on the
  behaviour, `EngineKeepsContract`). `Meant` gives the spec numbers a meaning: each
  authoring is a spec of a rule library that is not RTL-style yet, as the bridge makes none
  that has a reset action. `EngineKeepsContract` says of a *sound* call, one that finds a
  refinement of the newest spec on disk and passes its replay, what `EngineKeepsPromise`
  proves of the engine. `PipelineCallsEngine` discharges the other half: every call is
  sound, after any number of revisions and backtracks, given that the earlier ones kept
  the contract; and what comes back is longer, which is the guard of `EngineReturns`.
  So neither side assumes what the other does not show, and `PipelineSuccessRefines` and
  `PipelineJudgesFinished` follow: what succeeds, and what Stage 4 judges against, are
  finished refinements and never partial chains. The inductive invariant is `Sound`
  beside `LineageInv`. TLC confirmed on a small library, with numbers given a meaning,
  that `Sound` holds and that success and a backtrack are reached under the hypotheses.
- **Block** (`HandshakeFSM_proof`; `KernelAssumption`, `BlockAssumption`,
  `GateAssumption`, and `Schedulable` as a hypothesis of each theorem): type
  correctness, `OnTrack`, `ResultStands`, `LatencyBounded`, `KeepsPromise`, for every
  derivation. The argument is a lockstep with the kernel's walk: a load puts the
  registers at its start, a busy edge advances both by one, and O3 applies where the
  walk leaves the loop. O1 and O2 are carried over likewise: `BlockCarriesInvariant` and
  `BlockVariantFalls` say of the registers what the kernel checked of the walk, so that
  each busy edge brings a job nearer to its end. The violated run drops one
  conjunct of `Schedulable` and shows that the theorem needs it.
- **Rules** (`SpecCircuit_proof`; `NoneAssumption`, `TextAssumption`,
  `DesignAssumption`, and `PickerDocuments`, that offers have documented types, as a
  hypothesis): `RefinementOnlyAdds` and `WiresAndMemoriesStayOut`, for every design and
  picker. The inductive invariant is `SInv`: the spec has its shape, continuous logic is
  plain, wires and memories have no reset value. Its core is one lemma per rule
  (`...Keeps`), on top of one lemma for rules that rewrite actions (`Rewritten`) and one
  for those that rewrite variables (`Revalued`). That the reset branch drives neither a
  wire nor a memory needs more: `Spares` says that the picker leaves the reset action to
  Initialization and does not give it the name of another action. The code enforces
  neither (a pick that assigns the reset action is applied, and an action that already
  has the name becomes the reset action as it is), so it is a hypothesis.
- **Rules as a library** (`SpecCircuit_proof`; the above and `LibraryTexts`, that nothing is
  both a spec and an exception and that a rule given params it does not document makes
  a spec or raises). `Library` is `RuleLibrary` with the six rules for its `Applicable` and
  `Result` and the dicts whose names are texts for its `Specs`. `RulesAreLibrary` proves
  the assumption under which everything is proved of the engine. `CommitsRefines`: what
  the engine may commit of a documented choice is a step `Refines` of the circuit, and
  nothing else is. In one direction, `ChainsRefine` and `DeliveredSpec` follow a chain of any
  length by induction over its steps: what the engine delivers is RTL-style and has
  everything `RefinementOnlyAdds` and `NeverReset` promise, from the given spec and from the
  replay of the prefix alike. In the other, `SpecCommitted` (under `PickerDocuments`
  and `PickerProposes`): in every behaviour of the circuit the spec is the replay of a
  chain that the engine may have committed, and what is compiled and simulated is
  one that it may have delivered. LoopIntroduction and ScheduleHandshakeFSM are not among
  the six; `LoopKernel` and `HandshakeFSM` have them.
- **Composition** (`Composition_proof`; `XAssumption`, and as hypotheses of the theorems
  `Evaluates`, that an expression is worth an int or X, as `spec_sim._eval` documents).
  An environment of a spec (`Envs`) has a value that fits for every register, wire and
  memory element. `ClockEdgeKeeps` and `ResetEdgeKeeps`: an edge leads from environment
  to environment. `SettleSettles`: if each wire has one driver and the wires can be
  ranked so that a text reads only wires of lower rank (`Ranks`; what a text reads is
  what its value depends on, `Agree`), the simulator's passes are enough, in whatever
  order the wires are written; the argument is that after n passes the wires up to rank n
  no longer move. `ClockEdgeKnows` and `ResetEdgeKnows`: an edge makes nothing undefined,
  when texts of known signals are known (`Definite`), and a reset edge leaves nothing
  undefined, when the reset action names every register (`ResetsAll`).
- **Circuit** (`SpecCircuit_proof`; the above and `StimulusAssumption`), for every number
  of actions, branches, wires and words of memory, and every meaning of the expressions:
  the type invariant, from `SInv` and the environments; `WiresSettled`, in designs whose
  wires can be ranked (`Acyclic`); `EdgeFiresEnabled`; `KnownAfterReset`. `OneFires`,
  `NoneFires` and `OneBranch` are the cases of one target: the writer that is on decides,
  wherever it stands. `SpecFires` puts them together for all targets. A scalar follows
  from one target. A memory is a fold of writes in which idle targets write what they
  read, and the proof shows that no later write undoes an earlier one if no two targets of
  the memory have the same address (`PortsApart`). That is exactly what the run
  `port_alias` violates. `WellDriven` says that nothing drives an input and that memories
  are written at an address and scalars without one; `TrueHolds` that `TRUE` is true.
  `SpecKnows` assumes of a design without memory that its texts have values (`Defined`),
  and says `KnownAfterReset`: nothing is undefined if the reset branch names every
  register. `IsRtlStyle` does not guarantee that it does: a variable that
  IntroduceVariable gives a reset value, or one that a second Initialization meets, is
  missing from the reset action (section 6). `SpecPopulated` proves that there is no third
  way: where the picker, besides `Spares`, introduces variables without a reset value and
  initializes once (`OneReset`), every compiled design names every register. The
  inductive invariant (`Populated`) is that before Initialization nothing has a reset
  value, and after it whatever has one is named by each action of the reset action's
  name. `SpecDetermined` puts the two together. `SpecForms` proves `FormsMeanWhatTheySay`.
  For branches that is `OneBranch`. For steps the running values of the composed
  expressions are the registers of steps run one after the other (`RunSteps`), as long as
  both are cut to the width of the register (`Held`, `StepMoves`): one step of the fold
  at a time, then the fold over all updates by `FoldedConcat`. Two hypotheses say when
  that is so. `Orderly`: actions write declared variables that are no wires; a branch
  or a step writes a register once; no guard of a step reads what an earlier step writes
  (the run `later_guard` violates just this); no update reads what its own step wrote, nor
  shows a carry that the register of an earlier step would have cut off (the last but one
  item of section 6). `Decided`: guards have values when all variables have. Nothing in
  the rules enforces `Orderly`; the picker has to. On the designs of `circuit` every hypothesis
  holds, but `OneReset` on `toggle`, which is there to break it: TLC evaluated each of them as an invariant or an action property of that run,
  with values bounded by the widths where a hypothesis ranges over all environments.
- **Vector check** (`VectorCheck_proof`; `SummaryAssumption`, `CaseAssumption`,
  `WarmUpAssumption`): the type invariant, under `Evaluates`, from `ClockEdgeKeeps` and
  `ResetEdgeKeeps` for both histories; `NoFalseRed`, `PassMeansMatched` and `DisagreementSurfaced`, for every design, summary
  and soak length. The inductive invariant adds to the histories' lengths that a bench
  which is not Agent 1's expects exactly what `model` shows, that RTL has shown so far
  what was expected, and that `dut` equals `model` as far as it goes when the RTL is
  right and the vectors are driven alike. The last part carries the level of the reset
  port along (`AlikeDrives`), which is what `held_reset` breaks. `WarmUpAssumption` says
  that a reset pulse forgets the one edge that only the bench has; TLC evaluates it on
  every case. It is an assumption on the design and not on the code: a memory that
  is written at that edge would break it.
- **Ledger** (`UsageLedger_proof`; `LedgerAssumption`, `OldCostAssumption`): every safety
  property, for any number of processes, budget and old ledger. Sums are recursive
  functions over an index; what they need (terms that add up, a replaced term, a
  concatenation, a bound on every term) is proved by induction over intervals.
  `Stamped` (no row is later than the latest timestamp) makes an appended row the
  newest, so that a call adds its cost and a baseline replaces the figure.
  `OvershootBounded` is not inductive, because a caller that has passed the check has
  not been charged yet. `Covered` adds to what was charged the most that the *armed*
  callers may still be charged, those past the check or bound to pass it with what
  they have read; arming takes a fresh reading, when the charges are what the reading
  says, what is in flight and the drift, and a caller is never in flight and armed at
  once. `migrate` may arm callers by taking away the legacy rows they have not read, so
  a second bound counts those callers too and pays `AgentCost(OldRows)` for them, by
  `AgentCostSubadditive`: the figures of two parts of a ledger add up to at least the
  figure of the whole. `OldCostAssumption` only says that the ghost counter starts
  below its bound.

Only model-checked: `Terminates`, `Ends`, `JobsEnd` and `SpendingStops` (liveness is
outside the prover; for the first three `EngineEnds`, `PipelineEnds` and
`BlockLatency` bound the steps that there can be, and what stays with TLC is that
none stops early). The five invariants of `ActionText`: what the readers of
`Expressions` make of a text is a recursive operator, without which a recursive descent
could not be written, and a module that reaches one cannot have theorems.
What a particular derivation
computes is checked for small widths only.

## 6. Not modelled

LLM contents and prompt text. The modules that the compilers emit around the texts, and
Compiler 2's parsing of them. X values in the
kernel's evaluator. The native core, which is identical by contract. A clean-up that
deletes files while a node is writing (the node raises). The structured passes,
which a flag switches off (`_RUN_STRUCTURED_PASSES`): `RefinementEngine` is one pass that
is given the replay of the prefix it finds, as the pass that is left is, and several passes
need not keep to that (below). A `refinement_chain.json` that a crash leaves half written:
`_save_chain` truncates it and writes (`engine.py:172-175`), which the model does at once.
Free inputs and their inferred widths: inputs are given. The runner's results file:
its ways to pass and fail are the verdicts of `VectorCheck` and `Pipeline`. Renaming a
run directory and its latest link, which follow the last node. Prices, session dates
and reports of the ledger; with rates that change, reprice also changes costs.

Known differences between text and code that no run is spent on:

- the comment at `engine.py:341-353` says that structured passes add up to a chain that
  replays, since each starts from what the one before left on disk. A pass that stalls
  leaves its steps on disk, while `current_spec` is not updated (`stage3.py:607-621`), so
  the next one is given another spec than the prefix replays to; `stage3.py:66-77` and
  `docs/refinement.md:277-282` record a chain that did not replay. The passes are
  switched off since; `DoneIsReproducible` speaks of an empty prefix and of a truncated one,
  whose replay the pass is given;
- Stage 3 never reads the testbench artifact, contrary to the comment at
  `graph.py:193`;
- `graph.py`'s docstring gives Stage 1's retry test as `<`; the code and the model
  use `<=`; a request file that is gone is retried without counting (`stage1.py:61`),
  which is why `LimitNotNeeded` excepts it;
- `apply` may raise more than `engine.py:482` catches (`ApplyEscapes`), although one
  bad response is said never to abort a run (`docs/refinement.md:330`);
- `stage3.py:99` calls cycling impossible; re-branching an action back and forth is a
  cycle that only the cap ends;
- RTL compiled after a refinement backtrack reaches the testbench without the critic
  (`stage3.py:1007-1026`; `Backtrack` goes from the engine to `Codegen`), although
  `docs/refinement.md:293` says of the critic gate that unverified RTL never does;
- a scheduled body reads the ports at every busy edge (`schedule_handshake_fsm.py:224`)
  while the kernel walked the loop with the operands fixed (`obligations.py:243`):
  `OperandsLatched` is the condition under which that is the same, and a discharged
  loop that adds a port in each step computes a wrong sum when the port changes;
- `tlc --version` exits with 1 in TLC 2.19 (it knows no such option), and
  `stage3.py:201-203` takes that for an absent TLC: every spec and every refinement step
  passes as verified, where TLC is installed too. The comment at `stage3.py:196` says
  skipped if TLC is not on the path. Both models let the gate accept anything;
- `reprice()` rewrites a day file without a lock (`usage.py:409-443`): a row appended in
  between is gone, although `usage.py:2` calls the ledgers append-only. `RepriceReplaces`
  has it, and the loss counts as drift in `OvershootBounded`;
- the tool loop of agent 3 is a `while True` (`agent3.py:432`) that the budget alone stops. A
  call whose record cannot be written (`usage.py:374`), or whose response has no usage
  and costs 0 (`usage.py:273-274`), does not count: if all calls are like that, the hard cap
  (`README.md:170`) never refuses one;
- a timestamp is taken at `usage.py:348` and `382` and the row appended at `371` and `392`. A
  baseline recorded in between is newer than the row appended after it, so that call is
  not counted on top of it, although the docstring of `record_baseline` (`usage.py:378-380`)
  promises the calls logged after it;
- Initialization stays applicable while a register is unreset, sets reset values each
  time and writes the reset action once (`initialization.py:71-73`): after two
  applications the spec is RTL-style and the reset branch misses the later registers,
  although `engine.py:75` says rule 3 guarantees that it is populated. A variable that
  IntroduceVariable gives a reset value is missed likewise. `circuit` reaches both;
  `KnownAfterReset` leaves such designs out, `SpecPopulated` says which orders are safe;
- `a % b * c` is `a % (b * c)` to TLC and `(a % b) * c` to the simulator and in Verilog;
  `*` is therefore not among the operators of `expressions`;
- the prompt's own `"full": "count = 4"` (`agent3.py:260`) assigns a Boolean, which the
  type invariant that Compiler 1 adds (`compiler1.py:176-179`) cannot compare with a
  number: TLC would reject it;
- a branch with guard `TRUE` becomes `(TRUE) ? ...` (`bridge.py:327`), and Compiler 2
  reserves the name (`compiler2.py:104`) and declares it nowhere: the RTL does not
  elaborate, although `compiler2.py:839` says its pass guarantees that it does;
- a step whose operand is an earlier conditional, or a guarded step whose expression is
  one, is refused by the banlist: `translate_expr` looks for `IF` at the start only.
  `agent3.py:272-275` warns agents of it, the bridge makes such texts itself;
- `a < b < c` is `(a < b) < c` in Verilog; the simulator stops after the first relation;
- a sum of narrow registers without a literal may lose a carry in hardware that the
  simulator keeps (`spec_sim.py:75-77` documents it for subtraction);
- `mod` in a branch's or a step's parameters is not folded (`alternation.py:48`,
  `sequential_composition.py:55`): the bridge takes it for a free input, since it is not among
  the reserved words (`bridge.py:54-62`);
- the scheduler steps the variables of the body (`schedule_handshake_fsm.py:198-200`): a loop
  variable that only the init names is never loaded, and one that only the body names
  raises at `:221`; in `LoopKernel` init and body have the same variables;
- what a step computes is not truncated to its register before a later step reads it in
  the same cycle (`bridge.py:377`);
- an init that names another loop variable loads its old value when scheduled
  (`OperandsLatched`), although `obligations.py:241` calls sequential init fine.

## 7. Plan

Built in this order: engine and contract, control plane, kernel with scheduled block,
ledger, rules with composition and circuit, vector check and soak, texts; then
`SpecCircuit`'s rules as an instance of `RuleLibrary`, and `Pipeline` over the engine's
contract. Next: the two loop rules in the same library, and a shared meaning of
expressions for `LoopKernel` and `Composition`, so that a scheduled block is a spec of
`SpecCircuit`.
