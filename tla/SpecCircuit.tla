----------------------------- MODULE SpecCircuit ----------------------------
(***************************************************************************)
(* The life of a design from FormalSpec to hardware: rules are applied     *)
(* until the spec is RTL-style, Compiler 2 accepts or refuses it, the      *)
(* harness pulses reset, then one edge per vector (SpecSimulator.run, and  *)
(* the bench that generator.py writes).                                    *)
(*                                                                         *)
(* The picker is any choice among Offers; exclusions, rollbacks and the    *)
(* TLC gate of the engine are in RefinementEngine and only forbid steps.   *)
(***************************************************************************)
EXTENDS Composition

CONSTANTS
  Designs,   \* the names of the designs
  Given,     \* Given[d]: the spec that formal_spec_to_engine_spec makes of d
  Offers(_, _), \* Offers(d, s): what the picker may propose for spec s of d
  Stimuli    \* Stimuli[d]: the input valuations of a test vector

ASSUME DesignAssumption == \A x \in Designs : IsFresh(Given[x])

\* Every vector of a design drives the same inputs, with ints or nothing.
ASSUME StimulusAssumption ==
  \A x \in Designs :
    /\ Stimuli[x] # {}
    /\ \A in, other \in Stimuli[x] : in \in [DOMAIN other -> Int \cup {X}]

VARIABLES
  d,         \* the design at work
  spec,      \* the engine spec
  phase,     \* where in its life; "reset" and "run" tell the last edge
  env        \* the signals

vars == <<d, spec, phase, env>>

Inputs == DOMAIN (CHOOSE in \in Stimuli[d] : TRUE)

\* Registers, wires and memories are undefined at power-on, inputs too.
PowerOn(s) ==
  [sig |-> [v \in {w \in DOMAIN s.vars : ~IsMemory(s, w)} \cup Inputs |-> X],
   mem |-> [v \in {w \in DOMAIN s.vars : IsMemory(s, w)} |->
              [k \in 0..s.vars[v].depth - 1 |-> X]]]

Nothing == [sig |-> <<>>, mem |-> <<>>]

Init ==
  /\ d \in Designs
  /\ spec = Given[d]
  /\ phase = "refine"
  /\ env = Nothing

\* One iteration of the engine that makes t of s: an applicable rule that
\* changes something (no-op guard).
Refines(p, s, t) ==
  /\ ~IsRtlStyle(s)
  /\ IsApplicable(p.rule, s)
  /\ t = Apply(p, s)
  /\ t # s

Refine(p) ==
  /\ phase = "refine"
  /\ Refines(p, spec, spec')
  /\ UNCHANGED <<d, phase, env>>

Compile ==
  /\ phase = "refine"
  /\ IsRtlStyle(spec)
  /\ phase' = IF MultiDriver(spec) THEN "refused" ELSE "power"
  /\ env' = IF MultiDriver(spec) THEN env ELSE PowerOn(spec)
  /\ UNCHANGED <<d, spec>>

IdleFloating == [i \in Inputs |-> X]   \* mutant: inputs not driven

\* The harness holds every input at 0 across the reset pulse.
Idle == [i \in Inputs |-> 0]

AssertReset ==
  /\ phase = "power"
  /\ phase' = "pulse"
  /\ env' = ResetEdge(spec, env, Idle)
  /\ UNCHANGED <<d, spec>>

DeassertReset ==
  /\ phase = "pulse"
  /\ phase' = "run"
  /\ env' = ClockEdge(spec, env, Idle)
  /\ UNCHANGED <<d, spec>>

Vector(in) ==
  /\ phase \in {"run", "reset"}
  /\ phase' = "run"
  /\ env' = ClockEdge(spec, env, in)
  /\ UNCHANGED <<d, spec>>

\* A vector that drives the reset port.
ResetVector(in) ==
  /\ phase \in {"run", "reset"}
  /\ phase' = "reset"
  /\ env' = ResetEdge(spec, env, in)
  /\ UNCHANGED <<d, spec>>

Next ==
  \/ \E p \in Offers(d, spec) : Refine(p)
  \/ Compile
  \/ AssertReset
  \/ DeassertReset
  \/ \E in \in Stimuli[d] : Vector(in) \/ ResetVector(in)

Spec == Init /\ [][Next]_vars

-----------------------------------------------------------------------------
Built == phase \in {"power", "pulse", "run", "reset"}

Fits(v, value) == value = X \/ value \in 0..2^spec.vars[v].width - 1

\* The spec keeps its shape, the picker is offered what the rules document, and
\* every register, wire and memory element holds what its width can hold; an
\* input holds what it is driven to.
TypeOK ==
  /\ d \in Designs
  /\ phase \in {"refine", "refused", "power", "pulse", "run", "reset"}
  /\ IsSpec(spec)
  /\ \A p \in Offers(d, spec) : IsChoice(p)
  /\ Built =>
       \A v \in DOMAIN spec.vars \ Inputs :
         IF IsMemory(spec, v)
         THEN \A k \in 0..spec.vars[v].depth - 1 : Fits(v, env.mem[v][k])
         ELSE Fits(v, env.sig[v])

-----------------------------------------------------------------------------
(* What an edge does *)

\* The inputs of the edge that led here.
Driven == [i \in Inputs |-> env.sig[i]]

Known(e) == e # X

\* The clocked actions whose guards hold when the edge comes.
Firing(pre) ==
  {i \in DOMAIN Clocked(spec) : Eval(Clocked(spec)[i].guard, pre) # 0}

WrittenBy(i) == Bases(<<Clocked(spec)[i]>>)

\* What TLC was shown of an action (engine_spec_to_abstract_tla): its targets
\* take their values, a memory changes at the address, nothing else moves.
Effect(i, pre, old, v) ==
  LET a == Clocked(spec)[i]
      mine == {t \in Range(TargetsOf(<<a>>)) : t.var = v}
  IN  IF IsMemory(spec, v)
      THEN [k \in DOMAIN old |->
              LET hit == {t \in mine : Eval(t.idx, pre) = k}
              IN  IF hit = {} THEN old[k]
                  ELSE Mask(ActionValue(a, CHOOSE t \in hit : TRUE, pre),
                            spec.vars[v].width)]
      ELSE Mask(ActionValue(a, CHOOSE t \in mine : TRUE, pre), spec.vars[v].width)

Store(e, v) == IF IsMemory(spec, v) THEN e.mem[v] ELSE e.sig[v]

\* A normal edge performs the actions whose guards hold, and no other: what
\* one of them writes gets its value, what none writes keeps its own.  The
\* bridge promises one driver per variable, whatever the number of actions.
\* Edges at which two firing actions write one variable are left out; there
\* the first wins.
EdgeFires ==
  phase' = "run" =>
    LET pre == Seen(spec, env, Driven')
        firing == Firing(pre)
    IN  (/\ \A i \in DOMAIN Clocked(spec) : Known(Eval(Clocked(spec)[i].guard, pre))
         /\ \A i, j \in firing : i # j => WrittenBy(i) \cap WrittenBy(j) = {})
        => \A v \in DOMAIN spec.vars \ Bases(Wiring(spec)) :
             LET by == {i \in firing : v \in WrittenBy(i)}
                 old == Store(pre, v)
             IN  Store(env', v) =
                   IF by = {} THEN old
                   ELSE Effect(CHOOSE i \in by : TRUE, pre, old, v)

EdgeFiresEnabled == [][EdgeFires]_vars

\* Every wire shows its equation over the registers and inputs of the moment,
\* through any chain of wires, before and after the reset.
WiresSettled ==
  phase \in {"pulse", "run", "reset"} =>
    \A i \in DOMAIN Wiring(spec) : \A k \in DOMAIN Wiring(spec)[i].updates :
      LET u == Wiring(spec)[i].updates[k]
      IN  env.sig[u.var] = Mask(Eval(u.expr, env), spec.vars[u.var].width)

-----------------------------------------------------------------------------
(* What the forms of an action mean *)

\* One step after the other, each on the registers as the steps before left
\* them; the updates of one step at once.
RunSteps(a, pre) ==
  LET After(e, s) ==
        IF StepGuard(s, e) = 0 THEN e
        ELSE [e EXCEPT !.sig = [v \in DOMAIN @ |->
                LET mine == {k \in DOMAIN s.updates : s.updates[k].var = v}
                IN  IF mine = {} THEN @[v]
                    ELSE Mask(Eval(s.updates[CHOOSE k \in mine : TRUE].expr, e),
                              spec.vars[v].width)]]
  IN  FoldLeft(After, pre, a.steps)

\* The first branch whose guard holds, and no other.
TakeBranch(a, pre) ==
  LET k == SelectInSeq(a.branches, LAMBDA b : Eval(b.guard, pre) # 0)
  IN  IF k = 0 THEN pre ELSE RunSteps([steps |-> <<a.branches[k]>>], pre)

Meaning(a, pre) ==
  IF a.branches # <<>> THEN TakeBranch(a, pre) ELSE RunSteps(a, pre)

Unambiguous(a, pre) ==
  LET on == {k \in DOMAIN a.branches : Eval(a.branches[k].guard, pre) # 0}
  IN  \A j, k \in on : j = k

\* An action with exclusive branches or with steps leaves, when it fires
\* alone, what running its branch or its steps in order leaves (known guards,
\* scalars).  Two branches or steps that assign one variable both count.
FormsMean ==
  phase' = "run" =>
    LET pre == Seen(spec, env, Driven')
    IN  \A i \in Firing(pre) :
          LET a == Clocked(spec)[i]
          IN  (/\ Firing(pre) = {i}
               /\ a.branches # <<>> \/ a.steps # <<>>
               /\ Unambiguous(a, pre)
               /\ \A v \in DOMAIN spec.vars : Known(Store(pre, v)))
              => \A v \in WrittenBy(i) :
                   ~IsMemory(spec, v) => env'.sig[v] = Meaning(a, pre).sig[v]

FormsMeanWhatTheySay == [][FormsMean]_vars

-----------------------------------------------------------------------------
(* What the rules leave alone, and what reset guarantees *)

ContinuousStays(s) ==
  \A i \in DOMAIN s.actions :
    s.actions[i].comb =>
      /\ ~s.actions[i].clocked
      /\ s.actions[i].branches = <<>> /\ s.actions[i].steps = <<>>

NeverReset(s) == \A v \in Unresettable(s) : s.vars[v].reset = None

\* No rule clocks, splits or resets continuous logic, or resets a memory,
\* though the picker may name any of them; nor does the reset branch drive one.
WiresAndMemoriesStayOut ==
  /\ ContinuousStays(spec)
  /\ NeverReset(spec)
  /\ spec.reset # None => Bases(Resetting(spec)) \cap Unresettable(spec) = {}

Adds(s, t) ==
  /\ DOMAIN s.vars \subseteq DOMAIN t.vars
  /\ \A v \in DOMAIN s.vars :
       /\ ~s.vars[v].abstract => ~t.vars[v].abstract
       /\ s.vars[v].clocked => t.vars[v].clocked
       /\ s.vars[v].reset # None => t.vars[v].reset # None
  /\ DOMAIN s.actions \subseteq DOMAIN t.actions
  /\ \A i \in DOMAIN s.actions :
       /\ t.actions[i].name = s.actions[i].name
       /\ s.actions[i].clocked => t.actions[i].clocked

\* Refinement never takes back what a rule has decided: a variable stays,
\* stays concrete, clocked and reset; an action stays and stays clocked.
RefinementOnlyAdds == [][Adds(spec, spec')]_vars

\* The registers that the reset branch leaves alone.  The rules do not exclude
\* them: Initialization writes the reset action once and then sets reset values
\* only, and IntroduceVariable may bring a reset value along.
Missed(s) ==
  LET ra == Resetting(s)
  IN  {v \in DOMAIN s.vars :
         IsRegister(s, v) /\ (ra = <<>> \/ ~Writes(ra[1], [var |-> v, idx |-> None]))}

\* In a design without memory whose reset branch names every register, no signal
\* is undefined once the harness has pulsed reset, whatever the order of the
\* rules and of resets and vectors.
KnownAfterReset ==
  /\ phase \in {"run", "reset"}
  /\ \A v \in DOMAIN spec.vars : ~IsMemory(spec, v)
  /\ Missed(spec) = {}
  => \A v \in DOMAIN env.sig : Known(env.sig[v])
=============================================================================
