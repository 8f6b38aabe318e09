----------------------------- MODULE EngineSpec -----------------------------
(***************************************************************************)
(* The engine's spec dict (bridge.formal_spec_to_engine_spec) and the six  *)
(* rules of Tables 1 and 2 that rewrite it (pipeline/refinement/rules/).   *)
(*                                                                         *)
(*   spec    [vars, actions, reset]                                        *)
(*   vars    a function from names to                                      *)
(*             [width, depth, comb, abstract, reset, clocked]              *)
(*             width = 1 where the code has none;  depth = 0: a scalar;    *)
(*             comb: a wire;  reset: value or None                         *)
(*   actions a sequence, in the order of the FormalSpec, of                *)
(*             [name, guard, updates, branches, steps, clocked, comb]      *)
(*   update  [var, idx, expr], idx = None or the address of a memory write *)
(*   branch, step  [guard, updates]                                        *)
(*                                                                         *)
(* Expressions and guards are names; the module that runs a spec gives     *)
(* them a meaning.  The two rules that derive a loop and schedule it are   *)
(* in LoopKernel and HandshakeFSM.                                         *)
(***************************************************************************)
EXTENDS Integers, Sequences, FiniteSets, SequencesExt

CONSTANT None

ASSUME NoneAssumption == None \notin STRING

True == "TRUE"
RstHigh == "rst = TRUE"

\* A literal is a text: TLC knows, the provers have to be told.
ASSUME TextAssumption == RstHigh \in STRING

-----------------------------------------------------------------------------
(* The shape of the dict *)

IsVariable(r) ==
  r \in [width : Nat \ {0}, depth : Nat, comb : BOOLEAN, abstract : BOOLEAN,
         reset : STRING \cup {None}, clocked : BOOLEAN]

Updates  == [var : STRING, idx : STRING \cup {None}, expr : STRING]
Branches == [guard : STRING, updates : Seq(Updates)]
Steps    == [guard : STRING \cup {None}, updates : Seq(Updates)]
Actions  == [name : STRING, guard : STRING, updates : Seq(Updates),
             branches : Seq(Branches), steps : Seq(Steps),
             clocked : BOOLEAN, comb : BOOLEAN]

IsSpec(s) ==
  /\ s = [vars |-> s.vars, actions |-> s.actions, reset |-> s.reset]
  /\ s.vars = [v \in DOMAIN s.vars |-> s.vars[v]]
  /\ \A v \in DOMAIN s.vars : IsVariable(s.vars[v])
  /\ s.actions \in Seq(Actions)
  /\ s.reset \in STRING \cup {None}

\* What formal_spec_to_engine_spec makes: nothing is decided yet.
IsFresh(s) ==
  /\ IsSpec(s)
  /\ s.reset = None
  /\ \A v \in DOMAIN s.vars : s.vars[v].reset = None
  /\ \A i \in DOMAIN s.actions :
       /\ ~s.actions[i].clocked
       /\ s.actions[i].branches = <<>> /\ s.actions[i].steps = <<>>

RuleNames == {"IntroduceVariable", "Assignment", "Alternation",
              "SequentialComposition", "Iteration", "Initialization"}

\* A choice whose parameters have the types the rule documents.
IsChoice(p) ==
  /\ p.rule \in RuleNames
  /\ p.rule = "IntroduceVariable" =>
       /\ p.name \in STRING /\ p.width \in Nat \ {0} /\ p.abstract \in BOOLEAN
       /\ p.reset \in STRING \cup {None}
  /\ p.rule = "Assignment" => p.updates \in Seq(Updates)
  /\ p.rule = "Alternation" => p.branches \in Seq(Branches)
  /\ p.rule = "SequentialComposition" => p.steps \in Seq(Steps)
  /\ p.rule = "Initialization" => p.name \in STRING /\ p.values \in Seq(Updates)

Update(v, e) == [var |-> v, idx |-> None, expr |-> e]

\* The elements of s at the indices I, in their order.
Only(s, I) == FlattenSeq([i \in DOMAIN s |-> IF i \in I THEN <<s[i]>> ELSE <<>>])

-----------------------------------------------------------------------------
(* What the rules and the termination test ask of a spec *)

IsWire(spec, v)   == spec.vars[v].comb
IsMemory(spec, v) == spec.vars[v].depth > 0
IsRegister(spec, v) == ~IsWire(spec, v) /\ ~IsMemory(spec, v)

\* Every action but those that bear the reset action's name.
Others(spec) ==
  {i \in DOMAIN spec.actions :
     spec.reset = None \/ spec.actions[i].name # spec.reset}

IdentityHold(a) ==
  /\ a.branches = <<>> /\ a.steps = <<>> /\ a.updates # <<>>
  /\ \A k \in DOMAIN a.updates : a.updates[k].expr = a.updates[k].var

IsRtlStyle(spec) ==
  /\ DOMAIN spec.vars # {}
  /\ spec.reset # None
  /\ Others(spec) # {}
  /\ \A v \in DOMAIN spec.vars :
       /\ ~spec.vars[v].abstract
       /\ IsRegister(spec, v) => spec.vars[v].reset # None
  /\ \A i \in Others(spec) :
       LET a == spec.actions[i]
       IN  IdentityHold(a) \/ a.comb \/ (a.clocked /\ a.updates # <<>>)

-----------------------------------------------------------------------------
(* The rules.  p is what the picker proposes: a rule and its parameters.   *)

Mentions(us, v) == \E k \in DOMAIN us : us[k].var = v

KeepFirst(seen, u) == IF Mentions(seen, u.var) THEN seen ELSE Append(seen, u)

\* One update per variable: the first that names it.
Frame(groups) ==
  FoldLeft(KeepFirst, <<>>, FlattenSeq([g \in DOMAIN groups |-> groups[g].updates]))

KeepLast(seen, u) ==
  IF Mentions(seen, u.var)
  THEN [k \in DOMAIN seen |-> IF seen[k].var = u.var THEN u ELSE seen[k]]
  ELSE Append(seen, u)

\* One update per variable: the last that names it, in the place of the first.
Merge(old, new) == FoldLeft(KeepLast, <<>>, old \o new)

IsFirst(spec, i, name) ==
  /\ spec.actions[i].name = name
  /\ \A j \in 1..i-1 : spec.actions[j].name # name

\* Apply Change to the first action of that name, if there is one.
Rewrite(spec, name, Change(_)) ==
  [spec EXCEPT !.actions =
     [i \in DOMAIN @ |-> IF IsFirst(spec, i, name) THEN Change(@[i]) ELSE @[i]]]

IntroduceVariable(spec, p) ==
  [spec EXCEPT !.vars =
     [v \in DOMAIN @ \cup {p.name} |->
        IF v = p.name
        THEN [width |-> p.width, depth |-> 0, comb |-> FALSE,
              abstract |-> p.abstract, reset |-> p.reset, clocked |-> FALSE]
        ELSE @[v]]]

Assignment(spec, p) ==
  Rewrite(spec, p.action, LAMBDA a : [a EXCEPT !.updates = Merge(@, p.updates)])

\* A combinational action is never split.
Alternation(spec, p) ==
  Rewrite(spec, p.action,
    LAMBDA a : IF a.comb THEN a
               ELSE [a EXCEPT !.branches = p.branches,
                              !.updates = Frame(p.branches)])

\* The first step inherits the guard of the action.
Inherited(steps, guard) ==
  IF steps = <<>> \/ steps[1].guard # None THEN steps
  ELSE [steps EXCEPT ![1].guard = guard]

SequentialComposition(spec, p) ==
  Rewrite(spec, p.action,
    LAMBDA a : IF a.comb THEN a
               ELSE [a EXCEPT !.steps = Inherited(p.steps, a.guard),
                              !.updates = Frame(p.steps)])

ClockableAny(a) == ~a.clocked   \* mutant: continuous logic is clocked

Clockable(a) == ~a.clocked /\ ~a.comb

\* Clock the action and make what it updates storage, once.
Iteration(spec, p) ==
  LET clockable == \E i \in DOMAIN spec.actions :
                     IsFirst(spec, i, p.action) /\ Clockable(spec.actions[i])
      written(v) == \E i \in DOMAIN spec.actions :
                      /\ spec.actions[i].name = p.action
                      /\ Mentions(spec.actions[i].updates, v)
      clocked == Rewrite(spec, p.action, LAMBDA a : [a EXCEPT !.clocked = TRUE])
  IN  IF ~clockable THEN spec
      ELSE [clocked EXCEPT !.vars =
              [v \in DOMAIN @ |->
                 IF written(v)
                 THEN [@[v] EXCEPT !.clocked = TRUE, !.abstract = FALSE]
                 ELSE @[v]]]

\* Memories and wires are never reset.
Unresettable(spec) == {v \in DOMAIN spec.vars : ~IsRegister(spec, v)}

ResetAction(spec, p) ==
  [name |-> p.name, guard |-> RstHigh,
   updates |-> Only(p.values,
                    {k \in DOMAIN p.values : p.values[k].var \notin Unresettable(spec)}),
   branches |-> <<>>, steps |-> <<>>, clocked |-> FALSE, comb |-> FALSE]

Valued(values, v) == {u \in Range(values) : u.var = v}

\* Mutant: a register that this application does not name loses its value.
ResetAfresh(spec, values, v) ==
  IF Valued(values, v) # {} /\ v \notin Unresettable(spec)
  THEN (CHOOSE u \in Valued(values, v) : TRUE).expr ELSE None

ResetValue(spec, values, v) ==
  IF Valued(values, v) # {} /\ v \notin Unresettable(spec)
  THEN (CHOOSE u \in Valued(values, v) : TRUE).expr ELSE spec.vars[v].reset

Named(spec, name) == \E i \in DOMAIN spec.actions : spec.actions[i].name = name

\* values: the updates that reset_values spells.  An action that already has
\* the name becomes the reset action as it is.
Initialization(spec, p) ==
  [vars |-> [v \in DOMAIN spec.vars |->
               [spec.vars[v] EXCEPT !.reset = ResetValue(spec, p.values, v)]],
   actions |-> IF Named(spec, p.name) THEN spec.actions
               ELSE Append(spec.actions, ResetAction(spec, p)),
   reset |-> p.name]

-----------------------------------------------------------------------------
IsApplicable(rule, spec) ==
  LET Some(Test(_)) == \E i \in Others(spec) : Test(spec.actions[i])
  IN  CASE rule = "IntroduceVariable" -> TRUE
        [] rule = "Assignment"  -> Some(LAMBDA a : a.updates = <<>>)
        [] rule = "Alternation" -> Some(LAMBDA a : a.branches = <<>> /\ ~a.comb)
        [] rule = "SequentialComposition" ->
             Some(LAMBDA a : a.steps = <<>> /\ a.branches = <<>> /\ ~a.comb)
        [] rule = "Iteration" -> Some(Clockable)
        [] rule = "Initialization" ->
             /\ DOMAIN spec.vars # {}
             /\ \/ spec.reset = None
                \/ \E v \in DOMAIN spec.vars :
                     IsRegister(spec, v) /\ spec.vars[v].reset = None

\* IntroduceVariable raises on a name it knows; the engine then keeps the spec.
Apply(p, spec) ==
  CASE p.rule = "IntroduceVariable" ->
         IF p.name \in DOMAIN spec.vars THEN spec ELSE IntroduceVariable(spec, p)
    [] p.rule = "Assignment"            -> Assignment(spec, p)
    [] p.rule = "Alternation"           -> Alternation(spec, p)
    [] p.rule = "SequentialComposition" -> SequentialComposition(spec, p)
    [] p.rule = "Iteration"             -> Iteration(spec, p)
    [] p.rule = "Initialization"        -> Initialization(spec, p)
=============================================================================
