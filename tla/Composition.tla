----------------------------- MODULE Composition ----------------------------
(***************************************************************************)
(* What a refined spec does at a clock edge: bridge.py composes one        *)
(* next-state expression per target from the actions' updates, branches    *)
(* and steps; Compiler 2 prints them and spec_sim.py evaluates them.       *)
(*                                                                         *)
(* An expression is modelled by what it evaluates to: substituting a text  *)
(* for a name is evaluating where the name has the text's value.           *)
(*   env  [sig |-> scalars, mem |-> memories], both by name                *)
(*   X    undefined, as None in spec_sim                                   *)
(***************************************************************************)
EXTENDS EngineSpec

CONSTANTS
  Eval(_, _),   \* Eval(e, env): spec_sim._eval, a number or X
  X

ASSUME XAssumption == X \notin Int

MaskNothing(value, width) == value   \* mutant

Mask(value, width) == IF value = X THEN X ELSE value % 2^width

\* A name without a declared width keeps the value whole.
Commit(spec, v, value) ==
  IF v \in DOMAIN spec.vars THEN Mask(value, spec.vars[v].width) ELSE value

-----------------------------------------------------------------------------
(* Targets: a scalar, or a memory with the expression of the address *)

Target(u) == [var |-> u.var, idx |-> u.idx]

Read(t, env) ==
  IF t.idx = None THEN env.sig[t.var]
  ELSE LET k == Eval(t.idx, env)
       IN  IF k \in DOMAIN env.mem[t.var] THEN env.mem[t.var][k] ELSE X

Groups(a) ==
  IF a.branches # <<>> THEN a.branches
  ELSE IF a.steps # <<>> THEN a.steps
  ELSE <<[guard |-> True, updates |-> a.updates]>>

AllUpdates(a) == FlattenSeq([g \in DOMAIN Groups(a) |-> Groups(a)[g].updates])

AddNew(seen, t) == IF t \in Range(seen) THEN seen ELSE Append(seen, t)

Distinct(ts) == FoldLeft(AddNew, <<>>, ts)

\* First seen, first listed.
TargetsOf(as) ==
  Distinct(FlattenSeq([i \in DOMAIN as |->
    [k \in DOMAIN AllUpdates(as[i]) |-> Target(AllUpdates(as[i])[k])]]))

Writes(a, t) == \E k \in DOMAIN AllUpdates(a) : Target(AllUpdates(a)[k]) = t

-----------------------------------------------------------------------------
(* Conditionals *)

Cond(g, then, else) == IF g = X THEN X ELSE IF g # 0 THEN then ELSE else

\* IF g1 THEN v1 ELSE IF g2 THEN v2 ... ELSE default over those k of 1..n that
\* are clauses.  An undefined guard makes the value undefined.
NestedIf(n, Clause(_), Guard(_), Value(_), default) ==
  LET taken == {k \in 1..n : Clause(k) /\ Guard(k) # 0}
  IN  IF taken = {} THEN default
      ELSE Cond(Guard(Min(taken)), Value(Min(taken)), default)

-----------------------------------------------------------------------------
(* The next value of target t under one action *)

Assigns(g, t) == \E k \in DOMAIN g.updates : Target(g.updates[k]) = t

\* Branches: a branch that leaves t alone is no clause of t.
AlternationValue(a, t, env) ==
  LET b == a.branches
      expr(g) == b[g].updates[SelectInSeq(b[g].updates, LAMBDA u : Target(u) = t)].expr
  IN  NestedIf(Len(b), LAMBDA g : Assigns(b[g], t), LAMBDA g : Eval(b[g].guard, env),
               LAMBDA g : Eval(expr(g), env), Read(t, env))

\* Where scalars have their running values.
Overlay(running, env) ==
  [env EXCEPT !.sig =
     [v \in DOMAIN @ |-> LET t == [var |-> v, idx |-> None]
                         IN  IF t \in DOMAIN running THEN running[t] ELSE @[v]]]

StepGuard(s, env) == IF s.guard = None THEN 1 ELSE Eval(s.guard, env)

\* The updates of all steps, each with what its guard says of the registers.
Flat(a, env) ==
  FlattenSeq([s \in DOMAIN a.steps |->
    [k \in DOMAIN a.steps[s].updates |->
       [guard |-> StepGuard(a.steps[s], env), upd |-> a.steps[s].updates[k]]]])

RunUpdate(env, running, s) ==
  [running EXCEPT ![Target(s.upd)] =
     Cond(s.guard, Eval(s.upd.expr, Overlay(running, env)), @)]

\* Steps: each update sees what the updates before it, of its own step too,
\* have computed.
SequentialValue(a, t, env) ==
  LET start == [u \in Range(TargetsOf(<<a>>)) |-> Read(u, env)]
  IN  FoldLeft(LAMBDA running, s : RunUpdate(env, running, s), start, Flat(a, env))[t]

\* Updates: the last that names t.
FlatValue(a, t, env) ==
  LET k == SelectLastInSeq(a.updates, LAMBDA u : Target(u) = t)
  IN  Eval(a.updates[k].expr, env)

\* Mutant (G12): the flat summary, first branch or step only.
SummaryValue(a, t, env) == FlatValue(a, t, env)

ActionValue(a, t, env) ==
  IF a.branches # <<>> THEN AlternationValue(a, t, env)
  ELSE IF a.steps # <<>> THEN SequentialValue(a, t, env)
  ELSE FlatValue(a, t, env)

-----------------------------------------------------------------------------
(* The next value of target t under all clocked actions *)

Guarded(a) == a.guard # True

\* Mutant (FIX 2): the last action's driver wins, and holds when it is off.
LastDriver(as, t, env) ==
  LET i == CHOOSE n \in DOMAIN as :
             Writes(as[n], t) /\ \A m \in n+1..Len(as) : ~Writes(as[m], t)
  IN  Cond(Eval(as[i].guard, env), ActionValue(as[i], t, env), Read(t, env))

\* The first guarded action that holds, else the first unguarded one, else hold.
NextValue(as, t, env) ==
  LET Value(i) == ActionValue(as[i], t, env)
      free == {i \in DOMAIN as : Writes(as[i], t) /\ ~Guarded(as[i])}
  IN  NestedIf(Len(as), LAMBDA i : Writes(as[i], t) /\ Guarded(as[i]),
               LAMBDA i : Eval(as[i].guard, env), Value,
               IF free = {} THEN Read(t, env) ELSE Value(Min(free)))

-----------------------------------------------------------------------------
(* The parts of a refined spec *)

Clocked(spec) ==
  Only(spec.actions, {i \in Others(spec) : spec.actions[i].clocked})

Wiring(spec) ==
  Only(spec.actions, {i \in Others(spec) : spec.actions[i].comb})

Assigned(spec) ==
  Only(spec.actions, {i \in Others(spec) :
                        ~spec.actions[i].clocked /\ ~IdentityHold(spec.actions[i])})

Resetting(spec) ==
  Only(spec.actions, {i \in DOMAIN spec.actions : spec.actions[i].name = spec.reset})

Bases(as) == {t.var : t \in Range(TargetsOf(as))}

\* Compiler 2 refuses a net with two kinds of driver.
MultiDriver(spec) ==
  Bases(Assigned(spec)) \cap (Bases(Clocked(spec)) \cup Bases(Resetting(spec))) # {}

-----------------------------------------------------------------------------
(* The edge *)

Nets(spec) == FlattenSeq([i \in DOMAIN Wiring(spec) |-> Wiring(spec)[i].updates])

Wire(spec, e, u) == [e EXCEPT !.sig[u.var] = Commit(spec, u.var, Eval(u.expr, e))]

Pass(spec, env) == FoldLeft(LAMBDA e, u : Wire(spec, e, u), env, Nets(spec))

SettleOnce(spec, env) == Pass(spec, env)   \* mutant: one pass

\* Pass after pass over the wires in order, as many as there are and one more.
Settle(spec, env) ==
  LET passes == Len(Nets(spec)) + 1
      pass[n \in 0..passes] == IF n = 0 THEN env ELSE Pass(spec, pass[n-1])
  IN  pass[passes]

WithInputs(env, in) == [env EXCEPT !.sig = [v \in DOMAIN @ |-> IF v \in DOMAIN in THEN in[v] ELSE @[v]]]

\* What the edge sees: the new inputs, the old registers.
Seen(spec, env, in) == Settle(spec, WithInputs(env, in))

\* A write outside a memory is lost.
Write(mem, w) ==
  IF w.var \in DOMAIN mem /\ w.at \in DOMAIN mem[w.var]
  THEN [mem EXCEPT ![w.var][w.at] = w.value] ELSE mem

\* Targets of every clocked action are written at once; writes to one memory
\* take effect in the order of the targets.
ClockEdge(spec, env, in) ==
  LET pre == Seen(spec, env, in)
      as  == Clocked(spec)
      ts  == TargetsOf(as)
      value(t) == Commit(spec, t.var, NextValue(as, t, pre))
      scalars == [v \in DOMAIN pre.sig |->
                    IF [var |-> v, idx |-> None] \in Range(ts)
                    THEN value([var |-> v, idx |-> None]) ELSE pre.sig[v]]
      writes == [i \in DOMAIN ts |->
                   [var |-> ts[i].var, value |-> value(ts[i]),
                    at |-> IF ts[i].idx = None THEN X ELSE Eval(ts[i].idx, pre)]]
  IN  Settle(spec, [sig |-> scalars, mem |-> FoldLeft(Write, pre.mem, writes)])

\* Only the registers that the reset action names change.
ResetEdge(spec, env, in) ==
  LET pre == Seen(spec, env, in)
      ra  == Resetting(spec)
      resets(v) == /\ v \in DOMAIN spec.vars /\ IsRegister(spec, v)
                   /\ ra # <<>> /\ Writes(ra[1], [var |-> v, idx |-> None])
      value(v) == Commit(spec, v, ActionValue(ra[1], [var |-> v, idx |-> None], pre))
  IN  Settle(spec,
        [pre EXCEPT !.sig = [v \in DOMAIN @ |-> IF resets(v) THEN value(v) ELSE @[v]]])
=============================================================================
