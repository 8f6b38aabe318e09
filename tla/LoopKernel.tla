----------------------------- MODULE LoopKernel -----------------------------
(***************************************************************************)
(* The obligation kernel (pipeline/refinement/obligations.py): what it     *)
(* checks of a derivation, a candidate loop for a specification statement  *)
(* (LoopIntroduction).                                                     *)
(*                                                                         *)
(* A derivation is a set of expressions.  Each is an operator of the input *)
(* valuation and of the store of loop variables, so an expression reads    *)
(* what it is given and nothing else.  Truth values are numbers, as in     *)
(* spec_sim._eval.  Expressions that evaluate to X are out of scope.       *)
(***************************************************************************)
EXTENDS Integers, Sequences, FiniteSets

CONSTANTS
  LoopVars,          \* the variables that init and body assign
  InitOrder,         \* the same in the order of the init dict
  InitExpr(_, _, _), \* InitExpr(v, in, s): init[v]
  BodyExpr(_, _, _), \* BodyExpr(v, in, s): body[v]
  Guard(_, _),
  Invariant(_, _),
  Variant(_, _),
  Post(_, _),        \* the postcondition behind the mapping
  Unset,             \* what a loop variable is before init assigns it
  ProposedInputs,    \* the valuations of the proposer's input_widths
  Sample,            \* the battery used when they are too many
  Threshold,         \* exhaustive_threshold = 65536
  MaxIters           \* max_iters = 64

ASSUME KernelAssumption ==
  /\ InitOrder \in Seq(LoopVars)
  /\ \A v \in LoopVars : \E k \in 1..Len(InitOrder) : InitOrder[k] = v
  /\ \A j, k \in 1..Len(InitOrder) : InitOrder[j] = InitOrder[k] => j = k
  /\ MaxIters \in Nat \ {0}
  /\ Threshold \in Nat

Valuations ==
  IF Cardinality(ProposedInputs) <= Threshold THEN ProposedInputs ELSE Sample

Blank == [v \in LoopVars |-> Unset]

Assign(in, s, v) == [s EXCEPT ![v] = InitExpr(v, in, s)]

\* Sequential: an init expression sees the variables assigned before it.
Established(in) ==
  LET env[n \in 0..Len(InitOrder)] ==
        IF n = 0 THEN Blank ELSE Assign(in, env[n-1], InitOrder[n])
  IN  env

ApplyInit(in) == Established(in)[Len(InitOrder)]

\* Simultaneous: every expression reads the store before the step.
StepBody(in, s) == [v \in LoopVars |-> BodyExpr(v, in, s)]

\* Visit(in)[n]: the store after n steps.
Visit(in) ==
  LET run[n \in 0..MaxIters] ==
        IF n = 0 THEN ApplyInit(in) ELSE StepBody(in, run[n-1])
  IN  run

\* The loop runs its first n steps.
Reaches(in, n) == \A m \in 0..n-1 : Guard(in, Visit(in)[m]) = 1

O1 == \A in \in Valuations : Invariant(in, ApplyInit(in)) = 1

O2 ==
  \A in \in Valuations :
    /\ \A n \in 1..MaxIters :
         Reaches(in, n) =>
           /\ Invariant(in, Visit(in)[n]) = 1
           /\ Variant(in, Visit(in)[n]) < Variant(in, Visit(in)[n-1])
    /\ ~Reaches(in, MaxIters + 1)      \* the guard still holds: no proof

O3 ==
  \A in \in Valuations, n \in 0..MaxIters :
    Reaches(in, n) /\ Guard(in, Visit(in)[n]) # 1 =>
      Post(in, Visit(in)[n]) = 1

Discharged == O1 /\ O2 /\ O3
=============================================================================
