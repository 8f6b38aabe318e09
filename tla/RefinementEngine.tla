-------------------------- MODULE RefinementEngine --------------------------
(***************************************************************************)
(* engine.run() and engine._backtrack(): one pass of the refinement loop.  *)
(*                                                                         *)
(* Every iteration of the while loop is one action.  The two callables the *)
(* engine does not control are nondeterministic: pick_rule (an LLM) may    *)
(* raise, return anything invalid or return any valid choice; tlc_check    *)
(* may accept a spec it would reject (its exceptions are mapped to True).  *)
(***************************************************************************)
EXTENDS RuleLibrary

CONSTANTS
  InitialSpec,       \* the abstract spec the on-disk chain starts from
  Prefixes,          \* the chains that may be on disk when run() is called
  Allowed,           \* allowed_rule_names (all of Rules for the catch-all)
  Rejectable,        \* the specs TLC finds an error in
  MaxSteps,          \* max_steps (_CATCHALL_MAX_STEPS = 16 in Stage 3)
  MaxBacktrackDepth, \* MAX_BACKTRACK_DEPTH = 5
  MaxStrikes         \* the literal 3 of the strike tests

ASSUME EngineAssumption ==
  /\ InitialSpec \in Specs
  /\ Prefixes \subseteq Seq(Choices)
  /\ \A p \in Prefixes : IsRefinement(InitialSpec, p)
  /\ Allowed \subseteq Rules
  /\ Rejectable \subseteq Specs
  /\ MaxSteps \in Nat
  /\ MaxBacktrackDepth \in Nat
  /\ MaxStrikes \in Nat \ {0}

VARIABLES
  status,      \* "running", "done" (returned), "stalled" (RefinementStall),
               \* "raised" (any other exception left run())
  formalSpec,  \* the argument of run()
  spec,        \* the current spec
  prefix,      \* committed_prefix
  chain,       \* the choices this pass committed
  excluded,    \* excluded_at
  strikes,     \* invalid_counts
  totalSteps,  \* total_steps
  disk         \* refinement_chain.json

vars == <<status, formalSpec, spec, prefix, chain, excluded, strikes,
          totalSteps, disk>>

\* Chain depths: a pass commits at most one step per iteration.
Depths == 0..MaxSteps

\* The pass is given the spec the chain on disk replays to: Stage 3 calls run()
\* on an empty chain, and on a truncated one after a backtrack, with its replay.
\* (The structured passes, switched off, would not keep to that: a pass that
\* stalls leaves its steps on disk, and the next is given the spec before them.)
Init ==
  /\ status = "running"
  /\ prefix \in Prefixes
  /\ disk = prefix
  /\ formalSpec = Replay(InitialSpec, prefix)
  /\ spec = formalSpec
  /\ chain = <<>>
  /\ excluded = [d \in Depths |-> {}]
  /\ strikes = [d \in Depths |-> 0]
  /\ totalSteps = 0

depth == Len(chain)
-----------------------------------------------------------------------------
(***************************************************************************)
(* _backtrack.  Popping k steps excludes each popped choice at its own     *)
(* depth.  The search stops at the first k whose spec has an applicable    *)
(* rule none of whose params is excluded there.  (It asks every registered *)
(* rule, not only the allowed ones.)                                       *)
(***************************************************************************)
Popped(k) == SubSeq(chain, 1, depth - k)

\* Mutant: the replay starts from the on-disk chain's spec, not run()'s argument.
RebuiltFromInitial(c) == Replay(InitialSpec, c)

Rebuilt(c) == Replay(formalSpec, c)

ExcludedAfterPop(excl, k) ==
  [d \in Depths |->
     IF d \in depth - k .. depth - 1 THEN excl[d] \cup {chain[d+1]} ELSE excl[d]]

HasFreshRule(excl, k) ==
  \E r \in Applicable[Rebuilt(Popped(k))] :
    \A ch \in ExcludedAfterPop(excl, k)[depth - k] : ch[1] # r

Landings(excl) ==
  {k \in 1..MaxBacktrackDepth : k <= depth /\ HasFreshRule(excl, k)}

\* The rollback touches memory only: refinement_chain.json keeps the popped
\* steps until the next commit overwrites it.
RollBack(excl) ==
  \E k \in Landings(excl) :
    /\ \A j \in Landings(excl) : k <= j
    /\ spec' = Rebuilt(Popped(k))
    /\ chain' = Popped(k)
    /\ excluded' = ExcludedAfterPop(excl, k)
    /\ status' = status

BacktrackExhausted(excl) ==
  /\ Landings(excl) = {}
  /\ status' = "stalled"
  /\ excluded' = excl
  /\ UNCHANGED <<spec, chain>>

Backtrack(excl) == RollBack(excl) \/ BacktrackExhausted(excl)

\* Count a strike at this depth; from the third on, backtrack.
Strike(excl) ==
  /\ strikes' = [strikes EXCEPT ![depth] = @ + 1]
  /\ \/ /\ strikes'[depth] >= MaxStrikes
        /\ Backtrack(excl)
     \/ /\ strikes'[depth] < MaxStrikes
        /\ excluded' = excl
        /\ UNCHANGED <<status, spec, chain>>

Excluding(ch) == [excluded EXCEPT ![depth] = @ \cup {ch}]
-----------------------------------------------------------------------------
(***************************************************************************)
(* The loop.                                                               *)
(***************************************************************************)
Finish ==
  /\ status = "running"
  /\ spec \in RtlStyle
  /\ status' = "done"
  /\ UNCHANGED <<formalSpec, spec, prefix, chain, excluded, strikes,
                 totalSteps, disk>>

\* Mutant: one iteration too late.
StepCapLate ==
  /\ status = "running"
  /\ spec \notin RtlStyle
  /\ totalSteps > MaxSteps
  /\ status' = "stalled"
  /\ UNCHANGED <<formalSpec, spec, prefix, chain, excluded, strikes,
                 totalSteps, disk>>

StepCap ==
  /\ status = "running"
  /\ spec \notin RtlStyle
  /\ totalSteps >= MaxSteps
  /\ status' = "stalled"
  /\ UNCHANGED <<formalSpec, spec, prefix, chain, excluded, strikes,
                 totalSteps, disk>>

\* Mutant: the cap is tested after the iteration is counted.
IterateOnceMore ==
  /\ status = "running"
  /\ spec \notin RtlStyle
  /\ totalSteps <= MaxSteps
  /\ totalSteps' = totalSteps + 1
  /\ UNCHANGED <<formalSpec, prefix>>

\* What every iteration does before it looks at the applicable rules.
Iterate ==
  /\ status = "running"
  /\ spec \notin RtlStyle
  /\ totalSteps < MaxSteps
  /\ totalSteps' = totalSteps + 1
  /\ UNCHANGED <<formalSpec, prefix>>

Offered == Applicable[spec] \cap Allowed

NothingApplicable ==
  /\ Iterate
  /\ Offered = {}
  /\ Backtrack(excluded)
  /\ UNCHANGED <<strikes, disk>>

\* pick_rule raised, or _validate_pick refused what it returned (not a dict,
\* no such rule, rule not applicable, choice already excluded).
BadPick ==
  /\ Iterate
  /\ Offered # {}
  /\ Strike(excluded)
  /\ UNCHANGED disk

\* Mutant: an excluded choice may be picked again.
AnyPick(ch) == Iterate /\ ch[1] \in Offered

ValidPick(ch) ==
  /\ Iterate
  /\ ch[1] \in Offered
  /\ ch \notin excluded[depth]

ApplyRaises(ch) ==
  /\ ValidPick(ch)
  /\ Result[spec][ch] = Raises
  /\ excluded' = Excluding(ch)
  /\ UNCHANGED <<status, spec, chain, strikes, disk>>

\* The except clause names three exception types; any other leaves run().
ApplyEscapes(ch) ==
  /\ ValidPick(ch)
  /\ Result[spec][ch] = Escapes
  /\ status' = "raised"
  /\ UNCHANGED <<spec, chain, excluded, strikes, disk>>

NoOp(ch) ==
  /\ ValidPick(ch)
  /\ Result[spec][ch] = spec
  /\ Strike(Excluding(ch))
  /\ UNCHANGED disk

GateRejects(ch) ==
  /\ ValidPick(ch)
  /\ Result[spec][ch] \in Rejectable \ {spec}
  /\ excluded' = Excluding(ch)
  /\ UNCHANGED <<status, spec, chain, strikes, disk>>

\* Mutant: the file holds this pass only (G13).
SavedWithoutPrefix(c) == c

Saved(c) == prefix \o c

Resolved == [strikes EXCEPT ![depth] = 0]

\* The file changes at once here; _save_chain truncates it and writes it in place.
Commit(ch) ==
  /\ ValidPick(ch)
  /\ Result[spec][ch] \in Specs \ {spec}
  /\ chain' = Append(chain, ch)
  /\ strikes' = Resolved
  /\ disk' = Saved(chain')
  /\ spec' = Result[spec][ch]
  /\ UNCHANGED <<status, excluded>>

Next ==
  \/ Finish
  \/ StepCap
  \/ NothingApplicable
  \/ BadPick
  \/ \E ch \in Choices :
       \/ ApplyRaises(ch)
       \/ ApplyEscapes(ch)
       \/ NoOp(ch)
       \/ GateRejects(ch)
       \/ Commit(ch)

Spec == Init /\ [][Next]_vars

\* run() is a plain loop: it goes on as long as its callables return, and
\* both do (the LLM call fails or answers, TLC is a terminating subprocess).
Fairness == WF_vars(Next)
FairSpec == Spec /\ Fairness
-----------------------------------------------------------------------------
Statuses == {"running", "done", "stalled", "raised"}

TypeOK ==
  /\ status \in Statuses
  /\ formalSpec \in Specs
  /\ spec \in Specs
  /\ prefix \in Prefixes
  /\ chain \in Seq(Choices)
  /\ Len(chain) <= totalSteps
  /\ excluded \in [Depths -> SUBSET Choices]
  /\ strikes \in [Depths -> Nat]
  /\ totalSteps \in Depths
  /\ disk \in Seq(Choices)

(***************************************************************************)
(* A pass that returns leaves on disk a chain that rebuilds its result     *)
(* from the abstract spec, whatever was rolled back on the way: with       *)
(* nothing on disk before it, as at first and after a revision, and with   *)
(* the prefix of a backtrack whose replay it is given (the G13 comment of  *)
(* run(); Stage 4's vector check and soak rely on it).                     *)
(***************************************************************************)
DoneIsReproducible ==
  status = "done" => /\ Replay(InitialSpec, disk) = spec
                     /\ spec \in RtlStyle

(***************************************************************************)
(* The in-memory spec is always the replay of the in-memory chain from the *)
(* argument of run(), across every rollback.                               *)
(***************************************************************************)
SpecIsReplay == spec = Replay(formalSpec, chain)

(***************************************************************************)
(* The file never holds a chain that does not replay, even while it still  *)
(* shows steps the engine has rolled back (a reader between two writes, or *)
(* after a stall, can replay it), and it always extends the committed      *)
(* prefix.                                                                 *)
(***************************************************************************)
DiskReplays ==
  /\ Replay(InitialSpec, disk) \in Specs
  /\ Len(prefix) <= Len(disk)
  /\ SubSeq(disk, 1, Len(prefix)) = prefix

(***************************************************************************)
(* A choice that failed or was rolled back at a depth never stands in the  *)
(* chain at that depth again.                                              *)
(***************************************************************************)
NoExcludedChoiceInChain == \A d \in 1..Len(chain) : chain[d] \notin excluded[d-1]

(***************************************************************************)
(* "This depth is resolved: clear its strike count so a later backtrack    *)
(* that revisits it gets a fresh 3-strike budget": every depth a rollback  *)
(* can land on has no strikes left over.                                   *)
(***************************************************************************)
FreshBudgetOnRollback == \A d \in 0..Len(chain)-1 : strikes[d] = 0

(***************************************************************************)
(* The search never walks into the same chain twice: the last choice of a  *)
(* chain that shrinks is excluded where it stood.                          *)
(***************************************************************************)
RolledBackIsExcluded ==
  [][\A d \in 1..Len(chain) :
       d > Len(chain') => chain[d] \in excluded'[d-1]]_vars

(***************************************************************************)
(* The pass ends: strikes, exclusions, rollbacks and gate rejections all   *)
(* count against max_steps.                                                *)
(***************************************************************************)
Terminates == <>(status # "running")
-----------------------------------------------------------------------------
(***************************************************************************)
(* run() implements what its callers rely on.  While it runs it has no     *)
(* result.                                                                 *)
(***************************************************************************)
Contract ==
  INSTANCE EngineContract WITH
    Nothing <- Raises,
    result <- IF status = "done" THEN spec ELSE Raises

ImplementsContract == Contract!ContractSpec
=============================================================================
