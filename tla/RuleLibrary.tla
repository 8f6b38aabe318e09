---------------------------- MODULE RuleLibrary ----------------------------
(***************************************************************************)
(* The refinement rules as the engine sees them, and chain replay.         *)
(*                                                                         *)
(* pipeline/refinement/rules/*.py implement one interface: is_applicable   *)
(* is a predicate of the spec alone, and apply(spec, params) is pure: it   *)
(* returns a spec (the input itself when the application is a no-op) or    *)
(* raises.  A spec dict is an element of Specs; two specs are equal        *)
(* exactly when engine._spec_hash agrees on them.  The engine never looks  *)
(* inside a spec except through these two methods, the termination check   *)
(* and the TLC gate, so the library is a transition function.              *)
(***************************************************************************)
EXTENDS Integers, Sequences

CONSTANTS
  Specs,        \* spec dicts
  Rules,        \* names of the rules in RULE_REGISTRY
  Params,       \* params dicts (compared through json.dumps(sort_keys))
  Applicable,   \* Applicable[s]: the rules whose is_applicable(s) holds
  Result,       \* Result[s][ch]: what rule.apply(s, params) does
  Raises,       \* apply raised ValueError, KeyError or TypeError
  Escapes,      \* apply raised anything else (e.g. AttributeError)
  RtlStyle      \* the specs on which the termination check holds

\* A (rule_name, params) pair: what pick_rule returns, what a chain entry
\* records and what excluded_at stores.
Choices == Rules \X Params

IsLibrary ==
  /\ Applicable \in [Specs -> SUBSET Rules]
  /\ Result \in [Specs -> [Choices -> Specs \cup {Raises, Escapes}]]
  /\ Raises \notin Specs
  /\ Escapes \notin Specs
  /\ Raises # Escapes
  /\ RtlStyle \subseteq Specs

ASSUME LibraryAssumption == IsLibrary

\* One application; an exception, once raised, ends the replay.
After(s, ch) == IF s \in Specs THEN Result[s][ch] ELSE s

\* The specs a chain passes through: Trail(s0, c)[n] is the spec after n steps.
Trail(s0, c) ==
  LET tip[n \in 0..Len(c)] == IF n = 0 THEN s0 ELSE After(tip[n-1], c[n])
  IN  tip

\* engine._replay_chain: re-apply every step of the chain from s0.
Replay(s0, c) == Trail(s0, c)[Len(c)]

-----------------------------------------------------------------------------
(* What the engine commits *)

\* One committed step: the rule was applicable to a spec that was not finished
\* yet, and changed it.
Commits(s, ch, t) ==
  /\ s \in Specs \ RtlStyle
  /\ ch[1] \in Applicable[s]
  /\ t = Result[s][ch]
  /\ t \in Specs \ {s}

\* A chain all of whose steps are such steps.
IsRefinement(s0, c) ==
  LET trail == Trail(s0, c)
  IN  \A n \in 1..Len(c) : Commits(trail[n-1], c[n], trail[n])

Extends(c, p) == Len(p) <= Len(c) /\ SubSeq(c, 1, Len(p)) = p

\* What a pass that found the chain p on disk leaves there, and what it leaves
\* there when it returns.
Leaves(s0, p, c) == Extends(c, p) /\ IsRefinement(s0, c)

Delivers(s0, p, c) == Leaves(s0, p, c) /\ Replay(s0, c) \in RtlStyle
=============================================================================
