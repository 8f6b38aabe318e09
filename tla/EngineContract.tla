--------------------------- MODULE EngineContract ---------------------------
(***************************************************************************)
(* What Stage 3, the vector check and the soak rely on from one            *)
(* engine.run(): while it runs the chain on disk only ever moves between   *)
(* refinements that extend the prefix it started from (each step by a rule *)
(* that was applicable and changed a spec that was not RTL-style yet); if  *)
(* it returns, its result is the replay of that file and is RTL-style;     *)
(* otherwise nothing is returned and the file may hold any such chain.     *)
(***************************************************************************)
EXTENDS RuleLibrary

CONSTANTS InitialSpec, Prefixes, Nothing

VARIABLES status, prefix, disk, result

contractVars == <<status, prefix, disk, result>>

ContractInit ==
  /\ status = "running"
  /\ prefix \in Prefixes
  /\ disk = prefix
  /\ result = Nothing

\* A commit overwrites the file with another refinement through the prefix.
Persist ==
  /\ status = "running"
  /\ Leaves(InitialSpec, prefix, disk')
  /\ UNCHANGED <<status, prefix, result>>

Return ==
  /\ status = "running"
  /\ status' = "done"
  /\ result' = Replay(InitialSpec, disk)
  /\ result' \in RtlStyle
  /\ UNCHANGED <<prefix, disk>>

Fail ==
  /\ status = "running"
  /\ status' \in {"stalled", "raised"}
  /\ UNCHANGED <<prefix, disk, result>>

ContractNext == Persist \/ Return \/ Fail

ContractSpec == ContractInit /\ [][ContractNext]_contractVars

-----------------------------------------------------------------------------
(***************************************************************************)
(* What a caller may conclude at any moment from the file and the result   *)
(* (a file read by Stage 4 after a return, by a backtrack after a stall).  *)
(***************************************************************************)
Promise ==
  /\ Leaves(InitialSpec, prefix, disk)
  /\ status = "done" =>
       /\ Delivers(InitialSpec, prefix, disk)
       /\ result = Replay(InitialSpec, disk)
=============================================================================
