------------------------------ MODULE Pipeline ------------------------------
(***************************************************************************)
(* One run of the LangGraph pipeline: the nodes of pipeline/graph.py, the  *)
(* artifacts they exchange through the run directory, the routing on those *)
(* artifacts, the retry counters and the two recovery paths of Stage 3.    *)
(*                                                                         *)
(* A spec is known by its version: every authoring or revision by an LLM   *)
(* makes a new one.  A refinement is the pair of a version and the steps   *)
(* applied to it, so two refinements are equal exactly when they replay    *)
(* the same chain from the same spec.  engine.run() is used through        *)
(* EngineContract: it extends the chain on disk, and what it returns is    *)
(* the spec it was given with the steps it added.                          *)
(***************************************************************************)
EXTENDS Integers, Sequences

CONSTANTS
  Picks,             \* the choices a chain records
  MaxChain,          \* bound of the model: the longest chain on disk
  MaxStage1Retries,  \* _MAX_STAGE1_RETRIES = 1
  MaxCocotbRetries,  \* _MAX_COCOTB_RETRIES = 2
  MaxTlcRetries,     \* MAX_TLC_RETRIES = 3
  BacktrackSteps,    \* BACKTRACK_STEPS = 3
  RecursionLimit,    \* LangGraph's recursion limit (25 by default)
  Unrefined          \* RTL compiled from the abstract spec

Chains == Seq(Picks)
Refinements == [spec : Nat, steps : Chains]

ASSUME PipelineAssumption ==
  /\ MaxChain \in Nat
  /\ MaxStage1Retries \in Nat
  /\ MaxCocotbRetries \in Nat
  /\ MaxTlcRetries \in Nat
  /\ BacktrackSteps \in Nat \ {0}
  /\ RecursionLimit \in Nat
  /\ Unrefined \notin Refinements

VARIABLES
  pc,              \* the node that runs next, or the step inside Stage 3
  via,             \* the node Stage 3's shared steps run for
  supersteps,      \* nodes run so far (counted by LangGraph)
  nlSpec,          \* 00_nl_spec.json: "present" or "missing"
  summary,         \* status of 01_summary.json
  tbMeta,          \* status of 02_testbench_meta.json
  formal,          \* 02_formal_spec.json: its status and the spec's version
  chainFile,       \* refinement_chain.json (<<>> also when absent)
  rtl,             \* 03_rtl_output.json: status and what it was compiled from
  eval,            \* 04_evaluation.json: status and phase
  stage1Retries,   \* retry_counts["stage1"]
  cocotbRetries,   \* retry_counts["stage4_cocotb"]
  diagnosis,       \* last_diagnosis
  spec,            \* Stage 3's FormalSpec in memory (0 before the first)
  versions,        \* how many specs were authored
  attempt,         \* the TLC loop's counter
  start,           \* what the engine is given
  refined          \* what it returned, or Unrefined

files == <<nlSpec, summary, tbMeta, formal, chainFile, rtl, eval>>
counters == <<stage1Retries, cocotbRetries, diagnosis>>
memory == <<spec, versions, attempt, start, refined>>
vars == <<pc, via, supersteps, files, counters, memory>>

NodeNames == {"stage1", "stage2", "stage3", "stage4", "diagnose", "revise", "backtrack"}

Init ==
  /\ pc = "stage1" /\ via = "stage3" /\ supersteps = 0
  /\ nlSpec = "present"
  /\ summary = "absent" /\ tbMeta = "absent"
  /\ formal = [status |-> "absent", spec |-> 0]
  /\ chainFile = <<>>
  /\ rtl = [status |-> "absent", from |-> Unrefined]
  /\ eval = [status |-> "absent", phase |-> "none"]
  /\ stage1Retries = 0 /\ cocotbRetries = 0 /\ diagnosis = "spec"
  /\ spec = 0 /\ versions = 0 /\ attempt = 0
  /\ start = [spec |-> 0, steps |-> <<>>]
  /\ refined = Unrefined
-----------------------------------------------------------------------------
(***************************************************************************)
(* Routing.  A node that would exceed the recursion limit is not run:      *)
(* graph.invoke raises instead.                                            *)
(***************************************************************************)
\* Mutant: there is no such limit.
RouteWithoutLimit(n) == supersteps' = supersteps /\ pc' = n

RouteTo(n) ==
  /\ supersteps' = supersteps + 1
  /\ pc' = IF n # "end" /\ supersteps + 1 >= RecursionLimit THEN "aborted" ELSE n

\* Mutant: Stage 1 is retried without a budget.
RouteAfterStage1Forever ==
  RouteTo(IF summary' = "success" THEN "stage2" ELSE "stage1")

RouteAfterStage1 ==
  RouteTo(IF summary' = "success" THEN "stage2"
          ELSE IF stage1Retries' <= MaxStage1Retries THEN "stage1"
          ELSE "end")

RouteAfterStage3 == RouteTo(IF rtl'.status = "success" THEN "stage4" ELSE "end")

RouteAfterStage4 ==
  RouteTo(IF eval'.status = "success" THEN "end"
          ELSE IF cocotbRetries < MaxCocotbRetries THEN "diagnose"
          ELSE "end")

\* Mutant: the route is named like the diagnosis.
RouteByDiagnosis == RouteTo(diagnosis')

RouteAfterDiagnose ==
  RouteTo(IF diagnosis' = "refinement" THEN "backtrack" ELSE "revise")
-----------------------------------------------------------------------------
(***************************************************************************)
(* Stages 1 and 2.                                                         *)
(***************************************************************************)
Stage1 ==
  /\ pc = "stage1"
  /\ \/ /\ nlSpec = "missing"            \* returns before the counter is touched
        /\ summary' = "error"
        /\ UNCHANGED stage1Retries
     \/ /\ nlSpec = "present"            \* Agent 1 raised or is unavailable
        /\ summary' = "error"
        /\ stage1Retries' = stage1Retries + 1
     \/ /\ nlSpec = "present"
        /\ summary' = "success"
        /\ UNCHANGED stage1Retries
  /\ RouteAfterStage1
  /\ UNCHANGED <<via, nlSpec, tbMeta, formal, chainFile, rtl, eval,
                 cocotbRetries, diagnosis, memory>>

\* Its errors do not stop the run: the edge to Stage 3 is unconditional.
Stage2 ==
  /\ pc = "stage2"
  /\ tbMeta' \in IF summary = "success" THEN {"success", "error"} ELSE {"error"}
  /\ RouteTo("stage3")
  /\ UNCHANGED <<via, nlSpec, summary, formal, chainFile, rtl, eval, counters, memory>>
-----------------------------------------------------------------------------
(***************************************************************************)
(* Stage 3.                                                                *)
(***************************************************************************)
Rtl(status, from) == [status |-> status, from |-> from]

\* An LLM call that authors or revises the FormalSpec.
NewSpec ==
  /\ versions' = versions + 1
  /\ spec' = versions + 1

Stage3Fails ==
  /\ pc = "stage3"
  /\ formal' = [formal EXCEPT !.status = "error"]
  /\ rtl' = Rtl("error", Unrefined)
  /\ RouteAfterStage3
  /\ UNCHANGED <<via, nlSpec, summary, tbMeta, chainFile, eval, counters, memory>>

Stage3Authors ==
  /\ pc = "stage3"
  /\ summary = "success"
  /\ NewSpec
  /\ attempt' = 0
  /\ via' = "stage3"
  /\ pc' = "tlc"
  /\ UNCHANGED <<supersteps, files, counters, start, refined>>

\* TLC found no error, or there is no TLC.
TlcAccepts ==
  /\ pc = "tlc"
  /\ formal' = [status |-> "success", spec |-> spec]
  /\ start' = [spec |-> spec, steps |-> <<>>]
  /\ pc' = "engine"
  /\ UNCHANGED <<via, supersteps, nlSpec, summary, tbMeta, chainFile, rtl, eval,
                 counters, spec, versions, attempt, refined>>

\* Compiler 1 or TLC reports an error and Agent 3 revises.
TlcRevises ==
  /\ pc = "tlc"
  /\ attempt < MaxTlcRetries
  /\ attempt' = attempt + 1
  /\ NewSpec
  /\ UNCHANGED <<pc, via, supersteps, files, counters, start, refined>>

\* The error stands after the last attempt, or the revision itself raised.
TlcGivesUp ==
  /\ pc = "tlc"
  /\ formal' = [status |-> "error", spec |-> spec]
  /\ rtl' = Rtl("error", Unrefined)
  /\ RouteAfterStage3
  /\ UNCHANGED <<via, nlSpec, summary, tbMeta, chainFile, eval, counters, memory>>

\* What a run of the engine may leave on disk.
Extensions(c) ==
  {c \o q : q \in UNION {[1..n -> Picks] : n \in 0..(MaxChain - Len(c))}}

\* engine.run() returns.  Its steps are appended to the file; its result is
\* the spec it was given plus those steps.  No abstract spec is RTL-style (the
\* bridge sets no reset action) and no spec that a step was applied to is, so
\* there is at least one, after a backtrack too (Pipeline_proof).
EngineReturns ==
  /\ pc = "engine"
  /\ \E c \in Extensions(chainFile) :
       /\ Len(c) > Len(chainFile)
       /\ chainFile' = c
       /\ refined' = [start EXCEPT
                        !.steps = @ \o SubSeq(c, Len(chainFile) + 1, Len(c))]
  /\ pc' = IF via = "backtrack" THEN "codegen" ELSE "critic"
  /\ UNCHANGED <<via, supersteps, nlSpec, summary, tbMeta, formal, rtl, eval,
                 counters, spec, versions, attempt, start>>

\* engine.run() stalls or raises, leaving rolled-back steps on disk, or the
\* bridge raises after it.  On the first and the revise path the abstract spec
\* is compiled instead; on the backtrack path the run halts.
EngineFails ==
  /\ pc = "engine"
  /\ chainFile' \in Extensions(chainFile)
  /\ refined' = Unrefined
  /\ \/ /\ via = "backtrack"
        /\ rtl' = Rtl("error", Unrefined)
        /\ RouteAfterStage3
        /\ UNCHANGED formal
     \/ /\ via # "backtrack"
        /\ formal' = [formal EXCEPT !.status = "partial"]
        /\ pc' = "codegen"
        /\ UNCHANGED <<rtl, supersteps>>
  /\ UNCHANGED <<via, nlSpec, summary, tbMeta, eval, counters, spec, versions,
                 attempt, start>>

\* The critic accepts, or cannot be reached (then the gate is skipped).
CriticAccepts ==
  /\ pc = "critic"
  /\ pc' = "codegen"
  /\ UNCHANGED <<via, supersteps, files, counters, spec, versions, attempt,
                 start, refined>>

CriticRejects ==
  /\ pc = "critic"
  /\ formal' = [formal EXCEPT !.status = "partial"]
  /\ rtl' = Rtl("partial", Unrefined)
  /\ RouteAfterStage3
  /\ UNCHANGED <<via, nlSpec, summary, tbMeta, chainFile, eval, counters, memory>>

\* Mutant: RTL compiled from the abstract spec counts as a success.
AnyRtlIsFinal == TRUE

FinalRtl == refined # Unrefined

\* Compiler 2, then the port-direction gate.
Codegen ==
  /\ pc = "codegen"
  /\ \/ rtl' = Rtl("error", Unrefined)
     \/ rtl' = Rtl("partial", refined)
     \/ /\ FinalRtl
        /\ rtl' = Rtl("success", refined)
  /\ RouteAfterStage3
  /\ UNCHANGED <<via, nlSpec, summary, tbMeta, formal, chainFile, eval, counters, memory>>
-----------------------------------------------------------------------------
(***************************************************************************)
(* Stage 4 and the diagnosis.                                              *)
(***************************************************************************)
Stage4Ready == rtl.status \in {"success", "partial"} /\ tbMeta = "success"

Stage4 ==
  /\ pc = "stage4"
  /\ eval' \in IF Stage4Ready
               THEN {[status |-> "success", phase |-> "none"],
                     [status |-> "error", phase |-> "build"],
                     [status |-> "error", phase |-> "test"],
                     [status |-> "error", phase |-> "none"]}   \* run_testbench raised
               ELSE {[status |-> "error", phase |-> "none"]}
  /\ RouteAfterStage4
  /\ UNCHANGED <<via, nlSpec, summary, tbMeta, formal, chainFile, rtl, counters, memory>>

\* A build failure or an unreadable evaluation is a spec fault; anything else
\* is for the LLM to say (its failure means "spec").
Diagnose ==
  /\ pc = "diagnose"
  /\ diagnosis' \in IF eval.status = "absent" \/ eval.phase = "build"
                    THEN {"spec"} ELSE {"spec", "refinement"}
  /\ RouteAfterDiagnose
  /\ UNCHANGED <<via, files, stage1Retries, cocotbRetries, memory>>
-----------------------------------------------------------------------------
(***************************************************************************)
(* The two recovery nodes.  Each counts against the same retry budget.     *)
(***************************************************************************)
\* The FormalSpec cannot be loaded or Agent 3 raises.
ReviseFails ==
  /\ pc = "revise"
  /\ cocotbRetries' = cocotbRetries + 1
  /\ rtl' = Rtl("error", Unrefined)
  /\ RouteAfterStage3
  /\ UNCHANGED <<via, nlSpec, summary, tbMeta, formal, chainFile, eval,
                 stage1Retries, diagnosis, memory>>

\* Mutant: the chain of the old spec stays on disk.
StaleChain == chainFile

FreshChain == <<>>

\* A revised spec starts from an empty chain.
Revise ==
  /\ pc = "revise"
  /\ formal.status # "absent"
  /\ cocotbRetries' = cocotbRetries + 1
  /\ NewSpec
  /\ chainFile' = FreshChain
  /\ attempt' = 0
  /\ via' = "revise"
  /\ pc' = "tlc"
  /\ UNCHANGED <<supersteps, nlSpec, summary, tbMeta, formal, rtl, eval,
                 stage1Retries, diagnosis, start, refined>>

LoadedChain == chainFile

\* Mutant: half of a chain of one step is no step.
StepsBackHalf(c) ==
  IF BacktrackSteps < Len(c) \div 2 THEN BacktrackSteps ELSE Len(c) \div 2

StepsBack(c) ==
  LET half == IF Len(c) \div 2 > 1 THEN Len(c) \div 2 ELSE 1
  IN  IF BacktrackSteps < half THEN BacktrackSteps ELSE half

Truncated(c) == SubSeq(c, 1, Len(c) - StepsBack(c))

BacktrackFails ==
  /\ pc = "backtrack"
  /\ formal.status = "absent" \/ LoadedChain = <<>>
  /\ cocotbRetries' = cocotbRetries + 1
  /\ rtl' = Rtl("error", Unrefined)
  /\ RouteAfterStage3
  /\ UNCHANGED <<via, nlSpec, summary, tbMeta, formal, chainFile, eval,
                 stage1Retries, diagnosis, memory>>

\* The spec on disk is kept; the chain is truncated, on disk too, and the
\* engine starts from its replay.
Backtrack ==
  /\ pc = "backtrack"
  /\ formal.status # "absent"
  /\ LoadedChain # <<>>
  /\ cocotbRetries' = cocotbRetries + 1
  /\ spec' = formal.spec
  /\ start' = [spec |-> formal.spec, steps |-> Truncated(LoadedChain)]
  /\ chainFile' = Truncated(LoadedChain)
  /\ via' = "backtrack"
  /\ pc' = "engine"
  /\ UNCHANGED <<supersteps, nlSpec, summary, tbMeta, formal, rtl, eval,
                 stage1Retries, diagnosis, versions, attempt, refined>>
-----------------------------------------------------------------------------
(***************************************************************************)
(* Another process: `main.py --clean-artifacts` may delete the directory   *)
(* of a run in flight, between two nodes.  The next node recreates it      *)
(* empty, or, if it is a recovery node, finds no spec, has no directory to *)
(* write that down in and raises, which ends graph.invoke.                 *)
(***************************************************************************)
Prune ==
  /\ pc \in NodeNames
  /\ nlSpec = "present"
  /\ nlSpec' = "missing"
  /\ summary' = "absent" /\ tbMeta' = "absent"
  /\ formal' = [formal EXCEPT !.status = "absent"]
  /\ chainFile' = <<>>
  /\ rtl' = Rtl("absent", Unrefined)
  /\ eval' = [status |-> "absent", phase |-> "none"]
  /\ pc' = IF pc \in {"revise", "backtrack"} THEN "aborted" ELSE pc
  /\ UNCHANGED <<via, supersteps, counters, memory>>

Stage3Step ==
  \/ Stage3Fails \/ Stage3Authors
  \/ TlcAccepts \/ TlcRevises \/ TlcGivesUp
  \/ EngineReturns \/ EngineFails
  \/ CriticAccepts \/ CriticRejects
  \/ Codegen

Recovery == ReviseFails \/ Revise \/ BacktrackFails \/ Backtrack

RunStep == Stage1 \/ Stage2 \/ Stage3Step \/ Stage4 \/ Diagnose \/ Recovery

Next == RunStep \/ Prune

Spec == Init /\ [][Next]_vars

\* graph.invoke runs the nodes one after another in one thread; every call in
\* them returns or raises.
FairSpec == Spec /\ WF_vars(RunStep)
-----------------------------------------------------------------------------
Statuses == {"absent", "success", "error", "partial"}
StepNames == {"tlc", "engine", "critic", "codegen"}

TypeOK ==
  /\ pc \in NodeNames \cup StepNames \cup {"end", "aborted"}
  /\ via \in {"stage3", "revise", "backtrack"}
  /\ supersteps \in Nat
  /\ nlSpec \in {"present", "missing"}
  /\ summary \in Statuses /\ tbMeta \in Statuses
  /\ formal \in [status : Statuses, spec : Nat]
  /\ chainFile \in Chains
  /\ rtl \in [status : Statuses, from : Refinements \cup {Unrefined}]
  /\ eval \in [status : Statuses, phase : {"none", "build", "test"}]
  /\ stage1Retries \in Nat /\ cocotbRetries \in Nat
  /\ diagnosis \in {"spec", "refinement"}
  /\ spec \in Nat /\ versions \in Nat /\ attempt \in Nat
  /\ start \in Refinements
  /\ refined \in Refinements \cup {Unrefined}

OnDisk == [spec |-> formal.spec, steps |-> chainFile]

(***************************************************************************)
(* Whenever Stage 4 is about to simulate, the RTL was compiled from the    *)
(* refinement that the spec and the chain on disk replay to, on the first  *)
(* attempt and after every revision and backtrack.  The vector check and   *)
(* the soak derive their expected values from that replay, so otherwise    *)
(* they would judge the RTL against another design.                        *)
(***************************************************************************)
ReferenceIsWhatWasCompiled ==
  pc = "stage4" /\ rtl.status # "absent" => rtl.from = OnDisk

(***************************************************************************)
(* A run ends in success only on RTL of a completed refinement of the last *)
(* spec authored; RTL of the abstract spec never counts (G07).             *)
(***************************************************************************)
SuccessIsRefined ==
  pc = "end" /\ eval.status = "success" =>
    /\ rtl.status = "success"
    /\ rtl.from # Unrefined
    /\ rtl.from.spec = versions

(***************************************************************************)
(* The backtrack node never finds an empty chain while the spec is there:  *)
(* RTL that reached Stage 4 has at least one step, and every engine run    *)
(* after a truncation adds one, so backtracking twice in a row is safe.    *)
(***************************************************************************)
BacktrackHasSteps ==
  pc = "backtrack" /\ formal.status # "absent" => chainFile # <<>>

(***************************************************************************)
(* The retry counters stop the run: LangGraph's recursion limit, or a node *)
(* that raises, ends it only when the run's files have been deleted        *)
(* (run_stage1 returns before it counts when the request cannot be read).  *)
(***************************************************************************)
LimitNotNeeded == pc = "aborted" => nlSpec = "missing"

\* Every run ends.
Ends == <>(pc \in {"end", "aborted"})

(***************************************************************************)
(* A recovery starts from something else than what was judged: from a spec *)
(* authored after it, or from a chain that a backtrack has made shorter.   *)
(* Where it ends is up to the picker: the exclusions of the earlier pass   *)
(* are not kept, so the engine may add the dropped steps again and the RTL *)
(* come out the same.                                                      *)
(***************************************************************************)
RecoveryStartsElsewhere ==
  [][(pc \in {"revise", "backtrack"} /\ pc' \in StepNames) =>
       spec' > formal.spec \/ Len(chainFile') < Len(chainFile)]_vars
=============================================================================
