--------------------------- MODULE Pipeline_proof ---------------------------
(***************************************************************************)
(* The pipeline, for every bound on the retries, every chain and every     *)
(* point at which the run directory may be pruned.                         *)
(***************************************************************************)
EXTENDS Pipeline, TLAPS

LEMMA ExtensionsExtend ==
  ASSUME NEW c \in Chains, NEW e \in Extensions(c)
  PROVE  /\ e \in Chains
         /\ Len(c) <= Len(e)
         /\ SubSeq(e, Len(c) + 1, Len(e)) \in Chains
         /\ c \o SubSeq(e, Len(c) + 1, Len(e)) = e
<1>0. Len(c) \in Nat /\ MaxChain \in Nat
  BY PipelineAssumption DEF Chains
<1>1. PICK n \in 0..(MaxChain - Len(c)) : \E q \in [1..n -> Picks] : e = c \o q
  <2>1. PICK q \in UNION {[1..n -> Picks] : n \in 0..(MaxChain - Len(c))} : e = c \o q
    BY DEF Extensions
  <2>. QED
    BY <2>1
<1>a. PICK q \in [1..n -> Picks] : e = c \o q
  BY <1>1
<1>2. n \in Nat /\ q \in Seq(Picks) /\ Len(q) = n
  <2>1. n \in Nat
    BY <1>0
  <2>. QED
    BY <2>1
<1>3. e \in Seq(Picks) /\ Len(e) = Len(c) + n
  BY <1>a, <1>2 DEF Chains
<1>4. SubSeq(e, Len(c) + 1, Len(e)) = q
  BY <1>a, <1>2, <1>3 DEF Chains
<1>. QED
  BY <1>a, <1>2, <1>3, <1>4 DEF Chains

LEMMA TruncatedType ==
  ASSUME NEW c \in Chains, c # <<>>
  PROVE  /\ Truncated(c) \in Chains
         /\ Len(Truncated(c)) < Len(c)
<1>1. Len(c) \in Nat \ {0} /\ BacktrackSteps \in Nat \ {0}
  BY PipelineAssumption DEF Chains
<1>2. StepsBack(c) \in 1..Len(c)
  BY <1>1 DEF StepsBack
<1>. QED
  BY <1>1, <1>2 DEF Truncated, Chains
-----------------------------------------------------------------------------
LEMMA EmptyChain == <<>> \in Chains
BY DEF Chains

LEMMA NextSplits ==
  ASSUME [Next]_vars
  PROVE  \/ Stage1
         \/ Stage2
         \/ Stage3Fails
         \/ Stage3Authors
         \/ TlcAccepts
         \/ TlcRevises
         \/ TlcGivesUp
         \/ EngineReturns
         \/ EngineFails
         \/ CriticAccepts
         \/ CriticRejects
         \/ Codegen
         \/ Stage4
         \/ Diagnose
         \/ ReviseFails
         \/ Revise
         \/ BacktrackFails
         \/ Backtrack
         \/ Prune
         \/ UNCHANGED vars
BY DEF Next, RunStep, Stage3Step, Recovery

LEMMA TypingInit == Init => TypeOK
BY PipelineAssumption DEF Init, TypeOK, Refinements, Chains, NodeNames, Statuses

LEMMA TypingStep == TypeOK /\ [Next]_vars => TypeOK'
<1>1. SUFFICES ASSUME TypeOK, [Next]_vars PROVE TypeOK'
  OBVIOUS
<1> USE DEF TypeOK, NodeNames, StepNames, Statuses
<1>Stage1. CASE Stage1
  BY <1>1, <1>Stage1 DEF Stage1, RouteAfterStage1, RouteTo, memory
<1>Stage2. CASE Stage2
  BY <1>1, <1>Stage2 DEF Stage2, RouteTo, counters, memory
<1>Stage3Fails. CASE Stage3Fails
  BY <1>1, <1>Stage3Fails DEF Stage3Fails, Rtl, RouteAfterStage3, RouteTo, counters, memory
<1>Stage3Authors. CASE Stage3Authors
  BY <1>1, <1>Stage3Authors DEF Stage3Authors, NewSpec, files, counters
<1>TlcAccepts. CASE TlcAccepts
  <2>1. start' \in Refinements
    BY <1>1, <1>TlcAccepts, EmptyChain DEF TlcAccepts, Refinements
  <2>. QED
    BY <1>1, <1>TlcAccepts, <2>1 DEF TlcAccepts, counters
<1>TlcRevises. CASE TlcRevises
  BY <1>1, <1>TlcRevises DEF TlcRevises, NewSpec, files, counters
<1>TlcGivesUp. CASE TlcGivesUp
  BY <1>1, <1>TlcGivesUp DEF TlcGivesUp, Rtl, RouteAfterStage3, RouteTo, counters, memory
<1>EngineReturns. CASE EngineReturns
  <2>1. chainFile' \in Chains /\ refined' \in Refinements
    <3>1. PICK c \in Extensions(chainFile) :
             /\ chainFile' = c
             /\ refined' = [start EXCEPT
                  !.steps = @ \o SubSeq(c, Len(chainFile) + 1, Len(c))]
      BY <1>EngineReturns DEF EngineReturns
    <3>2. c \in Chains /\ SubSeq(c, Len(chainFile) + 1, Len(c)) \in Chains
      BY <1>1, ExtensionsExtend
    <3>3. start.steps \o SubSeq(c, Len(chainFile) + 1, Len(c)) \in Chains
      BY <1>1, <3>2 DEF Refinements, Chains
    <3>. QED
      BY <1>1, <3>1, <3>2, <3>3 DEF Refinements
  <2>2. /\ pc' \in {"codegen", "critic"}
        /\ UNCHANGED <<via, supersteps, nlSpec, summary, tbMeta, formal, rtl, eval,
                       counters, spec, versions, attempt, start>>
    BY <1>EngineReturns DEF EngineReturns
  <2>. QED
    BY <1>1, <2>1, <2>2 DEF counters
<1>EngineFails. CASE EngineFails
  <2>1. chainFile' \in Chains
    BY <1>1, <1>EngineFails, ExtensionsExtend DEF EngineFails
  <2>. QED
    BY <1>1, <1>EngineFails, <2>1 DEF EngineFails, RouteTo, Rtl,
          RouteAfterStage3, counters
<1>CriticAccepts. CASE CriticAccepts
  BY <1>1, <1>CriticAccepts DEF CriticAccepts, files, counters
<1>CriticRejects. CASE CriticRejects
  BY <1>1, <1>CriticRejects DEF CriticRejects, Rtl, RouteAfterStage3, RouteTo, counters, memory
<1>Codegen. CASE Codegen
  BY <1>1, <1>Codegen DEF Codegen, FinalRtl, Rtl, RouteAfterStage3, RouteTo, counters, memory
<1>Stage4. CASE Stage4
  BY <1>1, <1>Stage4 DEF Stage4, RouteAfterStage4, RouteTo, Stage4Ready, counters, memory
<1>Diagnose. CASE Diagnose
  BY <1>1, <1>Diagnose DEF Diagnose, RouteAfterDiagnose, RouteTo, files, memory
<1>ReviseFails. CASE ReviseFails
  BY <1>1, <1>ReviseFails DEF ReviseFails, Rtl, RouteAfterStage3, RouteTo, memory
<1>Revise. CASE Revise
  BY <1>1, <1>Revise, EmptyChain DEF Revise, FreshChain, NewSpec
<1>BacktrackFails. CASE BacktrackFails
  BY <1>1, <1>BacktrackFails DEF BacktrackFails, Rtl, RouteAfterStage3, RouteTo, LoadedChain, memory
<1>Backtrack. CASE Backtrack
  <2>1. chainFile' \in Chains /\ start' \in Refinements
    BY <1>1, <1>Backtrack, TruncatedType DEF Backtrack, LoadedChain, Refinements
  <2>. QED
    BY <1>1, <1>Backtrack, <2>1 DEF Backtrack
<1>Prune. CASE Prune
  BY <1>1, <1>Prune, EmptyChain DEF Prune, Rtl, counters, memory
<1>same. CASE UNCHANGED vars
  BY <1>1, <1>same DEF vars, files, counters, memory
<1>. QED
  BY <1>1, NextSplits, <1>Stage1, <1>Stage2, <1>Stage3Fails, <1>Stage3Authors, <1>TlcAccepts, <1>TlcRevises, <1>TlcGivesUp, <1>EngineReturns, <1>EngineFails, <1>CriticAccepts, <1>CriticRejects, <1>Codegen, <1>Stage4, <1>Diagnose, <1>ReviseFails, <1>Revise, <1>BacktrackFails, <1>Backtrack, <1>Prune, <1>same

\* Type correctness of the pipeline's state.
THEOREM PipelineTyping == Spec => []TypeOK
BY TypingInit, TypingStep, PTL DEF Spec
-----------------------------------------------------------------------------
(***************************************************************************)
(* ReferenceIsWhatWasCompiled is about the moment before Stage 4; Lineage  *)
(* follows the spec and the chain through the steps that lead there.  Once *)
(* the directory has been pruned there is no RTL, and a recovery halts.    *)
(***************************************************************************)
Pruned == formal.status = "absent" /\ rtl.status = "absent"

Lineage ==
  /\ pc \in {"stage1", "stage2", "stage3", "tlc"} => chainFile = <<>>
  /\ pc = "engine" => start = OnDisk
  /\ pc = "critic" => refined = OnDisk
  /\ pc \in {"critic", "codegen"} /\ refined # Unrefined =>
       refined = OnDisk /\ chainFile # <<>>
  /\ pc \in {"stage4", "diagnose", "revise", "backtrack"} =>
       Pruned \/ (rtl = Rtl("success", OnDisk) /\ chainFile # <<>>)

\* The version compiled is the last one authored.
Newest ==
  /\ pc = "tlc" => spec = versions
  /\ pc \in {"engine", "critic", "codegen", "stage4", "diagnose", "revise", "backtrack"} =>
       formal.spec = versions
  /\ eval.status = "success" =>
       /\ pc = "end"
       /\ rtl.status = "success"
       /\ rtl.from \in Refinements
       /\ rtl.from.spec = versions

LineageInv == TypeOK /\ Lineage /\ Newest

(***************************************************************************)
(* The nodes run so far, as a function of the retries spent.  Nothing is   *)
(* claimed once the request is gone: Stage 1 then never stops by itself.   *)
(***************************************************************************)
Spent == MaxStage1Retries + 3 * cocotbRetries

Budget ==
  nlSpec = "present" =>
    /\ pc # "aborted"
    /\ cocotbRetries <= MaxCocotbRetries
    /\ pc = "stage1" => supersteps = stage1Retries /\ stage1Retries <= MaxStage1Retries
    /\ pc \in {"stage1", "stage2", "stage3"} => cocotbRetries = 0
    /\ pc = "stage2" => supersteps <= Spent + 1
    /\ pc = "stage3" \/ pc \in StepNames => supersteps <= Spent + 2
    /\ pc = "stage4" => supersteps <= Spent + 3
    /\ pc = "diagnose" => supersteps <= Spent + 4
    /\ pc \in {"revise", "backtrack"} => supersteps <= Spent + 5
    /\ pc \in {"diagnose", "revise", "backtrack"} => cocotbRetries < MaxCocotbRetries

LEMMA LineageStep ==
  ASSUME LineageInv, [Next]_vars
  PROVE  Lineage'
<1> USE DEF LineageInv, TypeOK, Lineage, Pruned, OnDisk, NodeNames, StepNames
<1>Stage1. CASE Stage1
  BY <1>Stage1 DEF Stage1, RouteAfterStage1, RouteTo, memory
<1>Stage2. CASE Stage2
  BY <1>Stage2 DEF Stage2, RouteTo, counters, memory
<1>Stage3Fails. CASE Stage3Fails
  BY <1>Stage3Fails DEF Stage3Fails, Rtl, RouteAfterStage3, RouteTo, counters, memory
<1>Stage3Authors. CASE Stage3Authors
  BY <1>Stage3Authors DEF Stage3Authors, NewSpec, files, counters
<1>TlcAccepts. CASE TlcAccepts
  BY <1>TlcAccepts DEF TlcAccepts, counters
<1>TlcRevises. CASE TlcRevises
  BY <1>TlcRevises DEF TlcRevises, NewSpec, files, counters
<1>TlcGivesUp. CASE TlcGivesUp
  BY <1>TlcGivesUp DEF TlcGivesUp, Rtl, RouteAfterStage3, RouteTo, counters, memory
<1>EngineReturns. CASE EngineReturns
  <2>1. PICK c \in Extensions(chainFile) :
           /\ Len(c) > Len(chainFile)
           /\ chainFile' = c
           /\ refined' = [start EXCEPT
                !.steps = @ \o SubSeq(c, Len(chainFile) + 1, Len(c))]
    BY <1>EngineReturns DEF EngineReturns
  <2>2. /\ pc = "engine" /\ pc' \in {"codegen", "critic"}
        /\ UNCHANGED <<formal, rtl>>
    BY <1>EngineReturns DEF EngineReturns
  <2>3. chainFile \o SubSeq(c, Len(chainFile) + 1, Len(c)) = c
    BY ExtensionsExtend
  <2>4. start = [spec |-> formal.spec, steps |-> chainFile]
    BY <2>2
  <2>5. refined' = [spec |-> formal.spec, steps |-> c]
    BY <2>1, <2>3, <2>4
  <2>6. c # <<>>
    <3>1. Len(chainFile) \in Nat /\ Len(<<>>) = 0
      BY DEF Chains
    <3>. QED
      BY <2>1, <3>1
  <2>. QED
    BY <2>1, <2>2, <2>5, <2>6
<1>EngineFails. CASE EngineFails
  BY <1>EngineFails DEF EngineFails, Rtl, RouteAfterStage3, RouteTo, counters
<1>CriticAccepts. CASE CriticAccepts
  BY <1>CriticAccepts DEF CriticAccepts, files, counters
<1>CriticRejects. CASE CriticRejects
  BY <1>CriticRejects DEF CriticRejects, Rtl, RouteAfterStage3, RouteTo, counters, memory
<1>Codegen. CASE Codegen
  BY <1>Codegen DEF Codegen, FinalRtl, Rtl, RouteAfterStage3, RouteTo, counters, memory
<1>Stage4. CASE Stage4
  BY <1>Stage4 DEF Stage4, RouteAfterStage4, RouteTo, Stage4Ready, counters, memory
<1>Diagnose. CASE Diagnose
  BY <1>Diagnose DEF Diagnose, RouteAfterDiagnose, RouteTo, files, memory
<1>ReviseFails. CASE ReviseFails
  BY <1>ReviseFails DEF ReviseFails, Rtl, RouteAfterStage3, RouteTo, memory
<1>Revise. CASE Revise
  BY <1>Revise DEF Revise, FreshChain, NewSpec
<1>BacktrackFails. CASE BacktrackFails
  BY <1>BacktrackFails DEF BacktrackFails, Rtl, RouteAfterStage3, RouteTo, LoadedChain, memory
<1>Backtrack. CASE Backtrack
  BY <1>Backtrack DEF Backtrack, LoadedChain
<1>Prune. CASE Prune
  BY <1>Prune DEF Prune, Rtl, counters, memory
<1>same. CASE UNCHANGED vars
  BY <1>same DEF vars, files, counters, memory
<1>. QED
  BY NextSplits, <1>Stage1, <1>Stage2, <1>Stage3Fails, <1>Stage3Authors,
     <1>TlcAccepts, <1>TlcRevises, <1>TlcGivesUp, <1>EngineReturns,
     <1>EngineFails, <1>CriticAccepts, <1>CriticRejects, <1>Codegen,
     <1>Stage4, <1>Diagnose, <1>ReviseFails, <1>Revise, <1>BacktrackFails,
     <1>Backtrack, <1>Prune, <1>same

LEMMA NewestStep ==
  ASSUME LineageInv, [Next]_vars
  PROVE  Newest'
<1> USE DEF LineageInv, TypeOK, Lineage, Newest, Pruned, OnDisk, NodeNames, StepNames
<1>Stage1. CASE Stage1
  BY <1>Stage1 DEF Stage1, RouteAfterStage1, RouteTo, memory
<1>Stage2. CASE Stage2
  BY <1>Stage2 DEF Stage2, RouteTo, counters, memory
<1>Stage3Fails. CASE Stage3Fails
  BY <1>Stage3Fails DEF Stage3Fails, Rtl, RouteAfterStage3, RouteTo, counters, memory
<1>Stage3Authors. CASE Stage3Authors
  BY <1>Stage3Authors DEF Stage3Authors, NewSpec, files, counters
<1>TlcAccepts. CASE TlcAccepts
  BY <1>TlcAccepts DEF TlcAccepts, counters
<1>TlcRevises. CASE TlcRevises
  BY <1>TlcRevises DEF TlcRevises, NewSpec, files, counters
<1>TlcGivesUp. CASE TlcGivesUp
  BY <1>TlcGivesUp DEF TlcGivesUp, Rtl, RouteAfterStage3, RouteTo, counters, memory
<1>EngineReturns. CASE EngineReturns
  BY <1>EngineReturns DEF EngineReturns, counters
<1>EngineFails. CASE EngineFails
  BY <1>EngineFails DEF EngineFails, Rtl, RouteAfterStage3, RouteTo, counters
<1>CriticAccepts. CASE CriticAccepts
  BY <1>CriticAccepts DEF CriticAccepts, files, counters
<1>CriticRejects. CASE CriticRejects
  BY <1>CriticRejects DEF CriticRejects, Rtl, RouteAfterStage3, RouteTo, counters, memory
<1>Codegen. CASE Codegen
  BY <1>Codegen DEF Codegen, FinalRtl, Rtl, RouteAfterStage3, RouteTo, counters, memory
<1>Stage4. CASE Stage4
  <2>1. OnDisk \in Refinements
    BY DEF Refinements
  <2>2. CASE eval'.status = "success"
    <3>1. Stage4Ready /\ pc = "stage4" /\ UNCHANGED <<formal, rtl, memory>>
      BY <1>Stage4, <2>2 DEF Stage4
    <3>2. rtl = Rtl("success", OnDisk)
      BY <3>1 DEF Stage4Ready
    <3>3. pc' = "end"
      BY <1>Stage4, <2>2 DEF Stage4, RouteAfterStage4, RouteTo
    <3>. QED
      BY <2>1, <3>1, <3>2, <3>3 DEF Rtl, memory
  <2>3. CASE eval'.status # "success"
    <3>1. /\ pc = "stage4" /\ UNCHANGED <<formal, rtl, memory>>
          /\ pc' \in {"end", "diagnose", "aborted"}
      BY <1>Stage4, <2>3 DEF Stage4, RouteAfterStage4, RouteTo
    <3>. QED
      BY <2>3, <3>1 DEF memory
  <2>. QED
    BY <2>2, <2>3
<1>Diagnose. CASE Diagnose
  BY <1>Diagnose DEF Diagnose, RouteAfterDiagnose, RouteTo, files, memory
<1>ReviseFails. CASE ReviseFails
  BY <1>ReviseFails DEF ReviseFails, Rtl, RouteAfterStage3, RouteTo, memory
<1>Revise. CASE Revise
  BY <1>Revise DEF Revise, FreshChain, NewSpec
<1>BacktrackFails. CASE BacktrackFails
  BY <1>BacktrackFails DEF BacktrackFails, Rtl, RouteAfterStage3, RouteTo, LoadedChain, memory
<1>Backtrack. CASE Backtrack
  BY <1>Backtrack DEF Backtrack, LoadedChain
<1>Prune. CASE Prune
  BY <1>Prune DEF Prune, Rtl, counters, memory
<1>same. CASE UNCHANGED vars
  BY <1>same DEF vars, files, counters, memory
<1>. QED
  BY NextSplits, <1>Stage1, <1>Stage2, <1>Stage3Fails, <1>Stage3Authors,
     <1>TlcAccepts, <1>TlcRevises, <1>TlcGivesUp, <1>EngineReturns,
     <1>EngineFails, <1>CriticAccepts, <1>CriticRejects, <1>Codegen,
     <1>Stage4, <1>Diagnose, <1>ReviseFails, <1>Revise, <1>BacktrackFails,
     <1>Backtrack, <1>Prune, <1>same

LEMMA BudgetStep ==
  ASSUME TypeOK, Budget,
         RecursionLimit > MaxStage1Retries + 3 * MaxCocotbRetries + 3, [Next]_vars
  PROVE  Budget'
<1> USE DEF TypeOK, Budget, Spent, NodeNames, StepNames
<1>0. /\ MaxStage1Retries \in Nat /\ MaxCocotbRetries \in Nat
      /\ RecursionLimit \in Nat
  BY PipelineAssumption
<1>Stage1. CASE Stage1
  BY <1>0, <1>Stage1 DEF Stage1, RouteAfterStage1, RouteTo, memory
<1>Stage2. CASE Stage2
  BY <1>0, <1>Stage2 DEF Stage2, RouteTo, counters, memory
<1>Stage3Fails. CASE Stage3Fails
  BY <1>0, <1>Stage3Fails DEF Stage3Fails, Rtl, RouteAfterStage3, RouteTo, counters, memory
<1>Stage3Authors. CASE Stage3Authors
  BY <1>0, <1>Stage3Authors DEF Stage3Authors, NewSpec, files, counters
<1>TlcAccepts. CASE TlcAccepts
  BY <1>0, <1>TlcAccepts DEF TlcAccepts, counters
<1>TlcRevises. CASE TlcRevises
  BY <1>0, <1>TlcRevises DEF TlcRevises, NewSpec, files, counters
<1>TlcGivesUp. CASE TlcGivesUp
  BY <1>0, <1>TlcGivesUp DEF TlcGivesUp, Rtl, RouteAfterStage3, RouteTo, counters, memory
<1>EngineReturns. CASE EngineReturns
  BY <1>0, <1>EngineReturns DEF EngineReturns, counters
<1>EngineFails. CASE EngineFails
  BY <1>0, <1>EngineFails DEF EngineFails, Rtl, RouteAfterStage3, RouteTo, counters
<1>CriticAccepts. CASE CriticAccepts
  BY <1>0, <1>CriticAccepts DEF CriticAccepts, files, counters
<1>CriticRejects. CASE CriticRejects
  BY <1>0, <1>CriticRejects DEF CriticRejects, Rtl, RouteAfterStage3, RouteTo, counters, memory
<1>Codegen. CASE Codegen
  BY <1>0, <1>Codegen DEF Codegen, FinalRtl, Rtl, RouteAfterStage3, RouteTo, counters, memory
<1>Stage4. CASE Stage4
  BY <1>0, <1>Stage4 DEF Stage4, RouteAfterStage4, RouteTo, Stage4Ready, counters, memory
<1>Diagnose. CASE Diagnose
  BY <1>0, <1>Diagnose DEF Diagnose, RouteAfterDiagnose, RouteTo, files, memory
<1>ReviseFails. CASE ReviseFails
  BY <1>0, <1>ReviseFails DEF ReviseFails, Rtl, RouteAfterStage3, RouteTo, memory
<1>Revise. CASE Revise
  BY <1>0, <1>Revise DEF Revise, FreshChain, NewSpec
<1>BacktrackFails. CASE BacktrackFails
  BY <1>0, <1>BacktrackFails DEF BacktrackFails, Rtl, RouteAfterStage3, RouteTo, LoadedChain, memory
<1>Backtrack. CASE Backtrack
  BY <1>0, <1>Backtrack DEF Backtrack, LoadedChain
<1>Prune. CASE Prune
  BY <1>0, <1>Prune DEF Prune, Rtl, counters, memory
<1>same. CASE UNCHANGED vars
  BY <1>same DEF vars, files, counters, memory
<1>. QED
  BY NextSplits, <1>Stage1, <1>Stage2, <1>Stage3Fails, <1>Stage3Authors,
     <1>TlcAccepts, <1>TlcRevises, <1>TlcGivesUp, <1>EngineReturns,
     <1>EngineFails, <1>CriticAccepts, <1>CriticRejects, <1>Codegen,
     <1>Stage4, <1>Diagnose, <1>ReviseFails, <1>Revise, <1>BacktrackFails,
     <1>Backtrack, <1>Prune, <1>same

THEOREM PipelineLineage == Spec => []LineageInv
<1>1. Init => LineageInv
  BY TypingInit DEF Init, LineageInv, Lineage, Newest
<1>2. LineageInv /\ [Next]_vars => LineageInv'
  BY TypingStep, LineageStep, NewestStep DEF LineageInv
<1>. QED
  BY <1>1, <1>2, PTL DEF Spec

\* What Stage 4 simulates is what the spec and the chain on disk replay to.
THEOREM PipelineReference == Spec => []ReferenceIsWhatWasCompiled
<1>1. LineageInv => ReferenceIsWhatWasCompiled
  BY DEF LineageInv, Lineage, Pruned, Rtl, ReferenceIsWhatWasCompiled
<1>. QED
  BY <1>1, PipelineLineage, PTL

\* A successful run compiled a completed refinement of the last spec.
THEOREM PipelineSuccess == Spec => []SuccessIsRefined
<1>1. LineageInv => SuccessIsRefined
  BY PipelineAssumption DEF LineageInv, Newest, SuccessIsRefined
<1>. QED
  BY <1>1, PipelineLineage, PTL

\* The backtrack node has steps to drop.
THEOREM PipelineBacktrack == Spec => []BacktrackHasSteps
<1>1. LineageInv => BacktrackHasSteps
  BY DEF LineageInv, Lineage, Pruned, BacktrackHasSteps
<1>. QED
  BY <1>1, PipelineLineage, PTL

\* A recovery starts from another spec or a shorter chain.
THEOREM PipelineRecovery == Spec => RecoveryStartsElsewhere
<1> DEFINE A == (pc \in {"revise", "backtrack"} /\ pc' \in StepNames) =>
                  spec' > formal.spec \/ Len(chainFile') < Len(chainFile)
<1>1. LineageInv /\ [Next]_vars => [A]_vars
  <2>1. SUFFICES ASSUME LineageInv, [Next]_vars,
                        pc \in {"revise", "backtrack"}, pc' \in StepNames
                 PROVE  spec' > formal.spec \/ Len(chainFile') < Len(chainFile)
    OBVIOUS
  <2>2. Revise \/ Backtrack
    <3>1. CASE UNCHANGED vars
      BY <2>1, <3>1 DEF vars, StepNames
    <3>2. CASE ReviseFails
      BY <2>1, <3>2 DEF ReviseFails, Rtl, RouteAfterStage3, RouteTo, StepNames
    <3>3. CASE BacktrackFails
      BY <2>1, <3>3 DEF BacktrackFails, Rtl, RouteAfterStage3, RouteTo, StepNames
    <3>4. CASE Prune
      BY <2>1, <3>4 DEF Prune, StepNames
    <3>. QED
      BY <2>1, <3>1, <3>2, <3>3, <3>4, NextSplits
         DEF Stage1, Stage2, Stage3Fails, Stage3Authors, TlcAccepts, TlcRevises,
             TlcGivesUp, EngineReturns, EngineFails, CriticAccepts, CriticRejects,
             Codegen, Stage4, Diagnose
  <2>3. CASE Revise
    <3>1. spec' = versions + 1 /\ formal.spec = versions /\ versions \in Nat
      BY <2>1, <2>3 DEF Revise, FreshChain, NewSpec, LineageInv, Newest, TypeOK
    <3>. QED
      BY <3>1
  <2>4. CASE Backtrack
    <3>1. chainFile \in Chains /\ chainFile # <<>> /\ chainFile' = Truncated(chainFile)
      BY <2>1, <2>4 DEF Backtrack, LoadedChain, LineageInv, TypeOK
    <3>. QED
      BY <3>1, TruncatedType
  <2>. QED
    BY <2>2, <2>3, <2>4
<1>. QED
  BY <1>1, PipelineLineage, PTL DEF Spec, RecoveryStartsElsewhere

\* The retry counters stop the run before LangGraph does, for every setting
\* of the three limits that leaves room for the retries.
THEOREM PipelineBudget ==
  ASSUME RecursionLimit > MaxStage1Retries + 3 * MaxCocotbRetries + 3
  PROVE  Spec => []LimitNotNeeded
<1>1. Init => Budget
  BY PipelineAssumption DEF Init, Budget, Spent, StepNames
<1>2. TypeOK /\ Budget /\ [Next]_vars => Budget'
  BY BudgetStep
<1>3. TypeOK /\ Budget => LimitNotNeeded
  BY DEF TypeOK, Budget, LimitNotNeeded
<1>. QED
  BY <1>1, <1>2, <1>3, PipelineTyping, PTL DEF Spec

-----------------------------------------------------------------------------
(***************************************************************************)
(* Why a run ends.  Every step of a run is counted by LangGraph or brings  *)
(* Stage 3 closer to its next counted step: the TLC loop has its attempts, *)
(* and the steps after it go one way.  The directory is deleted once.      *)
(* With the limit on what is counted no behaviour has infinitely many      *)
(* steps: the safety half of Ends.                                         *)
(***************************************************************************)
ToGo ==
  (IF nlSpec = "present" THEN 1 ELSE 0)
  + (CASE pc \in NodeNames -> MaxTlcRetries + 5
       [] pc = "tlc" -> (MaxTlcRetries - attempt) + 4
       [] pc = "engine" -> 3
       [] pc = "critic" -> 2
       [] OTHER -> 1)

Counted ==
  /\ attempt <= MaxTlcRetries
  /\ pc \in NodeNames \cup StepNames => supersteps = 0 \/ supersteps < RecursionLimit
  /\ supersteps <= 1 \/ supersteps <= RecursionLimit

LEMMA CountedStep ==
  ASSUME TypeOK, Counted, [Next]_vars
  PROVE  Counted'
<1> USE DEF TypeOK, Counted, NodeNames, StepNames
<1>0. MaxTlcRetries \in Nat /\ RecursionLimit \in Nat
  BY PipelineAssumption
<1> USE <1>0
<1>Stage1. CASE Stage1
  BY <1>Stage1 DEF Stage1, RouteAfterStage1, RouteTo, memory
<1>Stage2. CASE Stage2
  BY <1>Stage2 DEF Stage2, RouteTo, counters, memory
<1>Stage3Fails. CASE Stage3Fails
  BY <1>Stage3Fails DEF Stage3Fails, Rtl, RouteAfterStage3, RouteTo, counters, memory
<1>Stage3Authors. CASE Stage3Authors
  BY <1>Stage3Authors DEF Stage3Authors, NewSpec, files, counters
<1>TlcAccepts. CASE TlcAccepts
  BY <1>TlcAccepts DEF TlcAccepts, counters
<1>TlcRevises. CASE TlcRevises
  BY <1>TlcRevises DEF TlcRevises, NewSpec, files, counters
<1>TlcGivesUp. CASE TlcGivesUp
  BY <1>TlcGivesUp DEF TlcGivesUp, Rtl, RouteAfterStage3, RouteTo, counters, memory
<1>EngineReturns. CASE EngineReturns
  BY <1>EngineReturns DEF EngineReturns, counters
<1>EngineFails. CASE EngineFails
  BY <1>EngineFails DEF EngineFails, Rtl, RouteAfterStage3, RouteTo, counters
<1>CriticAccepts. CASE CriticAccepts
  BY <1>CriticAccepts DEF CriticAccepts, files, counters
<1>CriticRejects. CASE CriticRejects
  BY <1>CriticRejects DEF CriticRejects, Rtl, RouteAfterStage3, RouteTo, counters, memory
<1>Codegen. CASE Codegen
  BY <1>Codegen DEF Codegen, FinalRtl, Rtl, RouteAfterStage3, RouteTo, counters, memory
<1>Stage4. CASE Stage4
  BY <1>Stage4 DEF Stage4, RouteAfterStage4, RouteTo, Stage4Ready, counters, memory
<1>Diagnose. CASE Diagnose
  BY <1>Diagnose DEF Diagnose, RouteAfterDiagnose, RouteTo, files, memory
<1>ReviseFails. CASE ReviseFails
  BY <1>ReviseFails DEF ReviseFails, Rtl, RouteAfterStage3, RouteTo, memory
<1>Revise. CASE Revise
  BY <1>Revise DEF Revise, FreshChain, NewSpec
<1>BacktrackFails. CASE BacktrackFails
  BY <1>BacktrackFails DEF BacktrackFails, Rtl, RouteAfterStage3, RouteTo, LoadedChain, memory
<1>Backtrack. CASE Backtrack
  BY <1>Backtrack DEF Backtrack, LoadedChain
<1>Prune. CASE Prune
  BY <1>Prune DEF Prune, Rtl, counters, memory
<1>same. CASE UNCHANGED vars
  BY <1>same DEF vars, files, counters, memory
<1>. QED
  BY NextSplits, <1>Stage1, <1>Stage2, <1>Stage3Fails, <1>Stage3Authors,
     <1>TlcAccepts, <1>TlcRevises, <1>TlcGivesUp, <1>EngineReturns,
     <1>EngineFails, <1>CriticAccepts, <1>CriticRejects, <1>Codegen,
     <1>Stage4, <1>Diagnose, <1>ReviseFails, <1>Revise, <1>BacktrackFails,
     <1>Backtrack, <1>Prune, <1>same

Nearer == supersteps' = supersteps + 1 \/ (supersteps' = supersteps /\ ToGo' < ToGo)

LEMMA NearerStep ==
  ASSUME TypeOK, Counted, Next
  PROVE  Nearer
<1> USE DEF TypeOK, Counted, NodeNames, StepNames, Nearer, ToGo
<1>0. MaxTlcRetries \in Nat /\ RecursionLimit \in Nat
  BY PipelineAssumption
<1> USE <1>0
<1>Stage1. CASE Stage1
  BY <1>Stage1 DEF Stage1, RouteAfterStage1, RouteTo, memory
<1>Stage2. CASE Stage2
  BY <1>Stage2 DEF Stage2, RouteTo, counters, memory
<1>Stage3Fails. CASE Stage3Fails
  BY <1>Stage3Fails DEF Stage3Fails, Rtl, RouteAfterStage3, RouteTo, counters, memory
<1>Stage3Authors. CASE Stage3Authors
  BY <1>Stage3Authors DEF Stage3Authors, NewSpec, files, counters
<1>TlcAccepts. CASE TlcAccepts
  BY <1>TlcAccepts DEF TlcAccepts, counters
<1>TlcRevises. CASE TlcRevises
  BY <1>TlcRevises DEF TlcRevises, NewSpec, files, counters
<1>TlcGivesUp. CASE TlcGivesUp
  BY <1>TlcGivesUp DEF TlcGivesUp, Rtl, RouteAfterStage3, RouteTo, counters, memory
<1>EngineReturns. CASE EngineReturns
  BY <1>EngineReturns DEF EngineReturns, counters
<1>EngineFails. CASE EngineFails
  BY <1>EngineFails DEF EngineFails, Rtl, RouteAfterStage3, RouteTo, counters
<1>CriticAccepts. CASE CriticAccepts
  BY <1>CriticAccepts DEF CriticAccepts, files, counters
<1>CriticRejects. CASE CriticRejects
  BY <1>CriticRejects DEF CriticRejects, Rtl, RouteAfterStage3, RouteTo, counters, memory
<1>Codegen. CASE Codegen
  BY <1>Codegen DEF Codegen, FinalRtl, Rtl, RouteAfterStage3, RouteTo, counters, memory
<1>Stage4. CASE Stage4
  BY <1>Stage4 DEF Stage4, RouteAfterStage4, RouteTo, Stage4Ready, counters, memory
<1>Diagnose. CASE Diagnose
  BY <1>Diagnose DEF Diagnose, RouteAfterDiagnose, RouteTo, files, memory
<1>ReviseFails. CASE ReviseFails
  BY <1>ReviseFails DEF ReviseFails, Rtl, RouteAfterStage3, RouteTo, memory
<1>Revise. CASE Revise
  BY <1>Revise DEF Revise, FreshChain, NewSpec
<1>BacktrackFails. CASE BacktrackFails
  BY <1>BacktrackFails DEF BacktrackFails, Rtl, RouteAfterStage3, RouteTo, LoadedChain, memory
<1>Backtrack. CASE Backtrack
  BY <1>Backtrack DEF Backtrack, LoadedChain
<1>Prune. CASE Prune
  BY <1>Prune DEF Prune, Rtl, counters, memory
<1>. QED
  BY <1>Stage1, <1>Stage2, <1>Stage3Fails, <1>Stage3Authors,
     <1>TlcAccepts, <1>TlcRevises, <1>TlcGivesUp, <1>EngineReturns,
     <1>EngineFails, <1>CriticAccepts, <1>CriticRejects, <1>Codegen,
     <1>Stage4, <1>Diagnose, <1>ReviseFails, <1>Revise, <1>BacktrackFails,
     <1>Backtrack, <1>Prune
  DEF Next, RunStep, Stage3Step, Recovery

\* However the nodes answer, a run makes progress that is bounded: what it has
\* counted grows to at most the limit, and what is left of a node falls.
THEOREM PipelineEnds ==
  Spec => /\ [](ToGo \in Nat /\ (supersteps <= 1 \/ supersteps <= RecursionLimit))
          /\ [][Nearer]_vars
<1>1. Init => Counted
  BY PipelineAssumption DEF Init, Counted
<1>2. TypeOK /\ Counted /\ [Next]_vars => Counted'
  BY CountedStep
<1>3. TypeOK /\ Counted =>
        ToGo \in Nat /\ (supersteps <= 1 \/ supersteps <= RecursionLimit)
  BY PipelineAssumption DEF TypeOK, Counted, ToGo
<1>4. TypeOK /\ Counted /\ [Next]_vars => [Nearer]_vars
  BY NearerStep
<1>. QED
  BY <1>1, <1>2, <1>3, <1>4, PipelineTyping, PTL DEF Spec
-----------------------------------------------------------------------------
(***************************************************************************)
(* The engine in the pipeline.  Pipeline knows a spec by its version and a *)
(* refinement by its steps.  Here both get their meaning: a version is the *)
(* engine spec that the bridge makes of it, and a pick is a choice of a    *)
(* rule library, so that the engine's contract can be put to use.          *)
(***************************************************************************)
CONSTANTS Specs, Rules, Params, Applicable, Result, Raises, Escapes, RtlStyle,
          Abstract   \* Abstract[v]: the engine spec made of version v

Library == INSTANCE RuleLibrary

\* No spec that the bridge makes has a reset action, and the termination check
\* asks for one (bridge.formal_spec_to_engine_spec, engine.is_rtl_style).
Meant ==
  /\ Library!IsLibrary
  /\ Picks = Library!Choices
  /\ Abstract \in [Nat -> Specs \ RtlStyle]

Refines(v, c) == Library!IsRefinement(Abstract[v], c)

Finished(v, c) == Library!Replay(Abstract[v], c) \in RtlStyle

\* What the contract asks of a call: the file holds a refinement of the abstract
\* spec, and the argument is what it replays to.
CallIsSound == start = OnDisk /\ Refines(formal.spec, chainFile)

\* What it grants: see EngineContract!Promise, which the engine keeps.
EngineKeepsContract ==
  CallIsSound =>
    /\ EngineReturns => Library!Delivers(Abstract[formal.spec], chainFile, chainFile')
    /\ EngineFails => Library!Leaves(Abstract[formal.spec], chainFile, chainFile')

ReplayStep(none, s, ch) == Library!After(s, ch)

Replaying == INSTANCE Recursion WITH Step <- ReplayStep

LEMMA TrailWalks ==
  ASSUME NEW s0, NEW c
  PROVE  Library!Trail(s0, c) = Replaying!Walk(<<>>, s0, c)
BY DEF Library!Trail, Replaying!Walk, ReplayStep

\* No step at all is a refinement that is not finished.
LEMMA EmptyRefines ==
  ASSUME Meant, NEW v \in Nat
  PROVE  Refines(v, <<>>) /\ ~Finished(v, <<>>)
<1>1. Len(<<>>) = 0 /\ 1..Len(<<>>) = {}
  OBVIOUS
<1>2. Refines(v, <<>>)
  BY <1>1 DEF Refines, Library!IsRefinement
<1>3. Library!Trail(Abstract[v], <<>>)[0] = Abstract[v]
  <2>1. Replaying!IsRun(Replaying!Walk(<<>>, Abstract[v], <<>>), <<>>, Abstract[v], <<>>)
    BY <1>1, Replaying!WalkRuns
  <2>. QED
    BY <2>1, TrailWalks DEF Replaying!IsRun
<1>. QED
  BY <1>1, <1>2, <1>3 DEF Meant, Finished, Library!Replay

\* The first steps of a refinement are a refinement, and not a finished one.
LEMMA ShorterRefines ==
  ASSUME Meant, NEW v \in Nat, NEW c \in Chains, Refines(v, c),
         NEW m \in Nat, m < Len(c)
  PROVE  Refines(v, SubSeq(c, 1, m)) /\ ~Finished(v, SubSeq(c, 1, m))
<1> DEFINE e == SubSeq(c, 1, m)
           s0 == Abstract[v]
<1>1. /\ Len(c) \in Nat /\ Len(e) = m /\ m <= Len(c) /\ m <= Len(e) /\ Len(e) \in Nat
      /\ \A i \in 1..m : e[i] = c[i]
  BY DEF Chains
<1> HIDE DEF e, s0
<1>2. \A i \in 0..m : Library!Trail(s0, e)[i] = Library!Trail(s0, c)[i]
  <2>1. \A i \in 0..m : Replaying!Walk(<<>>, s0, e)[i] = Replaying!Walk(<<>>, s0, c)[i]
    BY <1>1, Replaying!WalksAgree
  <2>. QED
    BY <2>1, TrailWalks
<1>3. \A n \in 1..Len(c) :
        Library!Commits(Library!Trail(s0, c)[n-1], c[n], Library!Trail(s0, c)[n])
  BY DEF Refines, Library!IsRefinement, s0
<1>4. Refines(v, e)
  <2>1. ASSUME NEW n \in 1..Len(e)
        PROVE  Library!Commits(Library!Trail(s0, e)[n-1], e[n], Library!Trail(s0, e)[n])
    <3>1. n \in 1..Len(c) /\ n \in 1..m /\ n \in 0..m /\ n-1 \in 0..m
      BY <1>1
    <3>. QED
      BY <1>1, <1>2, <1>3, <3>1
  <2>. QED
    BY <2>1 DEF Refines, Library!IsRefinement, s0
<1>5. ~Finished(v, e)
  <2> DEFINE n == m + 1
  <2>1. n \in 1..Len(c) /\ n - 1 = m /\ m \in 0..m
    BY <1>1
  <2> HIDE DEF n
  <2>2. Library!Trail(s0, c)[m] \in Specs \ RtlStyle
    BY <1>3, <2>1 DEF Library!Commits
  <2>3. Library!Trail(s0, e)[Len(e)] \in Specs \ RtlStyle
    BY <1>1, <1>2, <2>1, <2>2
  <2>. QED
    BY <2>3 DEF Finished, Library!Replay, s0
<1>. QED
  BY <1>4, <1>5 DEF e

LEMMA TruncatedRefines ==
  ASSUME Meant, NEW v \in Nat, NEW c \in Chains, c # <<>>, Refines(v, c)
  PROVE  Refines(v, Truncated(c)) /\ ~Finished(v, Truncated(c))
<1>1. Len(c) \in Nat \ {0} /\ BacktrackSteps \in Nat \ {0}
  BY PipelineAssumption DEF Chains
<1>2. StepsBack(c) \in 1..Len(c)
  BY <1>1 DEF StepsBack
<1>3. Len(c) - StepsBack(c) \in Nat /\ Len(c) - StepsBack(c) < Len(c)
  BY <1>1, <1>2
<1>. QED
  BY <1>3, ShorterRefines DEF Truncated

\* A pass that finds an unfinished chain and returns has added to it.
LEMMA DeliversMore ==
  ASSUME NEW v, NEW c \in Chains, ~Finished(v, c),
         NEW e \in Chains, Library!Delivers(Abstract[v], c, e)
  PROVE  Len(e) > Len(c)
<1>1. /\ Len(c) \in Nat /\ Len(e) \in Nat
      /\ Len(c) <= Len(e) /\ SubSeq(e, 1, Len(c)) = c
  BY DEF Chains, Library!Delivers, Library!Leaves, Library!Extends
<1>2. e # c
  BY DEF Finished, Library!Delivers
<1>3. Len(c) = Len(e) => e = c
  BY <1>1 DEF Chains
<1>. QED
  BY <1>1, <1>2, <1>3

(***************************************************************************)
(* What is on disk is a refinement of the spec on disk at every moment; it *)
(* is unfinished whenever the engine is called, and finished from its      *)
(* return to the verdict.                                                  *)
(***************************************************************************)
Sound ==
  /\ Refines(formal.spec, chainFile)
  /\ pc = "engine" => ~Finished(formal.spec, chainFile)
  /\ pc \in {"critic", "codegen"} /\ refined # Unrefined =>
       Finished(formal.spec, chainFile)
  /\ pc \in {"stage4", "diagnose", "revise", "backtrack"} =>
       Pruned \/ Finished(formal.spec, chainFile)
  /\ eval.status = "success" =>
       Refines(rtl.from.spec, rtl.from.steps) /\ Finished(rtl.from.spec, rtl.from.steps)

LEMMA SoundStep ==
  ASSUME Meant, LineageInv, Sound, [Next]_vars, [EngineKeepsContract]_vars
  PROVE  Sound'
<1> USE DEF LineageInv, TypeOK, Lineage, Newest, Sound, Pruned, OnDisk, NodeNames,
            StepNames, CallIsSound
<1>0. \A v \in Nat : Refines(v, <<>>) /\ ~Finished(v, <<>>)
  BY EmptyRefines
<1> USE <1>0
<1>Stage1. CASE Stage1
  BY <1>Stage1 DEF Stage1, RouteAfterStage1, RouteTo, memory
<1>Stage2. CASE Stage2
  BY <1>Stage2 DEF Stage2, RouteTo, counters, memory
<1>Stage3Fails. CASE Stage3Fails
  BY <1>Stage3Fails DEF Stage3Fails, Rtl, RouteAfterStage3, RouteTo, counters, memory
<1>Stage3Authors. CASE Stage3Authors
  BY <1>Stage3Authors DEF Stage3Authors, NewSpec, files, counters
<1>TlcAccepts. CASE TlcAccepts
  BY <1>TlcAccepts DEF TlcAccepts, counters
<1>TlcRevises. CASE TlcRevises
  BY <1>TlcRevises DEF TlcRevises, NewSpec, files, counters
<1>TlcGivesUp. CASE TlcGivesUp
  BY <1>TlcGivesUp DEF TlcGivesUp, Rtl, RouteAfterStage3, RouteTo, counters, memory
<1>EngineReturns. CASE EngineReturns
  <2>0. pc = "engine" /\ pc' # "engine"
    BY <1>EngineReturns DEF EngineReturns
  <2>a. EngineKeepsContract
    BY <2>0 DEF vars
  <2>b. CallIsSound
    BY <2>0
  <2>1. Library!Delivers(Abstract[formal.spec], chainFile, chainFile')
    BY <1>EngineReturns, <2>a, <2>b DEF EngineKeepsContract
  <2>2. Refines(formal.spec, chainFile') /\ Finished(formal.spec, chainFile')
    BY <2>1 DEF Library!Delivers, Library!Leaves, Refines, Finished
  <2>3. /\ pc = "engine" /\ pc' \in {"codegen", "critic"}
        /\ UNCHANGED <<formal, rtl, eval>>
    BY <1>EngineReturns DEF EngineReturns
  <2>. QED
    BY <2>2, <2>3
<1>EngineFails. CASE EngineFails
  <2>0. pc = "engine" /\ pc' # "engine"
    BY <1>EngineFails DEF EngineFails, RouteAfterStage3, RouteTo
  <2>a. EngineKeepsContract
    BY <2>0 DEF vars
  <2>b. CallIsSound
    BY <2>0
  <2>1. Library!Leaves(Abstract[formal.spec], chainFile, chainFile')
    BY <1>EngineFails, <2>a, <2>b DEF EngineKeepsContract
  <2>2. Refines(formal.spec, chainFile')
    BY <2>1 DEF Library!Leaves, Refines
  <2>3. /\ pc = "engine" /\ pc' \in {"codegen", "end", "aborted"}
        /\ formal'.spec = formal.spec /\ refined' = Unrefined /\ eval' = eval
        /\ pc' # "codegen" => rtl'.status = "error"
    BY <1>EngineFails DEF EngineFails, Rtl, RouteAfterStage3, RouteTo
  <2>. QED
    BY <2>2, <2>3
<1>CriticAccepts. CASE CriticAccepts
  BY <1>CriticAccepts DEF CriticAccepts, files, counters
<1>CriticRejects. CASE CriticRejects
  BY <1>CriticRejects DEF CriticRejects, Rtl, RouteAfterStage3, RouteTo, counters, memory
<1>Codegen. CASE Codegen
  BY <1>Codegen DEF Codegen, FinalRtl, Rtl, RouteAfterStage3, RouteTo, counters, memory
<1>Stage4. CASE Stage4
  <2>1. CASE eval'.status = "success"
    <3>1. Stage4Ready /\ pc = "stage4" /\ UNCHANGED <<formal, rtl, chainFile>>
      BY <1>Stage4, <2>1 DEF Stage4
    <3>2. rtl = Rtl("success", OnDisk)
      BY <3>1 DEF Stage4Ready
    <3>3. pc' = "end"
      BY <1>Stage4, <2>1 DEF Stage4, RouteAfterStage4, RouteTo
    <3>4. rtl.from.spec = formal.spec /\ rtl.from.steps = chainFile
      BY <3>2 DEF Rtl
    <3>5. Finished(formal.spec, chainFile)
      BY <3>1, <3>2 DEF Stage4Ready
    <3>. QED
      BY <3>1, <3>3, <3>4, <3>5
  <2>2. CASE eval'.status # "success"
    <3>1. /\ pc = "stage4" /\ UNCHANGED <<formal, rtl, chainFile>>
          /\ pc' \in {"end", "diagnose", "aborted"}
      BY <1>Stage4, <2>2 DEF Stage4, RouteAfterStage4, RouteTo
    <3>. QED
      BY <2>2, <3>1
  <2>. QED
    BY <2>1, <2>2
<1>Diagnose. CASE Diagnose
  BY <1>Diagnose DEF Diagnose, RouteAfterDiagnose, RouteTo, files, memory
<1>ReviseFails. CASE ReviseFails
  BY <1>ReviseFails DEF ReviseFails, Rtl, RouteAfterStage3, RouteTo, memory
<1>Revise. CASE Revise
  BY <1>Revise DEF Revise, FreshChain, NewSpec
<1>BacktrackFails. CASE BacktrackFails
  BY <1>BacktrackFails DEF BacktrackFails, Rtl, RouteAfterStage3, RouteTo, LoadedChain, memory
<1>Backtrack. CASE Backtrack
  <2>1. /\ chainFile # <<>> /\ chainFile' = Truncated(chainFile)
        /\ start' = [spec |-> formal.spec, steps |-> Truncated(chainFile)]
        /\ pc = "backtrack" /\ pc' = "engine" /\ UNCHANGED <<formal, rtl, eval>>
    BY <1>Backtrack DEF Backtrack, LoadedChain
  <2>2. /\ Refines(formal.spec, chainFile')
        /\ ~Finished(formal.spec, chainFile')
    BY <2>1, TruncatedRefines
  <2>. QED
    BY <2>1, <2>2
<1>Prune. CASE Prune
  BY <1>Prune DEF Prune, Rtl, counters, memory
<1>same. CASE UNCHANGED vars
  BY <1>same DEF vars, files, counters, memory
<1>. QED
  BY NextSplits, <1>Stage1, <1>Stage2, <1>Stage3Fails, <1>Stage3Authors,
     <1>TlcAccepts, <1>TlcRevises, <1>TlcGivesUp, <1>EngineReturns,
     <1>EngineFails, <1>CriticAccepts, <1>CriticRejects, <1>Codegen,
     <1>Stage4, <1>Diagnose, <1>ReviseFails, <1>Revise, <1>BacktrackFails,
     <1>Backtrack, <1>Prune, <1>same

THEOREM PipelineSound ==
  ASSUME Meant
  PROVE  Spec /\ [][EngineKeepsContract]_vars => []Sound
<1>1. Init => Sound
  <2>1. Init => Refines(0, <<>>)
    BY EmptyRefines
  <2>. QED
    BY <2>1 DEF Init, Sound
<1>2. LineageInv /\ Sound /\ [Next]_vars /\ [EngineKeepsContract]_vars => Sound'
  BY SoundStep
<1>. QED
  BY <1>1, <1>2, PipelineLineage, PTL DEF Spec

\* Every call of the engine is one that the contract covers, after a revision and
\* after any number of backtracks too, and the caller may count on progress: the
\* spec that the engine is given is not finished, so what it returns has more
\* steps.  (The guard Len(c) > Len(chainFile) of EngineReturns follows from it.)
THEOREM PipelineCallsEngine ==
  ASSUME Meant
  PROVE  Spec /\ [][EngineKeepsContract]_vars =>
           [](pc = "engine" =>
                /\ CallIsSound
                /\ \A c \in Chains :
                     Library!Delivers(Abstract[formal.spec], chainFile, c) =>
                       Len(c) > Len(chainFile))
<1>1. LineageInv /\ Sound =>
        (pc = "engine" =>
           /\ CallIsSound
           /\ \A c \in Chains :
                Library!Delivers(Abstract[formal.spec], chainFile, c) =>
                  Len(c) > Len(chainFile))
  BY DeliversMore DEF LineageInv, Lineage, TypeOK, Sound, CallIsSound
<1>. QED
  BY <1>1, PipelineLineage, PipelineSound, PTL

\* A run ends in success only on RTL of a finished refinement: every step from
\* the spec the bridge made to the one compiled was applicable and changed
\* something, and what was compiled is RTL-style.
THEOREM PipelineSuccessRefines ==
  ASSUME Meant
  PROVE  Spec /\ [][EngineKeepsContract]_vars =>
           [](pc = "end" /\ eval.status = "success" =>
                /\ rtl.from.spec = versions
                /\ Refines(rtl.from.spec, rtl.from.steps)
                /\ Finished(rtl.from.spec, rtl.from.steps))
<1>1. LineageInv /\ Sound =>
        (pc = "end" /\ eval.status = "success" =>
           /\ rtl.from.spec = versions
           /\ Refines(rtl.from.spec, rtl.from.steps)
           /\ Finished(rtl.from.spec, rtl.from.steps))
  BY DEF LineageInv, Newest, Sound
<1>. QED
  BY <1>1, PipelineLineage, PipelineSound, PTL

\* And whenever Stage 4 simulates, what it judges against is finished too.
THEOREM PipelineJudgesFinished ==
  ASSUME Meant
  PROVE  Spec /\ [][EngineKeepsContract]_vars =>
           [](pc = "stage4" /\ rtl.status # "absent" =>
                /\ rtl.from = OnDisk
                /\ Refines(formal.spec, chainFile) /\ Finished(formal.spec, chainFile))
<1>1. LineageInv /\ Sound =>
        (pc = "stage4" /\ rtl.status # "absent" =>
           /\ rtl.from = OnDisk
           /\ Refines(formal.spec, chainFile) /\ Finished(formal.spec, chainFile))
  BY DEF LineageInv, Lineage, Pruned, Rtl, Sound
<1>. QED
  BY <1>1, PipelineLineage, PipelineSound, PTL
=============================================================================
