------------------------- MODULE HandshakeFSM_proof -------------------------
(***************************************************************************)
(* The handshake block, for every derivation, width and environment: a     *)
(* derivation that the kernel discharges and that is Schedulable becomes a *)
(* block that keeps the start/done promise.                                *)
(***************************************************************************)
EXTENDS HandshakeFSM, TLAPS

LEMMA SmallMod ==
  ASSUME NEW x \in Nat, NEW m \in Nat \ {0}, x < m
  PROVE  x % m = x
OBVIOUS

LEMMA ValuesAreNat == Values \subseteq Nat
BY BlockAssumption DEF Values
-----------------------------------------------------------------------------
(***************************************************************************)
(* The recursive definitions of the kernel, as equations.                  *)
(***************************************************************************)
VisitStep(i, s, n) == StepBody(i, s)

Loading  == INSTANCE Recursion WITH Step <- Assign
Visiting == INSTANCE Recursion WITH Step <- VisitStep

LEMMA VisitEquations ==
  ASSUME NEW i
  PROVE  /\ Visit(i)[0] = ApplyInit(i)
         /\ \A n \in 1..MaxIters : Visit(i)[n] = StepBody(i, Visit(i)[n-1])
<1> DEFINE f == Visit(i)
           b == ApplyInit(i)
           m == MaxIters
<1>1. m \in Nat
  BY KernelAssumption
<1> HIDE DEF b, m
<1>2. f = Visiting!RunBody(f, i, b, i, m)
  <2>1. \E g : g = Visiting!RunBody(g, i, b, i, m)
    BY <1>1, Visiting!RunIs
  <2>. QED
    BY <2>1 DEF Visit, Visiting!RunBody, Visiting!Body, VisitStep, b, m
<1> HIDE DEF f
<1>3. f[0] = b /\ \A n \in 1..m : f[n] = StepBody(i, f[n-1])
  BY <1>1, <1>2, Visiting!RunEquations DEF VisitStep
<1>. QED
  BY <1>3 DEF f, b, m

LEMMA EstablishedEquations ==
  ASSUME NEW i
  PROVE  /\ Established(i)[0] = Blank
         /\ \A n \in 1..Len(InitOrder) :
              Established(i)[n] = Assign(i, Established(i)[n-1], InitOrder[n])
<1> DEFINE f == Established(i)
           m == Len(InitOrder)
<1>1. m \in Nat
  BY KernelAssumption
<1> HIDE DEF m
<1>2. f = Loading!RunBody(f, i, Blank, InitOrder, m)
  <2>1. \E g : g = Loading!RunBody(g, i, Blank, InitOrder, m)
    BY <1>1, Loading!RunIs
  <2>. QED
    BY <2>1 DEF Established, Loading!RunBody, Loading!Body, m
<1> HIDE DEF f
<1>3. /\ f[0] = Blank
      /\ \A n \in 1..m : f[n] = Assign(i, f[n-1], InitOrder[n])
  BY <1>1, <1>2, Loading!RunEquations
<1>. QED
  BY <1>3 DEF f, m
-----------------------------------------------------------------------------
(***************************************************************************)
(* Under OperandsLatched the sequential init of the kernel and the         *)
(* parallel load of the block agree.                                       *)
(***************************************************************************)
LEMMA InitIsParallel ==
  ASSUME OperandsLatched, NEW i \in Inputs
  PROVE  ApplyInit(i) = [v \in LoopVars |-> InitExpr(v, i, ResetStore)]
<1> DEFINE E == Established(i)
           Assigned(v, k) == \E j \in 1..k : InitOrder[j] = v
           Partial(k) == [v \in LoopVars |->
                            IF Assigned(v, k) THEN InitExpr(v, i, ResetStore)
                                              ELSE Unset]
           T == {k \in Nat : k <= Len(InitOrder) => E[k] = Partial(k)}
<1>0. Len(InitOrder) \in Nat /\ \A k \in 1..Len(InitOrder) : InitOrder[k] \in LoopVars
  BY KernelAssumption
<1>1. 0 \in T
  BY EstablishedEquations DEF Blank
<1>2. ASSUME NEW k \in Nat, k < Len(InitOrder), k \in T
      PROVE  k + 1 \in T
  <2> DEFINE w == InitOrder[k+1]
  <2>1. w \in LoopVars
    BY <1>0, <1>2
  <2>2. InitExpr(w, i, E[k]) = InitExpr(w, i, ResetStore)
    <3>1. E[k] \in {Established(i)[n] : n \in 0..Len(InitOrder)}
      BY <1>2
    <3>. QED
      BY <2>1, <3>1 DEF OperandsLatched
  <2>3. E[k+1] = [E[k] EXCEPT ![w] = InitExpr(w, i, E[k])]
    <3>1. k+1 \in 1..Len(InitOrder) /\ (k+1) - 1 = k
      BY <1>0, <1>2
    <3>. QED
      BY <3>1, EstablishedEquations DEF Assign
  <2>4. E[k] = Partial(k)
    BY <1>2
  <2>5. E[k+1] = [v \in LoopVars |-> IF v = w THEN InitExpr(w, i, ResetStore)
                                               ELSE Partial(k)[v]]
    <3> HIDE DEF E, w
    <3>1. E[k+1] = [Partial(k) EXCEPT ![w] = InitExpr(w, i, ResetStore)]
      BY <2>2, <2>3, <2>4
    <3>. QED
      BY <2>1, <3>1
  <2>6. ASSUME NEW v \in LoopVars
        PROVE  Assigned(v, k+1) <=> (v = w \/ Assigned(v, k))
    BY <1>2
  <2>7. E[k+1] = Partial(k+1)
    <3> HIDE DEF E, w, Assigned
    <3>. QED
      BY <2>5, <2>6
  <2>. QED
    BY <2>7
<1>3. 0..Len(InitOrder) \subseteq T
  <2> HIDE DEF T
  <2>. QED
    BY <1>0, <1>1, <1>2, Visiting!IntervalInduction
<1>4. E[Len(InitOrder)] = Partial(Len(InitOrder))
  <2> DEFINE m == Len(InitOrder)
  <2>1. m \in 0..m
    BY <1>0
  <2>2. m \in T
    <3> HIDE DEF T
    <3>. QED
      BY <1>3, <2>1
  <2> HIDE DEF E, Partial, m
  <2>. QED
    BY <2>2 DEF m
<1>5. \A v \in LoopVars : Assigned(v, Len(InitOrder))
  BY KernelAssumption
<1>. QED
  BY <1>4, <1>5 DEF ApplyInit
-----------------------------------------------------------------------------
(***************************************************************************)
(* The load and the step of the block on a derivation that is Schedulable. *)
(***************************************************************************)
LEMMA MaskedStore ==
  ASSUME NEW s \in Stores
  PROVE  Masked(s) = s
<1>1. ASSUME NEW v \in LoopVars PROVE s[v] % Modulus[v] = s[v]
  <2>1. s[v] \in Nat /\ s[v] < Modulus[v] /\ Modulus[v] \in Nat \ {0}
    BY ValuesAreNat, BlockAssumption DEF Stores
  <2>. QED
    BY <2>1, SmallMod
<1>2. s = [v \in LoopVars |-> s[v]]
  BY DEF Stores
<1>. QED
  BY <1>1, <1>2 DEF Masked, Mask

\* The kernel's walk ends before its bound.
LEMMA WalkEnds ==
  ASSUME Schedulable, NEW i \in Inputs
  PROVE  ~Reaches(i, MaxIters + 1)
BY GateAssumption DEF Discharged, O2, Schedulable, AllInputsChecked

LEMMA LoadIsInit ==
  ASSUME Schedulable, NEW i \in Inputs, NEW s \in Stores
  PROVE  /\ [v \in LoopVars |-> Mask(v, InitExpr(v, i, s))] = Visit(i)[0]
         /\ Visit(i)[0] \in Stores
         /\ Reaches(i, 0)
         /\ Guard(i, Visit(i)[0]) = 1
<1>1. Reaches(i, 0)
  BY DEF Reaches
<1>2. Visit(i)[0] \in Stores
  BY <1>1, KernelAssumption DEF Schedulable, WideEnough
<1>3. Visit(i)[0] = ApplyInit(i)
  BY VisitEquations
<1>4. ApplyInit(i) = [v \in LoopVars |-> InitExpr(v, i, ResetStore)]
  BY InitIsParallel DEF Schedulable
<1>5. \A v \in LoopVars : InitExpr(v, i, s) = InitExpr(v, i, ResetStore)
  BY DEF Schedulable, OperandsLatched
<1>6. Masked(ApplyInit(i)) = ApplyInit(i)
  BY <1>2, <1>3, MaskedStore
<1>7. [v \in LoopVars |-> Mask(v, InitExpr(v, i, s))] = ApplyInit(i)
  BY <1>4, <1>5, <1>6 DEF Masked
<1>8. Guard(i, ApplyInit(i)) = 1
  BY DEF Schedulable, RunsOnce
<1>. QED
  BY <1>1, <1>2, <1>3, <1>7, <1>8

\* j: the ports while the job of operands i runs.
LEMMA StepIsBody ==
  ASSUME Schedulable, NEW i \in Inputs, NEW j \in Inputs,
         NEW n \in 0..(MaxIters + 1), Reaches(i, n), NEW s \in Stores,
         s = Visit(i)[n], Guard(i, s) = 1
  PROVE  /\ n + 1 \in 0..MaxIters
         /\ Reaches(i, n + 1)
         /\ StepBody(j, s) = Visit(i)[n+1]
         /\ StepBody(j, s) \in Stores
         /\ Masked(StepBody(j, s)) = Visit(i)[n+1]
         /\ Guard(j, StepBody(j, s)) = Guard(i, Visit(i)[n+1])
         /\ Guard(i, Visit(i)[n+1]) \in {0, 1}
<1>0. MaxIters \in Nat
  BY KernelAssumption
<1>1. Reaches(i, n + 1)
  <2>1. ASSUME NEW m \in 0..n PROVE Guard(i, Visit(i)[m]) = 1
    <3>1. CASE m = n
      BY <3>1
    <3>2. CASE m \in 0..n-1
      BY <3>2 DEF Reaches
    <3>. QED
      BY <1>0, <3>1, <3>2
  <2>. QED
    BY <1>0, <2>1 DEF Reaches
<1>2. n + 1 \in 0..MaxIters
  <2>1. n # MaxIters
    BY <1>1, WalkEnds
  <2>2. n # MaxIters + 1
    BY WalkEnds
  <2>. QED
    BY <1>0, <2>1, <2>2
<1>3. Visit(i)[n+1] \in Stores
  BY <1>1, <1>2 DEF Schedulable, WideEnough
<1>4. Visit(i)[n+1] = StepBody(i, s)
  <2>1. n + 1 \in 1..MaxIters /\ (n + 1) - 1 = n
    BY <1>0, <1>2
  <2>. QED
    BY <2>1, VisitEquations
<1>5. \A t \in Stores : \A v \in LoopVars :
        BodyExpr(v, i, t) = BodyExpr(v, j, t)
  BY DEF Schedulable, OperandsLatched
<1>6. StepBody(j, s) = StepBody(i, s)
  BY <1>5 DEF StepBody
<1>7. Guard(j, StepBody(j, s)) = Guard(i, Visit(i)[n+1])
  <2>1. \A t \in Stores : Guard(i, t) = Guard(j, t)
    BY DEF Schedulable, OperandsLatched
  <2>. QED
    BY <1>3, <1>4, <1>6, <2>1
<1>. QED
  BY <1>1, <1>2, <1>3, <1>4, <1>6, <1>7, MaskedStore DEF Schedulable, GuardIsBoolean
-----------------------------------------------------------------------------
(***************************************************************************)
(* The inductive invariant.  ResultStands says nothing while a job runs;   *)
(* OnTrack does: the registers are at the kernel's own store, so when the  *)
(* guard fails O3 applies.                                                 *)
(***************************************************************************)
IInv == TypeOK /\ OnTrack /\ LatencyBounded

LEMMA Constants ==
  /\ ResetStore \in Stores
  /\ MaxIters \in Nat
  /\ 0 \in 0..(MaxIters + 1)
BY BlockAssumption, KernelAssumption

LEMMA InitStep == ASSUME Init PROVE IInv
<1>1. TypeOK
  <2>1. answered \in BOOLEAN
    BY Zenon DEF Init
  <2>2. state \in 0..2 /\ cycles \in 0..(MaxIters + 1) /\ regs \in Stores
    BY Constants DEF Init
  <2>3. reset \in {0, 1} /\ start \in {0, 1} /\ in \in Inputs /\ operands \in Inputs
    BY DEF Init
  <2>. QED
    BY <2>1, <2>2, <2>3 DEF TypeOK
<1>2. OnTrack /\ LatencyBounded
  BY KernelAssumption DEF Init, OnTrack, LatencyBounded
<1>. QED
  BY <1>1, <1>2 DEF IInv

LEMMA LoadStep ==
  ASSUME Schedulable, IInv, Load
  PROVE  IInv'
<1>1. /\ regs' = Visit(in)[0]
      /\ Visit(in)[0] \in Stores
      /\ Reaches(in, 0)
      /\ Guard(in, Visit(in)[0]) = 1
  BY LoadIsInit DEF IInv, TypeOK, Load
<1>2. operands' = in /\ cycles' = 0 /\ state' = 1 /\ answered' = FALSE
  BY DEF Load
<1>3. TypeOK'
  <2>1. answered' \in BOOLEAN
    BY Zenon DEF Load
  <2>2. state' \in 0..2 /\ cycles' \in 0..(MaxIters + 1) /\ regs' \in Stores
    BY <1>1, <1>2, Constants DEF Load
  <2>3. reset' \in {0, 1} /\ start' \in {0, 1} /\ in' \in Inputs /\ operands' \in Inputs
    BY DEF IInv, TypeOK, Load, PortsVary
  <2>. QED
    BY <2>1, <2>2, <2>3 DEF TypeOK
<1>4. OnTrack'
  BY <1>1, <1>2 DEF OnTrack
<1>5. LatencyBounded'
  BY <1>2, KernelAssumption DEF LatencyBounded
<1>. QED
  BY <1>3, <1>4, <1>5 DEF IInv

LEMMA StepFacts ==
  ASSUME Schedulable, IInv, Step
  PROVE  /\ cycles' = cycles + 1
         /\ cycles' \in 0..MaxIters
         /\ operands' = operands
         /\ Reaches(operands, cycles')
         /\ regs' = Visit(operands)[cycles']
         /\ regs' \in Stores
         /\ StayBusy <=> Guard(operands, regs') = 1
<1>0. MaxIters \in Nat
  BY KernelAssumption
<1>1. /\ operands \in Inputs /\ in \in Inputs
      /\ cycles \in 0..(MaxIters + 1)
      /\ regs \in Stores
      /\ Reaches(operands, cycles)
      /\ regs = Visit(operands)[cycles]
      /\ Guard(operands, regs) = 1
  BY DEF IInv, TypeOK, OnTrack, Step
<1>2. /\ cycles + 1 \in 0..MaxIters
      /\ Reaches(operands, cycles + 1)
      /\ Stepped \in Stores
      /\ Masked(Stepped) = Visit(operands)[cycles + 1]
      /\ Stepped = Visit(operands)[cycles + 1]
      /\ Guard(in, Stepped) = Guard(operands, Visit(operands)[cycles + 1])
      /\ Guard(operands, Visit(operands)[cycles + 1]) \in {0, 1}
  BY <1>1, StepIsBody DEF Stepped
<1>3. cycles' = cycles + 1
  BY <1>0, <1>1, <1>2 DEF Step
<1>4. regs' = Visit(operands)[cycles + 1] /\ operands' = operands
  BY <1>2 DEF Step
<1>5. StayBusy <=> Guard(operands, Visit(operands)[cycles + 1]) = 1
  BY <1>2 DEF StayBusy
<1>. QED
  BY <1>2, <1>3, <1>4, <1>5

LEMMA StepStep ==
  ASSUME Schedulable, IInv, Step
  PROVE  IInv'
<1>1. TypeOK'
  <2>1. /\ state' \in 0..2 /\ answered' \in BOOLEAN
        /\ reset' \in {0, 1} /\ start' \in {0, 1} /\ in' \in Inputs
    BY DEF Step, PortsVary
  <2>2. operands' \in Inputs /\ cycles' \in 0..(MaxIters + 1) /\ regs' \in Stores
    BY StepFacts, KernelAssumption DEF IInv, TypeOK
  <2>. QED
    BY <2>1, <2>2 DEF TypeOK
<1>2. OnTrack'
  <2>1. CASE StayBusy
    <3>1. state' = 1 /\ ~answered'
      BY <2>1 DEF Step
    <3>. QED
      BY <2>1, <3>1, StepFacts DEF OnTrack
  <2>2. CASE ~StayBusy
    <3>1. state' = 2 /\ answered'
      BY <2>2 DEF Step
    <3>. QED
      BY <2>2, <3>1, StepFacts DEF OnTrack
  <2>. QED
    BY <2>1, <2>2
<1>3. LatencyBounded'
  BY StepFacts, KernelAssumption DEF LatencyBounded
<1>. QED
  BY <1>1, <1>2, <1>3 DEF IInv

LEMMA HoldStep ==
  ASSUME IInv, Hold
  PROVE  IInv'
<1>1. TypeOK'
  BY DEF IInv, TypeOK, Hold, PortsVary
<1>2. OnTrack' /\ LatencyBounded'
  BY DEF IInv, OnTrack, LatencyBounded, Hold
<1>. QED
  BY <1>1, <1>2 DEF IInv

LEMMA ResetStep ==
  ASSUME IInv, Reset
  PROVE  IInv'
<1>1. TypeOK'
  <2>1. answered' \in BOOLEAN
    BY Zenon DEF Reset
  <2>2. state' \in 0..2 /\ cycles' \in 0..(MaxIters + 1) /\ regs' \in Stores
    BY Constants DEF Reset
  <2>3. reset' \in {0, 1} /\ start' \in {0, 1} /\ in' \in Inputs /\ operands' \in Inputs
    BY DEF IInv, TypeOK, Reset, PortsVary
  <2>. QED
    BY <2>1, <2>2, <2>3 DEF TypeOK
<1>2. OnTrack' /\ LatencyBounded'
  BY KernelAssumption DEF OnTrack, LatencyBounded, Reset
<1>. QED
  BY <1>1, <1>2 DEF IInv

\* The invariant holds of every derivation that is Schedulable.
THEOREM BlockInvariance ==
  ASSUME Schedulable
  PROVE  Spec => []IInv
<1>1. Init => IInv
  BY InitStep
<1>2. IInv /\ [Next]_vars => IInv'
  <2>1. SUFFICES ASSUME IInv, [Next]_vars PROVE IInv'
    OBVIOUS
  <2>2. CASE Load
    BY <2>1, <2>2, LoadStep
  <2>3. CASE Step
    BY <2>1, <2>3, StepStep
  <2>4. CASE Hold
    BY <2>1, <2>4, HoldStep
  <2>5. CASE Reset
    BY <2>1, <2>5, ResetStep
  <2>6. CASE UNCHANGED vars
    BY <2>1, <2>6 DEF vars, IInv, TypeOK, OnTrack, LatencyBounded
  <2>. QED
    BY <2>1, <2>2, <2>3, <2>4, <2>5, <2>6 DEF Next
<1>. QED
  BY <1>1, <1>2, PTL DEF Spec

LEMMA TrackMeetsPost ==
  ASSUME Schedulable, IInv
  PROVE  ResultStands
<1>1. SUFFICES ASSUME answered PROVE Post(operands, regs) = 1
  BY DEF ResultStands
<1>2. /\ operands \in Valuations
      /\ cycles \in 0..MaxIters
      /\ Reaches(operands, cycles)
      /\ regs = Visit(operands)[cycles]
      /\ Guard(operands, Visit(operands)[cycles]) # 1
  BY <1>1, KernelAssumption DEF IInv, TypeOK, OnTrack, LatencyBounded, Schedulable, AllInputsChecked
<1>. QED
  BY <1>2, GateAssumption DEF Discharged, O3

\* Type correctness of the block.
THEOREM BlockTyping ==
  ASSUME Schedulable
  PROVE  Spec => []TypeOK
BY BlockInvariance, PTL DEF IInv

\* The registers follow the loop the kernel walked.
THEOREM BlockOnTrack ==
  ASSUME Schedulable
  PROVE  Spec => []OnTrack
BY BlockInvariance, PTL DEF IInv

\* A job takes at most max_iters cycles.
THEOREM BlockLatency ==
  ASSUME Schedulable
  PROVE  Spec => []LatencyBounded
BY BlockInvariance, PTL DEF IInv

\* The scheduled block computes the postcondition that the kernel discharged
\* for the loop.
THEOREM BlockMeetsPost ==
  ASSUME Schedulable
  PROVE  Spec => []ResultStands
<1>1. IInv => ResultStands
  BY TrackMeetsPost
<1>. QED
  BY <1>1, BlockInvariance, PTL
-----------------------------------------------------------------------------
\* The block implements the start/done promise: every edge is a step of it.
THEOREM BlockKeepsPromise ==
  ASSUME Schedulable
  PROVE  Spec => KeepsPromise
<1>1. Init => Promise!StartDoneInit
  BY Constants DEF Init, Promise!StartDoneInit, Promise!Ports, Promise!Idle, done
<1>2. IInv /\ IInv' /\ [Next]_vars => [Promise!StartDoneNext]_(Promise!handshake)
  <2>1. SUFFICES ASSUME IInv, IInv', [Next]_vars
                 PROVE  [Promise!StartDoneNext]_(Promise!handshake)
    OBVIOUS
  <2>2. regs' \in Stores
    BY <2>1 DEF IInv, TypeOK
  <2>3. CASE Load
    <3>1. Promise!Ports' /\ Promise!Take
      BY <2>2, <2>3 DEF Load, LOAD, PortsVary, Promise!Ports, Promise!Take, done
    <3>. QED
      BY <3>1 DEF Promise!StartDoneNext
  <2>4. CASE Step
    <3>1. Promise!Ports'
      BY <2>4 DEF Step, PortsVary, Promise!Ports
    <3>2. CASE StayBusy
      <4>1. Promise!Work
        BY <2>2, <2>4, <3>2 DEF Step, Promise!Work, done
      <4>. QED
        BY <3>1, <4>1 DEF Promise!StartDoneNext
    <3>3. CASE ~StayBusy
      <4>1. answered'
        BY <2>4, <3>3 DEF Step
      <4>2. Post(operands', regs') = 1
        <5>1. ResultStands'
          BY <2>1, TrackMeetsPost, PTL
        <5>. QED
          BY <4>1, <5>1 DEF ResultStands
      <4>3. Promise!Deliver
        BY <2>2, <2>4, <3>3, <4>2 DEF Step, Promise!Deliver, RightAnswer, done
      <4>. QED
        BY <3>1, <4>3 DEF Promise!StartDoneNext
    <3>. QED
      BY <3>2, <3>3
  <2>5. CASE Hold
    <3>1. start = 0
      BY <2>1, <2>5 DEF Hold, LOAD, IInv, TypeOK
    <3>2. Promise!Ports' /\ Promise!Quiet
      BY <2>5, <3>1 DEF Hold, PortsVary, Promise!Ports, Promise!Quiet, Promise!Idle, done
    <3>. QED
      BY <3>2 DEF Promise!StartDoneNext
  <2>6. CASE Reset
    <3>1. Promise!Ports' /\ Promise!Cleared
      BY <2>2, <2>6 DEF Reset, PortsVary, Promise!Ports, Promise!Cleared, Promise!Idle, done
    <3>. QED
      BY <3>1 DEF Promise!StartDoneNext
  <2>7. CASE UNCHANGED vars
    BY <2>7 DEF vars, Promise!handshake, done
  <2>. QED
    BY <2>1, <2>3, <2>4, <2>5, <2>6, <2>7 DEF Next
<1>. QED
  BY <1>1, <1>2, BlockInvariance, PTL DEF Spec, KeepsPromise, Promise!StartDoneSpec
-----------------------------------------------------------------------------
(* What else the kernel discharged, carried to the hardware (O1 and O2)    *)

\* The candidate's invariant holds of the registers, from the load on.
InvariantCarried ==
  state = 1 \/ answered => Invariant(operands, regs) = 1

\* A busy edge without reset brings the variant down.
VariantFalls ==
  state = 1 /\ reset = 0 => Variant(operands', regs') < Variant(operands, regs)

\* What O1 and O2 say of the store after n steps.
LEMMA WalkIsDischarged ==
  ASSUME Schedulable, NEW i \in Inputs, NEW n \in 0..MaxIters, Reaches(i, n)
  PROVE  /\ Invariant(i, Visit(i)[n]) = 1
         /\ n > 0 => Variant(i, Visit(i)[n]) < Variant(i, Visit(i)[n-1])
<1>1. i \in Valuations
  BY DEF Schedulable, AllInputsChecked
<1>2. Visit(i)[0] = ApplyInit(i)
  BY VisitEquations
<1>3. CASE n = 0
  BY <1>1, <1>2, <1>3, GateAssumption DEF Discharged, O1
<1>4. CASE n # 0
  <2>1. n \in 1..MaxIters
    BY <1>4, KernelAssumption
  <2>. QED
    BY <1>1, <2>1, GateAssumption DEF Discharged, O2
<1>. QED
  BY <1>3, <1>4

\* The registers satisfy the invariant of the loop at every edge of a job and
\* as long as its answer stands, although the block loads all of them at once,
\* reads the ports live and masks what it stores.
THEOREM BlockCarriesInvariant ==
  ASSUME Schedulable
  PROVE  Spec => []InvariantCarried
<1>1. IInv => InvariantCarried
  <2>1. SUFFICES ASSUME IInv, state = 1 \/ answered
                 PROVE  Invariant(operands, regs) = 1
    BY DEF InvariantCarried
  <2>2. /\ operands \in Inputs /\ cycles \in 0..MaxIters
        /\ Reaches(operands, cycles) /\ regs = Visit(operands)[cycles]
    BY <2>1, KernelAssumption DEF IInv, TypeOK, OnTrack, LatencyBounded
  <2>. QED
    BY <2>2, WalkIsDischarged
<1>. QED
  BY <1>1, BlockInvariance, PTL

\* The variant that the kernel checked along its bounded walk falls at every
\* busy edge of the hardware that is not reset, the last one included: a job
\* can only come nearer to done, whatever the ports do.
THEOREM BlockVariantFalls ==
  ASSUME Schedulable
  PROVE  Spec => [][VariantFalls]_vars
<1>1. IInv /\ [Next]_vars => [VariantFalls]_vars
  <2>1. SUFFICES ASSUME IInv, Next, state = 1, reset = 0
                 PROVE  Variant(operands', regs') < Variant(operands, regs)
    BY DEF VariantFalls
  <2>2. Step
    BY <2>1 DEF Next, Load, LOAD, Hold, Reset
  <2>3. /\ cycles' = cycles + 1 /\ cycles' \in 0..MaxIters /\ operands' = operands
        /\ Reaches(operands, cycles') /\ regs' = Visit(operands)[cycles']
    BY <2>1, <2>2, StepFacts
  <2>4. operands \in Inputs /\ cycles \in Nat /\ regs = Visit(operands)[cycles]
    BY <2>1 DEF IInv, TypeOK, OnTrack
  <2>5. Variant(operands, Visit(operands)[cycles']) <
          Variant(operands, Visit(operands)[cycles' - 1])
    BY <2>1, <2>3, <2>4, WalkIsDischarged
  <2>6. cycles' - 1 = cycles
    BY <2>3, <2>4
  <2>. QED
    BY <2>3, <2>4, <2>5, <2>6
<1>. QED
  BY <1>1, BlockInvariance, PTL DEF Spec
=============================================================================
