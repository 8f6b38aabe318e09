---------------------------- MODULE HandshakeFSM ----------------------------
(***************************************************************************)
(* The block that ScheduleHandshakeFSM makes of a discharged derivation:   *)
(* the updates the rule writes (schedule_handshake_fsm.py), stepped by the *)
(* clock as spec_sim and the generated Verilog step them.  Each action is  *)
(* one rising edge; between two edges the environment may change the       *)
(* ports.                                                                  *)
(*                                                                         *)
(* What differs from the loop the kernel checked: all registers load at    *)
(* once, the ports are read live at every edge, registers are masked to    *)
(* their width, the loop condition is tested after the step and a          *)
(* condition holds when it is not 0.                                       *)
(***************************************************************************)
EXTENDS LoopKernel

CONSTANTS
  Inputs,        \* what the ports can carry
  Modulus,       \* Modulus[v] = 2^width of register v
  ResetStore     \* the registers' reset values (Initialization)

Mask(v, x) == x % Modulus[v]

Values == UNION {0..Modulus[v] - 1 : v \in LoopVars}
Stores == {s \in [LoopVars -> Values] : \A v \in LoopVars : s[v] < Modulus[v]}

ASSUME BlockAssumption ==
  /\ Modulus \in [LoopVars -> Nat \ {0}]
  /\ ResetStore \in Stores
  /\ \A s \in Stores : \A v \in LoopVars, i \in Inputs :
       InitExpr(v, i, s) \in Nat /\ BodyExpr(v, i, s) \in Nat

\* LoopIntroduction installs no other loop: apply() is a no-op otherwise.
ASSUME GateAssumption == Discharged

VARIABLES
  state,     \* the control register: 0 IDLE, 1 BUSY, 2 DONE
  regs,      \* the loop registers
  reset,     \* the reset port, 1 when asserted (reset_active_low is normalised)
  start, in, \* the other ports; all as the next edge will sample them
  operands,  \* auxiliary: the ports at the edge of the last load
  cycles,    \* auxiliary: BUSY edges since that load (stops after MaxIters)
  answered   \* auxiliary: that job is done

vars == <<state, regs, reset, start, in, operands, cycles, answered>>

PortsVary == reset' \in {0, 1} /\ start' \in {0, 1} /\ in' \in Inputs

Init ==
  /\ state = 0
  /\ regs = ResetStore
  /\ reset \in {0, 1} /\ start \in {0, 1} /\ in \in Inputs
  /\ operands = in
  /\ cycles = 0
  /\ answered = FALSE

\* The combinational action DoneFlag.
done == state = 2

\* Mutants: a pulse restarts a busy block; a pulse in DONE is lost.
LoadAlways == start = 1
LoadIdleOnly == state = 0 /\ start = 1

LOAD == (state = 0 \/ state = 2) /\ start = 1

Stepped == StepBody(in, regs)

Masked(s) == [v \in LoopVars |-> Mask(v, s[v])]

\* Mutants: the guard is tested on the old registers; it is substituted twice.
StayBusyOld == Guard(in, regs) # 0
StayBusyTwice == Guard(in, StepBody(in, Stepped)) # 0

\* The guard with the body substituted for the registers (not masked).
StayBusy == Guard(in, Stepped) # 0

\* Every loop variable has an init and a body here; the code loads those that
\* have a body, and raises when one of them has no init.
Load ==
  /\ reset = 0
  /\ LOAD
  /\ state' = 1
  /\ regs' = [v \in LoopVars |-> Mask(v, InitExpr(v, in, regs))]
  /\ operands' = in
  /\ cycles' = 0
  /\ answered' = FALSE
  /\ PortsVary

Step ==
  /\ reset = 0
  /\ ~LOAD
  /\ state = 1
  /\ state' = IF StayBusy THEN 1 ELSE 2
  /\ regs' = Masked(Stepped)
  /\ cycles' = IF cycles > MaxIters THEN cycles ELSE cycles + 1
  /\ answered' = ~StayBusy
  /\ PortsVary
  /\ UNCHANGED operands

\* Mutant: after DONE the state register counts on.
HoldCounts ==
  /\ reset = 0
  /\ ~LOAD
  /\ state # 1
  /\ state' = IF state = 0 THEN 0 ELSE state + 1
  /\ PortsVary
  /\ UNCHANGED <<regs, operands, cycles, answered>>

Hold ==
  /\ reset = 0
  /\ ~LOAD
  /\ state # 1
  /\ state' = 0
  /\ PortsVary
  /\ UNCHANGED <<regs, operands, cycles, answered>>

\* The reset branch of the clocked block.
Reset ==
  /\ reset = 1
  /\ state' = 0
  /\ regs' = ResetStore
  /\ answered' = FALSE
  /\ cycles' = 0
  /\ PortsVary
  /\ UNCHANGED operands

Next == Load \/ Step \/ Hold \/ Reset

Spec == Init /\ [][Next]_vars

\* The clock does not stop.
FairSpec == Spec /\ WF_vars(Next)
-----------------------------------------------------------------------------
(***************************************************************************)
(* What the block needs of a derivation beyond what the kernel checks.     *)
(***************************************************************************)
\* The proof is exhaustive, for the ports the block really has.
AllInputsChecked == Inputs \subseteq Valuations

\* The first test of the guard always succeeds: the block is a do-while.
RunsOnce == \A i \in Inputs : Guard(i, ApplyInit(i)) = 1

\* Every operand is latched: init reads ports only, body and guard read
\* registers only.
OperandsLatched ==
  LET j == CHOOSE j \in Inputs : TRUE IN
    /\ \A i \in Inputs :
         \A s \in Stores \cup {Established(i)[k] : k \in 0..Len(InitOrder)} :
           \A v \in LoopVars : InitExpr(v, i, s) = InitExpr(v, i, ResetStore)
    /\ \A s \in Stores : \A i \in Inputs :
         /\ Guard(i, s) = Guard(j, s)
         /\ \A v \in LoopVars : BodyExpr(v, i, s) = BodyExpr(v, j, s)

\* The registers are wide enough for every store the loop visits.
WideEnough ==
  \A i \in Inputs, n \in 0..MaxIters :
    Reaches(i, n) => Visit(i)[n] \in Stores

\* The guard is a comparison, not a number.
GuardIsBoolean == \A i \in Inputs, s \in Stores : Guard(i, s) \in {0, 1}

Schedulable ==
  AllInputsChecked /\ RunsOnce /\ OperandsLatched /\ WideEnough /\ GuardIsBoolean
-----------------------------------------------------------------------------
TypeOK ==
  /\ state \in 0..2
  /\ regs \in Stores
  /\ reset \in {0, 1}
  /\ start \in {0, 1}
  /\ in \in Inputs
  /\ operands \in Inputs
  /\ cycles \in 0..(MaxIters + 1)
  /\ answered \in BOOLEAN

(***************************************************************************)
(* The answer to the last job satisfies the postcondition for the operands *)
(* of that job, from the done cycle until the next load, whatever the      *)
(* ports and the start line did meanwhile.                                 *)
(***************************************************************************)
ResultStands == answered => Post(operands, regs) = 1

(***************************************************************************)
(* A job takes at most MaxIters cycles: the bound on the kernel's walk     *)
(* bounds the hardware's latency.                                          *)
(***************************************************************************)
LatencyBounded == cycles <= MaxIters

(***************************************************************************)
(* The block follows the loop the kernel walked, step for step.            *)
(***************************************************************************)
OnTrack ==
  /\ state = 1 \/ answered =>
       /\ Reaches(operands, cycles)
       /\ regs = Visit(operands)[cycles]
  /\ state = 1 => Guard(operands, regs) = 1
  /\ answered => Guard(operands, regs) # 1 /\ state # 1
  /\ state = 2 => answered

\* Every accepted job is answered (or the block is reset).
JobsEnd == state = 1 ~> state # 1

(***************************************************************************)
(* The block keeps the start/done promise.                                 *)
(***************************************************************************)
RightAnswer(i, s) == Post(i, s) = 1

Promise ==
  INSTANCE StartDone WITH
    Jobs <- Inputs, Answers <- Stores, Right <- RightAnswer,
    busy <- state = 1, taken <- operands, answer <- regs

KeepsPromise == Promise!StartDoneSpec
=============================================================================
