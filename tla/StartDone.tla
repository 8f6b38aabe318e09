----------------------------- MODULE StartDone ------------------------------
(***************************************************************************)
(* What a user of a start/done block may rely on: a start pulse seen while *)
(* the block is not busy takes the operands on the ports at that edge; the *)
(* block then answers that job, once, with done high for the one cycle     *)
(* after the answer appears; the answer stands until the next job is       *)
(* taken; pulses while it is busy are ignored.  Only a reset drops a job.  *)
(***************************************************************************)
CONSTANTS
  Jobs,          \* operand valuations
  Answers,       \* what the output registers can hold
  Right(_, _)    \* Right(j, a): a answers job j

VARIABLES reset, start, in, busy, done, taken, answer

handshake == <<reset, start, in, busy, done, taken, answer>>

Ports == reset \in {0, 1} /\ start \in {0, 1} /\ in \in Jobs

Idle == busy = FALSE /\ done = FALSE

StartDoneInit == Ports /\ Idle /\ taken \in Jobs /\ answer \in Answers

Take ==
  /\ reset = 0
  /\ ~busy /\ start = 1
  /\ busy' = TRUE /\ done' = FALSE
  /\ taken' = in
  /\ answer' \in Answers

Work ==
  /\ reset = 0
  /\ busy
  /\ busy' = TRUE /\ done' = FALSE
  /\ taken' = taken
  /\ answer' \in Answers

Deliver ==
  /\ reset = 0
  /\ busy
  /\ busy' = FALSE /\ done' = TRUE
  /\ taken' = taken
  /\ answer' \in Answers
  /\ Right(taken, answer')

Quiet ==
  /\ reset = 0
  /\ ~busy /\ start = 0
  /\ Idle'
  /\ UNCHANGED <<taken, answer>>

Cleared == reset = 1 /\ Idle' /\ taken' = taken /\ answer' \in Answers

StartDoneNext == Ports' /\ (Take \/ Work \/ Deliver \/ Quiet \/ Cleared)

StartDoneSpec == StartDoneInit /\ [][StartDoneNext]_handshake
=============================================================================
