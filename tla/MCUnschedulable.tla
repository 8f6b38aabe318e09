-------------------------- MODULE MCUnschedulable ---------------------------
(***************************************************************************)
(* A derivation that the kernel discharges over all inputs (the run        *)
(* evaluates GateAssumption) and that the scheduled block computes wrongly.*)
(***************************************************************************)
EXTENDS HandshakeFSM

Truth(p) == IF p THEN 1 ELSE 0

\* Arithmetic wraps at 2^32; TLC's integers are narrower.
Word == 2^16

MCInputs == [a : 0..3, b : 0..3]
MCModulus == [v \in LoopVars |-> 8]
MCResetStore == [v \in LoopVars |-> 0]
-----------------------------------------------------------------------------
\* r = a mod b by repeated subtraction.  No iteration when a < b.
RemOrder == <<"r", "d">>
RemInit(v, i, s) == IF v = "r" THEN i.a ELSE i.b
RemBody(v, i, s) == IF v = "r" THEN (s.r - s.d) % Word ELSE s.d
RemGuard(i, s) == Truth(s.r >= s.d /\ s.d > 0)
RemInvariant(i, s) == Truth(i.b = 0 \/ s.r % i.b = i.a % i.b)
RemVariant(i, s) == s.r
RemPost(i, s) == Truth(i.b = 0 \/ s.r = i.a % i.b)
=============================================================================
