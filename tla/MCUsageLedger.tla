---------------------------- MODULE MCUsageLedger ----------------------------
(* A ledger with one unmigrated row, shared by two processes. *)
EXTENDS UsageLedger

OneOldRow == <<[ts |-> 1, usd |-> 1, baseline |-> FALSE]>>
==============================================================================
