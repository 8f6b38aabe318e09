---------------------------- MODULE MCShiftAdd ------------------------------
(***************************************************************************)
(* The shift-add multiplier of tests/test_loop_introduction.py with        *)
(* operands of W bits: product = a * b.                                    *)
(***************************************************************************)
EXTENDS HandshakeFSM

W == 2

MCModulus == [product |-> 2^(2*W), mcand |-> 2^(2*W), mplier |-> 2^W, count |-> 4]

\* Arithmetic wraps at 2^32; TLC's integers are narrower.
Word == 2^16

MCInputs == [a : 0..(2^W - 1), b : 0..(2^W - 1)]

MCInit(v, i, s) ==
  CASE v = "product" -> 0
    [] v = "mcand"   -> i.a
    [] v = "mplier"  -> i.b
    [] v = "count"   -> W

MCBody(v, i, s) ==
  CASE v = "product" -> IF s.mplier % 2 = 1 THEN s.product + s.mcand ELSE s.product
    [] v = "mcand"   -> s.mcand * 2
    [] v = "mplier"  -> s.mplier \div 2
    [] v = "count"   -> (s.count - 1) % Word

MCGuard(i, s) == IF s.count > 0 THEN 1 ELSE 0
MCInvariant(i, s) == IF s.product + s.mplier * s.mcand = i.a * i.b THEN 1 ELSE 0
MCVariant(i, s) == s.count
MCPost(i, s) == IF s.product = i.a * i.b THEN 1 ELSE 0

MCInitOrder == <<"product", "mcand", "mplier", "count">>
MCResetStore == [v \in LoopVars |-> 0]

\* The theorems apply to this derivation.
ASSUME Applies == Schedulable
=============================================================================
