------------------------- MODULE MCRefinementEngine -------------------------
(***************************************************************************)
(* A small rule library for TLC.  Specs are numbers; 0 is the abstract     *)
(* spec and 5, 6 are RTL-style.  Every outcome of apply occurs, there is a *)
(* dead end (4), a two-cycle that the no-op guard does not see (1 <-> 2:   *)
(* Alternation re-branching an action back and forth) and a spec that TLC  *)
(* rejects (3).                                                            *)
(***************************************************************************)
EXTENDS RefinementEngine, TLC

MCSpecs == 0..6

MCApplicable ==
  [s \in MCSpecs |-> CASE s = 4 -> {}
                       [] s \in {0, 1, 2} -> {"Alternation", "Initialization"}
                       [] OTHER -> {"Initialization"}]

\* The interesting applications; every other one raises KeyError.
Table ==
  (<<0, <<"Alternation", "p">>>> :> 1) @@
  (<<0, <<"Alternation", "q">>>> :> 0) @@
  (<<0, <<"Initialization", "p">>>> :> 3) @@
  (<<0, <<"Initialization", "q">>>> :> Escapes) @@
  (<<1, <<"Alternation", "p">>>> :> 1) @@
  (<<1, <<"Alternation", "q">>>> :> 2) @@
  (<<1, <<"Initialization", "p">>>> :> 4) @@
  (<<1, <<"Initialization", "q">>>> :> 5) @@
  (<<2, <<"Alternation", "p">>>> :> 1) @@
  (<<2, <<"Alternation", "q">>>> :> 2) @@
  (<<2, <<"Initialization", "p">>>> :> 6) @@
  (<<3, <<"Initialization", "p">>>> :> 3) @@
  (<<3, <<"Initialization", "q">>>> :> 4)

MCResult ==
  [s \in MCSpecs |-> [ch \in Choices |->
     IF <<s, ch>> \in DOMAIN Table THEN Table[<<s, ch>>] ELSE Raises]]

\* A fresh run, and a backtrack whose truncated chain is already on disk.
MCPrefixes == {<<>>, <<<<"Alternation", "p">>>>}
=============================================================================
