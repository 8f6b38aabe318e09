---------------------------- MODULE MCSpecCircuit ---------------------------
(***************************************************************************)
(* Small designs in the manner of the repository's fixtures.               *)
(*   counter   an enabled counter with Wrap and Hold, and two wires of     *)
(*             which the first reads the second (tests/test_fix_wave_counter) *)
(*   regfile   a memory with one write and one read port                   *)
(*   alu       one action that may be refined by branches or by steps      *)
(*   toggle    a register introduced during refinement, with a reset value *)
(*             or without, before or after the reset action is written; and  *)
(*             a wire's action that a stray Assignment may make its driver   *)
(*   twoport   a memory with two write ports that are never both enabled   *)
(*   compare   compute, then compare what was computed                     *)
(***************************************************************************)
EXTENDS SpecCircuit

Reg(w)  == [width |-> w, depth |-> 0, comb |-> FALSE, abstract |-> TRUE,
            reset |-> None, clocked |-> FALSE]
Wired   == [Reg(1) EXCEPT !.comb = TRUE, !.abstract = FALSE]
Memory  == [Reg(1) EXCEPT !.depth = 2]

Act(n, g, us) == [name |-> n, guard |-> g, updates |-> us, branches |-> <<>>,
                  steps |-> <<>>, clocked |-> FALSE, comb |-> FALSE]
Continuous(n, us) == [Act(n, True, us) EXCEPT !.comb = TRUE]
Abstract(vs, as) == [vars |-> vs, actions |-> as, reset |-> None]
Part(g, us) == [guard |-> g, updates |-> us]
Cell(i, e) == [var |-> "mem", idx |-> i, expr |-> e]

MCGiven ==
 [counter |-> Abstract([cnt |-> Reg(2), ready |-> Wired, full |-> Wired],
    <<Act("Inc", "en = 1 /\\ cnt /= 3", <<Update("cnt", "cnt + 1")>>),
      Act("Wrap", "en = 1 /\\ cnt = 3", <<Update("cnt", "0")>>),
      Act("Hold", "en = 0", <<Update("cnt", "cnt")>>),
      Continuous("Flags", <<Update("ready", "~full"), Update("full", "cnt = 3")>>)>>),
  regfile |-> Abstract([mem |-> Memory, rdata |-> Reg(1)],
    <<Act("Write", "en = 1", <<Cell("a", "b")>>),
      Act("Read", True, <<Update("rdata", "mem[a]")>>)>>),
  alu |-> Abstract([acc |-> Reg(2), sum |-> Reg(2)],
    <<Act("Step", True, <<Update("acc", "acc + b"), Update("sum", "acc")>>)>>),
  toggle |-> Abstract([cnt |-> Reg(2), led |-> Wired],
    <<Act("Step", True, <<Update("cnt", "cnt + 1")>>), Act("Flip", "en = 1", <<>>),
      Continuous("Show", <<Update("led", "cnt")>>)>>),
  twoport |-> Abstract([mem |-> Memory],
    <<Act("WriteA", "en = 1", <<Cell("a", "1")>>),
      Act("WriteB", "en = 0", <<Cell("b", "0")>>)>>),
  compare |-> Abstract([sum |-> Reg(2), hit |-> Reg(1)],
    <<Act("Step", True, <<Update("sum", "sum + b"), Update("hit", "1")>>)>>)]

Clock(n)     == [rule |-> "Iteration", action |-> n]
Resets(us)   == [rule |-> "Initialization", name |-> "Reset", values |-> us]
Split(n, bs) == [rule |-> "Alternation", action |-> n, branches |-> bs]
Chain(n, ss) == [rule |-> "SequentialComposition", action |-> n, steps |-> ss]

\* Stray picks included: wires, memories and names that do not exist.
MCOffers(design, s) ==
  CASE design = "counter" ->
        {Clock("Inc"), Clock("Wrap"), Clock("Hold"), Clock("Flags"), Clock("Gone"),
         Resets(<<Update("cnt", "0"), Update("full", "0")>>),
         Split("Flags", <<Part("en = 1", <<Update("full", "1")>>)>>),
         Chain("Flags", <<Part(None, <<Update("ready", "1")>>)>>)}
    [] design = "regfile" ->
        {Clock("Write"), Clock("Read"), Resets(<<Update("rdata", "0"), Update("mem", "0")>>)}
    [] design = "alu" ->
        {Clock("Step"), Resets(<<Update("acc", "0"), Update("sum", "0")>>),
         Split("Step", <<Part("en = 1", <<Update("acc", "b"), Update("sum", "acc")>>),
                         Part("en = 0", <<Update("acc", "acc + b")>>)>>),
         Chain("Step", <<Part(None, <<Update("sum", "acc + b")>>),
                         Part("en = 1", <<Update("acc", "sum")>>)>>)}
    [] design = "toggle" ->
        {Clock("Step"), Clock("Flip"), Resets(<<Update("cnt", "0")>>)}
        \cup {[rule |-> "IntroduceVariable", name |-> "acc", width |-> 2,
               abstract |-> TRUE, reset |-> r] : r \in {None, "0"}}
        \cup (IF "acc" \in DOMAIN s.vars
              THEN {[rule |-> "Assignment", action |-> n,
                     updates |-> <<Update("acc", "cnt")>>] : n \in {"Flip", "Show"}}
                   \cup {Resets(<<Update("cnt", "0"), Update("acc", "0")>>)}
              ELSE {})
        \cup (IF "acc" \in DOMAIN s.vars /\ s.reset # None
              THEN {Resets(<<Update("acc", "1")>>)}
              ELSE {})
    [] design = "twoport" ->
        {Clock("WriteA"), Clock("WriteB"), Resets(<<>>)}
    [] design = "compare" ->
        {Clock("Step"), Resets(<<Update("sum", "0"), Update("hit", "0")>>),
         Chain("Step", <<Part(None, <<Update("sum", "sum + b")>>),
                         Part("sum = 3", <<Update("hit", "1")>>)>>)}

MCStimuli ==
  [counter |-> [en : 0..1], regfile |-> [en : 0..1, a : {0, 1, X}, b : 0..1],
   alu |-> [en : 0..1, b : 0..2], toggle |-> [en : 0..1],
   twoport |-> [en : 0..1, a : 0..1, b : 0..1], compare |-> [b : 0..2]]

Bit(p) == IF p THEN 1 ELSE 0

\* A name without a value is undefined.
MCEval(e, s) ==
  LET Known1(x, Op(_)) == IF x = X THEN X ELSE Op(x)
      Val(v) == IF v \in DOMAIN s.sig THEN s.sig[v] ELSE X
      en == Val("en")  cnt == Val("cnt")
  IN  CASE e \in {"TRUE", "1"} -> 1
        [] e = "0" -> 0
        [] e = "en = 1" -> Known1(en, LAMBDA x : Bit(x = 1))
        [] e = "en = 0" -> Known1(en, LAMBDA x : Bit(x = 0))
        [] e = "en = 1 /\\ cnt /= 3" ->
             IF en = X \/ cnt = X THEN X ELSE Bit(en = 1 /\ cnt # 3)
        [] e = "en = 1 /\\ cnt = 3" ->
             IF en = X \/ cnt = X THEN X ELSE Bit(en = 1 /\ cnt = 3)
        [] e = "cnt = 3" -> Known1(cnt, LAMBDA x : Bit(x = 3))
        [] e = "sum = 3" -> Known1(Val("sum"), LAMBDA x : Bit(x = 3))
        [] e = "~full" -> Known1(Val("full"), LAMBDA x : Bit(x = 0))
        [] e = "cnt + 1" -> Known1(cnt, LAMBDA x : x + 1)
        [] e \in {"acc + b", "sum + b"} ->
             LET r == Val(IF e = "acc + b" THEN "acc" ELSE "sum")
             IN  IF r = X \/ Val("b") = X THEN X ELSE r + Val("b")
        [] e = "mem[a]" ->
             IF "mem" \in DOMAIN s.mem /\ Val("a") \in DOMAIN s.mem["mem"]
             THEN s.mem["mem"][Val("a")] ELSE X
        [] OTHER -> Val(e)
=============================================================================
