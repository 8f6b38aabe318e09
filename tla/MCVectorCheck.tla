---------------------------- MODULE MCVectorCheck ---------------------------
(***************************************************************************)
(* An enabled counter with a flag, and a register file, and what Agent 1   *)
(* and Compiler 2 may have made of them.                                   *)
(*   right     nothing is wrong                                            *)
(*   slip      Agent 1 miscounts and expects a value of a wire undriven    *)
(*   resets    Agent 1 resets in the middle and always says so             *)
(*   wild      RTL counts always, and a directed vector shows it           *)
(*   hidden    RTL counts always, and only a soak can show it              *)
(*   spare     an output that the spec never drives                        *)
(*   regfile   reads of a memory that is not yet written                   *)
(*   empty     Agent 1 wrote no vectors                                    *)
(*   held      reset is asserted and then not mentioned                    *)
(*   spelled   the enable is true, not 1                                   *)
(*   bare      no reset port is declared                                   *)
(***************************************************************************)
EXTENDS VectorCheck

Reg(w, r) == [width |-> w, depth |-> 0, comb |-> FALSE, abstract |-> FALSE,
              reset |-> r, clocked |-> TRUE]
Wired     == [Reg(1, None) EXCEPT !.comb = TRUE, !.clocked = FALSE]
Memory    == [Reg(1, None) EXCEPT !.depth = 2]

Act(a, g, us) == [name |-> a, guard |-> g, updates |-> us, branches |-> <<>>,
                  steps |-> <<>>, clocked |-> TRUE, comb |-> FALSE]
Show(v, e)   == [Act("Show", True, <<Update(v, e)>>) EXCEPT !.clocked = FALSE, !.comb = TRUE]
Reset(v)     == [Act("Reset", True, <<Update(v, "0")>>) EXCEPT !.clocked = FALSE]

Counter(guard) ==
  [vars |-> [cnt |-> Reg(2, "0"), full |-> Wired], reset |-> "Reset",
   actions |-> <<Act("Inc", guard, <<Update("cnt", "cnt + 1")>>),
                 Show("full", "cnt = 3"), Reset("cnt")>>]

Spared ==
  [Counter("en = 1") EXCEPT !.vars = [v \in DOMAIN @ \cup {"spare"} |->
                                        IF v = "spare" THEN Wired ELSE @[v]]]

RegFile ==
  [vars |-> [mem |-> Memory, rdata |-> Reg(1, "0")], reset |-> "Reset",
   actions |-> <<Act("Write", "en = 1", <<[var |-> "mem", idx |-> "a", expr |-> "b"]>>),
                 Act("Read", True, <<Update("rdata", "mem[a]")>>), Reset("rdata")>>]

MCRefined(x) ==
  IF x = "spare" THEN Spared ELSE IF x = "regfile" THEN RegFile ELSE Counter("en = 1")

MCRtl(x) == IF x \in {"wild", "hidden"} THEN Counter(True) ELSE MCRefined(x)
-----------------------------------------------------------------------------
Num(k) == [n |-> k, plain |-> TRUE]

Step(e, r, cnt) == [drive |-> [en |-> Num(e)], reset |-> r, expected |-> [cnt |-> cnt]]

Access(e, a, b, x) ==
  [drive |-> [en |-> Num(e), a |-> Num(a), b |-> Num(b)], reset |-> None, expected |-> x]

MCVectors(x) ==
  CASE x \in {"right", "hidden", "bare"} ->
         <<Step(1, None, 1), Step(1, None, 2), Step(1, None, 3), Step(1, None, 0)>>
    [] x = "wild"   -> <<Step(1, None, 1), Step(0, None, 1)>>
    [] x = "slip"   -> <<Step(1, None, 1), Step(0, None, 2), [Step(0, None, 1) EXCEPT !.drive = <<>>]>>
    [] x = "spare"  -> <<[Step(1, None, 1) EXCEPT !.expected = [cnt |-> 1, spare |-> 0]]>>
    [] x = "resets" -> <<Step(1, "off", 1), Step(1, "on", 0), Step(1, "off", 1)>>
    [] x = "held"   -> <<Step(1, "off", 1), Step(1, "on", 0), Step(1, None, 1)>>
    [] x = "spelled" -> <<[Step(1, None, 1) EXCEPT !.drive.en.plain = FALSE]>>
    [] x = "empty"  -> <<>>
    [] x = "regfile" ->
         <<Access(1, 1, 1, <<>>), Access(0, 0, 0, [rdata |-> 0]), Access(0, 1, 0, [rdata |-> 1])>>

MCSummary(x) ==
  [inputs  |-> IF x = "regfile" THEN [en |-> 1, a |-> 1, b |-> 1] ELSE [en |-> 1],
   outputs |-> CASE x = "regfile" -> {"rdata"}
                 [] x = "spare" -> {"cnt", "spare"}
                 [] OTHER -> {"cnt", "full"},
   reset   |-> x # "bare",
   vectors |-> MCVectors(x)]

MCCases == {"right", "slip", "resets", "wild", "hidden", "spare", "regfile", "empty",
            "held", "spelled", "bare"}

RefinedOf == [x \in Cases |-> MCRefined(x)]
RtlOf     == [x \in Cases |-> MCRtl(x)]
SummaryOf == [x \in Cases |-> MCSummary(x)]
-----------------------------------------------------------------------------
Bit(p) == IF p THEN 1 ELSE 0

\* A name without a value is undefined.
MCEval(e, s) ==
  LET Val(v) == IF v \in DOMAIN s.sig THEN s.sig[v] ELSE X
      en == Val("en")  cnt == Val("cnt")
  IN  CASE e = "TRUE" -> 1
        [] e = "0" -> 0
        [] e = "en = 1" -> IF en = X THEN X ELSE Bit(en = 1)
        [] e = "cnt = 3" -> IF cnt = X THEN X ELSE Bit(cnt = 3)
        [] e = "cnt + 1" -> IF cnt = X THEN X ELSE cnt + 1
        [] e = "mem[a]" ->
             IF "mem" \in DOMAIN s.mem /\ Val("a") \in DOMAIN s.mem["mem"]
             THEN s.mem["mem"][Val("a")] ELSE X
        [] OTHER -> Val(e)
=============================================================================
