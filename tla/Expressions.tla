---------------------------- MODULE Expressions ----------------------------
(***************************************************************************)
(* The texts of guards and updates, and who reads them.  An expression     *)
(* that Agent 3 writes is read three times: by TLC, as TLA+ (Compiler 1);  *)
(* by SpecSimulator, with a grammar of its own; and by the Verilog tools,  *)
(* after Compiler 2 has replaced its tokens.  Nothing but the text is      *)
(* shared.                                                                 *)
(*                                                                         *)
(* A text is a sequence of tokens.  A reader makes a tree of it, and the   *)
(* tree has a value: a set of at most one number, empty for X.             *)
(***************************************************************************)
EXTENDS Integers, Sequences, FiniteSets, SequencesExt

CONSTANTS
  Word,     \* the width of a literal, and of the simulator's arithmetic; 32
  Width     \* Width[v]: the width of signal v, or of a word of memory v

ASSUME WidthAssumption ==
  /\ Word \in Nat \ {0}
  /\ \A v \in DOMAIN Width : Width[v] \in 1..Word

Numeral == [n \in {"0", "1", "2", "3"} |->
              CHOOSE k \in 0..3 : <<"0", "1", "2", "3">>[k + 1] = n]

Truth == [b \in {"TRUE", "FALSE"} |-> IF b = "TRUE" THEN 1 ELSE 0]

Relations == {"=", "/=", "<=", ">=", "<", ">"}

At(s, i) == IF i \in DOMAIN s THEN s[i] ELSE ""

Enclose(s) == <<"(">> \o s \o <<")">>

-----------------------------------------------------------------------------
(* Grammars: levels from the loosest operators to the tightest *)

Infix(ops) == [fix |-> "infix", ops |-> ops]
Once(ops) == [fix |-> "once", ops |-> ops]      \* not chained
Prefix(ops) == [fix |-> "prefix", ops |-> ops]

SimGrammarPlusFirst ==   \* mutant: a level of its own for +
  [levels |-> << Infix({"\\/", "OR"}), Infix({"/\\", "AND"}), Once(Relations),
                 Infix({"-"}), Infix({"+"}), Infix({"*", "/", "%", "mod"}),
                 Prefix({"~", "!", "NOT", "-"}) >>,
   verilog |-> FALSE, strict |-> FALSE]

\* _Interp: a token that is missing is not missed, one too many is left over.
SimGrammar ==
  [levels |-> << Infix({"\\/", "OR"}), Infix({"/\\", "AND"}), Once(Relations),
                 Infix({"+", "-"}), Infix({"*", "/", "%", "mod"}),
                 Prefix({"~", "!", "NOT", "-"}) >>,
   verilog |-> FALSE, strict |-> FALSE]

VerilogGrammar ==
  [levels |-> << Infix({"||"}), Infix({"&&"}), Infix({"==", "!="}),
                 Infix({"<", "<=", ">", ">="}), Infix({"+", "-"}),
                 Infix({"*", "/", "%"}), Prefix({"!", "-"}) >>,
   verilog |-> TRUE, strict |-> TRUE]

\* Negation is looser than the relations, % tighter than - and looser than *.
TlaGrammar ==
  [levels |-> << Infix({"/\\", "\\/"}), Prefix({"~"}), Once(Relations),
                 Infix({"+"}), Infix({"-"}), Infix({"%"}), Prefix({"-"}),
                 Infix({"*"}) >>,
   verilog |-> FALSE, strict |-> TRUE]

-----------------------------------------------------------------------------
(* Reading from token i on: the tree, and the token after it *)

\* Past the end of the text, where a strict reader goes when it is stuck.
Stuck(s) == Len(s) + 2

Skip(G, s, i, tok) ==
  IF At(s, i) = tok THEN i + 1 ELSE IF G.strict THEN Stuck(s) ELSE i

RECURSIVE Reading(_, _, _), ReadLevel(_, _, _, _), ReadChain(_, _, _, _)

ReadIf(G, s, i) ==
  LET c == Reading(G, s, i + 1)
      t == Reading(G, s, Skip(G, s, c.at, "THEN"))
      e == Reading(G, s, Skip(G, s, t.at, "ELSE"))
  IN  [tree |-> <<"IF", c.tree, t.tree, e.tree>>, at |-> e.at]

ReadTernary(G, s, c) ==
  LET t == Reading(G, s, c.at + 1)
      e == Reading(G, s, Skip(G, s, t.at, ":"))
  IN  [tree |-> <<"IF", c.tree, t.tree, e.tree>>, at |-> e.at]

Reading(G, s, i) ==
  IF At(s, i) = "IF" /\ ~G.verilog THEN ReadIf(G, s, i)
  ELSE LET p == ReadLevel(G, 1, s, i)
       IN  IF At(s, p.at) = "?" /\ G.verilog THEN ReadTernary(G, s, p) ELSE p

\* A number, a name, an element of a memory, a text in parentheses.  The
\* simulator takes an IF that it meets here for the name of a signal.
ReadPrimary(G, s, i) ==
  CASE At(s, i) = "(" ->
         LET p == Reading(G, s, i + 1)
         IN  [tree |-> <<"()", p.tree>>, at |-> Skip(G, s, p.at, ")")]
    [] At(s, i) = "IF" /\ G.strict -> Reading(G, s, i)
    [] At(s, i) \in DOMAIN Numeral ->
         [tree |-> <<"number", Numeral[s[i]]>>, at |-> i + 1]
    [] At(s, i) \in DOMAIN Truth /\ ~G.verilog ->
         [tree |-> <<"truth", Truth[s[i]]>>, at |-> i + 1]
    [] At(s, i + 1) = "[" ->
         LET p == Reading(G, s, i + 2)
         IN  [tree |-> <<"element", s[i], p.tree>>, at |-> Skip(G, s, p.at, "]")]
    [] At(s, i) = "" -> [tree |-> <<"name", "">>, at |-> Stuck(s)]
    [] OTHER -> [tree |-> <<"name", s[i]>>, at |-> i + 1]

ReadLevel(G, k, s, i) ==
  IF k > Len(G.levels) THEN ReadPrimary(G, s, i)
  ELSE IF G.levels[k].fix # "prefix"
       THEN ReadChain(G, k, s, ReadLevel(G, k + 1, s, i))
       ELSE IF At(s, i) \in G.levels[k].ops
            THEN LET p == ReadLevel(G, k, s, i + 1)
                 IN  [tree |-> <<s[i], p.tree>>, at |-> p.at]
            ELSE ReadLevel(G, k + 1, s, i)

\* Operators of one level, from left to right, after the operand p.
ReadChain(G, k, s, p) ==
  IF At(s, p.at) \notin G.levels[k].ops THEN p
  ELSE LET q == ReadLevel(G, k + 1, s, p.at + 1)
           r == [tree |-> <<s[p.at], p.tree, q.tree>>, at |-> q.at]
       IN  IF G.levels[k].fix = "once" THEN r ELSE ReadChain(G, k, s, r)

Tree(G, s) == Reading(G, s, 1).tree
Whole(G, s) == Reading(G, s, 1).at = Len(s) + 1

-----------------------------------------------------------------------------
(* What a tree is worth *)

IsOr(op) == op \in {"\\/", "OR", "||"}
IsAnd(op) == op \in {"/\\", "AND", "&&"}
IsNot(op) == op \in {"~", "NOT", "!"}
IsRelation(op) == op \in Relations \cup {"==", "!="}

\* The width of a tree that stands alone (IEEE 1364: a literal has 32 bits,
\* arithmetic the width of its widest operand, a truth value one bit).
RECURSIVE SelfWidth(_)
SelfWidth(t) ==
  CASE t[1] = "name" -> IF t[2] \in DOMAIN Width THEN Width[t[2]] ELSE Word
    [] t[1] = "element" -> Width[t[2]]
    [] t[1] = "number" -> Word
    [] t[1] = "()" -> SelfWidth(t[2])
    [] t[1] = "IF" -> Max({SelfWidth(t[3]), SelfWidth(t[4])})
    [] t[1] = "-" /\ Len(t) = 2 -> SelfWidth(t[2])
    [] t[1] = "truth" \/ IsOr(t[1]) \/ IsAnd(t[1]) \/ IsNot(t[1]) \/ IsRelation(t[1]) -> 1
    [] OTHER -> Max({SelfWidth(t[2]), SelfWidth(t[3])})

\* How a reader computes.  narrow: in the width of the context, or always in
\* words.  wraps: what does not fit is truncated, or else is no value at all.
SimArithmetic == [narrow |-> FALSE, wraps |-> TRUE]
RtlArithmetic == [narrow |-> TRUE, wraps |-> TRUE]
\* TLC computes with all integers; its values here are those that fit.
TlcArithmetic == [narrow |-> TRUE, wraps |-> FALSE]

Own(A, ts) == IF A.narrow THEN Max({SelfWidth(t) : t \in ts}) ELSE Word

Fit(A, w, n) == IF A.wraps THEN {n % 2^w} ELSE {n} \cap 0..2^w - 1

Bit(b) == IF b THEN 1 ELSE 0

Compare(op, x, y) ==
  CASE op \in {"=", "=="} -> x = y
    [] op \in {"/=", "!="} -> x # y
    [] op = "<=" -> x <= y
    [] op = ">=" -> x >= y
    [] op = "<" -> x < y
    [] op = ">" -> x > y

\* Division and remainder by zero have no value.
Compute(op, x, y) ==
  CASE op = "+" -> {x + y}
    [] op = "-" -> {x - y}
    [] op = "*" -> {x * y}
    [] op = "/" -> {x \div z : z \in {y} \ {0}}
    [] op \in {"%", "mod"} -> {x % z : z \in {y} \ {0}}

RECURSIVE Value(_, _, _, _)
Truths(A, t, env) == Value(A, t, Own(A, {t}), env)
Value(A, t, w, env) ==
  CASE t[1] \in {"number", "truth"} -> Fit(A, w, t[2])
    [] t[1] = "name" -> IF t[2] \in DOMAIN env THEN {env[t[2]]} ELSE {}
    [] t[1] = "element" ->
         {env[t[2]][k] : k \in Truths(A, t[3], env) \cap DOMAIN env[t[2]]}
    [] t[1] = "()" -> Value(A, t[2], w, env)
    [] t[1] = "IF" ->
         UNION {Value(A, IF c # 0 THEN t[3] ELSE t[4], w, env) : c \in Truths(A, t[2], env)}
    [] IsNot(t[1]) -> {Bit(x = 0) : x \in Truths(A, t[2], env)}
    [] t[1] = "-" /\ Len(t) = 2 -> UNION {Fit(A, w, -x) : x \in Value(A, t[2], w, env)}
    [] IsOr(t[1]) ->
         {Bit(x # 0 \/ y # 0) : x \in Truths(A, t[2], env), y \in Truths(A, t[3], env)}
    [] IsAnd(t[1]) ->
         {Bit(x # 0 /\ y # 0) : x \in Truths(A, t[2], env), y \in Truths(A, t[3], env)}
    [] IsRelation(t[1]) ->
         LET v == Own(A, {t[2], t[3]})
         IN  {Bit(Compare(t[1], x, y)) : x \in Value(A, t[2], v, env),
                                         y \in Value(A, t[3], v, env)}
    [] OTHER ->
         UNION {UNION {Fit(A, w, z) : z \in Compute(t[1], x, y)} :
                  x \in Value(A, t[2], w, env), y \in Value(A, t[3], w, env)}

\* The value assigned to a register of width w.
Assigned(A, t, w, env) ==
  {x % 2^w : x \in Value(A, t, Max({w, Own(A, {t})}), env)}

-----------------------------------------------------------------------------
(* What TLC accepts *)

\* "int", "bool", or "none" where TLC would stop.
RECURSIVE Sort(_)
Sort(t) ==
  LET all(s, ks) == \A k \in ks : Sort(t[k]) = s
  IN  CASE t[1] \in {"number", "name", "element"} -> "int"
        [] t[1] = "truth" -> "bool"
        [] t[1] = "()" -> Sort(t[2])
        [] t[1] = "IF" ->
             IF Sort(t[2]) = "bool" /\ Sort(t[3]) = Sort(t[4]) THEN Sort(t[3]) ELSE "none"
        [] IsNot(t[1]) \/ IsOr(t[1]) \/ IsAnd(t[1]) ->
             IF all("bool", 2..Len(t)) THEN "bool" ELSE "none"
        [] IsRelation(t[1]) -> IF all("int", {2, 3}) THEN "bool" ELSE "none"
        [] OTHER -> IF all("int", 2..Len(t)) THEN "int" ELSE "none"

\* Operators that TLA+ leaves in no order.
Conflicts == {<<"/\\", "\\/">>, <<"\\/", "/\\">>, <<"%", "%">>, <<"+", "%">>, <<"-", "%">>}

RECURSIVE Ordered(_)
Ordered(t) ==
  t[1] \in {"number", "truth", "name"}
  \/ \A k \in (IF t[1] = "element" THEN {3} ELSE 2..Len(t)) :
       <<t[1], t[k][1]>> \notin Conflicts /\ Ordered(t[k])

TlcReads(s, sort) ==
  /\ Whole(TlaGrammar, s)
  /\ Ordered(Tree(TlaGrammar, s))
  /\ Sort(Tree(TlaGrammar, s)) = sort
=============================================================================
