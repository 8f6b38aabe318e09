---------------------------- MODULE ActionText ----------------------------
(***************************************************************************)
(* Agent 3 writes the guards and updates of one action, clause by clause;  *)
(* the bridge composes the clauses of an Alternation or of a Sequential-   *)
(* Composition into one text per variable; Compiler 2 translates the text  *)
(* to Verilog or refuses it; the simulator evaluates the same text.        *)
(***************************************************************************)
EXTENDS Expressions

CONSTANTS
  Registers,   \* the variables that a clause may assign
  Operands,    \* the operands an expression is written with (texts)
  Operators,   \* the operators it is written with, words included
  Negations,   \* "bare", "enclosed": how a negation is written
  Guards,      \* the guards of clauses and conditionals (texts)
  Valuations,  \* the values of all signals
  Phrases,     \* the expressions of branches and steps (texts)
  MaxClauses,  \* bound: branches or steps of an action
  MaxWrites    \* bound: operators, parentheses, conditionals of an expression

ASSUME TextAssumption ==
  /\ Registers \subseteq DOMAIN Width
  /\ \A env \in Valuations : Registers \subseteq DOMAIN env

VARIABLES
  form,      \* one update, "branches" or "steps"
  draft,     \* the expression of the one update
  writes,    \* what it took to write it
  clauses    \* the branches or steps: a sequence of [guard, var, expr]

vars == <<form, draft, writes, clauses>>

-----------------------------------------------------------------------------
(* The bridge *)

Words == [w \in {"AND", "OR", "NOT", "mod"} |->
            CASE w = "AND" -> "/\\" [] w = "OR" -> "\\/"
              [] w = "NOT" -> "~" [] w = "mod" -> "%"]

\* compiler1.translate_expr, for TLC; mod is not among its words.
FoldForTlc(s) ==
  [i \in DOMAIN s |-> IF s[i] \in DOMAIN Words \ {"mod"} THEN Words[s[i]] ELSE s[i]]

\* Mutant: a negation is left as a word.
FoldAndOr(s) ==
  [i \in DOMAIN s |-> IF s[i] \in DOMAIN Words \ {"NOT"} THEN Words[s[i]] ELSE s[i]]

\* _translate_bool_words: on the texts of the FormalSpec, not on a rule's parameters.
Fold(s) == [i \in DOMAIN s |-> IF s[i] \in DOMAIN Words THEN Words[s[i]] ELSE s[i]]

SubstituteBare(s, running) ==   \* mutant: the text is spliced in as it is
  FlattenSeq([i \in DOMAIN s |->
    IF s[i] \in DOMAIN running THEN running[s[i]] ELSE <<s[i]>>])

Substitute(s, running) ==
  FlattenSeq([i \in DOMAIN s |->
    IF s[i] \in DOMAIN running THEN Enclose(running[s[i]]) ELSE <<s[i]>>])

If(g, t, e) == <<"IF">> \o g \o <<"THEN">> \o t \o <<"ELSE">> \o e

NestBare(chain, default) ==   \* mutant: a conditional in THEN is left bare
  FoldRight(LAMBDA c, out : If(c.guard, c.expr, out), chain, default)

\* A conditional in THEN position is enclosed: the next ELSE is not its own.
NestedIf(chain, default) ==
  FoldRight(LAMBDA c, out :
              If(c.guard, IF Head(c.expr) = "IF" THEN Enclose(c.expr) ELSE c.expr, out),
            chain, default)

Assigns(cs) == {cs[k].var : k \in DOMAIN cs}

\* _alternation_exprs: the clauses of v, and v itself when no guard holds.
Alternation(cs, v) == NestedIf(SelectSeq(cs, LAMBDA c : c.var = v), <<v>>)

\* _sequential_exprs: what the steps so far make of each variable they assign.
AfterStep(running, c) ==
  LET new == Substitute(c.expr, running)
      prior == IF c.var \in DOMAIN running THEN running[c.var] ELSE <<c.var>>
      text == IF c.guard = <<"TRUE">> THEN new ELSE If(c.guard, new, prior)
  IN  [v \in DOMAIN running \cup {c.var} |-> IF v = c.var THEN text ELSE running[v]]

Sequential(cs) == FoldLeft(AfterStep, <<>>, cs)

\* The text that the bridge hands on for v.
Composed(v) ==
  CASE form = "flat" -> Fold(draft)
    [] form = "branches" -> Alternation(clauses, v)
    [] form = "steps" -> Sequential(clauses)[v]

-----------------------------------------------------------------------------
(* Compiler 2 *)

VerilogToken(tok) ==
  CASE tok = "=" -> "=="
    [] tok = "/=" -> "!="
    [] tok = "~" -> "!"
    [] tok \in {"/\\", "AND"} -> "&&"
    [] tok \in {"\\/", "OR"} -> "||"
    [] tok = "NOT" -> "!"
    [] tok = "mod" -> "%"
    [] OTHER -> tok

\* _translate_basic
Basic(s) == [i \in DOMAIN s |-> VerilogToken(s[i])]

Depth(s, i) ==
  Cardinality({j \in 1..i : s[j] = "("}) - Cardinality({j \in 1..i : s[j] = ")"})

\* The first tok outside all parentheses; 0 if there is none.
FirstOutside(s, tok) ==
  LET at == {i \in DOMAIN s : s[i] = tok /\ Depth(s, i) = 0}
  IN  IF at = {} THEN 0 ELSE Min(at)

SplitSwapped(s) ==   \* mutant: the two cases change places
  LET rest == Tail(s)
      then == FirstOutside(rest, "THEN")
      after == SubSeq(rest, then + 1, Len(rest))
      else == FirstOutside(after, "ELSE")
  IN  IF At(s, 1) # "IF" \/ then = 0 \/ else = 0 THEN <<>>
      ELSE <<SubSeq(rest, 1, then - 1), SubSeq(after, else + 1, Len(after)),
             SubSeq(after, 1, else - 1)>>

\* _split_if_then_else: <<condition, then, else>>, or <<>>.
Split(s) ==
  LET rest == Tail(s)
      then == FirstOutside(rest, "THEN")
      after == SubSeq(rest, then + 1, Len(rest))
      else == FirstOutside(after, "ELSE")
  IN  IF At(s, 1) # "IF" \/ then = 0 \/ else = 0 THEN <<>>
      ELSE <<SubSeq(rest, 1, then - 1), SubSeq(after, 1, else - 1),
             SubSeq(after, else + 1, Len(after))>>

\* _strip_enclosing_parens: the first parenthesis closes at the end.
Enclosed(s) ==
  /\ At(s, 1) = "(" /\ At(s, Len(s)) = ")"
  /\ \A i \in DOMAIN s : Depth(s, i) = 0 <=> i = Len(s)

RECURSIVE Translate(_)
Translate(s) ==
  LET p == Split(s)
  IN  CASE p # <<>> -> Enclose(Basic(p[1])) \o <<"?">> \o Enclose(Translate(p[2]))
                         \o <<":">> \o Enclose(Translate(p[3]))
        [] Enclosed(s) /\ At(s, 2) = "IF" -> Enclose(Translate(SubSeq(s, 2, Len(s) - 1)))
        [] OTHER -> Basic(s)

\* Keywords that the translation left in place; they are on the banlist.
Leaked(v) == Range(v) \cap {"IF", "THEN", "ELSE"}

\* Compiler 2 lets v pass, and the Verilog tools bind every name in it: TRUE
\* and FALSE are left as names and declared nowhere.
Elaborates(v) ==
  /\ Leaked(v) = {}
  /\ Range(v) \cap DOMAIN Truth = {}
  /\ Whole(VerilogGrammar, v)

Builds(s) == Elaborates(Translate(s))

-----------------------------------------------------------------------------
(* Writing an action *)

Start == <<"a">>

Init ==
  /\ form \in {"flat", "branches", "steps"}
  /\ clauses = <<>>
  /\ draft = Start
  /\ writes = 0

Draft(s) ==
  /\ form = "flat"
  /\ writes < MaxWrites
  /\ writes' = writes + 1
  /\ draft' = s
  /\ UNCHANGED <<form, clauses>>

WriteOperator(op, x) == Draft(draft \o <<op>> \o x)
WriteParentheses == ~Enclosed(draft) /\ Draft(Enclose(draft))
WriteNegation(how) ==
  Draft(IF how = "bare" THEN <<"NOT">> \o draft ELSE Enclose(<<"NOT">> \o Enclose(draft)))
WriteConditional(g, x) == Draft(If(g, draft, x))

\* One more branch or step (Alternation, SequentialComposition).  The parameters
\* of a rule are taken as they are, words and all.
WriteClause(g, v, s) ==
  /\ form \in {"branches", "steps"}
  /\ Len(clauses) < MaxClauses
  /\ clauses' = Append(clauses, [guard |-> g, var |-> v, expr |-> s])
  /\ UNCHANGED <<form, draft, writes>>

Next ==
  \/ \E x \in Operands :
       \/ \E op \in Operators : WriteOperator(op, x)
       \/ \E g \in Guards : WriteConditional(g, x)
  \/ WriteParentheses
  \/ \E how \in Negations : WriteNegation(how)
  \/ \E g \in Guards \cup {<<"TRUE">>}, v \in Registers, s \in Phrases : WriteClause(g, v, s)

Spec == Init /\ [][Next]_vars

-----------------------------------------------------------------------------
\* An agent's text is symbolic when the bridge hands it on, whatever words it
\* was written with; a branch or step is not.
TypeOK ==
  /\ form \in {"flat", "branches", "steps"}
  /\ draft # <<>> /\ writes \in 0..MaxWrites
  /\ Len(clauses) <= MaxClauses
  /\ \A k \in DOMAIN clauses :
       /\ clauses[k].var \in Registers
       /\ clauses[k].guard # <<>> /\ clauses[k].expr # <<>>
  /\ form = "flat" => \A v \in Registers : Range(Composed(v)) \cap DOMAIN Words = {}

-----------------------------------------------------------------------------
(* One text, three readers *)

SimTree(s) == Tree(SimGrammar, s)
TlcTree(s) == Tree(TlaGrammar, s)

\* All readers of text s, assigned to a register of vs, get what tree t is
\* worth to TLC, wherever no intermediate value leaves its Verilog width.
ReadersGet(t, s, vs) ==
  LET sim == SimTree(s)
      verilog == Translate(s)
      rtl == IF Elaborates(verilog) THEN Tree(VerilogGrammar, verilog) ELSE t
  IN  \A env \in Valuations, w \in {Width[v] : v \in vs} :
        LET meant == Assigned(TlcArithmetic, t, w, env)
        IN  meant # {} =>
              /\ Assigned(SimArithmetic, sim, w, env) = meant
              /\ Assigned(RtlArithmetic, rtl, w, env) = meant

\* The text as an update, or as a guard.
AsUpdate(sort, s) == IF sort = "bool" THEN If(s, <<"1">>, <<"0">>) ELSE s

\* What TLC was shown is what is simulated and what is built: a guard or an
\* update that TLC reads has the same value for the simulator and, if
\* Compiler 2 lets it pass, in the hardware.
VerifiedIsBuilt ==
  form = "flat" => \A sort \in {"int", "bool"} :
    TlcReads(FoldForTlc(draft), sort) =>
      LET s == AsUpdate(sort, Fold(draft))
      IN  ReadersGet(TlcTree(s), s, Registers)

\* The simulator is the reference for the hardware: a text that it reads to
\* the end, an agent's or the bridge's, is built with the value it computes.
BuiltAsSimulated ==
  \A vs \in IF form = "flat" THEN {Registers} ELSE {{v} : v \in Assigns(clauses)} :
    LET s == Composed(CHOOSE v \in vs : TRUE)
        all == Reading(SimGrammar, s, 1)
    IN  all.at = Len(s) + 1 => ReadersGet(all.tree, s, vs)

-----------------------------------------------------------------------------
(* What the composed text means *)

Reads(s, env) == Value(SimArithmetic, SimTree(s), Word, env)

\* The clause assigns, if what it computes fits the register.
Performed(c, env) ==
  {[env EXCEPT ![c.var] = x] : x \in Reads(c.expr, env) \cap 0..2^Width[c.var] - 1}

\* Steps in their order, each on what the steps before it left; the guards on
\* the registers, see later_guard.
Stepped(envs, c, pre) ==
  UNION {UNION {IF g # 0 THEN Performed(c, e) ELSE {e} : g \in Reads(c.guard, pre)} :
           e \in envs}

Fires(pre) == {k \in DOMAIN clauses : Reads(clauses[k].guard, pre) \notin {{}, {0}}}

\* The registers after the action; no claim where two branches fire.
Effect(pre) ==
  LET on == Fires(pre)
  IN  IF form = "steps" THEN FoldLeft(LAMBDA envs, c : Stepped(envs, c, pre), {pre}, clauses)
      ELSE IF on = {} THEN {pre}
      ELSE IF Cardinality(on) > 1 THEN {}
      ELSE Performed(clauses[CHOOSE k \in on : TRUE], pre)

\* The one text that the bridge composes for a variable says what the clauses
\* say: substitution and nesting keep every operand together.
CompositionKeepsMeaning ==
  \A v \in Assigns(clauses) :
    LET t == SimTree(Composed(v))
    IN  \A pre \in Valuations : \A post \in Effect(pre) :
          Assigned(SimArithmetic, t, Width[v], pre) = {post[v]}

\* A step takes its operand from an earlier step whose text is a conditional,
\* or guards a conditional: Compiler 2 has no words for that.
Entangled(k) ==
  LET conditional(j) == clauses[j].guard # <<"TRUE">> \/ Head(clauses[j].expr) = "IF"
  IN  \/ clauses[k].guard # <<"TRUE">> /\ Head(clauses[k].expr) = "IF"
      \/ \E j \in 1..k - 1 :
           /\ clauses[j].var \in Range(clauses[k].expr)
           /\ \E i \in 1..j : conditional(i)

\* What builds clause by clause builds when composed: branches with a guard
\* each, steps that are not entangled.
CompositionBuilds ==
  (/\ \A k \in DOMAIN clauses : Builds(clauses[k].expr)
   /\ form = "branches" => \A k \in DOMAIN clauses : clauses[k].guard # <<"TRUE">>
   /\ form = "steps" => \A k \in DOMAIN clauses : ~Entangled(k))
  => \A v \in Assigns(clauses) : Builds(Composed(v))
=============================================================================
