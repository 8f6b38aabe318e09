---------------------------- MODULE MCActionText ----------------------------
EXTENDS ActionText

MCWidth == [a |-> 2, b |-> 1, m |-> 2]
MCRegisters == {"a", "b"}
MCOperands == {<<"b">>, <<"1">>, <<"m", "[", "a", "]">>}
MCOperators == {"+", "-", "%", "=", "<", "AND", "OR"}
MCPhrases ==
  {<<"a", "-", "b">>, <<"b", "mod", "a">>,
   <<"IF", "a", "=", "b", "THEN", "1", "ELSE", "b">>}
MCGuards == {<<"b", "=", "1">>, <<"NOT", "(", "a", "=", "b", ")">>}
MCValuations ==
  {[a |-> x, b |-> y, m |-> [k \in 0..1 |-> 3 - 2 * k]] : x \in 0..3, y \in 0..1}
Enclosing == {"enclosed"}
Bare == {"bare"}
=============================================================================
