------------------------------ MODULE MCShell ------------------------------
(* Scripts of every text of a few characters, scripts that spell statements *)
(* in several ways or almost spell one, and a terminal with a few keys.     *)
EXTENDS Shell

MCLetters == {"a", "b", "x", "quit", "VECTOR", "TEXT", "text", "INT", "SELECT", "And"} \cup Reserved
MCLower == [c \in {"SELECT", "And", "VECTOR", "TEXT", "INT"} |->
    CASE c = "SELECT" -> "select" [] c = "And" -> "and" [] c = "VECTOR" -> "vector"
      [] c = "TEXT" -> "text" [] c = "INT" -> "int"]

-----------------------------------------------------------------------------
(* Statements. *)
A == Column(<<"a">>)
One == Lit(IntLit(1))
Minus == Lit(FloatLit(-3))
Quoted == Lit([ty |-> "TEXT", v |-> <<"a", "'", ";", "-", "-">>])
C1 == Compare(A, "le", One)
C2 == Compare(Minus, "ne", A)
C3 == Compare(A, "eq", Quoted)
Exprs == {C1, C2, C3, Compare(A, "lt", One), Compare(One, "gt", A), Compare(A, "ge", Lit(VectorLit(<<2, 1>>))),
    Or(C1, And(C2, C3)), And(Or(C1, C2), C3), Or(Or(C1, C2), C3), Or(C1, Or(C2, C3)),
    And(And(C1, C2), C3), And(C1, And(C2, C3)), And(C1, Or(C2, C3)), Compare(And(A, C1), "eq", One),
    Or(And(C1, C2), And(A, C3)), A}
Few == {C1, And(C1, Or(C2, C3))}
Vec == VectorLit(<<2, -1, 10>>)
Statements ==
    {Select(<<>>, <<"b">>, e) : e \in Exprs \cup {NoExpr}}
    \cup {Select(<<<<"a">>, <<"x">>>>, <<"b", "1">>, NoExpr)}
    \cup {Search(2, Vec, <<"b">>, names, e) : names \in {<<>>, <<<<"a">>, <<"b">>>>}, e \in {C1, NoExpr}}
    \cup {Insert(<<"b">>, <<<<"a">>, <<"x">>>>, <<IntLit(-5), Vec>>),
          Insert(<<"b">>, <<<<"a">>>>, <<[ty |-> "TEXT", v |-> <<>>]>>)}
    \cup {Update(<<"b">>, <<Assign(<<"a">>, FloatLit(1)), Assign(<<"x">>, Vec)>>, e) : e \in Few}
    \cup {Delete(<<"b">>, e) : e \in Few}
    \cup {Create(<<"b">>, <<ColumnDef(<<"a">>, "TEXT", 0, TRUE), ColumnDef(<<"x">>, "VECTOR", 2, FALSE),
                            ColumnDef(<<"b">>, "INT", 0, FALSE)>>, <<Assign(<<"x">>, 12)>>)}

(* The characters of a token: plainly, or another way it may be written. *)
Digit(n) == CHOOSE d \in Digits : Value[d] = n
Decimal(n) == IF n < 10 THEN <<Digit(n)>> ELSE <<Digit(n \div 10), Digit(n % 10)>>
Doubled(v) == FoldLeft(LAMBDA out, c : out \o (IF c = "'" THEN <<"'", "'">> ELSE <<c>>), <<>>, v)
Upper(tok) == CASE tok = "select" -> "SELECT" [] tok = "and" -> "And" [] OTHER -> tok
Chars(t, plain) ==
    CASE t.tok = "ident" -> IF t.v = <<"TEXT">> /\ ~plain THEN <<"text">> ELSE t.v
      [] t.tok = "string" -> <<"'">> \o Doubled(t.v) \o <<"'">>
      [] t.tok = "number" ->
            Decimal(t.n \div 2) \o (IF t.n % 2 = 1 THEN <<".", "5">> ELSE <<>>)
      [] t.tok = "!=" -> IF plain THEN <<"!", "=">> ELSE <<"<", ">">>
      [] t.tok = "<=" -> <<"<", "=">>
      [] t.tok = ">=" -> <<">", "=">>
      [] OTHER -> <<IF plain THEN t.tok ELSE Upper(t.tok)>>
Wordlike == {"ident", "number"} \cup Reserved
Gap(way, s, t) ==
    CASE way = "spaces" -> <<" ">>
      [] way = "tight" -> IF s.tok \in Wordlike /\ t.tok \in Wordlike THEN <<" ">> ELSE <<>>
      [] way = "comments" -> <<" ", "-", "-", ";", "'", "nl", " ">>
Text(tokens, way) ==
    FoldLeft(LAMBDA out, i :
               out \o Chars(tokens[i], way = "spaces")
               \o (IF i < Len(tokens) THEN Gap(way, tokens[i], tokens[i + 1]) ELSE <<>>),
             <<>>, [i \in DOMAIN tokens |-> i])

Ways == {"spaces", "tight", "comments"}
Well == {[text |-> Text(Spell(s), way), meant |-> <<s>>, viable |-> 0] : s \in Statements, way \in Ways}
Two == {[text |-> Text(Spell(Delete(<<"b">>, C3)), w) \o gap \o Text(Spell(Select(<<>>, <<"b">>, NoExpr)), v),
         meant |-> <<Delete(<<"b">>, C3), Select(<<>>, <<"b">>, NoExpr)>>, viable |-> 0] :
           w \in Ways, v \in Ways, gap \in {<<>>, <<" ">>, <<"nl", "nl">>, <<"-", "-", "'", "nl">>}}

(* One token left out, put in, or put in place of another. *)
Extra == {Word(t)[1] : t \in {",", "and", "=", "in", "not", ")", "(", "-", "where", "primary", "*"}}
         \cup {Name(<<"a">>)[1], Amount(2)[1], [tok |-> "string", v |-> <<>>, n |-> 0]}
Broken(s) ==
    LET t == Spell(s)
    IN  UNION {{[text |-> Text(SubSeq(t, 1, i - 1) \o mid \o SubSeq(t, j, Len(t)), "spaces"),
                 meant |-> <<>>, viable |-> i - 1] :
                   mid \in {<<>>} \cup {<<e>> : e \in Extra}, j \in {i, i + 1}} : i \in DOMAIN t}
Shown == {Select(<<>>, <<"b">>, And(C1, Or(C2, C3))), Select(<<<<"a">>>>, <<"b">>, NoExpr),
          CHOOSE s \in Statements : s.stmt = "search" /\ s.names # <<>> /\ s.filter # NoExpr,
          CHOOSE s \in Statements : s.stmt = "insert" /\ Len(s.names) = 2,
          CHOOSE s \in Statements : s.stmt = "update" /\ s.filter = C1,
          CHOOSE s \in Statements : s.stmt = "delete" /\ s.filter = C1,
          CHOOSE s \in Statements : s.stmt = "create"}

Alphabet == {"a", "'", "-", ";", " ", "nl"}
Texts == UNION {[1 .. n -> Alphabet] : n \in 0 .. 4}
         \cup {<<".", "quit", "nl", ";">>, <<".", "a", "nl">>, <<"a", "nl", ".", "quit">>,
               <<"a", "@", ";", "!", ";">>, <<"2", "1", ".", ";", "5", "5", ";">>,
               <<"1", ".", ";">>, <<"2", "0", "5", ";">>}
MCScripts == Well \cup Two \cup UNION {Broken(s) : s \in Shown}
             \cup {[text |-> t, meant |-> <<>>, viable |-> 0] : t \in Texts}

-----------------------------------------------------------------------------
(* Keys, and what a terminal sends for them. *)
Sent(bytes, keys) == [bytes |-> bytes, keys |-> [i \in DOMAIN keys |-> [key |-> keys[i], char |-> ""]]]
Typed(c) == [bytes |-> <<c>>, keys |-> <<[key |-> "char", char |-> c]>>]
Esc(rest) == <<"ESC", "[">> \o rest
MCKeystrokes ==
    {Typed("a"), Typed(" "), Typed(";"),
     [bytes |-> <<"lead3", "tail", "tail">>, keys |-> <<[key |-> "char", char |-> "lead3"]>>],
     [bytes |-> <<"lead2", "a">>, keys |-> <<[key |-> "ignored", char |-> ""], [key |-> "char", char |-> "a"]>>],
     [bytes |-> <<"a", "CR", "'">>,
      keys |-> <<[key |-> "char", char |-> "a"], [key |-> "enter", char |-> ""],
                 [key |-> "char", char |-> "'"]>>],
     Sent(<<"CR">>, <<"enter">>), Sent(<<"^C">>, <<"interrupt">>), Sent(<<"^D">>, <<"eof">>),
     Sent(<<"DEL">>, <<"backspace">>), Sent(<<"^W">>, <<"deleteword">>), Sent(<<"^U">>, <<"killtostart">>),
     Sent(<<"^K">>, <<"killtoend">>), Sent(<<"tail">>, <<"ignored">>),
     Sent(Esc(<<"A">>), <<"up">>), Sent(<<"ESC", "O", "B">>, <<"down">>), Sent(Esc(<<"D">>), <<"left">>),
     Sent(Esc(<<"1", ";", "5", "D">>), <<"wordleft">>), Sent(Esc(<<"1", ";", "5", "C">>), <<"wordright">>),
     Sent(Esc(<<"3", "~">>), <<"delete">>), Sent(Esc(<<"1", "~">>), <<"home">>),
     Sent(Esc(<<"F">>), <<"end">>), Sent(Esc(<<"C">>), <<"right">>),
     Sent(Esc(<<"1", "5", "~">>), <<"ignored">>), Sent(<<"ESC", "a">>, <<"ignored">>),
     Sent(Esc(<<"1", "1", "1", "~">>), <<"ignored">>),
     [bytes |-> Esc(<<"1", "1", "1", "1", "a">>),
      keys |-> <<[key |-> "ignored", char |-> ""], [key |-> "char", char |-> "a"]>>],
     Sent(Esc(<<"^C", "CR", "lead2", "~">>), <<"ignored">>),
     Sent(<<"ESC", "CR">>, <<"ignored">>)} \* the code; its documentation: MCEscapeEnter

(* "Pressing Escape then Enter behaves like Enter" (editor.rs:33).  It does   *)
(* not: with these KeysArrive is violated.                                    *)
MCEscapeEnter == {Typed("a"), Sent(<<"ESC", "CR">>, <<"enter">>)}
MCNoScript == {[text |-> <<>>, meant |-> <<>>, viable |-> 0]}
MCHistories == {<<>>, <<<<"a", " ", "a">>, <<";">>>>}
=============================================================================
