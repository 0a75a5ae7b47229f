---------------------------- MODULE MCStatements ----------------------------
(* CREATE t (id TEXT PRIMARY KEY, v VECTOR(1), x FLOAT), two rows and one   *)
(* deleted, three callers: statements alone, and statements in each other's *)
(* way.                                                                     *)
EXTENDS Statements

CONSTANTS ann, bob, cyd

Columns == <<ColumnDef("id", "TEXT", 0, TRUE), ColumnDef("v", "VECTOR", 1, FALSE),
             ColumnDef("x", "FLOAT", 0, FALSE)>>
Row(ver, id, v, halves) ==
    [ver |-> ver, cols |-> <<TextLit(id), FloatLit(halves)>>, vec |-> <<v>>]
Rows == <<Row(1, 1, 3, 5), Row(2, 1, 1, 2), Row(3, 2, 2, 4)>>
Gone == {1}

IdIs(id) == Compare(Column("id"), "eq", Lit(TextLit(id)))
X(op, lit) == Compare(Column("x"), op, Lit(lit))
Over(n) == Compare(Lit(IntLit(n)), "lt", Column("x"))
Ahead == VectorLit(<<1>>)
Nothing == Select(<<>>, "nowhere", NoExpr)

\* Reads: each comparison and combination, the vector named and not named.
Reads == {
    Select(<<>>, "t", NoExpr),
    Select(<<"v", "id">>, "t", Over(1)),
    Select(<<"id">>, "t", X("le", FloatLit(2))),
    Select(<<"x">>, "t", Or(X("ge", IntLit(2)), Compare(Lit(TextLit(1)), "ne", Column("id")))),
    Select(<<"id">>, "t", And(X("ne", IntLit(1)), Or(X("gt", FloatLit(9)), IdIs(2)))),
    Select(<<"id">>, "t", IdIs(3)),
    Search(1, Ahead, "t", <<"id", "SCORE">>, NoExpr),
    Search(2, VectorLit(<<-1>>), "t", <<"v", "Score">>, X("lt", IntLit(9))),
    Search(1, Ahead, "t", <<"score", "x">>, Over(0)),
    Search(1, Ahead, "t", <<>>, IdIs(1))}

Put1 == Insert("t", <<"x", "id", "v">>, <<IntLit(3), TextLit(1), VectorLit(<<5>>)>>)
Put3 == Insert("t", <<"v", "x", "id">>, <<VectorLit(<<2>>), FloatLit(1), TextLit(3)>>)
SetX(n, filter) == Update("t", <<Assign("x", IntLit(n))>>, filter)
SetV(filter) ==
    Update("t", <<Assign("v", VectorLit(<<7>>)), Assign("x", IntLit(0)), Assign("x", FloatLit(7))>>,
           filter)

Writes == <<Put1, Put3, SetX(4, IdIs(1)), SetX(5, X("gt", FloatLit(1))), SetV(IdIs(2)),
            SetX(6, IdIs(3)), Delete("t", IdIs(1)), Delete("t", X("ne", IntLit(1)))>>

New(columns, capacity) == Create("u", columns, capacity)
Sized(n) == <<[name |-> "metric", value |-> 0], [name |-> "capacity", value |-> n]>>
K == ColumnDef("k", "INT", 0, TRUE)
W == ColumnDef("w", "VECTOR", 2, FALSE)
N == ColumnDef("n", "TEXT", 0, FALSE)
Creates == <<New(<<W, N, K>>, Sized(1)), New(<<K, W, N>>, Sized(2)), New(<<N, K, W>>, <<>>)>>

\* Statements that mean nothing.
Refused == {
    Nothing,
    Select(<<"score">>, "t", NoExpr),
    Select(<<>>, "t", Column("id")),
    Select(<<>>, "t", Compare(Column("id"), "eq", Column("x"))),
    Select(<<>>, "t", Compare(Column("id"), "lt", Lit(TextLit(1)))),
    Select(<<>>, "t", Compare(Column("v"), "eq", Lit(Ahead))),
    Select(<<>>, "t", And(IdIs(1), X("eq", TextLit(1)))),
    Search(0, Ahead, "t", <<>>, NoExpr),
    Search(1, VectorLit(<<1, 1>>), "t", <<>>, NoExpr),
    Search(1, IntLit(1), "t", <<>>, NoExpr),
    Insert("t", <<"id", "v">>, <<TextLit(1), Ahead>>),
    Insert("t", <<"id", "v", "id">>, <<TextLit(1), Ahead, TextLit(2)>>),
    Insert("t", <<"id", "v", "y">>, <<TextLit(1), Ahead, IntLit(2)>>),
    Insert("t", <<"id", "v", "x">>, <<TextLit(1), Ahead>>),
    Insert("t", <<"id", "v", "x">>, <<IntLit(1), Ahead, IntLit(1)>>),
    Update("t", <<Assign("id", TextLit(1))>>, IdIs(1)),
    Update("t", <<Assign("v", Ahead)>>, Compare(Column("id"), "ne", Lit(TextLit(9)))),
    Update("t", <<Assign("y", IntLit(1))>>, IdIs(1)),
    Delete("t", Compare(Column("score"), "gt", Lit(IntLit(1)))),
    Create("t", <<K, W>>, Sized(1)),
    Create("u", <<K, N>>, Sized(1)),
    Create("u", <<N, W>>, Sized(1)),
    Create("u", <<ColumnDef("k", "FLOAT", 0, TRUE), W>>, Sized(1)),
    Create("u", <<K, W, K>>, Sized(1)),
    Create("u", <<K, W, ColumnDef("k", "TEXT", 0, FALSE)>>, Sized(1)),
    Create("u", <<K, ColumnDef("w", "VECTOR", 0, FALSE)>>, Sized(1))}

\* Callers without a statement stay quiet.
Three(s, t, u) == (ann :> s) @@ (bob :> t) @@ (cyd :> u)
\* Every two of a list, whichever of the callers has which.
Unordered(list) ==
    {<<list[p[1]], list[p[2]]>> : p \in {q \in (DOMAIN list) \X (DOMAIN list) : q[1] <= q[2]}}
Alone == {Three(s, Quiet, Quiet) : s \in Reads \cup Range(Creates) \cup Refused}
Racing ==
    {Three(p[1], p[2], Quiet) : p \in Unordered(Writes) \cup Unordered(Creates)} \cup
    {Three(s, t, Quiet) :
        s \in {Select(<<"v", "id">>, "t", Over(1)),
               Search(1, Ahead, "t", <<"score", "x">>, Over(0))},
        t \in Range(Writes)} \cup
    {Three(Select(<<"id">>, "t", And(X("ne", IntLit(1)), Or(X("gt", FloatLit(9)), IdIs(2)))),
           SetX(5, X("gt", FloatLit(1))), Quiet),
     Three(SetX(4, IdIs(1)), SetX(5, IdIs(1)), Delete("t", IdIs(1)))}

Everything == Alone \cup Racing
=============================================================================
