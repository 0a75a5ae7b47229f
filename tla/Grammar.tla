------------------------------ MODULE Grammar ------------------------------
(***************************************************************************)
(* From text to a syntax tree: the lexer (sql/lexer.rs) and the recursive  *)
(* descent parser (sql/parser.rs), which reads one statement and refuses   *)
(* whatever is left.                                                       *)
(*                                                                         *)
(* A text is a sequence of characters.  A letter here may stand for a      *)
(* whole run of them (a reserved word, a name), so that a statement is as  *)
(* short as its tokens; everything else is one character.  Numbers are     *)
(* written with the digits below, their fraction with 0 and 5; a value     *)
(* counts halves where it is a FLOAT or part of a vector, as in Sql.       *)
(***************************************************************************)
EXTENDS Sql

CONSTANTS
    Letters,     \* characters a name may start with
    Lower,       \* the lower case of those that have one
    MaxInt       \* i64::MAX

Reserved == {"create", "collection", "with", "select", "from", "insert", "into", "values",
             "search", "top", "nearest", "to", "returning", "where", "and", "or", "delete",
             "update", "set", "not", "in", "primary", "key"}
Value == [d \in {"0", "1", "2", "5"} |->
            CASE d = "0" -> 0 [] d = "1" -> 1 [] d = "2" -> 2 [] d = "5" -> 5]
Digits == DOMAIN Value
Blanks == {" ", "nl"}
Single == {"(", ")", "[", "]", ",", ";", "=", "-", "*"}

-----------------------------------------------------------------------------
(***************************************************************************)
(* The lexer.  A token is [tok, v, n, from, end]: what it is, the          *)
(* characters or the number it carries, its first character and the one    *)
(* after its last.                                                         *)
(***************************************************************************)
At(text, i) == IF i \in DOMAIN text THEN text[i] ELSE "end"
PastRun(text, i, chars) ==
    CHOOSE j \in i .. Len(text) + 1 :
        At(text, j) \notin chars /\ \A k \in i .. j - 1 : text[k] \in chars
LineEnd(text, i) ==
    CHOOSE j \in i .. Len(text) + 1 :
        At(text, j) \in {"nl", "end"} /\ \A k \in i .. j - 1 : text[k] # "nl"

RECURSIVE SkipTrivia(_, _)
SkipTrivia(text, i) ==
    IF At(text, i) \in Blanks THEN SkipTrivia(text, i + 1)
    ELSE IF At(text, i) = "-" /\ At(text, i + 1) = "-" THEN SkipTrivia(text, LineEnd(text, i + 2))
    ELSE i

Token(tok, v, n, from, end) == [tok |-> tok, v |-> v, n |-> n, from |-> from, end |-> end]
Malformed(kind, from, end) == Token("error", <<kind>>, 0, from, end)

Folded(c) == IF c \in DOMAIN Lower THEN Lower[c] ELSE c

ScanIdent(text, i) ==
    LET end == PastRun(text, i, Letters \cup Digits)
        word == SubSeq(text, i, end - 1)
    IN  IF Len(word) = 1 /\ Folded(word[1]) \in Reserved THEN Token(Folded(word[1]), <<>>, 0, i, end)
        ELSE Token("ident", word, 0, i, end)

\* The number a run of digits spells, in halves after a point.
Number(digits) == FoldLeft(LAMBDA n, d : 10 * n + Value[d], 0, digits)
Halves(whole, fraction) == 2 * Number(whole) + (IF fraction[1] = "5" THEN 1 ELSE 0)

ScanNumber(text, i) ==
    LET point == PastRun(text, i, Digits)
        end == PastRun(text, point + 1, Digits)
        whole == SubSeq(text, i, point - 1)
    IN  IF At(text, point) = "." /\ At(text, point + 1) \in Digits
        THEN Token("float", <<>>, Halves(whole, SubSeq(text, point + 1, end - 1)), i, end)
        ELSE IF Number(whole) > MaxInt THEN Malformed("InvalidNumber", i, point)
        ELSE Token("int", <<>>, Number(whole), i, point)

RECURSIVE ScanString(_, _, _, _)
ScanString(text, from, i, value) ==
    IF At(text, i) = "end" THEN Malformed("UnterminatedString", from, i)
    ELSE IF At(text, i) # "'" THEN ScanString(text, from, i + 1, Append(value, text[i]))
    ELSE IF At(text, i + 1) = "'" THEN ScanString(text, from, i + 2, Append(value, "'"))
    ELSE Token("string", value, 0, from, i + 1)

\* The comparison a pair of characters spells, "none" if it spells none.
Pair(a, b) ==
    CASE a = "<" /\ b = "=" -> "<=" [] a = "<" /\ b = ">" -> "!="
      [] a = ">" /\ b = "=" -> ">=" [] a = "!" /\ b = "=" -> "!="
      [] OTHER -> "none"

NextToken(text, at) ==
    LET i == SkipTrivia(text, at)
        c == At(text, i)
        pair == Pair(c, At(text, i + 1))
    IN  CASE c = "end" -> Token("eof", <<>>, 0, i, i)
          [] c \in Single -> Token(c, <<>>, 0, i, i + 1)
          [] pair # "none" -> Token(pair, <<>>, 0, i, i + 2)
          [] c \in {"<", ">"} /\ pair = "none" -> Token(c, <<>>, 0, i, i + 1)
          [] c = "'" -> ScanString(text, i, i + 1, <<>>)
          [] c \in Digits -> ScanNumber(text, i)
          [] c \in Letters -> ScanIdent(text, i)
          [] OTHER -> Malformed("UnexpectedChar", i, i)

\* Every token, up to the end or to the first that is malformed.
RECURSIVE TokenizeFrom(_, _, _)
TokenizeFrom(text, at, out) ==
    LET t == NextToken(text, at)
    IN  IF t.tok \in {"eof", "error"} THEN Append(out, t)
        ELSE TokenizeFrom(text, t.end, Append(out, t))
Tokenize(text) == TokenizeFrom(text, 1, <<>>)

-----------------------------------------------------------------------------
(***************************************************************************)
(* The parser.  A rule reads some tokens from a place and gives a tree and *)
(* the place behind it, or an error and the place it is blamed on.         *)
(***************************************************************************)
Read(tree, p) == [err |-> "", tree |-> tree, p |-> p]
Wrong(kind, p) == [err |-> kind, tree |-> <<>>, p |-> p]
Unexpected(tokens, p) ==
    Wrong(IF tokens[p].tok = "eof" THEN "UnexpectedEof" ELSE "UnexpectedToken", p)

\* The parts of a production: a token, a rule, a list of a rule separated by
\* commas.
T(tok) == [part |-> "token", is |-> tok]
N(rule) == [part |-> "rule", is |-> rule]
L(rule) == [part |-> "list", is |-> rule]

Productions == [
    select |-> <<T("select"), N("projection"), T("from"), N("ident"), N("where")>>,
    search |-> <<T("search"), T("top"), N("int"), T("nearest"), T("to"), N("vector"), T("from"),
                 N("ident"), N("where"), N("returning")>>,
    insert |-> <<T("insert"), T("into"), N("ident"), T("("), L("ident"), T(")"),
                 T("values"), T("("), L("literal"), T(")")>>,
    update |-> <<T("update"), N("ident"), T("set"), L("assignment"), T("where"), N("or")>>,
    delete |-> <<T("delete"), T("from"), N("ident"), T("where"), N("or")>>,
    create |-> <<T("create"), T("collection"), N("ident"), T("("), L("column"), T(")"),
                 T("with"), T("("), L("option"), T(")")>>,
    assignment |-> <<N("ident"), T("="), N("literal")>>,
    column |-> <<N("ident"), N("type"), N("mark")>>,
    dimension |-> <<T("("), N("int"), T(")")>>,
    option |-> <<N("ident"), T("="), N("int")>>,
    vector |-> <<T("["), L("element"), T("]")>>,
    nested |-> <<T("("), N("or"), T(")")>>,
    where |-> <<T("where"), N("or")>>,
    returning |-> <<T("returning"), L("ident")>>,
    mark |-> <<T("primary"), T("key")>>,
    statement |-> <<N("any"), T(";")>>]

\* Clauses that may be left out, and what their absence means.
Absent == [where |-> NoExpr, returning |-> <<>>, mark |-> FALSE]

\* The tree of a production from the trees of its parts.
Tree(rule, x) ==
    CASE rule = "select" -> Select(x[1], x[2], x[3])
      [] rule = "search" -> Search(x[1], x[2], x[3], x[5], x[4])
      [] rule = "insert" -> Insert(x[1], x[2], x[3])
      [] rule = "update" -> Update(x[1], x[2], x[3])
      [] rule = "delete" -> Delete(x[1], x[2])
      [] rule = "create" -> Create(x[1], x[2], x[3])
      [] rule \in {"assignment", "option"} -> Assign(x[1], x[2])
      [] rule = "column" -> ColumnDef(x[1], x[2].ty, x[2].dim, x[3])
      [] rule = "vector" -> VectorLit(x[1])
      [] rule = "mark" -> TRUE
      [] OTHER -> x[1]

Kinds == {"select", "insert", "create", "search", "delete", "update"}
Comparisons == [t \in {"<", "<=", ">", ">=", "=", "!="} |->
    CASE t = "<" -> "lt" [] t = "<=" -> "le" [] t = ">" -> "gt"
      [] t = ">=" -> "ge" [] t = "=" -> "eq" [] t = "!=" -> "ne"]
ScalarTypes == {"TEXT", "INT", "FLOAT"}

\* A signed number; the sign is not the lexer's.
ParseNumber(tokens, p) ==
    LET minus == tokens[p].tok = "-"
        at == IF minus THEN p + 1 ELSE p
        n == IF minus THEN -tokens[at].n ELSE tokens[at].n
    IN  CASE tokens[at].tok = "int" -> Read(IntLit(n), at + 1)
          [] tokens[at].tok = "float" -> Read(FloatLit(n), at + 1)
          [] OTHER -> Unexpected(tokens, at)

\* What one token says.
Leaf(tokens, p, tok) ==
    IF tokens[p].tok # tok THEN Unexpected(tokens, p)
    ELSE Read(IF tok = "int" THEN tokens[p].n ELSE tokens[p].v, p + 1)

RECURSIVE Rule(_, _, _), Parts(_, _, _, _), ListOf(_, _, _, _), Chain(_, _, _, _)

\* The parts from the i-th on, onto the trees of those before.
Parts(parts, trees, tokens, p) ==
    IF parts = <<>> THEN Read(trees, p)
    ELSE LET part == Head(parts)
             got == CASE part.part = "token" -> Leaf(tokens, p, part.is)
                      [] part.part = "rule" -> Rule(part.is, tokens, p)
                      [] part.part = "list" -> ListOf(part.is, <<>>, tokens, p)
         IN  IF got.err # "" THEN got
             ELSE Parts(Tail(parts), IF part.part = "token" THEN trees ELSE Append(trees, got.tree),
                        tokens, got.p)

ListOf(rule, items, tokens, p) ==
    LET item == Rule(rule, tokens, p)
        more == Append(items, item.tree)
    IN  IF item.err # "" THEN item
        ELSE IF tokens[item.p].tok = "," THEN ListOf(rule, more, tokens, item.p + 1)
        ELSE Read(more, item.p)

\* AND that binds no tighter than OR: a variant.
Chain_Loose(op, left, tokens, p) ==
    IF tokens[p].tok # op THEN Read(left, p)
    ELSE LET right == Rule(IF op = "or" THEN "and" ELSE "or", tokens, p + 1)
         IN  IF right.err # "" THEN right
             ELSE Read(IF op = "or" THEN Or(left, right.tree) ELSE And(left, right.tree), right.p)

\* Operands of one connective, folded to the left.
Chain(op, left, tokens, p) ==
    IF tokens[p].tok # op THEN Read(left, p)
    ELSE LET right == Rule(IF op = "or" THEN "and" ELSE "comparison", tokens, p + 1)
         IN  IF right.err # "" THEN right
             ELSE Chain(op, IF op = "or" THEN Or(left, right.tree) ELSE And(left, right.tree),
                        tokens, right.p)

\* One comparison at most: a second is left for the caller to refuse.
ParseComparison(left, tokens, p) ==
    LET op == tokens[p].tok
        right == Rule("primary", tokens, p + 1)
    IN  IF op = "in" THEN Wrong("Unsupported", p)
        ELSE IF op \notin DOMAIN Comparisons THEN Read(left, p)
        ELSE IF right.err # "" THEN right
        ELSE Read(Compare(left, Comparisons[op], right.tree), right.p)

ParseType(tokens, p) ==
    LET word == tokens[p].v
        scalar == {ty \in ScalarTypes : word = <<ty>> \/ Folded(word[1]) = Folded(ty)}
        dim == Rule("dimension", tokens, p + 1)
    IN  IF tokens[p].tok # "ident" THEN Unexpected(tokens, p)
        ELSE IF Len(word) # 1 THEN Wrong("UnknownType", p)
        ELSE IF Folded(word[1]) = Folded("VECTOR")
             THEN IF dim.err # "" THEN dim ELSE Read([ty |-> "VECTOR", dim |-> dim.tree], dim.p)
        ELSE IF scalar = {} THEN Wrong("UnknownType", p)
        ELSE Read([ty |-> CHOOSE ty \in scalar : TRUE, dim |-> 0], p + 1)

Rule(rule, tokens, p) ==
    LET tok == tokens[p].tok
        Produce(r) ==
            LET got == Parts(Productions[r], <<>>, tokens, p)
            IN  IF got.err # "" THEN got ELSE Read(Tree(r, got.tree), got.p)
        Into(got, Make(_)) == IF got.err # "" THEN got ELSE Read(Make(got.tree), got.p)
    IN  CASE rule \in {"ident", "int"} -> Leaf(tokens, p, rule)
          [] rule = "any" -> IF tok \in Kinds THEN Produce(tok) ELSE Unexpected(tokens, p)
          [] rule \in DOMAIN Absent ->
                IF tok = Productions[rule][1].is THEN Produce(rule) ELSE Read(Absent[rule], p)
          [] rule = "projection" ->
                IF tok = "*" THEN Read(<<>>, p + 1) ELSE ListOf("ident", <<>>, tokens, p)
          [] rule = "type" -> ParseType(tokens, p)
          [] rule = "element" ->
                Into(ParseNumber(tokens, p), LAMBDA n : IF n.ty = "INT" THEN 2 * n.v[1] ELSE n.v[1])
          [] rule = "literal" ->
                CASE tok = "[" -> Produce("vector")
                  [] tok = "string" -> Read([ty |-> "TEXT", v |-> tokens[p].v], p + 1)
                  [] tok \in {"-", "int", "float"} -> ParseNumber(tokens, p)
                  [] OTHER -> Unexpected(tokens, p)
          [] rule = "primary" ->
                CASE tok = "(" -> Produce("nested")
                  [] tok = "ident" -> Read(Column(tokens[p].v), p + 1)
                  [] tok = "not" -> Wrong("Unsupported", p)
                  [] OTHER -> Into(Rule("literal", tokens, p), Lit)
          [] rule = "comparison" ->
                LET left == Rule("primary", tokens, p)
                IN  IF left.err # "" THEN left ELSE ParseComparison(left.tree, tokens, left.p)
          [] rule \in {"and", "or"} ->
                LET first == Rule(IF rule = "or" THEN "and" ELSE "comparison", tokens, p)
                IN  IF first.err # "" THEN first ELSE Chain(rule, first.tree, tokens, first.p)
          [] OTHER -> Produce(rule)

\* One statement and its semicolon, and nothing behind.
ParseTokens(tokens) ==
    LET got == Rule("statement", tokens, 1)
    IN  IF Last(tokens).tok = "error" THEN Wrong("Lex", Len(tokens))
        ELSE IF got.err = "" /\ tokens[got.p].tok # "eof" THEN Wrong("TrailingTokens", got.p)
        ELSE got
Parse(text) == ParseTokens(Tokenize(text))
=============================================================================
