-------------------------------- MODULE Sql --------------------------------
(***************************************************************************)
(* From a parsed statement to a program: the syntax tree (sql/ast.rs), the *)
(* two schemas and the passage between them (metadata/common.rs,           *)
(* compiler/schema.rs, bind_schema of engine/mod.rs), the binder           *)
(* (sql/bind.rs), the planner (sql/planner.rs), the compiler and the       *)
(* check a program passes before it runs (compiler/).                      *)
(*                                                                         *)
(* Literals are a type and a sequence of numbers: a FLOAT counts halves,   *)
(* so an INT of n is the FLOAT of 2n; a text is the number of a string.    *)
(* Registers, cursors, addresses, constants, ordinals of columns and       *)
(* column ids count from 1 (the code's from 0).  What a message says,      *)
(* which of several faults of one clause is named, and the schema every    *)
(* plan node carries, are left out.                                        *)
(***************************************************************************)
EXTENDS Integers, Sequences, FiniteSets, SequencesExt

IntLit(n) == [ty |-> "INT", v |-> <<n>>]
FloatLit(halves) == [ty |-> "FLOAT", v |-> <<halves>>]
TextLit(n) == [ty |-> "TEXT", v |-> <<n>>]
VectorLit(v) == [ty |-> "VECTOR", v |-> v]

\* Expressions; NoExpr stands for an absent WHERE.
NoExpr == [k |-> "none"]
Column(name) == [k |-> "column", name |-> name]
Lit(l) == [k |-> "literal", lit |-> l]
Compare(l, op, r) == [k |-> "compare", op |-> op, l |-> l, r |-> r]
And(l, r) == [k |-> "and", l |-> l, r |-> r]
Or(l, r) == [k |-> "or", l |-> l, r |-> r]

\* Statements.  No names stand for `*` in SELECT and for an absent RETURNING.
Select(names, from, filter) ==
    [stmt |-> "select", collection |-> from, names |-> names, filter |-> filter]
Search(k, query, from, names, filter) ==
    [stmt |-> "search", collection |-> from, k |-> k, query |-> query, names |-> names,
     filter |-> filter]
Insert(into, names, values) ==
    [stmt |-> "insert", collection |-> into, names |-> names, values |-> values]
Update(collection, assignments, filter) ==
    [stmt |-> "update", collection |-> collection, assignments |-> assignments, filter |-> filter]
Delete(from, filter) == [stmt |-> "delete", collection |-> from, filter |-> filter]
Create(name, columns, options) ==
    [stmt |-> "create", collection |-> name, columns |-> columns, options |-> options]
Assign(name, value) == [name |-> name, value |-> value]
ColumnDef(name, ty, dim, key) == [name |-> name, ty |-> ty, dim |-> dim, key |-> key]

Flipped == [lt |-> "gt", le |-> "ge", gt |-> "lt", ge |-> "le", eq |-> "eq", ne |-> "ne"]

-----------------------------------------------------------------------------
(***************************************************************************)
(* The storage schema: scalar columns under dense ids, the vector apart,   *)
(* each with its place in the declaration.                                 *)
(***************************************************************************)
Failed(e) == [err |-> e]
Fine(x) == [err |-> "", is |-> x]

Positions(seq, Test(_)) == {i \in DOMAIN seq : Test(seq[i])}
First(seq, Test(_)) == CHOOSE i \in Positions(seq, Test) : \A j \in Positions(seq, Test) : i <= j
IsVector(c) == c.ty = "VECTOR"
IsScalar(c) == c.ty # "VECTOR"
IsKey(c) == c.key

\* The first failure of a list of items judged in order, or none.
FirstFailure(judged) ==
    LET bad == {i \in DOMAIN judged : judged[i] # ""}
    IN  IF bad = {} THEN "" ELSE judged[CHOOSE i \in bad : \A j \in bad : i <= j]

\* A column against those declared before it.
JudgeSpec(specs, i) ==
    IF \E j \in 1 .. i - 1 : specs[j].name = specs[i].name THEN "DuplicateColumn"
    ELSE IF specs[i].key /\ specs[i].ty \notin {"INT", "TEXT"} THEN "PrimaryKeyType"
    ELSE IF specs[i].key /\ \E j \in 1 .. i - 1 : specs[j].key THEN "PrimaryKeyCount"
    ELSE ""

\* Schema::from_columns.
FromColumns(specs) ==
    LET vectors == Positions(specs, IsVector)
        scalars == SetToSortSeq(Positions(specs, IsScalar), <)
        failure == FirstFailure([i \in DOMAIN specs |-> JudgeSpec(specs, i)])
        at == First(specs, IsVector)
    IN  IF Cardinality(vectors) # 1 THEN Failed("VectorColumnCount")
        ELSE IF failure # "" THEN Failed(failure)
        ELSE Fine([columns |-> [id \in DOMAIN scalars |->
                                   [name |-> specs[scalars[id]].name, ty |-> specs[scalars[id]].ty,
                                    ordinal |-> scalars[id]]],
                   vector |-> [name |-> specs[at].name, ordinal |-> at, dim |-> specs[at].dim],
                   key |-> IF \E i \in DOMAIN scalars : specs[scalars[i]].key
                           THEN First(scalars, LAMBDA o : specs[o].key)
                           ELSE 0])

\* to_metadata_schema: what CREATE declares, lowered for the store.
ToMetadataSchema(columns) ==
    IF \E i \in DOMAIN columns : IsVector(columns[i]) /\ columns[i].dim = 0
    THEN Failed("ZeroDimension")
    ELSE FromColumns(columns)

\* Schema::locate: where the column declared at an ordinal is stored.
Locate(schema, ordinal) ==
    IF schema.vector.ordinal = ordinal THEN [vector |-> TRUE, id |-> 0]
    ELSE [vector |-> FALSE, id |-> First(schema.columns, LAMBDA d : d.ordinal = ordinal)]

\* Variant: the vector is put first, wherever it was declared.
BindSchema_VectorFirst(schema) ==
    <<ColumnDef(schema.vector.name, "VECTOR", schema.vector.dim, FALSE)>> \o
    [id \in DOMAIN schema.columns |->
        ColumnDef(schema.columns[id].name, schema.columns[id].ty, 0, id = schema.key)]

\* bind_schema: the columns back in the order of their declaration.
BindSchema(schema) ==
    [o \in 1 .. Len(schema.columns) + 1 |->
        LET at == Locate(schema, o)
        IN  IF at.vector THEN ColumnDef(schema.vector.name, "VECTOR", schema.vector.dim, FALSE)
            ELSE ColumnDef(schema.columns[at.id].name, schema.columns[at.id].ty, 0,
                           at.id = schema.key)]

-----------------------------------------------------------------------------
(***************************************************************************)
(* The binder.  A catalog maps the names of collections to their storage   *)
(* schemas; a column is bound to its ordinal.                              *)
(***************************************************************************)
Named(columns, name) == Positions(columns, LAMBDA c : c.name = name)
Ordinal(columns, name) == First(columns, LAMBDA c : c.name = name)
IsPseudo(name) == name \in {"score", "Score", "SCORE"}

Typecheck(column, lit) ==
    IF column.ty = "FLOAT" /\ lit.ty = "INT" THEN Fine(FloatLit(2 * lit.v[1]))
    ELSE IF column.ty # lit.ty THEN Failed("TypeMismatch")
    ELSE IF IsVector(column) /\ Len(lit.v) # column.dim THEN Failed("DimensionMismatch")
    ELSE Fine(lit)

\* bind_comparison's operands with the column on the left.
Oriented(e) ==
    IF e.l.k = "column" THEN [name |-> e.l.name, op |-> e.op, lit |-> e.r.lit]
    ELSE [name |-> e.r.name, op |-> Flipped[e.op], lit |-> e.l.lit]

BindComparison(e, columns) ==
    IF {e.l.k, e.r.k} # {"column", "literal"} THEN Failed("UnsupportedPredicate")
    ELSE LET c == Oriented(e)
             column == columns[Ordinal(columns, c.name)]
             value == Typecheck(column, c.lit)
         IN  IF IsPseudo(c.name) THEN Failed("UnsupportedPredicate")
             ELSE IF Named(columns, c.name) = {} THEN Failed("ColumnNotFound")
             ELSE IF IsVector(column) THEN Failed("UnsupportedPredicate")
             ELSE IF column.ty = "TEXT" /\ c.op \notin {"eq", "ne"}
                  THEN Failed("UnsupportedPredicate")
             ELSE IF value.err # "" THEN value
             ELSE Fine([k |-> "compare", ordinal |-> Ordinal(columns, c.name), op |-> c.op,
                        value |-> value.is])

RECURSIVE BindPredicate(_, _)
BindPredicate(e, columns) ==
    CASE e.k = "none" -> Fine(NoExpr)
      [] e.k \in {"and", "or"} ->
            LET l == BindPredicate(e.l, columns)
                r == BindPredicate(e.r, columns)
            IN  IF l.err # "" THEN l ELSE IF r.err # "" THEN r
                ELSE Fine([k |-> e.k, l |-> l.is, r |-> r.is])
      [] e.k = "compare" -> BindComparison(e, columns)
      [] e.k \in {"column", "literal"} -> Failed("NotAPredicate")

\* An item of a row to produce: a column by its ordinal, or the score.
Item(ordinal) == [score |-> FALSE, ordinal |-> ordinal]
Score == [score |-> TRUE, ordinal |-> 0]
AllScalars(columns) ==
    LET at == SetToSortSeq(Positions(columns, IsScalar), <)
    IN  [i \in DOMAIN at |-> Item(at[i])]

\* The projection of SELECT and of SEARCH, which alone knows the score.
BindProjection(names, columns, pseudo) ==
    LET known(n) == Named(columns, n) # {}
        item(n) == IF pseudo /\ IsPseudo(n) THEN Score ELSE Item(Ordinal(columns, n))
    IN  IF names = <<>> THEN Fine(AllScalars(columns))
        ELSE IF \E i \in DOMAIN names : ~(pseudo /\ IsPseudo(names[i])) /\ ~known(names[i])
             THEN Failed("ColumnNotFound")
        ELSE Fine([i \in DOMAIN names |-> item(names[i])])

\* include_vector: the vector is fetched only when it is named.
NamesVector(items, columns) ==
    \E i \in DOMAIN items : ~items[i].score /\ IsVector(columns[items[i].ordinal])

BindSelect(s, columns) ==
    LET items == BindProjection(s.names, columns, FALSE)
        filter == BindPredicate(s.filter, columns)
    IN  IF items.err # "" THEN items ELSE IF filter.err # "" THEN filter
        ELSE Fine([bound |-> "select", from |-> s.collection, items |-> items.is,
                   vector |-> NamesVector(items.is, columns), filter |-> filter.is])

BindSearch(s, columns) ==
    LET at == First(columns, IsVector)
        items == BindProjection(s.names, columns, TRUE)
        filter == BindPredicate(s.filter, columns)
    IN  IF s.k < 1 THEN Failed("InvalidTopK")
        ELSE IF Positions(columns, IsVector) = {} THEN Failed("VectorColumnCount")
        ELSE IF s.query.ty # "VECTOR" THEN Failed("TypeMismatch")
        ELSE IF Len(s.query.v) # columns[at].dim THEN Failed("DimensionMismatch")
        ELSE IF items.err # "" THEN items ELSE IF filter.err # "" THEN filter
        ELSE Fine([bound |-> "search", from |-> s.collection, k |-> s.k, query |-> s.query,
                   items |-> items.is, vector |-> NamesVector(items.is, columns),
                   filter |-> filter.is])

BindDelete(s, columns) ==
    LET filter == BindPredicate(s.filter, columns)
    IN  IF filter.err # "" THEN filter
        ELSE Fine([bound |-> "delete", from |-> s.collection, filter |-> filter.is])

\* One assignment of UPDATE; a vector only for the one row a key names.
JudgeAssignment(a, columns, oneRow) ==
    IF Named(columns, a.name) = {} THEN "ColumnNotFound"
    ELSE LET column == columns[Ordinal(columns, a.name)]
             value == Typecheck(column, a.value)
         IN  IF value.err # "" THEN value.err
             ELSE IF column.key THEN "CannotSetPrimaryKey"
             ELSE IF IsVector(column) /\ ~oneRow THEN "CannotSetVector"
             ELSE ""

NamesOneRow(filter, columns) ==
    filter.k = "compare" /\ filter.op = "eq" /\ columns[filter.ordinal].key

BindUpdate(s, columns) ==
    LET filter == BindPredicate(s.filter, columns)
        oneRow == NamesOneRow(filter.is, columns)
        failure == FirstFailure([i \in DOMAIN s.assignments |->
                                    JudgeAssignment(s.assignments[i], columns, oneRow)])
        bound == [i \in DOMAIN s.assignments |->
                     LET o == Ordinal(columns, s.assignments[i].name)
                     IN  [ordinal |-> o, value |-> Typecheck(columns[o], s.assignments[i].value).is]]
        vectors == SelectSeq(bound, LAMBDA a : IsVector(columns[a.ordinal]))
    IN  IF filter.err # "" THEN filter ELSE IF failure # "" THEN Failed(failure)
        ELSE Fine([bound |-> "update", collection |-> s.collection,
                   assignments |-> SelectSeq(bound, LAMBDA a : IsScalar(columns[a.ordinal])),
                   vector |-> IF vectors = <<>> THEN <<>> ELSE <<Last(vectors).value>>,
                   filter |-> filter.is])

\* One column of INSERT against the columns named before it.
JudgeColumn(s, i, columns) ==
    IF Named(columns, s.names[i]) = {} THEN "ColumnNotFound"
    ELSE IF \E j \in 1 .. i - 1 : s.names[j] = s.names[i] THEN "DuplicateInsertColumn"
    ELSE Typecheck(columns[Ordinal(columns, s.names[i])], s.values[i]).err

\* The values in the order of the declaration.
PlacedRow(s, columns) ==
    [o \in DOMAIN columns |->
        Typecheck(columns[o], s.values[First(s.names, LAMBDA n : n = columns[o].name)]).is]

BindInsert(s, columns) ==
    IF Len(s.names) # Len(s.values) THEN Failed("ArityMismatch")
    ELSE LET failure == FirstFailure([i \in DOMAIN s.names |-> JudgeColumn(s, i, columns)])
         IN  IF failure # "" THEN Failed(failure)
             ELSE IF Len(s.names) # Len(columns) THEN Failed("MissingColumns")
             ELSE Fine([bound |-> "insert", collection |-> s.collection,
                        row |-> PlacedRow(s, columns)])

\* The capacity option, 0 (which the engine refuses) when absent or negative.
Capacity(options) ==
    LET named == Positions(options, LAMBDA o : o.name \in {"capacity", "CAPACITY"})
        value == options[CHOOSE i \in named : \A j \in named : i <= j].value
    IN  IF named = {} \/ value < 0 THEN 0 ELSE value

BindCreate(s) ==
    LET keys == Positions(s.columns, IsKey)
    IN  IF Cardinality(Positions(s.columns, IsVector)) # 1 THEN Failed("VectorColumnCount")
        ELSE IF Cardinality(keys) # 1 THEN Failed("PrimaryKeyCount")
        ELSE IF \A i \in keys : s.columns[i].ty \notin {"TEXT", "INT"} THEN Failed("PrimaryKeyType")
        ELSE Fine([bound |-> "create", name |-> s.collection, columns |-> s.columns,
                   capacity |-> Capacity(s.options)])

\* analyze.
Analyze(s, catalog) ==
    IF s.stmt = "create"
    THEN IF s.collection \in DOMAIN catalog THEN Failed("CollectionExists") ELSE BindCreate(s)
    ELSE IF s.collection \notin DOMAIN catalog THEN Failed("CollectionNotFound")
    ELSE LET columns == BindSchema(catalog[s.collection])
         IN  CASE s.stmt = "select" -> BindSelect(s, columns)
               [] s.stmt = "search" -> BindSearch(s, columns)
               [] s.stmt = "insert" -> BindInsert(s, columns)
               [] s.stmt = "delete" -> BindDelete(s, columns)
               [] s.stmt = "update" -> BindUpdate(s, columns)

-----------------------------------------------------------------------------
(***************************************************************************)
(* The planner: one node per bound statement, a read as a projection over  *)
(* a scan or over a ranking.                                               *)
(***************************************************************************)
Scan(from, filter) == [node |-> "scan", collection |-> from, filter |-> filter]
Knn(from, k, query, filter) ==
    [node |-> "knn", collection |-> from, k |-> k, query |-> query, filter |-> filter]
Project(input, items, vector) ==
    [node |-> "project", input |-> input, items |-> items, vector |-> vector]

Plan(b) ==
    CASE b.bound = "select" -> Project(Scan(b.from, b.filter), b.items, b.vector)
      [] b.bound = "search" -> Project(Knn(b.from, b.k, b.query, b.filter), b.items, b.vector)
      [] b.bound = "insert" -> [node |-> "insert", collection |-> b.collection, row |-> b.row]
      [] b.bound = "delete" -> [node |-> "delete", collection |-> b.from, filter |-> b.filter]
      [] b.bound = "update" ->
            [node |-> "update", collection |-> b.collection, assignments |-> b.assignments,
             vector |-> b.vector, filter |-> b.filter]
      [] b.bound = "create" ->
            [node |-> "create", name |-> b.name, columns |-> b.columns, capacity |-> b.capacity]

-----------------------------------------------------------------------------
(***************************************************************************)
(* The compiler, emitting into [ops, consts, regs, curs]: the instructions *)
(* and constants so far and the registers and cursors allocated.           *)
(***************************************************************************)
Fresh == [ops |-> <<>>, consts |-> <<>>, regs |-> 0, curs |-> 0]
Emit(cs, op) == [cs EXCEPT !.ops = Append(@, op)]
AddConst(cs, const) == [cs EXCEPT !.consts = Append(@, const)]
AllocReg(cs) == [cs EXCEPT !.regs = @ + 1]
AllocCursor(cs) == [cs EXCEPT !.curs = @ + 1]
Placeholder == 0

EmitLiteral(cs, lit) ==
    LET a == AllocReg(cs)
        pooled == AddConst(a, [const |-> lit.ty, v |-> lit.v])
    IN  CASE lit.ty = "VECTOR" ->
                Emit(pooled, [op |-> "VectorConst", id |-> Len(pooled.consts), dst |-> a.regs])
          [] lit.ty = "TEXT" ->
                Emit(pooled, [op |-> "String", id |-> Len(pooled.consts), dst |-> a.regs])
          [] lit.ty = "INT" -> Emit(a, [op |-> "Integer", value |-> lit, dst |-> a.regs])
          [] lit.ty = "FLOAT" -> Emit(a, [op |-> "Real", value |-> lit, dst |-> a.regs])

\* A comparison: its literal, the lookup, and for <> the complement.
EmitCompare(cs, p, collection, schema) ==
    LET col == Locate(schema, p.ordinal).id
        l == EmitLiteral(cs, p.value)
        d == AllocReg(l)
        n == AllocReg(d)
        lookup(into) == [op |-> "BitmapEq", collection |-> collection, col |-> col,
                         value |-> l.regs, dst |-> into]
        range == [op |-> "BitmapRange", collection |-> collection, col |-> col, cmp |-> p.op,
                  value |-> l.regs, dst |-> d.regs]
    IN  IF p.op = "eq" THEN [cs |-> Emit(d, lookup(d.regs)), dst |-> d.regs]
        ELSE IF p.op = "ne"
             THEN [cs |-> Emit(Emit(n, lookup(n.regs)),
                               [op |-> "BitmapNot", collection |-> collection, src |-> n.regs,
                                dst |-> d.regs]),
                   dst |-> d.regs]
        ELSE [cs |-> Emit(d, range), dst |-> d.regs]

\* A predicate in post-order; its bitmap is in dst, 0 without a predicate.
RECURSIVE EmitPredicate(_, _, _, _)
EmitPredicate(cs, p, collection, schema) ==
    CASE p.k = "none" -> [cs |-> cs, dst |-> 0]
      [] p.k = "compare" -> EmitCompare(cs, p, collection, schema)
      [] p.k \in {"and", "or"} ->
            LET l == EmitPredicate(cs, p.l, collection, schema)
                r == EmitPredicate(l.cs, p.r, collection, schema)
                d == AllocReg(r.cs)
            IN  [cs |-> Emit(d, [op |-> IF p.k = "and" THEN "BitmapAnd" ELSE "BitmapOr",
                                 a |-> l.dst, b |-> r.dst, dst |-> d.regs]),
                 dst |-> d.regs]

\* One item of a row: the vector only if the statement named it.
EmitItem(cs, item, vector, schema) ==
    LET d == AllocReg(cs)
        at == Locate(schema, item.ordinal)
    IN  IF item.score THEN Emit(d, [op |-> "Score", cur |-> cs.curs, dst |-> d.regs])
        ELSE IF ~at.vector
             THEN Emit(d, [op |-> "Column", cur |-> cs.curs, col |-> at.id, dst |-> d.regs])
        ELSE IF vector THEN Emit(d, [op |-> "VectorFetch", cur |-> cs.curs, dst |-> d.regs])
        ELSE cs

EmitRow(cs, items, vector, schema) ==
    LET row == FoldLeft(LAMBDA c, item : EmitItem(c, item, vector, schema), cs, items)
    IN  Emit(row, [op |-> "ResultRow", start |-> cs.regs + 1, count |-> row.regs - cs.regs])

\* emit_read_loop: seek, the row, next; the jump out is patched last.
EmitReadLoop(cs, items, vector, schema) ==
    LET top == Len(cs.ops) + 2
        body == EmitRow(Emit(cs, [op |-> "SeekFirst", cur |-> cs.curs, end |-> Placeholder]),
                        items, vector, schema)
        loop == Emit(body, [op |-> "Next", cur |-> cs.curs, body |-> top])
    IN  [loop EXCEPT !.ops[top - 1].end = Len(loop.ops) + 1]

EmitScan(node, schema) ==
    LET p == EmitPredicate(Fresh, node.filter, node.collection, schema)
        c == AllocCursor(p.cs)
    IN  Emit(c, [op |-> "OpenRead", cur |-> c.curs, collection |-> node.collection,
                 filter |-> p.dst])

EmitKnn(node, schema) ==
    LET p == EmitPredicate(Fresh, node.filter, node.collection, schema)
        q == AllocReg(AddConst(AllocCursor(p.cs), [const |-> "VECTOR", v |-> node.query.v]))
    IN  Emit(Emit(q, [op |-> "VectorConst", id |-> Len(q.consts), dst |-> q.regs]),
             [op |-> "KnnScan", cur |-> q.curs, collection |-> node.collection,
              query |-> q.regs, k |-> node.k, filter |-> p.dst])

EmitProject(node, schema) ==
    EmitReadLoop(IF node.input.node = "scan" THEN EmitScan(node.input, schema)
                 ELSE EmitKnn(node.input, schema),
                 node.items, node.vector, schema)

EmitInsert(node) ==
    LET w == Emit(AllocCursor(Fresh),
                  [op |-> "OpenWrite", cur |-> 1, collection |-> node.collection])
        vals == FoldLeft(EmitLiteral, w, node.row)
        rec == AllocReg(vals)
    IN  Emit(Emit(rec, [op |-> "MakeRecord", start |-> 1, count |-> vals.regs, dst |-> rec.regs]),
             [op |-> "Insert", cur |-> 1, rec |-> rec.regs])

\* lower_assignments: ordinals of the declaration to column ids.
LowerAssignments(assignments, schema) ==
    [i \in DOMAIN assignments |->
        [col |-> Locate(schema, assignments[i].ordinal).id, value |-> assignments[i].value]]

\* UPDATE and DELETE: the rows to retire, and for UPDATE what to set.
EmitMutation(node, schema) ==
    LET p == EmitPredicate(Fresh, node.filter, node.collection, schema)
        mutate(set, vector) == [op |-> "Mutate", collection |-> node.collection,
                                retire |-> p.dst, set |-> set, vector |-> vector]
    IN  IF node.node = "delete" THEN Emit(p.cs, mutate(0, 0))
        ELSE LET s == AddConst(p.cs, [const |-> "ASSIGNMENTS",
                                      v |-> LowerAssignments(node.assignments, schema)])
                 v == IF node.vector = <<>> THEN s
                      ELSE AddConst(s, [const |-> "VECTOR", v |-> node.vector[1].v])
             IN  Emit(v, mutate(Len(s.consts), IF node.vector = <<>> THEN 0 ELSE Len(v.consts)))

EmitCreate(node, lowered) ==
    Emit(AddConst(Fresh, [const |-> "SCHEMA", v |-> lowered]),
         [op |-> "CreateCollection", name |-> node.name, schema |-> 1,
          capacity |-> node.capacity])

\* compile: the node, then Halt.
Compile(node, schema) ==
    LET lowered == ToMetadataSchema(node.columns)
        halted(cs) == Fine(Emit(cs, [op |-> "Halt"]))
    IN  IF node.node = "create"
        THEN IF lowered.err # "" THEN lowered ELSE halted(EmitCreate(node, lowered.is))
        ELSE halted(CASE node.node = "project" -> EmitProject(node, schema)
                      [] node.node = "insert" -> EmitInsert(node)
                      [] node.node \in {"update", "delete"} -> EmitMutation(node, schema))

-----------------------------------------------------------------------------
(***************************************************************************)
(* Program::validate.  An optional register or constant is 0 when absent,  *)
(* and there is no operand 0 otherwise.                                    *)
(***************************************************************************)
Cursors(op) ==
    IF op.op \in {"OpenRead", "OpenWrite", "SeekFirst", "Next", "Column", "VectorFetch", "RowId",
                  "Score", "Insert", "KnnScan"}
    THEN {op.cur} ELSE {}

Registers(op) ==
    CASE op.op = "OpenRead" -> {op.filter} \ {0}
      [] op.op \in {"Column", "VectorFetch", "RowId", "Score", "Integer", "Real", "String",
                    "VectorConst"} -> {op.dst}
      [] op.op = "ResultRow" -> op.start .. op.start + op.count - 1
      [] op.op = "MakeRecord" -> (op.start .. op.start + op.count - 1) \cup {op.dst}
      [] op.op = "Insert" -> {op.rec}
      [] op.op = "KnnScan" -> {op.query} \cup ({op.filter} \ {0})
      [] op.op \in {"BitmapEq", "BitmapRange"} -> {op.value, op.dst}
      [] op.op \in {"BitmapAnd", "BitmapOr"} -> {op.a, op.b, op.dst}
      [] op.op = "BitmapNot" -> {op.src, op.dst}
      [] op.op = "Mutate" -> {op.retire}
      [] OTHER -> {}

Targets(op) ==
    CASE op.op = "SeekFirst" -> {op.end} [] op.op = "Next" -> {op.body} [] OTHER -> {}

Constants(op) ==
    CASE op.op \in {"String", "VectorConst"} -> {op.id}
      [] op.op = "Mutate" -> {op.set, op.vector} \ {0}
      [] op.op = "CreateCollection" -> {op.schema}
      [] OTHER -> {}

JudgeOp(p, op) ==
    IF ~(Cursors(op) \subseteq 1 .. p.curs) THEN "CursorOutOfRange"
    ELSE IF Placeholder \in Targets(op) THEN "UnpatchedJump"
    ELSE IF ~(Targets(op) \subseteq DOMAIN p.ops) THEN "JumpOutOfRange"
    ELSE IF ~(Constants(op) \subseteq DOMAIN p.consts) THEN "BadConstRef"
    ELSE IF ~(Registers(op) \subseteq 1 .. p.regs) THEN "RegOutOfRange"
    ELSE ""

Validate(p) ==
    IF p.ops = <<>> THEN "Empty"
    ELSE IF Last(p.ops).op # "Halt" THEN "NotHalted"
    ELSE FirstFailure([i \in DOMAIN p.ops |-> JudgeOp(p, p.ops[i])])
=============================================================================
