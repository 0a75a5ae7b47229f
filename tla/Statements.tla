----------------------------- MODULE Statements -----------------------------
(***************************************************************************)
(* Db::execute (src/src/query.rs): a statement is bound and compiled (Sql),*)
(* and its program runs on a machine of its own (vm/exec.rs) against the   *)
(* stores of a collection, beside the commit thread, other callers and the *)
(* flip of a compaction.  A read opens its cursors under the flip epoch,   *)
(* lets go of the database and streams; a write runs inside the write gate *)
(* and starts again when the rows it read were changed before its record   *)
(* was applied.                                                            *)
(*                                                                         *)
(* One collection is stored, named by the initial catalog; CREATE adds     *)
(* names to it.  A generation holds the rows by ordinal (tuples, vectors   *)
(* and postings; ordinals from 1), the liveness the applier writes         *)
(* (inner), the snapshot readers share (shown) and whether a reader may    *)
(* still take it (fresh: LiveHandle in the small).  The log is durable and *)
(* never fails here (CommitLog, Stores), and a compaction is modelled from *)
(* the closing of the gate on (Compaction has what comes before).  The two *)
(* handles a ranking takes after its snapshot come in one step.            *)
(***************************************************************************)
EXTENDS Sql, Bags

CONSTANTS
    Callers,
    Workloads,   \* the statements of the callers, as functions
    Declared,    \* the columns of the stored collection
    Loaded,      \* its first rows, oldest first
    Dead,        \* the ordinals of those deleted since
    Ordinals,    \* its capacity
    MaxAttempts, \* MAX_WRITE_ATTEMPTS
    MaxGen       \* bound: generations

ASSUME StatementsAssumption ==
    /\ Ordinals \in Nat /\ MaxAttempts \in Nat \ {0} /\ MaxGen \in Nat \ {0}
    /\ Dead \subseteq DOMAIN Loaded /\ Len(Loaded) <= Ordinals

VARIABLES
    catalog, \* the storage schema of every collection
    gens,    \* the generations of the stored one; the commit thread writes the last
    serving, \* the one readers are given
    epoch,   \* the flip epoch
    flip,    \* how far a compaction has come
    queue,   \* records on the way through the commit thread
    stage,   \* how far the first of them is applied
    born,    \* row versions handed out
    calls,   \* per caller: its statement, phase, program, machine and outcome
    moments, \* history: per open call, what the table has been since
    spent    \* history: the row versions the table ever held

vars == <<catalog, gens, serving, epoch, flip, queue, stage, born, calls, moments, spent>>

Stored == "t"
Schema == catalog[Stored]

\* A row: its version, its scalars by column id, its vector.
NoRow == [ver |-> 0, cols |-> <<>>, vec |-> <<>>]
Written(g, o) == o \in DOMAIN gens[g].rows /\ gens[g].rows[o] # NoRow
Visible(g) == IF gens[g].fresh THEN gens[g].shown ELSE gens[g].inner
Latest == Len(gens)

(***************************************************************************)
(* The machine: registers, cursors and the liveness its query resolved.    *)
(***************************************************************************)
Unset == [ty |-> "UNSET", v |-> <<>>]
Bitmap(set) == [ty |-> "BITMAP", v |-> set]
Closed == [slot |-> "closed"]
ReadCursor(g, ordinals, scores) ==
    [slot |-> "read", gen |-> g, rest |-> ordinals, at |-> 0, scores |-> scores]
NoScores == <<>>

NewVm(program) ==
    [pc |-> 1, regs |-> [r \in 1 .. program.regs |-> Unset],
     curs |-> [c \in 1 .. program.curs |-> Closed], live |-> <<>>]

NeedsDb(op) ==
    op.op \in {"OpenRead", "OpenWrite", "KnnScan", "Insert", "Mutate", "CreateCollection",
               "BitmapEq", "BitmapRange", "BitmapNot"}

\* Parsing is Grammar's; here a statement is its syntax tree.
Bind(s) == Analyze(s, catalog)
Lower(s, bound) ==
    IF bound.err # "" THEN bound
    ELSE Compile(Plan(bound.is),
                 IF s.collection \in DOMAIN catalog THEN catalog[s.collection] ELSE <<>>)
Checked(program) ==
    LET fault == Validate(program.is)
    IN  IF program.err # "" \/ fault = "" THEN program ELSE Failed(fault)

\* What a caller that calls nothing has for a statement.
Quiet == [stmt |-> "none"]
NoProgram == Fresh
Idle(s) == [stmt |-> s, phase |-> "idle", program |-> NoProgram, vm |-> NewVm(NoProgram),
            try |-> 0, epoch |-> 0, record |-> <<>>, verdict |-> "", err |-> "", out |-> <<>>]

Init ==
    /\ catalog = [n \in {Stored} |-> ToMetadataSchema(Declared).is]
    /\ gens = <<[rows |-> Loaded, inner |-> DOMAIN Loaded \ Dead, shown |-> {}, fresh |-> FALSE,
                 next |-> Len(Loaded)]>>
    /\ serving = 1 /\ epoch = 0 /\ flip = "open"
    /\ queue = <<>> /\ stage = "none" /\ born = Len(Loaded)
    /\ \E work \in Workloads : calls = [c \in Callers |-> Idle(work[c])]
    /\ moments = [c \in Callers |-> {}]
    /\ spent = {Loaded[o].ver : o \in DOMAIN Loaded \ Dead}

-----------------------------------------------------------------------------
(***************************************************************************)
(* Db::execute around the machine.                                         *)
(***************************************************************************)
Store == <<gens, serving, epoch, flip, queue, stage, born>>
Become(c, call) == calls' = [calls EXCEPT ![c] = call]
Mutates(s) == s.stmt \in {"insert", "update", "delete", "create"}
Holding(c) == calls[c].phase \in {"writing", "sending", "waiting"}

\* Bound, compiled and checked: a program, or an error before anything ran.
Call(c) ==
    /\ calls[c].phase = "idle" /\ calls[c].stmt # Quiet
    /\ LET s == calls[c].stmt
       IN  \E bound \in {Bind(s)} : \E program \in {Lower(s, bound)} : \E p \in {Checked(program)} :
             Become(c, IF p.err # "" THEN [calls[c] EXCEPT !.phase = "refused", !.err = p.err]
                       ELSE [calls[c] EXCEPT !.phase = IF Mutates(s) THEN "gate" ELSE "epoch",
                                             !.program = p.is, !.vm = NewVm(p.is), !.try = 1])
    /\ UNCHANGED <<catalog, Store>>

\* write_gate: held until the statement has ended, over every attempt.
EnterGate(c) ==
    /\ calls[c].phase = "gate" /\ flip = "open"
    /\ Become(c, [calls[c] EXCEPT !.phase = "writing"])
    /\ UNCHANGED <<catalog, Store>>

\* Epoch::begin, at the start of every pass of a read.
BeginPass(c) ==
    /\ calls[c].phase = "epoch" /\ epoch % 2 = 0
    /\ Become(c, [calls[c] EXCEPT !.phase = "opening", !.epoch = epoch])
    /\ UNCHANGED <<catalog, Store>>

\* open_cursors goes on while an instruction ahead needs the database.
DbAhead(c) ==
    \E i \in calls[c].vm.pc .. Len(calls[c].program.ops) : NeedsDb(calls[c].program.ops[i])

Detach(c) ==
    /\ calls[c].phase = "opening" /\ ~DbAhead(c)
    /\ Become(c, [calls[c] EXCEPT !.phase = "check"])
    /\ UNCHANGED <<catalog, Store>>

\* A pass a flip fell into is thrown away with its machine, error or not.
CheckEpoch(c) ==
    /\ calls[c].phase = "check"
    /\ Become(c, IF epoch # calls[c].epoch
                 THEN [calls[c] EXCEPT !.phase = "epoch", !.err = "",
                                       !.vm = NewVm(calls[c].program)]
                 ELSE [calls[c] EXCEPT !.phase = IF calls[c].err = "" THEN "streaming"
                                                 ELSE "failed"])
    /\ UNCHANGED <<catalog, Store>>

\* What an error of the machine does to the statement it runs for.
Raised(c, e) ==
    LET call == calls[c]
    IN  CASE call.phase = "opening" -> [call EXCEPT !.phase = "check", !.err = e]
          [] call.phase = "streaming" -> [call EXCEPT !.phase = "failed", !.err = e]
          [] OTHER ->
                IF e = "Conflict" /\ call.try < MaxAttempts
                THEN [call EXCEPT !.phase = "writing", !.try = @ + 1, !.vm = NewVm(call.program)]
                ELSE [call EXCEPT !.phase = "failed",
                                  !.err = IF e = "Conflict" THEN "WriteConflict" ELSE e]

-----------------------------------------------------------------------------
(***************************************************************************)
(* Vm::exec_one, one action per group of instructions.                     *)
(***************************************************************************)
Op(c) == calls[c].program.ops[calls[c].vm.pc]
Const(c, id) == calls[c].program.consts[id]
Reg(c, r) == calls[c].vm.regs[r]
HasDb(c) == calls[c].phase # "streaming"

Runs(c, names) ==
    /\ calls[c].phase \in {"opening", "streaming", "writing"}
    /\ calls[c].phase = "opening" => DbAhead(c)
    /\ Op(c).op \in names

Continue(c, vm) == Become(c, [calls[c] EXCEPT !.vm = [vm EXCEPT !.pc = @ + 1]])
SetReg(c, dst, value) == Continue(c, [calls[c].vm EXCEPT !.regs[dst] = value])

LoadLiteral(c) ==
    /\ Runs(c, {"Integer", "Real", "String", "VectorConst"})
    /\ LET op == Op(c)
           kind == IF op.op = "String" THEN "TEXT" ELSE "VECTOR"
       IN  IF op.op \in {"Integer", "Real"} THEN SetReg(c, op.dst, op.value)
           ELSE IF Const(c, op.id).const # kind THEN Become(c, Raised(c, "BadConst"))
           ELSE SetReg(c, op.dst, [ty |-> kind, v |-> Const(c, op.id).v])
    /\ UNCHANGED <<catalog, Store>>

\* Variant: a lookup takes the liveness of its own moment.
Lives_Resolved(c) == Visible(serving)

\* The liveness of the query, resolved once per machine.
Lives(c) == calls[c].vm.live[1]

\* Vm::live_set on its first use: LiveHandle::resolve keeps the shared
\* snapshot when nothing was published since, and takes a new one otherwise.
Resolved(g) == [gens EXCEPT ![g].shown = Visible(g), ![g].fresh = TRUE]

ResolveLive(c) ==
    /\ Runs(c, {"BitmapEq", "BitmapRange", "BitmapNot", "OpenRead", "KnnScan"})
    /\ HasDb(c) /\ calls[c].vm.live = <<>>
    /\ Op(c).op = "OpenRead" => Op(c).filter = 0
    /\ Become(c, [calls[c] EXCEPT !.vm.live = <<Visible(serving)>>])
    /\ gens' = Resolved(serving)
    /\ UNCHANGED <<catalog, serving, epoch, flip, queue, stage, born>>

Test(cmp, a, b) ==
    CASE cmp = "eq" -> a = b
      [] cmp = "ne" -> a # b
      [] cmp = "lt" -> a < b
      [] cmp = "le" -> a <= b
      [] cmp = "gt" -> a > b
      [] cmp = "ge" -> a >= b

\* Reader::lookup_eq and lookup_range: the postings met with the snapshot.
Found(c, col, cmp, value) ==
    {o \in Lives(c) : Written(serving, o) /\
        Test(cmp, gens[serving].rows[o].cols[col].v[1], value.v[1])}

Lookup(c) ==
    /\ Runs(c, {"BitmapEq", "BitmapRange"})
    /\ HasDb(c) => calls[c].vm.live # <<>>
    /\ LET op == Op(c)
           value == Reg(c, op.value)
           cmp == IF op.op = "BitmapEq" THEN "eq" ELSE op.cmp
           ty == Schema.columns[op.col].ty
           unordered == op.op = "BitmapRange" /\ ty = "TEXT"
       IN  IF ~HasDb(c) THEN Become(c, Raised(c, "Detached"))
           ELSE IF value.ty = "UNSET" THEN Become(c, Raised(c, "UnsetRegister"))
           ELSE IF value.ty \notin {"INT", "FLOAT", "TEXT"}
                THEN Become(c, Raised(c, "NotAComparand"))
           ELSE IF unordered THEN SetReg(c, op.dst, Bitmap({}))
           ELSE IF value.ty # ty THEN Become(c, Raised(c, "TypeMismatch"))
           ELSE SetReg(c, op.dst, Bitmap(Found(c, op.col, cmp, value)))
    /\ UNCHANGED <<catalog, Store>>

IsBitmap(c, r) == Reg(c, r).ty = "BITMAP"

Combine(c) ==
    /\ Runs(c, {"BitmapAnd", "BitmapOr"})
    /\ LET op == Op(c)
       IN  IF ~IsBitmap(c, op.a) \/ ~IsBitmap(c, op.b) THEN Become(c, Raised(c, "NotABitmap"))
           ELSE SetReg(c, op.dst, Bitmap(IF op.op = "BitmapAnd"
                                         THEN Reg(c, op.a).v \cap Reg(c, op.b).v
                                         ELSE Reg(c, op.a).v \cup Reg(c, op.b).v))
    /\ UNCHANGED <<catalog, Store>>

\* The rest of the query's snapshot, so that a row that is not live is in
\* neither a predicate nor its negation.
Complement(c) ==
    /\ Runs(c, {"BitmapNot"})
    /\ HasDb(c) => calls[c].vm.live # <<>>
    /\ IF ~HasDb(c) THEN Become(c, Raised(c, "Detached"))
       ELSE IF ~IsBitmap(c, Op(c).src) THEN Become(c, Raised(c, "NotABitmap"))
       ELSE SetReg(c, Op(c).dst, Bitmap(Lives(c) \ Reg(c, Op(c).src).v))
    /\ UNCHANGED <<catalog, Store>>

Ascending(S) == SetToSortSeq(S, <)

OpenRead(c) ==
    /\ Runs(c, {"OpenRead"})
    /\ LET op == Op(c)
           open(set) == Continue(c, [calls[c].vm EXCEPT
                                        !.curs[op.cur] = ReadCursor(serving, Ascending(set), NoScores)])
       IN  /\ HasDb(c) /\ op.filter = 0 => calls[c].vm.live # <<>>
           /\ IF ~HasDb(c) THEN Become(c, Raised(c, "Detached"))
              ELSE IF op.filter = 0 THEN open(Lives(c))
              ELSE IF ~IsBitmap(c, op.filter) THEN Become(c, Raised(c, "NotABitmap"))
              ELSE open(Reg(c, op.filter).v)
    /\ UNCHANGED <<catalog, Store>>

Cursor(c) == calls[c].vm.curs[Op(c).cur]

\* Vm::read_cursor_mut.
CursorFault(c) ==
    CASE Cursor(c).slot = "closed" -> "CursorNotOpen"
      [] Cursor(c).slot = "write" -> "NotAReadCursor"
      [] OTHER -> ""

\* Cursor::advance over ordinals of a snapshot: a row that is not there is
\* an error and not skipped.
Moved(c, found, exhausted) ==
    LET cur == Cursor(c)
        here(at, rest) == [calls[c].vm EXCEPT !.curs[Op(c).cur].at = at,
                                              !.curs[Op(c).cur].rest = rest]
    IN  IF cur.rest = <<>> THEN Become(c, [calls[c] EXCEPT !.vm = [here(0, <<>>) EXCEPT !.pc = exhausted]])
        ELSE IF ~Written(cur.gen, Head(cur.rest)) THEN Become(c, Raised(c, "SnapshotRowMissing"))
        ELSE Become(c, [calls[c] EXCEPT !.vm = [here(Head(cur.rest), Tail(cur.rest)) EXCEPT
                                                   !.pc = found]])

SeekFirst(c) ==
    /\ Runs(c, {"SeekFirst"})
    /\ IF CursorFault(c) # "" THEN Become(c, Raised(c, CursorFault(c)))
       ELSE Moved(c, calls[c].vm.pc + 1, Op(c).end)
    /\ UNCHANGED <<catalog, Store>>

NextRow(c) ==
    /\ Runs(c, {"Next"})
    /\ IF CursorFault(c) # "" THEN Become(c, Raised(c, CursorFault(c)))
       ELSE Moved(c, Op(c).body, calls[c].vm.pc + 1)
    /\ UNCHANGED <<catalog, Store>>

Dot(a, b) == FoldLeft(LAMBDA sum, i : sum + a[i] * b[i], 0, [i \in DOMAIN a |-> i])

\* Sequences of n candidates, best first, that no other candidate beats.
Rankings(set, score, n) ==
    {q \in [1 .. n -> set] :
        /\ \A i, j \in 1 .. n : i < j => q[i] # q[j] /\ score[q[i]] >= score[q[j]]
        /\ \A o \in set : (\E i \in 1 .. n : q[i] = o) \/ \A i \in 1 .. n : score[q[i]] >= score[o]}

Least(a, b) == IF a < b THEN a ELSE b

\* Reader::search_filtered: which of two equal scores stays or comes first
\* is the heap's choice.
Hits(live, allowed, score, k) ==
    LET set == live \cap allowed IN Rankings(set, score, Least(k, Cardinality(set)))

KnnScan(c) ==
    /\ Runs(c, {"KnnScan"})
    /\ HasDb(c) => calls[c].vm.live # <<>>
    /\ LET op == Op(c)
           query == Reg(c, op.query)
           present == {o \in Lives(c) : Written(serving, o)}
           score == [o \in present |-> Dot(query.v, gens[serving].rows[o].vec)]
           allowed == IF op.filter = 0 THEN Lives(c) ELSE Reg(c, op.filter).v
       IN  IF ~HasDb(c) THEN Become(c, Raised(c, "Detached"))
           ELSE IF query.ty # "VECTOR" THEN Become(c, Raised(c, "NotAVector"))
           ELSE IF op.filter # 0 /\ ~IsBitmap(c, op.filter) THEN Become(c, Raised(c, "NotABitmap"))
           ELSE \E hits \in Hits(present, allowed, score, op.k) :
                   Continue(c, [calls[c].vm EXCEPT !.curs[op.cur] = ReadCursor(serving, hits, <<score>>)])
    /\ UNCHANGED <<catalog, Store>>

\* RowId, Score, Column, VectorFetch: what the cursor's row holds.
RowValue(c) ==
    LET op == Op(c)
        cur == Cursor(c)
        row == gens[cur.gen].rows[cur.at]
    IN  CASE op.op = "RowId" -> IntLit(cur.at)
          [] op.op = "Score" -> FloatLit(2 * cur.scores[1][cur.at])
          [] op.op = "Column" -> row.cols[op.col]
          [] op.op = "VectorFetch" -> VectorLit(row.vec)

RowFault(c) ==
    LET op == Op(c)
    IN  IF CursorFault(c) # "" THEN "NotAReadCursor"
        ELSE IF op.op = "Score" /\ Cursor(c).scores = NoScores THEN "NoScores"
        ELSE IF Cursor(c).at = 0 THEN "CursorNotOnARow"
        ELSE IF op.op = "Score" /\ Cursor(c).at \notin DOMAIN Cursor(c).scores[1] THEN "NoScoreForRow"
        ELSE IF op.op = "Column" /\ op.col \notin DOMAIN Schema.columns THEN "ColumnNotProjected"
        ELSE ""

ReadRow(c) ==
    /\ Runs(c, {"RowId", "Score", "Column", "VectorFetch"})
    /\ IF RowFault(c) # "" THEN Become(c, Raised(c, RowFault(c)))
       ELSE SetReg(c, Op(c).dst, RowValue(c))
    /\ UNCHANGED <<catalog, Store>>

\* A row goes to the caller, who comes back to the instruction after it.
ResultRow(c) ==
    /\ Runs(c, {"ResultRow"})
    /\ LET run == [i \in 1 .. Op(c).count |-> Reg(c, Op(c).start + i - 1)]
       IN  IF \E i \in DOMAIN run : run[i].ty = "UNSET"
           THEN Become(c, Raised(c, "UnsetRegister"))
           ELSE IF calls[c].phase = "opening" THEN Become(c, Raised(c, "CannotDetach"))
           ELSE Become(c, [calls[c] EXCEPT !.vm.pc = @ + 1, !.out = Append(@, run)])
    /\ UNCHANGED <<catalog, Store>>

Halt(c) ==
    /\ Runs(c, {"Halt"})
    /\ Become(c, IF calls[c].phase = "opening" THEN Raised(c, "CannotDetach")
                 ELSE [calls[c] EXCEPT !.phase = "done"])
    /\ UNCHANGED <<catalog, Store>>

-----------------------------------------------------------------------------
(***************************************************************************)
(* Writes: an instruction hands the engine (engine/mod.rs) what to log and *)
(* waits for the verdict.                                                  *)
(***************************************************************************)
OpenWrite(c) ==
    /\ Runs(c, {"OpenWrite"})
    /\ IF ~HasDb(c) THEN Become(c, Raised(c, "Detached"))
       ELSE Continue(c, [calls[c].vm EXCEPT !.curs[Op(c).cur] = [slot |-> "write"]])
    /\ UNCHANGED <<catalog, Store>>

MakeRecord(c) ==
    /\ Runs(c, {"MakeRecord"})
    /\ LET run == [i \in 1 .. Op(c).count |-> Reg(c, Op(c).start + i - 1)]
       IN  IF \E i \in DOMAIN run : run[i].ty \in {"UNSET", "BITMAP", "RECORD"}
           THEN Become(c, Raised(c, "NotAValue"))
           ELSE SetReg(c, Op(c).dst, [ty |-> "RECORD", v |-> run])
    /\ UNCHANGED <<catalog, Store>>

\* split_record: the values of a declaration, apart as they are stored.
SplitRecord(values) ==
    LET fault(o) == IF Locate(Schema, o).vector
                    THEN IF values[o].ty # "VECTOR" THEN "NotAVector"
                         ELSE IF Len(values[o].v) # Schema.vector.dim THEN "DimensionMismatch"
                         ELSE ""
                    ELSE IF values[o].ty = "VECTOR" THEN "NotAScalar" ELSE ""
        failure == IF Len(values) # Len(Schema.columns) + 1 THEN "Arity"
                   ELSE FirstFailure([o \in DOMAIN values |-> fault(o)])
    IN  IF failure # "" THEN [err |-> failure]
        ELSE [err |-> "", vec |-> values[Schema.vector.ordinal].v,
              cols |-> [id \in DOMAIN Schema.columns |-> values[Schema.columns[id].ordinal]]]

\* Schema::validate_row.
RowValid(cols) ==
    /\ DOMAIN cols = DOMAIN Schema.columns
    /\ \A id \in DOMAIN cols : cols[id].ty = Schema.columns[id].ty

KeyHeld(g, live, cols) ==
    \E o \in live : Written(g, o) /\ gens[g].rows[o].cols[Schema.key] = cols[Schema.key]

Sending(c, record, n) ==
    /\ Become(c, [calls[c] EXCEPT !.phase = "sending", !.record = <<record>>])
    /\ born' = born + n

\* Db::insert up to its append: a key that is visibly there is refused early.
InsertRow(c) ==
    /\ Runs(c, {"Insert"})
    /\ LET rec == Reg(c, Op(c).rec)
           split == SplitRecord(rec.v)
           next == gens[serving].next
           row == [ver |-> born + 1, cols |-> split.cols, vec |-> split.vec]
           refused(e) == Become(c, Raised(c, e)) /\ UNCHANGED <<gens, born>>
       IN  CASE ~HasDb(c) -> refused("Detached")
             [] HasDb(c) /\ rec.ty # "RECORD" -> refused("NotARecord")
             [] HasDb(c) /\ Cursor(c).slot # "write" -> refused("NotAWriteCursor")
             [] OTHER ->
                  IF split.err # "" THEN refused(split.err)
                  ELSE IF ~RowValid(split.cols) THEN refused("TypeMismatch")
                  ELSE IF KeyHeld(serving, Visible(serving), split.cols)
                       THEN /\ Become(c, Raised(c, "DuplicateKey"))
                            /\ gens' = Resolved(serving)
                            /\ UNCHANGED born
                  ELSE IF next >= Ordinals
                       THEN /\ Become(c, Raised(c, "CapacityExceeded"))
                            /\ gens' = Resolved(serving)
                            /\ UNCHANGED born
                  ELSE /\ gens' = [Resolved(serving) EXCEPT ![serving].next = @ + 1]
                       /\ Sending(c, [by |-> c, kind |-> "insert", retire |-> {},
                                      install |-> <<[at |-> next + 1, row |-> row]>>], 1)
    /\ UNCHANGED <<catalog, serving, epoch, flip, queue, stage>>

\* Db::update_rows: every matched row copied, the SET applied, a vector
\* replaced where the statement carries one.
Copy(row, set, vector, ver) ==
    LET last(col) == {i \in DOMAIN set : set[i].col = col}
    IN  [ver |-> ver,
         cols |-> [id \in DOMAIN row.cols |->
                      IF last(id) = {} THEN row.cols[id]
                      ELSE set[CHOOSE i \in last(id) : \A j \in last(id) : j <= i].value],
         vec |-> IF vector = <<>> THEN row.vec ELSE vector]

UpdateRows(c, matched, set, vector) ==
    LET old == Ascending(matched)
        next == gens[serving].next
        install == [i \in DOMAIN old |->
                       [at |-> next + i,
                        row |-> Copy(gens[serving].rows[old[i]], set, vector, born + i)]]
    IN  IF vector # <<>> /\ Cardinality(matched) > 1
        THEN Become(c, Raised(c, "KeyMatchedManyRows")) /\ UNCHANGED <<gens, born>>
        ELSE IF \E o \in matched : ~Written(serving, o)
             THEN Become(c, Raised(c, "SnapshotRowMissing")) /\ UNCHANGED <<gens, born>>
        ELSE IF next + Len(old) > Ordinals
             THEN Become(c, Raised(c, "CapacityExceeded")) /\ UNCHANGED <<gens, born>>
        ELSE /\ gens' = [gens EXCEPT ![serving].next = @ + Len(old)]
             /\ Sending(c, [by |-> c, kind |-> "update", retire |-> matched, install |-> install],
                        Len(old))

Mutate(c) ==
    /\ Runs(c, {"Mutate"})
    /\ LET op == Op(c)
           matched == Reg(c, op.retire).v
           vector == IF op.vector = 0 THEN <<>> ELSE Const(c, op.vector).v
           refused(e) == Become(c, Raised(c, e)) /\ UNCHANGED <<gens, born>>
       IN  IF ~HasDb(c) THEN refused("Detached")
           ELSE IF ~IsBitmap(c, op.retire) THEN refused("NotABitmap")
           ELSE IF op.set # 0 /\ Const(c, op.set).const # "ASSIGNMENTS" THEN refused("BadConst")
           ELSE IF matched = {}
                THEN /\ Become(c, [calls[c] EXCEPT !.vm.pc = @ + 1, !.verdict = "applied"])
                     /\ UNCHANGED <<gens, born>>
           ELSE IF op.set = 0
                THEN /\ Sending(c, [by |-> c, kind |-> "delete", retire |-> matched,
                                    install |-> <<>>], 0)
                     /\ UNCHANGED gens
           ELSE UpdateRows(c, matched, Const(c, op.set).v, vector)
    /\ UNCHANGED <<catalog, serving, epoch, flip, queue, stage>>

\* Db::create_collection: under the ddl lock, which is held until the record
\* is applied.
DdlFree == \A c \in Callers : calls[c].record # <<>> => calls[c].record[1].kind # "create"

CreateCollection(c) ==
    /\ Runs(c, {"CreateCollection"})
    /\ LET op == Op(c)
           refused(e) == Become(c, Raised(c, e)) /\ UNCHANGED born
       IN  IF ~HasDb(c) THEN refused("Detached")
           ELSE IF Const(c, op.schema).const # "SCHEMA" THEN refused("BadConst")
           ELSE /\ DdlFree
                /\ IF op.capacity = 0 THEN refused("InvalidCapacity")
                   ELSE IF op.name \in DOMAIN catalog THEN refused("CollectionExists")
                   ELSE Sending(c, [by |-> c, kind |-> "create", retire |-> {}, install |-> <<>>,
                                    name |-> op.name, schema |-> Const(c, op.schema).v], 0)
    /\ UNCHANGED <<catalog, gens, serving, epoch, flip, queue, stage>>

\* WalHandle::append.
Send(c) ==
    /\ calls[c].phase = "sending"
    /\ queue' = Append(queue, calls[c].record[1])
    /\ Become(c, [calls[c] EXCEPT !.phase = "waiting"])
    /\ UNCHANGED <<catalog, gens, serving, epoch, flip, stage, born>>

-----------------------------------------------------------------------------
(***************************************************************************)
(* The commit thread: the records in order, each judged, its data put in   *)
(* place, its liveness changed, the change published and the caller        *)
(* answered (IndexApplier::apply).                                         *)
(***************************************************************************)
Applying == Head(queue)
Live == gens[Latest].inner

\* The answer to the caller of the first record.
Answered(verdict) ==
    LET c == Applying.by
        call == [calls[c] EXCEPT !.record = <<>>, !.phase = "writing", !.verdict = verdict]
    IN  /\ calls' = [calls EXCEPT ![c] =
                        IF verdict = "applied" THEN [call EXCEPT !.vm.pc = @ + 1]
                        ELSE [Raised(c, verdict) EXCEPT !.record = <<>>]]
        /\ queue' = Tail(queue) /\ stage' = "none"

Installed(r) == {r.install[i].at : i \in DOMAIN r.install}

\* Variant: a mutation goes ahead whatever became of the rows it replaces.
Verdict_NeverStale(r) ==
    IF r.kind = "insert" /\ KeyHeld(Latest, Live, r.install[1].row.cols) THEN "DuplicateKey"
    ELSE "applied"

\* An INSERT whose key is taken is refused for good; a mutation built from
\* rows that are gone is to be tried again.
Verdict(r) ==
    IF r.kind = "insert" /\ KeyHeld(Latest, Live, r.install[1].row.cols) THEN "DuplicateKey"
    ELSE IF r.install # <<>> /\ ~(r.retire \subseteq Live) /\ Installed(r) \cap Live = {}
         THEN "Conflict"
    ELSE "applied"

Put(rows, install) ==
    LET high == FoldLeft(LAMBDA n, x : IF x.at > n THEN x.at ELSE n, Len(rows), install)
        new(o) == {i \in DOMAIN install : install[i].at = o}
    IN  [o \in 1 .. high |->
            IF new(o) # {} THEN install[CHOOSE i \in new(o) : TRUE].row
            ELSE IF o <= Len(rows) THEN rows[o] ELSE NoRow]

Judge ==
    /\ queue # <<>> /\ stage = "none" /\ Applying.kind # "create"
    /\ IF Verdict(Applying) # "applied" THEN Answered(Verdict(Applying)) /\ UNCHANGED gens
       ELSE /\ gens' = [gens EXCEPT ![Latest].rows = Put(@, Applying.install)]
            /\ stage' = "written"
            /\ UNCHANGED <<queue, calls>>
    /\ UNCHANGED <<catalog, serving, epoch, flip, born>>

Absorb ==
    /\ stage = "written"
    /\ gens' = [gens EXCEPT ![Latest].inner = (@ \cup Installed(Applying)) \ Applying.retire]
    /\ stage' = "absorbed"
    /\ UNCHANGED <<catalog, serving, epoch, flip, queue, born, calls>>

\* Variant: the version is not bumped.
Publish_NoBump ==
    /\ stage = "absorbed"
    /\ Answered("applied")
    /\ UNCHANGED <<catalog, gens, serving, epoch, flip, born>>

Publish ==
    /\ stage = "absorbed"
    /\ gens' = [gens EXCEPT ![Latest].fresh = FALSE]
    /\ Answered("applied")
    /\ UNCHANGED <<catalog, serving, epoch, flip, born>>

ApplyCreate ==
    /\ queue # <<>> /\ stage = "none" /\ Applying.kind = "create"
    /\ catalog' = [n \in {Applying.name} |-> Applying.schema] @@ catalog
    /\ Answered("applied")
    /\ UNCHANGED <<gens, serving, epoch, flip, born>>

-----------------------------------------------------------------------------
(***************************************************************************)
(* The end of a compaction: the gate closed, the live rows renumbered, the *)
(* catalog swapped under an odd epoch, the gate opened.                    *)
(***************************************************************************)
CloseGate ==
    /\ flip = "open" /\ Latest < MaxGen
    /\ \A c \in Callers : ~Holding(c)
    /\ Cardinality(Live) # gens[Latest].next
    /\ flip' = "closed"
    /\ UNCHANGED <<catalog, gens, serving, epoch, queue, stage, born, calls>>

Install ==
    /\ flip = "closed"
    /\ LET old == Ascending(Live)
       IN  gens' = Append(gens, [rows |-> [i \in DOMAIN old |-> gens[Latest].rows[old[i]]],
                                 inner |-> DOMAIN old, shown |-> {}, fresh |-> FALSE,
                                 next |-> Len(old)])
    /\ epoch' = epoch + 1 /\ flip' = "installed"
    /\ UNCHANGED <<catalog, serving, queue, stage, born, calls>>

Swap ==
    /\ flip = "installed"
    /\ serving' = Latest /\ flip' = "swapped"
    /\ UNCHANGED <<catalog, gens, epoch, queue, stage, born, calls>>

\* Variant: the epoch is not made even again.
OpenGate_StaysOdd ==
    /\ flip = "swapped" /\ flip' = "open"
    /\ UNCHANGED <<catalog, gens, serving, epoch, queue, stage, born, calls>>

OpenGate ==
    /\ flip = "swapped"
    /\ epoch' = epoch + 1 /\ flip' = "open"
    /\ UNCHANGED <<catalog, gens, serving, queue, stage, born, calls>>

\* What the table is, for anyone who asks now.
TableNow ==
    {[ver |-> gens[Latest].rows[o].ver,
      data |-> [cols |-> gens[Latest].rows[o].cols, vec |-> gens[Latest].rows[o].vec]] :
        o \in Visible(Latest)}

Open(c) == calls[c].phase \notin {"idle", "refused", "done", "failed"}

Witness ==
    /\ moments' = [c \in Callers |->
                      IF Open(c)' THEN moments[c] \cup {TableNow'} ELSE {}]
    /\ spent' = spent \cup {r.ver : r \in TableNow'}

Machine(c) ==
    \/ LoadLiteral(c) \/ ResolveLive(c) \/ Lookup(c) \/ Combine(c) \/ Complement(c)
    \/ OpenRead(c) \/ SeekFirst(c) \/ NextRow(c) \/ KnnScan(c) \/ ReadRow(c)
    \/ ResultRow(c) \/ Halt(c)
    \/ OpenWrite(c) \/ MakeRecord(c) \/ InsertRow(c) \/ Mutate(c) \/ CreateCollection(c)
Statement(c) == EnterGate(c) \/ BeginPass(c) \/ Detach(c) \/ CheckEpoch(c) \/ Machine(c) \/ Send(c)
Commit == Judge \/ Absorb \/ Publish \/ ApplyCreate
Flip == Install \/ Swap \/ OpenGate

Next ==
    /\ \/ \E c \in Callers : Call(c) \/ Statement(c)
       \/ Commit \/ CloseGate \/ Flip
    /\ Witness

Spec == Init /\ [][Next]_vars

\* A caller goes on with what it called, and reads its rows to the end; the
\* commit thread and a flip that has begun go on.  Nobody has to call, and
\* no compaction has to come.
FairSpec ==
    /\ Spec
    /\ \A c \in Callers : SF_calls(Statement(c))
    /\ WF_<<queue, stage>>(Commit) /\ WF_flip(Flip)

-----------------------------------------------------------------------------
(***************************************************************************)
(* What statements mean, by the names their caller wrote: the semantics    *)
(* the programs are held against.                                          *)
(***************************************************************************)
Scalars == SelectSeq(Declared, IsScalar)
VectorName == Declared[First(Declared, IsVector)].name
IdOf(name) == First(Scalars, LAMBDA d : d.name = name)
ValueOf(data, name) ==
    IF name = VectorName THEN VectorLit(data.vec) ELSE data.cols[IdOf(name)]

Number(lit) == IF lit.ty = "INT" THEN 2 * lit.v[1] ELSE lit.v[1]
Operand(e, data) == Number(IF e.k = "literal" THEN e.lit ELSE ValueOf(data, e.name))

RECURSIVE Holds(_, _)
Holds(e, data) ==
    CASE e.k = "none" -> TRUE
      [] e.k = "and" -> Holds(e.l, data) /\ Holds(e.r, data)
      [] e.k = "or" -> Holds(e.l, data) \/ Holds(e.r, data)
      [] e.k = "compare" -> Test(e.op, Operand(e.l, data), Operand(e.r, data))

KindOf(s) ==
    IF s.stmt \in {"select", "search"} THEN "read" ELSE IF s.stmt \in {"create", "none"} THEN "other" ELSE s.stmt
Key(data) == data.cols[First(Scalars, IsKey)]
WhereHolds(s, data) == Holds(s.filter, data)

\* What a column holds when a literal is written to it.
Coerced(d, lit) == IF d.ty = "FLOAT" THEN FloatLit(Number(lit)) ELSE lit
Carried(s, d) == Coerced(d, s.values[First(s.names, LAMBDA n : n = d.name)])
GivenData(s) ==
    [cols |-> [id \in DOMAIN Scalars |-> Carried(s, Scalars[id])],
     vec |-> Carried(s, Declared[First(Declared, IsVector)]).v]

SetData(s, data) ==
    LET last(name) == {i \in DOMAIN s.assignments : s.assignments[i].name = name}
        value(name) == s.assignments[CHOOSE i \in last(name) : \A j \in last(name) : j <= i].value
    IN  [cols |-> [id \in DOMAIN Scalars |->
                      IF last(Scalars[id].name) = {} \/ Scalars[id].key THEN data.cols[id]
                      ELSE Coerced(Scalars[id], value(Scalars[id].name))],
         vec |-> IF last(VectorName) = {} THEN data.vec ELSE value(VectorName).v]

\* A row as the caller gets it.
Shown(s, data) ==
    IF s.names = <<>> THEN data.cols
    ELSE [i \in DOMAIN s.names |->
             IF s.stmt = "search" /\ IsPseudo(s.names[i])
             THEN FloatLit(2 * Dot(s.query.v, data.vec))
             ELSE ValueOf(data, s.names[i])]

BagOf(rows) == [x \in Range(rows) |-> Cardinality({i \in DOMAIN rows : rows[i] = x})]

\* SELECT: the rows in any order.  SEARCH: the k best, best first.
RightAnswers(s, snap) ==
    LET chosen == {r \in snap : Holds(s.filter, r.data)}
        row(r) == Shown(s, r.data)
        score == [r \in chosen |-> Dot(s.query.v, r.data.vec)]
    IN  IF s.stmt = "select" THEN {BagOf([i \in 1 .. Cardinality(chosen) |->
                                             row(SetToSeq(chosen)[i])])}
        ELSE {[i \in DOMAIN q |-> row(q[i])] :
                 q \in Rankings(chosen, score, Least(s.k, Cardinality(chosen)))}

-----------------------------------------------------------------------------
(***************************************************************************)
(* What is checked.                                                        *)
(***************************************************************************)
\* A read hands out rows of one moment between its call and now, the ones its
\* statement asks for: what a caller has got when it stops after any row is
\* part of a right answer, whatever was written, retired or renumbered since
\* its cursors were opened (exec.rs, query.rs: the stream owns its snapshot).
StreamsOneMoment ==
    \A c \in Callers : calls[c].phase = "streaming" =>
        \E snap \in moments[c] : \E answer \in RightAnswers(calls[c].stmt, snap) :
            IF calls[c].stmt.stmt = "search" THEN IsPrefix(calls[c].out, answer)
            ELSE BagOf(calls[c].out) \sqsubseteq answer

\* The columns of a collection come back as they were declared, in their
\* order, with the key and the dimension, from the schema that is stored
\* without the vector among its columns (compiler/schema.rs, bind_schema).
SchemaRoundTrip ==
    \A n \in DOMAIN catalog :
        \E columns \in {Declared} \cup {calls[c].stmt.columns : c \in
                            {d \in Callers : calls[d].stmt.stmt = "create"
                                             /\ calls[d].stmt.collection = n}} :
            BindSchema(catalog[n]) = columns

\* A statement gives up as contended only after losing once per attempt to
\* another write (query.rs: the loop over MAX_WRITE_ATTEMPTS): no conflict is
\* spurious, so somebody else's statement has ended each time.
LostToProgress ==
    \A c \in Callers : calls[c].try > 1 \/ calls[c].err = "WriteConflict" =>
        LET lost == IF calls[c].err = "WriteConflict" THEN calls[c].try ELSE calls[c].try - 1
        IN  Cardinality({d \in Callers \ {c} : calls[d].verdict = "applied"}) >= lost

\* The refinement: the callers of the table.
Status(c) ==
    LET call == calls[c]
        visible == stage = "absorbed" /\ Applying.by = c /\ Visible(Latest) = Live
    IN  IF call.phase = "idle" THEN "idle"
        ELSE IF call.phase \in {"refused", "failed"} THEN "failed"
        ELSE IF call.phase = "done" THEN "done"
        ELSE IF (call.verdict = "applied" \/ visible) /\ KindOf(call.stmt) # "other" THEN "applied"
        ELSE "open"

Why(c) ==
    CASE calls[c].phase = "refused" -> "bind"
      [] calls[c].phase # "failed" -> ""
      [] calls[c].err = "DuplicateKey" -> "duplicate"
      [] calls[c].err = "CapacityExceeded" -> "full"
      [] calls[c].err = "WriteConflict" -> "conflict"
      [] calls[c].err \in {"CollectionExists", "InvalidCapacity"} -> "other"
      [] OTHER -> "fault"

Caller(c) ==
    [input |-> calls[c].stmt, status |-> Status(c),
     seen |-> IF Status(c) = "open" THEN moments[c] ELSE {},
     answer |-> IF calls[c].phase # "done" \/ KindOf(calls[c].stmt) # "read" THEN <<>>
                ELSE IF calls[c].stmt.stmt = "select" THEN BagOf(calls[c].out) ELSE calls[c].out,
     why |-> Why(c)]

AllStatements == UNION {Range(work) : work \in Workloads}
Literals == [ty : {"INT", "FLOAT", "TEXT"}, v : Seq(Int)]

T == INSTANCE Table WITH
        Inputs <- AllStatements,
        Versions <- 1 .. MaxGen * Ordinals,
        Data <- [cols : Seq(Literals), vec : Seq(Int)],
        Kind <- KindOf, KeyOf <- Key, Given <- GivenData, Matches <- WhereHolds,
        Changed <- SetData, Answers <- RightAnswers,
        table <- TableNow, call <- [c \in Callers |-> Caller(c)]

\* Bound, compiled and run beside each other, beside a commit thread that
\* works in steps and beside a compaction, statements do what Table says and
\* nothing else: every write at one moment or not at all, every read from one
\* moment, no fault of the machine, no error without its cause.
ImplementsTable == T!Spec

\* A statement that was called is answered.
EveryCallEnds == \A c \in Callers : Open(c) ~> ~Open(c)
=============================================================================
