----------------------------- MODULE MetaStore -----------------------------
(***************************************************************************)
(* The two metadata stores of a collection: the index, which answers which *)
(* rows have a value (metadata/index.rs), and the tuple store, which gives *)
(* a row's values back (metadata/tuples.rs), with their snapshot files.    *)
(*                                                                         *)
(* The commit thread puts each record into the tuple store, then into the  *)
(* index, and now and then saves both.  Readers take a liveness set and    *)
(* look values up against it while rows come and go.  The log is the list  *)
(* of records acknowledged; what is behind `cut` has been truncated.       *)
(* Statements that conflict are Stores', how a liveness set is cached is   *)
(* LiveHandle's: here a record retires rows that are live, no column is a  *)
(* key, and rows are valid and columns exist, as Sql and Statements see to *)
(* before anything is logged.  A replay may still leave a record out.      *)
(***************************************************************************)
EXTENDS Snapshots, FiniteSets, FiniteSetsExt

CONSTANTS
    Columns,     \* the type of each column, in ColumnId order
    Rows,        \* rows a record may install
    Probes,      \* values a lookup may be asked for
    MaxOrdinal,  \* the capacity, less one
    MaxLog,      \* bound: records
    WordBits     \* bits of a word of a liveness set

VARIABLES
    phase,    \* the process: down, replaying the log, up
    index,    \* the index: columns, live
    slots,    \* the tuple store: ordinal to row, where one was written
    applied,  \* LSN of the last record in both
    pending,  \* the record the tuple store has and the index has not, if any
    held,     \* the liveness set a query holds
    log,      \* every record ever acknowledged
    cut,      \* LSN through which the log is truncated
    files,    \* metadata.snap and tuples.snap
    saving,   \* the file being saved and the step it is at, step 0 for none
    skewed    \* history: a replay left out a record that had rows to retire

vars == <<phase, index, slots, applied, pending, held, log, cut, files, saving, skewed>>

-----------------------------------------------------------------------------
(***************************************************************************)
(* Values.  A FLOAT is its rank among all floats, so that the zeroes are   *)
(* two: 2m for +m and -2m - 1 for -m.                                      *)
(***************************************************************************)
IntV(n) == [ty |-> "INT", n |-> n, s |-> "-"]
FloatV(rank) == [ty |-> "FLOAT", n |-> rank, s |-> "-"]
NaN == [ty |-> "FLOAT", n |-> 0, s |-> "nan"]
TextV(s) == [ty |-> "TEXT", n |-> 0, s |-> s]

IsNumber(x) == x.n \in Int /\ x \in {IntV(x.n), FloatV(x.n)}
IsText(x) == x = TextV(x.s)

\* What validate_row lets in: each column its type, and no NaN.
ASSUME SchemaAssumption ==
    /\ Columns \in Seq({"INT", "FLOAT", "TEXT"})
    /\ \A row \in Rows :
          /\ row = [c \in DOMAIN Columns |-> row[c]]
          /\ \A c \in DOMAIN Columns :
                row[c].ty = Columns[c] /\ (IsNumber(row[c]) \/ IsText(row[c]))
ASSUME ProbesAssumption == \A x \in Probes : IsNumber(x) \/ IsText(x) \/ x = NaN
ASSUME SizesAssumption == MaxOrdinal \in Nat /\ WordBits \in Nat \ {0}

\* FloatKey as the order of its bits makes it, two zeroes and all: a variant.
Key_TwoZeroes(x) == x.n

\* The key a number is filed under; -0.0 joins +0.0.
Key(x) == IF x.ty = "FLOAT" /\ x.n = -1 THEN 0 ELSE x.n

Ops == {"lt", "le", "gt", "ge"}
InRange(op, k, key) ==
    \/ op = "lt" /\ key < k
    \/ op = "le" /\ key <= k
    \/ op = "gt" /\ key > k
    \/ op = "ge" /\ key >= k

-----------------------------------------------------------------------------
(***************************************************************************)
(* Postings: number to rows, or text to token to rows.                     *)
(***************************************************************************)
Nowhere == [key \in {} |-> {}]
EmptyColumn == [map |-> Nowhere, dict |-> Nowhere, postings |-> <<>>]
EmptyIndex == [columns |-> [c \in DOMAIN Columns |-> EmptyColumn], live |-> {}]

Under(f, key) == IF key \in DOMAIN f THEN f[key] ELSE {}
Tokens(column, s) == IF s \in DOMAIN column.dict THEN column.postings[column.dict[s]] ELSE {}

\* Rows are filed in a column under what they have in it: `terms` is that, for
\* each ordinal.  Texts not seen before get the next tokens, in some order.
Term(c, row) == IF Columns[c] = "TEXT" THEN row[c].s ELSE Key(row[c])
FileNumbers(map, terms) ==
    [key \in DOMAIN map \cup {terms[o] : o \in DOMAIN terms} |->
        Under(map, key) \cup {o \in DOMAIN terms : terms[o] = key}]
FileTexts(column, terms) ==
    LET new == {terms[o] : o \in DOMAIN terms} \ DOMAIN column.dict
        fresh == SetToSeq(new)
        n == Len(column.postings)
        dict == [s \in DOMAIN column.dict \cup new |->
                   IF s \in new THEN n + CHOOSE i \in DOMAIN fresh : fresh[i] = s
                   ELSE column.dict[s]]
    IN  [column EXCEPT
           !.dict = dict,
           !.postings = [t \in 1 .. n + Len(fresh) |->
                           Under(@, t) \cup {o \in DOMAIN terms : dict[terms[o]] = t}]]
File(c, column, rows) ==
    LET terms == [o \in DOMAIN rows |-> Term(c, rows[o])]
    IN  IF Columns[c] = "TEXT" THEN FileTexts(column, terms)
        ELSE [column EXCEPT !.map = FileNumbers(@, terms)]

\* insert_row, remove_row and apply_mutation: installs, then retirements, as
\* one step; postings of a retired row stay.
Absorbed(ix, record) ==
    [columns |-> [c \in DOMAIN Columns |-> File(c, ix.columns[c], record.install)],
     live |-> (ix.live \cup DOMAIN record.install) \ record.retire]

\* A record is left out when a row it retires is gone and none of its own are
\* there: somebody else was first, or so it looks to a replay.
IsStale(live, record) ==
    /\ DOMAIN record.install # {} /\ ~ record.retire \subseteq live
    /\ DOMAIN record.install \cap live = {}

Written(s, record) ==
    [o \in DOMAIN s \cup DOMAIN record.install |->
        IF o \in DOMAIN record.install THEN record.install[o] ELSE s[o]]

\* The rows found, or why there is no answer.
Found(rows) == [err |-> "none", rows |-> rows]
Refused(why) == [err |-> why, rows |-> {}]

Eq(c, x) ==
    LET column == index.columns[c]
    IN  CASE x.ty # Columns[c] -> Refused("TypeMismatch")
          [] x = NaN /\ Columns[c] = "FLOAT" -> Refused("NaNRejected")
          [] x.ty = "TEXT" /\ Columns[c] = "TEXT" -> Found(Tokens(column, x.s))
          [] OTHER -> Found(Under(column.map, Key(x)))
Between(c, op, x) ==
    LET map == index.columns[c].map
    IN  CASE Columns[c] = "TEXT" -> Found({})
          [] Columns[c] # "TEXT" /\ x.ty # Columns[c] -> Refused("TypeMismatch")
          [] x = NaN /\ Columns[c] = "FLOAT" -> Refused("NaNRejected")
          [] OTHER -> Found(UNION {map[k] : k \in {k \in DOMAIN map : InRange(op, Key(x), k)}})

\* A lookup is masked by the liveness set of its query.
Masked(found, live) == [found EXCEPT !.rows = @ \cap live]
LookupEq(c, x, set) == Masked(Eq(c, x), set.live)
LookupRange(c, op, x, set) == Masked(Between(c, op, x), set.live)

\* A liveness set: the rows, and the same as words up to the last of them.
LiveSet(live) ==
    [live |-> live,
     bits |-> [w \in 1 .. (IF live = {} THEN 0 ELSE Max(live) \div WordBits + 1) |->
                 {b \in 0 .. WordBits - 1 : (w - 1) * WordBits + b \in live}]]
IsLive(set, o) ==
    LET w == o \div WordBits + 1 IN w \in DOMAIN set.bits /\ o % WordBits \in set.bits[w]

\* RowGet: the values of some columns, in their order, or none.
Get(o, columns) ==
    IF o \in DOMAIN slots THEN [i \in DOMAIN columns |-> slots[o][columns[i]]] ELSE <<>>

-----------------------------------------------------------------------------
(***************************************************************************)
(* The snapshot codec.                                                     *)
(***************************************************************************)
\* A column's postings as they are written: each number with its rows, or, by
\* token, the text the token stands for with its rows.
Block(c, column) ==
    IF Columns[c] = "TEXT"
    THEN [t \in DOMAIN column.postings |->
            [key |-> CHOOSE s \in DOMAIN column.dict : column.dict[s] = t,
             rows |-> column.postings[t]]]
    ELSE {[key |-> k, rows |-> column.map[k]] : k \in DOMAIN column.map}
Unblock(c, entries) ==
    IF Columns[c] = "TEXT"
    THEN [map |-> Nowhere,
          dict |-> [s \in {entries[t].key : t \in DOMAIN entries} |->
                      CHOOSE t \in DOMAIN entries : entries[t].key = s],
          postings |-> [t \in DOMAIN entries |-> entries[t].rows]]
    ELSE [map |-> [k \in {e.key : e \in entries} |-> (CHOOSE e \in entries : e.key = k).rows],
          dict |-> Nowhere, postings |-> <<>>]

EncodeIndex(ix, lsn) ==
    Sealed(<<[f |-> "magic", v |-> "MET0"], [f |-> "version", v |-> 2], [f |-> "lsn", v |-> lsn],
             [f |-> "schema", v |-> Columns],
             [f |-> "columns", v |-> [c \in DOMAIN Columns |-> Block(c, ix.columns[c])]],
             [f |-> "live", v |-> ix.live]>>)
EncodeTuples(s, lsn) ==
    Sealed(<<[f |-> "magic", v |-> "TUP0"], [f |-> "version", v |-> 3], [f |-> "lsn", v |-> lsn],
             [f |-> "body", v |-> [schema |-> Columns, slots |-> s]]>>)

DecodeIndex(bytes) ==
    [lsn |-> bytes[3].v,
     store |-> [columns |-> [c \in DOMAIN Columns |-> Unblock(c, bytes[5].v[c])],
                live |-> bytes[6].v]]
DecodeTuples(bytes) == [lsn |-> bytes[3].v, store |-> bytes[4].v.slots]

\* A file that is missing or not intact gives an empty store at LSN 0, which
\* the log is to fill.
OpenIndex(content) ==
    IF Intact(content.bytes) THEN DecodeIndex(content.bytes) ELSE [lsn |-> 0, store |-> EmptyIndex]
OpenTuples(content) ==
    IF Intact(content.bytes) THEN DecodeTuples(content.bytes) ELSE [lsn |-> 0, store |-> Nowhere]

-----------------------------------------------------------------------------
Nothing == [retire |-> {}, install |-> Nowhere]
Idle == [file |-> "none", step |-> 0]
Encoded(file) ==
    IF file = "index" THEN EncodeIndex(index, applied) ELSE EncodeTuples(slots, applied)

Init ==
    /\ phase = "up"
    /\ index = EmptyIndex /\ slots = Nowhere /\ applied = 0
    /\ pending = Nothing /\ held = LiveSet({})
    /\ log = <<>> /\ cut = 0
    /\ files = [index |-> Stored(EncodeIndex(EmptyIndex, 0)), tuples |-> Stored(EncodeTuples(Nowhere, 0))]
    /\ saving = Idle /\ skewed = FALSE

\* The ordinals the first n records install, and retire.
Installed(n) == UNION {DOMAIN log[k].install : k \in 1 .. n}
Retired(n) == UNION {log[k].retire : k \in 1 .. n}
Unused == (0 .. MaxOrdinal) \ Installed(Len(log))

\* An insert, a delete, or an update, which retires rows and installs as many.
\* Ordinals are allocated before a record is logged, so they come in any order.
Copies(n) == UNION {[at -> Rows] : at \in {at \in SUBSET Unused : Cardinality(at) = n}}
Records ==
    [retire : {{}}, install : Copies(1)]
    \cup UNION {[retire : {rows}, install : {Nowhere} \cup Copies(Cardinality(rows))] :
                  rows \in (SUBSET index.live) \ {{}}}

CommitThreadFree == phase = "up" /\ pending = Nothing /\ saving = Idle

\* A record is acknowledged, and its rows are in the tuple store.
Write ==
    /\ CommitThreadFree /\ Len(log) < MaxLog
    /\ \E record \in Records :
          /\ log' = Append(log, record) /\ pending' = record
          /\ slots' = Written(slots, record)
    /\ UNCHANGED <<phase, index, applied, held, cut, files, saving, skewed>>

\* They are in the index too.
Absorb ==
    /\ phase = "up" /\ pending # Nothing
    /\ index' = Absorbed(index, pending) /\ applied' = Len(log) /\ pending' = Nothing
    /\ UNCHANGED <<phase, slots, held, log, cut, files, saving, skewed>>

\* A query opens.
Resolve ==
    /\ phase = "up" /\ held' = LiveSet(index.live) /\ held' # held
    /\ UNCHANGED <<phase, index, slots, applied, pending, log, cut, files, saving, skewed>>

\* A checkpoint: the index, then the tuple store, five steps each; then the
\* log may be truncated, if every other store was saved.
Checkpoint ==
    /\ CommitThreadFree /\ saving' = [file |-> "index", step |-> 1]
    /\ UNCHANGED <<phase, index, slots, applied, pending, held, log, cut, files, skewed>>
Save ==
    /\ phase = "up" /\ saving # Idle
    /\ files' = [files EXCEPT ![saving.file] = After(@, saving.step, Encoded(saving.file))]
    /\ saving' = CASE saving.step < Len(Steps) -> [saving EXCEPT !.step = @ + 1]
                   [] saving = [file |-> "index", step |-> Len(Steps)] -> [file |-> "tuples", step |-> 1]
                   [] OTHER -> Idle
    /\ cut' \in IF saving' = Idle THEN {cut, applied} ELSE {cut}
    /\ UNCHANGED <<phase, index, slots, applied, pending, held, log, skewed>>
SaveFails ==
    /\ phase = "up" /\ saving # Idle /\ saving' = Idle
    /\ files' = [files EXCEPT ![saving.file] = Abandoned(@)]
    /\ UNCHANGED <<phase, index, slots, applied, pending, held, log, cut, skewed>>

\* The process ends, or the power does.
Kill ==
    /\ phase # "down" /\ phase' = "down"
    /\ index' = EmptyIndex /\ slots' = Nowhere /\ applied' = 0
    /\ pending' = Nothing /\ held' = LiveSet({}) /\ saving' = Idle
    /\ \/ files' = [f \in DOMAIN files |-> Abandoned(files[f])]
       \/ files' \in [index : AfterPowerCut(files.index), tuples : AfterPowerCut(files.tuples)]
    /\ UNCHANGED <<log, cut, skewed>>

\* Both stores are opened; then what the log still has, from the older of the
\* two on, is put into both, record by record.
Recovered(n) == IF n = Len(log) THEN "up" ELSE "replaying"
Later(m, n) == IF m < n THEN n ELSE m
Open ==
    /\ phase = "down"
    /\ LET i == OpenIndex(files.index.entry)
           t == OpenTuples(files.tuples.entry)
       IN  /\ index' = i.store /\ slots' = t.store
           /\ applied' = Later(IF i.lsn < t.lsn THEN i.lsn ELSE t.lsn, cut)
    /\ phase' = Recovered(applied')
    /\ UNCHANGED <<pending, held, log, cut, files, saving, skewed>>
Replay ==
    /\ phase = "replaying"
    /\ applied' = applied + 1
    /\ LET record == log[applied']
           stale == IsStale(index.live, record)
       IN  /\ slots' = IF stale THEN slots ELSE Written(slots, record)
           /\ index' = IF stale THEN index ELSE Absorbed(index, record)
           /\ skewed' = (skewed \/ (stale /\ record.retire \cap index.live # {}))
    /\ phase' = Recovered(applied')
    /\ UNCHANGED <<pending, held, log, cut, files, saving>>

Next == Write \/ Absorb \/ Resolve \/ Checkpoint \/ Save \/ SaveFails \/ Kill \/ Open \/ Replay

Spec == Init /\ [][Next]_vars

-----------------------------------------------------------------------------
(***************************************************************************)
(* What the records say, without postings, tokens or files.  An ordinal is *)
(* never used twice.                                                       *)
(***************************************************************************)
RowTold(o) == log[CHOOSE k \in DOMAIN log : o \in DOMAIN log[k].install].install[o]
RowsOf(ordinals) == [o \in ordinals |-> RowTold(o)]
LiveTold(n) == Installed(n) \ Retired(n)

\* Each thing some row has in a column, with the rows that have it: as the
\* rows say, and as the index's column does.
Filing(c, rows) ==
    [key \in {Term(c, rows[o]) : o \in DOMAIN rows} |-> {o \in DOMAIN rows : Term(c, rows[o]) = key}]
Posted(c, column) ==
    IF Columns[c] = "TEXT" THEN [s \in DOMAIN column.dict |-> Tokens(column, s)] ELSE column.map

\* How two numbers compare: as numbers, the zeroes alike.
Size(x) == IF x.ty = "FLOAT" /\ x.n < 0 THEN x.n + 1 ELSE x.n
Holds(op, x, y) ==
    CASE op = "lt" -> Size(x) < Size(y)
      [] op = "le" -> Size(x) <= Size(y)
      [] op = "gt" -> Size(x) > Size(y)
      [] op = "ge" -> Size(x) >= Size(y)
Same(x, y) == x.s = y.s /\ Size(x) = Size(y)

\* A lookup finds the rows a query may see that have the value, exactly, as
\* the values are read back from the other store, also while a record is in
\* one store and not in the other and when the query is older than the rows
\* retired since; a value of another type or a NaN is refused, not answered
\* with nothing (index.rs, lookup_eq and lookup_range).  Scans, which test
\* the words of the liveness set, and filters, which test the set, see the
\* same rows.
LookupsExact ==
    phase = "up" =>
      /\ \A c \in DOMAIN Columns, x \in Probes :
            LET readable == x.ty = Columns[c] /\ x # NaN
                InColumn(o) == Get(o, <<c>>)[1]
            IN  /\ LookupEq(c, x, held) =
                      IF readable THEN Found({o \in held.live : Same(InColumn(o), x)})
                      ELSE Refused(IF x.ty = Columns[c] THEN "NaNRejected" ELSE "TypeMismatch")
                /\ readable /\ x.ty # "TEXT" =>
                      \A op \in Ops :
                         LookupRange(c, op, x, held) = Found({o \in held.live : Holds(op, InColumn(o), x)})
      /\ \A o \in held.live : Get(o, [c \in DOMAIN Columns |-> c]) = RowTold(o)
      /\ \A o \in 0 .. MaxOrdinal + WordBits : IsLive(held, o) <=> o \in held.live

\* Whenever the process or the power goes, each file is a whole snapshot, the
\* old one or the new (metadata/mod.rs, write_snapshot_atomic), and it is not
\* older than the log reaches back.  What the tuple store has is what the
\* records say, and a row that is live in the index is in it or still in the
\* log.  Unless a replay was skewed, the index has every row of the records up
\* to its LSN under what it has in each column, and live what they leave live,
\* and the tuple store has what they leave live at its own.
Reopens ==
    \A i \in {files.index} \cup AfterPowerCut(files.index),
       t \in {files.tuples} \cup AfterPowerCut(files.tuples) :
        LET ix == OpenIndex(i.entry)
            tu == OpenTuples(t.entry)
            Row == DOMAIN tu.store
        IN  /\ Intact(i.entry.bytes) /\ Intact(t.entry.bytes)
            /\ ix.lsn \in cut .. Len(log) /\ tu.lsn \in cut .. Len(log)
            /\ Row \subseteq Installed(tu.lsn) /\ tu.store = RowsOf(Row)
            /\ ix.store.live \cap Installed(tu.lsn) \subseteq Row
            /\ ~skewed =>
                  /\ ix.store.live = LiveTold(ix.lsn) /\ LiveTold(tu.lsn) \subseteq Row
                  /\ \A c \in DOMAIN Columns :
                        Posted(c, ix.store.columns[c]) = Filing(c, RowsOf(Installed(ix.lsn)))
=============================================================================
