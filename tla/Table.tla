------------------------------- MODULE Table -------------------------------
(***************************************************************************)
(* What Db::execute (src/src/query.rs) promises about one collection,      *)
(* without programs, snapshots, bitmaps, generations or a log.             *)
(*                                                                         *)
(* The collection is a set of row versions.  A read answers from one       *)
(* moment between its call and its return and does not fail.  A write      *)
(* takes effect at one moment or not at all: an UPDATE on the rows a       *)
(* moment since its call showed it, if every one of them is still there    *)
(* unchanged; a DELETE on those of them that still are; an INSERT if its   *)
(* key is free.                                                            *)
(***************************************************************************)
EXTENDS Naturals

CONSTANTS
    Callers,
    Inputs,             \* statements
    Versions,           \* what tells two versions of a row apart
    Data,               \* what a row holds
    Kind(_),            \* "read", "insert", "update", "delete" or "other"
    KeyOf(_),           \* the primary key of a row's data
    Given(_),           \* the data an INSERT carries
    Matches(_, _),      \* whether a row's data satisfies a statement's WHERE
    Changed(_, _),      \* a row's data under a statement's SET
    Answers(_, _)       \* the right answers of a read of some rows

VARIABLES
    table, \* the rows
    spent, \* versions ever used
    call   \* per caller: its statement, what the table was since the call, the outcome

vars == <<table, spent, call>>

Row == [ver : Versions, data : Data]
Statuses == {"idle", "open", "applied", "done", "failed"}

KeysDiffer(rows) == \A r, s \in rows : r # s => r.ver # s.ver /\ KeyOf(r.data) # KeyOf(s.data)

Init ==
    /\ table \in SUBSET Row /\ KeysDiffer(table)
    /\ spent = {r.ver : r \in table}
    /\ \E s \in [Callers -> Inputs] :
          call = [c \in Callers |->
                     [input |-> s[c], status |-> "idle", seen |-> {}, answer |-> <<>>, why |-> ""]]

\* A call starts, and remembers what the table is from now on.
Begin(c) ==
    /\ call[c].status = "idle"
    /\ call' = [call EXCEPT ![c].status = "open", ![c].seen = {table}]
    /\ UNCHANGED <<table, spent>>

\* Everybody whose call is open sees the new table.
Witnessed(c) ==
    [d \in Callers |->
        [call[d] EXCEPT
            !.status = IF d = c THEN "applied" ELSE @,
            !.seen = IF d = c \/ call[d].status # "open" THEN {} ELSE @ \cup {table'}]]

Insertion(c) ==
    /\ Kind(call[c].input) = "insert"
    /\ \A r \in table : KeyOf(r.data) # KeyOf(Given(call[c].input))
    /\ \E v \in Versions \ spent :
          /\ table' = table \cup {[ver |-> v, data |-> Given(call[c].input)]}
          /\ spent' = spent \cup {v}

Chosen(c, snap) == {r \in snap : Matches(call[c].input, r.data)}

\* Rows changed since the statement looked are not written over: the whole
\* statement looks again instead.
Replacement(c) ==
    /\ Kind(call[c].input) = "update"
    /\ \E snap \in call[c].seen :
          /\ Chosen(c, snap) \subseteq table
          /\ \E v \in [Chosen(c, snap) -> Versions \ spent] :
                /\ \A r, s \in Chosen(c, snap) : r # s => v[r] # v[s]
                /\ table' = (table \ Chosen(c, snap)) \cup
                            {[ver |-> v[r], data |-> Changed(call[c].input, r.data)] :
                                r \in Chosen(c, snap)}
                /\ spent' = spent \cup {v[r] : r \in Chosen(c, snap)}

Removal(c) ==
    /\ Kind(call[c].input) = "delete"
    /\ \E snap \in call[c].seen : table' = table \ Chosen(c, snap)
    /\ UNCHANGED spent

Commit(c) ==
    /\ call[c].status = "open"
    /\ Insertion(c) \/ Replacement(c) \/ Removal(c)
    /\ call' = Witnessed(c)

Acknowledge(c) ==
    /\ call[c].status = "applied" \/ (call[c].status = "open" /\ Kind(call[c].input) = "other")
    /\ call' = [call EXCEPT ![c].status = "done", ![c].seen = {}]
    /\ UNCHANGED <<table, spent>>

Answer(c) ==
    /\ call[c].status = "open" /\ Kind(call[c].input) = "read"
    /\ \E snap \in call[c].seen : \E a \in Answers(call[c].input, snap) :
          call' = [call EXCEPT ![c].status = "done", ![c].seen = {}, ![c].answer = a]
    /\ UNCHANGED <<table, spent>>

\* A statement that means nothing is refused before it is called; a write
\* may fail without effect, and fails as a duplicate only if its key was
\* there.
Fail(c) ==
    /\ \E why \in {"bind", "duplicate", "full", "conflict", "other"} :
          /\ CASE why = "bind" -> call[c].status = "idle"
               [] why = "duplicate" ->
                     /\ call[c].status = "open" /\ Kind(call[c].input) = "insert"
                     /\ \E snap \in call[c].seen : \E r \in snap :
                           KeyOf(r.data) = KeyOf(Given(call[c].input))
               [] why = "full" ->
                     call[c].status = "open" /\ Kind(call[c].input) \in {"insert", "update"}
               [] why = "other" -> call[c].status = "open" /\ Kind(call[c].input) = "other"
               [] why = "conflict" -> call[c].status = "open" /\ Kind(call[c].input) = "update"
          /\ call' = [call EXCEPT ![c].status = "failed", ![c].seen = {}, ![c].why = why]
    /\ UNCHANGED <<table, spent>>

Next ==
    \E c \in Callers : Begin(c) \/ Commit(c) \/ Acknowledge(c) \/ Answer(c) \/ Fail(c)

Spec == Init /\ [][Next]_vars

-----------------------------------------------------------------------------
Outcomes == {<<>>} \cup UNION {Answers(i, rows) : i \in Inputs, rows \in SUBSET Row}
Call ==
    [input : Inputs, status : Statuses, seen : SUBSET SUBSET Row, answer : Outcomes,
     why : {"", "bind", "duplicate", "full", "conflict", "other"}]

\* The types of the table, of the versions and of what a caller holds.
TypeOK ==
    /\ table \in SUBSET Row /\ spent \in SUBSET Versions
    /\ call \in [Callers -> Call]

\* No two rows have one key, now or in any answer a read may still give.
KeysUnique ==
    /\ KeysDiffer(table)
    /\ \A c \in Callers : \A snap \in call[c].seen : KeysDiffer(snap)

\* A version is used once: what a statement once saw under it is what any
\* row under it holds, so that unchanged means what it says.
VersionsTell ==
    \A c \in Callers : \A snap \in call[c].seen : \A r \in snap, s \in table :
        r.ver = s.ver => r = s
=============================================================================
