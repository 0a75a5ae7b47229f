---------------------------- MODULE Table_proofs ----------------------------
(***************************************************************************)
(* What Table promises follows from its steps, for any statements and any  *)
(* rows: keys stay unique in every moment a statement may look at, and a   *)
(* version names one row for as long as anybody has it in sight.           *)
(***************************************************************************)
EXTENDS Table, TLAPS

\* What a statement writes is data, and an UPDATE keeps the key.
Wellformed ==
    /\ \A i \in Inputs : Kind(i) = "insert" => Given(i) \in Data
    /\ \A i \in Inputs, d \in Data : Changed(i, d) \in Data /\ KeyOf(Changed(i, d)) = KeyOf(d)

\* Every version in sight was spent.
VersionsSpent ==
    /\ \A r \in table : r.ver \in spent
    /\ \A c \in Callers : \A snap \in call[c].seen : \A r \in snap : r.ver \in spent

IInv == TypeOK /\ VersionsSpent /\ KeysUnique /\ VersionsTell

-----------------------------------------------------------------------------
LEMMA InitIInv == Init => IInv
<1> SUFFICES ASSUME Init PROVE IInv
    OBVIOUS
<1>1. PICK s \in [Callers -> Inputs] :
         call = [c \in Callers |->
                   [input |-> s[c], status |-> "idle", seen |-> {}, answer |-> <<>>, why |-> ""]]
    BY DEF Init
<1>2. TypeOK
    <2>1. spent \in SUBSET Versions
        BY DEF Init, Row
    <2>2. ASSUME NEW c \in Callers PROVE call[c] \in Call
        <3>1. <<>> \in Outcomes
            BY DEF Outcomes
        <3> QED BY <1>1, <3>1 DEF Call, Statuses
    <2> QED BY <1>1, <2>1, <2>2 DEF Init, TypeOK
<1> QED BY <1>1, <1>2 DEF Init, IInv, VersionsSpent, KeysUnique, VersionsTell

\* The steps that leave the table alone only ever add the table of now to
\* what a caller has seen.
LEMMA Looking ==
    ASSUME IInv, TypeOK', UNCHANGED <<table, spent>>,
           \A c \in Callers : call'[c].seen \subseteq call[c].seen \cup {table}
    PROVE  IInv'
<1>1. VersionsSpent'
    BY DEF IInv, VersionsSpent
<1>2. KeysUnique'
    BY DEF IInv, KeysUnique, KeysDiffer
<1>3. VersionsTell'
    <2> SUFFICES ASSUME NEW c \in Callers, NEW snap \in call'[c].seen,
                        NEW r \in snap, NEW t \in table, r.ver = t.ver
                 PROVE  r = t
        BY DEF VersionsTell
    <2>1. CASE snap \in call[c].seen
        BY <2>1 DEF IInv, VersionsTell
    <2>2. CASE snap = table
        BY <2>2 DEF IInv, KeysUnique, KeysDiffer
    <2> QED BY <2>1, <2>2
<1> QED BY <1>1, <1>2, <1>3 DEF IInv

\* The shape of a write: it keeps or copies rows it may touch, spends new
\* versions, and leaves keys apart.
Writes(c) ==
    /\ table' \in SUBSET Row /\ spent' \in SUBSET Versions /\ spent \subseteq spent'
    /\ \A r \in table' : r.ver \in spent'
    /\ \A r \in table' : r \in table \/ r.ver \notin spent
    /\ KeysDiffer(table')

LEMMA InsertionWrites ==
    ASSUME Wellformed, IInv, NEW c \in Callers, Insertion(c) PROVE Writes(c)
<1>1. call[c].input \in Inputs /\ Given(call[c].input) \in Data
    BY DEF IInv, TypeOK, Call, Insertion, Wellformed
<1>2. PICK v \in Versions \ spent :
         /\ table' = table \cup {[ver |-> v, data |-> Given(call[c].input)]}
         /\ spent' = spent \cup {v}
    BY DEF Insertion
<1>3. table' \in SUBSET Row
    BY <1>1, <1>2 DEF IInv, TypeOK, Row
<1>4. KeysDiffer(table')
    BY <1>2 DEF Insertion, IInv, KeysUnique, KeysDiffer, VersionsSpent
<1> QED BY <1>2, <1>3, <1>4 DEF Writes, IInv, TypeOK, VersionsSpent

LEMMA ReplacementWrites ==
    ASSUME Wellformed, IInv, NEW c \in Callers, Replacement(c) PROVE Writes(c)
<1> DEFINE i == call[c].input
<1>1. i \in Inputs /\ table \subseteq Row
    BY DEF IInv, TypeOK, Call
<1>2. PICK old \in SUBSET table : \E v \in [old -> Versions \ spent] :
         /\ \A r, s \in old : r # s => v[r] # v[s]
         /\ table' = (table \ old) \cup {[ver |-> v[r], data |-> Changed(i, r.data)] : r \in old}
         /\ spent' = spent \cup {v[r] : r \in old}
    BY DEF Replacement
<1>3. PICK v \in [old -> Versions \ spent] :
         /\ \A r, s \in old : r # s => v[r] # v[s]
         /\ table' = (table \ old) \cup {[ver |-> v[r], data |-> Changed(i, r.data)] : r \in old}
         /\ spent' = spent \cup {v[r] : r \in old}
    BY <1>2
<1> DEFINE new(r) == [ver |-> v[r], data |-> Changed(i, r.data)]
<1>4. \A r \in old : /\ new(r) \in Row /\ new(r).ver \notin spent /\ new(r).ver \in spent'
                     /\ KeyOf(new(r).data) = KeyOf(r.data)
    BY <1>1, <1>3 DEF Wellformed, Row
<1>5. \A t \in table' : t \in table \ old \/ \E r \in old : t = new(r)
    BY <1>3
<1>6. KeysDiffer(table')
    <2> SUFFICES ASSUME NEW t \in table', NEW u \in table', t # u
                 PROVE  t.ver # u.ver /\ KeyOf(t.data) # KeyOf(u.data)
        BY DEF KeysDiffer
    <2>1. \A r, s \in table : r # s => r.ver # s.ver /\ KeyOf(r.data) # KeyOf(s.data)
        BY DEF IInv, KeysUnique, KeysDiffer
    <2>2. \A r \in table : r.ver \in spent
        BY DEF IInv, VersionsSpent
    <2>3. CASE t \in table \ old /\ u \in table \ old
        BY <2>1, <2>3
    <2>4. ASSUME NEW r \in old, t = new(r), u \in table \ old
          PROVE  t.ver # u.ver /\ KeyOf(t.data) # KeyOf(u.data)
        BY <1>2, <1>4, <2>1, <2>2, <2>4
    <2>5. ASSUME NEW r \in old, u = new(r), t \in table \ old
          PROVE  t.ver # u.ver /\ KeyOf(t.data) # KeyOf(u.data)
        BY <1>2, <1>4, <2>1, <2>2, <2>5
    <2>6. ASSUME NEW r \in old, NEW s \in old, t = new(r), u = new(s)
          PROVE  t.ver # u.ver /\ KeyOf(t.data) # KeyOf(u.data)
        <3>1. r # s
            BY <2>6
        <3>2. t.ver # u.ver
            BY <1>3, <2>6, <3>1
        <3>3. KeyOf(t.data) # KeyOf(u.data)
            BY <1>2, <1>4, <2>1, <2>6, <3>1
        <3> QED BY <3>2, <3>3
    <2> QED BY <1>5, <2>3, <2>4, <2>5, <2>6
<1>7. table' \in SUBSET Row /\ (\A t \in table' : t.ver \in spent' /\ (t \in table \/ t.ver \notin spent))
    BY <1>1, <1>3, <1>4, <1>5 DEF IInv, VersionsSpent
<1>8. spent' \in SUBSET Versions /\ spent \subseteq spent'
    BY <1>3 DEF IInv, TypeOK
<1> QED BY <1>6, <1>7, <1>8 DEF Writes

LEMMA RemovalWrites ==
    ASSUME IInv, NEW c \in Callers, Removal(c) PROVE Writes(c)
<1>1. table' \subseteq table
    BY DEF Removal
<1>2. KeysDiffer(table')
    BY <1>1 DEF IInv, KeysUnique, KeysDiffer
<1> QED BY <1>1, <1>2 DEF Removal, Writes, IInv, TypeOK, VersionsSpent

LEMMA WritesKeep ==
    ASSUME IInv, NEW c \in Callers, Writes(c), call' = Witnessed(c) PROVE IInv'
<1>1. call' \in [Callers -> Call]
    <2> SUFFICES ASSUME NEW d \in Callers PROVE Witnessed(c)[d] \in Call
        BY DEF Witnessed
    <2>1. call[d] \in Call /\ table' \in SUBSET Row
        BY DEF IInv, TypeOK, Writes
    <2>2. (call[d].seen \cup {table'}) \in SUBSET SUBSET Row /\ {} \in SUBSET SUBSET Row
        BY <2>1 DEF Call
    <2>3. "applied" \in Statuses /\ call[d].status \in Statuses
        BY <2>1 DEF Call, Statuses
    <2> QED BY <2>1, <2>2, <2>3 DEF Witnessed, Call
<1>2. \A d \in Callers : call'[d].seen \subseteq call[d].seen \cup {table'}
    BY DEF Witnessed, IInv, TypeOK, Call
<1>3. VersionsSpent'
    BY <1>2 DEF IInv, VersionsSpent, Writes
<1>4. KeysUnique'
    BY <1>2 DEF IInv, KeysUnique, Writes, KeysDiffer
<1>5. VersionsTell'
    <2> SUFFICES ASSUME NEW d \in Callers, NEW snap \in call'[d].seen,
                        NEW r \in snap, NEW t \in table', r.ver = t.ver
                 PROVE  r = t
        BY DEF VersionsTell
    <2>1. CASE snap = table'
        BY <2>1 DEF Writes, KeysDiffer
    <2>2. CASE snap \in call[d].seen
        BY <2>2 DEF IInv, VersionsTell, VersionsSpent, Writes
    <2> QED BY <1>2, <2>1, <2>2
<1> QED BY <1>1, <1>3, <1>4, <1>5 DEF IInv, TypeOK, Writes

\* One caller's record may become any other of its type.
LEMMA CallKept ==
    ASSUME TypeOK, UNCHANGED <<table, spent>>, NEW d \in Callers, NEW r \in Call,
           call' = [call EXCEPT ![d] = r]
    PROVE  TypeOK'
BY DEF TypeOK

LEMMA StepIInv == ASSUME Wellformed, IInv, [Next]_vars PROVE IInv'
<1>1. ASSUME NEW c \in Callers, Begin(c) PROVE IInv'
    <2>1. TypeOK'
        <3> DEFINE r == [call[c] EXCEPT !.status = "open", !.seen = {table}]
        <3>1. TypeOK /\ call[c] \in Call
            BY DEF IInv, TypeOK
        <3>2. {table} \in SUBSET SUBSET Row /\ "open" \in Statuses
            BY <3>1 DEF TypeOK, Statuses
        <3>3. r \in Call
            BY <1>1, <3>1, <3>2 DEF Call
        <3>4. call' = [call EXCEPT ![c] = r]
            BY <1>1, <3>1 DEF Begin
        <3>5. UNCHANGED <<table, spent>>
            BY <1>1 DEF Begin
        <3> HIDE DEF r
        <3> QED BY <3>1, <3>3, <3>4, <3>5, CallKept
    <2> QED BY <1>1, <2>1, Looking DEF Begin, IInv, TypeOK, Call
<1>2. ASSUME NEW c \in Callers, Commit(c) PROVE IInv'
    <2>1. Writes(c)
        BY <1>2, InsertionWrites, ReplacementWrites, RemovalWrites DEF Commit
    <2> QED BY <1>2, <2>1, WritesKeep DEF Commit
<1>3. ASSUME NEW c \in Callers, Acknowledge(c) PROVE IInv'
    <2>1. TypeOK'
        <3> DEFINE r == [call[c] EXCEPT !.status = "done", !.seen = {}]
        <3>1. TypeOK /\ call[c] \in Call
            BY DEF IInv, TypeOK
        <3>2. {} \in SUBSET SUBSET Row /\ "done" \in Statuses
            BY <3>1 DEF TypeOK, Statuses
        <3>3. r \in Call
            BY <1>3, <3>1, <3>2 DEF Call
        <3>4. call' = [call EXCEPT ![c] = r]
            BY <1>3, <3>1 DEF Acknowledge
        <3>5. UNCHANGED <<table, spent>>
            BY <1>3 DEF Acknowledge
        <3> HIDE DEF r
        <3> QED BY <3>1, <3>3, <3>4, <3>5, CallKept
    <2> QED BY <1>3, <2>1, Looking DEF Acknowledge, IInv, TypeOK, Call
<1>4. ASSUME NEW c \in Callers, Answer(c) PROVE IInv'
    <2>1. PICK snap \in call[c].seen : \E a \in Answers(call[c].input, snap) :
             call' = [call EXCEPT ![c].status = "done", ![c].seen = {}, ![c].answer = a]
        BY <1>4 DEF Answer
    <2>2. PICK a \in Answers(call[c].input, snap) :
             call' = [call EXCEPT ![c].status = "done", ![c].seen = {}, ![c].answer = a]
        BY <2>1
    <2>3. a \in Outcomes
        <3>1. call[c].input \in Inputs /\ snap \in SUBSET Row
            BY DEF IInv, TypeOK, Call
        <3> QED BY <2>2, <3>1 DEF Outcomes
    <2>4. TypeOK'
        <3> DEFINE r == [call[c] EXCEPT !.status = "done", !.seen = {}, !.answer = a]
        <3>1. TypeOK /\ call[c] \in Call
            BY DEF IInv, TypeOK
        <3>2. {} \in SUBSET SUBSET Row /\ "done" \in Statuses
            BY <3>1 DEF TypeOK, Statuses
        <3>3. r \in Call
            BY <1>4, <2>2, <2>3, <3>1, <3>2 DEF Call
        <3>4. call' = [call EXCEPT ![c] = r]
            BY <1>4, <2>2, <2>3, <3>1 DEF Answer
        <3>5. UNCHANGED <<table, spent>>
            BY <1>4 DEF Answer
        <3> HIDE DEF r
        <3> QED BY <3>1, <3>3, <3>4, <3>5, CallKept
    <2> QED BY <1>4, <2>2, <2>4, Looking DEF Answer, IInv, TypeOK, Call
<1>5. ASSUME NEW c \in Callers, Fail(c) PROVE IInv'
    <2>1. PICK why \in {"bind", "duplicate", "full", "conflict", "other"} :
             call' = [call EXCEPT ![c].status = "failed", ![c].seen = {}, ![c].why = why]
        BY <1>5 DEF Fail
    <2>2. TypeOK'
        <3> DEFINE r == [call[c] EXCEPT !.status = "failed", !.seen = {}, !.why = why]
        <3>1. TypeOK /\ call[c] \in Call
            BY DEF IInv, TypeOK
        <3>2. {} \in SUBSET SUBSET Row /\ "failed" \in Statuses
            BY <3>1 DEF TypeOK, Statuses
        <3>3. r \in Call
            BY <1>5, <2>1, <3>1, <3>2 DEF Call
        <3>4. call' = [call EXCEPT ![c] = r]
            BY <1>5, <2>1, <3>1 DEF Fail
        <3>5. UNCHANGED <<table, spent>>
            BY <1>5 DEF Fail
        <3> HIDE DEF r
        <3> QED BY <3>1, <3>3, <3>4, <3>5, CallKept
    <2> QED BY <1>5, <2>1, <2>2, Looking DEF Fail, IInv, TypeOK, Call
<1>6. CASE UNCHANGED vars
    BY <1>6 DEF vars, IInv, TypeOK, VersionsSpent, KeysUnique, KeysDiffer, VersionsTell
<1> QED BY <1>1, <1>2, <1>3, <1>4, <1>5, <1>6 DEF Next

LEMMA Always == ASSUME Wellformed PROVE Spec => []IInv
<1>1. IInv /\ [Next]_vars => IInv'
    BY StepIInv
<1> QED BY InitIInv, <1>1, PTL DEF Spec

\* The table, the versions and the calls keep their types.
THEOREM TypeCorrect == ASSUME Wellformed PROVE Spec => []TypeOK
<1>1. IInv => TypeOK
    BY DEF IInv
<1> QED BY Always, <1>1, PTL

\* No two rows share a primary key, in the table or in any moment an answer
\* may still be given from, however the statements are mixed: what Statements
\* implements when the commit thread judges every INSERT (engine/mod.rs,
\* duplicate_key) and the binder keeps SET off the key.
THEOREM UniqueKeys == ASSUME Wellformed PROVE Spec => []KeysUnique
<1>1. IInv => KeysUnique
    BY DEF IInv
<1> QED BY Always, <1>1, PTL

\* A row somebody has seen is either still there as it was or gone: "still
\* there" is enough for an UPDATE to write over it without losing a change.
THEOREM VersionsNameRows == ASSUME Wellformed PROVE Spec => []VersionsTell
<1>1. IInv => VersionsTell
    BY DEF IInv
<1> QED BY Always, <1>1, PTL
=============================================================================
