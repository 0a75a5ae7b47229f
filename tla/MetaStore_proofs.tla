--------------------------- MODULE MetaStore_proofs ---------------------------
(***************************************************************************)
(* Theorems about MetaStore, for every schema, every set of rows, every    *)
(* capacity, every word size and logs of any length.                       *)
(*                                                                         *)
(* The argument: an ordinal is installed by one record at most and retired *)
(* after it, so that what the records say of a row does not depend on the  *)
(* order they are told in, and telling some of them again changes nothing. *)
(* A column then has, under each thing a row has in it, the rows that have *)
(* it: all rows told, also half way through a replay onto stores of        *)
(* different ages, or fewer once a replay was skewed and left rows out.    *)
(* The rows that are live are always among them, and always in the tuple   *)
(* store: a record is put into the tuple store first and left out of both  *)
(* or of none, and the index is saved first, so that a tuple file has what *)
(* is live in any index file it is opened with.  A file is only ever       *)
(* replaced by a flushed one, which decodes to the store it was encoded    *)
(* from.                                                                   *)
(***************************************************************************)
EXTENDS MetaStore, FiniteSetTheorems, WellFoundedInduction, TLAPS

\* A function is one.
IsFcn(f) == f = [x \in DOMAIN f |-> f[x]]

(***************************************************************************)
(* What a column is: its numbers, or its tokens, which number the texts.   *)
(***************************************************************************)
TokensOK(dict, postings) ==
    /\ IsFcn(dict) /\ Len(postings) \in Nat /\ postings = [t \in 1 .. Len(postings) |-> postings[t]]
    /\ \A s \in DOMAIN dict : dict[s] \in 1 .. Len(postings)
    /\ \A s, r \in DOMAIN dict : dict[s] = dict[r] => s = r
    /\ \A t \in 1 .. Len(postings) : \E s \in DOMAIN dict : dict[s] = t
IsColumn(c, column) ==
    /\ column = [map |-> column.map, dict |-> column.dict, postings |-> column.postings]
    /\ IF Columns[c] = "TEXT" THEN column.map = Nowhere /\ TokensOK(column.dict, column.postings)
       ELSE column.dict = Nowhere /\ column.postings = <<>> /\ IsFcn(column.map)

\* An index that has these rows filed.
ColumnOK(c, column, rows) == IsColumn(c, column) /\ Posted(c, column) = Filing(c, rows)
Files(ix, rows) ==
    /\ ix = [columns |-> [c \in DOMAIN Columns |-> ix.columns[c]], live |-> ix.live]
    /\ \A c \in DOMAIN Columns : ColumnOK(c, ix.columns[c], rows)

\* Rows with some more of them, the rows that have a key, and the keys.
Merged(rows, more) ==
    [o \in DOMAIN rows \cup DOMAIN more |-> IF o \in DOMAIN more THEN more[o] ELSE rows[o]]
Agree(rows, more) == \A o \in DOMAIN rows \cap DOMAIN more : rows[o] = more[o]
Having(c, rows, key) == {o \in DOMAIN rows : Term(c, rows[o]) = key}
Keys(c, rows) == {Term(c, rows[o]) : o \in DOMAIN rows}

-----------------------------------------------------------------------------
(***************************************************************************)
(* Filing rows in a column.                                                *)
(***************************************************************************)
(* The rows filed under a key, whether the key is there or not.            *)
LEMMA FilingIs ==
    ASSUME NEW c, NEW rows
    PROVE  /\ Filing(c, rows) = [key \in Keys(c, rows) |-> Having(c, rows, key)]
           /\ DOMAIN Filing(c, rows) = Keys(c, rows)
           /\ \A key : Under(Filing(c, rows), key) = Having(c, rows, key)
<1>1. Filing(c, rows) = [key \in Keys(c, rows) |-> Having(c, rows, key)]
    BY DEF Filing, Keys, Having
<1>2. \A key : key \notin Keys(c, rows) => Having(c, rows, key) = {}
    BY DEF Keys, Having
<1> QED BY <1>1, <1>2 DEF Under

(* More rows: more keys, and more rows under them.                         *)
LEMMA MergedIs ==
    ASSUME NEW c, NEW rows, NEW more, Agree(rows, more)
    PROVE  /\ Keys(c, Merged(rows, more)) = Keys(c, rows) \cup Keys(c, more)
           /\ \A key : Having(c, Merged(rows, more), key) = Having(c, rows, key) \cup Having(c, more, key)
<1> DEFINE m == Merged(rows, more)
<1>1. /\ DOMAIN m = DOMAIN rows \cup DOMAIN more
      /\ \A o \in DOMAIN rows : m[o] = rows[o]
      /\ \A o \in DOMAIN more : m[o] = more[o]
    BY DEF Agree, Merged
<1> HIDE DEF m
<1>2. Keys(c, m) = Keys(c, rows) \cup Keys(c, more)
    BY <1>1 DEF Keys
<1>3. \A key : Having(c, m, key) = Having(c, rows, key) \cup Having(c, more, key)
    BY <1>1 DEF Having
<1> QED BY <1>2, <1>3 DEF m

\* What the rows have in a column, as File computes it.
TermsOf(c, rows) == [o \in DOMAIN rows |-> Term(c, rows[o])]

(* What the rows have is what they are filed under.                        *)
LEMMA TermsAre ==
    ASSUME NEW c, NEW rows
    PROVE  LET terms == TermsOf(c, rows)
           IN  /\ DOMAIN terms = DOMAIN rows
               /\ {terms[o] : o \in DOMAIN terms} = Keys(c, rows)
               /\ \A key : {o \in DOMAIN terms : terms[o] = key} = Having(c, rows, key)
BY DEF TermsOf, Keys, Having

(* FileNumbers files numbers.                                              *)
LEMMA NumbersFiled ==
    ASSUME NEW c, NEW rows, NEW more, Agree(rows, more)
    PROVE  FileNumbers(Filing(c, rows), TermsOf(c, more)) = Filing(c, Merged(rows, more))
<1>1. FileNumbers(Filing(c, rows), TermsOf(c, more)) =
        [key \in Keys(c, rows) \cup Keys(c, more) |-> Having(c, rows, key) \cup Having(c, more, key)]
    BY FilingIs, TermsAre DEF FileNumbers
<1> QED BY <1>1, MergedIs, FilingIs

(* SetToSeq lists a finite set, each element at one place.                 *)
LEMMA ListedOnce ==
    ASSUME NEW S, IsFiniteSet(S), NEW q, q = SetToSeq(S)
    PROVE  /\ Len(q) \in Nat /\ q = [i \in 1 .. Len(q) |-> q[i]]
           /\ \A i \in 1 .. Len(q) : q[i] \in S
           /\ \A i, j \in 1 .. Len(q) : q[i] = q[j] => i = j
           /\ \A s \in S : \E i \in 1 .. Len(q) : q[i] = s
<1>1. Cardinality(S) \in Nat /\ ExistsBijection(1 .. Cardinality(S), S)
    BY FS_CardinalityType
<1> DEFINE n == Cardinality(S)
<1>2. PICK f : f \in Bijection(1 .. n, S)
    BY <1>1 DEF ExistsBijection
<1>3. f \in [1 .. n -> S] /\ IsInjective(f)
    BY <1>2 DEF Bijection, Injection
<1>4. q \in [1 .. n -> S] /\ IsInjective(q)
    BY <1>3 DEF SetToSeq
<1>5. q \in Injection(1 .. n, S)
    BY <1>4 DEF Injection
<1>6. IsFiniteSet(1 .. n) /\ Cardinality(1 .. n) = n
    BY <1>1, FS_Interval
<1>7. q \in Surjection(1 .. n, S)
    BY <1>5, <1>6, FS_Injection
<1>8. \A s \in S : \E i \in 1 .. n : q[i] = s
    BY <1>7 DEF Surjection
<1>9. Len(q) = n
    BY <1>1, <1>4
<1>10. \A i, j \in 1 .. n : q[i] = q[j] => i = j
    BY <1>4 DEF IsInjective
<1> QED BY <1>1, <1>4, <1>8, <1>9, <1>10

(* FileTexts files texts, and numbers the new ones after the old.          *)
LEMMA TextsFiled ==
    ASSUME NEW c, NEW rows, NEW more, Agree(rows, more), IsFiniteSet(DOMAIN more),
           NEW column, column = [map |-> column.map, dict |-> column.dict, postings |-> column.postings],
           TokensOK(column.dict, column.postings),
           [s \in DOMAIN column.dict |-> Tokens(column, s)] = Filing(c, rows),
           NEW to, to = FileTexts(column, TermsOf(c, more))
    PROVE  /\ to = [map |-> column.map, dict |-> to.dict, postings |-> to.postings]
           /\ TokensOK(to.dict, to.postings)
           /\ [s \in DOMAIN to.dict |-> Tokens(to, s)] = Filing(c, Merged(rows, more))
<1> DEFINE terms == TermsOf(c, more)
           new == {terms[o] : o \in DOMAIN terms} \ DOMAIN column.dict
           fresh == SetToSeq(new)
           n == Len(column.postings)
           dict == [s \in DOMAIN column.dict \cup new |->
                      IF s \in new THEN n + CHOOSE i \in DOMAIN fresh : fresh[i] = s
                      ELSE column.dict[s]]
           postings == [t \in 1 .. n + Len(fresh) |->
                           Under(column.postings, t) \cup {o \in DOMAIN terms : dict[terms[o]] = t}]
<1>1. to = [column EXCEPT !.dict = dict, !.postings = postings]
    BY DEF FileTexts
<1>2. to = [map |-> column.map, dict |-> dict, postings |-> postings]
    BY <1>1
<1>3. to.dict = dict /\ to.postings = postings
    BY <1>2
<1>4. /\ DOMAIN terms = DOMAIN more
      /\ {terms[o] : o \in DOMAIN terms} = Keys(c, more)
      /\ \A key : {o \in DOMAIN terms : terms[o] = key} = Having(c, more, key)
    BY TermsAre
<1>5. IsFiniteSet(new)
    <2>1. terms \in Surjection(DOMAIN more, Keys(c, more))
        BY <1>4 DEF Surjection, TermsOf, Keys
    <2>2. IsFiniteSet(Keys(c, more))
        BY <2>1, FS_Surjection
    <2> QED BY <1>4, <2>2, FS_Subset
<1>6. /\ Len(fresh) \in Nat /\ fresh = [i \in 1 .. Len(fresh) |-> fresh[i]]
      /\ \A i \in 1 .. Len(fresh) : fresh[i] \in new
      /\ \A i, j \in 1 .. Len(fresh) : fresh[i] = fresh[j] => i = j
      /\ \A s \in new : \E i \in 1 .. Len(fresh) : fresh[i] = s
    <2>1. PICK S, q : S = new /\ q = fresh /\ q = SetToSeq(S)
        OBVIOUS
    <2>2. IsFiniteSet(S) /\ q = SetToSeq(S)
        BY <1>5, <2>1
    <2>3. /\ Len(q) \in Nat /\ q = [i \in 1 .. Len(q) |-> q[i]]
          /\ \A i \in 1 .. Len(q) : q[i] \in S
          /\ \A i, j \in 1 .. Len(q) : q[i] = q[j] => i = j
          /\ \A s \in S : \E i \in 1 .. Len(q) : q[i] = s
        BY <2>2, ListedOnce
    <2> HIDE DEF new, fresh
    <2> QED BY <2>1, <2>3
<1>7. /\ IsFcn(column.dict) /\ n \in Nat /\ column.postings = [t \in 1 .. n |-> column.postings[t]]
      /\ \A s \in DOMAIN column.dict : column.dict[s] \in 1 .. n
      /\ \A s, r \in DOMAIN column.dict : column.dict[s] = column.dict[r] => s = r
      /\ \A t \in 1 .. n : \E s \in DOMAIN column.dict : column.dict[s] = t
    BY DEF TokensOK
<1>8. /\ DOMAIN column.dict = Keys(c, rows)
      /\ \A s \in DOMAIN column.dict : column.postings[column.dict[s]] = Having(c, rows, s)
    <2>1. DOMAIN column.dict = Keys(c, rows)
        BY FilingIs
    <2>2. \A s \in DOMAIN column.dict : Tokens(column, s) = Having(c, rows, s)
        BY <2>1, FilingIs
    <2> QED BY <2>1, <2>2 DEF Tokens
<1>9. DOMAIN fresh = 1 .. Len(fresh) /\ DOMAIN column.postings = 1 .. n
    BY <1>6, <1>7
<1>10. DOMAIN dict = Keys(c, rows) \cup Keys(c, more) /\ new = Keys(c, more) \ Keys(c, rows)
    BY <1>4, <1>8
<1> DEFINE D == DOMAIN column.dict
           k == Len(fresh)
<1>11. \A s \in D : dict[s] = column.dict[s] /\ dict[s] \in 1 .. n
    BY <1>7
<1> HIDE DEF terms, fresh, k
<1>12. \A i \in 1 .. k : dict[fresh[i]] = n + i
    <2> SUFFICES ASSUME NEW i \in 1 .. k PROVE dict[fresh[i]] = n + i
        OBVIOUS
    <2>1. fresh[i] \in new
        BY <1>6 DEF k
    <2>2. i = CHOOSE j \in DOMAIN fresh : fresh[j] = fresh[i]
        BY <1>6, <1>9 DEF k
    <2> QED BY <2>1, <2>2
<1>13. DOMAIN dict = D \cup new /\ D \cap new = {} /\ IsFcn(dict)
    BY DEF IsFcn
<1> HIDE DEF dict, new, D, n
<1>14. \A s \in new : dict[s] \in n + 1 .. n + k
    BY <1>6, <1>7, <1>12 DEF k
<1>15. \A s \in DOMAIN dict : dict[s] \in 1 .. n + k
    BY <1>6, <1>7, <1>11, <1>13, <1>14 DEF k
<1>16. \A s, r \in DOMAIN dict : dict[s] = dict[r] => s = r
    <2>1. \A s, r \in D : dict[s] = dict[r] => s = r
        BY <1>7, <1>11 DEF D
    <2>2. \A s, r \in new : dict[s] = dict[r] => s = r
        BY <1>6, <1>7, <1>12 DEF k
    <2>3. \A s \in D, r \in new : dict[s] # dict[r]
        BY <1>6, <1>7, <1>11, <1>14 DEF k
    <2> QED BY <1>13, <2>1, <2>2, <2>3
<1>17. \A t \in 1 .. n + k : \E s \in DOMAIN dict : dict[s] = t
    <2>1. \A t \in 1 .. n : \E s \in D : dict[s] = t
        BY <1>7, <1>11 DEF D
    <2>2. \A t \in n + 1 .. n + k : t - n \in 1 .. k /\ n + (t - n) = t
        BY <1>6, <1>7 DEF k
    <2>3. \A t \in n + 1 .. n + k : \E s \in new : dict[s] = t
        BY <2>2, <1>6, <1>12 DEF k
    <2>4. \A t \in 1 .. n + k : t \in 1 .. n \/ t \in n + 1 .. n + k
        BY <1>6, <1>7 DEF k
    <2> QED BY <1>13, <2>1, <2>3, <2>4
<1>18. Len(postings) = n + k /\ n + k \in Nat /\ postings = [t \in 1 .. n + k |-> postings[t]]
    BY <1>6, <1>7 DEF k
<1>19. TokensOK(dict, postings)
    BY <1>13, <1>15, <1>16, <1>17, <1>18 DEF TokensOK
<1>20. \A s \in DOMAIN dict : postings[dict[s]] = Having(c, rows, s) \cup Having(c, more, s)
    <2> SUFFICES ASSUME NEW s \in DOMAIN dict
                 PROVE  postings[dict[s]] = Having(c, rows, s) \cup Having(c, more, s)
        OBVIOUS
    <2>1. postings[dict[s]] = Under(column.postings, dict[s]) \cup {o \in DOMAIN terms : dict[terms[o]] = dict[s]}
        BY <1>15 DEF k
    <2>2. \A o \in DOMAIN terms : terms[o] \in DOMAIN dict
        BY <1>4, <1>10, <1>13
    <2>3. {o \in DOMAIN terms : dict[terms[o]] = dict[s]} = {o \in DOMAIN terms : terms[o] = s}
        BY <2>2, <1>16
    <2>4. {o \in DOMAIN terms : dict[terms[o]] = dict[s]} = Having(c, more, s)
        BY <2>3, <1>4
    <2>5. CASE s \in D
        <3>1. Under(column.postings, dict[s]) = column.postings[column.dict[s]]
            BY <2>5, <1>9, <1>11 DEF Under
        <3> QED BY <2>5, <3>1, <2>1, <2>4, <1>8 DEF D
    <2>6. CASE s \in new
        <3>1. Under(column.postings, dict[s]) = {}
            <4>1. dict[s] \notin 1 .. n
                BY <2>6, <1>14, <1>7, <1>6 DEF k
            <4> QED BY <4>1, <1>9 DEF Under
        <3>2. Having(c, rows, s) = {}
            BY <2>6, <1>10 DEF Having, Keys
        <3> QED BY <3>1, <3>2, <2>1, <2>4
    <2> QED BY <2>5, <2>6, <1>13
<1>21. \A s \in DOMAIN dict : Tokens(to, s) = Having(c, rows, s) \cup Having(c, more, s)
    BY <1>3, <1>20 DEF Tokens
<1>22. DOMAIN dict = Keys(c, Merged(rows, more))
       /\ \A s : Having(c, Merged(rows, more), s) = Having(c, rows, s) \cup Having(c, more, s)
    BY <1>10, MergedIs
<1>23. [s \in DOMAIN dict |-> Tokens(to, s)] = Filing(c, Merged(rows, more))
    <2>1. \A s \in DOMAIN dict : Tokens(to, s) = Having(c, Merged(rows, more), s)
        BY <1>21, <1>22
    <2> QED BY <2>1, <1>22, FilingIs
<1> HIDE DEF postings
<1> QED BY <1>2, <1>3, <1>19, <1>23

(* File files rows in a column of either kind.                             *)
LEMMA ColumnFiled ==
    ASSUME NEW c, NEW rows, NEW more, Agree(rows, more), IsFiniteSet(DOMAIN more),
           NEW column, ColumnOK(c, column, rows), NEW to, to = File(c, column, more)
    PROVE  ColumnOK(c, to, Merged(rows, more))
<1>1. /\ column = [map |-> column.map, dict |-> column.dict, postings |-> column.postings]
      /\ IsColumn(c, column) /\ Posted(c, column) = Filing(c, rows)
    BY DEF ColumnOK, IsColumn
<1>2. CASE Columns[c] = "TEXT"
    <2>1. to = FileTexts(column, TermsOf(c, more))
        BY <1>2 DEF File, TermsOf
    <2>2. /\ column.map = Nowhere /\ TokensOK(column.dict, column.postings)
          /\ [s \in DOMAIN column.dict |-> Tokens(column, s)] = Filing(c, rows)
        BY <1>1, <1>2 DEF IsColumn, Posted
    <2>3. /\ to = [map |-> column.map, dict |-> to.dict, postings |-> to.postings]
          /\ TokensOK(to.dict, to.postings)
          /\ [s \in DOMAIN to.dict |-> Tokens(to, s)] = Filing(c, Merged(rows, more))
        BY <1>1, <2>1, <2>2, TextsFiled
    <2>4. to.map = Nowhere /\ to = [map |-> to.map, dict |-> to.dict, postings |-> to.postings]
        BY <2>2, <2>3
    <2> QED BY <1>2, <2>3, <2>4 DEF ColumnOK, IsColumn, Posted
<1>3. CASE Columns[c] # "TEXT"
    <2>1. to = [column EXCEPT !.map = FileNumbers(@, TermsOf(c, more))]
        BY <1>3 DEF File, TermsOf
    <2>2. column.dict = Nowhere /\ column.postings = <<>> /\ column.map = Filing(c, rows)
        BY <1>1, <1>3 DEF IsColumn, Posted
    <2>3. PICK m : m = FileNumbers(column.map, TermsOf(c, more))
        OBVIOUS
    <2>4. to = [map |-> m, dict |-> column.dict, postings |-> column.postings]
        BY <1>1, <2>1, <2>3
    <2>5. m = Filing(c, Merged(rows, more))
        BY <2>2, <2>3, NumbersFiled
    <2>6. IsFcn(m)
        BY <2>5 DEF Filing, IsFcn
    <2>7. to.map = m /\ to.dict = Nowhere /\ to.postings = <<>>
        BY <2>2, <2>4
    <2>8. to = [map |-> to.map, dict |-> to.dict, postings |-> to.postings]
        BY <2>4
    <2> QED BY <1>3, <2>5, <2>6, <2>7, <2>8 DEF ColumnOK, IsColumn, Posted
<1> QED BY <1>2, <1>3

(* Nothing filed, and nothing to file.                                     *)
LEMMA NothingFiled ==
    ASSUME NEW c
    PROVE  /\ Filing(c, Nowhere) = Nowhere
           /\ ColumnOK(c, EmptyColumn, Nowhere)
<1>1. DOMAIN Nowhere = {}
    BY DEF Nowhere
<1>2. Keys(c, Nowhere) = {}
    BY <1>1 DEF Keys
<1>3. Filing(c, Nowhere) = [key \in {} |-> Having(c, Nowhere, key)]
    BY <1>2, FilingIs
<1>4. Filing(c, Nowhere) = Nowhere
    BY <1>3 DEF Nowhere
<1>5. /\ EmptyColumn.map = Nowhere /\ EmptyColumn.dict = Nowhere /\ EmptyColumn.postings = <<>>
      /\ EmptyColumn = [map |-> EmptyColumn.map, dict |-> EmptyColumn.dict,
                        postings |-> EmptyColumn.postings]
    BY DEF EmptyColumn
<1>6. IsFcn(Nowhere)
    BY DEF Nowhere, IsFcn
<1>7. TokensOK(Nowhere, <<>>)
    <2>1. Len(<<>>) = 0 /\ 1 .. 0 = {} /\ <<>> = [t \in 1 .. 0 |-> <<>>[t]]
        OBVIOUS
    <2> QED BY <1>1, <1>6, <2>1 DEF TokensOK
<1>8. [s \in DOMAIN Nowhere |-> Tokens(EmptyColumn, s)] = Nowhere
    BY <1>1 DEF Nowhere
<1> QED BY <1>4, <1>5, <1>6, <1>7, <1>8 DEF ColumnOK, IsColumn, Posted

(* A record goes into both stores.                                         *)
LEMMA AbsorbedFiles ==
    ASSUME NEW ix, NEW rows, Files(ix, rows), NEW record, Agree(rows, record.install),
           IsFiniteSet(DOMAIN record.install), NEW to, to = Absorbed(ix, record)
    PROVE  /\ Files(to, Merged(rows, record.install))
           /\ to.live = (ix.live \cup DOMAIN record.install) \ record.retire
<1>1. /\ to.columns = [c \in DOMAIN Columns |-> File(c, ix.columns[c], record.install)]
      /\ to.live = (ix.live \cup DOMAIN record.install) \ record.retire
      /\ to = [columns |-> to.columns, live |-> to.live]
    BY DEF Absorbed
<1>2. to = [columns |-> [c \in DOMAIN Columns |-> to.columns[c]], live |-> to.live]
    BY <1>1
<1>3. ASSUME NEW c \in DOMAIN Columns
      PROVE  ColumnOK(c, to.columns[c], Merged(rows, record.install))
    <2>1. PICK column, after, more : column = ix.columns[c] /\ after = to.columns[c]
                                     /\ more = record.install
        OBVIOUS
    <2>2. ColumnOK(c, column, rows) /\ after = File(c, column, more)
        BY <1>1, <2>1 DEF Files
    <2> QED BY <2>1, <2>2, ColumnFiled
<1> QED BY <1>1, <1>2, <1>3 DEF Files

(* The tuple store takes a record's rows, and keeps the others.            *)
LEMMA WrittenIs ==
    ASSUME NEW s, NEW record
    PROVE  Written(s, record) = Merged(s, record.install)
BY DEF Written, Merged

(* An empty index files no row.                                            *)
LEMMA EmptyFiles ==
    Files(EmptyIndex, Nowhere) /\ EmptyIndex.live = {}
<1>1. EmptyIndex.columns = [c \in DOMAIN Columns |-> EmptyColumn] /\ EmptyIndex.live = {}
      /\ EmptyIndex = [columns |-> EmptyIndex.columns, live |-> EmptyIndex.live]
    BY DEF EmptyIndex
<1>2. EmptyIndex = [columns |-> [c \in DOMAIN Columns |-> EmptyIndex.columns[c]],
                    live |-> EmptyIndex.live]
    BY <1>1
<1> QED BY <1>1, <1>2, NothingFiled DEF Files

-----------------------------------------------------------------------------
(***************************************************************************)
(* The codec.                                                              *)
(***************************************************************************)
(* A column that is written is read back.                                  *)
LEMMA BlockReadBack ==
    ASSUME NEW c, NEW column, IsColumn(c, column)
    PROVE  Unblock(c, Block(c, column)) = column
<1>1. column = [map |-> column.map, dict |-> column.dict, postings |-> column.postings]
    BY DEF IsColumn
<1>2. CASE Columns[c] = "TEXT"
    <2>1. column.map = Nowhere /\ TokensOK(column.dict, column.postings)
        BY <1>2 DEF IsColumn
    <2> DEFINE dict == column.dict
               postings == column.postings
               n == Len(postings)
               name(t) == CHOOSE s \in DOMAIN dict : dict[s] = t
               entries == [t \in 1 .. n |-> [key |-> name(t), rows |-> postings[t]]]
    <2>2. /\ IsFcn(dict) /\ n \in Nat /\ postings = [t \in 1 .. n |-> postings[t]]
          /\ \A s \in DOMAIN dict : dict[s] \in 1 .. n
          /\ \A s, r \in DOMAIN dict : dict[s] = dict[r] => s = r
          /\ \A t \in 1 .. n : \E s \in DOMAIN dict : dict[s] = t
        BY <2>1 DEF TokensOK
    <2>3. DOMAIN postings = 1 .. n
        BY <2>2
    <2>4. Block(c, column) = entries
        BY <1>2, <2>3 DEF Block
    <2>5. \A t \in 1 .. n : name(t) \in DOMAIN dict /\ dict[name(t)] = t
        BY <2>2
    <2> HIDE DEF name
    <2>6. DOMAIN entries = 1 .. n /\ \A t \in 1 .. n : entries[t].key = name(t) /\ entries[t].rows = postings[t]
        OBVIOUS
    <2> HIDE DEF entries
    <2>7. {entries[t].key : t \in DOMAIN entries} = DOMAIN dict
        BY <2>2, <2>5, <2>6
    <2>8. \A s \in DOMAIN dict : (CHOOSE t \in DOMAIN entries : entries[t].key = s) = dict[s]
        <3> SUFFICES ASSUME NEW s \in DOMAIN dict
                     PROVE  (CHOOSE t \in DOMAIN entries : entries[t].key = s) = dict[s]
            OBVIOUS
        <3>1. \A t \in 1 .. n : entries[t].key = s <=> t = dict[s]
            BY <2>2, <2>5, <2>6
        <3>2. dict[s] \in 1 .. n
            BY <2>2
        <3> QED BY <2>6, <3>1, <3>2
    <2>9. [s \in {entries[t].key : t \in DOMAIN entries} |->
             CHOOSE t \in DOMAIN entries : entries[t].key = s] = dict
        BY <2>2, <2>7, <2>8 DEF IsFcn
    <2>10. [t \in DOMAIN entries |-> entries[t].rows] = postings
        BY <2>2, <2>6
    <2>11. Unblock(c, entries) = [map |-> Nowhere, dict |-> dict, postings |-> postings]
        BY <1>2, <2>9, <2>10 DEF Unblock
    <2> QED BY <1>1, <2>1, <2>4, <2>11
<1>3. CASE Columns[c] # "TEXT"
    <2>1. column.dict = Nowhere /\ column.postings = <<>> /\ IsFcn(column.map)
        BY <1>3 DEF IsColumn
    <2> DEFINE map == column.map
               entries == {[key |-> k, rows |-> map[k]] : k \in DOMAIN map}
    <2>2. Block(c, column) = entries
        BY <1>3 DEF Block
    <2>3. {e.key : e \in entries} = DOMAIN map
        <3>1. \A e \in entries : e.key \in DOMAIN map
            OBVIOUS
        <3>2. \A k \in DOMAIN map : \E e \in entries : e.key = k
            <4> SUFFICES ASSUME NEW k \in DOMAIN map PROVE \E e \in entries : e.key = k
                OBVIOUS
            <4>1. [key |-> k, rows |-> map[k]] \in entries /\ [key |-> k, rows |-> map[k]].key = k
                OBVIOUS
            <4> QED BY <4>1
        <3> HIDE DEF entries
        <3> QED BY <3>1, <3>2
    <2>4. \A k \in DOMAIN map : (CHOOSE e \in entries : e.key = k).rows = map[k]
        <3> SUFFICES ASSUME NEW k \in DOMAIN map
                     PROVE  (CHOOSE e \in entries : e.key = k).rows = map[k]
            OBVIOUS
        <3>1. PICK got : got = CHOOSE e \in entries : e.key = k
            OBVIOUS
        <3>2. [key |-> k, rows |-> map[k]] \in entries /\ [key |-> k, rows |-> map[k]].key = k
            OBVIOUS
        <3>3. got \in entries /\ got.key = k
            BY <3>1, <3>2
        <3>4. got.rows = map[k]
            BY <3>3
        <3> QED BY <3>1, <3>4
    <2>5. [k \in {e.key : e \in entries} |-> (CHOOSE e \in entries : e.key = k).rows] = map
        BY <2>1, <2>3, <2>4 DEF IsFcn
    <2>6. Unblock(c, entries) = [map |-> map, dict |-> Nowhere, postings |-> <<>>]
        BY <1>3, <2>5 DEF Unblock
    <2> QED BY <1>1, <2>1, <2>2, <2>6
<1> QED BY <1>2, <1>3

(* A sealed body is intact, and its fields are where they were.            *)
LEMMA SealedIsIntact ==
    ASSUME NEW S, NEW body \in Seq(S)
    PROVE  /\ Intact(Sealed(body)) = TRUE
           /\ \A k \in 1 .. Len(body) : Sealed(body)[k] = body[k]
<1> DEFINE crc == [f |-> "crc", v |-> body]
           All == S \cup {crc}
           bytes == Append(body, crc)
<1>1. body \in Seq(All) /\ crc \in All /\ Len(body) \in Nat
    OBVIOUS
<1> HIDE DEF All
<1>2. /\ bytes \in Seq(All) /\ Len(bytes) = Len(body) + 1 /\ bytes[Len(bytes)] = crc
      /\ \A k \in 1 .. Len(body) : bytes[k] = body[k]
    BY <1>1
<1> HIDE DEF bytes
<1>3. bytes # <<>> /\ Last(bytes) = crc
    BY <1>1, <1>2 DEF Last
<1>4. Front(bytes) = body
    <2>1. Front(bytes) = SubSeq(bytes, 1, Len(body))
        BY <1>1, <1>2 DEF Front
    <2>2. Len(SubSeq(bytes, 1, Len(body))) = Len(body)
          /\ \A k \in 1 .. Len(body) : SubSeq(bytes, 1, Len(body))[k] = body[k]
        BY <1>1, <1>2
    <2>3. SubSeq(bytes, 1, Len(body)) \in Seq(All)
        BY <1>1, <1>2
    <2> QED BY <2>1, <2>2, <2>3, <1>1
<1>5. Sealed(body) = bytes
    BY DEF Sealed, bytes
<1> QED BY <1>2, <1>3, <1>4, <1>5 DEF Intact

(* An index that is written is read back, with its LSN.                    *)
LEMMA IndexReadBack ==
    ASSUME NEW ix, NEW rows, Files(ix, rows), NEW n, NEW b, b = EncodeIndex(ix, n)
    PROVE  Intact(b) /\ DecodeIndex(b) = [lsn |-> n, store |-> ix]
<1> DEFINE blocks == [c \in DOMAIN Columns |-> Block(c, ix.columns[c])]
           a1 == [f |-> "magic", v |-> "MET0"]
           a2 == [f |-> "version", v |-> 2]
           a3 == [f |-> "lsn", v |-> n]
           a4 == [f |-> "schema", v |-> Columns]
           a5 == [f |-> "columns", v |-> blocks]
           a6 == [f |-> "live", v |-> ix.live]
           body == <<a1, a2, a3, a4, a5, a6>>
<1>1. b = Sealed(body)
    BY DEF EncodeIndex
<1>2. a3.v = n /\ a5.v = blocks /\ a6.v = ix.live
    OBVIOUS
<1> HIDE DEF a1, a2, a3, a4, a5, a6
<1>3. body \in Seq({a1, a2, a3, a4, a5, a6}) /\ Len(body) = 6
      /\ body[3] = a3 /\ body[5] = a5 /\ body[6] = a6
    OBVIOUS
<1> HIDE DEF body
<1>4. Intact(b) /\ b[3] = a3 /\ b[5] = a5 /\ b[6] = a6
    <2>1. Intact(Sealed(body)) = TRUE /\ \A k \in 1 .. 6 : Sealed(body)[k] = body[k]
        BY <1>3, SealedIsIntact
    <2>2. Intact(b)
        BY <1>1, <2>1, Zenon
    <2> QED BY <1>1, <1>3, <2>1, <2>2
<1>5. \A c \in DOMAIN Columns : Unblock(c, blocks[c]) = ix.columns[c]
    BY BlockReadBack DEF Files, ColumnOK
<1>6. ix = [columns |-> [c \in DOMAIN Columns |-> ix.columns[c]], live |-> ix.live]
    BY DEF Files
<1> HIDE DEF blocks
<1>7. [c \in DOMAIN Columns |-> Unblock(c, b[5].v[c])] = [c \in DOMAIN Columns |-> ix.columns[c]]
    BY <1>2, <1>4, <1>5
<1>8. DecodeIndex(b) = [lsn |-> n, store |-> [columns |-> [c \in DOMAIN Columns |-> ix.columns[c]],
                                              live |-> ix.live]]
    BY <1>2, <1>4, <1>7 DEF DecodeIndex
<1> QED BY <1>4, <1>6, <1>8

(* So is a tuple store.                                                    *)
LEMMA TuplesReadBack ==
    ASSUME NEW s, NEW n, NEW b, b = EncodeTuples(s, n)
    PROVE  Intact(b) /\ DecodeTuples(b) = [lsn |-> n, store |-> s]
<1> DEFINE stored == [schema |-> Columns, slots |-> s]
           a1 == [f |-> "magic", v |-> "TUP0"]
           a2 == [f |-> "version", v |-> 3]
           a3 == [f |-> "lsn", v |-> n]
           a4 == [f |-> "body", v |-> stored]
           body == <<a1, a2, a3, a4>>
<1>1. b = Sealed(body)
    BY DEF EncodeTuples
<1>2. a3.v = n /\ a4.v = stored /\ stored.slots = s
    OBVIOUS
<1> HIDE DEF a1, a2, a3, a4, stored
<1>3. body \in Seq({a1, a2, a3, a4}) /\ Len(body) = 4 /\ body[3] = a3 /\ body[4] = a4
    OBVIOUS
<1> HIDE DEF body
<1>4. Intact(b) /\ b[3] = a3 /\ b[4] = a4
    <2>1. Intact(Sealed(body)) = TRUE /\ \A k \in 1 .. 4 : Sealed(body)[k] = body[k]
        BY <1>3, SealedIsIntact
    <2>2. Intact(b)
        BY <1>1, <2>1, Zenon
    <2> QED BY <1>1, <1>3, <2>1, <2>2
<1> QED BY <1>2, <1>4 DEF DecodeTuples

-----------------------------------------------------------------------------
(***************************************************************************)
(* What the records say.                                                   *)
(***************************************************************************)
RecordSet ==
    [retire : SUBSET (0 .. MaxOrdinal),
     install : UNION {[at -> Rows] : at \in SUBSET (0 .. MaxOrdinal)}]

\* An ordinal is installed once and retired afterwards; once, unless a replay
\* was skewed.
LogInv ==
    /\ log \in Seq(RecordSet)
    /\ \A j, k \in 1 .. Len(log) : j # k => DOMAIN log[j].install \cap DOMAIN log[k].install = {}
    /\ \A k \in 1 .. Len(log) : log[k].retire \subseteq Installed(k - 1)
    /\ ~skewed => \A k \in 1 .. Len(log) : log[k].retire \subseteq LiveTold(k - 1)

\* A liveness set half way through a replay: the rows of the first m records
\* or fewer, the rows not retired by any of those and no row the first n retire.
Alive(live, m, n) ==
    /\ live \subseteq Installed(m) /\ LiveTold(m) \subseteq live
    /\ live \cap Retired(n) = {}

(* A record retires ordinals and gives a row to each it installs.          *)
LEMMA RecordIs ==
    ASSUME NEW r \in RecordSet
    PROVE  /\ r = [retire |-> r.retire, install |-> r.install] /\ r.retire \subseteq 0 .. MaxOrdinal
           /\ DOMAIN r.install \subseteq 0 .. MaxOrdinal /\ IsFcn(r.install)
           /\ IsFiniteSet(DOMAIN r.install)
           /\ \A o \in DOMAIN r.install : r.install[o] \in Rows
<1>1. PICK at \in SUBSET (0 .. MaxOrdinal) : r.install \in [at -> Rows]
    BY DEF RecordSet
<1>2. IsFiniteSet(0 .. MaxOrdinal)
    BY SizesAssumption, FS_Interval
<1>3. IsFiniteSet(at)
    BY <1>2, FS_Subset
<1> QED BY <1>1, <1>3 DEF RecordSet, IsFcn

(* An ordinal is installed, or retired, by one of the records told.        *)
LEMMA ToldIs ==
    ASSUME NEW n
    PROVE  /\ \A o : o \in Installed(n) <=> \E k \in 1 .. n : o \in DOMAIN log[k].install
           /\ \A o : o \in Retired(n) <=> \E k \in 1 .. n : o \in log[k].retire
BY DEF Installed, Retired

(* More records told install and retire more, and only what there is.      *)
LEMMA ToldInBounds ==
    ASSUME LogInv, NEW n \in 0 .. Len(log)
    PROVE  /\ Len(log) \in Nat /\ \A k \in 1 .. Len(log) : log[k] \in RecordSet
           /\ Installed(n) \subseteq 0 .. MaxOrdinal
           /\ Retired(n) \subseteq Installed(n)
           /\ \A m \in 0 .. n : Installed(m) \subseteq Installed(n) /\ Retired(m) \subseteq Retired(n)
<1>1. Len(log) \in Nat /\ \A k \in 1 .. Len(log) : log[k] \in RecordSet
    BY DEF LogInv
<1>2. \A k \in 1 .. n : k \in 1 .. Len(log)
    BY <1>1
<1>3. Installed(n) \subseteq 0 .. MaxOrdinal
    BY <1>1, <1>2, RecordIs, ToldIs
<1>4. \A m \in 0 .. n : Installed(m) \subseteq Installed(n) /\ Retired(m) \subseteq Retired(n)
    <2> SUFFICES ASSUME NEW m \in 0 .. n
                 PROVE  Installed(m) \subseteq Installed(n) /\ Retired(m) \subseteq Retired(n)
        OBVIOUS
    <2>1. \A k \in 1 .. m : k \in 1 .. n
        BY <1>1
    <2> QED BY <2>1, ToldIs
<1>5. Retired(n) \subseteq Installed(n)
    <2> SUFFICES ASSUME NEW o \in Retired(n) PROVE o \in Installed(n)
        OBVIOUS
    <2>1. PICK k \in 1 .. n : o \in log[k].retire
        BY ToldIs
    <2>2. o \in Installed(k - 1)
        BY <1>2, <2>1 DEF LogInv
    <2>3. k - 1 \in 0 .. n
        BY <1>1
    <2> QED BY <1>4, <2>2, <2>3
<1> QED BY <1>1, <1>3, <1>4, <1>5

(* What the log says of a row is what the one record that installs it says.*)
LEMMA RowToldIs ==
    ASSUME LogInv, NEW k \in 1 .. Len(log), NEW o \in DOMAIN log[k].install
    PROVE  RowTold(o) = log[k].install[o]
<1>1. DOMAIN log = 1 .. Len(log)
    BY DEF LogInv
<1>2. \A j \in 1 .. Len(log) : o \in DOMAIN log[j].install => j = k
    BY DEF LogInv
<1>3. (CHOOSE j \in DOMAIN log : o \in DOMAIN log[j].install) = k
    BY <1>1, <1>2
<1> QED BY <1>3 DEF RowTold

(* A record told once more changes nothing, and the next one adds its own. *)
LEMMA ToldLater ==
    ASSUME LogInv, NEW m \in 0 .. Len(log), NEW k \in 1 .. Len(log), k <= m + 1
    PROVE  /\ Later(m, k) \in 0 .. Len(log)
           /\ Installed(Later(m, k)) = Installed(m) \cup DOMAIN log[k].install
           /\ Retired(Later(m, k)) = Retired(m) \cup log[k].retire
<1>1. Len(log) \in Nat /\ Later(m, k) \in 0 .. Len(log)
    BY DEF LogInv, Later
<1>2. \A j : j \in 1 .. Later(m, k) <=> j \in 1 .. m \/ j = k
    BY <1>1 DEF Later
<1>3. Installed(Later(m, k)) = Installed(m) \cup DOMAIN log[k].install
    BY <1>2, ToldIs
<1>4. Retired(Later(m, k)) = Retired(m) \cup log[k].retire
    BY <1>2, ToldIs
<1> QED BY <1>1, <1>3, <1>4

(* The next record is new in all it installs.                              *)
LEMMA NextIsNew ==
    ASSUME LogInv, NEW k \in 1 .. Len(log)
    PROVE  /\ k - 1 \in 0 .. Len(log)
           /\ Installed(k) = Installed(k - 1) \cup DOMAIN log[k].install
           /\ Retired(k) = Retired(k - 1) \cup log[k].retire
           /\ \A m \in 0 .. k - 1 : /\ DOMAIN log[k].install \cap Installed(m) = {}
                                    /\ DOMAIN log[k].install \cap Retired(m) = {}
<1>1. Len(log) \in Nat /\ k - 1 \in 0 .. Len(log) /\ k <= (k - 1) + 1 /\ Later(k - 1, k) = k
    BY DEF LogInv, Later
<1>2. Installed(k) = Installed(k - 1) \cup DOMAIN log[k].install /\ Retired(k) = Retired(k - 1) \cup log[k].retire
    <2>1. PICK m : m = k - 1
        OBVIOUS
    <2>2. Installed(Later(m, k)) = Installed(m) \cup DOMAIN log[k].install
          /\ Retired(Later(m, k)) = Retired(m) \cup log[k].retire
        BY <1>1, <2>1, ToldLater
    <2> QED BY <1>1, <2>1, <2>2
<1>3. ASSUME NEW m \in 0 .. k - 1
      PROVE  DOMAIN log[k].install \cap Installed(m) = {} /\ DOMAIN log[k].install \cap Retired(m) = {}
    <2>1. \A j \in 1 .. m : j \in 1 .. Len(log) /\ j # k
        BY <1>1
    <2>2. DOMAIN log[k].install \cap Installed(m) = {}
        BY <2>1, ToldIs DEF LogInv
    <2>3. m \in 0 .. Len(log)
        BY <1>1
    <2> QED BY <2>2, <2>3, ToldInBounds
<1> QED BY <1>1, <1>2, <1>3

(* Rows the log tells of, with those of one record, are rows it tells of.  *)
LEMMA RowsJoin ==
    ASSUME LogInv, NEW P, NEW k \in 1 .. Len(log)
    PROVE  /\ Agree(RowsOf(P), log[k].install)
           /\ Merged(RowsOf(P), log[k].install) = RowsOf(P \cup DOMAIN log[k].install)
<1>1. DOMAIN RowsOf(P) = P /\ \A o \in P : RowsOf(P)[o] = RowTold(o)
    BY DEF RowsOf
<1>2. \A o \in DOMAIN log[k].install : RowTold(o) = log[k].install[o]
    BY RowToldIs
<1>3. Agree(RowsOf(P), log[k].install)
    BY <1>1, <1>2 DEF Agree
<1>4. Merged(RowsOf(P), log[k].install) = [o \in P \cup DOMAIN log[k].install |-> RowTold(o)]
    BY <1>1, <1>2 DEF Merged
<1> QED BY <1>3, <1>4 DEF RowsOf

(* A liveness set goes through a replay.                                   *)
LEMMA AliveStep ==
    ASSUME LogInv, NEW m \in 0 .. Len(log), NEW n \in 0 .. Len(log) - 1, n <= m,
           NEW live, Alive(live, m, n), NEW k, k = n + 1,
           NEW after, after = (live \cup DOMAIN log[k].install) \ log[k].retire
    PROVE  Alive(after, Later(m, k), k)
<1>1. Len(log) \in Nat /\ k \in 1 .. Len(log) /\ k <= m + 1 /\ n = k - 1 /\ n \in 0 .. k - 1
    BY DEF LogInv
<1>2. /\ Installed(Later(m, k)) = Installed(m) \cup DOMAIN log[k].install
      /\ Retired(Later(m, k)) = Retired(m) \cup log[k].retire
    BY <1>1, ToldLater
<1>3. Retired(k) = Retired(n) \cup log[k].retire /\ DOMAIN log[k].install \cap Retired(n) = {}
    BY <1>1, NextIsNew
<1>4. live \subseteq Installed(m) /\ Installed(m) \ Retired(m) \subseteq live /\ live \cap Retired(n) = {}
    BY DEF Alive, LiveTold
<1>5. after \subseteq Installed(Later(m, k))
    BY <1>2, <1>4
<1>6. LiveTold(Later(m, k)) \subseteq after
    BY <1>2, <1>4 DEF LiveTold
<1>7. after \cap Retired(k) = {}
    BY <1>3, <1>4
<1> QED BY <1>5, <1>6, <1>7 DEF Alive

(* A replay that is through has the liveness set the records add up to.    *)
LEMMA AliveDone ==
    ASSUME NEW n, NEW live
    PROVE  Alive(live, n, n) <=> live = LiveTold(n)
BY DEF Alive, LiveTold

(* Acknowledging a record changes nothing the earlier ones say.            *)
LEMMA LogGrows ==
    ASSUME LogInv, NEW r \in RecordSet, log' = Append(log, r),
           DOMAIN r.install \cap Installed(Len(log)) = {}, NEW n \in 0 .. Len(log)
    PROVE  /\ Installed(n)' = Installed(n) /\ Retired(n)' = Retired(n) /\ LiveTold(n)' = LiveTold(n)
           /\ \A o \in Installed(n) : RowTold(o)' = RowTold(o)
<1>1. /\ Len(log) \in Nat /\ Len(log') = Len(log) + 1 /\ DOMAIN log' = 1 .. Len(log) + 1
      /\ DOMAIN log = 1 .. Len(log) /\ log'[Len(log) + 1] = r
      /\ \A k \in 1 .. Len(log) : log'[k] = log[k]
    BY DEF LogInv
<1>2. \A k \in 1 .. n : k \in 1 .. Len(log)
    BY <1>1
<1>3. Installed(n)' = Installed(n)
    <2>1. \A o : o \in Installed(n)' <=> \E k \in 1 .. n : o \in DOMAIN log'[k].install
        BY DEF Installed
    <2>2. \A k \in 1 .. n : log'[k] = log[k]
        BY <1>1, <1>2
    <2>3. \A o : o \in Installed(n) <=> \E k \in 1 .. n : o \in DOMAIN log[k].install
        BY ToldIs
    <2>4. \A o : o \in Installed(n)' <=> o \in Installed(n)
        BY <2>1, <2>2, <2>3
    <2> QED BY <2>4
<1>4. Retired(n)' = Retired(n)
    <2>1. \A o : o \in Retired(n)' <=> \E k \in 1 .. n : o \in log'[k].retire
        BY DEF Retired
    <2>2. \A k \in 1 .. n : log'[k] = log[k]
        BY <1>1, <1>2
    <2>3. \A o : o \in Retired(n) <=> \E k \in 1 .. n : o \in log[k].retire
        BY ToldIs
    <2>4. \A o : o \in Retired(n)' <=> o \in Retired(n)
        BY <2>1, <2>2, <2>3
    <2> QED BY <2>4
<1>5. \A o \in Installed(n) : RowTold(o)' = RowTold(o)
    <2> SUFFICES ASSUME NEW o \in Installed(n) PROVE RowTold(o)' = RowTold(o)
        OBVIOUS
    <2>1. PICK k \in 1 .. n : o \in DOMAIN log[k].install
        BY ToldIs
    <2>2. k \in 1 .. Len(log) /\ k \in DOMAIN log' /\ log'[k] = log[k]
        BY <1>1, <1>2
    <2>3. o \notin DOMAIN r.install
        BY <2>1, <2>2, ToldIs
    <2>4. \A j \in DOMAIN log' : o \in DOMAIN log'[j].install => j = k
        <3>1. \A j \in 1 .. Len(log) : o \in DOMAIN log[j].install => j = k
            BY <2>1, <2>2 DEF LogInv
        <3>2. \A j \in DOMAIN log' : j \in 1 .. Len(log) \/ j = Len(log) + 1
            BY <1>1
        <3> QED BY <1>1, <2>3, <3>1, <3>2
    <2>5. (CHOOSE j \in DOMAIN log' : o \in DOMAIN log'[j].install) = k
        BY <2>1, <2>2, <2>4
    <2>6. RowTold(o)' = log'[k].install[o]
        BY <2>5 DEF RowTold
    <2> QED BY <2>1, <2>2, <2>6, RowToldIs
<1>6. LiveTold(n)' = LiveTold(n)
    BY <1>3, <1>4 DEF LiveTold
<1> QED BY <1>3, <1>4, <1>5, <1>6

(* A record Write acknowledges is new in all it installs, and retires rows *)
(* that are live.                                                          *)
LEMMA RecordsAre ==
    ASSUME LogInv, index.live \subseteq Installed(Len(log)), NEW r \in Records
    PROVE  /\ r \in RecordSet /\ r # Nothing /\ r.retire \subseteq index.live
           /\ DOMAIN r.install \cap Installed(Len(log)) = {}
<1>1. Installed(Len(log)) \subseteq 0 .. MaxOrdinal
    BY ToldInBounds DEF LogInv
<1>2. Unused \subseteq 0 .. MaxOrdinal /\ Unused \cap Installed(Len(log)) = {}
    BY DEF Unused
<1>3. CASE r \in [retire : {{}}, install : Copies(1)]
    <2>1. r = [retire |-> {}, install |-> r.install] /\ r.install \in Copies(1)
        BY <1>3
    <2>2. PICK at \in SUBSET Unused : Cardinality(at) = 1 /\ r.install \in [at -> Rows]
        BY <2>1 DEF Copies
    <2>3. at \in SUBSET (0 .. MaxOrdinal) /\ at # {}
        BY <1>2, <2>2, FS_EmptySet
    <2>4. r.install \in UNION {[a -> Rows] : a \in SUBSET (0 .. MaxOrdinal)}
        BY <2>2, <2>3
    <2>5. r # Nothing
        <3>1. Nothing.install = Nowhere /\ DOMAIN Nowhere = {} /\ DOMAIN r.install = at
            BY <2>2 DEF Nothing, Nowhere
        <3> QED BY <2>3, <3>1
    <2>6. r \in RecordSet
        BY <2>1, <2>4 DEF RecordSet
    <2>7. r.retire = {} /\ DOMAIN r.install = at
        BY <2>1, <2>2
    <2> QED BY <1>2, <2>2, <2>5, <2>6, <2>7
<1>4. ASSUME NEW rows \in (SUBSET index.live) \ {{}},
             r \in [retire : {rows}, install : {Nowhere} \cup Copies(Cardinality(rows))]
      PROVE  /\ r \in RecordSet /\ r # Nothing /\ r.retire \subseteq index.live
             /\ DOMAIN r.install \cap Installed(Len(log)) = {}
    <2>1. r = [retire |-> rows, install |-> r.install]
          /\ (r.install = Nowhere \/ r.install \in Copies(Cardinality(rows)))
        BY <1>4
    <2>2. PICK at \in SUBSET Unused : r.install \in [at -> Rows]
        <3>1. CASE r.install = Nowhere
            <4>1. Nowhere \in [{} -> Rows]
                BY DEF Nowhere
            <4> QED BY <3>1, <4>1
        <3>2. CASE r.install \in Copies(Cardinality(rows))
            BY <3>2 DEF Copies
        <3> QED BY <2>1, <3>1, <3>2
    <2>3. at \in SUBSET (0 .. MaxOrdinal)
        BY <1>2
    <2>4. r.install \in UNION {[a -> Rows] : a \in SUBSET (0 .. MaxOrdinal)}
        BY <2>2, <2>3
    <2>5. rows \subseteq 0 .. MaxOrdinal
        BY <1>1
    <2>6. r \in RecordSet
        BY <2>1, <2>4, <2>5 DEF RecordSet
    <2>7. r.retire = rows /\ rows # {} /\ Nothing.retire = {}
        BY <2>1 DEF Nothing
    <2> QED BY <1>2, <2>2, <2>6, <2>7
<1> QED BY <1>3, <1>4 DEF Records

(* What the log says once a new record is in it.                           *)
LEMMA LogEndsIn ==
    ASSUME LogInv, NEW r \in RecordSet, log' = Append(log, r),
           DOMAIN r.install \cap Installed(Len(log)) = {}, NEW n, n = Len(log)
    PROVE  /\ Installed(n + 1)' = Installed(n) \cup DOMAIN r.install
           /\ Retired(n + 1)' = Retired(n) \cup r.retire
           /\ \A P \in SUBSET Installed(n) : RowsOf(P \cup DOMAIN r.install)' = Merged(RowsOf(P), r.install)
<1>1. /\ n \in Nat /\ Len(log') = n + 1 /\ DOMAIN log' = 1 .. n + 1 /\ log'[n + 1] = r
      /\ \A k \in 1 .. n : log'[k] = log[k]
    BY DEF LogInv
<1>2. \A k : k \in 1 .. n + 1 <=> k \in 1 .. n \/ k = n + 1
    BY <1>1
<1>3. Installed(n + 1)' = Installed(n) \cup DOMAIN r.install
    <2>1. \A o : o \in Installed(n + 1)' <=> \E k \in 1 .. n + 1 : o \in DOMAIN log'[k].install
        BY DEF Installed
    <2>2. \A o : o \in Installed(n) <=> \E k \in 1 .. n : o \in DOMAIN log[k].install
        BY ToldIs
    <2>3. \A o : o \in Installed(n + 1)' <=> o \in Installed(n) \/ o \in DOMAIN r.install
        BY <1>1, <1>2, <2>1, <2>2
    <2> QED BY <2>3
<1>4. Retired(n + 1)' = Retired(n) \cup r.retire
    <2>1. \A o : o \in Retired(n + 1)' <=> \E k \in 1 .. n + 1 : o \in log'[k].retire
        BY DEF Retired
    <2>2. \A o : o \in Retired(n) <=> \E k \in 1 .. n : o \in log[k].retire
        BY ToldIs
    <2>3. \A o : o \in Retired(n + 1)' <=> o \in Retired(n) \/ o \in r.retire
        BY <1>1, <1>2, <2>1, <2>2
    <2> QED BY <2>3
<1>5. \A o \in Installed(n) : RowTold(o)' = RowTold(o) /\ o \notin DOMAIN r.install
    <2>1. n \in 0 .. Len(log)
        BY <1>1
    <2> QED BY <2>1, LogGrows
<1>6. \A o \in DOMAIN r.install : RowTold(o)' = r.install[o]
    <2> SUFFICES ASSUME NEW o \in DOMAIN r.install PROVE RowTold(o)' = r.install[o]
        OBVIOUS
    <2>1. \A j \in 1 .. n : o \notin DOMAIN log[j].install
        BY ToldIs
    <2>2. \A j \in DOMAIN log' : o \in DOMAIN log'[j].install <=> j = n + 1
        BY <1>1, <2>1
    <2>3. (CHOOSE j \in DOMAIN log' : o \in DOMAIN log'[j].install) = n + 1
        BY <1>1, <2>2
    <2> QED BY <1>1, <2>3 DEF RowTold
<1>7. ASSUME NEW P \in SUBSET Installed(n)
      PROVE  RowsOf(P \cup DOMAIN r.install)' = Merged(RowsOf(P), r.install)
    <2>1. RowsOf(P \cup DOMAIN r.install)' = [o \in P \cup DOMAIN r.install |-> RowTold(o)']
        BY DEF RowsOf
    <2>2. DOMAIN RowsOf(P) = P /\ \A o \in P : RowsOf(P)[o] = RowTold(o)
        BY DEF RowsOf
    <2>3. \A o \in P \cup DOMAIN r.install :
            RowTold(o)' = IF o \in DOMAIN r.install THEN r.install[o] ELSE RowsOf(P)[o]
        BY <1>5, <1>6, <2>2
    <2>4. [o \in P \cup DOMAIN r.install |-> RowTold(o)'] =
          [o \in P \cup DOMAIN r.install |-> IF o \in DOMAIN r.install THEN r.install[o] ELSE RowsOf(P)[o]]
        BY <2>3
    <2>5. Merged(RowsOf(P), r.install) =
          [o \in P \cup DOMAIN r.install |-> IF o \in DOMAIN r.install THEN r.install[o] ELSE RowsOf(P)[o]]
        BY <2>2 DEF Merged
    <2> QED BY <2>1, <2>4, <2>5
<1> QED BY <1>3, <1>4, <1>7

-----------------------------------------------------------------------------
(***************************************************************************)
(* The files.                                                              *)
(***************************************************************************)
IsFile(f) == DOMAIN f = {"entry", "flushed", "tmp"}
Unsynced(bytes) == Content(bytes, FALSE)
Synced(bytes) == Content(bytes, TRUE)

\* What a save has done before each of its steps.
StepOK(file, step, bytes) ==
    /\ step = 2 => file.tmp = Unsynced(<<>>)
    /\ step = 3 => file.tmp = Unsynced(bytes)
    /\ step = 4 => file.tmp = Synced(bytes)
    /\ step = 5 => file.entry = Synced(bytes)

(* The five steps of a save.                                               *)
LEMMA StepsAre ==
    /\ Len(Steps) = 5
    /\ Steps[1] = "create" /\ Steps[2] = "write" /\ Steps[3] = "sync" /\ Steps[4] = "rename"
    /\ Steps[5] = "syncdir"
BY DEF Steps

(* A file's content after a write, and after a flush.                      *)
LEMMA ContentFields ==
    ASSUME NEW b
    PROVE  /\ [Unsynced(<<>>) EXCEPT !.bytes = b] = Unsynced(b)
           /\ [Unsynced(b) EXCEPT !.synced = TRUE] = Synced(b)
<1>1. ASSUME NEW x, NEW y, NEW z
      PROVE  /\ [[there |-> x, bytes |-> y, synced |-> z] EXCEPT !.bytes = b] = [there |-> x, bytes |-> b, synced |-> z]
             /\ [[there |-> x, bytes |-> y, synced |-> z] EXCEPT !.synced = x] = [there |-> x, bytes |-> y, synced |-> x]
    OBVIOUS
<1>2. PICK yes, no : yes = TRUE /\ no = FALSE
    OBVIOUS
<1>3. \A y : /\ Unsynced(y) = [there |-> yes, bytes |-> y, synced |-> no]
            /\ Synced(y) = [there |-> yes, bytes |-> y, synced |-> yes]
    BY <1>2 DEF Unsynced, Synced, Content
<1>4. [Unsynced(<<>>) EXCEPT !.bytes = b] = Unsynced(b)
    BY <1>1, <1>3
<1>5. [Unsynced(b) EXCEPT !.synced = yes] = Synced(b)
    BY <1>1, <1>3
<1> QED BY <1>2, <1>4, <1>5

(* A step of a save, and what it leaves.                                   *)
LEMMA AfterDoes ==
    ASSUME NEW f, IsFile(f), NEW b, NEW s \in 1 .. 5, StepOK(f, s, b), NEW g, g = After(f, s, b)
    PROVE  /\ IsFile(g) /\ StepOK(g, s + 1, b)
           /\ s # 4 => g.entry = f.entry
           /\ s # 5 => g.flushed = f.flushed
           /\ s = 4 => g.entry = Synced(b)
           /\ s = 5 => g.entry = Synced(b) /\ g.flushed = Synced(b)
<1>0. PICK t : t = f.tmp
    OBVIOUS
<1>1. CASE s = 1
    <2>1. g = [f EXCEPT !.tmp = Unsynced(<<>>)]
        BY <1>1, StepsAre DEF After, Unsynced
    <2>2. IsFile(g) /\ g.tmp = Unsynced(<<>>) /\ g.entry = f.entry /\ g.flushed = f.flushed /\ s + 1 = 2
        BY <1>1, <2>1 DEF IsFile
    <2> QED BY <1>1, <2>2 DEF StepOK
<1>2. CASE s = 2
    <2>1. g = [f EXCEPT !.tmp = [t EXCEPT !.bytes = b]]
        BY <1>0, <1>2, StepsAre DEF After
    <2>2. t = Unsynced(<<>>)
        BY <1>0, <1>2 DEF StepOK
    <2>3. [t EXCEPT !.bytes = b] = Unsynced(b)
        BY <2>2, ContentFields
    <2>4. IsFile(g) /\ g.tmp = Unsynced(b) /\ g.entry = f.entry /\ g.flushed = f.flushed /\ s + 1 = 3
        BY <1>2, <2>1, <2>3 DEF IsFile
    <2> QED BY <1>2, <2>4 DEF StepOK
<1>3. CASE s = 3
    <2>1. g = [f EXCEPT !.tmp = [t EXCEPT !.synced = TRUE]]
        BY <1>0, <1>3, StepsAre DEF After
    <2>2. t = Unsynced(b)
        BY <1>0, <1>3 DEF StepOK
    <2>3. [t EXCEPT !.synced = TRUE] = Synced(b)
        BY <2>2, ContentFields
    <2>4. g.tmp = Synced(b) /\ g.entry = f.entry /\ g.flushed = f.flushed
        BY <2>1, <2>3 DEF IsFile
    <2>5. IsFile(g) /\ s + 1 = 4
        BY <1>3, <2>1 DEF IsFile
    <2> QED BY <1>3, <2>4, <2>5 DEF StepOK
<1>4. CASE s = 4
    <2>1. g = [f EXCEPT !.entry = t, !.tmp = Absent]
        BY <1>0, <1>4, StepsAre DEF After
    <2>2. t = Synced(b)
        BY <1>0, <1>4 DEF StepOK
    <2>3. g.entry = t /\ g.flushed = f.flushed
        BY <2>1 DEF IsFile
    <2>4. IsFile(g)
        BY <2>1 DEF IsFile
    <2>5. s + 1 = 5
        BY <1>4
    <2> QED BY <1>4, <2>2, <2>3, <2>4, <2>5 DEF StepOK
<1>5. CASE s = 5
    <2>1. g = [f EXCEPT !.flushed = f.entry]
        BY <1>5, StepsAre DEF After
    <2>2. f.entry = Synced(b)
        BY <1>5 DEF StepOK
    <2>3. IsFile(g) /\ g.entry = f.entry /\ g.flushed = f.entry /\ s + 1 = 6
        BY <1>5, <2>1 DEF IsFile
    <2> QED BY <1>5, <2>2, <2>3 DEF StepOK
<1>6. s = 1 \/ s = 2 \/ s = 3 \/ s = 4 \/ s = 5
    OBVIOUS
<1> QED BY <1>6, <1>1, <1>2, <1>3, <1>4, <1>5

(* What a failed save or the end of the process leaves.                    *)
LEMMA AbandonedIs ==
    ASSUME NEW f, IsFile(f)
    PROVE  IsFile(Abandoned(f)) /\ Abandoned(f).entry = f.entry /\ Abandoned(f).flushed = f.flushed
BY DEF IsFile, Abandoned

(* What a power cut leaves, when what the name leads to was flushed.       *)
LEMMA PowerCutLeaves ==
    ASSUME NEW f, NEW a, NEW b, f.entry = Synced(a), f.flushed = Synced(b),
           NEW left \in AfterPowerCut(f)
    PROVE  IsFile(left) /\ left.entry \in {f.entry, f.flushed} /\ left.flushed = left.entry
<1>1. \A x : Synced(x).synced = TRUE
    BY DEF Synced, Content
<1>2. Survivors(f.flushed) = {f.flushed} /\ Survivors(f.entry) = {f.entry}
    BY <1>1 DEF Survivors
<1>3. PICK x \in Survivors(f.flushed) \cup Survivors(f.entry) :
            left = [entry |-> x, flushed |-> x, tmp |-> Absent]
    BY DEF AfterPowerCut
<1> QED BY <1>2, <1>3 DEF IsFile

-----------------------------------------------------------------------------
(***************************************************************************)
(* The inductive invariant.                                                *)
(***************************************************************************)
\* An index as of record n, which has every row somebody may see, and every
\* row told unless a replay was skewed; and a tuple store as of record n.
IndexAt(ix, n, seen) ==
    \E P \in SUBSET Installed(n) :
        /\ Files(ix, RowsOf(P)) /\ ix.live \cup seen \subseteq P
        /\ ~skewed => P = Installed(n) /\ ix.live = LiveTold(n)
TuplesAt(s, n) ==
    /\ s = RowsOf(DOMAIN s) /\ DOMAIN s \subseteq Installed(n)
    /\ ~skewed => LiveTold(n) \subseteq DOMAIN s

\* What a file may hold.
SavedIndex(x) == \E n \in 0 .. Len(log) : \E ix : x = Synced(EncodeIndex(ix, n)) /\ IndexAt(ix, n, {})
SavedTuples(y) == \E n \in 0 .. Len(log) : \E s : y = Synced(EncodeTuples(s, n)) /\ TuplesAt(s, n)

\* A tuple file is not newer than record n, and has the rows that are live of
\* those it could have.
Backs(y, live, n) ==
    /\ OpenTuples(y).lsn <= n
    /\ live \cap Installed(OpenTuples(y).lsn) \subseteq DOMAIN OpenTuples(y).store

\* The index file and the index file as flushed, and the same of the tuple
\* store: any two that may be opened together fit.
Good(ie, iflush, te, tflush) ==
    /\ SavedIndex(ie) /\ SavedIndex(iflush) /\ SavedTuples(te) /\ SavedTuples(tflush)
    /\ \A x \in {ie, iflush}, y \in {te, tflush} : Backs(y, OpenIndex(x).store.live, OpenIndex(x).lsn)
    /\ OpenTuples(tflush).lsn <= OpenTuples(te).lsn
FileInv ==
    /\ DOMAIN files = {"index", "tuples"} /\ IsFile(files.index) /\ IsFile(files.tuples)
    /\ Good(files.index.entry, files.index.flushed, files.tuples.entry, files.tuples.flushed)
    /\ cut \in Nat /\ cut <= OpenTuples(files.tuples.flushed).lsn

\* A save writes what the stores hold, and the tuple store goes second.
SavingInv ==
    saving # Idle =>
        \E file \in {"index", "tuples"}, step \in 1 .. 5 :
            /\ saving = [file |-> file, step |-> step]
            /\ phase = "up" /\ pending = Nothing
            /\ StepOK(files[file], step, Encoded(file))
            /\ file = "tuples" =>
                  files.index.entry = Synced(Encoded("index")) /\ files.index.flushed = files.index.entry

\* The stores have the records told, save the one the index is behind by.
UpInv ==
    /\ IF pending = Nothing THEN applied = Len(log)
       ELSE /\ Len(log) > 0 /\ applied = Len(log) - 1 /\ pending = log[Len(log)] /\ saving = Idle
            /\ DOMAIN pending.install \subseteq DOMAIN slots
    /\ TuplesAt(slots, Len(log)) /\ IndexAt(index, applied, held.live)
    /\ index.live \cup held.live \subseteq DOMAIN slots

\* A replay onto an index as of record i, n records told.
ReplayAt(i, n, ix, s) ==
    /\ s = RowsOf(DOMAIN s) /\ DOMAIN s \subseteq Installed(n)
    /\ ix.live \cap Installed(n) \subseteq DOMAIN s
    /\ \E P \in SUBSET Installed(Later(i, n)) :
          /\ Files(ix, RowsOf(P)) /\ ix.live \subseteq P
          /\ ~skewed =>
                /\ P = Installed(Later(i, n)) /\ Alive(ix.live, Later(i, n), n)
                /\ LiveTold(n) \subseteq DOMAIN s \cup Retired(Later(i, n))
ReplayInv == applied \in 0 .. Len(log) /\ \E i \in 0 .. Len(log) : ReplayAt(i, applied, index, slots)

MemInv ==
    /\ phase \in {"down", "replaying", "up"} /\ held = LiveSet(held.live)
    /\ phase = "up" => UpInv
    /\ phase = "replaying" => ReplayInv /\ applied < Len(log)
    /\ phase # "up" => pending = Nothing /\ held = LiveSet({}) /\ saving = Idle

\* The tuple file has what the index has, also when the index is saved next.
BackInv ==
    phase # "down" => \A y \in {files.tuples.entry, files.tuples.flushed} : Backs(y, index.live, applied)

Inv == LogInv /\ FileInv /\ SavingInv /\ MemInv /\ BackInv

-----------------------------------------------------------------------------
(***************************************************************************)
(* What is saved is opened.                                                *)
(***************************************************************************)
(* A file that was saved is opened as what was saved in it.                *)
LEMMA SavedOpens ==
    ASSUME NEW n
    PROVE  /\ \A ix, rows : Files(ix, rows) =>
                LET x == Synced(EncodeIndex(ix, n))
                IN  Intact(x.bytes) /\ OpenIndex(x).lsn = n /\ OpenIndex(x).store = ix
           /\ \A s :
                LET y == Synced(EncodeTuples(s, n))
                IN  Intact(y.bytes) /\ OpenTuples(y).lsn = n /\ OpenTuples(y).store = s
<1>1. ASSUME NEW ix, NEW rows, Files(ix, rows), NEW x, x = Synced(EncodeIndex(ix, n))
      PROVE  Intact(x.bytes) /\ OpenIndex(x).lsn = n /\ OpenIndex(x).store = ix
    <2>1. PICK b : b = EncodeIndex(ix, n)
        OBVIOUS
    <2>2. x.bytes = b
        BY <1>1, <2>1 DEF Synced, Content
    <2>3. Intact(b) /\ DecodeIndex(b) = [lsn |-> n, store |-> ix]
        BY <1>1, <2>1, IndexReadBack
    <2>4. OpenIndex(x) = [lsn |-> n, store |-> ix]
        BY <2>2, <2>3 DEF OpenIndex
    <2> QED BY <2>2, <2>3, <2>4
<1>2. ASSUME NEW s, NEW y, y = Synced(EncodeTuples(s, n))
      PROVE  Intact(y.bytes) /\ OpenTuples(y).lsn = n /\ OpenTuples(y).store = s
    <2>1. PICK b : b = EncodeTuples(s, n)
        OBVIOUS
    <2>2. y.bytes = b
        BY <1>2, <2>1 DEF Synced, Content
    <2>3. Intact(b) /\ DecodeTuples(b) = [lsn |-> n, store |-> s]
        BY <2>1, TuplesReadBack
    <2>4. OpenTuples(y) = [lsn |-> n, store |-> s]
        BY <2>2, <2>3 DEF OpenTuples
    <2> QED BY <2>2, <2>3, <2>4
<1> QED BY <1>1, <1>2

(* An index file holds an index as of its LSN.                             *)
LEMMA IndexOpens ==
    ASSUME NEW x, SavedIndex(x)
    PROVE  /\ Intact(x.bytes) /\ \E b : x = Synced(b)
           /\ \E n \in 0 .. Len(log) : OpenIndex(x).lsn = n /\ IndexAt(OpenIndex(x).store, n, {})
<1>1. PICK n \in 0 .. Len(log) : \E ix : x = Synced(EncodeIndex(ix, n)) /\ IndexAt(ix, n, {})
    BY DEF SavedIndex
<1>2. PICK ix : x = Synced(EncodeIndex(ix, n)) /\ IndexAt(ix, n, {})
    BY <1>1
<1>3. \E rows : Files(ix, rows)
    BY <1>2 DEF IndexAt
<1>4. Intact(x.bytes) /\ OpenIndex(x).lsn = n /\ OpenIndex(x).store = ix
    BY <1>2, <1>3, SavedOpens
<1> QED BY <1>2, <1>4

(* And a tuple file a tuple store.                                         *)
LEMMA TuplesOpen ==
    ASSUME NEW y, SavedTuples(y)
    PROVE  /\ Intact(y.bytes) /\ \E b : y = Synced(b)
           /\ \E n \in 0 .. Len(log) : OpenTuples(y).lsn = n /\ TuplesAt(OpenTuples(y).store, n)
<1>1. PICK n \in 0 .. Len(log) : \E s : y = Synced(EncodeTuples(s, n)) /\ TuplesAt(s, n)
    BY DEF SavedTuples
<1>2. PICK s : y = Synced(EncodeTuples(s, n)) /\ TuplesAt(s, n)
    BY <1>1
<1>3. Intact(y.bytes) /\ OpenTuples(y).lsn = n /\ OpenTuples(y).store = s
    BY <1>2, SavedOpens
<1> QED BY <1>2, <1>3

(* Of files that fit, any fit that a crash may leave.                      *)
LEMMA GoodPick ==
    ASSUME NEW a, NEW b, NEW c, NEW d, Good(a, b, c, d),
           NEW e \in {a, b}, NEW f \in {a, b}, NEW g \in {c, d}, NEW h \in {c, d},
           g = h \/ (g = c /\ h = d)
    PROVE  Good(e, f, g, h) /\ OpenTuples(d).lsn <= OpenTuples(h).lsn
<1>1. \A y \in {c, d} : SavedTuples(y)
    BY DEF Good
<1>2. \A y \in {c, d} : OpenTuples(y).lsn \in Int
    BY <1>1, TuplesOpen
<1> QED BY <1>2 DEF Good

-----------------------------------------------------------------------------
(***************************************************************************)
(* What a step keeps that at most adds to the log.                         *)
(***************************************************************************)
LogKept ==
    /\ Len(log) \in Nat /\ Len(log)' \in Nat /\ Len(log) <= Len(log)'
    /\ \A n \in 0 .. Len(log) :
          Installed(n)' = Installed(n) /\ Retired(n)' = Retired(n) /\ LiveTold(n)' = LiveTold(n)
    /\ \A o \in Installed(Len(log)) : RowTold(o)' = RowTold(o)

(* A step that leaves the log alone keeps what it says.                    *)
LEMMA LogSame ==
    ASSUME LogInv, log' = log, skewed => skewed'
    PROVE  /\ LogInv' /\ LogKept /\ Len(log)' = Len(log)
           /\ \A n : Installed(n)' = Installed(n) /\ Retired(n)' = Retired(n) /\ LiveTold(n)' = LiveTold(n)
           /\ \A P : RowsOf(P)' = RowsOf(P)
<1>1. Len(log) \in Nat
    BY DEF LogInv
<1>2. \A n : Installed(n)' = Installed(n) /\ Retired(n)' = Retired(n)
    BY DEF Installed, Retired
<1>3. \A n : LiveTold(n)' = LiveTold(n)
    BY <1>2 DEF LiveTold
<1>4. \A o : RowTold(o)' = RowTold(o)
    BY DEF RowTold
<1>5. \A P : RowsOf(P)' = RowsOf(P)
    BY <1>4 DEF RowsOf
<1>6. LogInv'
    BY <1>2, <1>3 DEF LogInv
<1> QED BY <1>1, <1>2, <1>3, <1>4, <1>5, <1>6 DEF LogKept

(* A store as of a record stays one.                                       *)
LEMMA AtStays ==
    ASSUME LogInv, LogKept, skewed => skewed', NEW n \in 0 .. Len(log)
    PROVE  /\ \A ix, seen : IndexAt(ix, n, seen) => IndexAt(ix, n, seen)'
           /\ \A s : TuplesAt(s, n) => TuplesAt(s, n)'
<1>1. Installed(n)' = Installed(n) /\ LiveTold(n)' = LiveTold(n)
    BY DEF LogKept
<1>2. \A o \in Installed(n) : RowTold(o)' = RowTold(o)
    <2>1. Len(log) \in 0 .. Len(log)
        BY DEF LogKept
    <2>2. Installed(n) \subseteq Installed(Len(log))
        BY <2>1, ToldInBounds
    <2> QED BY <2>2 DEF LogKept
<1>3. ASSUME NEW P \in SUBSET Installed(n) PROVE RowsOf(P)' = RowsOf(P)
    <2>1. RowsOf(P)' = [o \in P |-> RowTold(o)']
        BY DEF RowsOf
    <2> QED BY <1>2, <2>1 DEF RowsOf
<1>4. ASSUME NEW ix, NEW seen, IndexAt(ix, n, seen) PROVE IndexAt(ix, n, seen)'
    <2>1. PICK P \in SUBSET Installed(n) :
              /\ Files(ix, RowsOf(P)) /\ ix.live \cup seen \subseteq P
              /\ ~skewed => P = Installed(n) /\ ix.live = LiveTold(n)
        BY <1>4 DEF IndexAt
    <2>2. Files(ix, RowsOf(P))'
        BY <1>3, <2>1 DEF Files
    <2> QED BY <1>1, <2>1, <2>2 DEF IndexAt
<1>5. ASSUME NEW s, TuplesAt(s, n) PROVE TuplesAt(s, n)'
    <2>1. RowsOf(DOMAIN s)' = RowsOf(DOMAIN s)
        BY <1>3, <1>5 DEF TuplesAt
    <2> QED BY <1>1, <1>5, <2>1 DEF TuplesAt
<1> QED BY <1>4, <1>5

(* A tuple file that has the live rows goes on having them.                *)
LEMMA BacksStays ==
    ASSUME LogKept, NEW y, SavedTuples(y), NEW live, NEW n, Backs(y, live, n)
    PROVE  Backs(y, live, n)'
<1>1. PICK m : m = OpenTuples(y).lsn
    OBVIOUS
<1>2. Installed(m)' = Installed(m)
    BY <1>1, TuplesOpen DEF LogKept
<1> QED BY <1>1, <1>2 DEF Backs

(* Files that fit go on fitting.                                           *)
LEMMA GoodStays ==
    ASSUME LogInv, LogKept, skewed => skewed', NEW a, NEW b, NEW c, NEW d, Good(a, b, c, d)
    PROVE  Good(a, b, c, d)'
<1>1. \A n \in 0 .. Len(log) : n \in 0 .. Len(log)'
    BY DEF LogKept
<1>2. ASSUME NEW x, SavedIndex(x) PROVE SavedIndex(x)'
    BY <1>1, <1>2, AtStays DEF SavedIndex
<1>3. ASSUME NEW y, SavedTuples(y) PROVE SavedTuples(y)'
    BY <1>1, <1>3, AtStays DEF SavedTuples
<1>4. \A y \in {c, d} : SavedTuples(y)
    BY DEF Good
<1>5. \A x \in {a, b}, y \in {c, d} : Backs(y, OpenIndex(x).store.live, OpenIndex(x).lsn)'
    <2> SUFFICES ASSUME NEW x \in {a, b}, NEW y \in {c, d}
                 PROVE  Backs(y, OpenIndex(x).store.live, OpenIndex(x).lsn)'
        OBVIOUS
    <2>1. PICK live, n : live = OpenIndex(x).store.live /\ n = OpenIndex(x).lsn
        OBVIOUS
    <2>2. Backs(y, live, n)
        BY <2>1 DEF Good
    <2>3. Backs(y, live, n)'
        BY <1>4, <2>2, BacksStays
    <2> QED BY <2>1, <2>3
<1> QED BY <1>2, <1>3, <1>5 DEF Good

(* So do the files, when no name leads anywhere it did not lead before.    *)
LEMMA FilesStay ==
    ASSUME LogInv, FileInv, LogKept, skewed => skewed', cut' = cut,
           DOMAIN files' = {"index", "tuples"}, IsFile(files'.index), IsFile(files'.tuples),
           files'.index.entry \in {files.index.entry, files.index.flushed},
           files'.index.flushed \in {files.index.entry, files.index.flushed},
           files'.tuples.entry \in {files.tuples.entry, files.tuples.flushed},
           files'.tuples.flushed \in {files.tuples.entry, files.tuples.flushed},
           \/ files'.tuples.entry = files'.tuples.flushed
           \/ files'.tuples.entry = files.tuples.entry /\ files'.tuples.flushed = files.tuples.flushed
    PROVE  FileInv'
<1>1. PICK a, b, c, d : /\ a = files.index.entry /\ b = files.index.flushed
                        /\ c = files.tuples.entry /\ d = files.tuples.flushed
    OBVIOUS
<1>2. PICK e, f, g, h : /\ e = files'.index.entry /\ f = files'.index.flushed
                        /\ g = files'.tuples.entry /\ h = files'.tuples.flushed
    OBVIOUS
<1>3. /\ e \in {a, b} /\ f \in {a, b} /\ g \in {c, d} /\ h \in {c, d}
      /\ g = h \/ (g = c /\ h = d)
    BY <1>1, <1>2
<1>4. Good(a, b, c, d) /\ cut \in Nat /\ cut <= OpenTuples(d).lsn
    BY <1>1 DEF FileInv
<1>5. Good(e, f, g, h) /\ OpenTuples(d).lsn <= OpenTuples(h).lsn
    BY <1>3, <1>4, GoodPick
<1>6. Good(e, f, g, h)'
    BY <1>5, GoodStays
<1>7. cut <= OpenTuples(h).lsn
    <2>1. SavedTuples(c) /\ SavedTuples(d)
        BY <1>4 DEF Good
    <2>2. OpenTuples(d).lsn \in Int /\ OpenTuples(h).lsn \in Int
        BY <1>3, <2>1, TuplesOpen
    <2> QED BY <1>4, <1>5, <2>2
<1>8. Good(files.index.entry, files.index.flushed, files.tuples.entry, files.tuples.flushed)'
    BY <1>2, <1>6 DEF Good, SavedIndex, SavedTuples, Backs
<1>9. cut' \in Nat /\ cut' <= OpenTuples(files'.tuples.flushed).lsn
    BY <1>2, <1>4, <1>7
<1> QED BY <1>8, <1>9 DEF FileInv

(* A step that leaves the index alone, and the tuple files.                *)
LEMMA BackStays ==
    ASSUME FileInv, BackInv, LogKept, UNCHANGED <<phase, index, applied>>,
           files'.tuples.entry \in {files.tuples.entry, files.tuples.flushed},
           files'.tuples.flushed \in {files.tuples.entry, files.tuples.flushed}
    PROVE  BackInv'
<1> SUFFICES ASSUME phase # "down" PROVE BackInv'
    BY DEF BackInv
<1>1. PICK live, n, g, h : /\ live = index.live /\ n = applied
                           /\ g = files'.tuples.entry /\ h = files'.tuples.flushed
    OBVIOUS
<1>2. Backs(g, live, n) /\ Backs(h, live, n) /\ SavedTuples(g) /\ SavedTuples(h)
    BY <1>1 DEF BackInv, FileInv, Good
<1>3. Backs(g, live, n)' /\ Backs(h, live, n)'
    BY <1>2, BacksStays
<1> QED BY <1>1, <1>3 DEF BackInv, Backs

-----------------------------------------------------------------------------
(***************************************************************************)
(* The invariant holds at the start, and every step keeps it.              *)
(***************************************************************************)
(* A liveness set has the rows it was made from.                           *)
LEMMA LiveSetIs ==
    ASSUME NEW live
    PROVE  LiveSet(live).live = live
BY DEF LiveSet

(* Two empty stores with their files.                                      *)
LEMMA AtFirst == Init => Inv
<1> SUFFICES ASSUME Init PROVE Inv
    OBVIOUS
<1> USE DEF Init
<1>1. Len(log) = 0 /\ log \in Seq(RecordSet) /\ 1 .. Len(log) = {} /\ 0 \in 0 .. Len(log)
    OBVIOUS
<1>2. LogInv
    BY <1>1 DEF LogInv
<1>3. Installed(0) = {} /\ Retired(0) = {} /\ LiveTold(0) = {} /\ RowsOf({}) = Nowhere
    <2>1. 1 .. 0 = {}
        OBVIOUS
    <2>2. Installed(0) = {} /\ Retired(0) = {}
        BY <2>1, ToldIs
    <2> QED BY <2>2 DEF LiveTold, RowsOf, Nowhere
<1>4. PICK e : e = EncodeIndex(EmptyIndex, 0)
    OBVIOUS
<1>5. PICK t : t = EncodeTuples(Nowhere, 0)
    OBVIOUS
<1>6. files = [index |-> Stored(e), tuples |-> Stored(t)]
    BY <1>4, <1>5
<1>7. \A b : IsFile(Stored(b)) /\ Stored(b).entry = Synced(b) /\ Stored(b).flushed = Synced(b)
    BY DEF Stored, IsFile, Synced
<1>8. /\ DOMAIN files = {"index", "tuples"} /\ IsFile(files.index) /\ IsFile(files.tuples)
      /\ files.index.entry = Synced(e) /\ files.index.flushed = Synced(e)
      /\ files.tuples.entry = Synced(t) /\ files.tuples.flushed = Synced(t)
    BY <1>6, <1>7
<1>9. Files(EmptyIndex, Nowhere) /\ EmptyIndex.live = {} /\ DOMAIN Nowhere = {}
    BY EmptyFiles DEF Nowhere
<1>10. IndexAt(EmptyIndex, 0, {}) /\ TuplesAt(Nowhere, 0)
    BY <1>3, <1>9 DEF IndexAt, TuplesAt
<1>11. SavedIndex(Synced(e)) /\ SavedTuples(Synced(t))
    BY <1>1, <1>4, <1>5, <1>10 DEF SavedIndex, SavedTuples
<1>12. PICK x, y : x = Synced(e) /\ y = Synced(t)
    OBVIOUS
<1>13. /\ OpenIndex(x).lsn = 0 /\ OpenIndex(x).store = EmptyIndex
       /\ OpenTuples(y).lsn = 0 /\ OpenTuples(y).store = Nowhere
    BY <1>4, <1>5, <1>9, <1>12, SavedOpens
<1>14. Backs(y, EmptyIndex.live, 0)
    BY <1>9, <1>13 DEF Backs
<1>15. FileInv
    <2>1. Good(x, x, y, y)
        BY <1>11, <1>12, <1>13, <1>14 DEF Good
    <2> QED BY <2>1, <1>8, <1>12, <1>13 DEF FileInv
<1>16. SavingInv
    BY DEF SavingInv
<1>17. held.live = {} /\ held = LiveSet(held.live)
    BY LiveSetIs
<1>18. UpInv
    BY <1>1, <1>9, <1>10, <1>17 DEF UpInv
<1>19. MemInv
    BY <1>17, <1>18 DEF MemInv
<1>20. BackInv
    BY <1>8, <1>12, <1>14 DEF BackInv
<1> QED BY <1>2, <1>15, <1>16, <1>19, <1>20 DEF Inv

(* The index as of its LSN, by whatever name.                              *)
LEMMA IndexIsAt ==
    ASSUME NEW ix, NEW n, NEW seen, IndexAt(ix, n, seen)',
           index' = ix, applied' = n, held'.live = seen
    PROVE  IndexAt(index, applied, held.live)'
<1>1. PICK P \in SUBSET Installed(n)' :
          /\ Files(ix, RowsOf(P))' /\ ix.live \cup seen \subseteq P
          /\ ~skewed' => P = Installed(n)' /\ ix.live = LiveTold(n)'
    BY DEF IndexAt
<1>2. Installed(applied)' = Installed(n)' /\ LiveTold(applied)' = LiveTold(n)'
    BY DEF Installed, LiveTold, Retired
<1>3. Files(index, RowsOf(P))'
    BY <1>1 DEF Files
<1> QED BY <1>1, <1>2, <1>3 DEF IndexAt

(* The commit thread puts a record in the log and the tuple store.         *)
LEMMA WriteStep == Inv /\ Write => Inv'
<1> SUFFICES ASSUME Inv, Write PROVE Inv'
    OBVIOUS
<1> USE DEF Inv
<1>1. phase = "up" /\ pending = Nothing /\ saving = Idle /\ UpInv
    BY DEF Write, CommitThreadFree, MemInv
<1>2. PICK r \in Records : log' = Append(log, r) /\ pending' = r /\ slots' = Written(slots, r)
    BY DEF Write
<1>3. UNCHANGED <<phase, index, applied, held, cut, files, saving, skewed>>
    BY DEF Write
<1>4. PICK n, ix, s, seen : n = Len(log) /\ ix = index /\ s = slots /\ seen = held.live
    OBVIOUS
<1>5. /\ n \in Nat /\ n \in 0 .. Len(log) /\ applied = n /\ TuplesAt(s, n) /\ IndexAt(ix, n, seen)
      /\ ix.live \cup seen \subseteq DOMAIN s
    BY <1>1, <1>4 DEF UpInv, LogInv
<1>6. /\ index.live \subseteq Installed(Len(log))
      /\ ~skewed => index.live = LiveTold(n)
    BY <1>4, <1>5 DEF IndexAt
<1>7. /\ r \in RecordSet /\ r # Nothing /\ r.retire \subseteq index.live
      /\ DOMAIN r.install \cap Installed(Len(log)) = {}
    BY <1>2, <1>6, RecordsAre
<1>8. /\ Len(log') = n + 1 /\ log' \in Seq(RecordSet) /\ log'[n + 1] = r
      /\ \A k \in 1 .. n : log'[k] = log[k]
      /\ \A k : k \in 1 .. n + 1 <=> k \in 1 .. n \/ k = n + 1
    BY <1>2, <1>4, <1>5, <1>7 DEF LogInv
<1>9. \A m \in 0 .. n : /\ Installed(m)' = Installed(m) /\ Retired(m)' = Retired(m)
                        /\ LiveTold(m)' = LiveTold(m)
                        /\ \A o \in Installed(m) : RowTold(o)' = RowTold(o)
    BY <1>2, <1>4, <1>7, LogGrows
<1>10. LogKept
    BY <1>4, <1>5, <1>8, <1>9 DEF LogKept
<1>11. LogInv'
    <2>1. \A j \in 1 .. n : DOMAIN log[j].install \cap DOMAIN r.install = {}
        BY <1>4, <1>7, ToldIs
    <2>2. \A j, k \in 1 .. n + 1 : j # k => DOMAIN log'[j].install \cap DOMAIN log'[k].install = {}
        BY <1>4, <1>8, <2>1 DEF LogInv
    <2>3. ASSUME NEW k \in 1 .. n + 1
          PROVE  /\ log'[k].retire \subseteq Installed(k - 1)'
                 /\ ~skewed' => log'[k].retire \subseteq LiveTold(k - 1)'
        <3>1. PICK m : m = k - 1
            OBVIOUS
        <3>2. m \in 0 .. n /\ (k \in 1 .. n \/ (k = n + 1 /\ m = n))
            BY <1>5, <3>1
        <3>3. Installed(m)' = Installed(m) /\ LiveTold(m)' = LiveTold(m)
            BY <1>9, <3>2
        <3>4. log'[k].retire \subseteq Installed(m) /\ (~skewed => log'[k].retire \subseteq LiveTold(m))
            <4>1. CASE k \in 1 .. n
                BY <4>1, <1>4, <1>8, <3>1 DEF LogInv
            <4>2. CASE k = n + 1 /\ m = n
                BY <4>2, <1>4, <1>6, <1>7, <1>8
            <4> QED BY <3>2, <4>1, <4>2
        <3>5. Installed(k - 1)' = Installed(m)' /\ LiveTold(k - 1)' = LiveTold(m)'
            BY <3>1 DEF Installed, LiveTold, Retired
        <3> QED BY <1>3, <3>3, <3>4, <3>5
    <2> QED BY <1>8, <2>2, <2>3 DEF LogInv
<1>12. FileInv'
    BY <1>3, <1>10, FilesStay DEF FileInv
<1>13. /\ Installed(n + 1)' = Installed(n) \cup DOMAIN r.install
       /\ Retired(n + 1)' = Retired(n) \cup r.retire
       /\ \A P \in SUBSET Installed(n) : RowsOf(P \cup DOMAIN r.install)' = Merged(RowsOf(P), r.install)
    BY <1>2, <1>4, <1>7, LogEndsIn
<1>14. PICK to, D : to = slots' /\ D = DOMAIN s \cup DOMAIN r.install
    OBVIOUS
<1>15. to = RowsOf(D)' /\ DOMAIN to = D
    <2>1. to = Merged(s, r.install)
        BY <1>2, <1>4, <1>14, WrittenIs
    <2>2. PICK P : P = DOMAIN s
        OBVIOUS
    <2>3. P \in SUBSET Installed(n) /\ s = RowsOf(P)
        BY <1>5, <2>2 DEF TuplesAt
    <2>4. RowsOf(P \cup DOMAIN r.install)' = Merged(s, r.install)
        BY <1>13, <2>3
    <2>5. DOMAIN Merged(s, r.install) = D
        BY <1>14 DEF Merged
    <2>6. RowsOf(D)' = RowsOf(P \cup DOMAIN r.install)'
        BY <1>14, <2>2 DEF RowsOf
    <2> QED BY <2>1, <2>4, <2>5, <2>6
<1>16. TuplesAt(to, n + 1)'
    <2>1. to = RowsOf(DOMAIN to)'
        BY <1>15 DEF RowsOf
    <2>2. DOMAIN to \subseteq Installed(n + 1)'
        BY <1>5, <1>13, <1>14, <1>15 DEF TuplesAt
    <2>3. ~skewed' => LiveTold(n + 1)' \subseteq DOMAIN to
        <3>1. LiveTold(n + 1)' = (Installed(n) \cup DOMAIN r.install) \ (Retired(n) \cup r.retire)
            BY <1>13 DEF LiveTold
        <3>2. ~skewed => Installed(n) \ Retired(n) \subseteq DOMAIN s
            BY <1>5 DEF TuplesAt, LiveTold
        <3> QED BY <1>3, <1>14, <1>15, <3>1, <3>2
    <2> QED BY <2>1, <2>2, <2>3 DEF TuplesAt
<1>17. IndexAt(ix, n, seen)'
    BY <1>3, <1>5, <1>10, AtStays
<1>18. UpInv'
    <2>1. TuplesAt(slots, Len(log))'
        BY <1>8, <1>14, <1>16 DEF TuplesAt, RowsOf, Installed, LiveTold, Retired
    <2>2. IndexAt(index, applied, held.live)'
        BY <1>3, <1>4, <1>5, <1>17, IndexIsAt
    <2>3. Len(log)' > 0 /\ applied' = Len(log)' - 1 /\ pending' = log'[Len(log')]
        BY <1>2, <1>3, <1>5, <1>8
    <2>4. DOMAIN pending'.install \subseteq DOMAIN slots' /\ index'.live \cup held'.live \subseteq DOMAIN slots'
        BY <1>2, <1>3, <1>4, <1>5, <1>14, <1>15
    <2>5. pending' # Nothing /\ saving' = Idle
        BY <1>1, <1>2, <1>3, <1>7
    <2> QED BY <2>1, <2>2, <2>3, <2>4, <2>5 DEF UpInv
<1>19. SavingInv'
    BY <1>1, <1>3 DEF SavingInv
<1>20. MemInv'
    BY <1>1, <1>3, <1>18 DEF MemInv
<1>21. BackInv'
    BY <1>3, <1>10, BackStays
<1> QED BY <1>11, <1>12, <1>19, <1>20, <1>21

(* The index gets the record the tuple store has.                          *)
LEMMA AbsorbStep == Inv /\ Absorb => Inv'
<1> SUFFICES ASSUME Inv, Absorb PROVE Inv'
    OBVIOUS
<1> USE DEF Inv
<1>1. /\ phase = "up" /\ pending # Nothing /\ UpInv
      /\ index' = Absorbed(index, pending) /\ applied' = Len(log) /\ pending' = Nothing
      /\ UNCHANGED <<phase, slots, held, log, cut, files, saving, skewed>>
    BY DEF Absorb, MemInv
<1>2. PICK n, m : n = Len(log) /\ m = n - 1
    OBVIOUS
<1>3. PICK r, ix, to, seen : r = log[n] /\ ix = index /\ to = index' /\ seen = held.live
    OBVIOUS
<1>4. /\ n \in Nat /\ n > 0 /\ n \in 1 .. Len(log) /\ m \in 0 .. n - 1 /\ applied = m
      /\ r = pending /\ saving = Idle /\ DOMAIN r.install \subseteq DOMAIN slots
    BY <1>1, <1>2, <1>3 DEF UpInv, LogInv
<1>5. TuplesAt(slots, n) /\ IndexAt(ix, m, seen) /\ ix.live \cup seen \subseteq DOMAIN slots
    BY <1>1, <1>2, <1>3, <1>4 DEF UpInv
<1>6. /\ r \in RecordSet /\ IsFiniteSet(DOMAIN r.install)
      /\ Installed(n) = Installed(m) \cup DOMAIN r.install
      /\ \A k \in 0 .. m : DOMAIN r.install \cap Installed(k) = {}
    <2>1. \A k \in 1 .. Len(log) : log[k] \in RecordSet
        BY DEF LogInv
    <2>2. r \in RecordSet
        BY <1>3, <1>4, <2>1
    <2> QED BY <2>2, <1>2, <1>3, <1>4, RecordIs, NextIsNew
<1>7. PICK P \in SUBSET Installed(m) :
         /\ Files(ix, RowsOf(P)) /\ ix.live \cup seen \subseteq P
         /\ ~skewed => P = Installed(m) /\ ix.live = LiveTold(m)
    BY <1>5 DEF IndexAt
<1>8. PICK Q, rows : Q = P \cup DOMAIN r.install /\ rows = RowsOf(P)
    OBVIOUS
<1>9. Agree(rows, r.install) /\ Merged(rows, r.install) = RowsOf(Q)
    BY <1>3, <1>4, <1>8, RowsJoin
<1>10. Files(to, RowsOf(Q)) /\ to.live = (ix.live \cup DOMAIN r.install) \ r.retire
    <2>1. Files(ix, rows) /\ to = Absorbed(ix, r)
        BY <1>1, <1>3, <1>4, <1>7, <1>8
    <2> QED BY <1>6, <1>9, <2>1, AbsorbedFiles
<1>11. ~skewed => to.live = LiveTold(n)
    <2> SUFFICES ASSUME ~skewed PROVE to.live = LiveTold(n)
        OBVIOUS
    <2>1. PICK live, after : live = ix.live /\ after = to.live
        OBVIOUS
    <2>2. Alive(live, m, m) /\ after = (live \cup DOMAIN log[n].install) \ log[n].retire
        BY <1>3, <1>7, <1>10, <2>1, AliveDone
    <2>3. m \in 0 .. Len(log) - 1 /\ m \in 0 .. Len(log) /\ n = m + 1 /\ m <= m /\ Later(m, n) = n
        BY <1>2, <1>4 DEF Later
    <2>4. Alive(after, Later(m, n), n)
        BY <2>2, <2>3, AliveStep
    <2> QED BY <2>1, <2>3, <2>4, AliveDone
<1>12. IndexAt(to, n, seen)
    BY <1>6, <1>7, <1>8, <1>10, <1>11 DEF IndexAt
<1>13. /\ LogInv' /\ LogKept /\ Len(log)' = n
       /\ \A k : Installed(k)' = Installed(k) /\ Retired(k)' = Retired(k) /\ LiveTold(k)' = LiveTold(k)
       /\ \A S : RowsOf(S)' = RowsOf(S)
    BY <1>1, <1>2, LogSame
<1>14. UpInv'
    <2>1. IndexAt(to, n, seen)'
        BY <1>1, <1>2, <1>4, <1>12, <1>13, AtStays
    <2>2. IndexAt(index, applied, held.live)'
        BY <1>1, <1>2, <1>3, <2>1, IndexIsAt
    <2>3. TuplesAt(slots, Len(log))'
        BY <1>1, <1>2, <1>5 DEF TuplesAt, RowsOf, RowTold, Installed, LiveTold, Retired
    <2>4. index'.live \cup held'.live \subseteq DOMAIN slots'
        BY <1>1, <1>3, <1>4, <1>5, <1>10
    <2>5. applied' = Len(log)' /\ pending' = Nothing
        BY <1>1
    <2> QED BY <2>2, <2>3, <2>4, <2>5 DEF UpInv
<1>15. FileInv'
    BY <1>1, <1>13, FilesStay DEF FileInv
<1>16. SavingInv'
    BY <1>1, <1>4 DEF SavingInv
<1>17. MemInv'
    BY <1>1, <1>14 DEF MemInv
<1>18. BackInv'
    <2>1. ASSUME NEW y \in {files.tuples.entry, files.tuples.flushed} PROVE Backs(y, to.live, n)'
        <3>1. Backs(y, ix.live, m) /\ SavedTuples(y)
            BY <1>1, <1>3, <1>4 DEF BackInv, FileInv, Good
        <3>2. PICK k : k = OpenTuples(y).lsn
            OBVIOUS
        <3>3. k \in 0 .. m /\ k <= n
            <4>1. k \in 0 .. Len(log)
                BY <3>1, <3>2, TuplesOpen
            <4> QED BY <4>1, <1>2, <1>4, <3>1, <3>2 DEF Backs
        <3>4. to.live \cap Installed(k) \subseteq DOMAIN OpenTuples(y).store
            BY <1>6, <1>10, <3>1, <3>2, <3>3 DEF Backs
        <3>5. Backs(y, to.live, n)
            BY <3>2, <3>3, <3>4 DEF Backs
        <3>6. PICK live : live = to.live
            OBVIOUS
        <3>7. Backs(y, live, n)'
            BY <1>13, <3>1, <3>5, <3>6, BacksStays
        <3> QED BY <3>6, <3>7
    <2> QED BY <2>1, <1>1, <1>2, <1>3 DEF BackInv, Backs
<1> QED BY <1>13, <1>15, <1>16, <1>17, <1>18

(* A query takes a liveness set.                                           *)
LEMMA ResolveStep == Inv /\ Resolve => Inv'
<1> SUFFICES ASSUME Inv, Resolve PROVE Inv'
    OBVIOUS
<1> USE DEF Inv
<1>1. /\ phase = "up" /\ UpInv /\ held' = LiveSet(index.live)
      /\ UNCHANGED <<phase, index, slots, applied, pending, log, cut, files, saving, skewed>>
    BY DEF Resolve, MemInv
<1>2. LogInv' /\ LogKept /\ Len(log)' = Len(log)
    BY <1>1, LogSame
<1>3. FileInv'
    BY <1>1, <1>2, FilesStay DEF FileInv
<1>4. SavingInv'
    BY <1>1 DEF SavingInv, Encoded
<1>5. held'.live = index.live
    BY <1>1, LiveSetIs
<1>6. PICK ix, n, seen : ix = index /\ n = applied /\ seen = index.live
    OBVIOUS
<1>7. IndexAt(ix, n, seen)'
    <2>1. n \in 0 .. Len(log)
        BY <1>1, <1>6 DEF UpInv, LogInv
    <2>2. IndexAt(ix, n, seen)
        BY <1>1, <1>6 DEF UpInv, IndexAt
    <2> QED BY <1>1, <1>2, <2>1, <2>2, AtStays
<1>8. UpInv'
    <2>1. IndexAt(index, applied, held.live)'
        BY <1>1, <1>5, <1>6, <1>7, IndexIsAt
    <2>2. TuplesAt(slots, Len(log))'
        BY <1>1 DEF UpInv, TuplesAt, RowsOf, RowTold, Installed, LiveTold, Retired
    <2> QED BY <1>1, <1>5, <2>1, <2>2 DEF UpInv
<1>9. MemInv'
    BY <1>1, <1>5, <1>8 DEF MemInv
<1>10. BackInv'
    BY <1>1, <1>2, BackStays
<1> QED BY <1>2, <1>3, <1>4, <1>9, <1>10

(* What a step keeps that leaves memory and the log alone.                 *)
LEMMA UpStays ==
    ASSUME LogInv, UpInv, pending = Nothing,
           UNCHANGED <<index, slots, applied, pending, held, log, skewed>>
    PROVE  UpInv'
<1>1. LogKept
    BY LogSame
<1>2. PICK ix, n, seen : ix = index /\ n = applied /\ seen = held.live
    OBVIOUS
<1>3. n \in 0 .. Len(log) /\ IndexAt(ix, n, seen)
    BY <1>2 DEF UpInv, LogInv
<1>4. IndexAt(ix, n, seen)'
    BY <1>1, <1>3, AtStays
<1>5. IndexAt(index, applied, held.live)'
    BY <1>2, <1>4, IndexIsAt
<1>6. TuplesAt(slots, Len(log))'
    BY DEF UpInv, TuplesAt, RowsOf, RowTold, Installed, LiveTold, Retired
<1> QED BY <1>5, <1>6 DEF UpInv

(* A checkpoint starts.                                                    *)
LEMMA CheckpointStep == Inv /\ Checkpoint => Inv'
<1> SUFFICES ASSUME Inv, Checkpoint PROVE Inv'
    OBVIOUS
<1> USE DEF Inv
<1>1. /\ phase = "up" /\ pending = Nothing /\ UpInv /\ saving' = [file |-> "index", step |-> 1]
      /\ UNCHANGED <<phase, index, slots, applied, pending, held, log, cut, files, skewed>>
    BY DEF Checkpoint, CommitThreadFree, MemInv
<1>2. LogInv' /\ LogKept /\ Len(log)' = Len(log)
    BY <1>1, LogSame
<1>3. FileInv'
    BY <1>1, <1>2, FilesStay DEF FileInv
<1>4. SavingInv'
    <2>1. StepOK(files["index"], 1, Encoded("index"))'
        BY DEF StepOK
    <2>2. "index" \in {"index", "tuples"} /\ 1 \in 1 .. 5 /\ phase' = "up" /\ pending' = Nothing
        BY <1>1
    <2> QED BY <1>1, <2>1, <2>2 DEF SavingInv
<1>5. UpInv'
    BY <1>1, UpStays
<1>6. MemInv'
    BY <1>1, <1>5 DEF MemInv
<1>7. BackInv'
    BY <1>1, <1>2, BackStays
<1> QED BY <1>2, <1>3, <1>4, <1>6, <1>7

(* What the commit thread saves fits the files, and fits itself.           *)
LEMMA EncodedFits ==
    ASSUME Inv, phase = "up", pending = Nothing,
           NEW a, NEW b, NEW c, NEW d, Good(a, b, c, d),
           \A y \in {c, d} : Backs(y, index.live, applied),
           NEW x, x = Synced(Encoded("index")), NEW z, z = Synced(Encoded("tuples"))
    PROVE  /\ Good(x, b, c, d) /\ Good(x, x, c, d) /\ Good(x, x, z, d) /\ Good(x, x, z, z)
           /\ Backs(z, index.live, applied) /\ OpenTuples(z).lsn = applied
<1>1. PICK ix, n, s, seen : ix = index /\ n = applied /\ s = slots /\ seen = held.live
    OBVIOUS
<1>2. /\ n \in 0 .. Len(log) /\ IndexAt(ix, n, seen) /\ TuplesAt(s, n) /\ ix.live \subseteq DOMAIN s
    BY <1>1 DEF Inv, MemInv, UpInv, LogInv
<1>3. x = Synced(EncodeIndex(ix, n)) /\ z = Synced(EncodeTuples(s, n))
    BY <1>1 DEF Encoded
<1>4. IndexAt(ix, n, {}) /\ \E rows : Files(ix, rows)
    BY <1>2 DEF IndexAt
<1>5. SavedIndex(x) /\ SavedTuples(z)
    BY <1>2, <1>3, <1>4 DEF SavedIndex, SavedTuples
<1>6. /\ OpenIndex(x).lsn = n /\ OpenIndex(x).store = ix
      /\ OpenTuples(z).lsn = n /\ OpenTuples(z).store = s
    BY <1>3, <1>4, SavedOpens
<1>7. Backs(z, ix.live, n)
    BY <1>2, <1>6 DEF Backs
<1>8. \A y \in {c, d} : Backs(y, ix.live, n) /\ OpenTuples(y).lsn <= n
    BY <1>1 DEF Backs
<1>9. /\ SavedIndex(b) /\ SavedTuples(c) /\ SavedTuples(d) /\ OpenTuples(d).lsn <= OpenTuples(c).lsn
      /\ \A y \in {c, d} : Backs(y, OpenIndex(b).store.live, OpenIndex(b).lsn)
    BY DEF Good
<1>10. /\ \A y \in {c, d, z} : Backs(y, OpenIndex(x).store.live, OpenIndex(x).lsn)
       /\ OpenTuples(d).lsn <= OpenTuples(z).lsn /\ OpenTuples(z).lsn <= OpenTuples(z).lsn
    BY <1>2, <1>6, <1>7, <1>8
<1>11. Good(x, b, c, d) /\ Good(x, x, c, d)
    BY <1>5, <1>9, <1>10 DEF Good
<1>12. Good(x, x, z, d) /\ Good(x, x, z, z)
    BY <1>5, <1>9, <1>10 DEF Good
<1> QED BY <1>1, <1>6, <1>7, <1>11, <1>12

(* A save goes on by one step.                                             *)
LEMMA SaveStep == Inv /\ Save => Inv'
<1> SUFFICES ASSUME Inv, Save PROVE Inv'
    OBVIOUS
<1>1. /\ phase = "up" /\ saving # Idle /\ UpInv
      /\ files' = [files EXCEPT ![saving.file] = After(@, saving.step, Encoded(saving.file))]
      /\ saving' = CASE saving.step < Len(Steps) -> [saving EXCEPT !.step = @ + 1]
                     [] saving = [file |-> "index", step |-> Len(Steps)] -> [file |-> "tuples", step |-> 1]
                     [] OTHER -> Idle
      /\ cut' \in IF saving' = Idle THEN {cut, applied} ELSE {cut}
      /\ UNCHANGED <<phase, index, slots, applied, pending, held, log, skewed>>
    BY DEF Save, Inv, MemInv
<1>2. PICK file \in {"index", "tuples"}, step \in 1 .. 5 :
              /\ saving = [file |-> file, step |-> step]
              /\ phase = "up" /\ pending = Nothing
              /\ StepOK(files[file], step, Encoded(file))
              /\ file = "tuples" =>
                    files.index.entry = Synced(Encoded("index")) /\ files.index.flushed = files.index.entry
    BY <1>1 DEF Inv, SavingInv
<1>3. saving.file = file /\ saving.step = step
    BY <1>2
<1>4. PICK b, f, g : b = Encoded(file) /\ f = files[file] /\ g = After(f, step, b)
    OBVIOUS
<1>5. files' = [files EXCEPT ![file] = g]
    BY <1>1, <1>3, <1>4
<1>6. IsFile(f) /\ StepOK(f, step, b) /\ DOMAIN files = {"index", "tuples"}
    BY <1>2, <1>4 DEF Inv, FileInv
<1>7. /\ IsFile(g) /\ StepOK(g, step + 1, b)
      /\ step # 4 => g.entry = f.entry
      /\ step # 5 => g.flushed = f.flushed
      /\ step = 4 => g.entry = Synced(b)
      /\ step = 5 => g.entry = Synced(b) /\ g.flushed = Synced(b)
    BY <1>4, <1>6, AfterDoes
<1>8. LogInv /\ LogInv' /\ LogKept /\ Len(log)' = Len(log)
    BY <1>1, LogSame DEF Inv
<1>9. UpInv' /\ applied = Len(log) /\ applied \in Nat
    BY <1>1, <1>2, <1>8, UpStays DEF UpInv, LogKept
<1>10. PICK x, z : x = Synced(Encoded("index")) /\ z = Synced(Encoded("tuples"))
    OBVIOUS
<1>11. /\ Synced(Encoded("index"))' = x /\ Synced(Encoded("tuples"))' = z /\ Encoded(file)' = b
       /\ file = "index" => Synced(b) = x
       /\ file = "tuples" => Synced(b) = z
    BY <1>1, <1>4, <1>10 DEF Encoded, Synced, Content
<1>12. PICK ie, iflush, te, tflush :
         /\ ie = files.index.entry /\ iflush = files.index.flushed
         /\ te = files.tuples.entry /\ tflush = files.tuples.flushed
    OBVIOUS
<1>13. PICK ie2, iflush2, te2, tflush2 :
         /\ ie2 = files'.index.entry /\ iflush2 = files'.index.flushed
         /\ te2 = files'.tuples.entry /\ tflush2 = files'.tuples.flushed
    OBVIOUS
<1>14. Good(ie, iflush, te, tflush) /\ \A y \in {te, tflush} : Backs(y, index.live, applied)
    BY <1>1, <1>12 DEF Inv, FileInv, BackInv
<1>15. /\ Good(x, iflush, te, tflush) /\ Good(x, x, te, tflush) /\ Good(x, x, z, tflush) /\ Good(x, x, z, z)
       /\ Backs(z, index.live, applied) /\ OpenTuples(z).lsn = applied
    BY <1>1, <1>2, <1>10, <1>14, EncodedFits
<1>16. /\ DOMAIN files' = {"index", "tuples"} /\ files'[file] = g
       /\ \A other \in {"index", "tuples"} : other # file => files'[other] = files[other]
    BY <1>5, <1>6
<1>17. IsFile(files'.index) /\ IsFile(files'.tuples)
    <2>1. IsFile(files.index) /\ IsFile(files.tuples)
        BY DEF Inv, FileInv
    <2> QED BY <2>1, <1>7, <1>16
<1>18. /\ Good(ie2, iflush2, te2, tflush2) /\ \A y \in {te2, tflush2} : Backs(y, index.live, applied)
       /\ step = 5 /\ file = "tuples" => tflush2 = z
       /\ ~(step = 5 /\ file = "tuples") => tflush2 = tflush
    <2>1. CASE file = "index"
        <3>1. te2 = te /\ tflush2 = tflush /\ ie2 = g.entry /\ iflush2 = g.flushed /\ ie = f.entry /\ iflush = f.flushed
            BY <1>4, <1>12, <1>13, <1>16, <2>1
        <3>2. CASE step = 4
            BY <2>1, <3>1, <3>2, <1>7, <1>11, <1>14, <1>15
        <3>3. CASE step = 5
            BY <2>1, <3>1, <3>3, <1>7, <1>11, <1>14, <1>15
        <3>4. CASE step # 4 /\ step # 5
            BY <2>1, <3>1, <3>4, <1>7, <1>14
        <3> QED BY <3>2, <3>3, <3>4
    <2>2. CASE file = "tuples"
        <3>1. /\ te2 = g.entry /\ tflush2 = g.flushed /\ te = f.entry /\ tflush = f.flushed
              /\ ie2 = ie /\ iflush2 = iflush /\ ie = x /\ iflush = x
            BY <1>2, <1>4, <1>10, <1>12, <1>13, <1>16, <2>2
        <3>2. CASE step = 4
            BY <2>2, <3>1, <3>2, <1>7, <1>11, <1>14, <1>15
        <3>3. CASE step = 5
            BY <2>2, <3>1, <3>3, <1>7, <1>11, <1>14, <1>15
        <3>4. CASE step # 4 /\ step # 5
            BY <2>2, <3>1, <3>4, <1>7, <1>14
        <3> QED BY <3>2, <3>3, <3>4
    <2> QED BY <2>1, <2>2
<1>19. /\ ~(step = 5 /\ file = "tuples") => cut' = cut
       /\ cut' \in {cut, applied}
       /\ step < 5 => saving' = [file |-> file, step |-> step + 1]
       /\ step = 5 /\ file = "index" => saving' = [file |-> "tuples", step |-> 1]
       /\ step = 5 /\ file = "tuples" => saving' = Idle
    <2>1. /\ step < 5 => saving' = [file |-> file, step |-> step + 1]
          /\ step = 5 /\ file = "index" => saving' = [file |-> "tuples", step |-> 1]
        BY <1>1, <1>2, StepsAre
    <2>2. \A k : [file |-> "tuples", step |-> k] # [file |-> "index", step |-> 5]
        <3>1. \A k : [file |-> "tuples", step |-> k].file = "tuples"
            OBVIOUS
        <3>2. [file |-> "index", step |-> 5].file = "index"
            OBVIOUS
        <3> QED BY <3>1, <3>2
    <2>3. step = 5 /\ file = "tuples" => saving' = Idle
        BY <1>1, <1>2, <1>3, <2>2, StepsAre
    <2>4. ~(step = 5 /\ file = "tuples") => saving'.file \in {"index", "tuples"}
        BY <2>1
    <2>5. Idle.file = "none"
        BY DEF Idle
    <2>6. ~(step = 5 /\ file = "tuples") => saving' # Idle
        BY <2>4, <2>5
    <2> QED BY <1>1, <2>1, <2>3, <2>6
<1>20. FileInv'
    <2>1. Good(ie2, iflush2, te2, tflush2)'
        BY <1>1, <1>8, <1>18, GoodStays
    <2>2. Good(files.index.entry, files.index.flushed, files.tuples.entry, files.tuples.flushed)'
        BY <1>13, <2>1 DEF Good, SavedIndex, SavedTuples, Backs
    <2>3. cut \in Nat /\ cut <= OpenTuples(tflush).lsn /\ OpenTuples(tflush).lsn <= applied
        <3>1. Backs(tflush, index.live, applied)
            BY <1>14
        <3> QED BY <3>1, <1>12 DEF Inv, FileInv, Backs
    <2>4. cut' \in Nat /\ cut' <= OpenTuples(tflush2).lsn
        <3>1. CASE step = 5 /\ file = "tuples"
            <4>1. OpenTuples(tflush2).lsn = applied
                BY <3>1, <1>15, <1>18
            <4>2. OpenTuples(tflush).lsn \in Int
                BY <1>14, TuplesOpen DEF Good
            <4> QED BY <4>1, <4>2, <1>9, <1>19, <2>3
        <3>2. CASE ~(step = 5 /\ file = "tuples")
            BY <3>2, <1>18, <1>19, <2>3
        <3> QED BY <3>1, <3>2
    <2>5. cut' \in Nat /\ cut' <= OpenTuples(files'.tuples.flushed).lsn
        BY <1>13, <2>4
    <2> QED BY <1>16, <1>17, <2>2, <2>5 DEF FileInv
<1>21. SavingInv'
    <2>1. CASE step < 5
        <3>1. StepOK(files[file], step + 1, Encoded(file))'
            BY <1>7, <1>11, <1>16 DEF StepOK
        <3>2. file = "tuples" => files'.index.entry = x /\ files'.index.flushed = files'.index.entry
            BY <1>2, <1>10, <1>16
        <3>3. file = "tuples" =>
                 (files.index.entry = Synced(Encoded("index")) /\ files.index.flushed = files.index.entry)'
            BY <3>2, <1>11
        <3>4. step + 1 \in 1 .. 5 /\ saving' = [file |-> file, step |-> step + 1]
            BY <1>19, <2>1
        <3> QED BY <1>1, <1>2, <3>1, <3>3, <3>4 DEF SavingInv
    <2>2. CASE step = 5 /\ file = "index"
        <3>1. StepOK(files["tuples"], 1, Encoded("tuples"))'
            BY DEF StepOK
        <3>2. files'.index.entry = x /\ files'.index.flushed = x
            BY <1>7, <1>11, <1>16, <2>2
        <3>3. (files.index.entry = Synced(Encoded("index")) /\ files.index.flushed = files.index.entry)'
            BY <1>11, <3>2
        <3>4. "tuples" \in {"index", "tuples"} /\ 1 \in 1 .. 5 /\ saving' = [file |-> "tuples", step |-> 1]
            BY <1>19, <2>2
        <3> QED BY <1>1, <1>2, <3>1, <3>3, <3>4 DEF SavingInv
    <2>3. CASE step = 5 /\ file = "tuples"
        BY <1>19, <2>3 DEF SavingInv
    <2> QED BY <2>1, <2>2, <2>3
<1>22. MemInv'
    BY <1>1, <1>9 DEF Inv, MemInv
<1>23. BackInv'
    <2>1. PICK live, n : live = index.live /\ n = applied
        OBVIOUS
    <2>2. SavedTuples(te2) /\ SavedTuples(tflush2) /\ Backs(te2, live, n) /\ Backs(tflush2, live, n)
        BY <1>18, <2>1 DEF Good
    <2>3. Backs(te2, live, n)' /\ Backs(tflush2, live, n)'
        BY <1>8, <2>2, BacksStays
    <2> QED BY <1>1, <1>13, <2>1, <2>3 DEF BackInv, Backs
<1> QED BY <1>8, <1>20, <1>21, <1>22, <1>23 DEF Inv

(* A save fails.                                                           *)
LEMMA SaveFailsStep == Inv /\ SaveFails => Inv'
<1> SUFFICES ASSUME Inv, SaveFails PROVE Inv'
    OBVIOUS
<1> USE DEF Inv
<1>1. /\ phase = "up" /\ saving # Idle /\ saving' = Idle /\ UpInv
      /\ files' = [files EXCEPT ![saving.file] = Abandoned(@)]
      /\ UNCHANGED <<phase, index, slots, applied, pending, held, log, cut, skewed>>
    BY DEF SaveFails, MemInv
<1>2. PICK file \in {"index", "tuples"} : saving.file = file /\ pending = Nothing
    BY <1>1 DEF SavingInv
<1>3. PICK f, g : f = files[file] /\ g = Abandoned(f)
    OBVIOUS
<1>4. files' = [files EXCEPT ![file] = g] /\ DOMAIN files = {"index", "tuples"} /\ IsFile(f)
    BY <1>1, <1>2, <1>3 DEF FileInv
<1>5. IsFile(g) /\ g.entry = f.entry /\ g.flushed = f.flushed
    BY <1>3, <1>4, AbandonedIs
<1>6. LogInv' /\ LogKept /\ Len(log)' = Len(log)
    BY <1>1, LogSame
<1>7. /\ DOMAIN files' = {"index", "tuples"} /\ files'[file] = g
      /\ \A other \in {"index", "tuples"} : other # file => files'[other] = files[other]
    BY <1>4
<1>8. /\ IsFile(files'.index) /\ IsFile(files'.tuples)
      /\ files'.index.entry = files.index.entry /\ files'.index.flushed = files.index.flushed
      /\ files'.tuples.entry = files.tuples.entry /\ files'.tuples.flushed = files.tuples.flushed
    <2>1. CASE file = "index"
        BY <2>1, <1>3, <1>5, <1>7 DEF FileInv
    <2>2. CASE file = "tuples"
        BY <2>2, <1>3, <1>5, <1>7 DEF FileInv
    <2> QED BY <2>1, <2>2
<1>9. FileInv'
    BY <1>1, <1>6, <1>7, <1>8, FilesStay DEF IsFile
<1>10. SavingInv'
    BY <1>1 DEF SavingInv
<1>11. UpInv'
    BY <1>1, <1>2, UpStays
<1>12. MemInv'
    BY <1>1, <1>11 DEF MemInv
<1>13. BackInv'
    BY <1>1, <1>6, <1>8, BackStays
<1> QED BY <1>6, <1>9, <1>10, <1>12, <1>13

(* The process or the power goes.                                          *)
LEMMA KillStep == Inv /\ Kill => Inv'
<1> SUFFICES ASSUME Inv, Kill PROVE Inv'
    OBVIOUS
<1> USE DEF Inv
<1>1. /\ phase' = "down" /\ pending' = Nothing /\ held' = LiveSet({}) /\ saving' = Idle
      /\ log' = log /\ cut' = cut /\ skewed' = skewed
    BY DEF Kill
<1>2. LogInv' /\ LogKept /\ Len(log)' = Len(log)
    BY <1>1, LogSame
<1>3. PICK i, t : i = files.index /\ t = files.tuples
    OBVIOUS
<1>4. IsFile(i) /\ IsFile(t) /\ DOMAIN files = {"index", "tuples"}
    BY <1>3 DEF FileInv
<1>5. PICK di, dt : di = files'.index /\ dt = files'.tuples
    OBVIOUS
<1>6. /\ DOMAIN files' = {"index", "tuples"} /\ IsFile(di) /\ IsFile(dt)
      /\ di.entry \in {i.entry, i.flushed} /\ di.flushed \in {i.entry, i.flushed}
      /\ dt.entry \in {t.entry, t.flushed} /\ dt.flushed \in {t.entry, t.flushed}
      /\ dt.entry = dt.flushed \/ (dt.entry = t.entry /\ dt.flushed = t.flushed)
    <2>1. CASE files' = [f \in DOMAIN files |-> Abandoned(files[f])]
        <3>1. DOMAIN files' = {"index", "tuples"} /\ di = Abandoned(i) /\ dt = Abandoned(t)
            BY <2>1, <1>3, <1>4, <1>5
        <3> QED BY <1>4, <3>1, AbandonedIs
    <2>2. CASE files' \in [index : AfterPowerCut(files.index), tuples : AfterPowerCut(files.tuples)]
        <3>1. DOMAIN files' = {"index", "tuples"} /\ di \in AfterPowerCut(i) /\ dt \in AfterPowerCut(t)
            BY <2>2, <1>3, <1>5
        <3>2. PICK a, b, x, y : /\ i.entry = Synced(a) /\ i.flushed = Synced(b)
                                /\ t.entry = Synced(x) /\ t.flushed = Synced(y)
            BY <1>3, IndexOpens, TuplesOpen DEF FileInv, Good
        <3>3. IsFile(di) /\ di.entry \in {i.entry, i.flushed} /\ di.flushed = di.entry
            BY <3>1, <3>2, PowerCutLeaves
        <3>4. IsFile(dt) /\ dt.entry \in {t.entry, t.flushed} /\ dt.flushed = dt.entry
            BY <3>1, <3>2, PowerCutLeaves
        <3> QED BY <3>1, <3>3, <3>4
    <2> QED BY <2>1, <2>2 DEF Kill
<1>7. FileInv'
    BY <1>1, <1>2, <1>3, <1>5, <1>6, FilesStay
<1>8. SavingInv'
    BY <1>1 DEF SavingInv
<1>9. MemInv'
    BY <1>1, LiveSetIs DEF MemInv
<1>10. BackInv'
    BY <1>1 DEF BackInv
<1> QED BY <1>2, <1>7, <1>8, <1>9, <1>10

(* A replay that has come to n, in the next state.                         *)
LEMMA ReplayIsAt ==
    ASSUME LogInv, log' = log, skewed => skewed',
           NEW i \in 0 .. Len(log), NEW n \in 0 .. Len(log), NEW ix, NEW s, NEW a, a = Later(i, n),
           index' = ix, applied' = n, slots' = s,
           s = RowsOf(DOMAIN s), DOMAIN s \subseteq Installed(n),
           ix.live \cap Installed(n) \subseteq DOMAIN s,
           NEW P \in SUBSET Installed(a), Files(ix, RowsOf(P)), ix.live \subseteq P,
           ~skewed' => /\ P = Installed(a) /\ Alive(ix.live, a, n)
                       /\ LiveTold(n) \subseteq DOMAIN s \cup Retired(a)
    PROVE  ReplayInv'
<1>1. /\ \A k : Installed(k)' = Installed(k) /\ Retired(k)' = Retired(k) /\ LiveTold(k)' = LiveTold(k)
      /\ \A S : RowsOf(S)' = RowsOf(S)
      /\ Len(log)' = Len(log)
    BY LogSame
<1>2. (slots = RowsOf(DOMAIN slots) /\ DOMAIN slots \subseteq Installed(applied)
       /\ index.live \cap Installed(applied) \subseteq DOMAIN slots)'
    <2>1. RowsOf(DOMAIN slots)' = RowsOf(DOMAIN s)'
        BY DEF RowsOf
    <2>2. Installed(applied)' = Installed(n)'
        BY DEF Installed
    <2> QED BY <1>1, <2>1, <2>2
<1>3. Later(i, applied)' = a
    BY DEF Later
<1>4. /\ Installed(Later(i, applied))' = Installed(a)
      /\ Retired(Later(i, applied))' = Retired(a)
      /\ LiveTold(applied)' = LiveTold(n)
    <2>1. /\ Installed(Later(i, applied))' = Installed(a)'
          /\ Retired(Later(i, applied))' = Retired(a)'
          /\ LiveTold(applied)' = LiveTold(n)'
        BY <1>3 DEF Installed, Retired, LiveTold
    <2> QED BY <1>1, <2>1
<1>5. Files(index, RowsOf(P))'
    BY <1>1 DEF Files
<1>6. ~skewed' => Alive(index.live, Later(i, applied), applied)'
    <2>1. Alive(index.live, Later(i, applied), applied)' = Alive(ix.live, a, n)'
        BY <1>3 DEF Alive, Installed, Retired, LiveTold
    <2>2. Alive(ix.live, a, n)' = Alive(ix.live, a, n)
        BY <1>1 DEF Alive
    <2> QED BY <2>1, <2>2
<1>7. ReplayAt(i, applied, index, slots)'
    BY <1>2, <1>4, <1>5, <1>6 DEF ReplayAt
<1> QED BY <1>1, <1>7 DEF ReplayInv

(* A replay that has come to the end of the log leaves the stores as a     *)
(* collection that was never closed has them.                              *)
LEMMA ReplayDone ==
    ASSUME LogInv, ReplayInv, applied = Len(log), pending = Nothing, held = LiveSet({})
    PROVE  UpInv
<1>1. PICK i \in 0 .. Len(log) : ReplayAt(i, applied, index, slots)
    BY DEF ReplayInv
<1>2. Later(i, applied) = applied
    BY <1>1 DEF Later, LogInv
<1>3. PICK n, ix, s : n = applied /\ ix = index /\ s = slots
    OBVIOUS
<1>4. /\ s = RowsOf(DOMAIN s) /\ DOMAIN s \subseteq Installed(n)
      /\ ix.live \cap Installed(n) \subseteq DOMAIN s
    BY <1>1, <1>3 DEF ReplayAt
<1>5. PICK P \in SUBSET Installed(n) :
          /\ Files(ix, RowsOf(P)) /\ ix.live \subseteq P
          /\ ~skewed => /\ P = Installed(n) /\ Alive(ix.live, n, n)
                        /\ LiveTold(n) \subseteq DOMAIN s \cup Retired(n)
    BY <1>1, <1>2, <1>3 DEF ReplayAt
<1>6. ~skewed => ix.live = LiveTold(n) /\ LiveTold(n) \subseteq DOMAIN s
    BY <1>5, AliveDone DEF LiveTold
<1>7. IndexAt(ix, n, {}) /\ TuplesAt(s, n) /\ ix.live \subseteq DOMAIN s
    BY <1>4, <1>5, <1>6 DEF IndexAt, TuplesAt
<1>8. held.live = {}
    BY LiveSetIs
<1> QED BY <1>3, <1>7, <1>8 DEF UpInv

(* What is left to show of a step of the recovery.                         *)
LEMMA RecoveryStep ==
    ASSUME LogInv', FileInv', BackInv', ReplayInv', phase' = Recovered(applied'), log' = log,
           LogInv, pending = Nothing, held = LiveSet({}), saving = Idle,
           UNCHANGED <<pending, held, saving>>
    PROVE  Inv'
<1>1. SavingInv' /\ held'.live = {}
    BY LiveSetIs DEF SavingInv
<1>2. applied' \in 0 .. Len(log) /\ Len(log) \in Nat
    BY DEF ReplayInv, LogInv
<1>3. CASE applied' = Len(log)
    <2>1. phase' = "up"
        BY <1>3 DEF Recovered
    <2>2. (LogInv /\ ReplayInv /\ applied = Len(log) /\ pending = Nothing /\ held = LiveSet({}))'
        BY <1>3
    <2>3. UpInv'
        BY <2>2, ReplayDone, PTL
    <2>4. MemInv'
        BY <2>1, <2>3, <1>1 DEF MemInv
    <2> QED BY <1>1, <2>4 DEF Inv
<1>4. CASE applied' # Len(log)
    <2>1. phase' = "replaying" /\ applied' < Len(log)'
        BY <1>2, <1>4 DEF Recovered
    <2>2. MemInv'
        BY <2>1, <1>1 DEF MemInv
    <2> QED BY <1>1, <2>2 DEF Inv
<1> QED BY <1>3, <1>4

(* Both stores are opened.                                                 *)
LEMMA OpenStep == Inv /\ Open => Inv'
<1> SUFFICES ASSUME Inv, Open PROVE Inv'
    OBVIOUS
<1>1. PICK x, y, z : x = files.index.entry /\ y = files.tuples.entry /\ z = files.tuples.flushed
    OBVIOUS
<1>2. PICK ix, a, s, b :
        ix = OpenIndex(x).store /\ a = OpenIndex(x).lsn /\ s = OpenTuples(y).store /\ b = OpenTuples(y).lsn
    OBVIOUS
<1>3. /\ phase = "down" /\ index' = ix /\ slots' = s
      /\ applied' = Later(IF a < b THEN a ELSE b, cut)
      /\ phase' = Recovered(applied')
      /\ UNCHANGED <<pending, held, log, cut, files, saving, skewed>>
    BY <1>1, <1>2 DEF Open
<1>4. pending = Nothing /\ held = LiveSet({}) /\ saving = Idle
    BY <1>3 DEF Inv, MemInv
<1>5. /\ SavedIndex(x) /\ SavedTuples(y) /\ SavedTuples(z)
      /\ Backs(y, ix.live, a) /\ Backs(z, ix.live, a)
      /\ OpenTuples(z).lsn <= b /\ cut \in Nat /\ cut <= OpenTuples(z).lsn
    BY <1>1, <1>2 DEF Inv, FileInv, Good
<1>6. a \in 0 .. Len(log) /\ IndexAt(ix, a, {})
    BY <1>2, <1>5, IndexOpens
<1>7. b \in 0 .. Len(log) /\ TuplesAt(s, b) /\ OpenTuples(z).lsn \in Int
    BY <1>2, <1>5, TuplesOpen
<1>8. b <= a /\ ix.live \cap Installed(b) \subseteq DOMAIN s
    BY <1>2, <1>5 DEF Backs
<1>9. applied' = b /\ Later(a, b) = a
    BY <1>3, <1>5, <1>6, <1>7, <1>8 DEF Later
<1>10. LogInv /\ LogInv' /\ LogKept /\ Len(log)' = Len(log)
    BY <1>3, LogSame DEF Inv
<1>11. FileInv'
    BY <1>3, <1>10, FilesStay DEF Inv, FileInv
<1>12. ReplayInv'
    <2>1. PICK P \in SUBSET Installed(a) :
              /\ Files(ix, RowsOf(P)) /\ ix.live \subseteq P
              /\ ~skewed => P = Installed(a) /\ ix.live = LiveTold(a)
        BY <1>6 DEF IndexAt
    <2>2. /\ s = RowsOf(DOMAIN s) /\ DOMAIN s \subseteq Installed(b)
          /\ ~skewed => LiveTold(b) \subseteq DOMAIN s
        BY <1>7 DEF TuplesAt
    <2>3. ~skewed => Alive(ix.live, a, b)
        <3>1. b \in 0 .. a
            BY <1>6, <1>7, <1>8
        <3>2. Retired(b) \subseteq Retired(a)
            BY <1>6, <1>10, <3>1, ToldInBounds
        <3> QED BY <2>1, <3>2 DEF Alive, LiveTold
    <2> QED BY <1>3, <1>6, <1>7, <1>8, <1>9, <1>10, <2>1, <2>2, <2>3, ReplayIsAt
<1>13. BackInv'
    <2>1. PICK live : live = ix.live
        OBVIOUS
    <2>2. Backs(y, live, b) /\ Backs(z, live, b)
        BY <1>2, <1>5, <1>7, <2>1 DEF Backs
    <2>3. Backs(y, live, b)' /\ Backs(z, live, b)'
        BY <1>5, <1>10, <2>2, BacksStays
    <2> QED BY <1>1, <1>3, <1>9, <2>1, <2>3 DEF BackInv, Backs
<1> QED BY <1>3, <1>4, <1>10, <1>11, <1>12, <1>13, RecoveryStep

(* A tuple file has what the index has, one record further.                *)
LEMMA BacksNext ==
    ASSUME LogInv, NEW k \in 1 .. Len(log), NEW y, SavedTuples(y),
           NEW live, Backs(y, live, k - 1),
           NEW after, after \subseteq live \cup DOMAIN log[k].install
    PROVE  Backs(y, after, k)
<1>1. PICK m : m = OpenTuples(y).lsn
    OBVIOUS
<1>2. m \in 0 .. Len(log)
    BY <1>1, TuplesOpen
<1>3. m \in 0 .. k - 1 /\ m <= k
    BY <1>1, <1>2 DEF Backs, LogInv
<1>4. DOMAIN log[k].install \cap Installed(m) = {}
    BY <1>3, NextIsNew
<1> QED BY <1>1, <1>3, <1>4 DEF Backs

(* A record is put into both again, or left out.                           *)
LEMMA ReplayStep == Inv /\ Replay => Inv'
<1> SUFFICES ASSUME Inv, Replay PROVE Inv'
    OBVIOUS
<1>1. PICK n, k, r, ix, s : n = applied /\ k = n + 1 /\ r = log[k] /\ ix = index /\ s = slots
    OBVIOUS
<1>2. PICK stale : stale = IsStale(ix.live, r)
    OBVIOUS
<1>3. /\ phase = "replaying" /\ applied' = k /\ phase' = Recovered(applied')
      /\ slots' = IF stale THEN s ELSE Written(s, r)
      /\ index' = IF stale THEN ix ELSE Absorbed(ix, r)
      /\ skewed' = (skewed \/ (stale /\ r.retire \cap ix.live # {}))
      /\ UNCHANGED <<pending, held, log, cut, files, saving>>
    BY <1>1, <1>2 DEF Replay
<1>4. pending = Nothing /\ held = LiveSet({}) /\ saving = Idle /\ n < Len(log)
    BY <1>1, <1>3 DEF Inv, MemInv
<1>5. PICK i \in 0 .. Len(log) : n \in 0 .. Len(log) /\ ReplayAt(i, n, ix, s)
    BY <1>1, <1>3 DEF Inv, MemInv, ReplayInv
<1>6. skewed => skewed'
    BY <1>3
<1>7. LogInv /\ LogInv' /\ LogKept /\ Len(log)' = Len(log) /\ Len(log) \in Nat
    BY <1>3, <1>6, LogSame DEF Inv, LogKept
<1>8. PICK a, e : a = Later(i, n) /\ e = Later(i, k)
    OBVIOUS
<1>9. /\ k \in 1 .. Len(log) /\ k \in 0 .. Len(log) /\ n = k - 1 /\ n \in 0 .. Len(log) - 1
      /\ a \in 0 .. Len(log) /\ n <= a /\ k <= a + 1 /\ e = Later(a, k) /\ e \in 0 .. Len(log)
      /\ n \in 0 .. a /\ a \in 0 .. e
    BY <1>1, <1>4, <1>5, <1>7, <1>8 DEF Later
<1>10. /\ Installed(k) = Installed(n) \cup DOMAIN r.install
       /\ Retired(k) = Retired(n) \cup r.retire
       /\ Installed(e) = Installed(a) \cup DOMAIN r.install
       /\ Retired(e) = Retired(a) \cup r.retire
    BY <1>1, <1>7, <1>9, NextIsNew, ToldLater
<1>11. PICK P \in SUBSET Installed(a) :
          /\ Files(ix, RowsOf(P)) /\ ix.live \subseteq P
          /\ ~skewed => /\ P = Installed(a) /\ Alive(ix.live, a, n)
                        /\ LiveTold(n) \subseteq DOMAIN s \cup Retired(a)
    BY <1>5, <1>8 DEF ReplayAt
<1>12. /\ s = RowsOf(DOMAIN s) /\ DOMAIN s \subseteq Installed(n)
       /\ ix.live \cap Installed(n) \subseteq DOMAIN s
    BY <1>5 DEF ReplayAt
<1>13. FileInv'
    BY <1>3, <1>6, <1>7, FilesStay DEF Inv, FileInv
<1>14. ReplayInv' /\ index'.live \subseteq ix.live \cup DOMAIN r.install
    <2>1. CASE ~stale
        <3>1. PICK Q, D, rows : Q = P \cup DOMAIN r.install /\ D = DOMAIN s \cup DOMAIN r.install
                                /\ rows = RowsOf(P)
            OBVIOUS
        <3>2. PICK to, t : to = index' /\ t = slots'
            OBVIOUS
        <3>3. to = Absorbed(ix, r) /\ t = Merged(s, r.install)
            BY <1>3, <2>1, <3>2, WrittenIs
        <3>4. Agree(rows, r.install) /\ Merged(rows, r.install) = RowsOf(Q)
            BY <1>1, <1>7, <1>9, <3>1, RowsJoin
        <3>5. IsFiniteSet(DOMAIN r.install)
            <4>1. \A j \in 1 .. Len(log) : log[j] \in RecordSet
                BY <1>7 DEF LogInv
            <4>2. r \in RecordSet
                BY <1>1, <1>9, <4>1
            <4> QED BY <4>2, RecordIs
        <3>6. Files(to, RowsOf(Q)) /\ to.live = (ix.live \cup DOMAIN r.install) \ r.retire
            <4>1. Files(ix, rows)
                BY <1>11, <3>1
            <4> QED BY <3>3, <3>4, <3>5, <4>1, AbsorbedFiles
        <3>7. t = RowsOf(D) /\ DOMAIN t = D
            <4>1. PICK S : S = DOMAIN s
                OBVIOUS
            <4>2. Merged(RowsOf(S), r.install) = RowsOf(S \cup DOMAIN r.install)
                BY <1>1, <1>7, <1>9, RowsJoin
            <4>3. t = RowsOf(D)
                BY <1>12, <3>1, <3>3, <4>1, <4>2
            <4> QED BY <4>3 DEF RowsOf
        <3>8. t = RowsOf(DOMAIN t) /\ DOMAIN t \subseteq Installed(k) /\ to.live \cap Installed(k) \subseteq DOMAIN t
            BY <1>10, <1>12, <3>1, <3>6, <3>7
        <3>9. Q \in SUBSET Installed(e) /\ to.live \subseteq Q
            BY <1>10, <1>11, <3>1, <3>6
        <3>10. ~skewed' => /\ Q = Installed(e) /\ Alive(to.live, e, k)
                           /\ LiveTold(k) \subseteq DOMAIN t \cup Retired(e)
            <4> SUFFICES ASSUME ~skewed'
                         PROVE  /\ Q = Installed(e) /\ Alive(to.live, e, k)
                                /\ LiveTold(k) \subseteq DOMAIN t \cup Retired(e)
                OBVIOUS
            <4>1. P = Installed(a) /\ Alive(ix.live, a, n) /\ LiveTold(n) \subseteq DOMAIN s \cup Retired(a)
                BY <1>6, <1>11
            <4>2. Alive(to.live, e, k)
                <5>1. PICK live, after : live = ix.live /\ after = to.live
                    OBVIOUS
                <5>2. Alive(live, a, n) /\ after = (live \cup DOMAIN log[k].install) \ log[k].retire
                    BY <1>1, <3>6, <4>1, <5>1
                <5>3. Alive(after, Later(a, k), k)
                    BY <1>1, <1>7, <1>9, <5>2, AliveStep
                <5> QED BY <1>9, <5>1, <5>3
            <4>3. LiveTold(k) \subseteq LiveTold(n) \cup DOMAIN r.install
                BY <1>10 DEF LiveTold
            <4> QED BY <1>10, <3>1, <3>7, <4>1, <4>2, <4>3
        <3>11. ReplayInv'
            BY <1>3, <1>6, <1>7, <1>8, <1>9, <3>2, <3>6, <3>8, <3>9, <3>10, ReplayIsAt
        <3> QED BY <3>2, <3>6, <3>11
    <2>2. CASE stale
        <3>1. index' = ix /\ slots' = s /\ (~skewed' => ~skewed /\ r.retire \cap ix.live = {})
            BY <1>3, <2>2
        <3>2. /\ ~ r.retire \subseteq ix.live /\ DOMAIN r.install \cap ix.live = {}
            BY <1>2, <2>2 DEF IsStale
        <3>3. DOMAIN s \subseteq Installed(k) /\ ix.live \cap Installed(k) \subseteq DOMAIN s
              /\ P \in SUBSET Installed(e)
            BY <1>10, <1>12, <3>2
        <3>4. ~skewed' => /\ P = Installed(e) /\ Alive(ix.live, e, k)
                          /\ LiveTold(k) \subseteq DOMAIN s \cup Retired(e)
            <4> SUFFICES ASSUME ~skewed'
                         PROVE  /\ P = Installed(e) /\ Alive(ix.live, e, k)
                                /\ LiveTold(k) \subseteq DOMAIN s \cup Retired(e)
                OBVIOUS
            <4>1. ~skewed /\ r.retire \cap ix.live = {}
                BY <3>1
            <4>2. P = Installed(a) /\ Alive(ix.live, a, n) /\ LiveTold(n) \subseteq DOMAIN s \cup Retired(a)
                BY <1>11, <4>1
            <4>3. r.retire \subseteq LiveTold(n)
                BY <1>1, <1>7, <1>9, <4>1 DEF LogInv
            <4>4. a # n
                <5> SUFFICES ASSUME a = n PROVE FALSE
                    OBVIOUS
                <5>1. ix.live = LiveTold(n)
                    BY <4>2, AliveDone
                <5> QED BY <5>1, <3>2, <4>3
            <4>5. e = a /\ k \in 0 .. a
                BY <1>5, <1>8, <1>9, <4>4 DEF Later
            <4>6. /\ Installed(k) \subseteq Installed(a)
                  /\ ix.live \subseteq Installed(a) /\ LiveTold(a) \subseteq ix.live
                  /\ ix.live \cap Retired(n) = {}
                BY <1>7, <1>9, <4>2, <4>5, ToldInBounds DEF Alive
            <4>7. ix.live \cap Retired(k) = {}
                BY <1>10, <4>1, <4>6
            <4>8. DOMAIN r.install \subseteq Retired(a)
                BY <1>10, <3>2, <4>6 DEF LiveTold
            <4>9. LiveTold(k) \subseteq LiveTold(n) \cup DOMAIN r.install
                BY <1>10 DEF LiveTold
            <4>10. Alive(ix.live, e, k)
                BY <4>5, <4>6, <4>7 DEF Alive
            <4> QED BY <4>2, <4>5, <4>8, <4>9, <4>10
        <3>5. ReplayInv'
            BY <1>3, <1>6, <1>7, <1>8, <1>9, <1>11, <1>12, <3>1, <3>3, <3>4, ReplayIsAt
        <3> QED BY <3>1, <3>5
    <2> QED BY <1>2, <2>1, <2>2 DEF IsStale
<1>15. BackInv'
    <2>1. PICK live, after : live = ix.live /\ after = index'.live
        OBVIOUS
    <2>2. ASSUME NEW y \in {files.tuples.entry, files.tuples.flushed} PROVE Backs(y, after, k)'
        <3>1. SavedTuples(y) /\ Backs(y, live, k - 1)
            BY <1>1, <1>3, <1>9, <2>1 DEF Inv, FileInv, Good, BackInv
        <3>2. after \subseteq live \cup DOMAIN log[k].install
            BY <1>1, <1>14, <2>1
        <3>3. Backs(y, after, k)
            BY <1>7, <1>9, <3>1, <3>2, BacksNext
        <3> QED BY <1>7, <3>1, <3>3, BacksStays
    <2> QED BY <1>3, <2>1, <2>2 DEF BackInv, Backs
<1> QED BY <1>3, <1>4, <1>7, <1>13, <1>14, <1>15, RecoveryStep

(* Nothing happens.                                                        *)
LEMMA NoStep == Inv /\ UNCHANGED vars => Inv'
<1> SUFFICES ASSUME Inv, UNCHANGED vars PROVE Inv'
    OBVIOUS
<1> USE DEF Inv, vars
<1>1. LogInv' /\ LogKept /\ Len(log)' = Len(log)
    BY LogSame
<1>2. FileInv'
    BY <1>1, FilesStay DEF FileInv
<1>3. SavingInv'
    BY DEF SavingInv, StepOK, Encoded
<1>4. UpInv => UpInv'
    <2> SUFFICES ASSUME UpInv PROVE UpInv'
        OBVIOUS
    <2>1. PICK ix, n, seen : ix = index /\ n = applied /\ seen = held.live
        OBVIOUS
    <2>2. n \in 0 .. Len(log) /\ IndexAt(ix, n, seen)
        BY <1>1, <2>1 DEF UpInv, LogKept
    <2>3. IndexAt(ix, n, seen)'
        BY <1>1, <2>2, AtStays
    <2>4. IndexAt(index, applied, held.live)'
        BY <2>1, <2>3, IndexIsAt
    <2>5. TuplesAt(slots, Len(log))'
        BY DEF UpInv, TuplesAt, RowsOf, RowTold, Installed, LiveTold, Retired
    <2> QED BY <2>4, <2>5 DEF UpInv
<1>5. ReplayInv => ReplayInv'
    <2> SUFFICES ASSUME ReplayInv PROVE ReplayInv'
        OBVIOUS
    <2>1. PICK i \in 0 .. Len(log) : applied \in 0 .. Len(log) /\ ReplayAt(i, applied, index, slots)
        BY DEF ReplayInv
    <2>2. PICK n, ix, s, a : n = applied /\ ix = index /\ s = slots /\ a = Later(i, n)
        OBVIOUS
    <2>3. /\ s = RowsOf(DOMAIN s) /\ DOMAIN s \subseteq Installed(n)
          /\ ix.live \cap Installed(n) \subseteq DOMAIN s
        BY <2>1, <2>2 DEF ReplayAt
    <2>4. PICK P \in SUBSET Installed(a) :
              /\ Files(ix, RowsOf(P)) /\ ix.live \subseteq P
              /\ ~skewed => /\ P = Installed(a) /\ Alive(ix.live, a, n)
                            /\ LiveTold(n) \subseteq DOMAIN s \cup Retired(a)
        BY <2>1, <2>2 DEF ReplayAt
    <2> QED BY <2>1, <2>2, <2>3, <2>4, ReplayIsAt
<1>6. MemInv'
    BY <1>4, <1>5 DEF MemInv
<1>7. BackInv'
    BY <1>1, BackStays
<1> QED BY <1>1, <1>2, <1>3, <1>6, <1>7

-----------------------------------------------------------------------------
(***************************************************************************)
(* The theorems.                                                           *)
(***************************************************************************)
(* Records, stores, files and the file being saved always agree as Inv     *)
(* says, whatever is absorbed, saved, killed, cut off or replayed          *)
(* (metadata/index.rs, tuples.rs and mod.rs).                              *)
THEOREM Invariance == Spec => []Inv
<1>1. Init => Inv
    BY AtFirst
<1>2. Inv /\ [Next]_vars => Inv'
    BY WriteStep, AbsorbStep, ResolveStep, CheckpointStep, SaveStep, SaveFailsStep, KillStep,
       OpenStep, ReplayStep, NoStep DEF Next
<1> QED BY <1>1, <1>2, PTL DEF Spec

(* What the invariant says of the files is what a reopening finds.         *)
LEMMA InvReopens == Inv => Reopens
<1> SUFFICES ASSUME Inv,
                    NEW i \in {files.index} \cup AfterPowerCut(files.index),
                    NEW t \in {files.tuples} \cup AfterPowerCut(files.tuples)
             PROVE  LET ix == OpenIndex(i.entry)
                        tu == OpenTuples(t.entry)
                        Row == DOMAIN tu.store
                    IN  /\ Intact(i.entry.bytes) /\ Intact(t.entry.bytes)
                        /\ ix.lsn \in cut .. Len(log) /\ tu.lsn \in cut .. Len(log)
                        /\ Row \subseteq Installed(tu.lsn) /\ tu.store = RowsOf(Row)
                        /\ ix.store.live \cap Installed(tu.lsn) \subseteq Row
                        /\ ~skewed =>
                              /\ ix.store.live = LiveTold(ix.lsn) /\ LiveTold(tu.lsn) \subseteq Row
                              /\ \A c \in DOMAIN Columns :
                                    Posted(c, ix.store.columns[c]) = Filing(c, RowsOf(Installed(ix.lsn)))
    BY DEF Reopens
<1>1. PICK f, g : f = files.index /\ g = files.tuples
    OBVIOUS
<1>2. Good(f.entry, f.flushed, g.entry, g.flushed) /\ cut \in Nat /\ cut <= OpenTuples(g.flushed).lsn
    BY <1>1 DEF Inv, FileInv
<1>3. PICK p, q, v, w : f.entry = Synced(p) /\ f.flushed = Synced(q) /\ g.entry = Synced(v) /\ g.flushed = Synced(w)
    BY <1>2, IndexOpens, TuplesOpen DEF Good
<1>4. i.entry \in {f.entry, f.flushed} /\ t.entry \in {g.entry, g.flushed}
    BY <1>1, <1>3, PowerCutLeaves
<1>5. PICK x, y : x = i.entry /\ y = t.entry
    OBVIOUS
<1>6. SavedIndex(x) /\ SavedTuples(y) /\ SavedTuples(g.flushed)
      /\ Backs(y, OpenIndex(x).store.live, OpenIndex(x).lsn)
    BY <1>2, <1>4, <1>5 DEF Good
<1>7. PICK a, b, m, n : a = OpenIndex(x).store /\ m = OpenIndex(x).lsn /\ b = OpenTuples(y).store /\ n = OpenTuples(y).lsn
    OBVIOUS
<1>8. Intact(x.bytes) /\ m \in 0 .. Len(log) /\ IndexAt(a, m, {})
    BY <1>6, <1>7, IndexOpens
<1>9. Intact(y.bytes) /\ n \in 0 .. Len(log) /\ TuplesAt(b, n)
    BY <1>6, <1>7, TuplesOpen
<1>10. n <= m /\ a.live \cap Installed(n) \subseteq DOMAIN b
    BY <1>6, <1>7 DEF Backs
<1>11. cut <= n
    <2>1. OpenTuples(g.flushed).lsn <= n
        BY <1>2, <1>4, <1>5, <1>7, <1>9 DEF Good
    <2>2. OpenTuples(g.flushed).lsn \in Int
        BY <1>6, TuplesOpen
    <2> QED BY <1>2, <1>9, <2>1, <2>2
<1>12. m \in cut .. Len(log) /\ n \in cut .. Len(log)
    BY <1>2, <1>8, <1>9, <1>10, <1>11
<1>13. /\ DOMAIN b \subseteq Installed(n) /\ b = RowsOf(DOMAIN b)
       /\ ~skewed => LiveTold(n) \subseteq DOMAIN b
    BY <1>9 DEF TuplesAt
<1>14. ~skewed => /\ a.live = LiveTold(m)
                  /\ \A c \in DOMAIN Columns : Posted(c, a.columns[c]) = Filing(c, RowsOf(Installed(m)))
    BY <1>8 DEF IndexAt, Files, ColumnOK
<1> QED BY <1>5, <1>7, <1>8, <1>9, <1>10, <1>12, <1>13, <1>14

(* Whenever the process or the power goes, each file is a whole snapshot,  *)
(* the old one or the new, that the log reaches back to; the two may be    *)
(* opened together: the tuple store has what the records say, of every row *)
(* live in the index that it could have, and unless a replay was skewed    *)
(* the index has what the records up to its LSN add up to                  *)
(* (metadata/mod.rs, write_snapshot_atomic, and the opening of index.rs    *)
(* and tuples.rs).                                                         *)
THEOREM FilesReopen == Spec => []Reopens
BY Invariance, InvReopens, PTL

-----------------------------------------------------------------------------
(***************************************************************************)
(* Lookups.                                                                *)
(***************************************************************************)
(* Numbers compare as their keys do.                                       *)
LEMMA KeysCompare ==
    ASSUME NEW x, NEW y, IsNumber(x), IsNumber(y), x.ty = y.ty
    PROVE  /\ Same(x, y) <=> Key(x) = Key(y)
           /\ \A op \in Ops : Holds(op, x, y) <=> InRange(op, Key(y), Key(x))
<1>1. x.n \in Int /\ y.n \in Int /\ x.s = "-" /\ y.s = "-"
    BY DEF IsNumber, IntV, FloatV
<1>2. Key(x) \in Int /\ Key(y) \in Int /\ Size(x) \in Int /\ Size(y) \in Int
    BY <1>1 DEF Key, Size
<1>3. (Size(x) = Size(y) <=> Key(x) = Key(y)) /\ (Size(x) < Size(y) <=> Key(x) < Key(y))
    BY <1>1 DEF Key, Size
<1>4. Same(x, y) <=> Key(x) = Key(y)
    BY <1>1, <1>3 DEF Same
<1>5. ASSUME NEW op \in Ops PROVE Holds(op, x, y) <=> InRange(op, Key(y), Key(x))
    <2>1. CASE op = "lt"
        BY <2>1, <1>2, <1>3 DEF Holds, InRange
    <2>2. CASE op = "le"
        BY <2>2, <1>2, <1>3 DEF Holds, InRange
    <2>3. CASE op = "gt"
        BY <2>3, <1>2, <1>3 DEF Holds, InRange
    <2>4. CASE op = "ge"
        BY <2>4, <1>2, <1>3 DEF Holds, InRange
    <2> QED BY <2>1, <2>2, <2>3, <2>4 DEF Ops
<1> QED BY <1>4, <1>5

(* A value of a column is a number or a text, as the column's type says,   *)
(* and so is one it may be compared with.                                  *)
LEMMA ValuesAre ==
    ASSUME NEW c \in DOMAIN Columns, NEW x, x.ty = Columns[c], IsNumber(x) \/ IsText(x)
    PROVE  /\ Columns[c] = "TEXT" => IsText(x)
           /\ Columns[c] # "TEXT" => IsNumber(x)
           /\ x # NaN
BY DEF IsNumber, IsText, IntV, FloatV, TextV, NaN

(* Every non-empty set of naturals has a least element.                    *)
LEMMA LeastNatural ==
    ASSUME NEW T, T \subseteq Nat, T # {}
    PROVE  \E n \in T : \A m \in T : n <= m
<1>1. IsWellFoundedOn(OpToRel(<, Nat), Nat)
    BY NatLessThanWellFounded
<1>2. PICK n \in T : \A m \in T : ~(<<m, n>> \in OpToRel(<, Nat))
    BY <1>1, WFMin
<1>3. \A m \in T : ~(<<m, n>> \in {x \in Nat \X Nat : x[1] < x[2]})
    BY <1>2 DEF OpToRel
<1>4. \A m \in T : ~(m < n)
    BY <1>3
<1> QED BY <1>4

(* The words of a liveness set say what the set says.                      *)
LEMMA WordsSay ==
    ASSUME NEW live, live \subseteq 0 .. MaxOrdinal, NEW o \in Nat
    PROVE  IsLive(LiveSet(live), o) <=> o \in live
<1> DEFINE n == IF live = {} THEN 0 ELSE Max(live) \div WordBits + 1
           word(w) == {b \in 0 .. WordBits - 1 : (w - 1) * WordBits + b \in live}
<1>1. WordBits \in Nat \ {0} /\ MaxOrdinal \in Nat
    BY SizesAssumption
<1>2. PICK q, r : q = o \div WordBits /\ r = o % WordBits
    OBVIOUS
<1>3. q \in Nat /\ r \in 0 .. WordBits - 1 /\ q * WordBits + r = o
    BY <1>1, <1>2
<1>4. LiveSet(live).bits = [w \in 1 .. n |-> word(w)]
    BY DEF LiveSet
<1>5. q + 1 \in 1 .. n => (r \in word(q + 1) <=> o \in live)
    BY <1>3
<1>6. o \in live => q + 1 \in 1 .. n
    <2> SUFFICES ASSUME o \in live PROVE q + 1 \in 1 .. n
        OBVIOUS
    <2>1. PICK m : m = Max(live)
        OBVIOUS
    <2>2. \E x \in live : \A y \in live : x >= y
        <3> DEFINE Above == {k \in Nat : \A y \in live : k >= y}
        <3>1. MaxOrdinal \in Above
            BY <1>1
        <3>2. PICK k \in Above : \A j \in Above : k <= j
            BY <3>1, LeastNatural
        <3>3. k \in live
            <4> SUFFICES ASSUME k \notin live PROVE FALSE
                OBVIOUS
            <4>1. \A y \in live : y \in Nat /\ k > y
                BY <1>1
            <4>2. k - 1 \in Above
                BY <4>1
            <4> QED BY <3>2, <4>2
        <3> QED BY <3>2, <3>3
    <2>3. m \in live /\ \A y \in live : m >= y
        BY <2>1, <2>2 DEF Max
    <2>4. m \in Nat /\ o <= m
        BY <1>1, <2>3
    <2>5. o \div WordBits <= m \div WordBits /\ m \div WordBits \in Nat
        BY <1>1, <2>4
    <2> QED BY <1>1, <1>2, <1>3, <2>1, <2>5
<1>7. IsLive(LiveSet(live), o) <=> q + 1 \in 1 .. n /\ r \in word(q + 1)
    BY <1>2, <1>4 DEF IsLive
<1> QED BY <1>5, <1>6, <1>7

(* The rows the index has under a value, and in a range of values.         *)
LEMMA EqFinds ==
    ASSUME NEW c \in DOMAIN Columns, NEW rows, ColumnOK(c, index.columns[c], rows), NEW x,
           x.ty = Columns[c], IsNumber(x) \/ IsText(x),
           \A o \in DOMAIN rows : rows[o][c].ty = Columns[c] /\ (IsNumber(rows[o][c]) \/ IsText(rows[o][c]))
    PROVE  Eq(c, x) = Found({o \in DOMAIN rows : Same(rows[o][c], x)})
<1>1. PICK column : column = index.columns[c]
    OBVIOUS
<1>2. Posted(c, column) = Filing(c, rows) /\ x # NaN
    BY <1>1, ValuesAre DEF ColumnOK
<1>3. CASE Columns[c] = "TEXT"
    <2>1. [s \in DOMAIN column.dict |-> Tokens(column, s)] = Filing(c, rows)
        BY <1>2, <1>3 DEF Posted
    <2>2. DOMAIN column.dict = DOMAIN Filing(c, rows)
          /\ \A s \in DOMAIN column.dict : Filing(c, rows)[s] = Tokens(column, s)
        BY <2>1
    <2>3. Tokens(column, x.s) = Under(Filing(c, rows), x.s)
        BY <2>2 DEF Under, Tokens
    <2>4. \A o \in DOMAIN rows : Term(c, rows[o]) = x.s <=> Same(rows[o][c], x)
        <3> SUFFICES ASSUME NEW o \in DOMAIN rows PROVE Term(c, rows[o]) = x.s <=> Same(rows[o][c], x)
            OBVIOUS
        <3>1. PICK y : y = rows[o][c]
            OBVIOUS
        <3>2. IsText(x) /\ IsText(y)
            BY <1>3, <3>1, ValuesAre
        <3>3. Size(x) = 0 /\ Size(y) = 0
            BY <3>2 DEF IsText, TextV, Size
        <3>4. Term(c, rows[o]) = y.s
            BY <1>3, <3>1 DEF Term
        <3> QED BY <3>1, <3>3, <3>4 DEF Same
    <2>5. Having(c, rows, x.s) = {o \in DOMAIN rows : Same(rows[o][c], x)}
        BY <2>4 DEF Having
    <2>6. Eq(c, x) = Found(Tokens(column, x.s))
        <3>1. x.ty = "TEXT" /\ ~(x.ty # Columns[c]) /\ ~(x = NaN /\ Columns[c] = "FLOAT")
            BY <1>2, <1>3
        <3>2. Eq(c, x) = Found(Tokens(index.columns[c], x.s))
            BY <1>3, <3>1 DEF Eq
        <3> QED BY <1>1, <3>2
    <2>7. Under(Filing(c, rows), x.s) = Having(c, rows, x.s)
        BY FilingIs
    <2> QED BY <2>3, <2>5, <2>6, <2>7
<1>4. CASE Columns[c] # "TEXT"
    <2>1. column.map = Filing(c, rows)
        BY <1>2, <1>4 DEF Posted
    <2>2. \A o \in DOMAIN rows : Term(c, rows[o]) = Key(x) <=> Same(rows[o][c], x)
        <3> SUFFICES ASSUME NEW o \in DOMAIN rows PROVE Term(c, rows[o]) = Key(x) <=> Same(rows[o][c], x)
            OBVIOUS
        <3>1. PICK y : y = rows[o][c]
            OBVIOUS
        <3>2. IsNumber(x) /\ IsNumber(y) /\ x.ty = y.ty
            BY <1>4, <3>1, ValuesAre
        <3>3. Same(y, x) <=> Key(y) = Key(x)
            BY <3>2, KeysCompare
        <3>4. Term(c, rows[o]) = Key(y)
            BY <1>4, <3>1 DEF Term
        <3> QED BY <3>1, <3>3, <3>4
    <2>3. Having(c, rows, Key(x)) = {o \in DOMAIN rows : Same(rows[o][c], x)}
        BY <2>2 DEF Having
    <2>4. Eq(c, x) = Found(Under(column.map, Key(x)))
        BY <1>1, <1>2, <1>4 DEF Eq
    <2> QED BY <2>1, <2>3, <2>4, FilingIs
<1> QED BY <1>3, <1>4

(* The same for a range.                                                   *)
LEMMA BetweenFinds ==
    ASSUME NEW c \in DOMAIN Columns, NEW rows, ColumnOK(c, index.columns[c], rows), NEW x,
           x.ty = Columns[c], IsNumber(x) \/ IsText(x), x.ty # "TEXT", NEW op \in Ops,
           \A o \in DOMAIN rows : rows[o][c].ty = Columns[c] /\ (IsNumber(rows[o][c]) \/ IsText(rows[o][c]))
    PROVE  Between(c, op, x) = Found({o \in DOMAIN rows : Holds(op, rows[o][c], x)})
<1> DEFINE map == index.columns[c].map
           hits == UNION {map[k] : k \in {k \in DOMAIN map : InRange(op, Key(x), k)}}
<1>1. x # NaN /\ Columns[c] # "TEXT"
    BY ValuesAre
<1>2. map = Filing(c, rows)
    BY <1>1 DEF ColumnOK, Posted
<1>3. DOMAIN map = Keys(c, rows) /\ \A k \in DOMAIN map : map[k] = Having(c, rows, k)
    BY <1>2, FilingIs
<1>4. Between(c, op, x) = Found(hits)
    BY <1>1 DEF Between
<1> HIDE DEF map
<1>5. \A o : o \in hits <=> \E k \in DOMAIN map : InRange(op, Key(x), k) /\ o \in map[k]
    OBVIOUS
<1>6. \A o : o \in hits <=> \E k \in Keys(c, rows) : InRange(op, Key(x), k) /\ o \in Having(c, rows, k)
    BY <1>3, <1>5
<1>7. \A o : o \in hits <=> o \in DOMAIN rows /\ InRange(op, Key(x), Term(c, rows[o]))
    BY <1>6 DEF Having, Keys
<1>8. \A o \in DOMAIN rows : InRange(op, Key(x), Term(c, rows[o])) <=> Holds(op, rows[o][c], x)
    <2> SUFFICES ASSUME NEW o \in DOMAIN rows
                 PROVE  InRange(op, Key(x), Term(c, rows[o])) <=> Holds(op, rows[o][c], x)
        OBVIOUS
    <2>1. PICK y : y = rows[o][c]
        OBVIOUS
    <2>2. IsNumber(x) /\ IsNumber(y) /\ x.ty = y.ty
        BY <1>1, <2>1, ValuesAre
    <2>3. Holds(op, y, x) <=> InRange(op, Key(x), Key(y))
        BY <2>2, KeysCompare
    <2>4. Term(c, rows[o]) = Key(y)
        BY <1>1, <2>1 DEF Term
    <2> QED BY <2>1, <2>3, <2>4
<1> HIDE DEF hits
<1>9. \A o : o \in hits <=> o \in {p \in DOMAIN rows : Holds(op, rows[p][c], x)}
    BY <1>7, <1>8
<1>10. hits = {p \in DOMAIN rows : Holds(op, rows[p][c], x)}
    BY <1>9
<1> QED BY <1>4, <1>10

(* A value of another type, or a NaN, is refused.                          *)
LEMMA EqRefuses ==
    ASSUME NEW c \in DOMAIN Columns, NEW x, IsNumber(x) \/ IsText(x) \/ x = NaN,
           ~(x.ty = Columns[c] /\ x # NaN)
    PROVE  Eq(c, x) = Refused(IF x.ty = Columns[c] THEN "NaNRejected" ELSE "TypeMismatch")
<1>1. CASE x.ty # Columns[c]
    <2>1. ~(x = NaN /\ Columns[c] = "FLOAT") /\ ~(x.ty = "TEXT" /\ Columns[c] = "TEXT")
        BY <1>1 DEF NaN
    <2> QED BY <1>1, <2>1 DEF Eq
<1>2. CASE x.ty = Columns[c]
    <2>1. x = NaN /\ Columns[c] = "FLOAT"
        BY <1>2 DEF NaN
    <2> QED BY <1>2, <2>1 DEF Eq
<1> QED BY <1>1, <1>2

(* What a lookup finds among the rows its query may see.                   *)
LEMMA MaskedIs ==
    ASSUME NEW S, NEW live, NEW why
    PROVE  /\ Masked(Found(S), live) = Found(S \cap live)
           /\ Masked(Refused(why), live) = Refused(why)
BY DEF Masked, Found, Refused

(* The invariant gives the answers.                                        *)
LEMMA InvLookups == Inv => LookupsExact
<1> SUFFICES ASSUME Inv, phase = "up" PROVE LookupsExact
    BY DEF LookupsExact
<1> USE DEF Inv
<1>1. PICK live, n, ix, s, all :
        live = held.live /\ n = applied /\ ix = index /\ s = slots /\ all = Len(log)
    OBVIOUS
<1>2. /\ held = LiveSet(live) /\ IndexAt(ix, n, live) /\ TuplesAt(s, all) /\ live \subseteq DOMAIN s
      /\ all \in Nat /\ n \in 0 .. all
    <2>1. held = LiveSet(live) /\ IndexAt(ix, n, live) /\ TuplesAt(s, all) /\ live \subseteq DOMAIN s
        BY <1>1 DEF MemInv, UpInv
    <2>2. all \in Nat
        BY <1>1 DEF LogInv
    <2>3. n \in 0 .. all
        BY <1>1, <2>2 DEF MemInv, UpInv
    <2> QED BY <2>1, <2>2, <2>3
<1>3. Installed(n) \subseteq Installed(all) /\ Installed(n) \subseteq 0 .. MaxOrdinal
      /\ \A k \in 1 .. all : log[k] \in RecordSet
    <2>1. all \in 0 .. Len(log) /\ n \in 0 .. Len(log)
        BY <1>1, <1>2
    <2> QED BY <1>1, <1>2, <2>1, ToldInBounds
<1>4. PICK P \in SUBSET Installed(n) : Files(ix, RowsOf(P)) /\ live \subseteq P
    BY <1>2 DEF IndexAt
<1> DEFINE rows == RowsOf(P)
<1>4a. DOMAIN rows = P /\ \A o \in P : rows[o] = RowTold(o)
    BY DEF RowsOf
<1>5. \A o \in P : RowTold(o) \in Rows
    <2> SUFFICES ASSUME NEW o \in P PROVE RowTold(o) \in Rows
        OBVIOUS
    <2>1. PICK k \in 1 .. all : o \in DOMAIN log[k].install
        BY <1>3, ToldIs
    <2>2. RowTold(o) = log[k].install[o]
        BY <1>1, <2>1, RowToldIs
    <2> QED BY <1>3, <2>1, <2>2, RecordIs
<1> HIDE DEF rows
<1>6. \A o \in DOMAIN rows :
         /\ rows[o] = [c \in DOMAIN Columns |-> rows[o][c]]
         /\ \A c \in DOMAIN Columns :
               rows[o][c].ty = Columns[c] /\ (IsNumber(rows[o][c]) \/ IsText(rows[o][c]))
    BY <1>4a, <1>5, SchemaAssumption
<1>7. \A o \in live : o \in DOMAIN rows /\ o \in DOMAIN slots /\ slots[o] = rows[o] /\ rows[o] = RowTold(o)
    <2>1. s = [o \in DOMAIN s |-> RowTold(o)]
        BY <1>2 DEF TuplesAt, RowsOf
    <2>2. \A o \in DOMAIN s : s[o] = RowTold(o)
        BY <2>1
    <2> QED BY <1>1, <1>2, <1>4, <1>4a, <2>2
<1>8. \A o \in live, c \in DOMAIN Columns : Get(o, <<c>>)[1] = rows[o][c]
    <2> SUFFICES ASSUME NEW o \in live, NEW c \in DOMAIN Columns PROVE Get(o, <<c>>)[1] = rows[o][c]
        OBVIOUS
    <2>1. Get(o, <<c>>) = [i \in DOMAIN <<c>> |-> rows[o][<<c>>[i]]]
        BY <1>7 DEF Get
    <2>2. DOMAIN <<c>> = 1 .. 1 /\ <<c>>[1] = c /\ 1 \in 1 .. 1
        OBVIOUS
    <2> QED BY <2>1, <2>2
<1>9. \A o \in held.live : Get(o, [c \in DOMAIN Columns |-> c]) = RowTold(o)
    <2> SUFFICES ASSUME NEW o \in live PROVE Get(o, [c \in DOMAIN Columns |-> c]) = RowTold(o)
        BY <1>1
    <2>1. Get(o, [c \in DOMAIN Columns |-> c]) = [c \in DOMAIN Columns |-> rows[o][c]]
        BY <1>7 DEF Get
    <2> QED BY <1>6, <1>7, <2>1
<1>10. \A o \in 0 .. MaxOrdinal + WordBits : IsLive(held, o) <=> o \in held.live
    <2>1. live \subseteq 0 .. MaxOrdinal /\ \A o \in 0 .. MaxOrdinal + WordBits : o \in Nat
        BY <1>3, <1>4, SizesAssumption
    <2>2. \A o \in Nat : IsLive(LiveSet(live), o) <=> o \in live
        BY <2>1, WordsSay
    <2> QED BY <1>1, <1>2, <2>1, <2>2
<1>11. ASSUME NEW c \in DOMAIN Columns, NEW x \in Probes
       PROVE  LET readable == x.ty = Columns[c] /\ x # NaN
                  InColumn(o) == Get(o, <<c>>)[1]
              IN  /\ LookupEq(c, x, held) =
                        IF readable THEN Found({o \in held.live : Same(InColumn(o), x)})
                        ELSE Refused(IF x.ty = Columns[c] THEN "NaNRejected" ELSE "TypeMismatch")
                  /\ readable /\ x.ty # "TEXT" =>
                        \A op \in Ops :
                           LookupRange(c, op, x, held) = Found({o \in held.live : Holds(op, InColumn(o), x)})
    <2>1. IsNumber(x) \/ IsText(x) \/ x = NaN
        BY ProbesAssumption
    <2>2. CASE ~(x.ty = Columns[c] /\ x # NaN)
        <3>1. Eq(c, x) = Refused(IF x.ty = Columns[c] THEN "NaNRejected" ELSE "TypeMismatch")
            BY <2>1, <2>2, EqRefuses
        <3>2. LookupEq(c, x, held) = Refused(IF x.ty = Columns[c] THEN "NaNRejected" ELSE "TypeMismatch")
            BY <3>1, MaskedIs DEF LookupEq
        <3> QED BY <2>2, <3>2
    <2>3. CASE x.ty = Columns[c] /\ x # NaN
        <3>1. ColumnOK(c, index.columns[c], rows)
            BY <1>1, <1>4 DEF Files, rows
        <3>2. Eq(c, x) = Found({o \in DOMAIN rows : Same(rows[o][c], x)})
            BY <1>6, <2>1, <2>3, <3>1, EqFinds
        <3>3. {o \in DOMAIN rows : Same(rows[o][c], x)} \cap live = {o \in live : Same(Get(o, <<c>>)[1], x)}
            BY <1>7, <1>8
        <3>4. LookupEq(c, x, held) = Found({o \in held.live : Same(Get(o, <<c>>)[1], x)})
            BY <1>1, <3>2, <3>3, MaskedIs DEF LookupEq
        <3>5. ASSUME x.ty # "TEXT", NEW op \in Ops
              PROVE  LookupRange(c, op, x, held) = Found({o \in held.live : Holds(op, Get(o, <<c>>)[1], x)})
            <4>1. Between(c, op, x) = Found({o \in DOMAIN rows : Holds(op, rows[o][c], x)})
                BY <1>6, <2>1, <2>3, <3>1, <3>5, BetweenFinds
            <4>2. {o \in DOMAIN rows : Holds(op, rows[o][c], x)} \cap live =
                  {o \in live : Holds(op, Get(o, <<c>>)[1], x)}
                BY <1>7, <1>8
            <4> QED BY <1>1, <4>1, <4>2, MaskedIs DEF LookupRange
        <3> QED BY <2>3, <3>4, <3>5
    <2> QED BY <2>2, <2>3
<1> QED BY <1>9, <1>10, <1>11 DEF LookupsExact

(* A lookup finds the rows a query may see that have the value, exactly,   *)
(* as the values are read back from the tuple store, also between a        *)
(* record's two stores and when the query is older than retirements; what  *)
(* cannot match is refused; words and sets of live rows agree (index.rs,   *)
(* lookup_eq and lookup_range; tuples.rs, get).                            *)
THEOREM LookupsAreExact == Spec => []LookupsExact
BY Invariance, InvLookups, PTL
=============================================================================
