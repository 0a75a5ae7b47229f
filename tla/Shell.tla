------------------------------- MODULE Shell -------------------------------
(***************************************************************************)
(* The V-SQL shell (main.rs) over the editor, the lexer and the parser:    *)
(* lines come in, are gathered until a `;` ends a statement, split into    *)
(* statements, run one after the other, and their rows are printed.        *)
(*                                                                         *)
(* A terminal sends keystrokes byte by byte while a line is read in raw    *)
(* mode; a script is a text read line by line.  Ctrl-C is a byte in raw    *)
(* mode and a signal otherwise (platform/signal.rs).  What the database    *)
(* answers is any of what a statement of that kind may get.  Prompts,      *)
(* timings, widths and the texts of messages are left out.                 *)
(***************************************************************************)
EXTENDS Grammar, Editor

CONSTANTS
    Scripts,     \* [text, meant]: what a script holds, and the trees it should mean
    Keystrokes,  \* [bytes, keys]: what a terminal sends for some keys
    Histories,   \* what the history file may hold
    MaxStrokes,  \* bound: keystrokes of a session
    MaxRows,     \* bound: rows of an answer
    SampleRows   \* rows held back to measure the columns

VARIABLES
    interactive, \* whether the input is a terminal
    script,      \* the script being run
    input,       \* what is left of its text
    tty,         \* the keys pressed, the bytes not yet read, those of the key being read
    ed,          \* the line editor
    shell,       \* phase, buffer, statements to run, exit code
    table,       \* the result being printed
    interrupted, \* the signal's flag
    pipe,        \* whether anybody still reads the output
    text,        \* everything submitted since a line was last abandoned
    ran          \* what was run, and how it ended

vars == <<interactive, script, input, tty, ed, shell, table, interrupted, pipe, text, ran>>

NoTable == [rows |-> 0, held |-> <<>>, committed |-> FALSE, screen |-> <<>>]
NotBlank(s) == \E i \in DOMAIN s : s[i] \notin Whitespace

Init ==
    /\ interactive \in BOOLEAN
    /\ script \in IF interactive THEN {[text |-> <<>>, meant |-> <<>>, viable |-> 0]} ELSE Scripts
    /\ input = script.text
    /\ tty = [meant |-> <<>>, wire |-> <<>>, read |-> <<>>, got |-> <<>>, strokes |-> 0]
    /\ \E h \in IF interactive THEN Histories ELSE {<<>>} : ed = NewLine(h)
    /\ shell = [phase |-> "read", buffer |-> <<>>, todo |-> <<>>, code |-> 0]
    /\ table = NoTable
    /\ interrupted = FALSE /\ pipe = "open"
    /\ text = <<>> /\ ran = <<>>

Reading == shell.phase = "read"
Quit(code) == shell' = [shell EXCEPT !.phase = "closing", !.code = code]

-----------------------------------------------------------------------------
(***************************************************************************)
(* Splitting.  `;` ends a statement except in a string or a comment.       *)
(***************************************************************************)
\* Only whitespace and comments, and at most one `;` behind them.
RECURSIVE IsBlank(_)
IsBlank(s) ==
    CASE s = <<>> \/ s = <<";">> -> TRUE
      [] s # <<>> /\ Head(s) \in Whitespace -> IsBlank(Tail(s))
      [] Len(s) >= 2 /\ s[1] = "-" /\ s[2] = "-" ->
            IsBlank(SubSeq(s, LineEnd(s, 3), Len(s)))
      [] OTHER -> FALSE

RECURSIVE SplitFrom(_, _, _, _, _)
SplitFrom(s, i, inside, current, done) ==
    LET c == At(s, i)
        more == Append(current, c)
        both == current \o SubSeq(s, i, i + 1)
    IN  CASE c = "end" -> [done |-> done, rest |-> IF IsBlank(current) THEN <<>> ELSE current]
          [] c # "end" /\ inside = "comment" ->
                SplitFrom(s, i + 1, IF c = "nl" THEN "" ELSE inside, more, done)
          [] c = "'" /\ inside = "string" ->
                IF At(s, i + 1) = "'" THEN SplitFrom(s, i + 2, inside, both, done)
                ELSE SplitFrom(s, i + 1, "", more, done)
          [] c \notin {"end", "'"} /\ inside = "string" -> SplitFrom(s, i + 1, inside, more, done)
          [] c = "'" /\ inside = "" -> SplitFrom(s, i + 1, "string", more, done)
          [] c = "-" /\ At(s, i + 1) = "-" /\ inside = "" ->
                SplitFrom(s, i + 2, "comment", both, done)
          [] c = ";" /\ inside = "" ->
                SplitFrom(s, i + 1, "", <<>>, IF IsBlank(more) THEN done ELSE Append(done, more))
          [] OTHER -> SplitFrom(s, i + 1, inside, more, done)
Split(s) == SplitFrom(s, 1, "", <<>>, <<>>)

-----------------------------------------------------------------------------
(***************************************************************************)
(* A line arrives.                                                         *)
(***************************************************************************)
FirstWord(line) ==
    LET start == CHOOSE i \in DOMAIN line :
                   line[i] \notin Whitespace /\ \A k \in 1 .. i - 1 : line[k] \in Whitespace
    IN  SubSeq(line, start, PastRun(line, start, Range(line) \ Whitespace) - 1)

IsMeta(line) == NotBlank(line) /\ ~NotBlank(shell.buffer) /\ FirstWord(line)[1] = "."

\* A meta-command; one that prints may fail to.
MetaCommand(line) ==
    /\ IF FirstWord(line) \in {<<".", "quit">>, <<".", "exit">>} THEN Quit(0)
       ELSE UNCHANGED shell \/ Quit(IF pipe = "closed" THEN 0 ELSE 1)
    /\ UNCHANGED <<text, ran>>

\* The line joins the buffer without its line break: a variant.
Gather_NoLineBreak(line) ==
    LET parts == Split(shell.buffer \o line)
    IN  /\ shell' = [shell EXCEPT !.buffer = parts.rest, !.todo = parts.done,
                                  !.phase = IF parts.done = <<>> THEN "read" ELSE "run"]
        /\ text' = text \o line \o <<"nl">>
        /\ UNCHANGED ran

\* The line joins the buffer, with the line break that ends a comment, and
\* what the buffer completes is run.
Gather(line) ==
    LET parts == Split(shell.buffer \o line \o <<"nl">>)
    IN  /\ shell' = [shell EXCEPT !.buffer = parts.rest, !.todo = parts.done,
                                  !.phase = IF parts.done = <<>> THEN "read" ELSE "run"]
        /\ text' = text \o line \o <<"nl">>
        /\ UNCHANGED ran

Line(line) == IF IsMeta(line) THEN MetaCommand(line) ELSE Gather(line)

Eof == Quit(IF NotBlank(shell.buffer) THEN 1 ELSE 0) /\ UNCHANGED <<text, ran>>

\* Ctrl-C while a line is read: the statement is abandoned, or the script.
Interrupted ==
    /\ IF interactive THEN shell' = [shell EXCEPT !.buffer = <<>>] ELSE Quit(130)
    /\ text' = IF interactive THEN <<>> ELSE text
    /\ ran' = IF interactive THEN <<>> ELSE ran

-----------------------------------------------------------------------------
(***************************************************************************)
(* The terminal.                                                           *)
(***************************************************************************)
Press ==
    /\ interactive /\ Reading /\ tty.wire = <<>> /\ tty.strokes < MaxStrokes
    /\ \E k \in Keystrokes :
          tty' = [meant |-> k.keys, wire |-> k.bytes, read |-> <<>>, got |-> <<>>,
                  strokes |-> tty.strokes + 1]
    /\ UNCHANGED <<interactive, script, input, ed, shell, table, interrupted, pipe, text, ran>>

\* One byte is read, and perhaps completes a keystroke.
Byte ==
    /\ interactive /\ Reading /\ tty.wire # <<>>
    /\ LET k == Decode(Append(tty.read, Head(tty.wire)))
       IN  IF k.key = ""
           THEN /\ tty' = [tty EXCEPT !.wire = Tail(@), !.read = Append(@, Head(tty.wire))]
                /\ UNCHANGED <<ed, shell, text, ran>>
           ELSE /\ tty' = [tty EXCEPT !.wire = k.unread \o Tail(@), !.read = <<>>,
                                      !.got = Append(@, [key |-> k.key, char |-> k.char])]
                /\ CASE k.key = "enter" -> /\ ed' = NewLine(Remember(ed.history, ed.text))
                                           /\ Line(ed.text)
                     [] k.key = "interrupt" -> ed' = NewLine(ed.history) /\ Interrupted
                     [] k.key = "eof" /\ ed.text = <<>> -> ed' = NewLine(ed.history) /\ Eof
                     [] OTHER -> ed' = Edit(ed, k) /\ UNCHANGED <<shell, text, ran>>
    /\ UNCHANGED <<interactive, script, input, table, interrupted, pipe>>

\* The terminal goes away, in the middle of a line, a sequence or a character
\* or not.
HangUp ==
    /\ interactive /\ Reading /\ Eof
    /\ UNCHANGED <<interactive, script, input, tty, ed, table, interrupted, pipe>>

\* The prompt cannot be drawn, or the input not be read.
ReadFails ==
    /\ Reading /\ (interactive => pipe = "closed") /\ Quit(1)
    /\ UNCHANGED <<interactive, script, input, tty, ed, table, interrupted, pipe, text, ran>>

(***************************************************************************)
(* The script.                                                             *)
(***************************************************************************)
ReadLine ==
    /\ ~interactive /\ Reading /\ input # <<>>
    /\ LET end == LineEnd(input, 1)
       IN  Line(SubSeq(input, 1, end - 1)) /\ input' = SubSeq(input, end + 1, Len(input))
    /\ UNCHANGED <<interactive, script, tty, ed, table, interrupted, pipe>>

ReadEof ==
    /\ ~interactive /\ Reading /\ input = <<>> /\ Eof
    /\ UNCHANGED <<interactive, script, input, tty, ed, table, interrupted, pipe>>

\* A signal breaks the read off, and is found to be Ctrl-C.
ReadInterrupted ==
    /\ ~interactive /\ Reading /\ interrupted' = FALSE /\ Interrupted
    /\ UNCHANGED <<interactive, script, input, tty, ed, table, pipe>>

-----------------------------------------------------------------------------
(***************************************************************************)
(* Running a statement.                                                    *)
(***************************************************************************)
\* The rest of the line is run all the same: a variant.
Ended_GoesOn(outcome, t) ==
    /\ ran' = [ran EXCEPT ![Len(ran)].outcome = outcome, ![Len(ran)].rows = t.rows,
                          ![Len(ran)].screen = t.screen]
    /\ shell' = [shell EXCEPT
          !.todo = Tail(@),
          !.phase = IF Len(shell.todo) > 1 THEN "run"
                    ELSE IF ~interactive /\ outcome # "ok" THEN "closing" ELSE "read",
          !.code = IF interactive \/ outcome = "ok" THEN @ ELSE IF outcome = "failed" THEN 1 ELSE 130]

\* How the statement in hand ended, and what of t it printed; a script stops
\* unless it went well.
Ended(outcome, t) ==
    LET halt == ~interactive /\ outcome # "ok"
    IN  /\ ran' = [ran EXCEPT ![Len(ran)].outcome = outcome, ![Len(ran)].rows = t.rows,
                              ![Len(ran)].screen = t.screen]
        /\ shell' = [shell EXCEPT
              !.todo = Tail(@),
              !.phase = IF halt THEN "closing" ELSE IF Len(shell.todo) = 1 THEN "read" ELSE "run",
              !.code = IF ~halt THEN @ ELSE IF outcome = "failed" THEN 1 ELSE 130]
\* The flag is cleared, so that an old Ctrl-C does not cancel a new statement.
Start ==
    /\ shell.phase = "run"
    /\ interrupted' = FALSE /\ table' = NoTable
    /\ shell' = [shell EXCEPT !.phase = "execute"]
    /\ ran' = Append(ran, [text |-> Head(shell.todo), tree |-> Parse(Head(shell.todo)),
                           outcome |-> "", rows |-> 0, screen |-> <<>>])
    /\ UNCHANGED <<interactive, script, input, tty, ed, pipe, text>>

\* Db::execute: refused, done, or about to give rows.
Execute ==
    /\ shell.phase = "execute"
    /\ \/ Ended("failed", NoTable)
       \/ Last(ran).tree.err = "" /\ Last(ran).tree.tree.stmt \notin {"select", "search"} /\ Ended("ok", NoTable)
       \/ /\ Last(ran).tree.err = "" /\ Last(ran).tree.tree.stmt \in {"select", "search"}
          /\ shell' = [shell EXCEPT !.phase = "rows"] /\ UNCHANGED ran
    /\ UNCHANGED <<interactive, script, input, tty, ed, table, interrupted, pipe, text>>

\* The header and the rows held back are printed, the widths are fixed.
Committed(t) == [t EXCEPT !.committed = TRUE, !.held = <<>>, !.screen = @ \o <<0>> \o t.held]

\* One more row, unless Ctrl-C came: held back, or printed as it comes.
Row ==
    /\ shell.phase = "rows" /\ ~interrupted /\ table.rows < MaxRows
    /\ LET n == table.rows + 1
           held == [table EXCEPT !.rows = n, !.held = Append(@, n)]
       IN  table' = IF table.committed THEN [table EXCEPT !.rows = n, !.screen = Append(@, n)]
                    ELSE IF Len(held.held) >= SampleRows THEN Committed(held)
                    ELSE held
    /\ UNCHANGED <<interactive, script, input, tty, ed, shell, interrupted, pipe, text, ran>>
\* The answer ends, faults, or is canceled before the row that is next; the
\* header is due even without rows.
Done ==
    /\ shell.phase = "rows"
    /\ \E outcome \in {"ok", "failed", "canceled"} :
          /\ outcome = "canceled" => interrupted
          /\ outcome = "failed" => ~interrupted
          /\ Ended(outcome, IF table.committed THEN table ELSE Committed(table))
          /\ interrupted' = (interrupted /\ outcome # "canceled")
    /\ table' = NoTable
    /\ UNCHANGED <<interactive, script, input, tty, ed, pipe, text>>

\* Output goes through a buffer, so that a closed pipe shows some time later.
WriteFails ==
    /\ shell.phase \in {"execute", "rows"}
    /\ Quit(IF pipe = "closed" THEN 0 ELSE 1)
    /\ UNCHANGED <<interactive, script, input, tty, ed, table, interrupted, pipe, text, ran>>

Ending == shell.phase \in {"closing", "exited"}

\* Ctrl-C outside raw mode.
Signal ==
    /\ ~Ending /\ ~(interactive /\ Reading) /\ ~interrupted
    /\ interrupted' = TRUE
    /\ UNCHANGED <<interactive, script, input, tty, ed, shell, table, pipe, text, ran>>

ReaderLeaves ==
    /\ ~Ending /\ pipe = "open" /\ pipe' = "closed"
    /\ UNCHANGED <<interactive, script, input, tty, ed, shell, table, interrupted, text, ran>>

\* The history is saved, the output flushed, the database closed.
Exit ==
    /\ shell.phase = "closing"
    /\ ed' = IF interactive THEN NewLine(Saved(ed.history)) ELSE ed
    /\ \E code \in {shell.code, 1} : shell' = [shell EXCEPT !.phase = "exited", !.code = code]
    /\ UNCHANGED <<interactive, script, input, tty, table, interrupted, pipe, text, ran>>

Next ==
    \/ Press \/ Byte \/ HangUp \/ ReadFails
    \/ ReadLine \/ ReadEof \/ ReadInterrupted
    \/ Start \/ Execute \/ Row \/ Done
    \/ WriteFails \/ Signal \/ ReaderLeaves \/ Exit

Spec == Init /\ [][Next]_vars

-----------------------------------------------------------------------------
(***************************************************************************)
(* What a text means, read forwards: its tokens, cut at each `;`.          *)
(***************************************************************************)
Unplaced(tokens) == [i \in DOMAIN tokens |-> [tok |-> tokens[i].tok, v |-> tokens[i].v, n |-> tokens[i].n]]
Lexed(s) == LET tokens == Tokenize(s) IN Unplaced(Front(tokens))
Fault(s) == LET last == Last(Tokenize(s)) IN IF last.tok = "error" THEN last.v[1] ELSE ""

\* The statements a text holds and what is left, an empty statement being none.
Cut(tokens) ==
    FoldLeft(LAMBDA out, t :
                IF t.tok # ";" THEN [out EXCEPT !.rest = Append(@, t)]
                ELSE IF out.rest = <<>> THEN out
                ELSE [done |-> Append(out.done, Append(out.rest, t)), rest |-> <<>>],
             [done |-> <<>>, rest |-> <<>>], tokens)

Handed ==
    LET left == IF shell.phase \in {"execute", "rows"} THEN Tail(shell.todo) ELSE shell.todo
    IN  [i \in DOMAIN ran |-> Lexed(ran[i].text)] \o [i \in DOMAIN left |-> Lexed(left[i])]

\* The splitter cannot disagree with the lexer (main.rs, "Keeping it this
\* small is what keeps it honest"): however the text came in lines, the
\* statements handed to the database are those the lexer finds in the whole,
\* none twice and none lost, and what waits in the buffer is the rest.
SplitterAgrees ==
    LET cut == Cut(Lexed(text))
    IN  /\ Fault(text) \in {"", "UnterminatedString"} /\ shell.phase \in {"read", "run", "execute", "rows"}
           => /\ cut.done = Handed
              /\ cut.rest = Lexed(shell.buffer) /\ Fault(text) = Fault(shell.buffer)

-----------------------------------------------------------------------------
(***************************************************************************)
(* The tokens of a tree, with the fewest parentheses.  Numbers count       *)
(* halves whatever they are written as.                                    *)
(***************************************************************************)
Word(tok) == <<[tok |-> tok, v |-> <<>>, n |-> 0]>>
Name(name) == <<[tok |-> "ident", v |-> name, n |-> 0]>>
Amount(halves) ==
    (IF halves < 0 THEN Word("-") ELSE <<>>) \o
    <<[tok |-> "number", v |-> <<>>, n |-> IF halves < 0 THEN -halves ELSE halves]>>
Listed(items) ==
    FoldLeft(LAMBDA out, item : IF out = <<>> THEN item ELSE out \o Word(",") \o item, <<>>, items)
Names(names) == Listed([i \in DOMAIN names |-> Name(names[i])])

SpellLiteral(l) ==
    CASE l.ty = "INT" -> Amount(2 * l.v[1])
      [] l.ty = "FLOAT" -> Amount(l.v[1])
      [] l.ty = "TEXT" -> <<[tok |-> "string", v |-> l.v, n |-> 0]>>
      [] l.ty = "VECTOR" ->
            Word("[") \o Listed([i \in DOMAIN l.v |-> Amount(l.v[i])]) \o Word("]")

Operator == [lt |-> "<", le |-> "<=", gt |-> ">", ge |-> ">=", eq |-> "=", ne |-> "!="]

\* Binding strength: OR 0, AND 1, comparisons 2, operands 3.
RECURSIVE SpellExpr(_, _)
SpellExpr(e, within) ==
    LET Bound(strength, tokens) ==
            IF strength < within THEN Word("(") \o tokens \o Word(")") ELSE tokens
    IN  CASE e.k = "column" -> Name(e.name)
          [] e.k = "literal" -> SpellLiteral(e.lit)
          [] e.k = "or" -> Bound(0, SpellExpr(e.l, 0) \o Word("or") \o SpellExpr(e.r, 1))
          [] e.k = "and" -> Bound(1, SpellExpr(e.l, 1) \o Word("and") \o SpellExpr(e.r, 2))
          [] e.k = "compare" ->
                Bound(2, SpellExpr(e.l, 3) \o Word(Operator[e.op]) \o SpellExpr(e.r, 3))
SpellWhere(e) == IF e = NoExpr THEN <<>> ELSE Word("where") \o SpellExpr(e, 0)

SpellColumn(c) ==
    Name(c.name)
    \o (IF c.ty = "VECTOR" THEN Name(<<"VECTOR">>) \o Word("(") \o Amount(2 * c.dim) \o Word(")")
        ELSE Name(<<c.ty>>))
    \o (IF c.key THEN Word("primary") \o Word("key") ELSE <<>>)

Spell(s) ==
    CASE s.stmt = "select" ->
            Word("select") \o (IF s.names = <<>> THEN Word("*") ELSE Names(s.names))
            \o Word("from") \o Name(s.collection) \o SpellWhere(s.filter) \o Word(";")
      [] s.stmt = "search" ->
            Word("search") \o Word("top") \o Amount(2 * s.k) \o Word("nearest") \o Word("to")
            \o SpellLiteral(s.query) \o Word("from") \o Name(s.collection) \o SpellWhere(s.filter)
            \o (IF s.names = <<>> THEN <<>> ELSE Word("returning") \o Names(s.names)) \o Word(";")
      [] s.stmt = "insert" ->
            Word("insert") \o Word("into") \o Name(s.collection)
            \o Word("(") \o Names(s.names) \o Word(")") \o Word("values") \o Word("(")
            \o Listed([i \in DOMAIN s.values |-> SpellLiteral(s.values[i])]) \o Word(")") \o Word(";")
      [] s.stmt = "update" ->
            Word("update") \o Name(s.collection) \o Word("set")
            \o Listed([i \in DOMAIN s.assignments |->
                          Name(s.assignments[i].name) \o Word("=")
                          \o SpellLiteral(s.assignments[i].value)])
            \o SpellWhere(s.filter) \o Word(";")
      [] s.stmt = "delete" ->
            Word("delete") \o Word("from") \o Name(s.collection) \o SpellWhere(s.filter) \o Word(";")
      [] s.stmt = "create" ->
            Word("create") \o Word("collection") \o Name(s.collection)
            \o Word("(") \o Listed([i \in DOMAIN s.columns |-> SpellColumn(s.columns[i])]) \o Word(")")
            \o Word("with") \o Word("(")
            \o Listed([i \in DOMAIN s.options |->
                          Name(s.options[i].name) \o Word("=") \o Amount(2 * s.options[i].value)])
            \o Word(")") \o Word(";")

\* Tokens without the parentheses, which a tree does not keep, their numbers
\* in halves and their type names in capitals.
Bare(tokens) ==
    LET kept == SelectSeq(tokens, LAMBDA t : t.tok \notin {"(", ")"})
    IN  [i \in DOMAIN kept |->
           CASE kept[i].tok = "int" -> [kept[i] EXCEPT !.tok = "number", !.n = 2 * @]
             [] kept[i].tok = "float" -> [kept[i] EXCEPT !.tok = "number"]
             [] kept[i].tok = "ident" ->
                   [kept[i] EXCEPT !.v = [j \in DOMAIN @ |-> Folded(@[j])]]
             [] OTHER -> kept[i]]

\* What runs is what was written, wherever lines break, whatever comments
\* stand between two words and whichever way a word is written: the tree is
\* the one meant.  And what is not a statement is refused (parser.rs): a text
\* that is accepted has the tokens of its tree and no other in no other
\* order, in particular no UPDATE or DELETE without WHERE and nothing behind
\* the `;`; one that is refused is blamed no earlier than where it stops being
\* the beginning of a statement.
MeansWhatIsWritten ==
    \A i \in DOMAIN ran :
        LET tree == ran[i].tree
        IN  /\ script.meant # <<>> => tree.err = "" /\ tree.tree = script.meant[i]
            /\ tree.err = "" => Bare(Spell(tree.tree)) = Bare(Lexed(ran[i].text))
            /\ tree.err # "" /\ i = 1 => tree.p > script.viable

\* A key does what it says: however its bytes arrive, and whatever a broken
\* character or an unknown sequence before it left, the keystrokes read are
\* those pressed, and no byte of a sequence ends up in the line (editor.rs,
\* escape: "what keeps a stray sequence from spraying its bytes"); one that is
\* too long is given up, and what follows it is read again.  Escape alone takes
\* the next key with it, Enter too, against what editor.rs:33 says.
KeysArrive ==
    /\ IsPrefix(tty.got, tty.meant)
    /\ tty.wire = <<>> => tty.got = tty.meant /\ tty.read = <<>>

\* A script's exit code tells the truth: nothing runs after a statement that
\* failed or was canceled; a run that ends well ran every statement of the
\* script and left none open, unless the script quits or nobody reads its
\* output any more; and of every result the header and each row that came
\* were printed once, in order, also when it broke off.
ExitTellsTruth ==
    /\ \A i \in DOMAIN ran :
          /\ ran[i].outcome = "" \/ ran[i].screen = <<>> \/ ran[i].screen = [n \in 1 .. ran[i].rows + 1 |-> n - 1]
          /\ ran[i].rows > 0 => ran[i].screen # <<>>
          /\ ~interactive /\ i < Len(ran) => ran[i].outcome = "ok"
    /\ ~interactive /\ shell.phase = "closing" /\ shell.code = 0 /\ pipe = "open"
       /\ "quit" \notin Range(script.text)
          => LET cut == Cut(Lexed(script.text))
             IN  /\ \A i \in DOMAIN ran : ran[i].outcome = "ok"
                 /\ Fault(script.text) = "" => cut.rest = <<>> /\ Len(ran) = Len(cut.done)
=============================================================================
