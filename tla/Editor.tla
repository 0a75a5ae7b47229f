------------------------------- MODULE Editor -------------------------------
(***************************************************************************)
(* The shell's line editor (editor.rs): bytes to keystrokes, keystrokes to *)
(* a line, a history behind the line.                                      *)
(*                                                                         *)
(* A byte is named: a printable character by itself, "ESC", "CR", control  *)
(* bytes "^A" and so on, "lead2" to "lead4" for the first byte of a longer *)
(* character and "tail" for any other byte of one.  The cursor counts      *)
(* characters, which is what keeps it on a boundary in the code.  What is  *)
(* drawn on the terminal is left out.                                      *)
(***************************************************************************)
EXTENDS Naturals, Sequences, SequencesExt

CONSTANTS
    MaxParams,   \* parameter bytes before an escape sequence is given up
    MaxHistory   \* entries the history file keeps

Whitespace == {" ", "nl"}

\* The bytes from 0x40 to 0x7e, which end an escape sequence; every other,
\* a control byte and ESC itself among them, is a parameter.
Finals == {"@", "A", "B", "C", "D", "F", "H", "O", "[", "a", "b", "x", "~"}
Continuations == [b \in {"lead2", "lead3", "lead4"} |->
                    CASE b = "lead2" -> 1 [] b = "lead3" -> 2 [] b = "lead4" -> 3]
Controls == [b \in {"^A", "^B", "^C", "^D", "^E", "^F", "^H", "^I", "CR", "LF", "^K", "^L", "^N",
                    "^P", "^U", "^W", "DEL", "^G"} |->
    CASE b = "^A" -> "home" [] b = "^B" -> "left" [] b = "^C" -> "interrupt" [] b = "^D" -> "eof"
      [] b = "^E" -> "end" [] b = "^F" -> "right" [] b \in {"^H", "DEL"} -> "backspace"
      [] b \in {"CR", "LF"} -> "enter" [] b = "^K" -> "killtoend" [] b = "^L" -> "clear"
      [] b = "^N" -> "down" [] b = "^P" -> "up" [] b = "^U" -> "killtostart"
      [] b = "^W" -> "deleteword" [] b \in {"^I", "^G"} -> "ignored"]

\* A keystroke, or none yet; `unread` is a byte that belongs to the next one.
Key(k) == [key |-> k, char |-> "", unread |-> <<>>]
Char(c) == [key |-> "char", char |-> c, unread |-> <<>>]
NoKey == Key("")

\* The first parameter decides: a variant.
Sequenced_ByFirst(params, final) ==
    CASE final = "A" -> Key("up") [] final = "B" -> Key("down")
      [] final = "C" -> Key("right") [] final = "D" -> Key("left")
      [] final = "~" /\ params # <<>> /\ params[1] = "1" -> Key("home")
      [] final = "~" /\ params # <<>> /\ params[1] = "3" -> Key("delete")
      [] OTHER -> Key("ignored")

\* What an escape sequence with these parameters and this last byte means.
Sequenced(params, final) ==
    LET ctrl == Len(params) >= 2 /\ params[Len(params) - 1] = ";" /\ params[Len(params)] = "5"
    IN  CASE final = "C" -> Key(IF ctrl THEN "wordright" ELSE "right")
          [] final = "D" -> Key(IF ctrl THEN "wordleft" ELSE "left")
          [] final = "A" -> Key("up")
          [] final = "B" -> Key("down")
          [] final = "H" \/ (final = "~" /\ params \in {<<"1">>, <<"7">>}) -> Key("home")
          [] final = "F" \/ (final = "~" /\ params \in {<<"4">>, <<"8">>}) -> Key("end")
          [] final = "~" /\ params = <<"3">> -> Key("delete")
          [] OTHER -> Key("ignored")
Escape(bytes) ==
    LET params == SubSeq(bytes, 3, Len(bytes))
        final == Last(bytes)
    IN  CASE Len(bytes) = 1 -> NoKey
          [] bytes[2] \notin {"[", "O"} -> Key("ignored")
          [] Len(bytes) = 2 -> NoKey
          [] final \in Finals -> Sequenced(Front(params), final)
          [] OTHER -> IF Len(params) > MaxParams THEN Key("ignored") ELSE NoKey

\* A longer character is whole, or broken off by a byte that is not its own.
Utf8(bytes) ==
    IF Last(bytes) # "tail" /\ Len(bytes) > 1
    THEN [Key("ignored") EXCEPT !.unread = <<Last(bytes)>>]
    ELSE IF Len(bytes) = 1 + Continuations[bytes[1]] THEN Char(bytes[1])
    ELSE NoKey

\* The keystroke the bytes read since the last one make.
Decode(bytes) ==
    LET b == bytes[1]
    IN  CASE b = "ESC" -> Escape(bytes)
          [] b \in DOMAIN Continuations -> Utf8(bytes)
          [] b \in DOMAIN Controls -> Key(Controls[b])
          [] b = "tail" -> Key("ignored")
          [] OTHER -> Char(b)

-----------------------------------------------------------------------------
(***************************************************************************)
(* The line being edited: its characters, and how many are left of the     *)
(* cursor.  browsing is the entry of the history shown, 0 for none, and    *)
(* stash the line that was being typed before.                             *)
(***************************************************************************)
NewLine(history) ==
    [text |-> <<>>, cur |-> 0, browsing |-> 0, stash |-> <<>>, history |-> history]

Left(ed) == SubSeq(ed.text, 1, ed.cur)
Right(ed) == SubSeq(ed.text, ed.cur + 1, Len(ed.text))
Shows(ed, text) == [ed EXCEPT !.text = text, !.cur = Len(text)]
Least(a, b) == IF a < b THEN a ELSE b

\* Where the run of whitespace before (after) the cursor and the word beyond
\* it begin (end).
WordStart(ed) ==
    LET gap == CHOOSE j \in 0 .. ed.cur :
                 /\ j = 0 \/ ed.text[j] \notin Whitespace
                 /\ \A k \in j + 1 .. ed.cur : ed.text[k] \in Whitespace
    IN  CHOOSE i \in 0 .. gap : /\ i = 0 \/ ed.text[i] \in Whitespace
                                /\ \A k \in i + 1 .. gap : ed.text[k] \notin Whitespace
WordEnd(ed) ==
    LET n == Len(ed.text)
        gap == CHOOSE j \in ed.cur .. n :
                 /\ j = n \/ ed.text[j + 1] \notin Whitespace
                 /\ \A k \in ed.cur + 1 .. j : ed.text[k] \in Whitespace
    IN  CHOOSE i \in gap .. n : /\ i = n \/ ed.text[i + 1] \in Whitespace
                                /\ \A k \in gap + 1 .. i : ed.text[k] \notin Whitespace

Up(ed) ==
    LET n == Len(ed.history)
    IN  CASE ed.browsing = 0 /\ n > 0 ->
               Shows([ed EXCEPT !.browsing = n, !.stash = ed.text], ed.history[n])
          [] ed.browsing > 1 ->
               Shows([ed EXCEPT !.browsing = @ - 1], ed.history[ed.browsing - 1])
          [] OTHER -> ed
Down(ed) ==
    CASE ed.browsing # 0 /\ ed.browsing < Len(ed.history) ->
           Shows([ed EXCEPT !.browsing = @ + 1], ed.history[ed.browsing + 1])
      [] ed.browsing # 0 /\ ed.browsing = Len(ed.history) ->
           Shows([ed EXCEPT !.browsing = 0, !.stash = <<>>], ed.stash)
      [] OTHER -> ed

\* A keystroke that stays in the line.
Edit(ed, k) ==
    CASE k.key = "char" -> [ed EXCEPT !.text = Left(ed) \o <<k.char>> \o Right(ed), !.cur = @ + 1]
      [] k.key = "backspace" /\ ed.cur > 0 ->
            [ed EXCEPT !.text = Front(Left(ed)) \o Right(ed), !.cur = @ - 1]
      [] k.key \in {"delete", "eof"} /\ Right(ed) # <<>> ->
            [ed EXCEPT !.text = Left(ed) \o Tail(Right(ed))]
      [] k.key = "left" -> [ed EXCEPT !.cur = IF @ = 0 THEN 0 ELSE @ - 1]
      [] k.key = "right" -> [ed EXCEPT !.cur = Least(@ + 1, Len(ed.text))]
      [] k.key = "wordleft" -> [ed EXCEPT !.cur = WordStart(ed)]
      [] k.key = "wordright" -> [ed EXCEPT !.cur = WordEnd(ed)]
      [] k.key = "home" -> [ed EXCEPT !.cur = 0]
      [] k.key = "end" -> [ed EXCEPT !.cur = Len(ed.text)]
      [] k.key = "killtoend" -> [ed EXCEPT !.text = Left(ed)]
      [] k.key = "killtostart" -> [ed EXCEPT !.text = Right(ed), !.cur = 0]
      [] k.key = "deleteword" ->
            [ed EXCEPT !.text = SubSeq(ed.text, 1, WordStart(ed)) \o Right(ed), !.cur = WordStart(ed)]
      [] k.key = "up" -> Up(ed)
      [] k.key = "down" -> Down(ed)
      [] OTHER -> ed

\* A line joins the history unless it is blank or repeats the last.
Remember(history, line) ==
    IF (\A i \in DOMAIN line : line[i] \in Whitespace) \/ (history # <<>> /\ Last(history) = line)
    THEN history ELSE Append(history, line)

\* What the history file keeps.
Saved(history) ==
    SubSeq(history, IF Len(history) > MaxHistory THEN Len(history) - MaxHistory + 1 ELSE 1,
           Len(history))
=============================================================================
