--------------------------------- MODULE Editor ---------------------------------
(***************************************************************************)
(* The editor of the command write: class Editor.  It keeps the text as a  *)
(* vector of lines with a cursor (line and column), reads one key after    *)
(* another, and returns the lines joined when a key ends the editing.      *)
(*                                                                         *)
(* Keys and characters are the numbers getchar() returns.                  *)
(***************************************************************************)
EXTENDS Integers, Sequences, SequencesExt

CONSTANTS
  Keys,         \* the keys that are pressed; EOF stands for the end of the input
  Texts,        \* the texts the editor is opened with
  MaxText       \* the text does not grow beyond this size: a bound of the model

EOF == -1
NewLine == 10
Char == 0 .. 255
Printable == 32 .. 126
Escape == 27

ASSUME EditorAssumption ==
  /\ Keys \subseteq Char \cup {EOF}
  /\ Texts \subseteq Seq(Char)
  /\ MaxText \in Nat

VARIABLES
  existing,     \* the text the editor is opened with
  lines,
  line, col,    \* cur_line and cur_col, from 0
  prefix,       \* the bytes of a key that takes several, so far
  ended,        \* the input is at its end
  running

vars == <<existing, lines, line, col, prefix, ended, running>>

\* Lines, each with a newline after it.
Terminated(ls) ==
  LET text[k \in 0 .. Len(ls)] ==
        IF k = 0 THEN <<>> ELSE text[k - 1] \o Append(ls[k], NewLine)
  IN  text[Len(ls)]

\* The text that run() returns: the lines with newlines between them.
Joined == Terminated(Front(lines)) \o Last(lines)

\* getline(): a line ends with a newline or with the text, and nothing follows
\* the last newline.
Ends(text) ==
  {k \in DOMAIN text : text[k] = NewLine} \cup
  (IF text # <<>> /\ Last(text) # NewLine THEN {Len(text) + 1} ELSE {})

End(text, j) ==
  CHOOSE e \in Ends(text) : Cardinality({k \in Ends(text) : k <= e}) = j

Split(text) ==
  [j \in 1 .. Cardinality(Ends(text)) |->
     SubSeq(text, IF j = 1 THEN 1 ELSE End(text, j - 1) + 1, End(text, j) - 1)]

Cur == lines[line + 1]
Before == SubSeq(Cur, 1, col)
After == SubSeq(Cur, col + 1, Len(Cur))

Init ==
  /\ existing \in Texts
  /\ lines = IF existing = <<>> THEN << <<>> >> ELSE Split(existing)
  /\ line = Len(lines) - 1
  /\ col = Len(Cur)
  /\ prefix = <<>>
  /\ ended = FALSE
  /\ running = TRUE

-----------------------------------------------------------------------------
(***************************************************************************)
(* The keys.                                                               *)
(***************************************************************************)

\* The next key is k; when the input has ended, there is only EOF for ever.
Key(k) ==
  /\ running
  /\ ended => k = EOF
  /\ ended' = (k = EOF)
  /\ UNCHANGED existing

\* The keys of more than one byte: the arrows of Windows and of Unix terminals.
Arrows == [up    |-> {<<0, 72>>, <<224, 72>>, <<Escape, 91, 65>>},
           down  |-> {<<0, 80>>, <<224, 80>>, <<Escape, 91, 66>>},
           right |-> {<<0, 77>>, <<224, 77>>, <<Escape, 91, 67>>},
           left  |-> {<<0, 75>>, <<224, 75>>, <<Escape, 91, 68>>}]

EndOf(l) == <<l, Len(lines[l + 1])>>

\* Mutant: the cursor keeps its column when it goes to another line.
TargetKeepsColumn(key) ==
  CASE key \in Arrows.up /\ line > 0 -> <<line - 1, col>>
    [] key \in Arrows.down /\ line < Len(lines) - 1 -> <<line + 1, col>>
    [] key \in Arrows.right /\ col < Len(Cur) -> <<line, col + 1>>
    [] key \in Arrows.left /\ col > 0 -> <<line, col - 1>>
    [] OTHER -> <<line, col>>

\* Where such a key takes the cursor.
Target(key) ==
  CASE key \in Arrows.up /\ line > 0 -> EndOf(line - 1)
    [] key \in Arrows.down /\ line < Len(lines) - 1 -> EndOf(line + 1)
    [] key \in Arrows.right /\ col < Len(Cur) -> <<line, col + 1>>
    [] key \in Arrows.left /\ col > 0 -> <<line, col - 1>>
    [] OTHER -> <<line, col>>

Prefix(k) ==
  /\ Key(k)
  /\ \/ prefix = <<>> /\ k \in {0, 224, Escape}
     \/ prefix = <<Escape>> /\ k = 91
  /\ prefix' = Append(prefix, k)
  /\ UNCHANGED <<lines, line, col, running>>

Arrow(k) ==
  /\ Key(k)
  /\ prefix \in {<<0>>, <<224>>, <<Escape, 91>>}
  /\ prefix' = <<>>
  /\ line' = Target(Append(prefix, k))[1] /\ col' = Target(Append(prefix, k))[2]
  /\ UNCHANGED <<lines, running>>

\* Ctrl+D, or an Escape that does not begin an arrow.
Finish(k) ==
  /\ Key(k)
  /\ \/ prefix = <<>> /\ k = 4
     \/ prefix = <<Escape>> /\ k # 91
  /\ running' = FALSE
  /\ prefix' = <<>>
  /\ UNCHANGED <<lines, line, col>>

Room == Len(Joined) < MaxText

Enter(k) ==
  /\ Key(k) /\ prefix = <<>> /\ Room
  /\ k \in {10, 13}
  /\ lines' = SubSeq(lines, 1, line) \o <<Before, After>>
              \o SubSeq(lines, line + 2, Len(lines))
  /\ line' = line + 1 /\ col' = 0
  /\ UNCHANGED <<prefix, running>>

\* Mutant: the column is looked up after the lines have been joined.
BackspaceColumnLate(k) ==
  /\ Key(k) /\ prefix = <<>>
  /\ k \in {8, 127}
  /\ IF col > 0
     THEN /\ lines' = [lines EXCEPT ![line + 1] = RemoveAt(@, col)]
          /\ line' = line /\ col' = col - 1
     ELSE /\ line > 0
          /\ lines' = RemoveAt([lines EXCEPT ![line] = @ \o Cur], line + 1)
          /\ line' = line - 1 /\ col' = Len(lines'[line])
  /\ UNCHANGED <<prefix, running>>

\* At the beginning of a line, Backspace joins it to the one above.
Backspace(k) ==
  /\ Key(k) /\ prefix = <<>>
  /\ k \in {8, 127}
  /\ IF col > 0
     THEN /\ lines' = [lines EXCEPT ![line + 1] = RemoveAt(@, col)]
          /\ line' = line /\ col' = col - 1
     ELSE /\ line > 0
          /\ lines' = RemoveAt([lines EXCEPT ![line] = @ \o Cur], line + 1)
          /\ line' = line - 1 /\ col' = Len(lines[line])
  /\ UNCHANGED <<prefix, running>>

Type(k) ==
  /\ Key(k) /\ prefix = <<>> /\ Room
  /\ k \in Printable
  /\ lines' = [lines EXCEPT ![line + 1] = Before \o <<k>> \o After]
  /\ col' = col + 1
  /\ UNCHANGED <<line, prefix, running>>

Ignored(k) ==
  /\ Key(k) /\ prefix = <<>>
  /\ \/ k \notin Printable \cup {0, 224, Escape, 4, 10, 13, 8, 127}
     \/ k \in {8, 127} /\ line = 0 /\ col = 0
  /\ UNCHANGED <<lines, line, col, prefix, running>>

Press(k) ==
  Prefix(k) \/ Arrow(k) \/ Finish(k) \/ Enter(k) \/ Backspace(k) \/ Type(k) \/ Ignored(k)

Next == \E k \in Keys : Press(k)

\* The user need not press a key; but at the end of the input the loop goes on.
Spec == Init /\ [][Next]_vars /\ WF_vars(ended /\ Press(EOF))

-----------------------------------------------------------------------------
(***************************************************************************)
(* Properties.                                                             *)
(***************************************************************************)

\* The cursor stands in a line that exists, at a column it has: what insert(),
\* erase() and substr() take for granted.
CursorInText ==
  /\ line \in 0 .. Len(lines) - 1 /\ col \in 0 .. Len(Cur)
  /\ \A l \in DOMAIN lines : \A k \in DOMAIN lines[l] : lines[l][k] \in Char \ {NewLine}

\* The characters and newlines before the cursor.
Offset == Len(Terminated(SubSeq(lines, 1, line))) + col

Text == INSTANCE TextBuffer
          WITH original <- existing, text <- Joined, pos <- Offset, done <- ~running

\* The lines and their cursor behave as one text with a position: every key
\* inserts, erases or moves as a text editor promises, and the text returned is
\* the one on the screen.
ImplementsText == Text!Spec

\* Refuted: the text the editor is opened with is its first buffer.
OpenedWhole == Joined = existing

\* Refuted: the editor ends when its input does.
EndsWithInput == ended ~> ~running
=================================================================================
