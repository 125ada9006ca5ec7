------------------------------- MODULE TextBuffer -------------------------------
(***************************************************************************)
(* What a text editor promises: a text with a cursor between two of its    *)
(* characters.  Keys insert at the cursor, erase before it or move it; the *)
(* text that editing ends with is the one on the screen.                   *)
(***************************************************************************)
EXTENDS Integers, Sequences

CONSTANTS Char, NewLine

VARIABLES
  original,     \* the text there was
  text, pos, done

vars == <<original, text, pos, done>>

Breaks == {k \in DOMAIN text : text[k] = NewLine}

\* A newline at the end of the text is its end, and not the beginning of a line;
\* the cursor starts at the end, where one goes on writing.
Init ==
  /\ original \in {text, text \o <<NewLine>>}
  /\ original = text /\ text # <<>> => text[Len(text)] # NewLine
  /\ pos = Len(text)
  /\ done = FALSE

Insert ==
  /\ Len(text') = Len(text) + 1
  /\ text'[pos + 1] \in Char
  /\ text = SubSeq(text', 1, pos) \o SubSeq(text', pos + 2, Len(text'))
  /\ pos' = pos + 1

Erase ==
  /\ pos > 0
  /\ text' = SubSeq(text, 1, pos - 1) \o SubSeq(text, pos + 1, Len(text))
  /\ pos' = pos - 1

\* Left and right stay in their line.
Left == pos \in 1 .. Len(text) \ Breaks /\ pos' = pos - 1
Right == pos + 1 \in DOMAIN text \ Breaks /\ pos' = pos + 1

\* Up and down go to the end of the line above or below.
Up ==
  \E k \in Breaks :
    /\ k <= pos /\ \A j \in Breaks : j <= pos => j <= k
    /\ pos' = k - 1

Down ==
  \E k \in Breaks :
    /\ k > pos /\ \A j \in Breaks : j > pos => j >= k
    /\ pos' >= k
    /\ pos' + 1 \in Breaks \cup {Len(text) + 1}
    /\ \A j \in Breaks : j > k => j > pos'

Edit == (Insert \/ Erase) /\ UNCHANGED done
Move == (Left \/ Right \/ Up \/ Down) /\ UNCHANGED <<text, done>>
Finish == done' = TRUE /\ UNCHANGED <<text, pos>>

Next == ~done /\ (Edit \/ Move \/ Finish) /\ UNCHANGED original

Spec == Init /\ [][Next]_vars
=================================================================================
