-------------------------------- MODULE MCEditor --------------------------------
(* Ctrl+D, Escape, Enter, Backspace, both kinds of arrows, whose bytes can be    *)
(* typed as characters too, and the end of the input.                            *)
EXTENDS Editor

MCKeys == {EOF, 0, 4, 8, 13, Escape, 65, 66, 67, 68, 72, 75, 77, 80, 91}

\* No line, one, several, an empty one, and a newline at the end.
MCTexts == {<<>>, <<97>>, <<97, 10, 98>>, <<10, 97>>, <<97, 10>>}
=================================================================================
