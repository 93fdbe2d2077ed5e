---------------------------- MODULE MCPascalFile ----------------------------
EXTENDS PascalFile

A == 65
Line(n) == [i \in 1..n |-> A + i]
Blanks(n) == [i \in 1..n |-> Blank]

(* Pieces of a text: short lines, lines of leading blanks above and below  *)
(* what one DLE takes, a line that fills a page, one that does not fit, a  *)
(* last line without an end, and each line end.                            *)
Pieces ==
  {<<LineFeed>>, <<Return>>, <<A, LineFeed, Return>>,
   Line(3) \o <<LineFeed>>, Line(7) \o <<LineFeed>>,
   Blanks(2) \o <<LineFeed>>, Blanks(3) \o <<A, Return>>,
   Blanks(6) \o <<A, LineFeed>>}
LastPieces == Pieces \union {Line(2), Blanks(4), Line(8) \o <<LineFeed>>}

MCTextFiles ==
  LastPieces \union {a \o b : a \in Pieces, b \in LastPieces}
    \union {a \o b \o c : a, b \in Pieces, c \in LastPieces}

MCDataFiles == {Line(n) : n \in {1, 4, 6, 8, 9, 12, 13, 16}}
MCRequests == {4, 8} \X {0, 4, 8, 12, 16}
=============================================================================
