--------------------------- MODULE MCIndentStream ---------------------------
(* Two streams of different widths, as in the test double_filter.           *)
EXTENDS IndentStream

Widths == [s \in Streams |-> IF s = "outer" THEN 1 ELSE 2]

\* A stuck line can be torn again and again.
Bounded == line.spaces <= 4 * MaxSpaces
=============================================================================
