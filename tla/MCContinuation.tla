--------------------------- MODULE MCContinuation ---------------------------
(***************************************************************************)
(* Continuation with two scans over either transport, two rows a tick in   *)
(* place of 256 and streams of up to five rows: none, a part of a tick,    *)
(* exactly one, one and a part, and three ticks, the shape of              *)
(* TestCursorSurvivesContinuation.                                         *)
(***************************************************************************)
EXTENDS Continuation, TLC

\* Rows told apart by their indicator; the second has a score of 0.0 and no
\* categories, the third neither.
MCRow(i) == RepRow(i, "feed", i % 2 = 0,
                   IF i = 2 THEN "zero" ELSE IF i = 3 THEN "nil" ELSE "nonzero",
                   IF i \in 2..3 THEN "empty" ELSE "some")
MCRows(n) == [i \in 1..n |-> MCRow(i)]
MCStreams == {MCRows(n) : n \in {0, 1, 2, 3, 5}}

=============================================================================
