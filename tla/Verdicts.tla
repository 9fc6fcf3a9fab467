------------------------------ MODULE Verdicts ------------------------------
(***************************************************************************)
(* Verdict rows on their way from the feed's JSON to DuckDB: RepResponse,  *)
(* RepRow and projectReputation of internal/threatworker/client.go, the    *)
(* column builders of functions.go, and the gob encoding the SDK applies   *)
(* to the scan state in between.                                           *)
(*                                                                         *)
(* Source and LastSeen are copied through unchanged at every stage and are *)
(* left out.  A score is "nil", "zero" or "nonzero" behind a *float64, and *)
(* "NULL", "zero" or "nonzero" in SQL.  Categories are "nil", "empty" or   *)
(* "some" in Go, "empty" or "some" in SQL.                                 *)
(***************************************************************************)
EXTENDS Indicators

\* The scans of reputation() that are running; shared by every module above.
CONSTANT Scans

Scores     == {"nil", "zero", "nonzero"}
Categories == {"nil", "empty", "some"}

\* A feed's type string after strings.TrimSpace: blank, or a name of its own.
RepRow(indicator, type, malicious, score, categories) ==
    [indicator |-> indicator, type |-> type, malicious |-> malicious,
     score |-> score, categories |-> categories]

\* Faulty: the type is the feed's, given or not.
projectWithoutType(indicator, r) ==
    RepRow(indicator, r.type, r.malicious, r.score, r.categories)
\* The caller's indicator is echoed; the one the feed reports is dropped.
projectReputation(indicator, r) ==
    RepRow(indicator,
           IF r.type = NoType THEN IndicatorType(indicator) ELSE r.type,
           r.malicious,
           r.score,
           IF r.categories = "nil" THEN "empty" ELSE r.categories)

\* A sequence, whatever its rows are.
IsRows(rows) == rows \in Seq({rows[i] : i \in 1..Len(rows)})

----------------------------------------------------------------------------
\* gob leaves out a field that holds its type's zero value, following
\* pointers: a pointer to 0.0 is left out like a nil one, and an empty slice
\* like a nil one.  The decoder leaves such fields nil.
GobScore(score) == IF score = "zero" THEN "nil" ELSE score
GobCategories(cats) == IF cats = "empty" THEN "nil" ELSE cats
GobRow(r) == [r EXCEPT !.score = GobScore(@), !.categories = GobCategories(@)]
GobRows(rows) == [i \in 1..Len(rows) |-> GobRow(rows[i])]

\* buildNullableScore and buildStringListArray: a nil score is SQL NULL, a
\* list is appended for every row, nil or not.
buildNullableScore(score) == IF score = "nil" THEN "NULL" ELSE score
buildStringListArray(cats) == IF cats = "nil" THEN "empty" ELSE cats
SqlRow(r) == [r EXCEPT !.score = buildNullableScore(@),
                       !.categories = buildStringListArray(@)]
SqlRows(rows) == [i \in 1..Len(rows) |-> SqlRow(rows[i])]

=============================================================================
