--------------------------- MODULE OfflineScalars ---------------------------
(***************************************************************************)
(* The scalar functions indicator_type and is_private_ip over one batch,   *)
(* row by row: IndicatorTypeFunction.Process and IsPrivateIPFunction.      *)
(* Process of internal/threatworker/functions.go, and the SQL shortlist of *)
(* README.md they are written for.  DuckDB may run the two over a batch in *)
(* any order.                                                              *)
(***************************************************************************)
EXTENDS Reserved, Samples

CONSTANTS Batches,   \* the columns to run over: sequences of [null, value]
          Null       \* SQL NULL

ASSUME NullAssumption == Null \notin TypeNames \union {NoType} /\ Null \notin BOOLEAN
ASSUME BatchAssumption ==
    \A b \in Batches :
        /\ b \in Seq({b[i] : i \in 1..Len(b)})
        /\ \A i \in 1..Len(b) : b[i].null \in BOOLEAN
ASSUME WordsAssumption ==
    \A b \in Batches : \A i \in 1..Len(b) :
        b[i].value.text.form = "colon"
        => /\ b[i].value.text.words \in Seq(Int)
           /\ Len(b[i].value.text.words) = 8
           /\ \A k \in 1..8 : LET w == b[i].value.text.words[k]
                              IN  0 <= w /\ w < 65536

VARIABLES col, types, privs

scalarVars == <<col, types, privs>>

\* A NULL cell and an unrecognised value both come out as NULL.
\* Faulty: an unrecognised value comes out as "".
TypeCellBlank(cell) == IF cell.null THEN Null ELSE IndicatorType(cell.value)
TypeCell(cell) ==
    IF cell.null \/ IndicatorType(cell.value) = NoType
    THEN Null ELSE IndicatorType(cell.value)

\* vgi.MapColumn: whether it hands a NULL cell to the callback, which answers
\* FALSE for an empty string, or returns NULL itself is not said in this code.
PrivCells(cell) ==
    IF cell.null THEN {FALSE, Null} ELSE {IsPrivateIP(cell.value)}

ScalarInit ==
    /\ col \in Batches
    /\ types = << >>
    /\ privs = << >>

TypeRow ==
    /\ Len(types) < Len(col)
    /\ types' = Append(types, TypeCell(col[Len(types) + 1]))
    /\ UNCHANGED <<col, privs>>

PrivRow ==
    /\ Len(privs) < Len(col)
    /\ \E out \in PrivCells(col[Len(privs) + 1]) : privs' = Append(privs, out)
    /\ UNCHANGED <<col, types>>

ScalarNext == TypeRow \/ PrivRow
ScalarSpec == ScalarInit /\ [][ScalarNext]_scalarVars

----------------------------------------------------------------------------
\* WHERE indicator_type(value) IS NOT NULL AND NOT is_private_ip(value),
\* under SQL's three-valued logic.
Shortlisted(i) == types[i] # Null /\ privs[i] = FALSE

Answered(i) == i \in 1..Len(types) /\ i \in 1..Len(privs)

\* Type invariant: the outputs are as long as the rows done, in their ranges.
ScalarTypeOK ==
    /\ col \in Batches
    /\ Len(types) <= Len(col) /\ Len(privs) <= Len(col)
    /\ \A i \in 1..Len(types) : types[i] \in TypeNames \union {Null}
    /\ \A i \in 1..Len(privs) : privs[i] \in BOOLEAN \union {Null}

\* README.md's two-step recipe loses nothing and wastes nothing: a row of the
\* column is shortlisted by the scalars exactly when reputation() would spend
\* a lookup on it, NULL rows included.
ShortlistIsWhatIsLookedUp ==
    \A i \in 1..Len(col) :
        Answered(i) => (Shortlisted(i) <=> ~col[i].null /\ ~Triaged(col[i].value))

\* The order in which IndicatorType tries its recognisers is one of cost, not of
\* meaning, whatever the comment at indicator.go:44-45 makes of it: at most one of
\* them takes a value.  So a recogniser may be widened, or one be added, only with
\* an eye on the others, not on its place among them.
Kinds == {"sha256", "sha1", "md5", "address", "url", "domain"}
Takes(kind, t) ==
    \/ kind = "sha256"  /\ HexDigest(t, 64)
    \/ kind = "sha1"    /\ HexDigest(t, 40)
    \/ kind = "md5"     /\ HexDigest(t, 32)
    \/ kind = "address" /\ ParseIP(t) # NoIP
    \/ kind = "url"     /\ LooksLikeURL(t)
    \/ kind = "domain"  /\ DomainRe(t)
RecognisersExclusive ==
    \A i \in 1..Len(col) : \A a, b \in Kinds :
        LET t == TrimSpace(col[i].value)
        IN  Takes(a, t) /\ Takes(b, t) => a = b

\* Only address literals are ever private: the gate drops no domain, URL or
\* hash, and a private row always has a type.
PrivateRowsAreAddresses ==
    \A i \in 1..Len(col) :
        Answered(i) /\ privs[i] = TRUE => types[i] \in {"ipv4", "ipv6"}

\* is_private_ip holds exactly for the addresses between the first and the
\* last one of a reserved range, in plain and in IPv4-mapped spelling: no
\* range of the table is one bit too wide or too narrow.
PrivateMeansReserved ==
    \A i \in 1..Len(privs) :
        LET t  == TrimSpace(col[i].value)
            ip == ParseIP(t)
        IN  /\ ~col[i].null
            /\ ip # NoIP
            => privs[i] = IF To4(ip) # NoIP THEN Within(Ranges4, To4(ip))
                          ELSE Within(Ranges6, t.words)

\* indicator_type answers what the Go and SQL tests, and the parsers the code
\* is built from, say of each value: NULL and not "" for what it cannot type.
TypesAreAsTested ==
    \A i \in 1..Len(types) : \A pair \in TypeTable :
        ~col[i].null /\ col[i].value = pair[1]
        => types[i] = IF pair[2] = NoType THEN Null ELSE pair[2]

=============================================================================
