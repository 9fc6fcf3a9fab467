-------------------------- MODULE MCOfflineScalars --------------------------
(***************************************************************************)
(* OfflineScalars over the inputs of indicator_test.go and                 *)
(* indicator_offline.test, the boundary addresses of every reserved range, *)
(* their IPv4-mapped spellings, near misses of every recogniser, and what  *)
(* the catalog names as examples.                                          *)
(***************************************************************************)
EXTENDS Catalog, TLC

Mapped(a) == Colon(<<0, 0, 0, 0, 0, 65535, a[1] * 256 + a[2], a[3] * 256 + a[4]>>)

----------------------------------------------------------------------------
\* The neighbours of an address with the given base.
Roll(a, base, from, to, step) ==
    LET moves(i) == \A j \in (i + 1)..Len(a) : a[j] = from
    IN  [i \in 1..Len(a) |->
            IF ~moves(i) THEN a[i] ELSE IF a[i] = from THEN to ELSE a[i] + step]
Before(a, base) == Roll(a, base, 0, base - 1, -1)
After(a, base) == Roll(a, base, base - 1, 0, 1)
Edges(ranges, base) ==
    UNION {{r[1], r[2], Before(r[1], base), After(r[2], base)} : r \in ranges}

Addresses4 == Edges(Ranges4, 256) \union {<<8, 8, 8, 8>>, <<93, 184, 216, 34>>}
Addresses6 == Edges(Ranges6, 65536)
                \union {<<8193, 18528, 18528, 0, 0, 0, 0, 34952>>}

----------------------------------------------------------------------------
Corpus ==
    {pair[1] : pair \in TypeTable}
    \union {row[2] : row \in indicatorTypesViewDef}
    \union {ex[1] : ex \in DocumentedTypes}
    \union {ex[1] : ex \in DocumentedPrivate}
    \union DocumentedOffline \union SchemaEnriched
    \union {Value(Quad(a)) : a \in Addresses4}
    \union {Padded(Quad(<<10, 0, 0, 1>>))}
    \union {Value(Mapped(a)) : a \in Addresses4}
    \union {Value(Colon(a)) : a \in Addresses6}

Cell(v) == [null |-> FALSE, value |-> v]
NullCell == [null |-> TRUE, value |-> Value(Blank)]

\* Every value alone, and every value with a NULL before and after it.
MCBatches == {<<Cell(v)>> : v \in Corpus}
                 \union {<<NullCell, Cell(v), NullCell>> : v \in Corpus}

=============================================================================
