------------------------------ MODULE MCLookup ------------------------------
(***************************************************************************)
(* Lookup with eight-bit integers in place of int64 and every timeout_ms   *)
(* they hold, ten nanoseconds to the millisecond, redirect chains cut at   *)
(* ten requests as in net/http, and a feed that may answer every status    *)
(* the code tells apart with every kind of body.  One scan is enough:      *)
(* calls share no state.                                                   *)
(***************************************************************************)
EXTENDS Lookup, Samples, TLC

\* Every timeout an eight-bit argument can hold, and every kind of base_url.
MCCalls ==
    [value : {Value(Quad(<<8, 8, 8, 8>>))}, base : {"feed"}, ms : -HalfRange..(HalfRange - 1)]
    \union [value : {Value(Dotted(<<Word(4), Word(3)>>))}, base : {"blank", "unparsable"}, ms : {2}]

Rep(type, malicious, score, categories) ==
    [type |-> type, malicious |-> malicious, score |-> score,
     categories |-> categories]
MCReps == {Rep("feed", TRUE, "nonzero", "some"), Rep(NoType, FALSE, "zero", "nil")}

Broken(status, located) == [NoAnswer EXCEPT !.status = status, !.located = located]
Decoded(status) == {[status |-> status, located |-> FALSE, json |-> TRUE, rep |-> r] :
                       r \in MCReps}
MCAnswers ==
    Decoded(200) \union Decoded(300) \union Decoded(404) \union
    {Broken(200, FALSE), Broken(302, TRUE), Broken(302, FALSE), Broken(401, FALSE),
     Broken(404, FALSE), Broken(429, FALSE), Broken(500, FALSE)}

=============================================================================
