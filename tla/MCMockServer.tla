---------------------------- MODULE MCMockServer ----------------------------
(***************************************************************************)
(* MockServer with two clients asking about two known indicators, an       *)
(* unknown one and a known one with whitespace around it, with the right   *)
(* key, a wrong one and none.                                              *)
(***************************************************************************)
EXTENDS MockServer, TLC

Asking(value, key) == [value |-> value, base |-> "mock", ms |-> 4, key |-> key]
MCCalls ==
    {Asking(v, apiKey) : v \in {TorExit, CleanIP, Value(Quad(<<203, 0, 113, 99>>)),
                                Padded(GoodDomain.text)}}
    \union {Asking(TorExit, key) : key \in {NoKey, "wrong"}}
MCAnswers == {Handler(call) : call \in MCCalls}

=============================================================================
