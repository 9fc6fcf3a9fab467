---------------------------- MODULE MCReputation ----------------------------
(***************************************************************************)
(* Reputation with two scans over either transport.  The arguments cover   *)
(* every way through NewState: arguments that do not bind, NULL, an        *)
(* unrecognised string, a private address, and a lookup whose timeout_ms   *)
(* overflows; the answers cover a verdict row, a body that does not        *)
(* decode, a 404 and an error status.                                      *)
(***************************************************************************)
EXTENDS Reputation, Samples, TLC

Public   == Value(Quad(<<8, 8, 8, 8>>))
Private  == Value(Quad(<<10, 1, 2, 3>>))
Unknown  == Value(Other)
Link(host) == Value(URL("http", host))

Query(value, ms) ==
    [binds |-> TRUE, null |-> FALSE,
     call |-> [value |-> value, base |-> "feed", ms |-> ms]]
MCQueries ==
    {Query(Public, 4), Query(Private, 2), Query(Unknown, 2),
     [NoQuery EXCEPT !.call = [NoCall EXCEPT !.base = "feed"]],
     [Query(Public, 4) EXCEPT !.binds = FALSE]}
MCCalls == {q.call : q \in MCQueries}

\* URLs, to a public host and to a private address.
URLQueries == {Query(Link(Dotted(<<Word(4), Word(3)>>)), 2), Query(Link(Quad(<<10, 1, 2, 3>>)), 2)}
URLCalls == {q.call : q \in URLQueries}

\* The "unknown" indicator of reputation_api.test:77.
ProbeQueries == {Query(Value(Quad(<<203, 0, 113, 7>>)), 2)}
ProbeCalls == {q.call : q \in ProbeQueries}

Answer(status, json, rep) ==
    [status |-> status, located |-> FALSE, json |-> json, rep |-> rep]
MCAnswers ==
    {Answer(200, TRUE, [type |-> NoType, malicious |-> TRUE, score |-> "zero",
                        categories |-> "nil"]),
     Answer(200, FALSE, NoAnswer.rep),
     Answer(404, FALSE, NoAnswer.rep),
     Answer(500, FALSE, NoAnswer.rep)}

=============================================================================
