------------------------------- MODULE Samples -------------------------------
(***************************************************************************)
(* Indicators of the tests, of the indicator_types view and of the mock    *)
(* feed, spelled in the form Indicators looks at.                          *)
(***************************************************************************)
EXTENDS Indicators

Value(text) == [pad |-> FALSE, text |-> text]
Padded(text) == [pad |-> TRUE, text |-> text]

\* Labels: a number, hex digits, letters, letters with hyphens.
Digits(n) ==
    [len |-> IF n < 10 THEN 1 ELSE IF n < 100 THEN 2 ELSE IF n < 1000 THEN 3 ELSE 5,
     chars |-> {"digit"}, edge |-> TRUE, num |-> n, zeroLed |-> n = 0]
ZeroLed(n) == [Digits(n) EXCEPT !.len = @ + 1, !.zeroLed = TRUE]
Label(len, chars) ==
    [len |-> len, chars |-> chars, edge |-> TRUE, num |-> -1, zeroLed |-> FALSE]
Hex(n) == Label(n, {"digit", "hexalpha"})
Word(n) == Label(n, {"hexalpha", "alpha"})
Hyphenated(n) == Label(n, {"digit", "hexalpha", "alpha", "hyphen"})

Dotted(labels) == [form |-> "dotted", labels |-> labels, root |-> FALSE]
Rooted(labels) == [form |-> "dotted", labels |-> labels, root |-> TRUE]
Quad(a) == Dotted([i \in 1..4 |-> Digits(a[i])])
Colon(words) == [form |-> "colon", words |-> words]
URL(scheme, host) ==
    [form |-> "url", scheme |-> scheme, parses |-> TRUE, host |-> host]
Blank == [form |-> "blank"]
Other == [form |-> "other"]

----------------------------------------------------------------------------
\* indicator_test.go and indicator_offline.test: value and type.
Tested == {
    <<Value(Quad(<<1, 2, 3, 4>>)), "ipv4">>,
    <<Padded(Quad(<<8, 8, 8, 8>>)), "ipv4">>,
    <<Value(Colon(<<8193, 18528, 18528, 0, 0, 0, 0, 34952>>)), "ipv6">>,
    <<Value(Colon(<<0, 0, 0, 0, 0, 0, 0, 1>>)), "ipv6">>,
    <<Value(Dotted(<<Word(7), Word(3)>>)), "domain">>,
    <<Value(Dotted(<<Word(3), Hyphenated(11), Word(2), Word(2)>>)), "domain">>,
    <<Value(URL("http", Dotted(<<Word(4), Word(3)>>))), "url">>,
    <<Value(URL("https", Dotted(<<Word(7), Word(3)>>))), "url">>,
    <<Value(URL("ftp", Dotted(<<Word(5), Word(7), Word(3)>>))), "url">>,
    <<Value(Dotted(<<Hex(32)>>)), "md5">>,
    <<Value(Dotted(<<Hex(40)>>)), "sha1">>,
    <<Value(Dotted(<<Hex(64)>>)), "sha256">>,
    <<Value(Blank), NoType>>,
    <<Value(Other), NoType>>,
    <<Value(Dotted(<<Word(9)>>)), NoType>>,
    <<Value(Dotted(<<Digits(12345)>>)), NoType>>,
    <<Value(Dotted(<<Word(32)>>)), NoType>>,
    <<Value(Dotted(<<Hex(22)>>)), NoType>> }

\* Near misses, with the type the code's parsers give them.
NearMisses == {
    <<Value(Rooted(<<Word(7), Word(3)>>)), "domain">>,
    <<Value(Rooted([i \in 1..4 |-> Digits(8)])), NoType>>,
    <<Value(Dotted(<<Digits(8), Digits(8), Digits(8), ZeroLed(8)>>)), NoType>>,
    <<Value(Dotted(<<Digits(8), Digits(8), Digits(8), Digits(256)>>)), NoType>>,
    <<Value(Dotted(<<Digits(8), Digits(8), Digits(8)>>)), NoType>>,
    <<Value(Dotted(<<Digits(8), Digits(8), Digits(8), Word(2)>>)), "domain">>,
    <<Value(Dotted(<<Word(7), Label(8, {"alpha", "hyphen", "digit"})>>)), NoType>>,
    <<Value(Dotted(<<Word(64), Word(3)>>)), NoType>>,
    <<Value(Dotted(<<[Hyphenated(5) EXCEPT !.edge = FALSE], Word(3)>>)), NoType>>,
    <<Value(Dotted(<<Word(7), Word(1)>>)), NoType>>,
    <<Value(URL("hxxp", Dotted(<<Word(4), Word(3)>>))), NoType>>,
    <<Value(URL("http", Blank)), NoType>>,
    <<Value([URL("http", Other) EXCEPT !.parses = FALSE]), NoType>> }

TypeTable == Tested \union NearMisses

=============================================================================
