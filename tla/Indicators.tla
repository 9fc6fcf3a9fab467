---------------------------- MODULE Indicators ----------------------------
(***************************************************************************)
(* Offline classification of indicators: IndicatorType and IsPrivateIP of  *)
(* internal/threatworker/indicator.go.                                     *)
(*                                                                         *)
(* A value is [pad, text]: pad says that whitespace surrounds the text.    *)
(* A text is abstracted to what the recognisers look at:                   *)
(*   "blank"   nothing but whitespace;                                     *)
(*   "dotted"  dot-separated labels, root when a final dot follows them    *)
(*             (dotted quads, host names, hex digests: one label);         *)
(*   "colon"   a well-formed IPv6 literal, in any spelling, as the eight   *)
(*             16-bit words it denotes;                                    *)
(*   "url"     scheme://..., whether url.Parse takes it, and its host;     *)
(*   "other"   everything else.                                            *)
(* A label carries the character classes that occur in it, its length,     *)
(* whether both ends are alphanumeric, and, for digits, its value.         *)
(***************************************************************************)
EXTENDS Integers, Sequences

NoType == ""
TypeNames == {"ipv4", "ipv6", "domain", "url", "md5", "sha1", "sha256"}

TrimSpace(v) == v.text

----------------------------------------------------------------------------
\* Recognisers, one per regular expression or parser of the source.

HexLabel(l) == l.chars \subseteq {"digit", "hexalpha"}
AlphaLabel(l) == l.chars \subseteq {"hexalpha", "alpha"}
HostLabel(l) ==
    /\ l.chars \subseteq {"digit", "hexalpha", "alpha", "hyphen"}
    /\ l.edge
    /\ l.len \in 1..63
\* Faulty: a zero in front is no objection.
OctetZeroLed(l) == l.chars = {"digit"} /\ l.len \in 1..4 /\ l.num \in 0..255
Octet(l) ==
    /\ l.chars = {"digit"}
    /\ l.len \in 1..3
    /\ l.zeroLed => l.len = 1
    /\ l.num \in 0..255

\* ^[0-9a-fA-F]{n}$
HexDigest(t, n) ==
    /\ t.form = "dotted" /\ ~t.root
    /\ Len(t.labels) = 1
    /\ HexLabel(t.labels[1]) /\ t.labels[1].len = n

\* Faulty: the last label may be numeric.
DomainReAnyLast(t) ==
    /\ t.form = "dotted"
    /\ Len(t.labels) >= 2
    /\ \A i \in 1..Len(t.labels) : HostLabel(t.labels[i])
\* Host labels, then an all-alphabetic last label of 2 to 63 characters.
DomainRe(t) ==
    /\ t.form = "dotted"
    /\ Len(t.labels) >= 2
    /\ \A i \in 1..(Len(t.labels) - 1) : HostLabel(t.labels[i])
    /\ LET tld == t.labels[Len(t.labels)]
       IN  AlphaLabel(tld) /\ tld.len \in 2..63

LooksLikeURL(t) ==
    /\ t.form = "url"
    /\ t.scheme \in {"http", "https", "ftp"}
    /\ t.parses
    /\ t.host.form # "blank"

\* net.ParseIP: sixteen bytes for either family, NoIP when it is no address.
NoIP == << >>
V4InV6Prefix == <<0, 0, 0, 0, 0, 0, 0, 0, 0, 0, 255, 255>>
WordBytes(words) ==
    [i \in 1..16 |-> IF i % 2 = 1 THEN words[(i + 1) \div 2] \div 256
                                  ELSE words[i \div 2] % 256]
DottedQuad(t) ==
    /\ t.form = "dotted" /\ ~t.root
    /\ Len(t.labels) = 4
    /\ \A i \in 1..4 : Octet(t.labels[i])
ParseIP(t) ==
    IF DottedQuad(t)
    THEN V4InV6Prefix \o [i \in 1..4 |-> t.labels[i].num]
    ELSE IF t.form = "colon" THEN WordBytes(t.words) ELSE NoIP

To4(ip) == IF SubSeq(ip, 1, 12) = V4InV6Prefix THEN SubSeq(ip, 13, 16) ELSE NoIP

----------------------------------------------------------------------------
\* The source tries the recognisers in this order; lemma Exclusive of
\* OfflineScalarsProofs shows that no text matches two of them, so CASE, which
\* takes any branch that applies, means the same.
TypeOfText(t) ==
    LET ip == ParseIP(t)
    IN  CASE HexDigest(t, 64)               -> "sha256"
          [] HexDigest(t, 40)               -> "sha1"
          [] HexDigest(t, 32)               -> "md5"
          [] ip # NoIP /\ To4(ip) # NoIP    -> "ipv4"
          [] ip # NoIP /\ To4(ip) = NoIP    -> "ipv6"
          [] LooksLikeURL(t)                -> "url"
          [] DomainRe(t)                    -> "domain"
          [] OTHER                          -> NoType

\* Faulty: whitespace is left on.
IndicatorTypeUntrimmed(v) == IF v.pad THEN NoType ELSE TypeOfText(v.text)
IndicatorType(v) == TypeOfText(TrimSpace(v))

----------------------------------------------------------------------------
\* Private and reserved ranges: a network, 4 or 16 bytes, and its prefix length.

Net6(lead) == [i \in 1..16 |-> IF i <= Len(lead) THEN lead[i] ELSE 0]
Loopback6 == [Net6(<< >>) EXCEPT ![16] = 1]

PrivateBlocks == {
    [net |-> <<0, 0, 0, 0>>,         bits |-> 8],
    [net |-> <<10, 0, 0, 0>>,        bits |-> 8],
    [net |-> <<100, 64, 0, 0>>,      bits |-> 10],
    [net |-> <<127, 0, 0, 0>>,       bits |-> 8],
    [net |-> <<169, 254, 0, 0>>,     bits |-> 16],
    [net |-> <<172, 16, 0, 0>>,      bits |-> 12],
    [net |-> <<192, 0, 0, 0>>,       bits |-> 24],
    [net |-> <<192, 0, 2, 0>>,       bits |-> 24],
    [net |-> <<192, 168, 0, 0>>,     bits |-> 16],
    [net |-> <<198, 18, 0, 0>>,      bits |-> 15],
    [net |-> <<198, 51, 100, 0>>,    bits |-> 24],
    [net |-> <<203, 0, 113, 0>>,     bits |-> 24],
    [net |-> <<224, 0, 0, 0>>,       bits |-> 4],
    [net |-> <<240, 0, 0, 0>>,       bits |-> 4],
    [net |-> <<255, 255, 255, 255>>, bits |-> 32],
    [net |-> Loopback6,              bits |-> 128],
    [net |-> Net6(<< >>),            bits |-> 128],
    [net |-> Net6(<<252>>),          bits |-> 7],
    [net |-> Net6(<<254, 128>>),     bits |-> 10],
    [net |-> Net6(<<255>>),          bits |-> 8],
    [net |-> Net6(<<32, 1, 13, 184>>), bits |-> 32] }

\* How many of byte i's eight bits a prefix of the given length fixes.
PrefixBits(bits, i) ==
    IF bits >= 8 * i THEN 8
    ELSE IF bits <= 8 * (i - 1) THEN 0 ELSE bits - 8 * (i - 1)

\* net.IPNet.Contains: an IPv4-mapped address is compared as IPv4, and
\* addresses of the other family are never contained.
InPrefix(block, x) ==
    /\ Len(x) = Len(block.net)
    /\ \A i \in 1..Len(x) :
          LET unit == 2^(8 - PrefixBits(block.bits, i))
          IN  x[i] \div unit = block.net[i] \div unit
\* Faulty: an IPv4-mapped address is compared as IPv6 only.
ContainsMapped(block, ip) == To4(ip) = NoIP /\ InPrefix(block, ip)
Contains(block, ip) ==
    InPrefix(block, IF To4(ip) # NoIP THEN To4(ip) ELSE ip)

IsPrivateIP(v) ==
    LET ip == ParseIP(TrimSpace(v))
    IN  ip # NoIP /\ \E block \in PrivateBlocks : Contains(block, ip)

\* Not worth a lookup: NewState of functions.go returns no rows for these.
\* Faulty: private addresses are looked up.
TriagedByTypeOnly(v) == IndicatorType(v) = NoType
Triaged(v) == IndicatorType(v) = NoType \/ IsPrivateIP(v)

============================================================================
