------------------------ MODULE OfflineScalarsProofs ------------------------
(***************************************************************************)
(* What holds of the classifiers and of the scalar functions for every     *)
(* value and every column, not only those of MCOfflineScalars.             *)
(***************************************************************************)
EXTENDS Catalog, IndicatorsProofs

\* What a text looks like that a recogniser takes, and who else refuses it.
LEMMA HexForm ==
    ASSUME NEW t, NEW n \in {32, 40, 64}, HexDigest(t, n)
    PROVE  /\ t.form = "dotted" /\ Len(t.labels) = 1
           /\ ParseIP(t) = NoIP /\ ~LooksLikeURL(t) /\ ~DomainRe(t)
           /\ \A m \in {32, 40, 64} : HexDigest(t, m) => m = n
<1>1. t.form = "dotted" /\ Len(t.labels) = 1 /\ t.labels[1].len = n
  BY DEF HexDigest
<1>2. ~DottedQuad(t) /\ ~DomainRe(t)
  BY <1>1 DEF DottedQuad, DomainRe
<1>3. ParseIP(t) = NoIP
  BY <1>1, <1>2 DEF ParseIP
<1>4. ~LooksLikeURL(t)
  BY <1>1 DEF LooksLikeURL
<1>5. \A m \in {32, 40, 64} : HexDigest(t, m) => m = n
  BY <1>1 DEF HexDigest
<1> QED
  BY <1>1, <1>2, <1>3, <1>4, <1>5

LEMMA AddressForm ==
    ASSUME NEW t, ParseIP(t) # NoIP
    PROVE  ~LooksLikeURL(t) /\ ~DomainRe(t)
<1>1. DottedQuad(t) \/ t.form = "colon"
  BY DEF ParseIP
<1>2. CASE t.form = "colon"
  BY <1>2 DEF LooksLikeURL, DomainRe
<1>3. CASE DottedQuad(t)
  <2>1. t.form = "dotted" /\ Len(t.labels) = 4 /\ t.labels[4].chars = {"digit"}
    BY <1>3 DEF DottedQuad, Octet
  <2>2. ~AlphaLabel(t.labels[4])
    BY <2>1 DEF AlphaLabel
  <2> QED
    BY <2>1, <2>2 DEF LooksLikeURL, DomainRe
<1> QED
  BY <1>1, <1>2, <1>3

LEMMA URLForm ==
    ASSUME NEW t, LooksLikeURL(t)
    PROVE  ~DomainRe(t)
BY DEF LooksLikeURL, DomainRe

\* A text that one recogniser takes is refused by all the others, so the order
\* in which IndicatorType tries them does not matter.
LEMMA Exclusive ==
    ASSUME NEW t, NEW a \in Kinds, NEW b \in Kinds, Takes(a, t), Takes(b, t)
    PROVE  a = b
<1>1. ASSUME NEW n \in {32, 40, 64}, HexDigest(t, n)
      PROVE  /\ ~(ParseIP(t) # NoIP) /\ ~LooksLikeURL(t) /\ ~DomainRe(t)
             /\ \A m \in {32, 40, 64} : HexDigest(t, m) => m = n
  BY <1>1, HexForm
<1>2. ParseIP(t) # NoIP => ~LooksLikeURL(t) /\ ~DomainRe(t)
  BY AddressForm
<1>3. LooksLikeURL(t) => ~DomainRe(t)
  BY URLForm
<1> QED
  BY <1>1, <1>2, <1>3 DEF Kinds, Takes

LEMMA TypeRange ==
    ASSUME NEW t
    PROVE  TypeOfText(t) \in TypeNames \union {NoType}
BY DEF TypeOfText, TypeNames

\* An address literal is typed as one, whatever it denotes.
LEMMA AddressType ==
    ASSUME NEW t, ParseIP(t) # NoIP
    PROVE  TypeOfText(t) \in {"ipv4", "ipv6"}
<1>1. ~HexDigest(t, 64) /\ ~HexDigest(t, 40) /\ ~HexDigest(t, 32)
  BY HexForm
<1>2. ~LooksLikeURL(t) /\ ~DomainRe(t)
  BY AddressForm
<1> QED
  BY <1>1, <1>2 DEF TypeOfText

LEMMA PrivateType ==
    ASSUME NEW v, IsPrivateIP(v)
    PROVE  IndicatorType(v) \in {"ipv4", "ipv6"}
BY AddressType DEF IsPrivateIP, IndicatorType

----------------------------------------------------------------------------
\* The inductive invariant: each output row is computed from its own cell.
CellwiseInv ==
    /\ col \in Batches
    /\ types \in Seq(TypeNames \union {Null})
    /\ privs \in Seq(BOOLEAN \union {Null})
    /\ Len(types) <= Len(col) /\ Len(privs) <= Len(col)
    /\ \A i \in 1..Len(types) : types[i] = TypeCell(col[i])
    /\ \A i \in 1..Len(privs) : privs[i] \in PrivCells(col[i])

LEMMA Columns ==
    ASSUME NEW b \in Batches
    PROVE  /\ Len(b) \in Nat
           /\ \A i \in 1..Len(b) : b[i].null \in BOOLEAN
<1>1. b \in Seq({b[i] : i \in 1..Len(b)})
  BY BatchAssumption
<1> QED
  BY <1>1, BatchAssumption

LEMMA TypeCellRange ==
    ASSUME NEW cell
    PROVE  TypeCell(cell) \in TypeNames \union {Null}
BY TypeRange DEF TypeCell, IndicatorType

LEMMA PrivCellRange ==
    ASSUME NEW cell
    PROVE  PrivCells(cell) \subseteq BOOLEAN \union {Null}
BY DEF PrivCells, IsPrivateIP

THEOREM Cellwise == ScalarSpec => []CellwiseInv
<1>1. ScalarInit => CellwiseInv
  BY Columns DEF ScalarInit, CellwiseInv
<1>2. CellwiseInv /\ [ScalarNext]_scalarVars => CellwiseInv'
  <2> SUFFICES ASSUME CellwiseInv, [ScalarNext]_scalarVars
               PROVE  CellwiseInv'
    OBVIOUS
  <2> USE DEF CellwiseInv
  <2>0. Len(col) \in Nat /\ Len(types) \in Nat /\ Len(privs) \in Nat
    BY Columns
  <2>1. CASE TypeRow
    <3> DEFINE out == TypeCell(col[Len(types) + 1])
    <3>1. /\ types' = Append(types, out) /\ UNCHANGED <<col, privs>>
          /\ Len(types) < Len(col)
      BY <2>1 DEF TypeRow
    <3>2. out \in TypeNames \union {Null}
      BY TypeCellRange
    <3> HIDE DEF out
    <3>3. types' \in Seq(TypeNames \union {Null}) /\ Len(types') = Len(types) + 1
      BY <3>1, <3>2
    <3>4. \A i \in 1..Len(types') : types'[i] = TypeCell(col[i])
      <4> SUFFICES ASSUME NEW i \in 1..Len(types')
                   PROVE  types'[i] = TypeCell(col[i])
        OBVIOUS
      <4>1. CASE i \in 1..Len(types)
        BY <4>1, <3>1
      <4>2. CASE i = Len(types) + 1
        BY <4>2, <3>1 DEF out
      <4> QED
        BY <4>1, <4>2, <3>3, <2>0
    <3> QED
      BY <3>1, <3>3, <3>4, <2>0
  <2>2. CASE PrivRow
    <3>1. PICK out \in PrivCells(col[Len(privs) + 1]) : privs' = Append(privs, out)
      BY <2>2 DEF PrivRow
    <3>2. UNCHANGED <<col, types>> /\ Len(privs) < Len(col)
      BY <2>2 DEF PrivRow
    <3>3. privs' \in Seq(BOOLEAN \union {Null}) /\ Len(privs') = Len(privs) + 1
      BY <3>1, PrivCellRange
    <3>4. \A i \in 1..Len(privs') : privs'[i] \in PrivCells(col[i])
      <4> SUFFICES ASSUME NEW i \in 1..Len(privs')
                   PROVE  privs'[i] \in PrivCells(col[i])
        OBVIOUS
      <4>1. CASE i \in 1..Len(privs)
        BY <4>1, <3>1
      <4>2. CASE i = Len(privs) + 1
        BY <4>2, <3>1
      <4> QED
        BY <4>1, <4>2, <3>3, <2>0
    <3> QED
      BY <3>2, <3>3, <3>4, <2>0
  <2>3. CASE UNCHANGED scalarVars
    BY <2>3 DEF scalarVars
  <2> QED
    BY <2>1, <2>2, <2>3 DEF ScalarNext
<1> QED
  BY <1>1, <1>2, PTL DEF ScalarSpec

\* The type invariant, for every column.
THEOREM ScalarTypeCorrect == ScalarSpec => []ScalarTypeOK
<1>1. CellwiseInv => ScalarTypeOK
  BY DEF CellwiseInv, ScalarTypeOK
<1> QED
  BY <1>1, Cellwise, PTL

\* The shortlist of README.md is what reputation() looks up, for every column.
THEOREM ShortlistCorrect == ScalarSpec => []ShortlistIsWhatIsLookedUp
<1>1. CellwiseInv => ShortlistIsWhatIsLookedUp
  <2> SUFFICES ASSUME CellwiseInv, NEW i \in 1..Len(col), Answered(i)
               PROVE  Shortlisted(i) <=> ~col[i].null /\ ~Triaged(col[i].value)
    BY DEF ShortlistIsWhatIsLookedUp
  <2>1. types[i] = TypeCell(col[i]) /\ privs[i] \in PrivCells(col[i])
    BY DEF CellwiseInv, Answered
  <2>2. col[i].null \in BOOLEAN
    BY Columns DEF CellwiseInv
  <2>3. IndicatorType(col[i].value) \in TypeNames \union {NoType}
    BY TypeRange DEF IndicatorType
  <2>4. CASE col[i].null
    BY <2>1, <2>4 DEF TypeCell, Shortlisted
  <2>5. CASE ~col[i].null
    <3>1. (types[i] # Null) <=> (IndicatorType(col[i].value) # NoType)
      BY <2>1, <2>3, <2>5, NullAssumption DEF TypeCell
    <3>2. privs[i] = IsPrivateIP(col[i].value)
      BY <2>1, <2>5 DEF PrivCells
    <3>3. IsPrivateIP(col[i].value) \in BOOLEAN
      BY DEF IsPrivateIP
    <3> QED
      BY <2>5, <3>1, <3>2, <3>3, Zenon DEF Shortlisted, Triaged
  <2> QED
    BY <2>2, <2>4, <2>5
<1> QED
  BY <1>1, Cellwise, PTL

\* Recognisers never overlap, on any column.
THEOREM ExclusiveCorrect == ScalarSpec => []RecognisersExclusive
<1>1. RecognisersExclusive
  BY Exclusive DEF RecognisersExclusive
<1> QED
  BY <1>1, PTL

\* Private rows are address literals, in every column.
THEOREM PrivateCorrect == ScalarSpec => []PrivateRowsAreAddresses
<1>1. CellwiseInv => PrivateRowsAreAddresses
  <2> SUFFICES ASSUME CellwiseInv, NEW i \in 1..Len(col), Answered(i), privs[i] = TRUE
               PROVE  types[i] \in {"ipv4", "ipv6"}
    BY DEF PrivateRowsAreAddresses
  <2>1. types[i] = TypeCell(col[i]) /\ privs[i] \in PrivCells(col[i])
    BY DEF CellwiseInv, Answered
  <2>2. ~col[i].null /\ IsPrivateIP(col[i].value)
    BY <2>1, Columns, NullAssumption DEF PrivCells, CellwiseInv
  <2>3. IndicatorType(col[i].value) \in {"ipv4", "ipv6"}
    BY <2>2, PrivateType
  <2> QED
    BY <2>1, <2>2, <2>3 DEF TypeCell, NoType
<1> QED
  BY <1>1, Cellwise, PTL

----------------------------------------------------------------------------
\* What an output row says of its cell.
LEMMA RowOfCell ==
    ASSUME CellwiseInv, NEW i \in 1..Len(col), ~col[i].null
    PROVE  /\ i <= Len(types) /\ IndicatorType(col[i].value) # NoType
                 => types[i] = IndicatorType(col[i].value)
           /\ i <= Len(privs) => privs[i] = IsPrivateIP(col[i].value)
<1>1. Len(types) \in Nat /\ Len(privs) \in Nat /\ Len(col) \in Nat
  BY Columns DEF CellwiseInv
<1>2. i <= Len(types) => types[i] = TypeCell(col[i])
  BY <1>1 DEF CellwiseInv
<1>3. i <= Len(privs) => privs[i] \in PrivCells(col[i])
  BY <1>1 DEF CellwiseInv
<1> QED
  BY <1>2, <1>3 DEF TypeCell, PrivCells

\* is_private_ip holds exactly of the reserved addresses: for every IPv4 and
\* every IPv6 address, not only those at the edges of the ranges.
THEOREM PrivateMeansReservedCorrect == ScalarSpec => []PrivateMeansReserved
<1>1. CellwiseInv => PrivateMeansReserved
  <2> SUFFICES ASSUME CellwiseInv, NEW i \in 1..Len(privs), ~col[i].null,
                      ParseIP(col[i].value.text) # NoIP
               PROVE  privs[i] = IF To4(ParseIP(col[i].value.text)) # NoIP
                                 THEN Within(Ranges4, To4(ParseIP(col[i].value.text)))
                                 ELSE Within(Ranges6, col[i].value.text.words)
    BY DEF PrivateMeansReserved, TrimSpace
  <2>1. i \in 1..Len(col) /\ Len(privs) \in Nat
    BY Columns DEF CellwiseInv
  <2>2. privs[i] = IsPrivateIP(col[i].value)
    BY <2>1, RowOfCell
  <2>3. col[i].value.text.form = "colon" => Words(col[i].value.text.words)
    BY <2>1, WordsAssumption DEF CellwiseInv, Words, Ints
  <2>4. IsPrivateIP(col[i].value) <=>
           IF To4(ParseIP(col[i].value.text)) # NoIP
           THEN Within(Ranges4, To4(ParseIP(col[i].value.text)))
           ELSE Within(Ranges6, col[i].value.text.words)
    BY <2>3, PrivateAddress
  <2>5. IsPrivateIP(col[i].value) \in BOOLEAN
    BY DEF IsPrivateIP
  <2> QED
    BY <2>2, <2>4, <2>5, Zenon DEF Within
<1> QED
  BY <1>1, Cellwise, PTL

----------------------------------------------------------------------------
\* The catalog's examples, as the classifier takes them.

LEMMA EvilDomainType ==
    IndicatorType(EvilDomain) = "domain" /\ ~IsPrivateIP(EvilDomain)
<1> DEFINE labels == <<Word(4), Word(7), Word(3)>>
<1>1. ASSUME NEW n \in {3, 4, 7}
      PROVE  HostLabel(Word(n)) /\ AlphaLabel(Word(n)) /\ Word(n).len = n
  BY DEF HostLabel, AlphaLabel, Word, Label
<1>2. /\ Len(labels) = 3 /\ HostLabel(labels[1]) /\ HostLabel(labels[2])
      /\ AlphaLabel(labels[3]) /\ labels[3].len \in 2..63
  BY <1>1
<1> HIDE DEF labels
<1>3. \A i \in 1..(3 - 1) : HostLabel(labels[i])
  BY <1>2
<1>4. 3 \in Nat /\ 3 >= 2
  OBVIOUS
<1>5. /\ IndicatorType(Value(Dotted(labels))) = "domain"
      /\ ~IsPrivateIP(Value(Dotted(labels)))
  BY <1>2, <1>3, <1>4, NameType
<1> QED
  BY <1>5 DEF EvilDomain, labels

LEMMA NoTypeIsNone == NoType \notin TypeNames
BY DEF NoType, TypeNames

LEMMA ExampleTypes ==
    /\ IndicatorType(PublicIP) = "ipv4" /\ IndicatorType(PrivateIP) = "ipv4"
    /\ IndicatorType(EnrichedIP) = "ipv4"
    /\ IndicatorType(PublicIP6) = "ipv6"
    /\ IndicatorType(ExampleDomain) = "domain" /\ IndicatorType(EvilDomain) = "domain"
    /\ IndicatorType(ExampleURL) = "url"
    /\ IndicatorType(Digest(32)) = "md5" /\ IndicatorType(Digest(40)) = "sha1"
    /\ IndicatorType(Digest(64)) = "sha256"
<1>1. /\ IndicatorType(PublicIP) = "ipv4" /\ IndicatorType(PrivateIP) = "ipv4"
      /\ IndicatorType(EnrichedIP) = "ipv4"
  BY QuadType DEF PublicIP, PrivateIP, EnrichedIP
<1>2. IndicatorType(PublicIP6) = "ipv6"
  <2> DEFINE w == <<8193, 18528, 18528, 0, 0, 0, 0, 34952>>
  <2>1. Words(w) /\ w[6] # 65535
    BY DEF Words, Ints
  <2> HIDE DEF w
  <2>2. IndicatorType(Value(Colon(w))) = "ipv6"
    BY <2>1, ColonType
  <2> QED
    BY <2>2 DEF PublicIP6, w
<1>3. ASSUME NEW n \in {3, 4, 7}
      PROVE  HostLabel(Word(n)) /\ AlphaLabel(Word(n)) /\ Word(n).len = n
  BY DEF HostLabel, AlphaLabel, Word, Label
<1>4. IndicatorType(ExampleDomain) = "domain"
  BY <1>3, HostType DEF ExampleDomain
<1>5. IndicatorType(EvilDomain) = "domain"
  BY EvilDomainType
<1>6. IndicatorType(ExampleURL) = "url"
  BY URLType DEF ExampleURL, Dotted
<1>7. ASSUME NEW n \in {32, 40, 64}
      PROVE  IndicatorType(Digest(n)) =
                CASE n = 64 -> "sha256" [] n = 40 -> "sha1" [] n = 32 -> "md5"
  BY <1>7, HexType DEF Digest
<1> QED
  BY <1>1, <1>2, <1>4, <1>5, <1>6, <1>7

\* Every type a column can come out with is in the view, and the view types
\* its examples as the function does.
THEOREM ViewCorrect == ScalarSpec => []ViewIsTheOutputSpace
<1>1. CellwiseInv => ViewIsTheOutputSpace
  <2> SUFFICES ASSUME CellwiseInv, NEW i \in 1..Len(types)
               PROVE  /\ types[i] # Null =>
                            \E row \in indicatorTypesViewDef : row[1] = types[i]
                      /\ \A row \in indicatorTypesViewDef :
                            ~col[i].null /\ col[i].value = row[2] => types[i] = row[1]
    BY DEF ViewIsTheOutputSpace
  <2>1. i \in 1..Len(col) /\ Len(types) \in Nat /\ types[i] = TypeCell(col[i])
    BY Columns DEF CellwiseInv
  <2>2. types[i] # Null => types[i] \in TypeNames
    BY <2>1, TypeCellRange
  <2>3. \A type \in TypeNames : \E row \in indicatorTypesViewDef : row[1] = type
    BY DEF TypeNames, indicatorTypesViewDef
  <2>4. ASSUME NEW row \in indicatorTypesViewDef, ~col[i].null, col[i].value = row[2]
        PROVE  types[i] = row[1]
    <3>1. IndicatorType(row[2]) = row[1]
      BY ExampleTypes DEF indicatorTypesViewDef
    <3>2. row[1] # NoType
      <4>1. row[1] \in TypeNames
        BY DEF indicatorTypesViewDef, TypeNames
      <4> QED
        BY <4>1, NoTypeIsNone
    <3> QED
      BY <2>1, <2>4, <3>1, <3>2 DEF TypeCell
  <2> QED
    BY <2>2, <2>3, <2>4
<1> QED
  BY <1>1, Cellwise, PTL

\* The queries of the catalog answer as their descriptions say, in any column.
THEOREM DocumentedCorrect == ScalarSpec => []DocumentedAnswersHold
<1>1. /\ ~IsPrivateIP(PublicIP) /\ IsPrivateIP(PrivateIP) /\ ~IsPrivateIP(EnrichedIP)
  <2> DEFINE four(a) == \A i \in 1..4 : a[i] \in 0..255
  <2>1. four(<<8, 8, 8, 8>>) /\ four(<<10, 0, 0, 5>>) /\ four(<<1, 2, 3, 4>>)
    OBVIOUS
  <2>2. ~InRanges4(<<8, 8, 8, 8>>) /\ InRanges4(<<10, 0, 0, 5>>) /\ ~InRanges4(<<1, 2, 3, 4>>)
    BY DEF InRanges4
  <2> QED
    BY <2>1, <2>2, QuadPrivate DEF PublicIP, PrivateIP, EnrichedIP
<1>2. ~IsPrivateIP(EvilDomain)
  BY EvilDomainType
<1>3. IndicatorType(NotAnIndicator) = NoType
  <2> DEFINE t == Dotted(<<Hyphenated(16)>>)
  <2>1. /\ t.form = "dotted" /\ Len(t.labels) = 1 /\ t.labels[1].len = 16
    BY DEF Dotted, Hyphenated, Label
  <2> HIDE DEF t
  <2>2. /\ ~HexDigest(t, 64) /\ ~HexDigest(t, 40) /\ ~HexDigest(t, 32)
        /\ ParseIP(t) = NoIP /\ ~LooksLikeURL(t) /\ ~DomainRe(t)
    BY <2>1 DEF HexDigest, ParseIP, DottedQuad, LooksLikeURL, DomainRe
  <2>3. TypeOfText(t) = NoType
    BY <2>2 DEF TypeOfText
  <2> QED
    BY <2>3 DEF NotAnIndicator, IndicatorType, TrimSpace, Value, t
<1>4. CellwiseInv => DocumentedAnswersHold
  <2> SUFFICES ASSUME CellwiseInv, NEW i \in 1..Len(col), ~col[i].null
               PROVE  /\ i <= Len(types) =>
                            \A ex \in DocumentedTypes :
                               col[i].value = ex[1] => types[i] = ex[2]
                      /\ i <= Len(privs) =>
                            \A ex \in DocumentedPrivate :
                               col[i].value = ex[1] => privs[i] = ex[2]
                      /\ col[i].value \in DocumentedOffline => Triaged(col[i].value)
                      /\ col[i].value \in SchemaEnriched => ~Triaged(col[i].value)
    BY DEF DocumentedAnswersHold
  <2>1. ASSUME i <= Len(types), NEW ex \in DocumentedTypes, col[i].value = ex[1]
        PROVE  types[i] = ex[2]
    <3>1. IndicatorType(ex[1]) = ex[2] /\ ex[2] \in {"ipv4", "md5", "sha256"}
      BY ExampleTypes DEF DocumentedTypes, TypeExamples, ExecutableTypes, TaskTypes,
                          SchemaTypes
    <3>2. ex[2] # NoType
      BY <3>1 DEF NoType
    <3> QED
      BY <2>1, <3>1, <3>2, RowOfCell
  <2>2. ASSUME i <= Len(privs), NEW ex \in DocumentedPrivate, col[i].value = ex[1]
        PROVE  privs[i] = ex[2]
    <3>1. ex \in {<<PrivateIP, TRUE>>, <<PublicIP, FALSE>>}
      BY DEF DocumentedPrivate, PrivateExamples, ExecutablePrivate, TaskPrivate,
             SchemaPrivate
    <3>2. privs[i] = IsPrivateIP(ex[1])
      BY <2>2, RowOfCell
    <3>3. IsPrivateIP(ex[1]) \in BOOLEAN
      BY DEF IsPrivateIP
    <3>4. CASE ex = <<PrivateIP, TRUE>>
      BY <1>1, <3>2, <3>4
    <3>5. CASE ex = <<PublicIP, FALSE>>
      BY <1>1, <3>2, <3>3, <3>5
    <3> QED
      BY <3>1, <3>4, <3>5
  <2>3. col[i].value \in DocumentedOffline => Triaged(col[i].value)
    BY <1>1, <1>3 DEF DocumentedOffline, TriagedExamples, ExecutableTriaged, TaskTriaged,
                      Triaged
  <2>4. col[i].value \in SchemaEnriched => ~Triaged(col[i].value)
    <3>1. NoType \notin {"ipv4", "domain"}
      BY DEF NoType
    <3> QED
      BY <1>1, <1>2, <3>1, ExampleTypes DEF SchemaEnriched, Triaged
  <2> QED
    BY <2>1, <2>2, <2>3, <2>4
<1> QED
  BY <1>4, Cellwise, PTL

----------------------------------------------------------------------------
\* What the tests and the near misses of Samples come out as.

\* Whitespace around the text plays no part.
LEMMA PadIsIgnored ==
    ASSUME NEW t
    PROVE  IndicatorType(Padded(t)) = IndicatorType(Value(t))
BY DEF IndicatorType, TrimSpace, Padded, Value

\* A name of two labels or more that is neither a domain nor an IPv4 literal
\* is nothing.
LEMMA NamelessType ==
    ASSUME NEW t, t.form = "dotted", Len(t.labels) # 1,
           ~DottedQuad(t), ~DomainRe(t)
    PROVE  IndicatorType(Value(t)) = NoType
<1>1. /\ \A m : ~HexDigest(t, m)
      /\ ParseIP(t) = NoIP /\ ~LooksLikeURL(t)
  BY DEF HexDigest, ParseIP, LooksLikeURL
<1>2. TypeOfText(t) = NoType
  BY <1>1 DEF TypeOfText
<1> QED
  BY <1>2 DEF IndicatorType, TrimSpace, Value

\* A single label is a digest or nothing.
LEMMA LabelType ==
    ASSUME NEW l, ~HexLabel(l) \/ l.len \notin {32, 40, 64}
    PROVE  IndicatorType(Value(Dotted(<<l>>))) = NoType
<1> DEFINE t == Dotted(<<l>>)
<1>1. t.form = "dotted" /\ Len(t.labels) = 1 /\ t.labels[1] = l
  BY DEF Dotted
<1> HIDE DEF t
<1>2. /\ ~HexDigest(t, 64) /\ ~HexDigest(t, 40) /\ ~HexDigest(t, 32)
      /\ ParseIP(t) = NoIP /\ ~LooksLikeURL(t) /\ ~DomainRe(t)
  BY <1>1 DEF HexDigest, ParseIP, DottedQuad, LooksLikeURL, DomainRe
<1>3. TypeOfText(t) = NoType
  BY <1>2 DEF TypeOfText
<1> QED
  BY <1>3 DEF IndicatorType, TrimSpace, Value, t

\* A text that is no name and no IPv6 literal is a URL or nothing.
LEMMA FormlessType ==
    ASSUME NEW t, t.form \notin {"dotted", "colon"}, ~LooksLikeURL(t)
    PROVE  IndicatorType(Value(t)) = NoType
<1>1. /\ \A m : ~HexDigest(t, m)
      /\ ParseIP(t) = NoIP /\ ~DomainRe(t)
  BY DEF HexDigest, ParseIP, DottedQuad, DomainRe
<1>2. TypeOfText(t) = NoType
  BY <1>1 DEF TypeOfText
<1> QED
  BY <1>2 DEF IndicatorType, TrimSpace, Value

\* A name of two labels is one only with a host label and a letter label.
LEMMA TwoLabelsType ==
    ASSUME NEW l, NEW tld,
           ~HostLabel(l) \/ ~AlphaLabel(tld) \/ tld.len \notin 2..63
    PROVE  IndicatorType(Value(Dotted(<<l, tld>>))) = NoType
<1> DEFINE t == Dotted(<<l, tld>>)
<1>1. /\ t.form = "dotted" /\ Len(t.labels) = 2
      /\ t.labels[1] = l /\ t.labels[2] = tld
  BY DEF Dotted
<1> HIDE DEF t
<1>2. ~DottedQuad(t)
  BY <1>1 DEF DottedQuad
<1>3. ~DomainRe(t)
  BY <1>1 DEF DomainRe
<1> QED
  BY <1>1, <1>2, <1>3, NamelessType DEF t

\* Four labels of which the last is all digits, but no octet.
LEMMA FourLabelsType ==
    ASSUME NEW l, NEW last, last.chars = {"digit"}, ~Octet(last)
    PROVE  IndicatorType(Value(Dotted(<<l, l, l, last>>))) = NoType
<1> DEFINE t == Dotted(<<l, l, l, last>>)
<1>1. t.form = "dotted" /\ Len(t.labels) = 4 /\ t.labels[4] = last
  BY DEF Dotted
<1> HIDE DEF t
<1>2. ~DottedQuad(t)
  BY <1>1 DEF DottedQuad
<1>3. ~AlphaLabel(last)
  BY DEF AlphaLabel
<1>4. ~DomainRe(t)
  BY <1>1, <1>3 DEF DomainRe
<1> QED
  BY <1>1, <1>2, <1>4, NamelessType DEF t

LEMMA SampleLabels ==
    /\ \A n \in 1..63 : HostLabel(Word(n)) /\ HostLabel(Hyphenated(n))
    /\ \A n \in Nat : AlphaLabel(Word(n)) /\ Word(n).len = n
    /\ HostLabel(Digits(8)) /\ Octet(Digits(8)) /\ ~AlphaLabel(Digits(8))
BY DEF HostLabel, AlphaLabel, Octet, Word, Hyphenated, Label, Digits

\* What indicator_test.go and indicator_offline.test expect.
LEMMA TestedTypes ==
    \A pair \in Tested : IndicatorType(pair[1]) = pair[2]
<1>1. IndicatorType(Value(Quad(<<1, 2, 3, 4>>))) = "ipv4"
  BY QuadType
<1>2. IndicatorType(Padded(Quad(<<8, 8, 8, 8>>))) = "ipv4"
  BY QuadType, PadIsIgnored
<1>3. IndicatorType(Value(Colon(<<8193, 18528, 18528, 0, 0, 0, 0, 34952>>))) = "ipv6"
  BY ExampleTypes DEF PublicIP6
<1>4. IndicatorType(Value(Colon(<<0, 0, 0, 0, 0, 0, 0, 1>>))) = "ipv6"
  <2> DEFINE w == <<0, 0, 0, 0, 0, 0, 0, 1>>
  <2>1. Words(w) /\ w[6] # 65535
    BY DEF Words, Ints
  <2> HIDE DEF w
  <2>2. IndicatorType(Value(Colon(w))) = "ipv6"
    BY <2>1, ColonType
  <2> QED
    BY <2>2 DEF w
<1>5. IndicatorType(Value(Dotted(<<Word(7), Word(3)>>))) = "domain"
  BY ExampleTypes DEF ExampleDomain
<1>6. IndicatorType(Value(Dotted(<<Word(3), Hyphenated(11), Word(2), Word(2)>>))) = "domain"
  <2> DEFINE labels == <<Word(3), Hyphenated(11), Word(2), Word(2)>>
  <2>1. /\ Len(labels) = 4 /\ HostLabel(labels[1]) /\ HostLabel(labels[2])
        /\ HostLabel(labels[3]) /\ AlphaLabel(labels[4]) /\ labels[4].len \in 2..63
    BY SampleLabels
  <2> HIDE DEF labels
  <2>2. \A i \in 1..(4 - 1) : HostLabel(labels[i])
    BY <2>1
  <2>3. 4 \in Nat /\ 4 >= 2
    OBVIOUS
  <2>4. IndicatorType(Value(Dotted(labels))) = "domain"
    BY <2>1, <2>2, <2>3, NameType
  <2> QED
    BY <2>4 DEF labels
<1>7. /\ IndicatorType(Value(URL("http", Dotted(<<Word(4), Word(3)>>)))) = "url"
      /\ IndicatorType(Value(URL("https", Dotted(<<Word(7), Word(3)>>)))) = "url"
      /\ IndicatorType(Value(URL("ftp", Dotted(<<Word(5), Word(7), Word(3)>>)))) = "url"
  <2>1. \A labels : Dotted(labels).form # "blank"
    BY DEF Dotted
  <2> QED
    BY <2>1, URLType
<1>8. /\ IndicatorType(Value(Dotted(<<Hex(32)>>))) = "md5"
      /\ IndicatorType(Value(Dotted(<<Hex(40)>>))) = "sha1"
      /\ IndicatorType(Value(Dotted(<<Hex(64)>>))) = "sha256"
  BY ExampleTypes DEF Digest
<1>9. IndicatorType(Value(Blank)) = NoType /\ IndicatorType(Value(Other)) = NoType
  BY FormlessType DEF Blank, Other, LooksLikeURL
<1>10. /\ IndicatorType(Value(Dotted(<<Word(9)>>))) = NoType
       /\ IndicatorType(Value(Dotted(<<Digits(12345)>>))) = NoType
       /\ IndicatorType(Value(Dotted(<<Word(32)>>))) = NoType
       /\ IndicatorType(Value(Dotted(<<Hex(22)>>))) = NoType
  <2>1. /\ ~HexLabel(Word(9)) /\ ~HexLabel(Word(32))
        /\ Digits(12345).len = 5 /\ Hex(22).len = 22
    BY DEF HexLabel, Word, Digits, Hex, Label
  <2> QED
    BY <2>1, LabelType
<1> QED
  BY <1>1, <1>2, <1>3, <1>4, <1>5, <1>6, <1>7, <1>8, <1>9, <1>10 DEF Tested

\* What only just misses a recogniser.
LEMMA NearMissTypes ==
    \A pair \in NearMisses : IndicatorType(pair[1]) = pair[2]
<1>1. IndicatorType(Value(Rooted(<<Word(7), Word(3)>>))) = "domain"
  <2> DEFINE t == Rooted(<<Word(7), Word(3)>>)
  <2>1. /\ t.form = "dotted" /\ Len(t.labels) = 2
        /\ HostLabel(t.labels[1]) /\ AlphaLabel(t.labels[2]) /\ t.labels[2].len = 3
    BY SampleLabels DEF Rooted
  <2> HIDE DEF t
  <2>2. DomainRe(t) /\ \A m : ~HexDigest(t, m)
    BY <2>1 DEF DomainRe, HexDigest
  <2>3. ParseIP(t) = NoIP /\ ~LooksLikeURL(t)
    BY <2>1 DEF ParseIP, DottedQuad, LooksLikeURL
  <2>4. TypeOfText(t) = "domain"
    BY <2>2, <2>3 DEF TypeOfText
  <2> QED
    BY <2>4 DEF IndicatorType, TrimSpace, Value, t
<1>2. IndicatorType(Value(Rooted([i \in 1..4 |-> Digits(8)]))) = NoType
  <2> DEFINE t == Rooted([i \in 1..4 |-> Digits(8)])
  <2>1. t.form = "dotted" /\ t.root /\ Len(t.labels) = 4 /\ t.labels[4] = Digits(8)
    BY DEF Rooted
  <2> HIDE DEF t
  <2>2. ~DottedQuad(t) /\ ~DomainRe(t)
    BY <2>1, SampleLabels DEF DottedQuad, DomainRe
  <2> QED
    BY <2>1, <2>2, NamelessType DEF t
<1>3. /\ IndicatorType(Value(Dotted(<<Digits(8), Digits(8), Digits(8), ZeroLed(8)>>))) = NoType
      /\ IndicatorType(Value(Dotted(<<Digits(8), Digits(8), Digits(8), Digits(256)>>))) = NoType
  <2>1. /\ ZeroLed(8).chars = {"digit"} /\ ~Octet(ZeroLed(8))
        /\ Digits(256).chars = {"digit"} /\ ~Octet(Digits(256))
    BY DEF ZeroLed, Digits, Octet
  <2> QED
    BY <2>1, FourLabelsType
<1>4. IndicatorType(Value(Dotted(<<Digits(8), Digits(8), Digits(8)>>))) = NoType
  <2> DEFINE t == Dotted(<<Digits(8), Digits(8), Digits(8)>>)
  <2>1. t.form = "dotted" /\ Len(t.labels) = 3 /\ t.labels[3] = Digits(8)
    BY DEF Dotted
  <2> HIDE DEF t
  <2>2. ~DottedQuad(t) /\ ~DomainRe(t)
    BY <2>1, SampleLabels DEF DottedQuad, DomainRe
  <2> QED
    BY <2>1, <2>2, NamelessType DEF t
<1>5. IndicatorType(Value(Dotted(<<Digits(8), Digits(8), Digits(8), Word(2)>>))) = "domain"
  <2> DEFINE labels == <<Digits(8), Digits(8), Digits(8), Word(2)>>
  <2>1. /\ Len(labels) = 4 /\ HostLabel(labels[1]) /\ HostLabel(labels[2])
        /\ HostLabel(labels[3]) /\ AlphaLabel(labels[4]) /\ labels[4].len \in 2..63
    BY SampleLabels
  <2> HIDE DEF labels
  <2>2. \A i \in 1..(4 - 1) : HostLabel(labels[i])
    BY <2>1
  <2>3. 4 \in Nat /\ 4 >= 2
    OBVIOUS
  <2>4. IndicatorType(Value(Dotted(labels))) = "domain"
    BY <2>1, <2>2, <2>3, NameType
  <2> QED
    BY <2>4 DEF labels
<1>6. /\ IndicatorType(Value(Dotted(<<Word(7), Label(8, {"alpha", "hyphen", "digit"})>>)))
           = NoType
      /\ IndicatorType(Value(Dotted(<<Word(64), Word(3)>>))) = NoType
      /\ IndicatorType(Value(Dotted(<<[Hyphenated(5) EXCEPT !.edge = FALSE], Word(3)>>)))
           = NoType
      /\ IndicatorType(Value(Dotted(<<Word(7), Word(1)>>))) = NoType
  <2>1. ~AlphaLabel(Label(8, {"alpha", "hyphen", "digit"}))
    BY DEF AlphaLabel, Label
  <2>2. ~HostLabel(Word(64)) /\ ~HostLabel([Hyphenated(5) EXCEPT !.edge = FALSE])
    BY DEF HostLabel, Word, Hyphenated, Label
  <2>3. Word(1).len \notin 2..63
    BY DEF Word, Label
  <2> QED
    BY <2>1, <2>2, <2>3, TwoLabelsType
<1>7. /\ IndicatorType(Value(URL("hxxp", Dotted(<<Word(4), Word(3)>>)))) = NoType
      /\ IndicatorType(Value(URL("http", Blank))) = NoType
      /\ IndicatorType(Value([URL("http", Other) EXCEPT !.parses = FALSE])) = NoType
  <2>1. ASSUME NEW t \in {URL("hxxp", Dotted(<<Word(4), Word(3)>>)), URL("http", Blank),
                          [URL("http", Other) EXCEPT !.parses = FALSE]}
        PROVE  t.form = "url" /\ ~LooksLikeURL(t)
    BY DEF URL, Blank, LooksLikeURL
  <2> QED
    BY <2>1, FormlessType
<1> QED
  BY <1>1, <1>2, <1>3, <1>4, <1>5, <1>6, <1>7 DEF NearMisses

\* Every tested value, and every near miss, comes out of any column as the
\* type the tests and the parsers give it.
THEOREM TypesAreAsTestedCorrect == ScalarSpec => []TypesAreAsTested
<1>1. CellwiseInv => TypesAreAsTested
  <2> SUFFICES ASSUME CellwiseInv, NEW i \in 1..Len(types), NEW pair \in TypeTable,
                      ~col[i].null, col[i].value = pair[1]
               PROVE  types[i] = IF pair[2] = NoType THEN Null ELSE pair[2]
    BY DEF TypesAreAsTested
  <2>1. types[i] = TypeCell(col[i])
    BY DEF CellwiseInv
  <2>2. IndicatorType(col[i].value) = pair[2]
    BY TestedTypes, NearMissTypes DEF TypeTable
  <2> QED
    BY <2>1, <2>2 DEF TypeCell
<1> QED
  BY <1>1, Cellwise, PTL

=============================================================================
