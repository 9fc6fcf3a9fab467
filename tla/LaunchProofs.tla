---------------------------- MODULE LaunchProofs ----------------------------
(***************************************************************************)
(* What filterKnownFlags and the parser make of any command line, for any  *)
(* set of logging flags the SDK may define.                                *)
(***************************************************************************)
EXTENDS Launch, WellFoundedInduction, TLAPS

Untouched == {"entry", "other", "shell"}
Filtering == Untouched \union {"filter"}
Dispatched == Filtering \ {"entry"}
Reached == {"apply", "choose", "serving", "fatal"}

\* Where the two loops stand.
Placed ==
    /\ LaunchTypeOK
    /\ Len(src) = Len(out)
    /\ pc \in Filtering => j = 1 /\ flags = Defaults
    /\ pc \in Untouched => i = 1 /\ out = << >> /\ src = << >> /\ own = {}
    /\ pc \notin Filtering => i = Len(argv) + 1

\* A flag of the worker's own begins at k.
Begins(line, places, k) ==
    /\ line[k].name \in Defined
    /\ ~(k - 1 \in places /\ Wants(line[k - 1]))

\* The filter reads what it has passed as any reading does.
ReadSoFar ==
    /\ own \subseteq 1..(i - 1)
    /\ \A k \in 1..(i - 1) : k \in own <=> Begins(argv, own, k)
    /\ i <= Len(argv) => ~(i - 1 \in own /\ Wants(argv[i - 1]))
    /\ \A places \in SUBSET (1..Len(argv)) :
          IsReading(argv, places) =>
              \A k \in 1..(i - 1) : k \in places <=> k \in own

\* The kept tokens are the flags found and the values that they want, in order.
KeptTokens ==
    /\ \A p \in 1..Len(out) : src[p] \in 1..(i - 1) /\ out[p] = argv[src[p]]
    /\ \A p, q \in 1..Len(out) : p < q => src[p] < src[q]
    /\ \A k \in own : \E p \in 1..Len(out) : src[p] = k
    /\ \A p \in 1..Len(out) :
          src[p] \in own \/ (p > 1 /\ src[p - 1] \in own /\ Wants(out[p - 1]))
    /\ \A p \in 1..Len(out) :
          src[p] \in own /\ Wants(out[p]) /\ src[p] < Len(argv) =>
              p < Len(out) /\ src[p + 1] = src[p] + 1

\* The parser stands at a flag, and has set what the flags behind it say.
ParsedUses(f, n) == {p \in 1..(n - 1) : src[p] \in own /\ out[p].name = f}
ParsedSoFar ==
    /\ j <= Len(out) => src[j] \in own
    /\ \A p \in 1..(j - 1) : src[p] \in own /\ Wants(out[p]) => p + 1 <= j - 1
    /\ \A f \in Defined :
          \/ ParsedUses(f, j) = {} /\ flags[f] = Defaults[f]
          \/ \E p \in ParsedUses(f, j) :
                /\ \A q \in ParsedUses(f, j) : q <= p
                /\ flags[f] = ValueAt(out, p)

\* How it ends.
Ended ==
    /\ pc \in Reached => j = Len(out) + 1
    /\ pc = "usage" =>
          /\ j <= Len(out)
          /\ \/ out[j].dashes > 2
             \/ out[j].name \in Switches /\ out[j].inline
             \/ Wants(out[j]) /\ j = Len(out)
    /\ pc = "serving" =>
          transport = IF flags["http"] = "true" THEN "http"
                      ELSE IF flags["unix"] # NoText THEN "unix" ELSE "stdio"

\* What the entrypoint put in front stays there.
Led ==
    pc # "entry" /\ mode \in {"empty", "http", "stdio", "unix"} =>
        LET lead == Prefix(IF mode = "empty" THEN "http" ELSE mode)
        IN  /\ Len(lead) <= Len(argv)
            /\ \A k \in 1..Len(lead) : argv[k] = lead[k]

LaunchInv == Placed /\ ReadSoFar /\ KeptTokens /\ ParsedSoFar /\ Ended /\ Led

----------------------------------------------------------------------------
\* What is known of flags and tokens.

LEMMA NoTextIsNone ==
    NoText \notin {"http", "http-addr", "unix", "log-level", "log-format", "log-logger",
                  "socket"}
BY Zenon DEF NoText

LEMMA FlagFacts ==
    /\ NoText \notin Defined
    /\ \A f \in Defined : f \in valueFlags <=> f \in Valued
    /\ \A f \in Defined : f \in Switches <=> f \notin Valued
    /\ {"http", "http-addr", "unix"} \subseteq Defined
    /\ "http" \in Switches /\ "http-addr" \in Valued /\ "unix" \in Valued
<1>1. NoText \notin Defined
  BY SdkAssumption, NoTextIsNone DEF Defined, Switches, Valued, valueFlags
<1>2. "http" \notin valueFlags /\ Valued \subseteq valueFlags
  BY SdkAssumption DEF Valued, valueFlags
<1>3. Switches \intersect valueFlags = {}
  BY SdkAssumption, <1>2 DEF Switches
<1>4. \A f \in Defined : f \in valueFlags <=> f \in Valued
  BY <1>2, <1>3 DEF Defined
<1>5. \A f \in Defined : f \in Switches <=> f \notin Valued
  BY <1>2, <1>3 DEF Defined
<1>6. /\ {"http", "http-addr", "unix"} \subseteq Defined
      /\ "http" \in Switches /\ "http-addr" \in Valued /\ "unix" \in Valued
  BY DEF Defined, Switches, Valued
<1> QED
  BY <1>1, <1>4, <1>5, <1>6

LEMMA DefaultsTyped == Defaults \in [Defined -> Values]
BY TextAssumption DEF Defaults

LEMMA TokenFacts ==
    ASSUME NEW tok \in Token
    PROVE  /\ tok.dashes \in Nat /\ tok.name \in Names
           /\ tok.inline \in BOOLEAN /\ tok.value \in Values
           /\ Text(tok) \in Values
           /\ tok.name \in Defined <=> Known(tok)
           /\ tok.name \in Defined => ~Stops(tok)
           /\ tok.name \in Defined => (TakesNext(tok) <=> Wants(tok))
           /\ tok.name \in Defined => (BadSyntax(tok) => tok.dashes > 2)
<1>1. /\ tok.dashes \in Nat /\ tok.name \in Names
      /\ tok.inline \in BOOLEAN /\ tok.value \in Values
      /\ tok.dashes = 0 => tok.name = NoText
  BY DEF Token
<1>2. Text(tok) \in Values
  BY <1>1, TextAssumption DEF Text
<1>3. tok.name \in Defined => tok.name # NoText /\ tok.dashes > 0
  <2>1. tok.name \in Defined => tok.name # NoText
    BY FlagFacts
  <2>2. \A n \in Nat : n = 0 \/ n > 0
    OBVIOUS
  <2> QED
    BY <1>1, <2>1, <2>2
<1>4. tok.name \in Defined <=> Known(tok)
  BY <1>3 DEF Known
<1>5. tok.name \in Defined => ~Stops(tok)
  <2>1. tok.dashes > 0 => tok.dashes # 0
    OBVIOUS
  <2> QED
    BY <1>3, <2>1 DEF Stops
<1>6. tok.name \in Defined => (TakesNext(tok) <=> Wants(tok))
  BY FlagFacts DEF TakesNext, Wants
<1>7. tok.name \in Defined => (BadSyntax(tok) => tok.dashes > 2)
  BY <1>3 DEF BadSyntax
<1> QED
  BY <1>1, <1>2, <1>4, <1>5, <1>6, <1>7

LEMMA PrefixFacts ==
    ASSUME NEW m \in {"http", "stdio", "unix"}
    PROVE  /\ Prefix(m) \in Seq(Token)
           /\ m = "http" => /\ Len(Prefix(m)) = 3
                            /\ Prefix(m)[1] = Opt(2, "http")
                            /\ Prefix(m)[2] = Opt(2, "http-addr")
                            /\ Prefix(m)[3] = Plain("published")
           /\ m = "stdio" => Len(Prefix(m)) = 0
           /\ m = "unix" => /\ Len(Prefix(m)) = 2
                            /\ Prefix(m)[1] = Opt(2, "unix")
                            /\ Prefix(m)[2] = Plain("socket")
<1>1. /\ {"http", "http-addr", "unix"} \subseteq Names
      /\ {NoText, "published", "socket"} \subseteq Values /\ NoText \in Names
  BY FlagFacts, TextAssumption
<1>2. ASSUME NEW n \in Names PROVE Opt(2, n) \in Token
  <2>1. Opt(2, n).dashes = 2
    BY DEF Opt
  <2>2. 2 # 0
    OBVIOUS
  <2>3. Opt(2, n) \in [dashes : Nat, name : Names, inline : BOOLEAN, value : Values]
    BY <1>1 DEF Opt
  <2> QED
    BY <2>1, <2>2, <2>3, Zenon DEF Token
<1>3. ASSUME NEW v \in Values PROVE Plain(v) \in Token
  BY <1>1 DEF Token, Plain
<1>4. /\ Opt(2, "http") \in Token /\ Opt(2, "http-addr") \in Token
      /\ Opt(2, "unix") \in Token
      /\ Plain("published") \in Token /\ Plain("socket") \in Token
  BY <1>1, <1>2, <1>3
<1>5. CASE m = "http"
  BY <1>4, <1>5 DEF Prefix
<1>6. CASE m = "stdio"
  BY <1>4, <1>6 DEF Prefix
<1>7. CASE m = "unix"
  BY <1>4, <1>7 DEF Prefix
<1> QED
  BY <1>5, <1>6, <1>7

LEMMA AppendFacts ==
    ASSUME NEW S, NEW q \in Seq(S), NEW e \in S
    PROVE  /\ Append(q, e) \in Seq(S)
           /\ Len(Append(q, e)) = Len(q) + 1
           /\ \A p \in 1..Len(q) : Append(q, e)[p] = q[p]
           /\ Append(q, e)[Len(q) + 1] = e
OBVIOUS

LEMMA JoinFacts ==
    ASSUME NEW S, NEW q \in Seq(S), NEW r \in Seq(S)
    PROVE  /\ q \o r \in Seq(S)
           /\ Len(q \o r) = Len(q) + Len(r)
           /\ \A p \in 1..Len(q) : (q \o r)[p] = q[p]
OBVIOUS

----------------------------------------------------------------------------
\* The filter: one lemma for the reading and one for the kept tokens, each
\* with a case for a token dropped, kept, or kept with its value.

LEMMA FilterReads ==
    ASSUME LaunchInv, Filter
    PROVE  ReadSoFar'
<1> USE DEF LaunchInv
<1>1. /\ argv \in Seq(Token) /\ argv' = argv
      /\ i \in 1..Len(argv) /\ i \in Nat /\ Len(argv) \in Nat
      /\ argv[i] \in Token
  BY DEF Filter, Placed, LaunchTypeOK
<1> DEFINE held(k) == k \in own <=> Begins(argv, own, k)
           agree(k, places) == k \in places <=> k \in own
<1>2. /\ own \subseteq 1..(i - 1)
      /\ \A k \in 1..(i - 1) : held(k)
      /\ ~(i - 1 \in own /\ Wants(argv[i - 1]))
      /\ \A places \in SUBSET (1..Len(argv)) :
            IsReading(argv, places) => \A k \in 1..(i - 1) : agree(k, places)
  BY <1>1 DEF ReadSoFar
<1>3. ASSUME NEW places \in SUBSET (1..Len(argv)), IsReading(argv, places)
      PROVE  /\ \A k \in 1..(i - 1) : agree(k, places)
             /\ i - 1 \in places <=> i - 1 \in own
             /\ i \in places <=> argv[i].name \in Defined
             /\ i + 1 \in places /\ i \in places => ~Wants(argv[i])
  <2>1. \A k \in 1..(i - 1) : agree(k, places)
    BY <1>2, <1>3
  <2>2. i - 1 \in places <=> i - 1 \in own
    <3>1. CASE i = 1
      BY <1>2, <3>1
    <3>2. CASE i > 1
      BY <1>1, <2>1, <3>2
    <3> QED
      BY <1>1, <3>1, <3>2
  <2>3. i \in places <=> argv[i].name \in Defined
    BY <1>1, <1>2, <1>3, <2>2 DEF IsReading
  <2>4. i + 1 \in places /\ i \in places => ~Wants(argv[i])
    <3> SUFFICES ASSUME i + 1 \in places, i \in places PROVE ~Wants(argv[i])
      OBVIOUS
    <3>1. i + 1 \in 1..Len(argv) /\ (i + 1) - 1 = i
      BY <1>1
    <3> QED
      BY <1>3, <3>1 DEF IsReading
  <2> QED
    BY <2>1, <2>2, <2>3, <2>4
<1>4. i \notin own /\ i + 1 \notin own
  BY <1>1, <1>2
<1>5. CASE Drop
  <2>1. argv[i].name \notin Defined /\ i' = i + 1 /\ own' = own
    BY <1>1, <1>5, TokenFacts DEF Drop
  <2>2. \A k \in 1..i : k = i \/ k \in 1..(i - 1)
    BY <1>1
  <2>3. \A k \in 1..i : held(k)
    BY <1>2, <1>4, <2>1, <2>2 DEF Begins
  <2>4. ASSUME NEW places \in SUBSET (1..Len(argv)), IsReading(argv, places)
        PROVE  \A k \in 1..i : agree(k, places)
    BY <1>3, <1>4, <2>1, <2>2, <2>4
  <2>5. own \subseteq 1..i
    BY <1>1, <1>2
  <2>6. (i + 1) - 1 = i
    BY <1>1
  <2> QED
    BY <1>1, <1>4, <2>1, <2>3, <2>4, <2>5, <2>6 DEF ReadSoFar
<1>6. ASSUME argv[i].name \in Defined, own' = own \union {i}
      PROVE  /\ \A k \in 1..i : k \in own' <=> Begins(argv, own', k)
             /\ \A places \in SUBSET (1..Len(argv)) :
                   IsReading(argv, places) => \A k \in 1..i : k \in places <=> k \in own'
             /\ own' \subseteq 1..i
  <2>1. \A k \in 1..i : k = i \/ k \in 1..(i - 1)
    BY <1>1
  <2>2. ASSUME NEW k \in 1..(i - 1) PROVE k \in own' <=> Begins(argv, own', k)
    <3>1. k # i /\ k - 1 # i
      BY <1>1
    <3> QED
      BY <1>2, <1>6, <3>1 DEF Begins
  <2>3. i - 1 # i /\ Begins(argv, own', i)
    BY <1>1, <1>2, <1>6 DEF Begins
  <2>4. ASSUME NEW places \in SUBSET (1..Len(argv)), IsReading(argv, places)
        PROVE  \A k \in 1..i : k \in places <=> k \in own'
    <3>1. \A k \in 1..(i - 1) : k # i
      BY <1>1
    <3> QED
      BY <1>3, <1>6, <2>1, <2>4, <3>1
  <2>5. own' \subseteq 1..i
    BY <1>1, <1>2, <1>6
  <2> QED
    BY <1>6, <2>1, <2>2, <2>3, <2>4, <2>5
<1>7. CASE KeepOne
  <2>1. /\ argv[i].name \in Defined /\ i' = i + 1 /\ own' = own \union {i}
        /\ ~(Wants(argv[i]) /\ i + 1 <= Len(argv))
    BY <1>1, <1>7, TokenFacts DEF KeepOne
  <2>2. (i + 1) - 1 = i
    BY <1>1
  <2> QED
    BY <1>1, <1>6, <2>1, <2>2 DEF ReadSoFar
<1>8. CASE KeepTwo
  <2>1. /\ argv[i].name \in Defined /\ i' = i + 2 /\ own' = own \union {i}
        /\ Wants(argv[i]) /\ i + 1 <= Len(argv)
    BY <1>1, <1>8, TokenFacts DEF KeepTwo
  <2>2. (i + 2) - 1 = i + 1 /\ (i + 1) - 1 = i /\ i + 1 # i
    BY <1>1
  <2>3. \A k \in 1..(i + 1) : k = i + 1 \/ k \in 1..i
    BY <1>1
  <2>4. i + 1 \notin own' /\ i \in own'
    BY <1>4, <2>1, <2>2
  <2>5. ~Begins(argv, own', i + 1)
    BY <2>1, <2>2, <2>4 DEF Begins
  <2>6. \A k \in 1..(i + 1) : k \in own' <=> Begins(argv, own', k)
    BY <1>6, <2>1, <2>3, <2>4, <2>5
  <2>7. ASSUME NEW places \in SUBSET (1..Len(argv)), IsReading(argv, places)
        PROVE  \A k \in 1..(i + 1) : k \in places <=> k \in own'
    BY <1>3, <1>6, <2>1, <2>3, <2>4, <2>7
  <2>8. own' \subseteq 1..(i + 1)
    BY <1>1, <1>6, <2>1
  <2> QED
    BY <1>1, <2>1, <2>2, <2>4, <2>6, <2>7, <2>8 DEF ReadSoFar
<1> QED
  BY <1>5, <1>7, <1>8 DEF Filter


LEMMA FilterKeeps ==
    ASSUME LaunchInv, Filter
    PROVE  KeptTokens'
<1>1. /\ argv \in Seq(Token) /\ argv' = argv
      /\ i \in 1..Len(argv) /\ i \in Nat /\ Len(argv) \in Nat
      /\ argv[i] \in Token
      /\ out \in Seq(Token) /\ src \in Seq(Nat) /\ Len(src) = Len(out)
      /\ Len(out) \in Nat
      /\ own \subseteq 1..(i - 1)
  BY DEF Filter, Placed, LaunchTypeOK, LaunchInv, ReadSoFar
<1> DEFINE n == Len(out)
<1>2. n \in Nat /\ i \in Nat /\ Len(argv) \in Nat /\ n + 1 \in 1..(n + 1) /\ i \in 1..i
  BY <1>1
<1>3. \A p \in 1..n : src[p] \in 1..(i - 1) /\ out[p] = argv[src[p]]
  BY DEF LaunchInv, KeptTokens
<1>4. \A p, q \in 1..n : p < q => src[p] < src[q]
  BY DEF LaunchInv, KeptTokens
<1>5. \A k \in own : \E p \in 1..n : src[p] = k
  BY DEF LaunchInv, KeptTokens
<1>6. \A p \in 1..n : src[p] \in own \/ (p > 1 /\ src[p - 1] \in own /\ Wants(out[p - 1]))
  BY DEF LaunchInv, KeptTokens
<1>7. \A p \in 1..n : src[p] \in own /\ Wants(out[p]) /\ src[p] < Len(argv) =>
          p < n /\ src[p + 1] = src[p] + 1
  BY DEF LaunchInv, KeptTokens
<1>8. i \notin own /\ i + 1 \notin own
  BY <1>1
<1>9. \A p \in 1..n : src[p] \in Nat /\ src[p] < i /\ src[p] # i /\ src[p] # i + 1
  BY <1>1, <1>3
<1>10. CASE Drop
  <2>1. i' = i + 1 /\ out' = out /\ src' = src /\ own' = own
    BY <1>10 DEF Drop
  <2>2. \A p \in 1..n : src[p] \in 1..i
    BY <1>1, <1>3
  <2>3. (i + 1) - 1 = i
    BY <1>1
  <2> QED
    BY <1>1, <1>3, <1>4, <1>5, <1>6, <1>7, <2>1, <2>2, <2>3 DEF KeptTokens
<1>11. ASSUME own' = own \union {i},
              \A p \in 1..n : out'[p] = out[p] /\ src'[p] = src[p],
              out'[n + 1] = argv[i], src'[n + 1] = i
       PROVE  /\ \A p \in 1..(n + 1) : src'[p] \in 1..i /\ out'[p] = argv[src'[p]]
              /\ \A p, q \in 1..(n + 1) : p < q => src'[p] < src'[q]
              /\ \A k \in own' : \E p \in 1..(n + 1) : src'[p] = k
              /\ \A p \in 1..(n + 1) :
                    src'[p] \in own' \/ (p > 1 /\ src'[p - 1] \in own' /\ Wants(out'[p - 1]))
              /\ \A p \in 1..n : src'[p] \in own' /\ Wants(out'[p]) /\ src'[p] < Len(argv) =>
                    p < n /\ src'[p + 1] = src'[p] + 1
  <2>1. \A p \in 1..(n + 1) : p = n + 1 \/ p \in 1..n
    BY <1>2
  <2>2. ASSUME NEW p \in 1..(n + 1) PROVE src'[p] \in 1..i /\ out'[p] = argv[src'[p]]
    <3>1. CASE p = n + 1
      BY <1>2, <1>11, <3>1
    <3>2. CASE p \in 1..n
      <4>1. src[p] \in 1..i
        BY <1>2, <1>3, <3>2
      <4> QED
        BY <1>3, <1>11, <3>2, <4>1
    <3> QED
      BY <2>1, <3>1, <3>2
  <2>3. ASSUME NEW p \in 1..(n + 1), NEW q \in 1..(n + 1), p < q PROVE src'[p] < src'[q]
    <3>1. p \in 1..n
      BY <1>1, <2>3
    <3> QED
      BY <1>4, <1>9, <1>11, <2>1, <2>3, <3>1
  <2>4. ASSUME NEW k \in own' PROVE \E p \in 1..(n + 1) : src'[p] = k
    <3>1. CASE k = i
      BY <1>1, <1>11, <3>1
    <3>2. CASE k \in own
      <4>1. PICK p \in 1..n : src[p] = k
        BY <1>5, <3>2
      <4>2. p \in 1..(n + 1)
        BY <1>1
      <4> QED
        BY <1>11, <4>1, <4>2
    <3> QED
      BY <1>11, <3>1, <3>2
  <2>5. ASSUME NEW p \in 1..(n + 1)
        PROVE  src'[p] \in own' \/ (p > 1 /\ src'[p - 1] \in own' /\ Wants(out'[p - 1]))
    <3>1. CASE p = n + 1
      BY <1>11, <3>1
    <3>2. CASE p \in 1..n
      <4>1. p > 1 => p - 1 \in 1..n
        BY <1>1, <3>2
      <4> QED
        BY <1>6, <1>11, <3>2, <4>1
    <3> QED
      BY <2>1, <3>1, <3>2
  <2>6. ASSUME NEW p \in 1..n, src'[p] \in own', Wants(out'[p]), src'[p] < Len(argv)
        PROVE  p < n /\ src'[p + 1] = src'[p] + 1
    <3>1. src[p] \in own
      BY <1>9, <1>11, <2>6
    <3>2. p < n /\ src[p + 1] = src[p] + 1
      BY <1>7, <1>11, <2>6, <3>1
    <3>3. p + 1 \in 1..n
      BY <1>1, <3>2
    <3> QED
      BY <1>11, <3>2, <3>3
  <2> QED
    BY <2>2, <2>3, <2>4, <2>5, <2>6
<1>12. CASE KeepOne
  <2>1. /\ i' = i + 1 /\ out' = Append(out, argv[i]) /\ src' = Append(src, i)
        /\ own' = own \union {i}
        /\ argv[i].name \in Defined /\ ~(Wants(argv[i]) /\ i + 1 <= Len(argv))
    BY <1>1, <1>12, TokenFacts DEF KeepOne
  <2>2. /\ out' \in Seq(Token) /\ Len(out') = n + 1
        /\ \A p \in 1..n : out'[p] = out[p]
        /\ out'[n + 1] = argv[i]
    BY <1>1, <2>1, AppendFacts
  <2>3. /\ src' \in Seq(Nat)
        /\ \A p \in 1..n : src'[p] = src[p]
        /\ src'[n + 1] = i
    BY <1>1, <2>1, AppendFacts
  <2>4. /\ \A p \in 1..(n + 1) : src'[p] \in 1..i /\ out'[p] = argv[src'[p]]
        /\ \A p, q \in 1..(n + 1) : p < q => src'[p] < src'[q]
        /\ \A k \in own' : \E p \in 1..(n + 1) : src'[p] = k
        /\ \A p \in 1..(n + 1) :
              src'[p] \in own' \/ (p > 1 /\ src'[p - 1] \in own' /\ Wants(out'[p - 1]))
        /\ \A p \in 1..n : src'[p] \in own' /\ Wants(out'[p]) /\ src'[p] < Len(argv) =>
              p < n /\ src'[p + 1] = src'[p] + 1
    BY <1>11, <2>1, <2>2, <2>3
  <2>5. ASSUME NEW p \in 1..(n + 1), src'[p] \in own', Wants(out'[p]), src'[p] < Len(argv)
        PROVE  p < n + 1 /\ src'[p + 1] = src'[p] + 1
    <3>1. p # n + 1
      BY <1>1, <2>1, <2>2, <2>3, <2>5
    <3>2. p \in 1..n
      BY <1>2, <3>1
    <3>3. p < n /\ src'[p + 1] = src'[p] + 1
      BY <2>5, <2>4, <3>2
    <3> QED
      BY <1>2, <3>3
  <2>6. (i + 1) - 1 = i
    BY <1>1
  <2> QED
    BY <1>1, <2>1, <2>2, <2>5, <2>6, <2>4 DEF KeptTokens
<1>13. CASE KeepTwo
  <2>1. /\ i' = i + 2 /\ out' = Append(Append(out, argv[i]), argv[i + 1])
        /\ src' = Append(Append(src, i), i + 1)
        /\ own' = own \union {i}
        /\ argv[i].name \in Defined /\ Wants(argv[i]) /\ i + 1 <= Len(argv)
    BY <1>1, <1>13, TokenFacts DEF KeepTwo
  <2>2. argv[i + 1] \in Token /\ i + 1 \in Nat /\ (i + 2) - 1 = i + 1 /\ i + 1 # i
    BY <1>1, <2>1
  <2>3. /\ Append(out, argv[i]) \in Seq(Token) /\ Len(Append(out, argv[i])) = n + 1
        /\ \A p \in 1..n : Append(out, argv[i])[p] = out[p]
        /\ Append(out, argv[i])[n + 1] = argv[i]
    BY <1>1, AppendFacts
  <2>4. /\ Append(src, i) \in Seq(Nat) /\ Len(Append(src, i)) = n + 1
        /\ \A p \in 1..n : Append(src, i)[p] = src[p]
        /\ Append(src, i)[n + 1] = i
    BY <1>1, AppendFacts
  <2>5. (n + 1) + 1 = n + 2 /\ \A p \in 1..n : p \in 1..(n + 1)
    BY <1>1
  <2>6. /\ out' \in Seq(Token) /\ Len(out') = n + 2
        /\ \A p \in 1..n : out'[p] = out[p]
        /\ out'[n + 1] = argv[i] /\ out'[n + 2] = argv[i + 1]
    <3>1. /\ out' \in Seq(Token) /\ Len(out') = (n + 1) + 1
          /\ \A p \in 1..(n + 1) : out'[p] = Append(out, argv[i])[p]
          /\ out'[(n + 1) + 1] = argv[i + 1]
      BY <2>1, <2>2, <2>3, AppendFacts
    <3> QED
      BY <1>1, <2>3, <2>5, <3>1
  <2>7. /\ src' \in Seq(Nat)
        /\ \A p \in 1..n : src'[p] = src[p]
        /\ src'[n + 1] = i /\ src'[n + 2] = i + 1
    <3>1. /\ src' \in Seq(Nat)
          /\ \A p \in 1..(n + 1) : src'[p] = Append(src, i)[p]
          /\ src'[(n + 1) + 1] = i + 1
      BY <2>1, <2>2, <2>4, AppendFacts
    <3> QED
      BY <1>2, <2>4, <2>5, <3>1
  <2>8. /\ \A p \in 1..(n + 1) : src'[p] \in 1..i /\ out'[p] = argv[src'[p]]
        /\ \A p, q \in 1..(n + 1) : p < q => src'[p] < src'[q]
        /\ \A k \in own' : \E p \in 1..(n + 1) : src'[p] = k
        /\ \A p \in 1..(n + 1) :
              src'[p] \in own' \/ (p > 1 /\ src'[p - 1] \in own' /\ Wants(out'[p - 1]))
        /\ \A p \in 1..n : src'[p] \in own' /\ Wants(out'[p]) /\ src'[p] < Len(argv) =>
              p < n /\ src'[p + 1] = src'[p] + 1
    BY <1>11, <2>1, <2>6, <2>7
  <2>9. \A p \in 1..(n + 2) : p = n + 2 \/ p \in 1..(n + 1)
    BY <1>1
  <2>10. \A p \in 1..(n + 2) : src'[p] \in 1..(i + 1) /\ out'[p] = argv[src'[p]]
    BY <1>1, <2>6, <2>7, <2>8, <2>9
  <2>11. ASSUME NEW p \in 1..(n + 2), NEW q \in 1..(n + 2), p < q PROVE src'[p] < src'[q]
    <3>1. p \in 1..(n + 1)
      BY <1>2, <2>11
    <3>2. CASE q = n + 2
      <4>1. src'[p] \in 1..i
        BY <2>8, <3>1
      <4> QED
        BY <1>2, <2>7, <3>2, <4>1
    <3>3. CASE q \in 1..(n + 1)
      BY <2>8, <2>11, <3>1, <3>3
    <3> QED
      BY <2>9, <3>2, <3>3
  <2>12. \A k \in own' : \E p \in 1..(n + 2) : src'[p] = k
    BY <1>1, <2>8
  <2>13. ASSUME NEW p \in 1..(n + 2)
         PROVE  src'[p] \in own' \/ (p > 1 /\ src'[p - 1] \in own' /\ Wants(out'[p - 1]))
    <3>1. CASE p = n + 2
      <4>1. (n + 2) - 1 = n + 1 /\ n + 2 > 1
        BY <1>1
      <4> QED
        BY <2>1, <2>6, <2>7, <3>1, <4>1
    <3>2. CASE p \in 1..(n + 1)
      BY <2>8, <3>2
    <3> QED
      BY <2>9, <3>1, <3>2
  <2>14. ASSUME NEW p \in 1..(n + 2), src'[p] \in own', Wants(out'[p]), src'[p] < Len(argv)
         PROVE  p < n + 2 /\ src'[p + 1] = src'[p] + 1
    <3>1. p # n + 2
      BY <1>8, <2>1, <2>2, <2>7, <2>14
    <3>2. CASE p = n + 1
      BY <1>1, <2>5, <2>7, <3>2
    <3>3. CASE p \in 1..n
      BY <1>1, <2>8, <2>14, <3>3
    <3> QED
      BY <1>1, <3>1, <3>2, <3>3
  <2> HIDE DEF n
  <2> QED
    BY <1>1, <2>1, <2>2, <2>6, <2>10, <2>11, <2>12, <2>13, <2>14 DEF KeptTokens
<1> QED
  BY <1>10, <1>12, <1>13 DEF Filter


LEMMA FilterPlaced ==
    ASSUME LaunchInv, Filter
    PROVE  Placed'
<1>1. /\ argv \in Seq(Token) /\ i \in 1..Len(argv) /\ i \in Nat /\ argv[i] \in Token
      /\ out \in Seq(Token) /\ src \in Seq(Nat) /\ Len(src) = Len(out)
      /\ own \in SUBSET Nat /\ Len(argv) \in Nat /\ Len(out) \in Nat
      /\ pc = "filter" /\ j = 1 /\ flags = Defaults
  BY DEF Filter, LaunchInv, Placed, LaunchTypeOK, Filtering
<1>2. /\ i' \in 1..(Len(argv) + 1)
      /\ out' \in Seq(Token) /\ src' \in Seq(Nat) /\ own' \in SUBSET Nat
      /\ Len(src') = Len(out')
  <2>1. CASE Drop
    BY <1>1, <2>1 DEF Drop
  <2>2. CASE KeepOne
    BY <1>1, <2>2, AppendFacts DEF KeepOne
  <2>3. CASE KeepTwo
    <3>1. argv[i + 1] \in Token /\ i + 1 \in Nat /\ i + 2 \in 1..(Len(argv) + 1)
      BY <1>1, <2>3 DEF KeepTwo
    <3>2. /\ Append(out, argv[i]) \in Seq(Token) /\ Len(Append(out, argv[i])) = Len(out) + 1
          /\ Append(src, i) \in Seq(Nat) /\ Len(Append(src, i)) = Len(out) + 1
      BY <1>1, AppendFacts
    <3> QED
      BY <1>1, <2>3, <3>1, <3>2, AppendFacts DEF KeepTwo
  <2> QED
    BY <2>1, <2>2, <2>3 DEF Filter
<1>3. Len(out') \in Nat /\ j' = 1 /\ flags' = Defaults /\ pc' = "filter"
  BY <1>1, <1>2 DEF Filter, parse
<1>4. argv' = argv /\ mode' = mode /\ transport' = transport
  BY DEF Filter
<1>5. LaunchTypeOK'
  BY <1>1, <1>2, <1>3, <1>4 DEF LaunchInv, Placed, LaunchTypeOK
<1> QED
  BY <1>2, <1>3, <1>5 DEF Placed, Filtering, Untouched

LEMMA FilterStep ==
    ASSUME LaunchInv, Filter
    PROVE  LaunchInv'
<1>1. Placed' /\ ReadSoFar' /\ KeptTokens'
  BY FilterPlaced, FilterReads, FilterKeeps
<1>2. pc' = "filter" /\ pc = "filter" /\ argv' = argv /\ mode' = mode
  BY DEF Filter
<1>3. j' = 1 /\ flags' = Defaults /\ Len(out') \in Nat
  BY <1>1, <1>2 DEF Placed, Filtering, LaunchTypeOK
<1>4. \A f, n : ParsedUses(f, n)' = {p \in 1..(n - 1) : src'[p] \in own' /\ out'[p].name = f}
  BY DEF ParsedUses
<1>5. ParsedSoFar'
  BY <1>1, <1>3, <1>4 DEF ParsedSoFar, KeptTokens, ParsedUses
<1>6. Ended'
  BY <1>2 DEF Ended, Reached
<1>7. Led'
  BY <1>2 DEF LaunchInv, Led
<1> QED
  BY <1>1, <1>5, <1>6, <1>7 DEF LaunchInv


----------------------------------------------------------------------------
\* Before the filter.

LEMMA InitStep ==
    ASSUME Init
    PROVE  LaunchInv
<1>1. /\ argv \in Seq(Token) /\ mode \in Modes \union {"host"} /\ pc \in {"filter", "entry"}
      /\ i = 1 /\ out = << >> /\ src = << >> /\ own = {} /\ j = 1 /\ flags = Defaults
      /\ transport = "none"
      /\ pc # "entry" => mode = "host"
  BY LineAssumption DEF Init
<1>2. Len(out) = 0 /\ Len(argv) \in Nat /\ << >> \in Seq(Token) /\ << >> \in Seq(Nat)
  BY <1>1
<1>3. Placed
  BY <1>1, <1>2, DefaultsTyped DEF Placed, LaunchTypeOK, Filtering, Untouched
<1>4. ReadSoFar
  BY <1>1 DEF ReadSoFar
<1>5. KeptTokens
  BY <1>1, <1>2 DEF KeptTokens
<1>6. ParsedSoFar
  BY <1>1, <1>2 DEF ParsedSoFar, ParsedUses
<1>7. Ended /\ Led
  BY <1>1 DEF Ended, Reached, Led
<1> QED
  BY <1>3, <1>4, <1>5, <1>6, <1>7 DEF LaunchInv

LEMMA DispatchStep ==
    ASSUME LaunchInv, Dispatch
    PROVE  LaunchInv'
<1>1. /\ argv \in Seq(Token) /\ mode \in Modes \union {"host"} /\ pc = "entry"
      /\ i = 1 /\ out = << >> /\ src = << >> /\ own = {} /\ j = 1 /\ flags = Defaults
      /\ transport \in {"none", "http", "unix", "stdio"}
      /\ mode' = mode /\ i' = i /\ out' = out /\ src' = src /\ own' = own
      /\ j' = j /\ flags' = flags /\ transport' = transport
  BY DEF LaunchInv, Placed, LaunchTypeOK, Untouched, Filtering, Dispatch, filter, parse
<1>2. /\ argv' \in Seq(Token) /\ pc' \in {"shell", "other", "filter"}
      /\ Led'
  <2>1. CASE mode = "none"
    <3>1. pc' = "shell" /\ argv' = argv
      BY <2>1 DEF Dispatch
    <3> QED
      BY <1>1, <2>1, <3>1 DEF Led
  <2>2. ASSUME NEW m \in {"http", "stdio", "unix"}, m = IF mode = "empty" THEN "http" ELSE mode,
               mode \in {"empty", "http", "stdio", "unix"}
        PROVE  argv' \in Seq(Token) /\ pc' = "filter" /\ Led'
    <3>1. pc' = "filter" /\ argv' = Prefix(m) \o argv
      BY <2>2 DEF Dispatch
    <3>2. Prefix(m) \in Seq(Token)
      BY PrefixFacts
    <3>3. /\ argv' \in Seq(Token) /\ Len(Prefix(m)) <= Len(argv')
          /\ \A k \in 1..Len(Prefix(m)) : argv'[k] = Prefix(m)[k]
      BY <1>1, <3>1, <3>2, JoinFacts
    <3> QED
      BY <1>1, <2>2, <3>1, <3>3 DEF Led
  <2>3. CASE mode \in {"empty", "http", "stdio", "unix"}
    BY <2>2, <2>3
  <2>4. CASE mode \notin {"none", "empty", "http", "stdio", "unix"}
    <3>1. pc' = "other" /\ argv' = argv
      BY <2>4 DEF Dispatch
    <3> QED
      BY <1>1, <2>4, <3>1 DEF Led
  <2> QED
    BY <2>1, <2>2, <2>3, <2>4
<1>3. Len(out') = 0 /\ Len(argv') \in Nat /\ << >> \in Seq(Token) /\ << >> \in Seq(Nat)
  BY <1>1, <1>2
<1>4. Placed'
  BY <1>1, <1>2, <1>3, DefaultsTyped DEF Placed, LaunchTypeOK, Filtering, Untouched
<1>5. ReadSoFar'
  BY <1>1 DEF ReadSoFar
<1>6. KeptTokens'
  BY <1>1, <1>3 DEF KeptTokens
<1>7. ParsedSoFar'
  BY <1>1, <1>3 DEF ParsedSoFar, ParsedUses
<1>8. Ended'
  BY <1>2 DEF Ended, Reached
<1> QED
  BY <1>2, <1>4, <1>5, <1>6, <1>7, <1>8 DEF LaunchInv

----------------------------------------------------------------------------
\* The steps between and after the loops.

LEMMA LoopsUntouched ==
    ASSUME ReadSoFar, KeptTokens, ParsedSoFar,
           UNCHANGED <<argv, filter, parse>>
    PROVE  ReadSoFar' /\ KeptTokens' /\ ParsedSoFar'
<1>1. /\ argv' = argv /\ i' = i /\ out' = out /\ src' = src /\ own' = own
      /\ j' = j /\ flags' = flags
  BY DEF filter, parse
<1>2. ReadSoFar'
  BY <1>1 DEF ReadSoFar
<1>3. KeptTokens'
  BY <1>1 DEF KeptTokens
<1>4. ParsedSoFar'
  BY <1>1 DEF ParsedSoFar, ParsedUses
<1> QED
  BY <1>2, <1>3, <1>4

LEMMA FilteredStep ==
    ASSUME LaunchInv, Filtered
    PROVE  LaunchInv'
<1>1. /\ pc = "filter" /\ pc' = "parse" /\ i > Len(argv)
      /\ UNCHANGED <<mode, argv, filter, parse, transport>>
  BY DEF Filtered
<1>2. i' = i /\ i = Len(argv) + 1
  <2>1. i \in 1..(Len(argv) + 1) /\ argv \in Seq(Token)
    BY DEF LaunchInv, Placed, LaunchTypeOK
  <2>2. Len(argv) \in Nat
    BY <2>1
  <2> QED
    BY <1>1, <2>1, <2>2 DEF filter
<1>3. Placed'
  BY <1>1, <1>2 DEF LaunchInv, Placed, LaunchTypeOK, Filtering, Untouched, filter, parse
<1>4. Ended'
  BY <1>1 DEF Ended, Reached
<1>5. Led'
  BY <1>1 DEF LaunchInv, Led
<1> QED
  BY <1>1, <1>3, <1>4, <1>5, LoopsUntouched DEF LaunchInv

LEMMA AtOwnFlag ==
    ASSUME LaunchInv, pc \notin Filtering, j <= Len(out)
    PROVE  /\ j \in 1..Len(out) /\ src[j] \in own /\ src[j] \in 1..Len(argv)
           /\ out[j] \in Token /\ out[j] = argv[src[j]]
           /\ out[j].name \in Defined /\ ~Stops(out[j])
<1>1. j \in 1..Len(out) /\ out \in Seq(Token) /\ i = Len(argv) + 1 /\ Len(argv) \in Nat
  BY DEF LaunchInv, Placed, LaunchTypeOK
<1>2. src[j] \in own
  BY DEF LaunchInv, ParsedSoFar
<1>3. src[j] \in 1..(i - 1) /\ out[j] = argv[src[j]]
  BY <1>1 DEF LaunchInv, KeptTokens
<1>4. out[j] \in Token
  BY <1>1
<1>5. out[j].name \in Defined
  BY <1>2, <1>3 DEF LaunchInv, ReadSoFar, Begins
<1> QED
  BY <1>1, <1>2, <1>3, <1>4, <1>5, TokenFacts

LEMMA ParsedStep ==
    ASSUME LaunchInv, Parsed
    PROVE  LaunchInv'
<1>1. /\ pc = "parse" /\ pc' = "apply" /\ (j <= Len(out) => Stops(out[j]))
      /\ UNCHANGED <<mode, argv, filter, parse, transport>>
  BY DEF Parsed
<1>2. j \in 1..(Len(out) + 1) /\ Len(out) \in Nat
  BY DEF LaunchInv, Placed, LaunchTypeOK
<1>3. j = Len(out) + 1
  BY <1>1, <1>2, AtOwnFlag DEF Filtering, Untouched
<1>4. Placed'
  BY <1>1 DEF LaunchInv, Placed, LaunchTypeOK, Filtering, Untouched, filter, parse
<1>5. Ended'
  BY <1>1, <1>3 DEF Ended, Reached, filter, parse
<1>6. Led'
  BY <1>1 DEF LaunchInv, Led
<1> QED
  BY <1>1, <1>4, <1>5, <1>6, LoopsUntouched DEF LaunchInv

LEMMA ApplyStep ==
    ASSUME LaunchInv, Apply
    PROVE  LaunchInv'
<1>1. /\ pc = "apply" /\ pc' \in {"choose", "fatal"}
      /\ UNCHANGED <<mode, argv, filter, parse, transport>>
  BY DEF Apply
<1>2. Placed'
  BY <1>1 DEF LaunchInv, Placed, LaunchTypeOK, Filtering, Untouched, filter, parse
<1>3. Ended'
  BY <1>1 DEF LaunchInv, Ended, Reached, filter, parse
<1>4. Led'
  BY <1>1 DEF LaunchInv, Led
<1> QED
  BY <1>1, <1>2, <1>3, <1>4, LoopsUntouched DEF LaunchInv

LEMMA ChooseStep ==
    ASSUME LaunchInv, Choose
    PROVE  LaunchInv'
<1>1. /\ pc = "choose" /\ pc' \in {"serving", "fatal"}
      /\ UNCHANGED <<mode, argv, filter, parse>>
      /\ transport' = IF flags["http"] = "true" THEN "http"
                      ELSE IF flags["unix"] # NoText THEN "unix" ELSE "stdio"
  BY DEF Choose
<1>2. Placed'
  BY <1>1 DEF LaunchInv, Placed, LaunchTypeOK, Filtering, Untouched, filter, parse
<1>3. Ended'
  BY <1>1 DEF LaunchInv, Ended, Reached, filter, parse
<1>4. Led'
  BY <1>1 DEF LaunchInv, Led
<1> QED
  BY <1>1, <1>2, <1>3, <1>4, LoopsUntouched DEF LaunchInv


----------------------------------------------------------------------------
\* The parser.

\* What a flag takes for its value is no flag, and after both comes another.
LEMMA NextStarts ==
    ASSUME LaunchInv, pc = "parse", j <= Len(out)
    PROVE  /\ ~Wants(out[j]) /\ j + 1 <= Len(out) => src[j + 1] \in own
           /\ Wants(out[j]) /\ j + 1 <= Len(out) => src[j + 1] \notin own
           /\ Wants(out[j]) /\ j + 2 <= Len(out) => src[j + 2] \in own
           /\ Wants(out[j]) /\ j + 1 > Len(out) => src[j] = Len(argv)
<1>1. /\ j \in 1..Len(out) /\ src[j] \in own /\ src[j] \in 1..Len(argv)
      /\ out[j] = argv[src[j]]
  BY AtOwnFlag DEF Filtering, Untouched
<1>2. /\ Len(out) \in Nat /\ Len(argv) \in Nat /\ i = Len(argv) + 1 /\ j \in Nat
  <2>1. out \in Seq(Token) /\ argv \in Seq(Token) /\ i = Len(argv) + 1
    BY DEF LaunchInv, Placed, LaunchTypeOK, Filtering, Untouched
  <2> QED
    BY <1>1, <2>1
<1>3. i - 1 = Len(argv)
  BY <1>2
<1>4. /\ \A p \in 1..Len(out) : src[p] \in 1..Len(argv)
      /\ \A p, q \in 1..Len(out) : p < q => src[p] < src[q]
      /\ \A p \in 1..Len(out) :
            src[p] \in own \/ (p > 1 /\ src[p - 1] \in own /\ Wants(out[p - 1]))
      /\ \A p \in 1..Len(out) :
            src[p] \in own /\ Wants(out[p]) /\ src[p] < Len(argv) =>
                p < Len(out) /\ src[p + 1] = src[p] + 1
  BY <1>3 DEF LaunchInv, KeptTokens
<1>5. \A k \in 1..Len(argv) : k \in own <=> Begins(argv, own, k)
  BY <1>3 DEF LaunchInv, ReadSoFar
<1>6. ASSUME ~Wants(out[j]), j + 1 <= Len(out) PROVE src[j + 1] \in own
  <2>1. j + 1 \in 1..Len(out) /\ (j + 1) - 1 = j
    BY <1>2, <1>6
  <2> QED
    BY <1>4, <1>6, <2>1
<1>7. ASSUME Wants(out[j]), j + 1 <= Len(out) PROVE src[j + 1] \notin own
  <2>1. j + 1 \in 1..Len(out) /\ j < j + 1
    BY <1>2, <1>7
  <2>2. src[j] < src[j + 1] /\ src[j + 1] \in 1..Len(argv)
    BY <1>1, <1>4, <2>1
  <2>3. src[j] < Len(argv)
    BY <1>1, <1>2, <2>2
  <2>4. src[j + 1] = src[j] + 1
    BY <1>1, <1>4, <1>7, <2>3
  <2>5. src[j + 1] - 1 = src[j]
    BY <1>1, <2>4
  <2> QED
    BY <1>1, <1>5, <1>7, <2>2, <2>5 DEF Begins
<1>8. ASSUME Wants(out[j]), j + 2 <= Len(out) PROVE src[j + 2] \in own
  <2>1. j + 2 \in 1..Len(out) /\ (j + 2) - 1 = j + 1 /\ j + 1 <= Len(out)
    BY <1>2, <1>8
  <2> QED
    BY <1>4, <1>7, <1>8, <2>1
<1>9. ASSUME Wants(out[j]), j + 1 > Len(out) PROVE src[j] = Len(argv)
  <2>1. ~(src[j] < Len(argv))
    BY <1>1, <1>2, <1>4, <1>9
  <2> QED
    BY <1>1, <1>2, <2>1
<1> QED
  BY <1>6, <1>7, <1>8, <1>9

LEMMA SetKeeps ==
    ASSUME LaunchInv, pc = "parse", j <= Len(out), NEW next,
           next = IF Wants(out[j]) THEN j + 2 ELSE j + 1,
           next <= Len(out) + 1,
           flags' = [flags EXCEPT ![out[j].name] = ValueAt(out, j)],
           j' = next, UNCHANGED filter
    PROVE  ParsedSoFar'
<1>1. /\ j \in 1..Len(out) /\ src[j] \in own /\ out[j].name \in Defined
  BY AtOwnFlag DEF Filtering, Untouched
<1>2. /\ Len(out) \in Nat /\ j \in Nat /\ flags \in [Defined -> Values]
      /\ next \in Nat /\ j < next
  <2>1. out \in Seq(Token) /\ flags \in [Defined -> Values]
    BY DEF LaunchInv, Placed, LaunchTypeOK
  <2> QED
    BY <1>1, <2>1
<1>3. src' = src /\ own' = own /\ out' = out
  BY DEF filter
<1>4. /\ \A p \in 1..(j - 1) : src[p] \in own /\ Wants(out[p]) => p + 1 <= j - 1
      /\ \A f \in Defined :
            \/ ParsedUses(f, j) = {} /\ flags[f] = Defaults[f]
            \/ \E p \in ParsedUses(f, j) :
                  /\ \A q \in ParsedUses(f, j) : q <= p
                  /\ flags[f] = ValueAt(out, p)
  BY DEF LaunchInv, ParsedSoFar
<1>5. next <= Len(out) => src[next] \in own
  BY <1>2, NextStarts
<1>6. \A p \in 1..(next - 1) :
          p \in 1..(j - 1) \/ p = j \/ (p = j + 1 /\ Wants(out[j]) /\ src[p] \notin own)
  <2>1. Wants(out[j]) => j + 1 <= Len(out)
    BY <1>2
  <2>2. Wants(out[j]) => src[j + 1] \notin own
    BY <2>1, NextStarts
  <2> QED
    BY <1>2, <2>2
<1>7. ASSUME NEW p \in 1..(next - 1), src[p] \in own, Wants(out[p])
      PROVE  p + 1 <= next - 1
  <2>1. CASE p \in 1..(j - 1)
    BY <1>2, <1>4, <1>7, <2>1
  <2>2. CASE p = j
    BY <1>2, <1>7, <2>2
  <2> QED
    BY <1>6, <1>7, <2>1, <2>2
<1>8. ASSUME NEW f \in Defined
      PROVE  ParsedUses(f, next) =
                 ParsedUses(f, j) \union (IF f = out[j].name THEN {j} ELSE {})
  <2>1. \A p \in 1..(j - 1) : p \in 1..(next - 1) /\ p # j
    BY <1>2
  <2>2. j \in 1..(next - 1)
    BY <1>1, <1>2
  <2> QED
    BY <1>1, <1>6, <2>1, <2>2 DEF ParsedUses
<1>9. ASSUME NEW f \in Defined
      PROVE  \/ ParsedUses(f, next) = {} /\ flags'[f] = Defaults[f]
             \/ \E p \in ParsedUses(f, next) :
                   /\ \A q \in ParsedUses(f, next) : q <= p
                   /\ flags'[f] = ValueAt(out, p)
  <2>1. CASE f # out[j].name
    <3>1. ParsedUses(f, next) = ParsedUses(f, j) /\ flags'[f] = flags[f]
      BY <1>2, <1>8, <2>1
    <3> QED
      BY <1>4, <3>1
  <2>2. CASE f = out[j].name
    <3>1. j \in ParsedUses(f, next) /\ flags'[f] = ValueAt(out, j)
      BY <1>2, <1>8, <2>2
    <3>2. ASSUME NEW q \in ParsedUses(f, next) PROVE q <= j
      <4>1. q = j \/ q \in 1..(j - 1)
        BY <1>8, <2>2 DEF ParsedUses
      <4> QED
        BY <1>2, <4>1
    <3> QED
      BY <3>1, <3>2
  <2> QED
    BY <2>1, <2>2
<1>10. \A f, n : ParsedUses(f, n)' = ParsedUses(f, n)
  BY <1>3 DEF ParsedUses
<1> HIDE DEF ParsedUses
<1> QED
  BY <1>3, <1>5, <1>7, <1>9, <1>10 DEF ParsedSoFar

LEMMA ParseStep ==
    ASSUME LaunchInv, Parse
    PROVE  LaunchInv'
<1> DEFINE tok == out[j]
<1>1. /\ pc = "parse" /\ j <= Len(out)
      /\ UNCHANGED <<mode, argv, filter, transport>>
      /\ IF BadSyntax(tok) \/ tok.name \notin Defined THEN Refuse
         ELSE ParseSwitch(tok) \/ ParseValued(tok)
  BY DEF Parse
<1>2. /\ j \in 1..Len(out) /\ tok \in Token /\ tok.name \in Defined
  BY <1>1, AtOwnFlag DEF Filtering, Untouched
<1>3. /\ out \in Seq(Token) /\ Len(out) \in Nat /\ j \in Nat
      /\ flags \in [Defined -> Values] /\ i = Len(argv) + 1
  <2>1. out \in Seq(Token) /\ flags \in [Defined -> Values] /\ i = Len(argv) + 1
    BY <1>1 DEF LaunchInv, Placed, LaunchTypeOK, Filtering, Untouched
  <2> QED
    BY <1>2, <2>1
<1>4. ReadSoFar' /\ KeptTokens'
  <2>1. argv' = argv /\ i' = i /\ out' = out /\ src' = src /\ own' = own
    BY <1>1 DEF filter
  <2> QED
    BY <2>1 DEF LaunchInv, ReadSoFar, KeptTokens
<1>5. Led'
  BY <1>1 DEF LaunchInv, Led, Parse, Set, Refuse
<1>6. ASSUME Refuse,
             \/ tok.dashes > 2
             \/ tok.name \in Switches /\ tok.inline
             \/ Wants(tok) /\ j = Len(out)
      PROVE  LaunchInv'
  <2>1. pc' = "usage" /\ j' = j /\ flags' = flags
    BY <1>6 DEF Refuse, parse
  <2>2. Placed'
    BY <1>1, <2>1 DEF LaunchInv, Placed, LaunchTypeOK, Filtering, Untouched, filter
  <2>3. ParsedSoFar'
    BY <1>1, <2>1 DEF LaunchInv, ParsedSoFar, ParsedUses, filter
  <2>4. Ended'
    BY <1>1, <1>6, <2>1 DEF Ended, Reached, filter
  <2> QED
    BY <1>4, <1>5, <2>2, <2>3, <2>4 DEF LaunchInv
<1>7. ASSUME NEW v, NEW next, Set(tok.name, v, next), v \in Values, v = ValueAt(out, j),
             next = IF Wants(tok) THEN j + 2 ELSE j + 1, next <= Len(out) + 1
      PROVE  LaunchInv'
  <2>1. /\ pc' = "parse" /\ j' = next
        /\ flags' = [flags EXCEPT ![tok.name] = v]
    BY <1>1, <1>7 DEF Set
  <2>2. flags' \in [Defined -> Values] /\ j' \in 1..(Len(out) + 1)
    BY <1>2, <1>3, <1>7, <2>1
  <2>3. Placed'
    BY <1>1, <2>1, <2>2 DEF LaunchInv, Placed, LaunchTypeOK, Filtering, Untouched, filter
  <2>4. ParsedSoFar'
    BY <1>1, <1>7, <2>1, SetKeeps
  <2>5. Ended'
    BY <2>1 DEF Ended, Reached
  <2> QED
    BY <1>4, <1>5, <2>3, <2>4, <2>5 DEF LaunchInv
<1>8. CASE BadSyntax(tok)
  BY <1>1, <1>2, <1>6, <1>8, TokenFacts
<1>9. CASE ParseSwitch(tok)
  <2>1. tok.name \in Switches /\ ~Wants(tok) /\ tok.inline \in BOOLEAN /\ tok.value \in Values
    BY <1>2, <1>9, FlagFacts, TokenFacts DEF ParseSwitch, Wants
  <2>2. CASE ~tok.inline
    <3>1. Set(tok.name, "true", j + 1)
      BY <1>9, <2>2 DEF ParseSwitch
    <3>2. ValueAt(out, j) = "true" /\ "true" \in Values
      BY <2>1, <2>2, TextAssumption DEF ValueAt
    <3> QED
      BY <1>1, <1>3, <1>7, <2>1, <3>1, <3>2
  <2>3. CASE tok.inline /\ tok.value \in Booleans
    <3>1. Set(tok.name, tok.value, j + 1)
      BY <1>9, <2>3 DEF ParseSwitch
    <3>2. ValueAt(out, j) = tok.value
      BY <2>3 DEF ValueAt
    <3> QED
      BY <1>1, <1>3, <1>7, <2>1, <3>1, <3>2
  <2>4. CASE tok.inline /\ tok.value \notin Booleans
    <3>1. Refuse
      BY <1>9, <2>4 DEF ParseSwitch
    <3> QED
      BY <1>6, <2>1, <2>4, <3>1
  <2> QED
    BY <2>1, <2>2, <2>3, <2>4
<1>10. CASE ParseValued(tok)
  <2>1. tok.name \in Valued /\ tok.inline \in BOOLEAN /\ tok.value \in Values
    BY <1>2, <1>10, TokenFacts DEF ParseValued
  <2>2. CASE tok.inline
    <3>1. Set(tok.name, tok.value, j + 1) /\ ~Wants(tok)
      BY <1>10, <2>2 DEF ParseValued, Wants
    <3>2. ValueAt(out, j) = tok.value
      BY <2>2 DEF ValueAt
    <3> QED
      BY <1>1, <1>3, <1>7, <2>1, <3>1, <3>2
  <2>3. CASE ~tok.inline /\ j < Len(out)
    <3>1. ~(j >= Len(out))
      BY <1>3, <2>3
    <3>2. Set(tok.name, Text(out[j + 1]), j + 2) /\ Wants(tok)
      BY <1>10, <2>1, <2>3, <3>1, Zenon DEF ParseValued, Wants
    <3>3. ValueAt(out, j) = Text(out[j + 1])
      BY <2>3, <3>2 DEF ValueAt
    <3>4. out[j + 1] \in Token
      BY <1>3, <2>3
    <3>5. Text(out[j + 1]) \in Values
      BY <3>4, TokenFacts
    <3> QED
      BY <1>3, <1>7, <2>3, <3>2, <3>3, <3>5
  <2>4. CASE ~tok.inline /\ j >= Len(out)
    <3>1. ~(j < Len(out))
      BY <1>3, <2>4
    <3>2. Refuse
      BY <1>10, <2>4, <3>1, Zenon DEF ParseValued
    <3> QED
      BY <1>1, <1>3, <1>6, <2>1, <2>4, <3>2 DEF Wants
  <2> QED
    BY <1>3, <2>1, <2>2, <2>3, <2>4
<1> QED
  BY <1>1, <1>2, <1>8, <1>9, <1>10


----------------------------------------------------------------------------
LEMMA LaunchInductive == LaunchInv /\ [Next]_vars => LaunchInv'
<1> SUFFICES ASSUME LaunchInv, [Next]_vars PROVE LaunchInv'
  OBVIOUS
<1>1. CASE UNCHANGED vars
  <2>1. UNCHANGED <<pc, mode, argv, filter, parse, transport>>
    BY <1>1 DEF vars
  <2>2. Placed'
    BY <2>1 DEF LaunchInv, Placed, LaunchTypeOK, filter, parse
  <2>3. Ended'
    BY <2>1 DEF LaunchInv, Ended, filter, parse
  <2>4. Led'
    BY <2>1 DEF LaunchInv, Led
  <2> QED
    BY <2>1, <2>2, <2>3, <2>4, LoopsUntouched DEF LaunchInv
<1> QED
  BY <1>1, DispatchStep, FilterStep, FilteredStep, ParseStep, ParsedStep, ApplyStep,
     ChooseStep DEF Next

LEMMA LaunchInvariance == Spec => []LaunchInv
BY InitStep, LaunchInductive, PTL DEF Spec

\* Neither loop ever runs past what it reads (main.go:236-255).
THEOREM LaunchTypeCorrect == Spec => []LaunchTypeOK
<1>1. LaunchInv => LaunchTypeOK
  BY DEF LaunchInv, Placed
<1> QED
  BY <1>1, LaunchInvariance, PTL

\* Nothing but flags of the worker's own ever reaches the parser (main.go:229).
THEOREM ParserReadsOwnFlagsOnlyCorrect == Spec => []ParserReadsOwnFlagsOnly
<1>1. LaunchInv => ParserReadsOwnFlagsOnly
  BY AtOwnFlag DEF LaunchInv, Ended, Reached, Read, Filtering, Untouched,
                   ParserReadsOwnFlagsOnly
<1> QED
  BY <1>1, LaunchInvariance, PTL

\* The parser refuses no command line but for a malformed flag of the worker's
\* own on it.
LEMMA Aborts == LaunchInv => AbortsAreOwnFaults
<1> SUFFICES ASSUME LaunchInv, pc = "usage"
             PROVE  /\ \E k \in 1..Len(argv) : argv[k] = out[j]
                    /\ out[j].name \in Defined
                    /\ \/ out[j].dashes > 2
                       \/ out[j].name \in Switches /\ out[j].inline
                       \/ out[j].name \in Valued /\ argv[Len(argv)] = out[j]
  BY DEF AbortsAreOwnFaults
<1>1. j <= Len(out)
  BY DEF LaunchInv, Ended
<1>2. /\ j \in 1..Len(out) /\ src[j] \in own /\ src[j] \in 1..Len(argv)
      /\ out[j] = argv[src[j]] /\ out[j].name \in Defined
  BY <1>1, AtOwnFlag DEF Filtering, Untouched
<1>3. CASE Wants(out[j]) /\ j = Len(out)
  <2>1. i - 1 = Len(argv) /\ Len(out) \in Nat /\ Len(argv) \in Nat
    <3>1. i = Len(argv) + 1 /\ argv \in Seq(Token) /\ out \in Seq(Token)
      BY DEF LaunchInv, Placed, LaunchTypeOK, Filtering, Untouched
    <3> QED
      BY <3>1
  <2>2. ~(src[j] < Len(argv))
    BY <1>2, <1>3, <2>1 DEF LaunchInv, KeptTokens
  <2>3. src[j] = Len(argv)
    BY <1>2, <2>1, <2>2
  <2> QED
    BY <1>2, <1>3, <2>3 DEF Wants
<1> QED
  BY <1>2, <1>3 DEF LaunchInv, Ended

THEOREM AbortsAreOwnFaultsCorrect == Spec => []AbortsAreOwnFaults
BY Aborts, LaunchInvariance, PTL

----------------------------------------------------------------------------
\* One reading of a command line finds what the filter found.
LEMMA OneReading ==
    ASSUME LaunchInv, pc \notin Filtering
    PROVE  Reading(argv) = own
<1>1. i - 1 = Len(argv)
  <2>1. i = Len(argv) + 1 /\ argv \in Seq(Token)
    BY DEF LaunchInv, Placed, LaunchTypeOK
  <2> QED
    BY <2>1
<1>2. own \in SUBSET (1..Len(argv)) /\ IsReading(argv, own)
  BY <1>1 DEF LaunchInv, ReadSoFar, IsReading, Begins
<1>3. Reading(argv) \in SUBSET (1..Len(argv)) /\ IsReading(argv, Reading(argv))
  BY <1>2 DEF Reading
<1>4. \A k \in 1..Len(argv) : k \in Reading(argv) <=> k \in own
  BY <1>1, <1>3 DEF LaunchInv, ReadSoFar
<1> QED
  BY <1>2, <1>3, <1>4

LEMMA SettingsMeant == LaunchInv => SettingsAreAsMeant
<1> SUFFICES ASSUME LaunchInv, pc \in Reached PROVE flags = Means(argv)
  BY DEF SettingsAreAsMeant, Read, Reached
<1>1. Reading(argv) = own
  BY OneReading DEF Reached, Filtering, Untouched
<1>2. /\ argv \in Seq(Token) /\ out \in Seq(Token) /\ flags \in [Defined -> Values]
      /\ i = Len(argv) + 1 /\ j = Len(out) + 1
  BY DEF LaunchInv, Placed, LaunchTypeOK, Ended, Reached, Filtering, Untouched
<1>3. /\ Len(argv) \in Nat /\ Len(out) \in Nat /\ i - 1 = Len(argv) /\ j - 1 = Len(out)
  BY <1>2
<1>4. /\ \A p \in 1..Len(out) : src[p] \in 1..Len(argv) /\ out[p] = argv[src[p]]
      /\ \A p, q \in 1..Len(out) : p < q => src[p] < src[q]
      /\ \A k \in own : \E p \in 1..Len(out) : src[p] = k
      /\ \A p \in 1..Len(out) :
            src[p] \in own /\ Wants(out[p]) /\ src[p] < Len(argv) =>
                p < Len(out) /\ src[p + 1] = src[p] + 1
  BY <1>3 DEF LaunchInv, KeptTokens
<1>5. /\ \A p \in 1..Len(out) : src[p] \in own /\ Wants(out[p]) => p + 1 <= Len(out)
      /\ \A f \in Defined :
            \/ ParsedUses(f, j) = {} /\ flags[f] = Defaults[f]
            \/ \E p \in ParsedUses(f, j) :
                  /\ \A q \in ParsedUses(f, j) : q <= p
                  /\ flags[f] = ValueAt(out, p)
  BY <1>3 DEF LaunchInv, ParsedSoFar
<1>6. ASSUME NEW p \in 1..Len(out), src[p] \in own
      PROVE  ValueAt(out, p) = ValueAt(argv, src[p])
  <2>1. CASE ~Wants(out[p])
    BY <1>4, <2>1 DEF ValueAt
  <2>2. CASE Wants(out[p])
    <3>1. p + 1 \in 1..Len(out) /\ p < p + 1
      BY <1>3, <1>5, <1>6, <2>2
    <3>2. src[p] < src[p + 1] /\ src[p + 1] \in 1..Len(argv) /\ src[p] \in 1..Len(argv)
      BY <1>4, <3>1
    <3>3. src[p] < Len(argv)
      BY <1>3, <3>2
    <3>4. out[p + 1] = argv[src[p] + 1]
      BY <1>4, <1>6, <2>2, <3>1, <3>3
    <3> QED
      BY <1>4, <2>2, <3>1, <3>2, <3>3, <3>4 DEF ValueAt
  <2> QED
    BY <2>1, <2>2
<1>7. ASSUME NEW f \in Defined PROVE flags[f] = Means(argv)[f]
  <2> DEFINE last == CHOOSE k \in Uses(argv, f) : \A l \in Uses(argv, f) : l <= k
  <2>1. \A p \in 1..Len(out) : p \in ParsedUses(f, j) <=> src[p] \in Uses(argv, f)
    BY <1>1, <1>3, <1>4 DEF ParsedUses, Uses
  <2>2. ParsedUses(f, j) \subseteq 1..Len(out)
    BY <1>3 DEF ParsedUses
  <2>3. \A k \in Uses(argv, f) : \E p \in ParsedUses(f, j) : src[p] = k
    BY <1>1, <1>4, <2>1 DEF Uses
  <2>4. CASE Uses(argv, f) = {}
    <3>1. ParsedUses(f, j) = {}
      BY <2>1, <2>2, <2>4
    <3> QED
      BY <1>5, <2>4, <3>1 DEF Means
  <2>5. CASE Uses(argv, f) # {}
    <3>1. PICK p \in ParsedUses(f, j) :
              /\ \A q \in ParsedUses(f, j) : q <= p
              /\ flags[f] = ValueAt(out, p)
      BY <1>5, <2>3, <2>5
    <3>2. p \in 1..Len(out) /\ src[p] \in Uses(argv, f) /\ src[p] \in own
      BY <2>1, <2>2, <3>1 DEF ParsedUses
    <3>3. ASSUME NEW l \in Uses(argv, f) PROVE l \in Nat /\ l <= src[p]
      <4>1. PICK q \in ParsedUses(f, j) : src[q] = l
        BY <2>3
      <4>2. q \in 1..Len(out) /\ q <= p
        BY <2>2, <3>1, <4>1
      <4>3. src[p] \in Nat /\ src[q] \in Nat
        BY <1>3, <1>4, <3>2, <4>2
      <4>4. q = p \/ q < p
        BY <1>3, <3>2, <4>2
      <4> QED
        BY <1>4, <3>2, <4>1, <4>2, <4>3, <4>4
    <3>4. last \in Uses(argv, f) /\ \A l \in Uses(argv, f) : l <= last
      BY <3>2, <3>3
    <3>5. Means(argv)[f] = ValueAt(argv, last)
      BY <2>5 DEF Means
    <3> HIDE DEF last
    <3>6. last = src[p]
      BY <3>2, <3>3, <3>4
    <3> QED
      BY <1>6, <3>1, <3>2, <3>5, <3>6
  <2> QED
    BY <2>4, <2>5
<1>8. Means(argv) = [f \in Defined |-> Means(argv)[f]]
  BY DEF Means
<1>9. flags = [f \in Defined |-> flags[f]]
  BY <1>2
<1> QED
  BY <1>7, <1>8, <1>9

\* Two passes with two lists of flags make of every command line what one
\* reading of it means (main.go:25-27, 229-231).
THEOREM SettingsAreAsMeantCorrect == Spec => []SettingsAreAsMeant
BY SettingsMeant, LaunchInvariance, PTL


----------------------------------------------------------------------------
\* Behind a container's own flags, the launcher's are no flags at all.

\* The shape of what the entrypoint puts in front.
OwnFlag(tok, f) == tok.name = f /\ tok.dashes = 2 /\ tok.inline = FALSE
Word(tok, v) == tok.name = NoText /\ Text(tok) = v

LEMMA LeadTokens ==
    /\ \A f : OwnFlag(Opt(2, f), f)
    /\ \A v : Word(Plain(v), v)
<1>1. ASSUME NEW f PROVE OwnFlag(Opt(2, f), f)
  BY DEF OwnFlag, Opt
<1>2. ASSUME NEW v PROVE Word(Plain(v), v)
  <2>1. Plain(v).name = NoText /\ Plain(v).dashes = 0 /\ Plain(v).value = v
    BY DEF Plain
  <2> QED
    BY <2>1 DEF Word, Text
<1> QED
  BY <1>1, <1>2

LEMMA LedBy ==
    ASSUME LaunchInv, pc # "entry", NEW m \in {"http", "stdio", "unix"},
           mode \in {"empty", "http", "stdio", "unix"},
           m = IF mode = "empty" THEN "http" ELSE mode
    PROVE  /\ argv \in Seq(Token) /\ Len(argv) \in Nat
           /\ m = "http" => /\ 3 <= Len(argv)
                            /\ OwnFlag(argv[1], "http") /\ OwnFlag(argv[2], "http-addr")
                            /\ Word(argv[3], "published")
           /\ m = "unix" => /\ 2 <= Len(argv)
                            /\ OwnFlag(argv[1], "unix") /\ Word(argv[2], "socket")
<1>1. /\ Len(Prefix(m)) <= Len(argv)
      /\ \A k \in 1..Len(Prefix(m)) : argv[k] = Prefix(m)[k]
  BY DEF LaunchInv, Led
<1>2. argv \in Seq(Token)
  BY DEF LaunchInv, Placed, LaunchTypeOK
<1>3. Len(argv) \in Nat
  BY <1>2
<1>4. CASE m = "http"
  <2>1. Len(Prefix(m)) = 3
    BY <1>4, PrefixFacts
  <2>2. argv[1] = Opt(2, "http") /\ argv[2] = Opt(2, "http-addr")
    BY <1>1, <1>4, <2>1, PrefixFacts
  <2>3. argv[3] = Plain("published")
    BY <1>1, <1>4, <2>1, PrefixFacts
  <2> QED
    BY <1>1, <1>2, <1>3, <1>4, <2>1, <2>2, <2>3, LeadTokens
<1>5. CASE m = "unix"
  <2>1. Len(Prefix(m)) = 2
    BY <1>5, PrefixFacts
  <2>2. argv[1] = Opt(2, "unix") /\ argv[2] = Plain("socket")
    BY <1>1, <1>5, <2>1, PrefixFacts
  <2> QED
    BY <1>1, <1>2, <1>3, <1>5, <2>1, <2>2, LeadTokens
<1>6. CASE m = "stdio"
  BY <1>2, <1>3, <1>6
<1> QED
  BY <1>4, <1>5, <1>6

LEMMA ContainerServes == LaunchInv => ContainerServesItsMode
<1> DEFINE lead(m) == CASE m = "http" -> 3 [] m = "unix" -> 2 [] m = "stdio" -> 0
<1> SUFFICES ASSUME LaunchInv, pc \in {"usage", "serving"},
                    NEW m \in {"http", "stdio", "unix"},
                    m = IF mode = "empty" THEN "http" ELSE mode,
                    \A k \in 1..Len(argv) : argv[k].name \in Defined => k <= lead(m)
             PROVE  /\ pc # "usage"
                    /\ pc = "serving" =>
                          /\ transport = m
                          /\ m = "http" => flags["http-addr"] = "published"
                          /\ m = "unix" => flags["unix"] = "socket"
  BY DEF ContainerServesItsMode
<1>1. /\ m = "http" => lead(m) = 3
      /\ m = "unix" => lead(m) = 2
      /\ m = "stdio" => lead(m) = 0
  OBVIOUS
<1> HIDE DEF lead
<1>2. mode \in {"empty", "http", "stdio", "unix"} /\ pc # "entry" /\ pc \notin Filtering
  BY DEF Filtering, Untouched
<1>3. /\ Len(argv) \in Nat
      /\ m = "http" => /\ 3 <= Len(argv)
                       /\ OwnFlag(argv[1], "http") /\ OwnFlag(argv[2], "http-addr")
                       /\ Word(argv[3], "published")
      /\ m = "unix" => /\ 2 <= Len(argv)
                       /\ OwnFlag(argv[1], "unix") /\ Word(argv[2], "socket")
  BY <1>2, LedBy
\* Where flags of the worker's own stand.
<1>4. /\ m = "http" => \A k \in 1..Len(argv) : argv[k].name \in Defined => k = 1 \/ k = 2
      /\ m = "unix" => \A k \in 1..Len(argv) : argv[k].name \in Defined => k = 1
      /\ m = "stdio" => \A k \in 1..Len(argv) : argv[k].name \notin Defined
  <2>1. ASSUME NEW k \in 1..Len(argv), argv[k].name \in Defined, m = "http"
        PROVE  k = 1 \/ k = 2
    <3>1. k = 1 \/ k = 2 \/ k = 3
      BY <1>1, <1>3, <2>1
    <3>2. argv[3].name = NoText
      BY <1>3, <2>1 DEF Word
    <3> QED
      BY <2>1, <3>1, <3>2, FlagFacts
  <2>2. ASSUME NEW k \in 1..Len(argv), argv[k].name \in Defined, m = "unix"
        PROVE  k = 1
    <3>1. k = 1 \/ k = 2
      BY <1>1, <1>3, <2>2
    <3>2. argv[2].name = NoText
      BY <1>3, <2>2 DEF Word
    <3> QED
      BY <2>2, <3>1, <3>2, FlagFacts
  <2>3. ASSUME NEW k \in 1..Len(argv), argv[k].name \in Defined, m = "stdio"
        PROVE  FALSE
    BY <1>1, <1>3, <2>3
  <2> QED
    BY <2>1, <2>2, <2>3
<1>5. pc # "usage"
  <2> SUFFICES ASSUME pc = "usage" PROVE FALSE
    OBVIOUS
  <2>1. PICK k \in 1..Len(argv) : argv[k] = out[j]
    BY Aborts DEF AbortsAreOwnFaults
  <2>2. /\ out[j].name \in Defined
        /\ \/ out[j].dashes > 2
           \/ out[j].name \in Switches /\ out[j].inline
           \/ out[j].name \in Valued /\ argv[Len(argv)] = out[j]
    BY Aborts DEF AbortsAreOwnFaults
  <2>3. out[j].dashes = 2 /\ out[j].inline = FALSE
    BY <1>3, <1>4, <2>1, <2>2 DEF OwnFlag
  <2>4. argv[Len(argv)].name \in Defined
    <3>1. ~(out[j].dashes > 2)
      BY <2>3
    <3> QED
      BY <2>2, <2>3, <3>1
  <2>5. Len(argv) \in 1..Len(argv)
    BY <1>3, <2>1
  <2> QED
    BY <1>3, <1>4, <2>4, <2>5
<1>6. ASSUME pc = "serving"
      PROVE  /\ transport = m
             /\ m = "http" => flags["http-addr"] = "published"
             /\ m = "unix" => flags["unix"] = "socket"
  <2>1. flags = Means(argv)
    BY <1>6, SettingsMeant DEF SettingsAreAsMeant, Read
  <2>2. /\ Reading(argv) = own /\ own \subseteq 1..Len(argv)
        /\ \A k \in 1..Len(argv) : k \in own <=> Begins(argv, own, k)
    <3>1. Reading(argv) = own /\ i = Len(argv) + 1
      BY <1>2, OneReading DEF LaunchInv, Placed
    <3>2. i - 1 = Len(argv)
      BY <1>3, <3>1
    <3> QED
      BY <3>1, <3>2 DEF LaunchInv, ReadSoFar
  <2>3. transport = IF flags["http"] = "true" THEN "http"
                    ELSE IF flags["unix"] # NoText THEN "unix" ELSE "stdio"
    BY <1>6 DEF LaunchInv, Ended
  <2>4. ASSUME NEW f \in Defined
        PROVE  /\ Uses(argv, f) = {k \in own : argv[k].name = f}
               /\ Uses(argv, f) = {} => flags[f] = Defaults[f]
               /\ \A k \in Nat : Uses(argv, f) = {k} => flags[f] = ValueAt(argv, k)
    <3>1. Uses(argv, f) = {k \in own : argv[k].name = f}
      BY <2>2 DEF Uses
    <3>2. Uses(argv, f) = {} => flags[f] = Defaults[f]
      BY <2>1 DEF Means
    <3>3. ASSUME NEW k \in Nat, Uses(argv, f) = {k} PROVE flags[f] = ValueAt(argv, k)
      BY <2>1, <3>3 DEF Means
    <3> QED
      BY <3>1, <3>2, <3>3
  <2>5. /\ Defaults["unix"] = NoText /\ Defaults["http"] = "false"
        /\ "http" \notin Valued /\ "http-addr" \in Valued /\ "unix" \in Valued
        /\ {"http", "http-addr", "unix"} \subseteq Defined
    BY FlagFacts DEF Defaults
  <2>6. ASSUME 1 <= Len(argv), argv[1].name \in Defined PROVE 1 \in own
    <3>1. 1 \in 1..Len(argv) /\ 1 - 1 \notin own
      BY <1>3, <2>2, <2>6
    <3> QED
      BY <2>2, <2>6, <3>1 DEF Begins
  <2>7. CASE m = "http"
    <3>1. /\ argv[1].name = "http" /\ argv[1].inline = FALSE
          /\ argv[2].name = "http-addr" /\ argv[2].inline = FALSE
          /\ Text(argv[3]) = "published"
      BY <1>3, <2>7 DEF OwnFlag, Word
    <3>2. ~Wants(argv[1]) /\ Wants(argv[2])
      BY <2>5, <3>1 DEF Wants
    <3>3. own = {1, 2}
      <4>1. 1 \in own
        BY <1>3, <2>5, <2>6, <2>7, <3>1
      <4>2. 2 \in 1..Len(argv) /\ 2 - 1 = 1
        BY <1>3, <2>7
      <4>3. 2 \in own
        BY <2>2, <2>5, <3>1, <3>2, <4>2 DEF Begins
      <4>4. \A k \in own : k = 1 \/ k = 2
        BY <1>4, <2>2, <2>7 DEF Begins
      <4> QED
        BY <4>1, <4>3, <4>4
    <3>4. Uses(argv, "http") = {1} /\ Uses(argv, "http-addr") = {2}
      <4>1. /\ Uses(argv, "http") = {k \in {1, 2} : argv[k].name = "http"}
            /\ Uses(argv, "http-addr") = {k \in {1, 2} : argv[k].name = "http-addr"}
        BY <2>4, <2>5, <3>3
      <4>2. "http" # "http-addr"
        OBVIOUS
      <4> QED
        BY <3>1, <4>1, <4>2
    <3>5. ValueAt(argv, 1) = "true" /\ ValueAt(argv, 2) = "published"
      <4>1. 2 + 1 = 3 /\ 2 < Len(argv)
        BY <1>3, <2>7
      <4> QED
        BY <3>1, <3>2, <4>1 DEF ValueAt
    <3>6. flags["http"] = "true" /\ flags["http-addr"] = "published"
      BY <2>4, <2>5, <3>4, <3>5
    <3> QED
      BY <2>3, <2>7, <3>6
  <2>8. CASE m = "unix"
    <3>1. /\ argv[1].name = "unix" /\ argv[1].inline = FALSE
          /\ Text(argv[2]) = "socket"
      BY <1>3, <2>8 DEF OwnFlag, Word
    <3>2. Wants(argv[1])
      BY <2>5, <3>1 DEF Wants
    <3>3. own = {1}
      <4>1. 1 \in own
        BY <1>3, <2>5, <2>6, <2>8, <3>1
      <4>2. \A k \in own : k = 1
        BY <1>4, <2>2, <2>8 DEF Begins
      <4> QED
        BY <4>1, <4>2
    <3>4. Uses(argv, "unix") = {1} /\ Uses(argv, "http") = {}
      BY <2>4, <2>5, <3>1, <3>3
    <3>5. ValueAt(argv, 1) = "socket"
      <4>1. 1 + 1 = 2 /\ 1 < Len(argv)
        BY <1>3, <2>8
      <4> QED
        BY <3>1, <3>2, <4>1 DEF ValueAt
    <3>6. flags["http"] = "false" /\ flags["unix"] = "socket"
      BY <2>4, <2>5, <3>4, <3>5
    <3> QED
      BY <2>3, <2>8, <3>6, NoTextIsNone
  <2>9. CASE m = "stdio"
    <3>1. own = {}
      BY <1>4, <2>2, <2>9 DEF Begins
    <3>2. Uses(argv, "unix") = {} /\ Uses(argv, "http") = {}
      BY <2>4, <2>5, <3>1
    <3>3. flags["http"] = "false" /\ flags["unix"] = NoText
      BY <2>4, <2>5, <3>2
    <3> QED
      BY <2>3, <2>9, <3>3
  <2> QED
    BY <2>7, <2>8, <2>9
<1> QED
  BY <1>5, <1>6

\* A container given the launcher's flags serves the transport of its mode, for
\* any flags and words the launcher may add (docker-entrypoint.sh:15-30).
THEOREM ContainerServesItsModeCorrect == Spec => []ContainerServesItsMode
BY ContainerServes, LaunchInvariance, PTL

----------------------------------------------------------------------------
\* Every command line has one reading.

\* Induction by a least counterexample.
LEMMA LeastNumber ==
    ASSUME NEW T \in SUBSET Nat, T # {}
    PROVE  \E n \in T : \A m \in T : n <= m
<1> DEFINE below == {ss \in Nat \X Nat : ss[1] < ss[2]}
<1>1. IsWellFoundedOn(below, Nat)
  BY NatLessThanWellFounded DEF OpToRel
<1>2. PICK n \in T : \A m \in T : ~(<<m, n>> \in below)
  BY <1>1, WFMin
<1>3. ASSUME NEW m \in T PROVE n <= m
  <2>1. m \in Nat /\ n \in Nat /\ ~(<<m, n>> \in below)
    BY <1>2
  <2>2. ~(m < n)
    BY <2>1
  <2> QED
    BY <2>1, <2>2
<1> QED
  BY <1>3

LEMMA GreatestNumber ==
    ASSUME NEW k \in Nat, NEW T \in SUBSET (1..k), T # {}
    PROVE  \E n \in T : \A m \in T : m <= n
<1> DEFINE U == {d \in Nat : k - d \in T}
<1>1. U # {}
  <2>1. PICK m \in T : TRUE
    OBVIOUS
  <2>2. m \in Int /\ k - m \in Nat /\ k - (k - m) = m
    OBVIOUS
  <2> QED
    BY <2>1, <2>2
<1>2. PICK d \in U : \A e \in U : d <= e
  BY <1>1, LeastNumber
<1>3. ASSUME NEW m \in T PROVE m <= k - d
  <2>1. m \in Int /\ k - m \in Nat /\ k - (k - m) = m
    OBVIOUS
  <2>2. k - m \in U
    BY <2>1
  <2>3. d <= k - m
    BY <1>2, <2>2
  <2> QED
    BY <2>1, <2>3
<1> QED
  BY <1>3

\* Two readings agree: where they first differed, they would agree on the
\* token before.
LEMMA ReadingsAgree ==
    ASSUME NEW line, NEW P \in SUBSET (1..Len(line)), NEW Q \in SUBSET (1..Len(line)),
           Len(line) \in Nat, IsReading(line, P), IsReading(line, Q)
    PROVE  P = Q
<1> DEFINE T == {k \in 1..Len(line) : ~(k \in P <=> k \in Q)}
<1>1. CASE T = {}
  BY <1>1
<1>2. CASE T # {}
  <2>1. T \in SUBSET Nat
    OBVIOUS
  <2>2. PICK k \in T : \A m \in T : k <= m
    BY <1>2, <2>1, LeastNumber
  <2>3. k \in 1..Len(line) /\ k - 1 \notin T
    BY <2>2
  <2>4. k - 1 \in P <=> k - 1 \in Q
    BY <2>3
  <2>5. k \in P <=> k \in Q
    BY <2>3, <2>4 DEF IsReading
  <2> QED
    BY <2>2, <2>5
<1> QED
  BY <1>1, <1>2

\* There is one: what reads the first n tokens reads one more.
LEMMA ReadingExists ==
    ASSUME NEW line, Len(line) \in Nat
    PROVE  \E places \in SUBSET (1..Len(line)) : IsReading(line, places)
<1> DEFINE reads(places, n) == \A k \in 1..n : k \in places <=> Begins(line, places, k)
           T == {n \in 0..Len(line) : ~ \E places \in SUBSET (1..n) : reads(places, n)}
<1>1. CASE T = {}
  <2>1. PICK places \in SUBSET (1..Len(line)) : reads(places, Len(line))
    BY <1>1
  <2>2. IsReading(line, places)
    BY <2>1 DEF IsReading, Begins
  <2> QED
    BY <2>2
<1>2. CASE T # {}
  <2>1. T \in SUBSET Nat
    OBVIOUS
  <2>2. PICK n \in T : \A m \in T : n <= m
    BY <1>2, <2>1, LeastNumber
  <2>3. n # 0
    <3>1. {} \in SUBSET (1..0) /\ reads({}, 0)
      OBVIOUS
    <3> QED
      BY <2>2, <3>1
  <2>4. n \in 1..Len(line) /\ n - 1 \in 0..Len(line) /\ n - 1 \notin T
    <3>1. n \in 0..Len(line) /\ (n - 1 \in T => n <= n - 1)
      BY <2>2
    <3> QED
      BY <2>3, <3>1
  <2>5. PICK before \in SUBSET (1..(n - 1)) : reads(before, n - 1)
    BY <2>4
  <2> DEFINE after == IF Begins(line, before, n) THEN before \union {n} ELSE before
  <2>6. after \in SUBSET (1..n) /\ \A k \in 1..(n - 1) : k \in after <=> k \in before
    BY <2>4
  <2>7. n \in after <=> Begins(line, before, n)
    BY <2>4
  <2> HIDE DEF after
  <2>8. ASSUME NEW k \in 1..n PROVE Begins(line, after, k) <=> Begins(line, before, k)
    <3>1. k - 1 \in after <=> k - 1 \in before
      BY <2>4, <2>6
    <3> QED
      BY <3>1 DEF Begins
  <2>9. reads(after, n)
    <3> SUFFICES ASSUME NEW k \in 1..n PROVE k \in after <=> Begins(line, after, k)
      OBVIOUS
    <3>1. CASE k = n
      BY <2>7, <2>8, <3>1
    <3>2. CASE k # n
      <4>1. k \in 1..(n - 1)
        BY <2>4, <3>2
      <4> QED
        BY <2>5, <2>6, <2>8, <4>1
    <3> QED
      BY <3>1, <3>2
  <2> QED
    BY <2>2, <2>6, <2>9
<1> QED
  BY <1>1, <1>2

LEMMA ReadingIs ==
    ASSUME NEW line, Len(line) \in Nat
    PROVE  /\ Reading(line) \in SUBSET (1..Len(line))
           /\ IsReading(line, Reading(line))
           /\ \A places \in SUBSET (1..Len(line)) :
                 IsReading(line, places) => places = Reading(line)
<1>1. Reading(line) \in SUBSET (1..Len(line)) /\ IsReading(line, Reading(line))
  BY ReadingExists DEF Reading
<1> QED
  BY <1>1, ReadingsAgree

----------------------------------------------------------------------------
\* What a token that is no flag of the worker's own, and no such flag's value,
\* does to the settings.

Foreign(line, k) ==
    /\ line[k].name \notin Defined
    /\ ~(k - 1 \in Reading(line) /\ Wants(line[k - 1]))
Without(line, k) ==
    [p \in 1..(Len(line) - 1) |-> line[IF p < k THEN p ELSE p + 1]]

\* main.go:25-27 "unknown launcher flags are tolerated": take a foreign token
\* out of the command line and the settings are the same.
ForeignTokensChangeNothing ==
    Read => \A k \in 1..Len(argv) :
                Foreign(argv, k) => flags = Means(Without(argv, k))

\* The reading of what is left is the reading of the whole, moved up.
LEMMA ReadingWithout ==
    ASSUME NEW line \in Seq(Token), NEW k \in 1..Len(line), Foreign(line, k)
    PROVE  /\ Len(Without(line, k)) = Len(line) - 1
           /\ \A p \in 1..(Len(line) - 1) :
                 p \in Reading(Without(line, k))
                    <=> (IF p < k THEN p ELSE p + 1) \in Reading(line)
<1> DEFINE n == Len(line) - 1
           short == Without(line, k)
           R == Reading(line)
           Q == {p \in 1..n : (IF p < k THEN p ELSE p + 1) \in R}
<1>1. Len(line) \in Nat /\ n \in Nat /\ k \in 1..Len(line)
  OBVIOUS
<1>2. /\ short = [p \in 1..n |-> line[IF p < k THEN p ELSE p + 1]]
      /\ Len(short) = n
  BY <1>1 DEF Without
<1>3. R \in SUBSET (1..Len(line)) /\ IsReading(line, R)
  BY <1>1, ReadingIs
<1>4. k \notin R
  BY <1>3 DEF IsReading, Foreign
<1>5. ~(k - 1 \in R /\ Wants(line[k - 1]))
  BY DEF Foreign
<1>6. \A p \in 1..n : short[p] = line[IF p < k THEN p ELSE p + 1]
  BY <1>2
<1> HIDE DEF R, short, n
<1>7. IsReading(short, Q)
  <2> SUFFICES ASSUME NEW p \in 1..n
               PROVE  p \in Q <=> Begins(short, Q, p)
    BY <1>2 DEF IsReading, Begins
  <2>1. \A q \in 1..Len(line) : q \in R <=> Begins(line, R, q)
    BY <1>3 DEF IsReading, Begins
  <2>2. CASE p < k
    <3>1. p \in Q <=> p \in R
      BY <2>2
    <3>2. p - 1 \in Q <=> p - 1 \in R
      BY <1>1, <1>3, <2>2
    <3>3. p - 1 \in Q => short[p - 1] = line[p - 1]
      BY <1>1, <1>6, <2>2
    <3>4. short[p] = line[p] /\ p \in 1..Len(line)
      BY <1>1, <1>6, <2>2 DEF n
    <3> QED
      BY <2>1, <3>1, <3>2, <3>3, <3>4 DEF Begins
  <2>3. CASE p = k
    <3>1. p \in Q <=> p + 1 \in R
      BY <1>1, <2>3
    <3>2. p - 1 \in Q <=> p - 1 \in R
      BY <1>1, <1>3, <2>3
    <3>3. p - 1 \in Q => short[p - 1] = line[p - 1]
      BY <1>1, <1>6, <2>3
    <3>4. short[p] = line[p + 1] /\ p + 1 \in 1..Len(line) /\ p + 1 - 1 = p
      BY <1>1, <1>6, <2>3 DEF n
    <3> QED
      BY <1>4, <1>5, <2>1, <2>3, <3>1, <3>2, <3>3, <3>4 DEF Begins
  <2>4. CASE p > k
    <3>1. p \in Q <=> p + 1 \in R
      BY <1>1, <2>4
    <3>2. p - 1 \in Q <=> p \in R
      BY <1>1, <2>4
    <3>3. short[p - 1] = line[p]
      BY <1>1, <1>6, <2>4
    <3>4. short[p] = line[p + 1] /\ p + 1 \in 1..Len(line) /\ p + 1 - 1 = p
      BY <1>1, <1>6, <2>4 DEF n
    <3> QED
      BY <2>1, <3>1, <3>2, <3>3, <3>4 DEF Begins
  <2> QED
    BY <1>1, <2>2, <2>3, <2>4
<1>8. Reading(short) = Q
  BY <1>1, <1>2, <1>7, ReadingIs
<1>9. Len(short) = n /\ \A p \in 1..n : p \in Reading(short)
                           <=> (IF p < k THEN p ELSE p + 1) \in R
  BY <1>2, <1>8
<1> QED
  BY <1>9 DEF short, n, R

LEMMA MeansWithout ==
    ASSUME NEW line \in Seq(Token), NEW k \in 1..Len(line), Foreign(line, k)
    PROVE  Means(Without(line, k)) = Means(line)
<1> DEFINE n == Len(line) - 1
           short == Without(line, k)
           R == Reading(line)
           Q == Reading(short)
           old(p) == IF p < k THEN p ELSE p + 1
<1>1. Len(line) \in Nat /\ n \in Nat /\ k \in 1..Len(line) /\ Len(line) = n + 1
  OBVIOUS
<1>2. Len(short) = n /\ \A p \in 1..n : p \in Q <=> old(p) \in R
  BY ReadingWithout
<1>3. \A p \in 1..n : short[p] = line[old(p)]
  BY <1>1 DEF Without
<1>4. R \in SUBSET (1..Len(line)) /\ Q \in SUBSET (1..n)
  BY <1>1, <1>2, ReadingIs
<1>5. k \notin R /\ ~(k - 1 \in R /\ Wants(line[k - 1]))
  BY <1>1, ReadingIs DEF IsReading, Foreign
<1> HIDE DEF R, Q, short, n
<1>6. ASSUME NEW p \in Q PROVE ValueAt(short, p) = ValueAt(line, old(p))
  <2>1. p \in 1..n /\ short[p] = line[old(p)] /\ old(p) \in R
    BY <1>2, <1>3, <1>4
  <2>2. CASE ~Wants(short[p])
    BY <2>1, <2>2 DEF ValueAt
  <2>3. CASE Wants(short[p])
    <3>1. p # k - 1
      BY <1>1, <1>5, <2>1, <2>3
    <3>2. p < n <=> old(p) < Len(line)
      BY <1>1, <2>1, <3>1
    <3>3. ASSUME p < n PROVE short[p + 1] = line[old(p) + 1]
      <4>1. p + 1 \in 1..n /\ old(p + 1) = old(p) + 1
        BY <1>1, <2>1, <3>1, <3>3
      <4> QED
        BY <1>3, <4>1
    <3> QED
      BY <1>2, <2>1, <2>3, <3>2, <3>3 DEF ValueAt
  <2> QED
    BY <2>2, <2>3
<1>7. ASSUME NEW f \in Defined PROVE Means(short)[f] = Means(line)[f]
  <2> DEFINE U == Uses(line, f)
             V == Uses(short, f)
             top(S) == CHOOSE m \in S : \A l \in S : l <= m
  <2>1. U \in SUBSET (1..Len(line)) /\ V \in SUBSET (1..n)
    BY <1>4 DEF Uses, R, Q
  <2>2. \A p \in 1..n : p \in V <=> old(p) \in U
    BY <1>2, <1>3 DEF Uses, R, Q
  <2>3. k \notin U
    BY <1>5 DEF Uses, R
  <2> HIDE DEF U, V
  <2>4. ASSUME NEW q \in U PROVE \E p \in V : old(p) = q
    <3>1. q \in 1..Len(line) /\ q # k
      BY <2>1, <2>3
    <3>2. CASE q < k
      <4>1. q \in 1..n /\ old(q) = q
        BY <1>1, <3>1, <3>2
      <4> QED
        BY <2>2, <4>1
    <3>3. CASE q > k
      <4>1. q - 1 \in 1..n /\ old(q - 1) = q
        BY <1>1, <3>1, <3>3
      <4> QED
        BY <2>2, <4>1
    <3> QED
      BY <1>1, <3>1, <3>2, <3>3
  <2>5. CASE V = {}
    <3>1. U = {}
      BY <2>4, <2>5
    <3> QED
      BY <2>5, <3>1 DEF Means, U, V
  <2>6. CASE V # {}
    <3>1. PICK m \in V : \A l \in V : l <= m
      BY <1>1, <2>1, <2>6, GreatestNumber
    <3>2. m \in 1..n /\ old(m) \in U
      BY <2>1, <2>2, <3>1
    <3>3. ASSUME NEW q \in U PROVE q \in Nat /\ old(m) \in Nat /\ q <= old(m)
      <4>1. PICK p \in V : old(p) = q
        BY <2>4
      <4>2. p \in 1..n /\ p <= m
        BY <2>1, <3>1, <4>1
      <4> QED
        BY <1>1, <3>2, <4>1, <4>2
    <3>4. top(U) \in U /\ \A l \in U : l <= top(U)
      BY <3>2, <3>3
    <3>5. top(V) \in V /\ \A l \in V : l <= top(V)
      BY <3>1
    <3> HIDE DEF top
    <3>6. top(U) = old(m)
      <4>1. top(U) <= old(m) /\ old(m) <= top(U) /\ top(U) \in Nat /\ old(m) \in Nat
        BY <3>2, <3>3, <3>4
      <4> QED
        BY <4>1
    <3>7. top(V) = m
      <4>1. top(V) <= m /\ m <= top(V)
        BY <3>1, <3>5
      <4>2. top(V) \in Nat /\ m \in Nat
        <5>1. top(V) \in V
          BY <3>5
        <5>2. V \subseteq Nat
          BY <1>1, <2>1
        <5> QED
          BY <3>2, <5>1, <5>2
      <4> QED
        BY <4>1, <4>2
    <3>8. m \in Q
      BY <3>1 DEF V, Uses, Q
    <3>9. ValueAt(short, top(V)) = ValueAt(line, top(U))
      BY <1>6, <3>6, <3>7, <3>8
    <3>10. Means(short)[f] = ValueAt(short, top(V))
      BY <2>6 DEF Means, V, top
    <3>11. Means(line)[f] = ValueAt(line, top(U))
      <4>1. U # {}
        BY <3>2
      <4> QED
        BY <4>1 DEF Means, U, top
    <3> QED
      BY <3>9, <3>10, <3>11
  <2> QED
    BY <2>5, <2>6
<1>8. Means(short) = [f \in Defined |-> Means(short)[f]]
  BY DEF Means
<1>9. Means(line) = [f \in Defined |-> Means(line)[f]]
  BY DEF Means
<1>10. Means(short) = Means(line)
  BY <1>7, <1>8, <1>9
<1> QED
  BY <1>10 DEF short

\* Unknown flags are tolerated (main.go:25-27), on any command line, wherever
\* and however often the launcher puts them.
THEOREM ForeignTokensCorrect == Spec => []ForeignTokensChangeNothing
<1>1. LaunchInv => ForeignTokensChangeNothing
  <2> SUFFICES ASSUME LaunchInv, Read, NEW k \in 1..Len(argv), Foreign(argv, k)
               PROVE  flags = Means(Without(argv, k))
    BY DEF ForeignTokensChangeNothing
  <2>1. argv \in Seq(Token)
    BY DEF LaunchInv, Placed, LaunchTypeOK
  <2>2. flags = Means(argv)
    BY SettingsMeant DEF SettingsAreAsMeant
  <2> QED
    BY <2>1, <2>2, MeansWithout
<1> QED
  BY <1>1, LaunchInvariance, PTL

----------------------------------------------------------------------------
\* The launch comes to an end.

\* How many steps are left at the most: two for a token not yet filtered, one
\* for a token kept.
StepsLeft ==
    CASE pc = "entry"  -> 2 * Len(argv) + 12
      [] pc = "filter" -> 2 * (Len(argv) + 1 - i) + Len(out) + 5
      [] pc = "parse"  -> Len(out) + 1 - j + 3
      [] pc = "apply"  -> 2
      [] pc = "choose" -> 1
      [] OTHER         -> 0

\* Whatever the command line, filter and parser get through it: each step
\* leaves fewer to take, so that none hangs the worker before it serves.
LaunchShortens == [][StepsLeft' < StepsLeft /\ StepsLeft \in Nat /\ StepsLeft' \in Nat]_vars

LEMMA StepsAreNat == LaunchInv => StepsLeft \in Nat
<1> SUFFICES ASSUME LaunchInv PROVE StepsLeft \in Nat
  OBVIOUS
<1>1. /\ Len(argv) \in Nat /\ Len(out) \in Nat
      /\ i \in 1..(Len(argv) + 1) /\ j \in 1..(Len(out) + 1)
  BY DEF LaunchInv, Placed, LaunchTypeOK
<1> QED
  BY <1>1 DEF StepsLeft

LEMMA FilterShortens ==
    ASSUME LaunchInv, Filter
    PROVE  StepsLeft' < StepsLeft
<1>1. /\ Len(argv) \in Nat /\ Len(out) \in Nat /\ i \in 1..Len(argv)
      /\ out \in Seq(Token) /\ argv[i] \in Token
      /\ pc = "filter" /\ pc' = "filter" /\ argv' = argv
  BY DEF LaunchInv, Placed, LaunchTypeOK, Filter
<1>2. CASE Drop
  BY <1>1, <1>2 DEF Drop, StepsLeft
<1>3. CASE KeepOne
  <2>1. i' = i + 1 /\ Len(out') = Len(out) + 1
    BY <1>1, <1>3, AppendFacts DEF KeepOne
  <2> QED
    BY <1>1, <2>1 DEF StepsLeft
<1>4. CASE KeepTwo
  <2>1. i' = i + 2 /\ argv[i + 1] \in Token
    BY <1>1, <1>4 DEF KeepTwo, LaunchInv, Placed, LaunchTypeOK
  <2>2. Len(out') = Len(out) + 2
    BY <1>1, <1>4, <2>1, AppendFacts DEF KeepTwo
  <2> QED
    BY <1>1, <2>1, <2>2 DEF StepsLeft
<1> QED
  BY <1>2, <1>3, <1>4 DEF Filter

LEMMA DispatchShortens ==
    ASSUME LaunchInv, Dispatch
    PROVE  StepsLeft' < StepsLeft
<1>1. /\ argv \in Seq(Token) /\ Len(argv) \in Nat /\ pc = "entry"
      /\ i = 1 /\ Len(out) = 0 /\ i' = i /\ out' = out
  BY DEF LaunchInv, Placed, LaunchTypeOK, Dispatch, Untouched, filter
<1>2. CASE pc' \in {"shell", "other"}
  BY <1>1, <1>2 DEF StepsLeft
<1>3. CASE pc' \notin {"shell", "other"}
  <2>1. PICK m \in {"http", "stdio", "unix"} : pc' = "filter" /\ argv' = Prefix(m) \o argv
    BY <1>3 DEF Dispatch
  <2>2. Prefix(m) \in Seq(Token) /\ Len(Prefix(m)) \in 0..3
    BY PrefixFacts
  <2>3. Len(argv') = Len(Prefix(m)) + Len(argv)
    BY <1>1, <2>1, <2>2, JoinFacts
  <2>4. StepsLeft = 2 * Len(argv) + 12
    BY <1>1 DEF StepsLeft
  <2>5. StepsLeft' = 2 * (Len(argv') + 1 - 1) + 0 + 5
    BY <1>1, <2>1 DEF StepsLeft
  <2>6. Len(Prefix(m)) \in Nat /\ Len(Prefix(m)) <= 3
    <3>1. \A n \in 0..3 : n \in Nat /\ n <= 3
      OBVIOUS
    <3> QED
      BY <2>2, <3>1, Zenon
  <2> HIDE DEF StepsLeft
  <2> QED
    BY <1>1, <2>3, <2>4, <2>5, <2>6
<1> QED
  BY <1>2, <1>3

LEMMA ParseShortens ==
    ASSUME LaunchInv, Parse
    PROVE  StepsLeft' < StepsLeft
<1>1. /\ Len(out) \in Nat /\ j \in 1..Len(out) /\ pc = "parse" /\ out' = out
      /\ \/ Refuse
         \/ ParseSwitch(out[j])
         \/ ParseValued(out[j])
  BY DEF LaunchInv, Placed, LaunchTypeOK, Parse, filter
<1>2. out[j].inline \in BOOLEAN
  BY <1>1, TokenFacts DEF LaunchInv, Placed, LaunchTypeOK
<1>3. ASSUME Refuse PROVE StepsLeft' < StepsLeft
  BY <1>1, <1>3 DEF Refuse, StepsLeft
<1>4. CASE ParseSwitch(out[j])
  <2>1. \/ Set(out[j].name, "true", j + 1)
        \/ Set(out[j].name, out[j].value, j + 1)
        \/ Refuse
    BY <1>1, <1>2, <1>4 DEF ParseSwitch
  <2> QED
    BY <1>1, <1>3, <2>1 DEF Set, StepsLeft
<1>5. CASE ParseValued(out[j])
  <2>1. \/ Set(out[j].name, out[j].value, j + 1)
        \/ Set(out[j].name, Text(out[j + 1]), j + 2)
        \/ Refuse
    <3>1. j < Len(out) \/ j >= Len(out)
      BY <1>1
    <3> QED
      BY <1>5, <3>1, Zenon DEF ParseValued
  <2> QED
    BY <1>1, <1>3, <2>1 DEF Set, StepsLeft
<1> QED
  BY <1>1, <1>3, <1>4, <1>5

\* The worker is up, or has given up, after 2 n + 12 steps at the most, n
\* being the tokens of the command line it was given.
THEOREM LaunchShortensCorrect == Spec => LaunchShortens
<1>0. LaunchInv' => (StepsLeft \in Nat)'
  BY StepsAreNat, PTL
<1>1. LaunchInv /\ LaunchInv' /\ [Next]_vars =>
         [StepsLeft' < StepsLeft /\ StepsLeft \in Nat /\ StepsLeft' \in Nat]_vars
  <2> SUFFICES ASSUME LaunchInv, LaunchInv', Next
               PROVE  StepsLeft' < StepsLeft /\ StepsLeft \in Nat /\ StepsLeft' \in Nat
    OBVIOUS
  <2>1. StepsLeft \in Nat /\ StepsLeft' \in Nat
    BY <1>0, StepsAreNat
  <2>2. /\ Len(argv) \in Nat /\ Len(out) \in Nat
        /\ i \in 1..(Len(argv) + 1) /\ j \in 1..(Len(out) + 1)
    BY DEF LaunchInv, Placed, LaunchTypeOK
  <2>3. CASE Filtered
    <3>1. /\ pc = "filter" /\ pc' = "parse" /\ out' = out /\ j' = j /\ i = Len(argv) + 1
          /\ j = 1
      BY <2>2, <2>3 DEF Filtered, filter, parse, LaunchInv, Placed, Filtering
    <3> QED
      BY <2>2, <3>1 DEF StepsLeft
  <2>4. CASE Parsed
    BY <2>2, <2>4 DEF Parsed, StepsLeft
  <2>5. CASE Apply
    BY <2>5 DEF Apply, StepsLeft
  <2>6. CASE Choose
    BY <2>6 DEF Choose, StepsLeft
  <2> QED
    BY <2>1, <2>3, <2>4, <2>5, <2>6, DispatchShortens, FilterShortens, ParseShortens DEF Next
<1> QED
  BY <1>1, LaunchInvariance, PTL DEF Spec, LaunchShortens

=============================================================================
