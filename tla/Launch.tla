------------------------------- MODULE Launch -------------------------------
(***************************************************************************)
(* From a command line to a transport: docker-entrypoint.sh, then main and *)
(* filterKnownFlags of cmd/vgi-threatintel-worker/main.go, with the        *)
(* standard library's flag parser between them.                            *)
(*                                                                         *)
(* A token of the command line is [dashes, name, inline, value]: how many  *)
(* dashes it begins with, the name after them, and, behind a "=" (inline)  *)
(* or as the whole of a token without dashes, its value.  A token that     *)
(* another flag takes for its value counts as Text(token).                 *)
(*                                                                         *)
(* pc        "entry", "filter", "parse", "apply", "choose", or how it      *)
(*           ended: "serving", "usage" (the parser's exit 2), "fatal"      *)
(*           (log.Fatal), "other" (another program), "shell" (the          *)
(*           entrypoint itself failed);                                    *)
(* mode      the container's first argument, "empty" or "none" at all,     *)
(*           "host" when no container is involved;                         *)
(* argv      os.Args[1:], or what follows mode until the entrypoint ran;   *)
(* i, out    filterKnownFlags: its loop index and its result;              *)
(* src, own  where in argv each kept token stands, and the flags among     *)
(*           them (auxiliary);                                             *)
(* j, flags  the parser: its position in out and the values set so far;    *)
(* transport what the worker serves.                                       *)
(***************************************************************************)
EXTENDS Integers, Sequences

CONSTANTS
    SdkSwitches,   \* the logging flags of the SDK that stand alone
    SdkValued,     \* those that take a value
    Names, Values, \* what flags may be called and settings may be
    Modes,         \* the first arguments a container is given
    CommandLines   \* the token sequences that follow

NoText == ""
Token == {tok \in [dashes : Nat, name : Names, inline : BOOLEAN, value : Values] :
            tok.dashes = 0 => tok.name = NoText}
Plain(v)        == [dashes |-> 0, name |-> NoText, inline |-> FALSE, value |-> v]
Opt(d, n)       == [dashes |-> d, name |-> n, inline |-> FALSE, value |-> NoText]
OptWith(d, n, v) == [dashes |-> d, name |-> n, inline |-> TRUE, value |-> v]
Text(tok) == IF tok.dashes = 0 THEN tok.value ELSE "dashed"

\* The flags main defines, those of the SDK among them, and the map it gives
\* filterKnownFlags.
Switches   == {"http"} \union SdkSwitches
Valued     == {"http-addr", "unix"} \union SdkValued
Defined    == Switches \union Valued
\* Faulty: one of them is forgotten.
valueFlagsButUnix == {"log-level", "log-format", "log-logger", "http-addr"}
valueFlags == {"log-level", "log-format", "log-logger", "http-addr", "unix"}
Defaults   == [f \in Defined |-> IF f \in Switches THEN "false"
                                 ELSE IF f = "http-addr" THEN "127.0.0.1:0" ELSE NoText]

\* What main.go takes for granted of RegisterLoggingFlags.
ASSUME SdkAssumption ==
    /\ SdkValued \subseteq valueFlags
    /\ SdkSwitches \intersect valueFlags = {}
    /\ NoText \notin SdkSwitches
ASSUME TextAssumption ==
    /\ Defined \union {NoText} \subseteq Names
    /\ {NoText, "true", "false", "dashed", "127.0.0.1:0", "published", "socket"}
          \subseteq Values
ASSUME LineAssumption == \A line \in CommandLines : line \in Seq(Token)

VARIABLES pc, mode, argv, i, out, src, own, j, flags, transport

filter == <<i, out, src, own>>
parse  == <<j, flags>>
vars == <<pc, mode, argv, filter, parse, transport>>

----------------------------------------------------------------------------
\* docker-entrypoint.sh

\* Faulty: no address is given.
PrefixUnbound(m) ==
    CASE m = "http"  -> <<Opt(2, "http")>>
      [] m = "stdio" -> << >>
      [] m = "unix"  -> <<Opt(2, "unix"), Plain("socket")>>
\* What each mode puts before the caller's own arguments: "published" stands
\* for 0.0.0.0:$PORT, "socket" for $VGI_UNIX_SOCKET, each with its default.
Prefix(m) ==
    CASE m = "http"  -> <<Opt(2, "http"), Opt(2, "http-addr"), Plain("published")>>
      [] m = "stdio" -> << >>
      [] m = "unix"  -> <<Opt(2, "unix"), Plain("socket")>>

\* An empty first argument is "http" too.  With none at all, dash ends the
\* script at the shift, a special built-in, whatever "|| true" says.
Dispatch ==
    /\ pc = "entry"
    /\ CASE mode = "none" -> pc' = "shell" /\ UNCHANGED argv
         [] mode \in {"empty", "http"} -> pc' = "filter" /\ argv' = Prefix("http") \o argv
         [] mode \in {"stdio", "unix"} -> pc' = "filter" /\ argv' = Prefix(mode) \o argv
         [] OTHER -> pc' = "other" /\ UNCHANGED argv
    /\ UNCHANGED <<mode, filter, parse, transport>>

----------------------------------------------------------------------------
\* filterKnownFlags, one turn of its loop at a time.

\* Faulty: flags the worker does not define are kept.
KnownAny(tok) == tok.dashes > 0
Known(tok) == tok.dashes > 0 /\ tok.name \in Defined
\* Faulty: an inline value does not keep a flag from taking the next token.
TakesNextAlways(tok) == tok.name \in valueFlags
TakesNext(tok) == tok.name \in valueFlags /\ ~tok.inline

Drop ==
    /\ ~Known(argv[i])
    /\ i' = i + 1
    /\ UNCHANGED <<out, src, own>>
\* Faulty: what follows the flag is skipped.
KeepOneSkipping ==
    /\ Known(argv[i])
    /\ ~(TakesNext(argv[i]) /\ i + 1 <= Len(argv))
    /\ i' = i + 2
    /\ out' = Append(out, argv[i])
    /\ src' = Append(src, i) /\ own' = own \union {i}
KeepOne ==
    /\ Known(argv[i])
    /\ ~(TakesNext(argv[i]) /\ i + 1 <= Len(argv))
    /\ i' = i + 1
    /\ out' = Append(out, argv[i])
    /\ src' = Append(src, i) /\ own' = own \union {i}
KeepTwo ==
    /\ Known(argv[i])
    /\ TakesNext(argv[i]) /\ i + 1 <= Len(argv)
    /\ i' = i + 2
    /\ out' = Append(Append(out, argv[i]), argv[i + 1])
    /\ src' = Append(Append(src, i), i + 1) /\ own' = own \union {i}

Filter ==
    /\ pc = "filter" /\ i <= Len(argv)
    /\ Drop \/ KeepOne \/ KeepTwo
    /\ UNCHANGED <<pc, mode, argv, parse, transport>>
Filtered ==
    /\ pc = "filter" /\ i > Len(argv)
    /\ pc' = "parse"
    /\ UNCHANGED <<mode, argv, filter, parse, transport>>

----------------------------------------------------------------------------
\* flag.CommandLine.Parse under ExitOnError, one flag at a time.

\* A word, a lone dash and a double dash end the flags.
Stops(tok) == tok.dashes = 0 \/ (tok.dashes <= 2 /\ tok.name = NoText /\ ~tok.inline)
BadSyntax(tok) == tok.dashes > 2 \/ tok.name = NoText
Booleans == {"true", "false"}

Set(f, v, next) ==
    /\ flags' = [flags EXCEPT ![f] = v]
    /\ j' = next
    /\ UNCHANGED pc
Refuse == pc' = "usage" /\ UNCHANGED parse

ParseSwitch(tok) ==
    /\ tok.name \in Switches
    /\ CASE ~tok.inline -> Set(tok.name, "true", j + 1)
         [] tok.inline /\ tok.value \in Booleans -> Set(tok.name, tok.value, j + 1)
         [] tok.inline /\ tok.value \notin Booleans -> Refuse
ParseValued(tok) ==
    /\ tok.name \in Valued
    /\ CASE tok.inline -> Set(tok.name, tok.value, j + 1)
         [] ~tok.inline /\ j < Len(out) -> Set(tok.name, Text(out[j + 1]), j + 2)
         [] ~tok.inline /\ j >= Len(out) -> Refuse

Parse ==
    /\ pc = "parse" /\ j <= Len(out) /\ ~Stops(out[j])
    /\ IF BadSyntax(out[j]) \/ out[j].name \notin Defined THEN Refuse
       ELSE ParseSwitch(out[j]) \/ ParseValued(out[j])
    /\ UNCHANGED <<mode, argv, filter, transport>>
Parsed ==
    /\ pc = "parse" /\ (j <= Len(out) => Stops(out[j]))
    /\ pc' = "apply"
    /\ UNCHANGED <<mode, argv, filter, parse, transport>>

----------------------------------------------------------------------------
\* The rest of main.

\* logFlags.Apply may object to a logging flag that was set.
Apply ==
    /\ pc = "apply"
    /\ \/ pc' = "choose"
       \/ /\ \E f \in SdkSwitches \union SdkValued : flags[f] # Defaults[f]
          /\ pc' = "fatal"
    /\ UNCHANGED <<mode, argv, filter, parse, transport>>

\* RunHttp and RunUnix return an error when they cannot bind.
Choose ==
    /\ pc = "choose"
    /\ transport' = IF flags["http"] = "true" THEN "http"
                    ELSE IF flags["unix"] # NoText THEN "unix" ELSE "stdio"
    /\ pc' = "serving" \/ (transport' # "stdio" /\ pc' = "fatal")
    /\ UNCHANGED <<mode, argv, filter, parse>>

----------------------------------------------------------------------------
Init ==
    /\ argv \in CommandLines
    /\ mode \in Modes \union {"host"}
    /\ pc = IF mode = "host" THEN "filter" ELSE "entry"
    /\ mode = "none" => argv = << >>
    /\ i = 1 /\ out = << >> /\ src = << >> /\ own = {}
    /\ j = 1 /\ flags = Defaults
    /\ transport = "none"

Next == Dispatch \/ Filter \/ Filtered \/ Parse \/ Parsed \/ Apply \/ Choose

Spec == Init /\ [][Next]_vars

----------------------------------------------------------------------------
\* Type invariant: neither loop runs past what it reads.
LaunchTypeOK ==
    /\ pc \in {"entry", "filter", "parse", "apply", "choose", "serving",
               "usage", "fatal", "other", "shell"}
    /\ mode \in Modes \union {"host"}
    /\ argv \in Seq(Token)
    /\ i \in 1..(Len(argv) + 1)
    /\ out \in Seq(Token)
    /\ src \in Seq(Nat) /\ own \in SUBSET Nat
    /\ j \in 1..(Len(out) + 1)
    /\ flags \in [Defined -> Values]
    /\ transport \in {"none", "http", "unix", "stdio"}

Read == pc \in {"apply", "choose", "serving", "fatal"}

\* main.go:229-231: whatever is on the command line, the parser finds one of
\* the worker's own flags wherever it looks for one, and it reads all that
\* was kept: no word and no unknown flag ends it early or makes it abort.
ParserReadsOwnFlagsOnly ==
    /\ pc \in {"parse", "usage"} /\ j <= Len(out) => out[j].name \in Defined
    /\ Read => j = Len(out) + 1

\* An abort of the parser is the fault of a flag of the worker's own that is
\* on the command line, malformed: too many dashes, a switch with a value that
\* is no boolean, or a flag at the very end that lacks its value.
AbortsAreOwnFaults ==
    pc = "usage" =>
        /\ \E k \in 1..Len(argv) : argv[k] = out[j]
        /\ out[j].name \in Defined
        /\ \/ out[j].dashes > 2
           \/ out[j].name \in Switches /\ out[j].inline
           \/ out[j].name \in Valued /\ argv[Len(argv)] = out[j]

\* A command line as its writer means it, read once from left to right: the
\* places where a flag of the worker's own stands, and the last value of each.
Wants(tok) == tok.name \in Valued /\ ~tok.inline
IsReading(line, places) ==
    \A k \in 1..Len(line) :
        k \in places <=> /\ line[k].name \in Defined
                         /\ ~(k - 1 \in places /\ Wants(line[k - 1]))
Reading(line) == CHOOSE places \in SUBSET (1..Len(line)) : IsReading(line, places)
ValueAt(line, k) ==
    IF line[k].inline THEN line[k].value
    ELSE IF ~Wants(line[k]) THEN "true"
    ELSE IF k < Len(line) THEN Text(line[k + 1]) ELSE NoText
Uses(line, f) == {k \in Reading(line) : line[k].name = f}
Means(line) ==
    [f \in Defined |->
        IF Uses(line, f) = {} THEN Defaults[f]
        ELSE ValueAt(line, CHOOSE k \in Uses(line, f) : \A l \in Uses(line, f) : l <= k)]

\* main.go:25-27 "unknown launcher flags are tolerated": the two passes, a
\* filter and a parser with lists of flags of their own, make of a command
\* line what one reading of it means.  What the launcher puts in, anywhere,
\* changes no setting, and no setting of the user's is lost.
SettingsAreAsMeant == Read => flags = Means(argv)

\* docker-entrypoint.sh:5-9: given flags of the launcher's alone, a container
\* is not refused, and serves the transport its mode names, http where a
\* published port reaches it.
ContainerServesItsMode ==
    LET served == IF mode = "empty" THEN "http" ELSE mode
    IN  /\ served \in {"http", "stdio", "unix"}
        /\ \A k \in 1..Len(argv) :
              argv[k].name \in Defined => k <= (CASE served = "http" -> 3
                                                  [] served = "unix" -> 2
                                                  [] served = "stdio" -> 0)
        => /\ pc # "usage"
           /\ pc = "serving" =>
                 /\ transport = served
                 /\ served = "http" => flags["http-addr"] = "published"
                 /\ served = "unix" => flags["unix"] = "socket"

=============================================================================
