# vgi-threatintel in TLA+

A verification development of the vgi-threatintel worker: a DuckDB extension
worker, in Go, that types indicators (addresses, domains, URLs, hashes) offline
and looks one indicator up at a time in a reputation feed over HTTP.  The
modules are translated from the Go source; `PROJECT.json` maps each definition
to the lines it stands for.

## The system

| component | state | operations | talks to |
| --- | --- | --- | --- |
| offline classifiers, `internal/threatworker/indicator.go` | none; a table of reserved ranges | `IndicatorType`, `IsPrivateIP` | called by the scalars, by `NewState`, and by `projectReputation` for a type the feed left out |
| scalar functions, `functions.go` | none; one batch at a time | `Process` of `indicator_type` and of `is_private_ip` | DuckDB, through the SDK |
| reputation client, `client.go` | an `http.Client` with a deadline, per call | `NewClient`, `Reputation`, `projectReputation` | the feed, one GET per call |
| table function `reputation`, `functions.go` | `reputationState`: rows and an offset, kept by the worker (stdio, unix) or sent to and fro as a token (HTTP) | `NewState`, `Process`, `cursorSlice` | the client, DuckDB's producer loop |
| mock feed, `internal/mockrep`, `cmd/mockserver` | a table of verdicts; listener, signal goroutine | handler, listen, announce, serve, shut down | the tests' lookups; the scripts that start and kill it |
| worker launch, `docker-entrypoint.sh`, `cmd/vgi-threatintel-worker` | the command line, the settings read from it | dispatch on the container's mode, `filterKnownFlags`, `flag.Parse`, choice of transport | the launcher that adds flags of its own; the SDK's `RunHttp`, `RunUnix`, `RunStdio` |
| integration harness, `ci/run-integration.sh`, `Makefile` | child processes, port files, staged tests | start, poll, stage, run, guard, clean up | worker, mock, test runner |
| catalog metadata, `indicator_types` view, `functions.go`, `meta.go`, `main.go` | none: a view's rows and example queries, written by hand | read by users and agents, who run its queries | repeats what classifier and triage do |

What is hard about it:

- A scan's rows cross a transport that may keep no state: over HTTP the only
  memory is a token the client holds, exchanges are lost and asked again, and
  the worker may die in between.  `functions.go:33-48` tells of the endless scan
  this once caused.  Correct: each row once, in order, and an end.
- Between `NewState` and `Process` the state goes through gob, which has its
  own idea of what is worth keeping.  Correct: what SQL shows is what the feed
  said.
- "No rows" is an answer: *not known to be bad*.  Correct: no failure of the
  feed, the network, the worker or the transport is ever read that way.
- The feed may stall anywhere, redirect for ever, or break off.  Correct: every
  call returns, for every `timeout_ms`, overflowing ones included.
- The triage is written twice, in the README's SQL and in `NewState`.  Correct:
  they agree on every row, NULL included.
- The mock is started and killed by scripts, and its start races with its
  clients and its end with its own goroutine.  Correct: announced means
  reachable, a signal always ends it, nobody hangs on it.
- The integration script starts children that may die or never come up, before
  a runner that counts some errors as skips.  Correct: green means tested, and
  nothing outlives the script.
- A launcher appends flags the worker does not know, and the standard library's
  parser exits on one.  `filterKnownFlags` runs before it, with lists and rules of
  its own about which token belongs to which flag.  Correct: the two passes
  make of a command line what one reading of it means.
- The catalog states, in a view and four lists of example queries, what the
  classifier and the triage answer.
  Correct: it states what they do, and sends nobody to a feed who was promised
  to need none.

The full list, line by line, is under `hazards` in `PROJECT.json`.

## Modules

```
Indicators <- Reserved <- OfflineScalars <- Catalog    MCOfflineScalars  OfflineScalarsProofs
     |             (Catalog uses Samples)                                IndicatorsProofs
     |------- Verdicts <- Lookup                       MCLookup          LookupProofs
     |           |------- Continuation                 MCContinuation    ContinuationProofs
     |                    (implements Delivery)
     |        Lookup + Continuation <- Reputation      MCReputation      ReputationProofs
     |                    (implements Delivery)
  Samples     Lookup + Samples <- MockServer           MCMockServer      MockServerProofs
              Integration                              MCIntegration     IntegrationProofs
              Launch                                   MCLaunch          LaunchProofs
```

**Indicators** is `indicator.go` as pure operators.  A string is abstracted to
what the recognisers look at: dot-separated labels (their length, character
classes, ends and numeric value), the eight words of an IPv6 literal, a URL's
scheme and host, or nothing recognisable, with or without whitespace around it.
The range table is complete, and `Contains` compares an IPv4-mapped address as
IPv4, as `net.IPNet` does.

**Reserved** is the same table said another way, by the first and the last address
of each range and a lexicographic order: the reference `PrivateMeansReserved`
compares the prefixes with.

**OfflineScalars** runs the two scalars over a batch, a row at a time and in any
order relative to each other.  What `vgi.MapColumn` does with a NULL cell is the
SDK's and is left open: FALSE or NULL.

**Catalog** is what the worker says of itself: the rows of the `indicator_types`
view, and the example queries of the functions, of `ExecutableExamples`, of the
agents' test tasks and of the schema, by the function they call and with the
answer their text promises.

**Verdicts** follows a row from the feed's JSON (`projectReputation`) through
gob (`GobRow`) to SQL (`SqlRow`).  A score is nil, zero or nonzero, the
categories are nil, empty or some: what these stages tell apart.

**Lookup** is `NewClient` and `Client.Reputation`, one call per scan.  `Begin` is
everything up to `http.Client.Do`, then come `TransportError`, `Redirect`,
`Respond` (headers), `ReadBody` or `BodyError`, and `Expire` at any time.  The
status switch and the decoding are `Dispatch`, run when the body has been read; `read`
remembers that it was, for the properties alone.
`Duration` is the int64 product of `functions.go:372`, wrapping.

**Continuation** is `reputationState`, `cursorSlice` and `Process` inside the
producer loop that the comments at `functions.go:26-48` describe.  `held[s]` is
the state between ticks: the worker's memory on a pipe, the client's token over
HTTP.  `Open` encodes it a first time; `TickHttp` decodes a token, runs `Process`
and encodes the result; `TickPipe` runs `Process` on the live state; `Receive`
hands the batch to the query and keeps the next token.  `Lose`, `Cancel` and
`Crash` are the faults.  Its streams are of any length, as `cursorSlice` is
generic, though `reputation` itself never returns more than one row.

**Delivery** is the abstract promise: a scan settles on its rows, delivers them
in order without gap or repetition, and completes with all of them or fails.

**Reputation** is `NewState` around the two: `RefuseArguments`, `Skip` (NULL and
triage), `Consult` (start the lookup) and `Settle` (error, row, or none), with
`CancelScan` and `CrashWorker`.  A cancelled scan leaves its lookup running, as
`context.Background()` at `functions.go:373` does; a dying worker takes the
lookups and the scans that were opening along, and the pipes; HTTP scans past
`NewState` survive in their tokens.

**MockServer** is the handler and the process of the mock feed, with lookups as
its clients: `Listen`, `Announce`, `Arm` (the goroutine reaches
`signal.Notify`), `Serve`, `Accept`, `Answer`, `Signal`, `Shutdown`, `Exit`.  A
signal before `Arm` kills; a connection made before `Serve` waits in the
backlog; `Exit` cuts the connections still being handled.

**Integration** is `run-integration.sh`: a script with a program counter, its two
children and the runner.  `Begin`, `BuildMock`, `StartMock`, `PollMock`,
`StartWorker`, `PollWorker`, `Stage` and `Finish` are its stages, `Kill`, `Reap` and
`RemoveSocket` its EXIT trap; `ComeUp` and `Die` are the children's, `RunTest` the
runner's, with the skip rule the script's comments report (an error naming HTTP
is a skip).  A child may die at any moment, told to or not.  A signal to the
script itself is left out.

**Launch** follows a command line to a transport.  A token is its leading dashes,
its name, and a value behind `=` or by itself.  `Dispatch` is
`docker-entrypoint.sh`; `Drop`, `KeepOne` and `KeepTwo` are the turns of
`filterKnownFlags`' loop; `Parse` is the standard library's parser, under its own
rules: a word, `-` or `--` ends the flags, three dashes or an unknown name exit with
2, a switch takes a value only inline.  `Apply` is where the SDK may object to a
logging flag, `Choose` the order http, unix, stdio.  `src` and `own` are auxiliary:
where in the command line each kept token stood.

**Samples** spells the indicators of the tests in the form `Indicators` uses, with
the type the tests expect of each.

Definitions marked *Faulty* are not part of a model.  Each is a plausible bug in
the definition after it (a cursor moved after the batch, a dropped default, a
key not asked for), and is there to show that the property named with it under
`mutants` in `PROJECT.json` would notice.

## Runs

Passing:

| run | instance | shows |
| --- | --- | --- |
| `offline` | 156 values: the inputs of `indicator_test.go` and `indicator_offline.test`, the catalog's examples, first and last address of every range and their neighbours outside, IPv4-mapped spellings, near misses of every recogniser; alone and between two NULLs | the README's shortlist keeps exactly what `reputation()` would look up (`ShortlistIsWhatIsLookedUp`); recognisers never overlap, so that their order decides nothing (`RecognisersExclusive`); private rows are addresses; types are as tested; the prefix table means the ranges an independent first-and-last table lists (`PrivateMeansReserved`); the view lists every type that comes out and types its own examples rightly (`ViewIsTheOutputSpace`); documented answers are the ones given, and need a feed exactly where they say so (`DocumentedAnswersHold`) |
| `lookup` | 8-bit integers in place of 64, every `timeout_ms` in them, ten redirects, thirteen answers: every status the code tells apart, with bodies that decode and bodies that do not | a none is a 404 whose body was read without an error (`NoneOnlyAfter404`), rows are complete, every call returns (`LookupEnds`) |
| `continuation` | two scans, either transport each, slices of two rows, streams of 0, 1, 2, 3 and 5 rows, two losses, one crash | each row once and in order (`ExactlyOnce`), bounded batches, the token keeps step with the rows, the scan ends, `Delivery` is implemented |
| `reputation` | two scans, either transport each, five calls, one for each way through `NewState` (refused, NULL, unrecognised, private, looked up), four kinds of answer, one loss, one crash | silence means unknown, rows are the feed's, what a scan ended with stays (`OutcomesAreFinal`), scans and lookups end, `Delivery` is implemented |
| `mock_server` | two lookups, a known, a clean, an unknown and a padded indicator, right key, wrong key, none, a signal at any moment | the verdicts the tests build on, announced means reachable, lookups end without their deadline, a signal ends the process |
| `integration` | both test files or any part of them, every transport, URL or binary, with and without mock, two and three polls | green means tested, no test meets a service still starting, nothing is left behind, the script ends |
| `launch` | every line of up to three tokens out of thirteen (own switches and valued flags, with and without inline value, malformed ones, a launcher's, a word, lone dashes), on the host and behind each mode of the container | the parser meets own flags only and reads all that was kept (`ParserReadsOwnFlagsOnly`); an abort is the fault of a malformed own flag (`AbortsAreOwnFaults`); the settings are what one left-to-right reading gives (`SettingsAreAsMeant`); a container serves the transport its mode names, where it can be reached (`ContainerServesItsMode`) |

Violated, each a disagreement between the code and what is said of it:

| run | said | done |
| --- | --- | --- |
| `zero_score_null` | `functions.go:412`, `client.go:82`: NULL stands for a score that was not given | gob leaves out a pointer to 0.0, so a score of 0 becomes NULL |
| `odd_status_hit` | `client.go:97`: any other non-2xx status is an error | a 300, or a 302 without Location, with a body that decodes is a verdict |
| `internal_url` | `functions.go:286`: no lookup budget for internal hosts | the host inside a URL is not examined |
| `probe_404` | `reputation_api.test:74`, `functions_test.go:100`: the mock's 404 gives no rows | 203.0.113.x is a documentation range: triaged, never asked |
| `graceful_shutdown` | `cmd/mockserver/main.go:48`: graceful shutdown | `main` returns as soon as `Shutdown` is called, with requests in their handlers |

### Bounds

- Scans share nothing but the worker: two show every interaction a death or a
  cancellation can have.  Calls share nothing at all: one is enough in `lookup`.
- `RowsPerTick` is 2 for 256: streams of 0 to 5 rows hit no tick, a part of one,
  one exactly, one and a part, and three.  The theorems hold for any value.
- `HalfRange` is 128 (8 in the compositions) for 2^63 and a millisecond is 10
  (or 3) units for a million: the product is negative, zero, small and wrapped to
  positive for some `timeout_ms`.  The theorems hold for any width.
- `MaxRequests` is net/http's ten in `lookup`, and 1 where redirects are not the
  point.
- The script's thirty and fifty polls are two and three: none, some and all of
  them run out.  The theorems hold for any number.
- Three tokens, and up to three more that the container's mode puts before them,
  are a flag, its value and what stands behind them, or two flags in a row that
  claim each other.  The theorems hold for lines of any length.
- `MaxLosses` (2, or 1) and `MaxCrashes` (1) bound the faults of a behaviour; the
  theorems hold for any number.  Without a bound on losses a scan need not end.

`CHECK_DEADLOCK FALSE` stands in every configuration because every one of these
processes may finish: scans end, calls return, the mock exits, the worker serves.

### Fairness

- `Expire`: an `http.Client` whose timer is positive does fire.  A timer that is
  not positive never fires, which is what `NewClient`'s default is for.
- `Exchange` and `Settle`: the producer loop of the SDK and DuckDB keeps asking and
  answering, and `NewState` goes on when its call returns.
- The mock's own steps and its clients' reading: runnable goroutines run.
- The script and the runner go on, and a child that was sent SIGTERM ends
  (`SignalEnds` shows it of the mock).  No child has to come up.
- The feed owes nothing; nobody has to cancel, to signal, or to lose anything.
  In `mock_server` the lookups' deadlines owe nothing either, so that
  `LookupsEndByThemselves` is about the server.

## Proofs

Checked by tlapm, for every value of the constants the assumptions allow.  The
assumptions are named in the modules that declare the constants (`RangeAssumption`,
`TimeAssumption`, `RequestAssumption`, `CallAssumption`, `AnswerAssumption`,
`TickAssumption`, `BoundAssumption`, `StreamAssumption`, `QueryAssumption`,
`NullAssumption`, `BatchAssumption`, `WordsAssumption`, `PollAssumption`,
`TestAssumption`, `FeedAssumption`, `TextAssumption`, `LineAssumption`,
`SdkAssumption`) and say that numbers are numbers, sequences are sequences, an IPv6
literal is eight 16-bit words, an answer's score and categories are among the values they
are abstracted to, NULL is not a type name, and, of the SDK, that its
logging flags with a value are among the three `main.go` names.  TLC evaluates them
on every run.

**IndicatorsProofs** is about the operators.  A prefix of `n` bits fixes whole bytes
and the high bits of one more (`PrefixMeans`, `WholeBytes`), so each entry of
`PrivateBlocks` is an interval of addresses, which turns out to be the one
`Reserved` lists (`Private4`, `Private6`); an IPv4-mapped address is compared as its
last four bytes.  The other lemmas give each form of text its type.

**OfflineScalarsProofs.**  The invariant `CellwiseInv` (each output is the value of
its own cell) is inductive; the shortlist theorem follows from it and from the
lemma that no text fits two recognisers: their lengths, forms and last labels
exclude one another, which is also `ExclusiveCorrect`.
`PrivateMeansReservedCorrect` carries the range lemmas to every IPv4 and IPv6
address a batch can hold, where the run has only the edges.  `ViewCorrect` and
`DocumentedCorrect` evaluate the catalog's examples and are the statement for any
column they may stand in, as `TypesAreAsTestedCorrect` does with the inputs of the
tests, padded or not: one lemma per form of text, then one row of the table at a time.

**ContinuationProofs.**  `ExactlyOnce` is not inductive: it says nothing of the
offset the next tick will start from.  `StreamInv` adds, per scan (`ScanOK`), that
the state held (or, when an answer is under way, the state the answer carries)
holds the scan's rows as gob leaves them, with an offset equal to the number of
rows delivered (plus the batch under way), and that an answer's batch is the
slice between the two offsets.  Encoding twice is encoding once, so it survives
any number of hops.  From it: `StreamTypeCorrect`, `ExactlyOnceCorrect`,
`TicksBoundedCorrect`, the action property `TokenFollowsRowsCorrect`, and
`StreamDeliversCorrect`, each step a step of `Delivery` or a stutter.
`ScansShortenCorrect` is about the endless scan of `functions.go:33-48`: `Remaining`
counts the exchanges a scan still needs, from its token or the answer under way;
every step of its own lowers the count, a loss or a death raises it by three at
most, and no step of another scan touches it.

**LookupProofs.**  That a none follows a 404 read without an error is not inductive: a call under
way must not have returned yet, or a later answer could take the 404's place.
`CallOK` adds that, that what a finished call returns is what its answer
justifies, and that it is an error unless the body was read; a call that has begun has a positive timer.  From it
`LookupTypeCorrect`, `NoneOnlyAfter404Correct` and `RowsAreCompleteCorrect`.  The last has
a premise, that the calls are about indicators that have a type; the triage makes
it true, which is how `RowsAreTheFeedsCorrect` has it of every scan.
`DeadlinesAreAsAskedCorrect` says what the wrap-around leaves: when
`timeout_ms` times a million fits the integer, the deadline is that product, or the
default if it is not positive (`TimersKept`).  `CallsShortenCorrect` counts a call's
steps: `MaxRequests` + 3 at most.

**ReputationProofs.**  `RepInv` joins both with `ScanLink`: the rows a scan settled
on are those of its own call (`Justified`), and the call is the query's
(`CallIsTheQuerys`).  From it `SilenceMeansUnknownCorrect`,
`RowsAreTheFeedsCorrect`, `ScanDeliversCorrect` and, since `Receive` asks for a scan
that is open, `OutcomesAreFinalCorrect`: the answer of a lookup left running, a
second answer to a repeated exchange, or a death changes nothing that is over.
`OnlyTheAskedCorrect` is the triage seen from the feed: whatever is asked is the
query's own indicator, of a type, and not private.  `VerdictsSurviveCorrect` says how
little is lost between the feed's JSON and SQL: a score of zero becomes no score, and
no categories become an empty list.  `WholeScansShortenCorrect` adds the two counts
of its parts to one for `NewState`, with all the faults.

**IntegrationProofs.**  `NothingIsLeftBehind` looks at the last state alone.
`HarnessInv` says what holds on the way: a child not yet started is none
(`Cleaned`), so that nothing is started twice and lost; what the trap has waited
for stays gone, so that no socket comes back; the polls passed are remembered
by the lines (`Announced`), the status by the report (`Judged`).
`ScriptLeadsOnCorrect` adds that the status is set when, and only when, the trap
takes over (`Decided`): the script takes at most 13 steps and one for every poll,
93 with the code's thirty and fifty, and its clean-up cannot turn red into green.

**MockServerProofs.**  `MockInv` adds to the lookups' own invariant that every answer
read came from the handler, for that call (`Fed`), and that no lookup begins before
the PORT line (`Opened`).  The verdicts follow because each canned record is
of the type the classifier gives its indicator.  `MockRefinesLookup` shows that the mock
is a feed as `Lookup` has it, step by step, so that what is proved of a lookup
against any feed is true in the tests.  `MockWindsDownCorrect` counts the steps of
the process (7) and of each lookup with its connection (`MaxRequests` + 6): none of
them sets the other back, in any order.

**LaunchProofs.**  What the parser meets is a question about the whole filter, and
what it sets one about both.  `LaunchInv` carries it: the filter has read what it
passed as any reading of the line would (`ReadSoFar`); what it kept are the flags
found and the values they want, in order and next to each other (`KeptTokens`);
the parser stands at one of these flags, never at a value, and has set the
last value of each flag behind it (`ParsedSoFar`).  That there is a reading at all
is shown from the filter's own result, for the line being launched.
`ForeignTokensCorrect` needs it of every line: each has exactly one reading, for
the first token where two could differ, or where none could go on, would be a
counterexample whose predecessors are not.  With it, taking a launcher's token out of
a line leaves the settings as they are, and so any number of them.
`LaunchShortensCorrect` bounds both loops: 2 n + 12 steps for n tokens.

Model-checked only: the liveness properties, being about fairness (`ScanEnds`,
`LookupEnds`, `NoLookupIsLeftBehind` and the others of that kind).  The theorems that
count steps (*Shorten*, *LeadsOn*, *WindsDown*) prove the half of them that is
safety: a process that moves gets to its end within the bound.  That it
moves is the half that needs fairness, and `ENABLED` with it.

## What is taken as given

Code outside this repository is modelled from how the source uses it: that the
SDK encodes the state with gob before the first tick and in every token, and
that a worker keeps it live on a pipe (`functions.go:26-48`); that gob leaves
out zero values behind pointers; that `http.Client` stops after ten requests,
follows 301, 302, 303, 307 and 308 with a Location, and has one deadline for
redirects and body, none when `Timeout` is not positive; that
`http.Server.Serve` returns as soon as `Shutdown` is called; that `net.ParseIP`
refuses octets with leading zeros; that the runner exits 0 for a test it skips, and skips a test
over an error that names HTTP (`run-integration.sh:196-199, 235-238`); the rules of
`flag.FlagSet.Parse` given above; and that dash, the image's `sh`, ends a script at a
`shift` with nothing to shift, `|| true` or not.

## Not modelled

- Wording: error texts, `snippet`, and the catalog's titles, keywords, tags and
  prose, which promise nothing of the program.  The view and the example queries
  are modelled, the column comments are not.
- `Source` and `LastSeen`, copied through unchanged; `url.Values` encoding.
- Request paths at the mock other than `/reputation`.
- `make test-sql`, a simpler form of the script; `preprocess-require.awk`, a text
  rewrite; signals to the script.
- The SDK behind the choice of transport: `RunHttp`, `RunUnix`, `RunStdio`.
- Dockerfile and workflows: recipes, with no state of the program in them.

## Seen while modelling

Not properties of a run, but worth a reader's time:

- `indicator.go:44-45` says that the order of checks matters.  It decides nothing:
  no text is taken by two recognisers (`RecognisersExclusive`, checked and proved).
  What the comment goes on to say, cheap checks first, is about cost.  The order
  would begin to matter with a recogniser that overlaps another.
- `--help` is no flag of the worker's and is dropped: the worker starts.  With three
  dashes an own flag is kept and the parser exits on it (`AbortsAreOwnFaults` counts
  that as the writer's fault).
- A launcher's flag with a separate value that names an own flag, as in
  `--label --http`, is read as that flag: the filter cannot know that `--label`
  takes a value.  `SettingsAreAsMeant` takes the reading that the code can take.
- A container started with no argument at all ends in its entrypoint's `shift`
  (state `shell`), where `docker-entrypoint.sh:5` calls http the default.  The
  image's `CMD` gives the argument, so this takes an emptied `CMD`;
  `ContainerServesItsMode` is about containers given a mode.
- A `base_url` with a fragment takes the query into the fragment
  (`client.go:107-114`), and the indicator is never sent.
- `client.go:122-124` speaks of an `apikey` query parameter; only the header is set.
- `functions.go:475` describes a url as HTTP or HTTPS; the classifier takes ftp too
  (`indicator.go:90-104`), as its tests ask.
- `functions.go:26-31` speaks of a Done flag in the state; it is the Offset that the
  comment after it asks for.
- A staging directory given from outside keeps the tests of an earlier run.

## Plan

Done, in this order: classifiers and scalars; lookup; continuation with its
abstract promise; the whole scan; the mock feed; the integration script; the
launch; the catalog; the proofs of every safety property of the passing runs; the
bounds on the steps of each process.

What could follow: the Makefile's harness, as a second caller of the mock; a
signal to the integration script itself; and the SDK's three servers, should
their source come to stand beside this one.
