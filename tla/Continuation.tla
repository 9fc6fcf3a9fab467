---------------------------- MODULE Continuation ----------------------------
(***************************************************************************)
(* Row streams across the transport: reputationState, cursorSlice and      *)
(* ReputationFunction.Process of internal/threatworker/functions.go, with  *)
(* the producer loop of the SDK and of DuckDB around them as the comments  *)
(* there describe it.                                                      *)
(*                                                                         *)
(* A scan runs over a pipe (stdio or AF_UNIX), where the worker keeps the  *)
(* live state in memory between ticks, or over HTTP, where the worker      *)
(* keeps nothing: every answer carries a token, the encoded state as it    *)
(* stood when the batch was emitted, and the client sends it back to ask   *)
(* for more.  held[s] is the state between ticks: the worker's memory on a *)
(* pipe, the client's last token over HTTP.                                *)
(*                                                                         *)
(* wire[s] is the exchange under way: nothing ("idle"), a request the      *)
(* worker has not answered ("worker") or an answer the client has not read *)
(* ("back"), with its end-of-stream mark, its batch and the state after.   *)
(***************************************************************************)
EXTENDS Verdicts

CONSTANTS RowsPerTick,   \* rowsPerTick
          Streams,       \* the row sequences a scan may open with
          MaxLosses,     \* bound: exchanges lost, in a behaviour
          MaxCrashes     \* bound: worker deaths, in a behaviour

ASSUME TickAssumption == RowsPerTick \in Nat \ {0}
ASSUME BoundAssumption == MaxLosses \in Nat /\ MaxCrashes \in Nat
ASSUME StreamAssumption == \A rows \in Streams : IsRows(rows)

VARIABLES via, phase, plan, held, wire, got, losses, crashes

stream == <<phase, plan, held, wire, got>>
faults == <<losses, crashes>>
streamVars == <<via, phase, plan, held, wire, got, losses, crashes>>

Quiet == [at |-> "idle", fin |-> FALSE, batch |-> << >>,
          state |-> [rows |-> << >>, offset |-> 0]]
Request(st) == [at |-> "worker", fin |-> FALSE, batch |-> << >>, state |-> st]

----------------------------------------------------------------------------
\* Encoding and decoding a reputationState with gob.
GobState(st) == [st EXCEPT !.rows = GobRows(@)]

\* Faulty: the offset runs past the end of the rows.
cursorSliceOverrun(rows, offset) ==
    LET end == IF offset + RowsPerTick > Len(rows) THEN Len(rows)
               ELSE offset + RowsPerTick
    IN  IF offset >= Len(rows)
        THEN [done |-> TRUE, slice |-> << >>, offset |-> offset]
        ELSE [done |-> FALSE, slice |-> SubSeq(rows, offset + 1, end),
              offset |-> offset + RowsPerTick]
\* Faulty: all that is left in one slice.
cursorSliceWhole(rows, offset) ==
    [done |-> offset >= Len(rows), slice |-> SubSeq(rows, offset + 1, Len(rows)),
     offset |-> Len(rows)]
\* Faulty: the slice begins one row late.
cursorSliceLate(rows, offset) ==
    LET end == IF offset + RowsPerTick > Len(rows) THEN Len(rows)
               ELSE offset + RowsPerTick
    IN  [done |-> offset >= Len(rows), slice |-> SubSeq(rows, offset + 2, end),
         offset |-> end]
\* Faulty: done only past the end.
cursorSlicePastEnd(rows, offset) ==
    LET end == IF offset + RowsPerTick > Len(rows) THEN Len(rows)
               ELSE offset + RowsPerTick
    IN  [done |-> offset > Len(rows), slice |-> SubSeq(rows, offset + 1, end),
         offset |-> end]
\* The next slice of rows, and the offset past it; done once none is left.
cursorSlice(rows, offset) ==
    LET end == IF offset + RowsPerTick > Len(rows) THEN Len(rows)
               ELSE offset + RowsPerTick
    IN  IF offset >= Len(rows)
        THEN [done |-> TRUE, slice |-> << >>, offset |-> offset]
        ELSE [done |-> FALSE, slice |-> SubSeq(rows, offset + 1, end),
              offset |-> end]

\* Faulty: the cursor moves after the batch is emitted.
ProcessThenAdvance(st) ==
    LET cut == cursorSlice(st.rows, st.offset)
    IN  [at |-> "back", fin |-> cut.done, batch |-> SqlRows(cut.slice), state |-> st]
\* Process: the cursor has moved before the batch is emitted, so the state a
\* token snapshots at that moment is past the batch.
Process(st) ==
    LET cut == cursorSlice(st.rows, st.offset)
    IN  [at |-> "back", fin |-> cut.done, batch |-> SqlRows(cut.slice),
         state |-> [st EXCEPT !.offset = cut.offset]]

----------------------------------------------------------------------------
\* NewState has returned these rows; the SDK encodes the state on its way to
\* the first tick, whatever the transport.
Open(s, rows) ==
    /\ phase[s] = "new"
    /\ phase' = [phase EXCEPT ![s] = "open"]
    /\ plan' = [plan EXCEPT ![s] = rows]
    /\ held' = [held EXCEPT ![s] = GobState([rows |-> rows, offset |-> 0])]
    /\ UNCHANGED <<wire, got>>

\* The client asks for the next batch, sending its token over HTTP.
Ask(s) ==
    /\ phase[s] = "open" /\ wire[s].at = "idle"
    /\ wire' = [wire EXCEPT ![s] = Request(held[s])]
    /\ UNCHANGED <<phase, plan, held, got>>

\* The worker runs Process, on the decoded token or on its live state.
TickHttp(s) ==
    /\ wire[s].at = "worker" /\ via[s] = "http"
    /\ LET tick == Process(GobState(wire[s].state))
       IN  wire' = [wire EXCEPT ![s] = [tick EXCEPT !.state = GobState(@)]]
    /\ UNCHANGED <<phase, plan, held, got>>

TickPipe(s) ==
    /\ wire[s].at = "worker" /\ via[s] = "pipe"
    /\ wire' = [wire EXCEPT ![s] = Process(held[s])]
    /\ held' = [held EXCEPT ![s] = Process(held[s]).state]
    /\ UNCHANGED <<phase, plan, got>>

\* The client takes the answer: rows, and over HTTP the next token, or the end.
Receive(s) ==
    /\ wire[s].at = "back"
    /\ got' = [got EXCEPT ![s] = @ \o wire[s].batch]
    /\ held' = [held EXCEPT ![s] = wire[s].state]
    /\ phase' = [phase EXCEPT ![s] = IF wire[s].fin THEN "done" ELSE @]
    /\ wire' = [wire EXCEPT ![s] = Quiet]
    /\ UNCHANGED plan

\* An HTTP exchange is lost on either leg: the client fails the query, or
\* posts its token again.
Lose(s) ==
    /\ wire[s].at \in {"worker", "back"} /\ via[s] = "http"
    /\ losses < MaxLosses
    /\ losses' = losses + 1
    /\ wire' = [wire EXCEPT ![s] = Quiet]
    /\ \E outcome \in {"open", "failed"} :
          phase' = [phase EXCEPT ![s] = outcome]
    /\ UNCHANGED <<plan, held, got, crashes>>

\* Faulty: the exchange under way is not given up.
CancelKeepsExchange(s) ==
    /\ phase[s] \in {"new", "open"}
    /\ phase' = [phase EXCEPT ![s] = "failed"]
    /\ UNCHANGED <<plan, held, wire, got>>
\* The query is cancelled.
Cancel(s) ==
    /\ phase[s] \in {"new", "open"}
    /\ phase' = [phase EXCEPT ![s] = "failed"]
    /\ wire' = [wire EXCEPT ![s] = Quiet]
    /\ UNCHANGED <<plan, held, got>>

\* Faulty: the end of a broken pipe is taken for the end of the rows.
CrashAsEnd ==
    /\ crashes < MaxCrashes
    /\ crashes' = crashes + 1
    /\ phase' = [s \in Scans |->
                    IF via[s] = "pipe" /\ phase[s] = "open" THEN "done"
                    ELSE phase[s]]
    /\ wire' = [s \in Scans |-> Quiet]
    /\ UNCHANGED <<plan, held, got, losses>>
\* The worker dies and is started again.  Pipes break and end their scans;
\* over HTTP the exchanges under way vanish and the tokens survive.
Crash ==
    /\ crashes < MaxCrashes
    /\ crashes' = crashes + 1
    /\ phase' = [s \in Scans |->
                    IF via[s] = "pipe" /\ phase[s] = "open" THEN "failed"
                    ELSE phase[s]]
    /\ wire' = [s \in Scans |-> Quiet]
    /\ UNCHANGED <<plan, held, got, losses>>

----------------------------------------------------------------------------
StreamInit ==
    /\ via \in [Scans -> {"pipe", "http"}]
    /\ phase = [s \in Scans |-> "new"]
    /\ plan = [s \in Scans |-> << >>]
    /\ held = [s \in Scans |-> Quiet.state]
    /\ wire = [s \in Scans |-> Quiet]
    /\ got = [s \in Scans |-> << >>]
    /\ losses = 0 /\ crashes = 0

\* The steps of a scan that is open.
Exchange(s) ==
    /\ Ask(s) \/ TickHttp(s) \/ TickPipe(s) \/ Receive(s)
    /\ UNCHANGED <<via, faults>>

StreamNext ==
    \/ \E s \in Scans :
          \/ (\E rows \in Streams : Open(s, rows)) /\ UNCHANGED <<via, faults>>
          \/ Exchange(s)
          \/ Lose(s) /\ UNCHANGED via
          \/ Cancel(s) /\ UNCHANGED <<via, faults>>
    \/ Crash /\ UNCHANGED via

StreamFairness == \A s \in Scans : WF_streamVars(Exchange(s))
StreamSpec == StreamInit /\ [][StreamNext]_streamVars /\ StreamFairness

----------------------------------------------------------------------------
\* What a query should receive of a scan: its rows, once through gob.
Promised(s) == SqlRows(GobRows(plan[s]))

\* Type invariant.
Exchanges(st) == st.at \in {"idle", "worker", "back"} /\ st.fin \in BOOLEAN
StreamTypeOK ==
    /\ via \in [Scans -> {"pipe", "http"}]
    /\ phase \in [Scans -> {"new", "open", "done", "failed"}]
    /\ losses \in 0..MaxLosses /\ crashes \in 0..MaxCrashes
    /\ \A s \in Scans :
          /\ Exchanges(wire[s])
          /\ held[s].offset \in 0..Len(plan[s])
          /\ wire[s].state.offset \in 0..Len(plan[s])

\* The rows a query has are the first rows of the scan, in order, none twice
\* and none skipped, whatever was lost, asked again or restarted; a scan that
\* ends without an error has delivered all of them.
ExactlyOnce ==
    \A s \in Scans :
        /\ got[s] = SubSeq(Promised(s), 1, Len(got[s]))
        /\ phase[s] = "done" => got[s] = Promised(s)

\* An answer ends the stream or brings between one and RowsPerTick rows: no
\* empty batch, no end with rows in it, no batch without bound.
TicksAreBounded ==
    \A s \in Scans :
        wire[s].at = "back" =>
            IF wire[s].fin THEN wire[s].batch = << >>
            ELSE Len(wire[s].batch) \in 1..RowsPerTick

\* The comment at functions.go:33-48: over HTTP the client's token moves
\* forward with every batch it takes, and only then.
TokenFollowsRows ==
    [][\A s \in Scans :
         via[s] = "http" /\ phase[s] = "open"
         => held'[s].offset - held[s].offset = Len(got'[s]) - Len(got[s])]_streamVars

\* Every scan that opens comes to an end: the continuation loop terminates
\* over both transports.
StreamEnds ==
    \A s \in Scans : phase[s] = "open" ~> phase[s] \in {"done", "failed"}

\* Each scan is a Delivery of its rows as gob leaves them.
Promise == INSTANCE Delivery WITH
    Rows <- {SqlRow(GobRow(r)) : r \in UNION {{rows[i] : i \in 1..Len(rows)} : rows \in Streams}},
    plan <- [s \in Scans |-> Promised(s)]
StreamDelivers == Promise!Spec

\* functions.go:412-413 "a nil Score yields SQL NULL, so a source that returns
\* no numeric score surfaces NULL rather than 0": a score is NULL in SQL for
\* no other reason.
NullScoreMeansNoScore ==
    \A s \in Scans : \A i \in 1..Len(got[s]) :
        got[s][i].score = "NULL" => plan[s][i].score = "nil"

=============================================================================
