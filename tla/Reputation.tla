----------------------------- MODULE Reputation -----------------------------
(***************************************************************************)
(* A whole scan of reputation(): ReputationFunction.NewState of            *)
(* internal/threatworker/functions.go, which triages the argument and      *)
(* fetches the verdict (Lookup), and the stream of its rows back to DuckDB *)
(* (Continuation).  Scans run in parallel on one worker.                   *)
(*                                                                         *)
(* query[s] is the call scan s was opened with: whether its arguments      *)
(* bind, whether the indicator is NULL, and the rest as Lookup takes it.   *)
(* While NewState runs, phase[s] is "new" and lk[s] is in flight.          *)
(***************************************************************************)
EXTENDS Lookup, Continuation

CONSTANT Queries   \* the calls a scan may be opened with

ASSUME QueryAssumption == \A q \in Queries : q.call \in Calls

VARIABLE query

repVars == <<query, lk, streamVars>>

NoQuery == [binds |-> TRUE, null |-> TRUE, call |-> NoCall]

----------------------------------------------------------------------------
\* DuckDB opens a scan and NewState starts.
Starting(s, q) ==
    /\ phase[s] = "new" /\ query[s] = NoQuery
    /\ query' = [query EXCEPT ![s] = q]
    /\ UNCHANGED <<via, faults>>

\* BindArgs refuses the arguments.
RefuseArguments(s, q) ==
    /\ ~q.binds
    /\ Starting(s, q)
    /\ phase' = [phase EXCEPT ![s] = "failed"]
    /\ UNCHANGED <<lk, plan, held, wire, got>>

\* isNullArg, then the offline triage: no rows, and no lookup.
Skip(s, q) ==
    /\ q.binds
    /\ q.null \/ Triaged(q.call.value)
    /\ Starting(s, q)
    /\ Open(s, << >>)
    /\ UNCHANGED lk

\* NewClient and Reputation.
Consult(s, q) ==
    /\ q.binds
    /\ ~q.null /\ ~Triaged(q.call.value)
    /\ Starting(s, q)
    /\ Call(s, q.call)
    /\ UNCHANGED stream

\* Faulty: a failed lookup opens the scan without rows.
SettleAnyway(s) ==
    /\ phase[s] = "new" /\ lk[s].at = "done"
    /\ Open(s, lk[s].out.rows)
    /\ UNCHANGED <<query, lk, via, faults>>
\* Reputation returns to NewState: an error fails the scan, else it opens with
\* the verdict row or, after a 404, with none.
Settle(s) ==
    /\ phase[s] = "new" /\ lk[s].at = "done"
    /\ IF lk[s].out.kind = "error"
       THEN /\ phase' = [phase EXCEPT ![s] = "failed"]
            /\ UNCHANGED <<plan, held, wire, got>>
       ELSE Open(s, lk[s].out.rows)
    /\ UNCHANGED <<query, lk, via, faults>>

\* Cancelling the query leaves a lookup under way alone: it runs under
\* context.Background().
CancelScan(s) ==
    /\ query[s] # NoQuery
    /\ Cancel(s)
    /\ UNCHANGED <<query, lk, via, faults>>

\* Faulty: the end of a broken pipe is taken for the end of the rows.
CrashAsEndOfRows ==
    /\ CrashAsEnd
    /\ UNCHANGED <<query, lk, via>>
\* Faulty: scans being opened are forgotten.
CrashForgetsOpening ==
    /\ Crash
    /\ lk' = [s \in Scans |-> IF InFlight(s) THEN Idle ELSE lk[s]]
    /\ UNCHANGED <<query, via>>
\* A dying worker takes its lookups along, and with them the scans that were
\* still being opened, over either transport.
CrashWorker ==
    /\ crashes < MaxCrashes
    /\ crashes' = crashes + 1
    /\ phase' = [s \in Scans |->
                    IF \/ via[s] = "pipe" /\ phase[s] = "open"
                       \/ query[s] # NoQuery /\ phase[s] = "new"
                    THEN "failed" ELSE phase[s]]
    /\ wire' = [s \in Scans |-> Quiet]
    /\ lk' = [s \in Scans |->
                 IF InFlight(s) THEN [lk[s] EXCEPT !.at = "done", !.out = ErrorOut]
                 ELSE lk[s]]
    /\ UNCHANGED <<query, via, plan, held, got, losses>>

----------------------------------------------------------------------------
RepInit ==
    /\ query = [s \in Scans |-> NoQuery]
    /\ LookupInit
    /\ StreamInit

RepNext ==
    \/ \E s \in Scans :
          \/ \E q \in Queries : RefuseArguments(s, q) \/ Skip(s, q) \/ Consult(s, q)
          \/ LookupStep(s) /\ UNCHANGED <<query, streamVars>>
          \/ Settle(s)
          \/ Exchange(s) /\ UNCHANGED <<query, lk>>
          \/ Lose(s) /\ UNCHANGED <<query, lk, via>>
          \/ CancelScan(s)
    \/ CrashWorker

\* The deadline fires, NewState goes on when its call returns, and both ends
\* keep the stream moving.  The feed owes nothing.
RepFairness ==
    \A s \in Scans :
        /\ WF_repVars(Expire(s) /\ UNCHANGED <<query, streamVars>>)
        /\ WF_repVars(Settle(s))
        /\ WF_repVars(Exchange(s) /\ UNCHANGED <<query, lk>>)
RepSpec == RepInit /\ [][RepNext]_repVars /\ RepFairness

----------------------------------------------------------------------------
\* Type invariant.
RepTypeOK ==
    /\ query \in [Scans -> Queries \union {NoQuery}]
    /\ LookupTypeOK
    /\ StreamTypeOK
    /\ \A s \in Scans : Len(plan[s]) <= 1

Asked(s) == ~query[s].null /\ ~Triaged(query[s].call.value)

\* A scan that ends without rows and without an error says one thing: the
\* indicator is NULL or not worth asking about, or the feed was asked about
\* it and answered 404, to the end of the body.  No failure of the feed, of the network, of the
\* transport or of the worker is ever read as "no verdict".
SilenceMeansUnknown ==
    \A s \in Scans :
        phase[s] = "done" /\ got[s] = << >> =>
            \/ ~Asked(s)
            \/ lk[s].answer.status = 404 /\ lk[s].read

\* A row the query receives is about the indicator it asked for, carries a
\* type, and repeats what the feed said in a well-formed answer to this scan,
\* read without an error.
RowsAreTheFeeds ==
    \A s \in Scans : \A i \in 1..Len(got[s]) :
        /\ Asked(s) /\ lk[s].answer.json /\ lk[s].read
        /\ got[s][i].indicator = query[s].call.value
        /\ got[s][i].type # NoType
        /\ got[s][i].malicious = lk[s].answer.rep.malicious

\* What a scan has ended with stays: neither the lookup it no longer waits for,
\* nor an answer on its way from the worker, nor a worker that dies and comes
\* back hands its query another row, another end or another verdict to rest on.
OutcomesAreFinal ==
    [][\A s \in Scans :
         /\ phase[s] \in {"done", "failed"} =>
               /\ UNCHANGED <<phase[s], got[s], plan[s], query[s]>>
               /\ wire'[s] = Quiet
         /\ phase[s] = "done" => lk'[s] = lk[s]]_repVars

\* Every scan DuckDB opens ends, whatever the feed does and whatever
\* timeout_ms it was given.
ScanEnds ==
    \A s \in Scans : query[s] # NoQuery ~> phase[s] \in {"done", "failed"}

\* A lookup is over some time after it began, even when the scan it was for
\* has been cancelled: nothing keeps running on the feed's account.
NoLookupIsLeftBehind == \A s \in Scans : InFlight(s) ~> ~InFlight(s)

\* The scan as a Delivery of at most one verdict row.
Verdict == INSTANCE Delivery WITH
    Rows <- {SqlRow(GobRow(projectReputation(q.call.value, a.rep))) :
                q \in Queries, a \in Answers},
    plan <- [s \in Scans |-> Promised(s)]
ScanDelivers == Verdict!Spec

\* functions.go:286-287 "the worker never spends lookup budget on internal
\* hosts": no lookup whose URL points into a private range.
NoInternalHostIsLookedUp ==
    \A s \in Scans :
        lk[s].at # "idle" /\ lk[s].call.value.text.form = "url"
        => ~IsPrivateIP([pad |-> FALSE, text |-> lk[s].call.value.text.host])

\* reputation_api.test:74-77 "an unknown but well-formed indicator (mock 404)
\* yields no rows": a well-formed indicator without rows was answered 404.
UnknownMeansNotFound ==
    \A s \in Scans :
        /\ phase[s] = "done" /\ got[s] = << >>
        /\ ~query[s].null /\ IndicatorType(query[s].call.value) # NoType
        => lk[s].answer.status = 404

=============================================================================
