------------------------------- MODULE Lookup -------------------------------
(***************************************************************************)
(* One GET to the reputation feed per scan: NewClient and                  *)
(* Client.Reputation of internal/threatworker/client.go.  Scans run in     *)
(* parallel, each with a client of its own.                                *)
(*                                                                         *)
(* lk[s] is the call scan s is in:                                         *)
(*   at      "idle", "waiting" (request out), "reading" (headers in, body  *)
(*           still coming) or "done";                                      *)
(*   call    the arguments: value, base ("blank", "unparsable" or another  *)
(*           base_url) and ms (timeout_ms);                                *)
(*   timer   the http.Client timeout;                                      *)
(*   sent    requests made, the first and one per redirect followed;       *)
(*   answer  the response the status switch sees;                          *)
(*   read    whether io.ReadAll has returned its body without an error;    *)
(*   out     what Reputation returns: a row, none, or an error.            *)
(*                                                                         *)
(* A response is [status, located, json, rep]: located when a Location     *)
(* header comes with it, json when the first 16 MiB of its body decode to  *)
(* an object of the RepResponse shape, rep.  What an error says is not     *)
(* modelled.                                                               *)
(***************************************************************************)
EXTENDS Verdicts

CONSTANTS
    Calls,           \* the argument records a scan may be called with
    Answers,         \* the responses a feed may give
    MaxRequests,     \* net/http stops at the tenth request of a redirect chain
    HalfRange,       \* int64 holds -HalfRange .. HalfRange - 1
    MsInNs,          \* nanoseconds in a millisecond
    DefaultTimeout   \* nanoseconds

ASSUME RangeAssumption == HalfRange \in Nat \ {0}
ASSUME TimeAssumption == MsInNs \in Nat \ {0} /\ DefaultTimeout \in Nat \ {0}
ASSUME RequestAssumption == MaxRequests \in Nat \ {0}
ASSUME CallAssumption == \A call \in Calls : call.ms \in Int
ASSUME AnswerAssumption ==
    \A a \in Answers :
        a.status \in Nat /\ a.rep.score \in Scores /\ a.rep.categories \in Categories

VARIABLE lk

NoAnswer == [status |-> 0, located |-> FALSE, json |-> FALSE,
             rep |-> [type |-> NoType, malicious |-> FALSE,
                      score |-> "nil", categories |-> "nil"]]
NoCall   == [value |-> [pad |-> FALSE, text |-> [form |-> "blank"]],
             base |-> "blank", ms |-> 0]
NoOut    == [kind |-> "pending", rows |-> << >>]
RowOut(row) == [kind |-> "row", rows |-> <<row>>]
NoneOut  == [kind |-> "none", rows |-> << >>]
ErrorOut == [kind |-> "error", rows |-> << >>]

Idle == [at |-> "idle", call |-> NoCall, timer |-> 0, sent |-> 0,
         answer |-> NoAnswer, read |-> FALSE, out |-> NoOut]

InFlight(s) == lk[s].at \in {"waiting", "reading"}

----------------------------------------------------------------------------
\* time.Duration(args.TimeoutMS)*time.Millisecond wraps like any int64.
Wrap(n) == ((n + HalfRange) % (2 * HalfRange)) - HalfRange
Duration(ms) == Wrap(ms * MsInNs)

\* Faulty: no default.
TimerAsGiven(ms) == Duration(ms)
\* NewClient: a timeout that is not positive falls back to the default.
Timer(ms) == IF Duration(ms) <= 0 THEN DefaultTimeout ELSE Duration(ms)

\* A blank base_url falls back to DefaultBaseURL, so only a base that does
\* not parse keeps the request from being built.
Buildable(base) == base # "unparsable"

\* NewClient, then Reputation up to http.Client.Do.
Begin(call) ==
    LET started == [Idle EXCEPT !.call = call, !.timer = Timer(call.ms)]
    IN  IF Buildable(call.base)
        THEN [started EXCEPT !.at = "waiting", !.sent = 1]
        ELSE [started EXCEPT !.at = "done", !.out = ErrorOut]

\* The status switch, then the decoding.  It runs once the body is read.
Dispatch(value, a) ==
    CASE a.status = 404                  -> NoneOut
      [] a.status # 404 /\ a.status >= 400 -> ErrorOut
      [] a.status < 400 /\ ~a.json       -> ErrorOut
      [] a.status < 400 /\ a.json        -> RowOut(projectReputation(value, a.rep))

\* Statuses http.Client follows when a Location comes with them.
RedirectStatuses == {301, 302, 303, 307, 308}
Redirects(a) == a.status \in RedirectStatuses /\ a.located

----------------------------------------------------------------------------
Finish(s, out) == lk' = [lk EXCEPT ![s].at = "done", ![s].out = out]

\* A scan calls Reputation.
Call(s, call) ==
    /\ lk[s].at = "idle"
    /\ lk' = [lk EXCEPT ![s] = Begin(call)]

\* Name resolution, connection or request failure: http.Client.Do returns an error.
TransportError(s) ==
    /\ lk[s].at = "waiting"
    /\ Finish(s, ErrorOut)

\* The headers of a final response arrive and Do returns.
Respond(s, a) ==
    /\ lk[s].at = "waiting"
    /\ ~Redirects(a)
    /\ lk' = [lk EXCEPT ![s].at = "reading", ![s].answer = a]

\* Faulty: one request too many.
RedirectOnceMore(s, a) ==
    /\ lk[s].at = "waiting"
    /\ Redirects(a)
    /\ IF lk[s].sent <= MaxRequests
       THEN lk' = [lk EXCEPT ![s].sent = @ + 1]
       ELSE Finish(s, ErrorOut)
\* Do follows a redirect, or gives up once it has made MaxRequests requests.
Redirect(s, a) ==
    /\ lk[s].at = "waiting"
    /\ Redirects(a)
    /\ IF lk[s].sent < MaxRequests
       THEN lk' = [lk EXCEPT ![s].sent = @ + 1]
       ELSE Finish(s, ErrorOut)

\* io.ReadAll returns the body, cut at 16 MiB.
ReadBody(s) ==
    /\ lk[s].at = "reading"
    /\ lk' = [lk EXCEPT ![s].at = "done", ![s].read = TRUE,
                         ![s].out = Dispatch(lk[s].call.value, lk[s].answer)]

\* Faulty: the status is looked at before the error of io.ReadAll.
BodyErrorAfterStatus(s) ==
    /\ lk[s].at = "reading"
    /\ Finish(s, IF lk[s].answer.status = 404 THEN NoneOut ELSE ErrorOut)
\* io.ReadAll fails: the connection broke, whatever the status was.
BodyError(s) ==
    /\ lk[s].at = "reading"
    /\ Finish(s, ErrorOut)

\* The client's deadline, set once for the redirects and the body together.
\* http.Client sets none when its Timeout is not positive.
Expire(s) ==
    /\ InFlight(s)
    /\ lk[s].timer > 0
    /\ Finish(s, ErrorOut)

----------------------------------------------------------------------------
LookupInit == lk = [s \in Scans |-> Idle]

\* The steps of a call under way.
LookupStep(s) ==
    \/ TransportError(s)
    \/ \E a \in Answers : Respond(s, a)
    \/ \E a \in Answers : Redirect(s, a)
    \/ ReadBody(s)
    \/ BodyError(s)
    \/ Expire(s)

LookupNext == \E s \in Scans : LookupStep(s) \/ \E call \in Calls : Call(s, call)

\* The feed owes nothing; the deadline of a call does fire.
LookupFairness == \A s \in Scans : WF_lk(Expire(s))
LookupSpec == LookupInit /\ [][LookupNext]_lk /\ LookupFairness

----------------------------------------------------------------------------
\* Type invariant: one call record per scan; a call that has begun has a
\* positive timer, and has made at most MaxRequests requests.
LookupTypeOK ==
    /\ DOMAIN lk = Scans
    /\ \A s \in Scans :
          /\ lk[s].at \in {"idle", "waiting", "reading", "done"}
          /\ lk[s].call \in Calls \union {NoCall}
          /\ lk[s].timer \in Int
          /\ lk[s].at # "idle" => lk[s].timer > 0
          /\ lk[s].sent \in 0..MaxRequests
          /\ lk[s].answer \in Answers \union {NoAnswer}
          /\ lk[s].read \in BOOLEAN
          /\ lk[s].out.kind \in {"pending", "row", "none", "error"}

\* Reputation's (nil, nil) stands for "the feed answered 404 and its body was
\* read without an error" and for nothing else: no refused connection, redirect
\* loop or odd status passes for "unknown", and no 404 whose body broke off, or
\* was still coming when the deadline fired.
NoneOnlyAfter404 ==
    \A s \in Scans :
        lk[s].out.kind = "none" => lk[s].answer.status = 404 /\ lk[s].read

\* A row carries the indicator that was sent, a type that is never blank even
\* when the feed gave none, and a category list that is never nil.
RowsAreComplete ==
    \A s \in Scans : \A i \in 1..Len(lk[s].out.rows) :
        LET row == lk[s].out.rows[i]
        IN  /\ row.indicator = lk[s].call.value
            /\ row.type # NoType
            /\ row.categories # "nil"

\* README.md: "the call never crashes or hangs".  Whatever the feed does, a
\* call under way returns, for every timeout_ms a query can pass.
LookupEnds == \A s \in Scans : InFlight(s) ~> lk[s].at = "done"

\* client.go:97 "a non-nil error for any other non-2xx status".
OtherStatusesAreErrors ==
    \A s \in Scans :
        /\ lk[s].at = "done"
        /\ lk[s].answer.status \notin 200..299 \union {0, 404}
        => lk[s].out.kind = "error"

=============================================================================
