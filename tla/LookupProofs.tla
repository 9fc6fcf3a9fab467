----------------------------- MODULE LookupProofs -----------------------------
(***************************************************************************)
(* The reputation client's promises, for every feed, every call and every  *)
(* width of integer: a deadline that is always there, a bounded redirect   *)
(* chain, and "unknown" for a 404 read to its end alone.                   *)
(***************************************************************************)
EXTENDS Lookup, TLAPS

----------------------------------------------------------------------------
\* Whatever timeout_ms overflows to, a client is given a positive one.
LEMMA TimerIsPositive ==
    ASSUME NEW ms \in Int
    PROVE  Timer(ms) \in Int /\ Timer(ms) > 0
<1>1. ms * MsInNs \in Int
  BY TimeAssumption
<1>2. Duration(ms) \in Int
  BY <1>1, RangeAssumption DEF Duration, Wrap
<1> QED
  BY <1>2, TimeAssumption DEF Timer

\* What a call about value returns, once it has the answer a: an error, none
\* after a 404, or the row the answer projects to.
Returns(value, a, out) ==
    \/ out = ErrorOut
    \/ out = NoneOut /\ a.status = 404
    \/ out = RowOut(projectReputation(value, a.rep)) /\ a.json

LEMMA DispatchReturns ==
    ASSUME NEW value, NEW a, a.status \in Int
    PROVE  Returns(value, a, Dispatch(value, a))
BY DEF Dispatch, Returns


----------------------------------------------------------------------------
\* The inductive invariant, of one call record k.  That "none" follows a 404
\* alone is not inductive: a call under way must not have returned yet, or a
\* later answer could take the place of the 404.  Only a call whose body was
\* read returns anything but an error.
CallOK(k) ==
    /\ k \in [at : {"idle", "waiting", "reading", "done"},
              call : Calls \union {NoCall}, timer : Int, sent : 0..MaxRequests,
              answer : Answers \union {NoAnswer}, read : BOOLEAN, out : {k.out}]
    /\ k.at # "idle" => k.timer > 0 /\ k.call \in Calls
    /\ k.at # "done" => k.out = NoOut
    /\ k.at = "done" => Returns(k.call.value, k.answer, k.out)
    /\ k.at = "done" /\ k.out # ErrorOut => k.read

LookupInv == DOMAIN lk = Scans /\ \A s \in Scans : CallOK(lk[s])

LEMMA IdleOK == CallOK(Idle)
BY RequestAssumption DEF CallOK, Idle

LEMMA BeginOK == ASSUME NEW call \in Calls PROVE CallOK(Begin(call))
<1>1. Timer(call.ms) \in Int /\ Timer(call.ms) > 0
  BY CallAssumption, TimerIsPositive
<1>2. CASE Buildable(call.base)
  <2>1. Begin(call) = [at |-> "waiting", call |-> call, timer |-> Timer(call.ms),
                       sent |-> 1, answer |-> NoAnswer, read |-> FALSE, out |-> NoOut]
    BY <1>2 DEF Begin, Idle
  <2> QED
    BY <1>1, <2>1, RequestAssumption DEF CallOK
<1>3. CASE ~Buildable(call.base)
  <2>1. Begin(call) = [at |-> "done", call |-> call, timer |-> Timer(call.ms),
                       sent |-> 0, answer |-> NoAnswer, read |-> FALSE, out |-> ErrorOut]
    BY <1>3 DEF Begin, Idle
  <2> QED
    BY <1>1, <2>1, RequestAssumption DEF CallOK, Returns
<1> QED
  BY <1>2, <1>3

\* A call may fail at any time.
LEMMA ErrorOK ==
    ASSUME NEW k, CallOK(k), k.at # "idle"
    PROVE  CallOK([k EXCEPT !.at = "done", !.out = ErrorOut])
BY DEF CallOK, Returns

\* With its body read it returns what fits the answer it has.
LEMMA ReadOK ==
    ASSUME NEW k, CallOK(k), k.at # "idle", NEW out,
           Returns(k.call.value, k.answer, out)
    PROVE  CallOK([k EXCEPT !.at = "done", !.read = TRUE, !.out = out])
BY DEF CallOK

LEMMA RespondOK ==
    ASSUME NEW k, CallOK(k), k.at = "waiting", NEW a \in Answers
    PROVE  CallOK([k EXCEPT !.at = "reading", !.answer = a])
BY DEF CallOK

LEMMA RedirectOK ==
    ASSUME NEW k, CallOK(k), k.at = "waiting", k.sent < MaxRequests
    PROVE  CallOK([k EXCEPT !.sent = @ + 1])
BY RequestAssumption DEF CallOK


----------------------------------------------------------------------------
\* The invariant is inductive.

\* Replacing one call by a good one keeps the others.
LEMMA OneCallChanges ==
    ASSUME LookupInv, NEW s \in Scans, NEW k, CallOK(k), lk' = [lk EXCEPT ![s] = k]
    PROVE  LookupInv'
BY DEF LookupInv

LEMMA ErrorKeeps ==
    ASSUME LookupInv, NEW s \in Scans, lk[s].at # "idle", Finish(s, ErrorOut)
    PROVE  LookupInv'
<1>1. CallOK([lk[s] EXCEPT !.at = "done", !.out = ErrorOut])
  BY ErrorOK DEF LookupInv
<1>2. lk' = [lk EXCEPT ![s] = [lk[s] EXCEPT !.at = "done", !.out = ErrorOut]]
  BY DEF Finish
<1> QED
  BY <1>1, <1>2, OneCallChanges

LEMMA CallKeeps ==
    ASSUME LookupInv, NEW s \in Scans, NEW call \in Calls, Call(s, call)
    PROVE  LookupInv'
BY BeginOK, OneCallChanges DEF Call

LEMMA StepKeeps ==
    ASSUME LookupInv, NEW s \in Scans, LookupStep(s)
    PROVE  LookupInv'
<1>0. CallOK(lk[s])
  BY DEF LookupInv
<1>1. CASE TransportError(s)
  BY <1>1, ErrorKeeps DEF TransportError
<1>2. ASSUME NEW a \in Answers, Respond(s, a) PROVE LookupInv'
  <2>1. CallOK([lk[s] EXCEPT !.at = "reading", !.answer = a])
    BY <1>0, <1>2, RespondOK DEF Respond
  <2>2. lk' = [lk EXCEPT ![s] = [lk[s] EXCEPT !.at = "reading", !.answer = a]]
    BY <1>2 DEF Respond
  <2> QED
    BY <2>1, <2>2, OneCallChanges
<1>3. ASSUME NEW a \in Answers, Redirect(s, a) PROVE LookupInv'
  <2>1. CASE lk[s].sent < MaxRequests
    <3>1. CallOK([lk[s] EXCEPT !.sent = @ + 1])
      BY <1>0, <1>3, <2>1, RedirectOK DEF Redirect
    <3>2. lk' = [lk EXCEPT ![s] = [lk[s] EXCEPT !.sent = @ + 1]]
      BY <1>3, <2>1 DEF Redirect
    <3> QED
      BY <3>1, <3>2, OneCallChanges
  <2>2. CASE ~(lk[s].sent < MaxRequests)
    BY <1>3, <2>2, ErrorKeeps DEF Redirect
  <2> QED
    BY <2>1, <2>2
<1>4. CASE ReadBody(s)
  <2> DEFINE out == Dispatch(lk[s].call.value, lk[s].answer)
  <2>1. /\ lk[s].at = "reading"
        /\ lk' = [lk EXCEPT ![s] = [lk[s] EXCEPT !.at = "done", !.read = TRUE, !.out = out]]
    BY <1>4 DEF ReadBody
  <2>2. lk[s].answer.status \in Int
    BY <1>0, AnswerAssumption DEF CallOK, NoAnswer
  <2>3. Returns(lk[s].call.value, lk[s].answer, out)
    BY <2>2, DispatchReturns
  <2> HIDE DEF out
  <2>4. CallOK([lk[s] EXCEPT !.at = "done", !.read = TRUE, !.out = out])
    BY <1>0, <2>1, <2>3, ReadOK
  <2> QED
    BY <2>1, <2>4, OneCallChanges
<1>5. CASE BodyError(s)
  BY <1>5, ErrorKeeps DEF BodyError
<1>6. CASE Expire(s)
  BY <1>6, ErrorKeeps DEF Expire, InFlight
<1> QED
  BY <1>1, <1>2, <1>3, <1>4, <1>5, <1>6 DEF LookupStep

LEMMA LookupInductive == LookupInv /\ [LookupNext]_lk => LookupInv'
<1> SUFFICES ASSUME LookupInv, [LookupNext]_lk PROVE LookupInv'
  OBVIOUS
<1>1. ASSUME NEW s \in Scans, LookupStep(s) PROVE LookupInv'
  BY <1>1, StepKeeps
<1>2. ASSUME NEW s \in Scans, NEW call \in Calls, Call(s, call) PROVE LookupInv'
  BY <1>2, CallKeeps
<1>3. CASE UNCHANGED lk
  BY <1>3 DEF LookupInv
<1> QED
  BY <1>1, <1>2, <1>3 DEF LookupNext

LEMMA LookupInitially == LookupInit => LookupInv
BY IdleOK DEF LookupInit, LookupInv

LEMMA LookupInvariance == LookupSpec => []LookupInv
BY LookupInitially, LookupInductive, PTL DEF LookupSpec

----------------------------------------------------------------------------
\* What a call may have returned so far.
LEMMA OutKinds ==
    ASSUME NEW k, CallOK(k)
    PROVE  /\ k.out.kind \in {"pending", "row", "none", "error"}
           /\ k.out.kind = "none" => k.answer.status = 404 /\ k.read
<1>1. CASE k.at # "done"
  BY <1>1 DEF CallOK, NoOut
<1>2. CASE k.at = "done"
  <2>1. Returns(k.call.value, k.answer, k.out) /\ (k.out # ErrorOut => k.read)
    BY <1>2 DEF CallOK
  <2> QED
    BY <2>1 DEF Returns, ErrorOut, NoneOut, RowOut
<1> QED
  BY <1>1, <1>2

LEMMA LookupTyped == LookupInv => LookupTypeOK
<1> SUFFICES ASSUME LookupInv, NEW s \in Scans, NEW k, k = lk[s]
             PROVE  /\ k.at \in {"idle", "waiting", "reading", "done"}
                    /\ k.call \in Calls \union {NoCall}
                    /\ k.timer \in Int
                    /\ k.at # "idle" => k.timer > 0
                    /\ k.sent \in 0..MaxRequests
                    /\ k.answer \in Answers \union {NoAnswer}
                    /\ k.read \in BOOLEAN
                    /\ k.out.kind \in {"pending", "row", "none", "error"}
  BY DEF LookupInv, LookupTypeOK
<1>1. CallOK(k)
  BY DEF LookupInv
<1> QED
  BY <1>1, OutKinds DEF CallOK

\* Every call has a positive deadline and a bounded chain of requests, for
\* every timeout_ms there is (client.go:43-55).
THEOREM LookupTypeCorrect == LookupSpec => []LookupTypeOK
BY LookupTyped, LookupInvariance, PTL

\* Reputation's (nil, nil) always stands for a 404 whose body was read without
\* an error: a body that breaks off, or a deadline that fires while it is still
\* coming, never comes out as "unknown" (client.go:134-150).
THEOREM NoneOnlyAfter404Correct == LookupSpec => []NoneOnlyAfter404
<1>1. LookupInv => NoneOnlyAfter404
  BY OutKinds DEF LookupInv, NoneOnlyAfter404
<1> QED
  BY <1>1, LookupInvariance, PTL

\* A row is about the indicator sent, typed, and has a list of categories,
\* whatever the feed left out, when the calls are about indicators that have a
\* type: NewState makes no others (client.go:161-181, functions.go:364-370).
THEOREM RowsAreCompleteCorrect ==
    ASSUME \A call \in Calls : IndicatorType(call.value) # NoType
    PROVE  LookupSpec => []RowsAreComplete
<1>1. ASSUME NEW k, CallOK(k), NEW i \in 1..Len(k.out.rows)
      PROVE  LET row == k.out.rows[i]
             IN  /\ row.indicator = k.call.value
                 /\ row.type # NoType
                 /\ row.categories # "nil"
  <2> DEFINE v == k.call.value
             row == projectReputation(v, k.answer.rep)
  <2>1. CASE k.at # "done" \/ k.out = ErrorOut \/ k.out = NoneOut
    BY <1>1, <2>1 DEF CallOK, NoOut, ErrorOut, NoneOut
  <2>2. CASE k.at = "done" /\ k.out = RowOut(row)
    <3>1. IndicatorType(v) # NoType
      BY <1>1, <2>2 DEF CallOK
    <3>2. row.indicator = v /\ row.type # NoType /\ row.categories # "nil"
      BY <3>1 DEF projectReputation, RepRow
    <3> HIDE DEF row
    <3>3. k.out.rows[i] = row
      BY <1>1, <2>2 DEF RowOut
    <3> QED
      BY <3>2, <3>3
  <2> QED
    BY <1>1, <2>1, <2>2 DEF CallOK, Returns
<1>2. LookupInv => RowsAreComplete
  BY <1>1 DEF LookupInv, RowsAreComplete
<1> QED
  BY <1>2, LookupInvariance, PTL

----------------------------------------------------------------------------
\* The deadline a call is given.

\* int64 arithmetic leaves a number alone that it can hold, and moves any
\* other by a multiple of its range into it.
LEMMA WrapIsIdentity ==
    ASSUME NEW n \in Int, -HalfRange <= n, n < HalfRange
    PROVE  Wrap(n) = n
<1> DEFINE m == n + HalfRange
<1>1. HalfRange \in Nat /\ m \in Int /\ 0 <= m /\ m < 2 * HalfRange
  BY RangeAssumption
<1>2. m % (2 * HalfRange) = m
  BY <1>1
<1> QED
  BY <1>1, <1>2 DEF Wrap

LEMMA WrapIsInRange ==
    ASSUME NEW n \in Int
    PROVE  Wrap(n) \in Int /\ -HalfRange <= Wrap(n) /\ Wrap(n) < HalfRange
<1>1. HalfRange \in Int /\ HalfRange > 0 /\ n + HalfRange \in Int
  BY RangeAssumption
<1>2. /\ (n + HalfRange) % (2 * HalfRange) \in Int
      /\ 0 <= (n + HalfRange) % (2 * HalfRange)
      /\ (n + HalfRange) % (2 * HalfRange) < 2 * HalfRange
  BY <1>1
<1> QED
  BY <1>1, <1>2 DEF Wrap

\* timeout_ms as the query's writer means it: the milliseconds asked for, and
\* the default for zero and below.  It is what a call gets as long as its
\* nanoseconds fit an int64 (client.go:48-52); beyond, a call still gets a
\* deadline, which the type invariant says, but not that one.
Fits(ms) == -HalfRange <= ms * MsInNs /\ ms * MsInNs < HalfRange
DeadlinesAreAsAsked ==
    \A s \in Scans :
        lk[s].at # "idle" /\ Fits(lk[s].call.ms) =>
            lk[s].timer = IF lk[s].call.ms > 0 THEN lk[s].call.ms * MsInNs
                          ELSE DefaultTimeout

LEMMA TimerIsAsAsked ==
    ASSUME NEW ms \in Int, Fits(ms)
    PROVE  Timer(ms) = IF ms > 0 THEN ms * MsInNs ELSE DefaultTimeout
<1>1. MsInNs \in Int /\ MsInNs > 0 /\ ms * MsInNs \in Int
  BY TimeAssumption
<1>2. Duration(ms) = ms * MsInNs
  BY <1>1, WrapIsIdentity DEF Duration, Fits
<1>3. ms * MsInNs <= 0 <=> ms <= 0
  BY <1>1
<1> QED
  BY <1>2, <1>3 DEF Timer

\* A call keeps its arguments and its deadline until it returns.
TimersKept ==
    \A s \in Scans : lk[s].at # "idle" => lk[s].timer = Timer(lk[s].call.ms)

LEMMA TimersKeptStep ==
    ASSUME LookupInv, TimersKept, [LookupNext]_lk
    PROVE  TimersKept'
<1>1. ASSUME NEW s \in Scans, NEW call \in Calls, Call(s, call) PROVE TimersKept'
  <2>1. Begin(call).call = call /\ Begin(call).timer = Timer(call.ms)
    BY DEF Begin, Idle
  <2>2. \A r \in Scans : lk'[r] = IF r = s THEN Begin(call) ELSE lk[r]
    BY <1>1 DEF Call, LookupInv
  <2> QED
    BY <2>1, <2>2 DEF TimersKept
<1>2. ASSUME NEW s \in Scans, LookupStep(s) PROVE TimersKept'
  <2>1. /\ lk[s].at # "idle" /\ DOMAIN lk' = Scans
        /\ \A r \in Scans \ {s} : lk'[r] = lk[r]
        /\ lk'[s].call = lk[s].call /\ lk'[s].timer = lk[s].timer
    <3>1. lk[s] = [at |-> lk[s].at, call |-> lk[s].call, timer |-> lk[s].timer,
                   sent |-> lk[s].sent, answer |-> lk[s].answer, read |-> lk[s].read,
                   out |-> lk[s].out]
      BY DEF LookupInv, CallOK
    <3> QED
      BY <1>2, <3>1 DEF LookupInv, LookupStep, TransportError, Respond, Redirect, ReadBody,
                        BodyError, Expire, Finish, InFlight
  <2> QED
    BY <2>1 DEF TimersKept
<1>3. CASE UNCHANGED lk
  BY <1>3 DEF TimersKept
<1> QED
  BY <1>1, <1>2, <1>3 DEF LookupNext

\* The deadline of every call is the one asked for, whenever int64 can hold it.
THEOREM DeadlinesAreAsAskedCorrect == LookupSpec => []DeadlinesAreAsAsked
<1>1. LookupInit => TimersKept
  BY DEF LookupInit, TimersKept, Idle
<1>2. LookupInv /\ TimersKept /\ [LookupNext]_lk => TimersKept'
  BY TimersKeptStep
<1>3. LookupInv /\ TimersKept => DeadlinesAreAsAsked
  <2> SUFFICES ASSUME LookupInv, TimersKept, NEW s \in Scans,
                      lk[s].at # "idle", Fits(lk[s].call.ms)
               PROVE  lk[s].timer = IF lk[s].call.ms > 0 THEN lk[s].call.ms * MsInNs
                                    ELSE DefaultTimeout
    BY DEF DeadlinesAreAsAsked
  <2>1. lk[s].call.ms \in Int
    BY CallAssumption DEF LookupInv, CallOK
  <2> QED
    BY <2>1, TimerIsAsAsked DEF TimersKept
<1> QED
  BY <1>1, <1>2, <1>3, LookupInvariance, PTL DEF LookupSpec

----------------------------------------------------------------------------
\* A call comes to an end.

\* How many steps a call has left at the most: a redirect may be followed as
\* long as requests are left, then come the headers, then the body.
StepsLeft(k) ==
    CASE k.at = "idle"    -> MaxRequests + 3
      [] k.at = "waiting" -> MaxRequests - k.sent + 2
      [] k.at = "reading" -> 1
      [] OTHER            -> 0

\* Whatever the feed answers, every step of a call leaves it fewer to take and
\* touches no other call: a feed can delay a call, up to its deadline, but
\* cannot keep it busy.
CallsShorten ==
    [][\E s \in Scans :
          /\ StepsLeft(lk[s]) \in Nat
          /\ StepsLeft(lk'[s]) < StepsLeft(lk[s])
          /\ \A r \in Scans \ {s} : lk'[r] = lk[r]]_lk

LEMMA StepsAreNat ==
    ASSUME NEW k, CallOK(k)
    PROVE  StepsLeft(k) \in Nat
BY RequestAssumption DEF CallOK, StepsLeft

LEMMA StepShortens ==
    ASSUME LookupInv, NEW s \in Scans, LookupStep(s)
    PROVE  /\ StepsLeft(lk'[s]) < StepsLeft(lk[s])
           /\ \A r \in Scans \ {s} : lk'[r] = lk[r]
<1>1. /\ lk[s].at \in {"idle", "waiting", "reading", "done"} /\ lk[s].sent \in 0..MaxRequests
      /\ lk[s] = [at |-> lk[s].at, call |-> lk[s].call, timer |-> lk[s].timer,
                  sent |-> lk[s].sent, answer |-> lk[s].answer, read |-> lk[s].read,
                  out |-> lk[s].out]
      /\ DOMAIN lk = Scans
  BY DEF LookupInv, CallOK
<1>2. MaxRequests \in Nat
  BY RequestAssumption
<1>3. ASSUME NEW out, lk[s].at \in {"waiting", "reading"}, Finish(s, out)
      PROVE  /\ StepsLeft(lk'[s]) < StepsLeft(lk[s])
             /\ \A r \in Scans \ {s} : lk'[r] = lk[r]
  <2>1. lk'[s].at = "done" /\ \A r \in Scans \ {s} : lk'[r] = lk[r]
    BY <1>1, <1>3 DEF Finish
  <2> QED
    BY <1>1, <1>2, <1>3, <2>1 DEF StepsLeft
<1>4. ASSUME NEW a \in Answers, Respond(s, a)
      PROVE  /\ StepsLeft(lk'[s]) < StepsLeft(lk[s])
             /\ \A r \in Scans \ {s} : lk'[r] = lk[r]
  <2>1. /\ lk[s].at = "waiting" /\ lk'[s].at = "reading"
        /\ \A r \in Scans \ {s} : lk'[r] = lk[r]
    BY <1>1, <1>4 DEF Respond
  <2> QED
    BY <1>1, <1>2, <2>1 DEF StepsLeft
<1>5. ASSUME NEW a \in Answers, Redirect(s, a)
      PROVE  /\ StepsLeft(lk'[s]) < StepsLeft(lk[s])
             /\ \A r \in Scans \ {s} : lk'[r] = lk[r]
  <2>1. CASE lk[s].sent < MaxRequests
    <3>1. /\ lk[s].at = "waiting" /\ lk'[s].at = "waiting" /\ lk'[s].sent = lk[s].sent + 1
          /\ \A r \in Scans \ {s} : lk'[r] = lk[r]
      BY <1>1, <1>5, <2>1 DEF Redirect
    <3> QED
      BY <1>1, <1>2, <3>1 DEF StepsLeft
  <2>2. CASE ~(lk[s].sent < MaxRequests)
    BY <1>3, <1>5, <2>2 DEF Redirect
  <2> QED
    BY <2>1, <2>2
<1>6. CASE TransportError(s) \/ BodyError(s) \/ Expire(s)
  BY <1>3, <1>6 DEF TransportError, BodyError, Expire, InFlight
<1>7. CASE ReadBody(s)
  <2>1. /\ lk[s].at = "reading" /\ lk'[s].at = "done"
        /\ \A r \in Scans \ {s} : lk'[r] = lk[r]
    BY <1>1, <1>7 DEF ReadBody
  <2> QED
    BY <1>1, <1>2, <2>1 DEF StepsLeft
<1> QED
  BY <1>4, <1>5, <1>6, <1>7 DEF LookupStep

\* So does its first, from NewClient to the request.
LEMMA CallShortens ==
    ASSUME LookupInv, NEW s \in Scans, NEW call, Call(s, call)
    PROVE  /\ StepsLeft(lk'[s]) < StepsLeft(lk[s])
           /\ \A r \in Scans \ {s} : lk'[r] = lk[r]
<1>1. lk[s].at = "idle" /\ lk'[s] = Begin(call) /\ \A r \in Scans \ {s} : lk'[r] = lk[r]
  BY DEF Call, LookupInv
<1>2. \/ Begin(call).at = "waiting" /\ Begin(call).sent = 1
      \/ Begin(call).at = "done"
  BY DEF Begin, Idle
<1> QED
  BY <1>1, <1>2, RequestAssumption DEF StepsLeft

LEMMA CallsShortenSteps ==
    LookupInv /\ [LookupNext]_lk =>
        [\E s \in Scans :
            /\ StepsLeft(lk[s]) \in Nat
            /\ StepsLeft(lk'[s]) < StepsLeft(lk[s])
            /\ \A r \in Scans \ {s} : lk'[r] = lk[r]]_lk
<1> SUFFICES ASSUME LookupInv, NEW s \in Scans,
                    LookupStep(s) \/ \E call \in Calls : Call(s, call)
             PROVE  /\ StepsLeft(lk[s]) \in Nat
                    /\ StepsLeft(lk'[s]) < StepsLeft(lk[s])
                    /\ \A r \in Scans \ {s} : lk'[r] = lk[r]
  BY DEF LookupNext
<1>1. StepsLeft(lk[s]) \in Nat
  BY StepsAreNat DEF LookupInv
<1> QED
  BY <1>1, StepShortens, CallShortens

\* A call returns after MaxRequests + 3 steps at the most (client.go:103-159).
THEOREM CallsShortenCorrect == LookupSpec => CallsShorten
BY CallsShortenSteps, LookupInvariance, PTL DEF LookupSpec, CallsShorten

=============================================================================
