--------------------------- MODULE ReputationProofs ---------------------------
(***************************************************************************)
(* Whole scans of reputation(): what silence and what a row mean to the    *)
(* query, for every number of scans on a worker, every feed, every loss    *)
(* and every crash.                                                        *)
(***************************************************************************)
EXTENDS Reputation, LookupProofs, ContinuationProofs

----------------------------------------------------------------------------
\* The inductive invariant.  That silence means "unknown" is not inductive:
\* the rows a scan is given must be traced back to the call that decided them.

\* A scan that has rows, or is past its opening, has a reason for them.
Justified(s) ==
    \/ phase[s] \in {"new", "failed"} /\ plan[s] = << >>
    \/ ~Asked(s) /\ plan[s] = << >>
    \/ lk[s].at = "done" /\ lk[s].out # ErrorOut /\ plan[s] = lk[s].out.rows

\* A call under way or over is the one the scan was opened with, and such a
\* scan was worth asking about.
CallIsTheQuerys(s) ==
    lk[s].at # "idle" => lk[s].call = query[s].call /\ Asked(s)

ScanLink(s) == Justified(s) /\ CallIsTheQuerys(s)

RepInv ==
    /\ LookupInv
    /\ StreamInv
    /\ query \in [Scans -> Queries \union {NoQuery}]
    /\ \A s \in Scans : ScanLink(s)

----------------------------------------------------------------------------
LEMMA OutFacts ==
    ASSUME NEW k, CallOK(k), k.at = "done"
    PROVE  /\ IsRows(k.out.rows)
           /\ k.out.kind = "error" <=> k.out = ErrorOut
<1>1. Returns(k.call.value, k.answer, k.out)
  BY DEF CallOK
<1>2. \A row : IsRows(<<row>>)
  BY DEF IsRows
<1> QED
  BY <1>1, <1>2, NoRows DEF Returns, RowOut, NoneOut, ErrorOut

\* A step of a call keeps its arguments and leaves the other calls alone.
LEMMA LookupStepFrame ==
    ASSUME LookupInv, NEW s \in Scans, LookupStep(s)
    PROVE  /\ lk[s].at \in {"waiting", "reading"}
           /\ lk'[s].call = lk[s].call
           /\ \A t \in Scans : t # s => lk'[t] = lk[t]
<1>1. CallOK(lk[s])
  BY DEF LookupInv
<1> USE <1>1 DEF LookupInv, CallOK, Finish
<1>2. CASE TransportError(s)
  BY <1>2 DEF TransportError
<1>3. ASSUME NEW a \in Answers, Respond(s, a)
      PROVE  /\ lk[s].at \in {"waiting", "reading"}
             /\ lk'[s].call = lk[s].call
             /\ \A t \in Scans : t # s => lk'[t] = lk[t]
  BY <1>3 DEF Respond
<1>4. ASSUME NEW a \in Answers, Redirect(s, a)
      PROVE  /\ lk[s].at \in {"waiting", "reading"}
             /\ lk'[s].call = lk[s].call
             /\ \A t \in Scans : t # s => lk'[t] = lk[t]
  BY <1>4 DEF Redirect
<1>5. CASE ReadBody(s)
  BY <1>5 DEF ReadBody
<1>6. CASE BodyError(s)
  BY <1>6 DEF BodyError
<1>7. CASE Expire(s)
  BY <1>7 DEF Expire, InFlight
<1> QED
  BY <1>2, <1>3, <1>4, <1>5, <1>6, <1>7 DEF LookupStep

\* A scan none of whose state changes keeps its link.
LEMMA LinkUntouched ==
    ASSUME NEW s, ScanLink(s), query'[s] = query[s], lk'[s] = lk[s],
           plan'[s] = plan[s], phase'[s] = phase[s]
    PROVE  ScanLink(s)'
BY DEF ScanLink, Justified, CallIsTheQuerys, Asked

\* So does one whose phase moves among those past the opening, or to failure.
LEMMA LinkPhase ==
    ASSUME NEW s, ScanLink(s), query'[s] = query[s], lk'[s] = lk[s],
           plan'[s] = plan[s],
           phase'[s] = phase[s] \/ phase'[s] = "failed"
             \/ phase[s] = "open"
    PROVE  ScanLink(s)'
BY DEF ScanLink, Justified, CallIsTheQuerys, Asked

LEMMA RepInitially == RepInit => RepInv
<1> SUFFICES ASSUME RepInit PROVE RepInv
  OBVIOUS
<1>1. LookupInv /\ StreamInv
  BY LookupInitially, StreamInitially DEF RepInit
<1>2. ASSUME NEW s \in Scans PROVE ScanLink(s)
  BY DEF RepInit, LookupInit, StreamInit, Idle, ScanLink, Justified, CallIsTheQuerys
<1> QED
  BY <1>1, <1>2 DEF RepInit, RepInv

----------------------------------------------------------------------------
\* The invariant is inductive: one lemma per action of RepNext.

LEMMA StartingFacts ==
    ASSUME RepInv, NEW s \in Scans, NEW q \in Queries, Starting(s, q)
    PROVE  /\ phase[s] = "new" /\ lk[s].at = "idle"
           /\ plan[s] = << >>
           /\ query' \in [Scans -> Queries \union {NoQuery}]
           /\ query'[s] = q /\ \A t \in Scans : t # s => query'[t] = query[t]
<1>1. phase[s] = "new" /\ query[s] = NoQuery /\ query' = [query EXCEPT ![s] = q]
  BY DEF Starting
<1>2. plan[s] = << >>
  BY <1>1 DEF RepInv, StreamInv, ScanInv, ScanOK
<1>3. ~Asked(s)
  BY <1>1 DEF Asked, NoQuery
<1>4. lk[s].at = "idle"
  BY <1>3 DEF RepInv, ScanLink, CallIsTheQuerys
<1> QED
  BY <1>1, <1>2, <1>4 DEF RepInv

LEMMA RefuseKeeps ==
    ASSUME RepInv, NEW s \in Scans, NEW q \in Queries, RefuseArguments(s, q)
    PROVE  RepInv'
<1>1. /\ phase' = [phase EXCEPT ![s] = "failed"] /\ lk' = lk /\ plan' = plan
      /\ held' = held /\ wire' = wire /\ got' = got /\ via' = via
      /\ losses' = losses /\ crashes' = crashes
      /\ Starting(s, q)
  BY DEF RefuseArguments, Starting, faults
<1>2. /\ phase[s] = "new" /\ lk[s].at = "idle" /\ plan[s] = << >>
      /\ query' \in [Scans -> Queries \union {NoQuery}]
      /\ \A t \in Scans : t # s => query'[t] = query[t]
  BY <1>1, StartingFacts
<1>3. phase'[s] = "failed" /\ \A t \in Scans : t # s => phase'[t] = phase[t]
  BY <1>1 DEF RepInv, StreamInv
<1>4. StreamInv'
  <2>1. ASSUME NEW t \in Scans, t # s PROVE ScanInv(t)'
    BY <1>1, <1>3, <2>1, Untouched DEF RepInv, StreamInv
  <2>2. ScanInv(s)'
    <3>1. ScanOK(via[s], "new", plan[s], held[s], wire[s], got[s])
      BY <1>2 DEF RepInv, StreamInv, ScanInv
    <3>2. ScanOK(via[s], "failed", plan[s], held[s], Quiet, got[s])
      BY <3>1, StepDrop
    <3>3. wire[s] = Quiet
      BY <3>1 DEF ScanOK
    <3> QED
      BY <1>1, <1>3, <3>2, <3>3 DEF ScanInv
  <2> QED
    BY <1>1, <2>1, <2>2 DEF RepInv, StreamInv
<1>5. ASSUME NEW t \in Scans PROVE ScanLink(t)'
  <2>1. CASE t = s
    BY <1>1, <1>2, <1>3, <2>1 DEF ScanLink, Justified, CallIsTheQuerys
  <2>2. CASE t # s
    BY <1>1, <1>2, <1>3, <2>2, LinkUntouched DEF RepInv
  <2> QED
    BY <2>1, <2>2
<1>6. LookupInv'
  BY <1>1 DEF RepInv, LookupInv
<1> QED
  BY <1>2, <1>4, <1>5, <1>6 DEF RepInv

LEMMA SkipKeeps ==
    ASSUME RepInv, NEW s \in Scans, NEW q \in Queries, Skip(s, q)
    PROVE  RepInv'
<1>1. Starting(s, q) /\ Open(s, << >>) /\ lk' = lk /\ (q.null \/ Triaged(q.call.value))
  BY DEF Skip
<1>2. /\ phase[s] = "new" /\ lk[s].at = "idle" /\ plan[s] = << >>
      /\ query' \in [Scans -> Queries \union {NoQuery}]
      /\ query'[s] = q /\ \A t \in Scans : t # s => query'[t] = query[t]
  BY <1>1, StartingFacts
<1>3. /\ phase' = [phase EXCEPT ![s] = "open"] /\ plan' = [plan EXCEPT ![s] = << >>]
      /\ UNCHANGED <<via, faults>>
  BY <1>1 DEF Open, Starting
<1>4. StreamInv'
  BY <1>1, <1>3, NoRows, OpenKeeps DEF RepInv
<1>5. ASSUME NEW t \in Scans PROVE ScanLink(t)'
  <2>1. CASE t = s
    <3>1. ~Asked(s)' /\ plan'[s] = << >>
      BY <1>1, <1>2, <1>3 DEF Asked, RepInv, StreamInv
    <3> QED
      BY <1>1, <1>2, <2>1, <3>1 DEF ScanLink, Justified, CallIsTheQuerys
  <2>2. CASE t # s
    BY <1>1, <1>2, <1>3, <2>2, LinkUntouched DEF RepInv, StreamInv
  <2> QED
    BY <2>1, <2>2
<1>6. LookupInv'
  BY <1>1 DEF RepInv, LookupInv
<1> QED
  BY <1>2, <1>4, <1>5, <1>6 DEF RepInv

LEMMA ConsultKeeps ==
    ASSUME RepInv, NEW s \in Scans, NEW q \in Queries, Consult(s, q)
    PROVE  RepInv'
<1>1. /\ Starting(s, q) /\ Call(s, q.call) /\ ~q.null /\ ~Triaged(q.call.value)
      /\ UNCHANGED stream /\ UNCHANGED <<via, faults>>
  BY DEF Consult, Starting
<1>2. /\ phase[s] = "new" /\ lk[s].at = "idle" /\ plan[s] = << >>
      /\ query' \in [Scans -> Queries \union {NoQuery}]
      /\ query'[s] = q /\ \A t \in Scans : t # s => query'[t] = query[t]
  BY <1>1, StartingFacts
<1>3. LookupInv'
  BY <1>1, QueryAssumption, CallKeeps DEF RepInv
<1>4. StreamInv'
  <2>1. ASSUME NEW t \in Scans PROVE ScanInv(t)'
    BY <1>1, Untouched DEF RepInv, StreamInv, stream
  <2> QED
    BY <1>1, <2>1 DEF RepInv, StreamInv, stream, faults
<1>5. /\ lk'[s] = Begin(q.call) /\ \A t \in Scans : t # s => lk'[t] = lk[t]
  BY <1>1 DEF Call, RepInv, LookupInv
<1>6. ASSUME NEW t \in Scans PROVE ScanLink(t)'
  <2>1. CASE t = s
    <3>1. Begin(q.call).call = q.call
      BY DEF Begin, Idle
    <3>2. Asked(s)'
      BY <1>1, <1>2 DEF Asked
    <3> QED
      BY <1>1, <1>2, <1>5, <2>1, <3>1, <3>2
         DEF ScanLink, Justified, CallIsTheQuerys, stream
  <2>2. CASE t # s
    BY <1>1, <1>2, <1>5, <2>2, LinkUntouched DEF RepInv, stream
  <2> QED
    BY <2>1, <2>2
<1> QED
  BY <1>2, <1>3, <1>4, <1>6 DEF RepInv

LEMMA LookupStepKeeps ==
    ASSUME RepInv, NEW s \in Scans, LookupStep(s), UNCHANGED <<query, streamVars>>
    PROVE  RepInv'
<1>1. /\ lk[s].at \in {"waiting", "reading"} /\ lk'[s].call = lk[s].call
      /\ \A t \in Scans : t # s => lk'[t] = lk[t]
  BY LookupStepFrame DEF RepInv
<1>2. LookupInv'
  BY StepKeeps DEF RepInv
<1>3. query' = query /\ phase' = phase /\ plan' = plan
  BY DEF streamVars
<1>4. StreamInv'
  <2>1. ASSUME NEW t \in Scans PROVE ScanInv(t)'
    BY Untouched DEF RepInv, StreamInv, streamVars
  <2> QED
    BY <2>1 DEF RepInv, StreamInv, streamVars
<1>5. ASSUME NEW t \in Scans PROVE ScanLink(t)'
  <2>1. CASE t = s
    BY <1>1, <1>3, <2>1 DEF RepInv, ScanLink, Justified, CallIsTheQuerys, Asked
  <2>2. CASE t # s
    BY <1>1, <1>3, <2>2, LinkUntouched DEF RepInv
  <2> QED
    BY <2>1, <2>2
<1> QED
  BY <1>2, <1>3, <1>4, <1>5 DEF RepInv

LEMMA SettleKeeps ==
    ASSUME RepInv, NEW s \in Scans, Settle(s)
    PROVE  RepInv'
<1>1. /\ phase[s] = "new" /\ lk[s].at = "done"
      /\ query' = query /\ lk' = lk /\ UNCHANGED <<via, faults>>
  BY DEF Settle
<1>2. IsRows(lk[s].out.rows) /\ (lk[s].out.kind = "error" <=> lk[s].out = ErrorOut)
  BY <1>1, OutFacts DEF RepInv, LookupInv
<1>3. LookupInv'
  BY <1>1 DEF RepInv, LookupInv
<1>4. CASE lk[s].out.kind = "error"
  <2>1. /\ phase' = [phase EXCEPT ![s] = "failed"] /\ plan' = plan
        /\ held' = held /\ wire' = wire /\ got' = got
    BY <1>4 DEF Settle
  <2>2. phase'[s] = "failed" /\ \A t \in Scans : t # s => phase'[t] = phase[t]
    BY <2>1 DEF RepInv, StreamInv
  <2>3. ASSUME NEW t \in Scans PROVE ScanInv(t)'
    <3>1. CASE t = s
      <4>1. ScanOK(via[s], "new", plan[s], held[s], wire[s], got[s])
        BY <1>1 DEF RepInv, StreamInv, ScanInv
      <4>2. ScanOK(via[s], "failed", plan[s], held[s], Quiet, got[s]) /\ wire[s] = Quiet
        BY <4>1, StepDrop DEF ScanOK
      <4> QED
        BY <1>1, <2>1, <2>2, <3>1, <4>2 DEF ScanInv
    <3>2. CASE t # s
      BY <1>1, <2>1, <2>2, <3>2, Untouched DEF RepInv, StreamInv
    <3> QED
      BY <3>1, <3>2
  <2>4. StreamInv'
    BY <1>1, <2>1, <2>3 DEF RepInv, StreamInv, faults
  <2>5. ASSUME NEW t \in Scans PROVE ScanLink(t)'
    <3>1. phase'[t] = phase[t] \/ phase'[t] = "failed"
      BY <2>2
    <3> QED
      BY <1>1, <2>1, <3>1, LinkPhase DEF RepInv
  <2> QED
    BY <1>1, <1>3, <2>4, <2>5 DEF RepInv
<1>5. CASE lk[s].out.kind # "error"
  <2>1. Open(s, lk[s].out.rows)
    BY <1>5 DEF Settle
  <2>2. StreamInv'
    BY <1>1, <1>2, <2>1, OpenKeeps DEF RepInv
  <2>3. phase' = [phase EXCEPT ![s] = "open"] /\ plan' = [plan EXCEPT ![s] = lk[s].out.rows]
    BY <2>1 DEF Open
  <2>4. ASSUME NEW t \in Scans PROVE ScanLink(t)'
    <3>1. CASE t = s
      <4>1. plan'[s] = lk[s].out.rows /\ lk[s].out # ErrorOut
        BY <1>2, <1>5, <2>3 DEF RepInv, StreamInv
      <4> QED
        BY <1>1, <3>1, <4>1 DEF RepInv, ScanLink, Justified, CallIsTheQuerys, Asked
    <3>2. CASE t # s
      BY <1>1, <2>3, <3>2, LinkUntouched DEF RepInv, StreamInv
    <3> QED
      BY <3>1, <3>2
  <2> QED
    BY <1>1, <1>3, <2>2, <2>4 DEF RepInv
<1> QED
  BY <1>4, <1>5

\* What an exchange, a loss and a cancellation do to the phases.
LEMMA StreamStepKeeps ==
    ASSUME RepInv, NEW s \in Scans, StreamInv', query' = query, lk' = lk, plan' = plan,
           \A t \in Scans : t # s => phase'[t] = phase[t],
           phase'[s] = phase[s] \/ phase'[s] = "failed" \/ phase[s] = "open"
    PROVE  RepInv'
<1>1. ASSUME NEW t \in Scans PROVE ScanLink(t)'
  BY LinkPhase DEF RepInv
<1> QED
  BY <1>1 DEF RepInv, LookupInv

LEMMA ExchangeLinks ==
    ASSUME RepInv, NEW s \in Scans, Exchange(s), UNCHANGED <<query, lk>>
    PROVE  RepInv'
<1>1. StreamInv'
  BY ExchangeKeeps DEF RepInv
<1>2. /\ plan' = plan
      /\ \/ phase' = phase
         \/ wire[s].at = "back" /\ \E ph : phase' = [phase EXCEPT ![s] = ph]
  BY DEF Exchange, Ask, TickHttp, TickPipe, Receive
<1>3. wire[s].at = "back" => phase[s] = "open"
  BY DEF RepInv, StreamInv, ScanInv, ScanOK, Quiet
<1>4. \A t \in Scans : t # s => phase'[t] = phase[t]
  BY <1>2 DEF RepInv, StreamInv
<1> QED
  BY <1>1, <1>2, <1>3, <1>4, StreamStepKeeps

LEMMA LoseLinks ==
    ASSUME RepInv, NEW s \in Scans, Lose(s), UNCHANGED <<query, lk, via>>
    PROVE  RepInv'
<1>1. StreamInv'
  BY LoseKeeps DEF RepInv
<1>2. /\ plan' = plan /\ wire[s].at \in {"worker", "back"}
      /\ \E ph : phase' = [phase EXCEPT ![s] = ph]
  BY DEF Lose
<1>3. phase[s] = "open"
  BY <1>2 DEF RepInv, StreamInv, ScanInv, ScanOK, Quiet
<1>4. \A t \in Scans : t # s => phase'[t] = phase[t]
  BY <1>2 DEF RepInv, StreamInv
<1> QED
  BY <1>1, <1>2, <1>3, <1>4, StreamStepKeeps

LEMMA CancelLinks ==
    ASSUME RepInv, NEW s \in Scans, CancelScan(s)
    PROVE  RepInv'
<1>1. /\ Cancel(s) /\ query' = query /\ lk' = lk /\ UNCHANGED <<via, faults>>
      /\ plan' = plan /\ phase' = [phase EXCEPT ![s] = "failed"]
  BY DEF CancelScan, Cancel
<1>2. StreamInv'
  BY <1>1, CancelKeeps DEF RepInv
<1>3. phase'[s] = "failed" /\ \A t \in Scans : t # s => phase'[t] = phase[t]
  BY <1>1 DEF RepInv, StreamInv
<1> QED
  BY <1>1, <1>2, <1>3, StreamStepKeeps

LEMMA CrashLinks ==
    ASSUME RepInv, CrashWorker
    PROVE  RepInv'
<1> DEFINE Ends(s) == \/ via[s] = "pipe" /\ phase[s] = "open"
                      \/ query[s] # NoQuery /\ phase[s] = "new"
           Ended(s) == [lk[s] EXCEPT !.at = "done", !.out = ErrorOut]
<1>0. crashes < MaxCrashes /\ crashes' = crashes + 1 /\ losses' = losses
  BY DEF CrashWorker
<1>1. /\ phase' = [s \in Scans |-> IF Ends(s) THEN "failed" ELSE phase[s]]
      /\ wire' = [s \in Scans |-> Quiet]
      /\ lk' = [s \in Scans |-> IF InFlight(s) THEN Ended(s) ELSE lk[s]]
      /\ query' = query /\ plan' = plan /\ held' = held /\ got' = got /\ via' = via
  BY DEF CrashWorker
<1>2. ASSUME NEW s \in Scans
      PROVE  CallOK(lk'[s]) /\ (lk[s].at = "done" => lk'[s] = lk[s])
             /\ lk'[s].call = lk[s].call /\ (lk[s].at = "idle" => lk'[s].at = "idle")
  <2>1. CallOK(lk[s])
    BY DEF RepInv, LookupInv
  <2>2. CASE InFlight(s)
    <3>1. lk'[s] = Ended(s) /\ lk[s].at \in {"waiting", "reading"}
      BY <1>1, <2>2 DEF InFlight
    <3>2. CallOK(Ended(s))
      BY <2>1, <3>1, ErrorOK
    <3>3. Ended(s).call = lk[s].call
      BY <2>1 DEF CallOK
    <3> QED
      BY <3>1, <3>2, <3>3
  <2>3. CASE ~InFlight(s)
    BY <1>1, <2>1, <2>3
  <2> QED
    BY <2>2, <2>3
<1>3. LookupInv'
  BY <1>1, <1>2 DEF LookupInv
<1>4. ASSUME NEW s \in Scans PROVE ScanInv(s)'
  <2>1. /\ via[s] \in {"pipe", "http"}
        /\ ScanOK(via[s], phase[s], plan[s], held[s], wire[s], got[s])
    BY DEF RepInv, StreamInv, ScanInv
  <2>2. \/ phase'[s] = "failed"
        \/ phase'[s] = phase[s] /\ (via[s] = "http" \/ phase[s] # "open")
    BY <1>1, <2>1
  <2>3. ScanOK(via[s], phase'[s], plan[s], held[s], Quiet, got[s])
    BY <2>1, <2>2, StepDrop
  <2> QED
    BY <1>1, <2>3 DEF ScanInv
<1>5. StreamInv'
  <2>1. phase' \in [Scans -> {"new", "open", "done", "failed"}]
    BY <1>1 DEF RepInv, StreamInv
  <2>2. crashes' \in 0..MaxCrashes
    BY <1>0, BoundAssumption DEF RepInv, StreamInv
  <2> QED
    BY <1>0, <1>1, <1>4, <2>1, <2>2 DEF RepInv, StreamInv
<1>6. ASSUME NEW s \in Scans PROVE ScanLink(s)'
  <2>1. phase'[s] = "failed" \/ phase'[s] = phase[s]
    BY <1>1
  <2>2. ScanLink(s) /\ query'[s] = query[s] /\ plan'[s] = plan[s]
    BY <1>1 DEF RepInv
  <2> QED
    BY <1>2, <2>1, <2>2 DEF ScanLink, Justified, CallIsTheQuerys, Asked
<1> QED
  BY <1>1, <1>3, <1>5, <1>6 DEF RepInv

LEMMA RepInductive == RepInv /\ [RepNext]_repVars => RepInv'
<1> SUFFICES ASSUME RepInv, [RepNext]_repVars PROVE RepInv'
  OBVIOUS
<1>1. ASSUME NEW s \in Scans, NEW q \in Queries,
             RefuseArguments(s, q) \/ Skip(s, q) \/ Consult(s, q)
      PROVE  RepInv'
  BY <1>1, RefuseKeeps, SkipKeeps, ConsultKeeps
<1>2. ASSUME NEW s \in Scans, LookupStep(s), UNCHANGED <<query, streamVars>> PROVE RepInv'
  BY <1>2, LookupStepKeeps
<1>3. ASSUME NEW s \in Scans, Settle(s) PROVE RepInv'
  BY <1>3, SettleKeeps
<1>4. ASSUME NEW s \in Scans, Exchange(s), UNCHANGED <<query, lk>> PROVE RepInv'
  BY <1>4, ExchangeLinks
<1>5. ASSUME NEW s \in Scans, Lose(s), UNCHANGED <<query, lk, via>> PROVE RepInv'
  BY <1>5, LoseLinks
<1>6. ASSUME NEW s \in Scans, CancelScan(s) PROVE RepInv'
  BY <1>6, CancelLinks
<1>7. CASE CrashWorker
  BY <1>7, CrashLinks
<1>8. CASE UNCHANGED repVars
  <2>1. ASSUME NEW s \in Scans PROVE ScanInv(s)'
    BY <1>8, Untouched DEF RepInv, StreamInv, repVars, streamVars
  <2>2. ASSUME NEW s \in Scans PROVE ScanLink(s)'
    BY <1>8, LinkUntouched DEF RepInv, repVars, streamVars
  <2> QED
    BY <1>8, <2>1, <2>2 DEF RepInv, LookupInv, StreamInv, repVars, streamVars
<1> QED
  BY <1>1, <1>2, <1>3, <1>4, <1>5, <1>6, <1>7, <1>8 DEF RepNext

LEMMA RepInvariance == RepSpec => []RepInv
BY RepInitially, RepInductive, PTL DEF RepSpec

----------------------------------------------------------------------------
\* What follows from it.

\* The rows of a scan are those its call returned: none, or the verdict row.
LEMMA PlanFacts ==
    ASSUME RepInv, NEW s \in Scans
    PROVE  \/ plan[s] = << >>
           \/ /\ plan[s] = <<projectReputation(query[s].call.value, lk[s].answer.rep)>>
              /\ Asked(s) /\ lk[s].answer.json /\ lk[s].read /\ lk[s].answer \in Answers
              /\ query[s] \in Queries
<1>1. Justified(s) /\ CallIsTheQuerys(s) /\ CallOK(lk[s])
  BY DEF RepInv, ScanLink, LookupInv
<1>2. CASE plan[s] # << >>
  <2>1. /\ lk[s].at = "done" /\ lk[s].out # ErrorOut /\ plan[s] = lk[s].out.rows
        /\ lk[s].call = query[s].call /\ Asked(s)
    BY <1>1, <1>2 DEF Justified, CallIsTheQuerys
  <2>2. Returns(lk[s].call.value, lk[s].answer, lk[s].out) /\ lk[s].read
    BY <1>1, <2>1 DEF CallOK
  <2>3. /\ lk[s].out = RowOut(projectReputation(lk[s].call.value, lk[s].answer.rep))
        /\ lk[s].answer.json
    BY <1>2, <2>1, <2>2 DEF Returns, NoneOut
  <2>4. lk[s].answer \in Answers
    BY <1>1, <2>3 DEF CallOK, NoAnswer
  <2>5. query[s] \in Queries
    BY <2>1 DEF RepInv, Asked, NoQuery
  <2> QED
    BY <2>1, <2>2, <2>3, <2>4, <2>5 DEF RowOut
<1> QED
  BY <1>2

\* Scans, calls and streams are well-formed, and a scan has at most one row.
THEOREM RepTypeCorrect == RepSpec => []RepTypeOK
<1>1. RepInv => RepTypeOK
  <2> SUFFICES ASSUME RepInv PROVE RepTypeOK
    OBVIOUS
  <2>1. ASSUME NEW s \in Scans PROVE Len(plan[s]) <= 1
    <3>1. plan[s] = << >> \/ \E row : plan[s] = <<row>>
      BY PlanFacts, Zenon
    <3>2. ASSUME NEW row, plan[s] = <<row>> PROVE Len(plan[s]) <= 1
      BY <3>2
    <3>3. ASSUME plan[s] = << >> PROVE Len(plan[s]) <= 1
      BY <3>3
    <3> QED
      BY <3>1, <3>2, <3>3, Zenon
  <2> QED
    BY <2>1, LookupTyped, StreamTyped DEF RepInv, RepTypeOK
<1> QED
  BY <1>1, RepInvariance, PTL

\* A scan of a recognised public indicator that ends without rows and without
\* an error was answered 404 by the feed, to the end of the body; no failure anywhere between the feed
\* and the query is ever read as "no verdict" (functions.go:354-382).
THEOREM SilenceMeansUnknownCorrect == RepSpec => []SilenceMeansUnknown
<1>1. RepInv => SilenceMeansUnknown
  <2> SUFFICES ASSUME RepInv, NEW s \in Scans, phase[s] = "done", got[s] = << >>, Asked(s)
               PROVE  lk[s].answer.status = 404 /\ lk[s].read
    BY DEF SilenceMeansUnknown
  <2>1. Len(plan[s]) = 0
    BY NoRows DEF RepInv, StreamInv, ScanInv, ScanOK
  <2>2. Justified(s) /\ CallOK(lk[s])
    BY DEF RepInv, ScanLink, LookupInv
  <2>3. plan[s] = << >>
    BY <2>1, PlanFacts
  <2>4. lk[s].at = "done" /\ lk[s].out # ErrorOut /\ lk[s].out.rows = << >>
    BY <2>2, <2>3 DEF Justified
  <2>5. Returns(lk[s].call.value, lk[s].answer, lk[s].out) /\ lk[s].read
    BY <2>2, <2>4 DEF CallOK
  <2>6. \A row : RowOut(row).rows # << >>
    BY DEF RowOut
  <2> QED
    BY <2>4, <2>5, <2>6 DEF Returns
<1> QED
  BY <1>1, RepInvariance, PTL

\* A row a query has is the feed's answer to its own question, as gob and the
\* column builders leave it.
LEMMA RowIs ==
    ASSUME RepInv, NEW s \in Scans, NEW i \in 1..Len(got[s])
    PROVE  /\ got[s][i] = SqlRow(GobRow(projectReputation(query[s].call.value,
                                                         lk[s].answer.rep)))
           /\ Asked(s) /\ lk[s].answer.json /\ lk[s].read /\ lk[s].answer \in Answers
<1> DEFINE row == projectReputation(query[s].call.value, lk[s].answer.rep)
<1>1. /\ IsRows(plan[s]) /\ HasPrefix(plan[s], got[s])
  BY DEF RepInv, StreamInv, ScanInv, ScanOK
<1>2. plan[s] # << >>
  BY <1>1, NoRows DEF HasPrefix
<1>3. /\ plan[s] = <<row>>
      /\ Asked(s) /\ lk[s].answer.json /\ lk[s].read /\ lk[s].answer \in Answers
  BY <1>2, PlanFacts
<1>4. got[s][i] = SqlRow(GobRow(row))
  <2> HIDE DEF row
  <2>1. Sent(plan[s]) = <<SqlRow(GobRow(row))>>
    BY <1>3 DEF Sent, SqlRows, GobRows
  <2>2. Len(got[s]) \in 0..1 /\ got[s] = SubSeq(Sent(plan[s]), 1, Len(got[s]))
    BY <1>1, <1>3 DEF HasPrefix
  <2>3. i = 1 /\ Len(got[s]) = 1
    BY <2>2
  <2> QED
    BY <2>1, <2>2, <2>3
<1> QED
  BY <1>3, <1>4

\* Every row a query receives comes from a well-formed answer to its own
\* question: it names the indicator asked about, has a type whether or not the
\* feed gave one, and has the feed's verdict (client.go:163-181).
THEOREM RowsAreTheFeedsCorrect == RepSpec => []RowsAreTheFeeds
<1>1. RepInv => RowsAreTheFeeds
  <2> SUFFICES ASSUME RepInv, NEW s \in Scans, NEW i \in 1..Len(got[s])
               PROVE  /\ Asked(s) /\ lk[s].answer.json /\ lk[s].read
                      /\ got[s][i].indicator = query[s].call.value
                      /\ got[s][i].type # NoType
                      /\ got[s][i].malicious = lk[s].answer.rep.malicious
    BY DEF RowsAreTheFeeds
  <2> DEFINE row == projectReputation(query[s].call.value, lk[s].answer.rep)
  <2>3. Asked(s) /\ lk[s].answer.json /\ lk[s].read
    BY RowIs
  <2>4. got[s][i] = SqlRow(GobRow(row))
    BY RowIs
  <2>5. /\ SqlRow(GobRow(row)).indicator = row.indicator
        /\ SqlRow(GobRow(row)).type = row.type
        /\ SqlRow(GobRow(row)).malicious = row.malicious
    BY DEF SqlRow, GobRow, projectReputation, RepRow
  <2>6. /\ row.indicator = query[s].call.value
        /\ row.malicious = lk[s].answer.rep.malicious
        /\ row.type # NoType
    BY <2>3 DEF projectReputation, RepRow, Asked, Triaged
  <2> QED
    BY <2>3, <2>4, <2>5, <2>6
<1> QED
  BY <1>1, RepInvariance, PTL

----------------------------------------------------------------------------
\* Each scan is a Delivery of at most one verdict row.

VerdictRows ==
    {SqlRow(GobRow(projectReputation(q.call.value, a.rep))) : q \in Queries, a \in Answers}

\* Opening a scan on no rows, or on a verdict, is the abstract Decide.
LEMMA VerdictDecide ==
    ASSUME StreamInv, NEW s \in Scans, NEW rows, IsRows(rows), Open(s, rows),
           Sent(rows) \in Seq(VerdictRows)
    PROVE  Verdict!Decide(s)
<1>1. /\ phase[s] = "new" /\ phase' = [phase EXCEPT ![s] = "open"]
      /\ plan' = [plan EXCEPT ![s] = rows] /\ got' = got
  BY DEF Open
<1>2. plan'[s] = rows /\ \A t \in Scans : t # s => plan'[t] = plan[t]
  BY <1>1 DEF StreamInv
<1>3. Promised(s)' = Sent(rows) /\ \A t \in Scans : t # s => Promised(t)' = Promised(t)
  BY <1>2 DEF Promised, Sent
<1>4. [t \in Scans |-> Promised(t)]' = [[t \in Scans |-> Promised(t)] EXCEPT ![s] = Sent(rows)]
  BY <1>3
<1> QED
  BY <1>1, <1>3, <1>4 DEF Verdict!Decide, VerdictRows

LEMMA VerdictDeliver ==
    ASSUME StreamInv, NEW s \in Scans, Receive(s)
    PROVE  Verdict!Deliver(s) \/ Verdict!Complete(s)
BY DeliverStep DEF Verdict!Deliver, Verdict!Complete, Promise!Deliver, Promise!Complete

LEMMA VerdictFail ==
    ASSUME StreamInv, NEW F \in SUBSET {s \in Scans : phase[s] \in {"new", "open"}},
           phase' = [s \in Scans |-> IF s \in F THEN "failed" ELSE phase[s]],
           plan' = plan, got' = got
    PROVE  Verdict!Next
BY DEF Verdict!Next, Verdict!Fail, Promised

LEMMA VerdictStutter ==
    ASSUME phase' = phase, plan' = plan, got' = got
    PROVE  UNCHANGED Verdict!vars
BY DEF Verdict!vars, Promised

LEMMA SettledRows ==
    ASSUME RepInv, NEW s \in Scans, lk[s].at = "done", lk[s].out.kind # "error"
    PROVE  IsRows(lk[s].out.rows) /\ Sent(lk[s].out.rows) \in Seq(VerdictRows)
<1>1. CallOK(lk[s]) /\ CallIsTheQuerys(s)
  BY DEF RepInv, LookupInv, ScanLink
<1>2. IsRows(lk[s].out.rows) /\ lk[s].out # ErrorOut
  BY <1>1, OutFacts
<1>3. CASE lk[s].out = NoneOut
  <2>1. lk[s].out.rows = << >>
    BY <1>3 DEF NoneOut
  <2>2. << >> \in Seq(VerdictRows)
    OBVIOUS
  <2> QED
    BY <2>1, <2>2, NoRows, Zenon
<1>4. CASE lk[s].out = RowOut(projectReputation(lk[s].call.value, lk[s].answer.rep))
           /\ lk[s].answer.json
  <2>1. lk[s].call = query[s].call /\ query[s] \in Queries /\ lk[s].answer \in Answers
    BY <1>1, <1>4 DEF RepInv, CallIsTheQuerys, Asked, NoQuery, CallOK, NoAnswer
  <2> DEFINE row == projectReputation(query[s].call.value, lk[s].answer.rep)
  <2>2. SqlRow(GobRow(row)) \in VerdictRows
    BY <2>1 DEF VerdictRows
  <2>3. lk[s].out.rows = <<row>>
    BY <1>4, <2>1 DEF RowOut
  <2> HIDE DEF row
  <2>4. Sent(lk[s].out.rows) = <<SqlRow(GobRow(row))>>
    BY <2>3 DEF Sent, SqlRows, GobRows
  <2> QED
    BY <1>2, <2>2, <2>4
<1> QED
  BY <1>1, <1>2, <1>3, <1>4 DEF CallOK, Returns

\* The whole scan implements Delivery: it settles on none or one verdict row,
\* and hands it over once or fails, whatever the feed, the transport, the
\* worker and whoever cancels do (NewState and Process of functions.go).
THEOREM ScanDeliversCorrect == RepSpec => ScanDelivers
<1>1. RepInv /\ [RepNext]_repVars => [Verdict!Next]_(Verdict!vars)
  <2> SUFFICES ASSUME RepInv, [RepNext]_repVars
               PROVE  Verdict!Next \/ UNCHANGED Verdict!vars
    OBVIOUS
  <2>0. StreamInv
    BY DEF RepInv
  <2>1. ASSUME NEW s \in Scans, plan' = plan, got' = got,
               phase[s] \in {"new", "open"}, phase' = [phase EXCEPT ![s] = "failed"]
        PROVE  Verdict!Next
    <3>1. phase' = [t \in Scans |-> IF t \in {s} THEN "failed" ELSE phase[t]]
      BY <2>0, <2>1 DEF StreamInv
    <3> QED
      BY <3>1, <2>0, <2>1, VerdictFail
  <2>2. ASSUME NEW s \in Scans, NEW q \in Queries, RefuseArguments(s, q)
        PROVE  Verdict!Next
    BY <2>1, <2>2 DEF RefuseArguments, Starting
  <2>3. ASSUME NEW s \in Scans, NEW q \in Queries, Skip(s, q)
        PROVE  Verdict!Next
    <3>1. Open(s, << >>)
      BY <2>3 DEF Skip
    <3>2. Sent(<< >>) \in Seq(VerdictRows)
      <4>1. << >> \in Seq(VerdictRows)
        OBVIOUS
      <4> QED
        BY <4>1, NoRows, Zenon
    <3> QED
      BY <2>0, <3>1, <3>2, NoRows, VerdictDecide DEF Verdict!Next
  <2>4. ASSUME NEW s \in Scans, NEW q \in Queries, Consult(s, q)
        PROVE  UNCHANGED Verdict!vars
    BY <2>4, VerdictStutter DEF Consult, stream
  <2>5. ASSUME UNCHANGED streamVars PROVE UNCHANGED Verdict!vars
    BY <2>5, VerdictStutter DEF streamVars
  <2>6. ASSUME NEW s \in Scans, Settle(s)
        PROVE  Verdict!Next
    <3>1. CASE lk[s].out.kind = "error"
      BY <2>1, <2>6, <3>1 DEF Settle
    <3>2. CASE lk[s].out.kind # "error"
      BY <2>0, <2>6, <3>2, SettledRows, VerdictDecide DEF Settle, Verdict!Next
    <3> QED
      BY <3>1, <3>2
  <2>7. ASSUME NEW s \in Scans, Exchange(s)
        PROVE  Verdict!Next \/ UNCHANGED Verdict!vars
    <3>1. CASE Ask(s) \/ TickHttp(s) \/ TickPipe(s)
      BY <3>1, VerdictStutter DEF Ask, TickHttp, TickPipe
    <3>2. CASE Receive(s)
      BY <2>0, <3>2, VerdictDeliver DEF Verdict!Next
    <3> QED
      BY <2>7, <3>1, <3>2 DEF Exchange
  <2>8. ASSUME NEW s \in Scans, Lose(s)
        PROVE  Verdict!Next \/ UNCHANGED Verdict!vars
    <3>1. /\ wire[s].at \in {"worker", "back"} /\ plan' = plan /\ got' = got
          /\ \/ phase' = [phase EXCEPT ![s] = "open"]
             \/ phase' = [phase EXCEPT ![s] = "failed"]
      BY <2>8 DEF Lose
    <3>2. phase[s] = "open" /\ [phase EXCEPT ![s] = "open"] = phase
      BY <2>0, <3>1 DEF StreamInv, ScanInv, ScanOK, Quiet
    <3> QED
      BY <3>1, <3>2, VerdictStutter, <2>1
  <2>9. ASSUME NEW s \in Scans, CancelScan(s)
        PROVE  Verdict!Next
    BY <2>1, <2>9 DEF CancelScan, Cancel
  <2>10. CASE CrashWorker
    <3> DEFINE F == {s \in Scans : \/ via[s] = "pipe" /\ phase[s] = "open"
                                   \/ query[s] # NoQuery /\ phase[s] = "new"}
    <3>1. /\ phase' = [s \in Scans |-> IF s \in F THEN "failed" ELSE phase[s]]
          /\ plan' = plan /\ got' = got
      BY <2>10 DEF CrashWorker
    <3>2. F \in SUBSET {s \in Scans : phase[s] \in {"new", "open"}}
      OBVIOUS
    <3> QED
      BY <2>0, <3>1, <3>2, VerdictFail
  <2>11. CASE UNCHANGED repVars
    BY <2>11, <2>5 DEF repVars
  <2> QED
    BY <2>2, <2>3, <2>4, <2>5, <2>6, <2>7, <2>8, <2>9, <2>10, <2>11 DEF RepNext
<1>2. RepSpec => RepInit /\ [][RepNext]_repVars
  BY DEF RepSpec
<1>3. RepInit => Verdict!Init
  <2> SUFFICES ASSUME RepInit PROVE Verdict!Init
    OBVIOUS
  <2>1. \A s \in Scans : Promised(s) = << >>
    BY NoRows DEF RepInit, StreamInit, Promised, Sent
  <2> QED
    BY <2>1 DEF RepInit, StreamInit, Verdict!Init
<1> QED
  BY <1>1, <1>2, <1>3, RepInvariance, PTL DEF ScanDelivers, Verdict!Spec

----------------------------------------------------------------------------
\* What a row and a lookup are about, exactly.

\* The lookups of the worker are those of queries that are worth one, each with
\* its own query's arguments: no lookup is made about a NULL, an unrecognised
\* string or a private address (functions.go:357-370).
OnlyTheAskedIsLookedUp ==
    \A s \in Scans :
        lk[s].at # "idle" =>
            /\ query[s] \in Queries /\ lk[s].call = query[s].call
            /\ ~query[s].null
            /\ IndicatorType(lk[s].call.value) # NoType
            /\ ~IsPrivateIP(lk[s].call.value)

\* The triage of NewState decides what the feed is asked.
THEOREM OnlyTheAskedCorrect == RepSpec => []OnlyTheAskedIsLookedUp
<1>1. RepInv => OnlyTheAskedIsLookedUp
  <2> SUFFICES ASSUME RepInv, NEW s \in Scans, lk[s].at # "idle"
               PROVE  /\ query[s] \in Queries /\ lk[s].call = query[s].call
                      /\ ~query[s].null
                      /\ IndicatorType(lk[s].call.value) # NoType
                      /\ ~IsPrivateIP(lk[s].call.value)
    BY DEF OnlyTheAskedIsLookedUp
  <2>1. lk[s].call = query[s].call /\ Asked(s)
    BY DEF RepInv, ScanLink, CallIsTheQuerys
  <2>2. query[s] \in Queries
    BY <2>1 DEF RepInv, Asked, NoQuery
  <2> QED
    BY <2>1, <2>2 DEF Asked, Triaged
<1> QED
  BY <1>1, RepInvariance, PTL

\* Of what the feed says in a verdict one thing is lost on the way to SQL, and
\* only that: a score of zero comes out as if none had been given.  The type is
\* the feed's when it gives one, a list of categories, given or not, is a list
\* (client.go:163-181, functions.go:405-430, and gob between them).
VerdictsSurvive ==
    \A s \in Scans : \A i \in 1..Len(got[s]) :
        LET rep == lk[s].answer.rep IN
        /\ rep.type # NoType => got[s][i].type = rep.type
        /\ rep.type = NoType => got[s][i].type = IndicatorType(query[s].call.value)
        /\ got[s][i].score = "NULL" <=> rep.score \in {"nil", "zero"}
        /\ got[s][i].score # "NULL" => got[s][i].score = rep.score
        /\ got[s][i].categories = "some" <=> rep.categories = "some"
        /\ rep.categories # "some" => got[s][i].categories = "empty"

\* What projectReputation, gob and the column builders make of each field.
LEMMA RowFields ==
    ASSUME NEW indicator, NEW rep, rep.score \in Scores, rep.categories \in Categories
    PROVE  LET row == SqlRow(GobRow(projectReputation(indicator, rep))) IN
           /\ rep.type # NoType => row.type = rep.type
           /\ rep.type = NoType => row.type = IndicatorType(indicator)
           /\ row.score = "NULL" <=> rep.score \in {"nil", "zero"}
           /\ row.score # "NULL" => row.score = rep.score
           /\ row.categories = "some" <=> rep.categories = "some"
           /\ rep.categories # "some" => row.categories = "empty"
BY DEF SqlRow, GobRow, projectReputation, RepRow, GobScore, GobCategories,
       buildNullableScore, buildStringListArray, Scores, Categories

\* Scores of zero apart, the query gets the feed's verdict as it was given.
THEOREM VerdictsSurviveCorrect == RepSpec => []VerdictsSurvive
<1>1. RepInv => VerdictsSurvive
  <2> SUFFICES ASSUME RepInv, NEW s \in Scans, NEW i \in 1..Len(got[s])
               PROVE  LET rep == lk[s].answer.rep IN
                      /\ rep.type # NoType => got[s][i].type = rep.type
                      /\ rep.type = NoType => got[s][i].type = IndicatorType(query[s].call.value)
                      /\ got[s][i].score = "NULL" <=> rep.score \in {"nil", "zero"}
                      /\ got[s][i].score # "NULL" => got[s][i].score = rep.score
                      /\ got[s][i].categories = "some" <=> rep.categories = "some"
                      /\ rep.categories # "some" => got[s][i].categories = "empty"
    BY DEF VerdictsSurvive
  <2>1. /\ got[s][i] = SqlRow(GobRow(projectReputation(query[s].call.value, lk[s].answer.rep)))
        /\ lk[s].answer \in Answers
    BY RowIs
  <2>2. /\ lk[s].answer.rep.score \in Scores
        /\ lk[s].answer.rep.categories \in Categories
    BY <2>1, AnswerAssumption
  <2> QED
    BY <2>1, <2>2, RowFields
<1> QED
  BY <1>1, RepInvariance, PTL

----------------------------------------------------------------------------
\* How a scan ends is final.

\* Only the scans in progress move, and an outcome's call is over.
THEOREM OutcomesAreFinalCorrect == RepSpec => OutcomesAreFinal
<1>1. RepInv /\ RepInv' /\ [RepNext]_repVars
      => [\A s \in Scans :
            /\ phase[s] \in {"done", "failed"} =>
                  /\ UNCHANGED <<phase[s], got[s], plan[s], query[s]>>
                  /\ wire'[s] = Quiet
            /\ phase[s] = "done" => lk'[s] = lk[s]]_repVars
  <2> SUFFICES ASSUME RepInv, RepInv', RepNext, NEW s \in Scans,
                      phase[s] \in {"done", "failed"}
               PROVE  /\ UNCHANGED <<phase[s], got[s], plan[s], query[s]>>
                      /\ wire'[s] = Quiet
                      /\ phase[s] = "done" => lk'[s] = lk[s]
    OBVIOUS
  <2> DEFINE Stays == /\ UNCHANGED <<phase[s], got[s], plan[s], query[s]>>
                      /\ phase[s] = "done" => lk'[s] = lk[s]
  <2>0. StreamInv /\ LookupInv /\ DOMAIN lk = Scans
    BY DEF RepInv, LookupInv
  <2>1. phase[s] = "done" => lk[s].at \in {"idle", "done"}
    BY DEF RepInv, ScanLink, Justified, CallIsTheQuerys
  <2>2. ASSUME NEW r \in Scans, NEW q \in Queries,
               RefuseArguments(r, q) \/ Skip(r, q) \/ Consult(r, q)
        PROVE  Stays
    <3>1. r # s
      BY <2>2 DEF RefuseArguments, Skip, Consult, Starting
    <3> QED
      BY <2>0, <2>2, <3>1
         DEF RefuseArguments, Skip, Consult, Starting, Open, Call, stream, RepInv, StreamInv
  <2>3. ASSUME NEW r \in Scans, LookupStep(r), UNCHANGED <<query, streamVars>>
        PROVE  Stays
    <3>1. lk[r].at \in {"waiting", "reading"} /\ \A t \in Scans : t # r => lk'[t] = lk[t]
      BY <2>0, <2>3, LookupStepFrame
    <3> QED
      BY <2>1, <2>3, <3>1 DEF streamVars
  <2>4. ASSUME NEW r \in Scans, Settle(r)
        PROVE  Stays
    <3>1. r # s
      BY <2>4 DEF Settle
    <3> QED
      BY <2>0, <2>4, <3>1 DEF Settle, Open, StreamInv
  <2>5. ASSUME NEW r \in Scans, Exchange(r), UNCHANGED <<query, lk>>
        PROVE  Stays
    <3>1. phase[r] = "open" /\ plan' = plan /\ \A t \in Scans \ {r} : ScanUnmoved(t)
      BY <2>0, <2>5, ExchangeShortens
    <3> QED
      BY <2>5, <3>1 DEF ScanUnmoved
  <2>6. ASSUME NEW r \in Scans, Lose(r), UNCHANGED <<query, lk, via>>
        PROVE  Stays
    <3>1. phase[r] = "open" /\ plan' = plan /\ \A t \in Scans \ {r} : ScanUnmoved(t)
      BY <2>0, <2>6, LoseShortens
    <3> QED
      BY <2>6, <3>1 DEF ScanUnmoved
  <2>7. ASSUME NEW r \in Scans, CancelScan(r)
        PROVE  Stays
    BY <2>0, <2>7 DEF CancelScan, Cancel, StreamInv
  <2>8. CASE CrashWorker
    BY <2>0, <2>1, <2>8 DEF CrashWorker, InFlight, StreamInv
  <2>9. Stays
    BY <2>2, <2>3, <2>4, <2>5, <2>6, <2>7, <2>8 DEF RepNext
  <2>10. wire'[s] = Quiet
    <3>1. phase'[s] # "open"
      BY <2>9
    <3> QED
      BY <3>1 DEF RepInv, StreamInv, ScanInv, ScanOK
  <2> QED
    BY <2>9, <2>10
<1>2. RepSpec => [][RepNext]_repVars
  BY DEF RepSpec
<1> QED
  BY <1>1, <1>2, RepInvariance, PTL DEF OutcomesAreFinal

----------------------------------------------------------------------------
\* A whole scan comes to an end, and its lookup with it.

\* How many steps scan s and its call may still take: its call's, its row's and
\* its end's, three for every fault, and one to settle.
WholeLeft(s) ==
    StepsLeft(lk[s]) + FaultsLeft
    + (CASE phase[s] = "new"  -> 7
         [] phase[s] = "open" -> Remaining(plan[s], wire[s], got[s])
         [] OTHER             -> 0)

WholeUnmoved(s) == query'[s] = query[s] /\ lk'[s] = lk[s] /\ ScanUnmoved(s)

\* Whatever the feed answers, whatever is lost, cancelled or restarted, a step
\* about a scan leaves it fewer to take: from the moment DuckDB opens it, a scan
\* and the lookup it may leave behind are over after MaxRequests + 10 steps,
\* and three more for each fault.
WholeScansShorten ==
    [][\A s \in Scans :
         /\ WholeLeft(s) \in Nat
         /\ WholeUnmoved(s) \/ WholeLeft(s)' < WholeLeft(s)]_repVars

\* A scan that opens on at most one row has at most six steps before it.
LEMMA OpenedRemaining ==
    ASSUME NEW rows, IsRows(rows), Len(rows) <= 1, NEW g, HasPrefix(rows, g)
    PROVE  Remaining(rows, Quiet, g) \in 1..6
<1>0. Len(rows) \in Nat
  BY GobRowsFacts
<1>1. Len(rows) \in 0..1
  BY <1>0
<1>2. Remaining(rows, Quiet, g) \in 1..(3 * (Len(rows) + 1))
  BY RemainingBounds
<1> QED
  BY <1>1, <1>2

\* Opening a scan leaves the others where they are.
LEMMA OpeningMoves ==
    ASSUME StreamInv, NEW r \in Scans, NEW rows, Open(r, rows)
    PROVE  /\ phase[r] = "new" /\ phase'[r] = "open" /\ plan'[r] = rows
           /\ wire' = wire /\ got' = got
           /\ \A t \in Scans \ {r} : ScanUnmoved(t)
BY DEF Open, ScanUnmoved, StreamInv

\* NewState and the producer loop together end, each scan within a bound.
THEOREM WholeScansShortenCorrect == RepSpec => WholeScansShorten
<1>1. RepInv /\ RepInv' /\ RepTypeOK' /\ [RepNext]_repVars
      => [\A s \in Scans :
            /\ WholeLeft(s) \in Nat
            /\ WholeUnmoved(s) \/ WholeLeft(s)' < WholeLeft(s)]_repVars
  <2> SUFFICES ASSUME RepInv, RepInv', RepTypeOK', RepNext, NEW s \in Scans
               PROVE  /\ WholeLeft(s) \in Nat
                      /\ WholeUnmoved(s) \/ WholeLeft(s)' < WholeLeft(s)
    OBVIOUS
  <2> DEFINE Good == WholeUnmoved(s) \/ WholeLeft(s)' < WholeLeft(s)
  <2>0. /\ StreamInv /\ LookupInv /\ DOMAIN lk = Scans /\ DOMAIN query = Scans
        /\ phase[s] \in {"new", "open", "done", "failed"}
        /\ CallOK(lk[s]) /\ CallOK(lk'[s])
    BY DEF RepInv, LookupInv, StreamInv
  <2>1. /\ FaultsLeft \in Nat /\ FaultsLeft' \in Nat
        /\ StepsLeft(lk[s]) \in Nat /\ StepsLeft(lk'[s]) \in Nat
        /\ Remaining(plan[s], wire[s], got[s]) \in Nat \ {0}
        /\ Remaining(plan'[s], wire'[s], got'[s]) \in Nat \ {0}
    <3>1. FaultsLeft' \in Nat
      BY BoundAssumption DEF RepInv, StreamInv, FaultsLeft
    <3>2. Remaining(plan'[s], wire'[s], got'[s]) \in 1..(3 * (Len(plan'[s]) + 1))
          /\ Len(plan'[s]) \in Nat
      BY RemainingBounds, GobRowsFacts DEF RepInv, StreamInv, ScanInv, ScanOK
    <3> QED
      BY <2>0, <3>1, <3>2, FaultsAreNat, RemainingIsPositive, StepsAreNat
  <2>2. WholeLeft(s) \in Nat
    BY <2>1 DEF WholeLeft
  <2>3. ASSUME query'[s] = query[s], lk'[s] = lk[s], ScanUnmoved(s) PROVE Good
    BY <2>3 DEF WholeUnmoved
  \* Opening on its rows brings a scan from seven steps to six or fewer.
  <2>4. ASSUME NEW r \in Scans, NEW rows, Open(r, rows), UNCHANGED <<lk, faults>>,
               \A t \in Scans \ {r} : query'[t] = query[t]
        PROVE  Good
    <3>1. CASE r # s
      BY <2>0, <2>3, <2>4, <3>1, OpeningMoves
    <3>2. CASE r = s
      <4>1. phase[s] = "new" /\ phase'[s] = "open" /\ wire' = wire /\ got' = got
        BY <2>0, <2>4, <3>2, OpeningMoves
      <4>2. wire'[s] = Quiet
        BY <2>0, <4>1 DEF StreamInv, ScanInv, ScanOK
      <4>3. IsRows(plan'[s]) /\ HasPrefix(plan'[s], got'[s]) /\ Len(plan'[s]) <= 1
        BY DEF RepInv, StreamInv, ScanInv, ScanOK, RepTypeOK
      <4>4. Remaining(plan'[s], wire'[s], got'[s]) \in 1..6
        BY <4>2, <4>3, OpenedRemaining
      <4>5. FaultsLeft' = FaultsLeft /\ StepsLeft(lk'[s]) = StepsLeft(lk[s])
        BY <2>4 DEF faults, FaultsLeft
      <4> QED
        BY <2>1, <4>1, <4>4, <4>5 DEF WholeLeft
    <3> QED
      BY <3>1, <3>2
  \* So does failing bring it to none.
  <2>5. ASSUME NEW r \in Scans, phase[r] \in {"new", "open"},
               phase' = [phase EXCEPT ![r] = "failed"],
               UNCHANGED <<lk, plan, held, got, faults>>,
               \A t \in Scans \ {r} : query'[t] = query[t] /\ wire'[t] = wire[t]
        PROVE  Good
    <3>1. CASE r # s
      BY <2>0, <2>3, <2>5, <3>1 DEF ScanUnmoved, StreamInv
    <3>2. CASE r = s
      <4>1. phase[s] \in {"new", "open"} /\ phase'[s] = "failed"
        BY <2>0, <2>5, <3>2 DEF StreamInv
      <4>2. FaultsLeft' = FaultsLeft /\ StepsLeft(lk'[s]) = StepsLeft(lk[s])
        BY <2>5 DEF faults, FaultsLeft
      <4> QED
        BY <2>1, <4>1, <4>2 DEF WholeLeft
    <3> QED
      BY <3>1, <3>2
  <2>6. ASSUME NEW r \in Scans, NEW q \in Queries, RefuseArguments(r, q)
        PROVE  Good
    BY <2>0, <2>5, <2>6 DEF RefuseArguments, Starting
  <2>7. ASSUME NEW r \in Scans, NEW q \in Queries, Skip(r, q)
        PROVE  Good
    BY <2>0, <2>4, <2>7 DEF Skip, Starting
  <2>8. ASSUME NEW r \in Scans, lk'[r] # lk[r], UNCHANGED streamVars,
               \A t \in Scans \ {r} : query'[t] = query[t] /\ lk'[t] = lk[t],
               StepsLeft(lk'[r]) < StepsLeft(lk[r])
        PROVE  Good
    <3>1. ScanUnmoved(s) /\ FaultsLeft' = FaultsLeft
      BY <2>8 DEF ScanUnmoved, streamVars, FaultsLeft
    <3>2. CASE r # s
      BY <2>3, <2>8, <3>1, <3>2
    <3>3. CASE r = s
      BY <2>0, <2>1, <2>8, <3>1, <3>3 DEF ScanUnmoved, WholeLeft
    <3> QED
      BY <3>2, <3>3
  <2>9. ASSUME NEW r \in Scans, NEW q \in Queries, Consult(r, q)
        PROVE  Good
    <3>1. /\ Call(r, q.call) /\ UNCHANGED streamVars
          /\ \A t \in Scans \ {r} : query'[t] = query[t]
      BY <2>0, <2>9 DEF Consult, Starting, stream, faults, streamVars
    <3>2. /\ StepsLeft(lk'[r]) < StepsLeft(lk[r])
          /\ \A t \in Scans \ {r} : lk'[t] = lk[t]
      BY <2>0, <3>1, CallShortens
    <3>3. StepsLeft(lk[r]) \in Nat
      BY StepsAreNat DEF RepInv, LookupInv
    <3>4. lk'[r] # lk[r]
      BY <3>2, <3>3
    <3> QED
      BY <2>8, <3>1, <3>2, <3>4
  <2>10. ASSUME NEW r \in Scans, LookupStep(r), UNCHANGED <<query, streamVars>>
         PROVE  Good
    <3>1. /\ StepsLeft(lk'[r]) < StepsLeft(lk[r])
          /\ \A t \in Scans \ {r} : lk'[t] = lk[t]
      BY <2>0, <2>10, StepShortens
    <3>2. StepsLeft(lk[r]) \in Nat
      BY StepsAreNat DEF RepInv, LookupInv
    <3>3. lk'[r] # lk[r]
      BY <3>1, <3>2
    <3> QED
      BY <2>8, <2>10, <3>1, <3>3
  <2>11. ASSUME NEW r \in Scans, Settle(r)
         PROVE  Good
    <3>1. CASE lk[r].out.kind = "error"
      BY <2>5, <2>11, <3>1 DEF Settle
    <3>2. CASE lk[r].out.kind # "error"
      BY <2>4, <2>11, <3>2 DEF Settle
    <3> QED
      BY <3>1, <3>2
  <2>12. ASSUME NEW r \in Scans, Exchange(r), UNCHANGED <<query, lk>>
         PROVE  Good
    <3>1. CASE r # s
      BY <2>0, <2>3, <2>12, <3>1, ExchangeShortens
    <3>2. CASE r = s
      <4>1. /\ phase[s] = "open" /\ plan'[s] = plan[s] /\ FaultsLeft' = FaultsLeft
            /\ \/ phase'[s] = "done"
               \/ /\ phase'[s] = "open"
                  /\ Remaining(plan[s], wire'[s], got'[s])
                       < Remaining(plan[s], wire[s], got[s])
        BY <2>0, <2>12, <3>2, ExchangeShortens
      <4> QED
        BY <2>1, <2>12, <4>1 DEF WholeLeft
    <3> QED
      BY <3>1, <3>2
  <2>13. ASSUME NEW r \in Scans, Lose(r), UNCHANGED <<query, lk, via>>
         PROVE  Good
    <3>1. CASE r # s
      BY <2>0, <2>3, <2>13, <3>1, LoseShortens
    <3>2. CASE r = s
      <4>1. /\ phase[s] = "open" /\ plan'[s] = plan[s] /\ FaultsLeft' = FaultsLeft - 3
            /\ phase'[s] \in {"open", "failed"}
            /\ Remaining(plan[s], wire'[s], got'[s])
                 <= Remaining(plan[s], wire[s], got[s]) + 2
        BY <2>0, <2>13, <3>2, LoseShortens
      <4> QED
        BY <2>1, <2>13, <4>1 DEF WholeLeft
    <3> QED
      BY <3>1, <3>2
  <2>14. ASSUME NEW r \in Scans, CancelScan(r)
         PROVE  Good
    BY <2>0, <2>5, <2>14 DEF CancelScan, Cancel, StreamInv
  <2>15. CASE CrashWorker
    <3>1. /\ crashes' = crashes + 1 /\ losses' = losses /\ plan' = plan /\ got' = got
          /\ wire' = [t \in Scans |-> Quiet]
          /\ phase'[s] = "failed" \/ phase'[s] = phase[s]
      BY <2>15 DEF CrashWorker
    <3>2. /\ FaultsLeft' = FaultsLeft - 3
          /\ Remaining(plan[s], wire'[s], got'[s]) <= Remaining(plan[s], wire[s], got[s]) + 2
      BY <2>0, <3>1, DeathShortens
    <3>3. StepsLeft(lk'[s]) <= StepsLeft(lk[s])
      <4>1. CASE InFlight(s)
        <5>1. lk'[s].at = "done"
          BY <2>0, <2>15, <4>1 DEF CrashWorker, CallOK
        <5>2. StepsLeft(lk'[s]) = 0
          BY <5>1 DEF StepsLeft
        <5> QED
          BY <2>1, <5>2
      <4>2. CASE ~InFlight(s)
        <5>1. lk'[s] = lk[s]
          BY <2>15, <4>2 DEF CrashWorker
        <5> QED
          BY <2>1, <5>1
      <4> QED
        BY <4>1, <4>2
    <3> QED
      BY <2>0, <2>1, <3>1, <3>2, <3>3 DEF WholeLeft
  <2>16. Good
    BY <2>6, <2>7, <2>9, <2>10, <2>11, <2>12, <2>13, <2>14, <2>15 DEF RepNext
  <2> QED
    BY <2>2, <2>16
<1>2. RepSpec => [][RepNext]_repVars
  BY DEF RepSpec
<1> QED
  BY <1>1, <1>2, RepInvariance, RepTypeCorrect, PTL DEF WholeScansShorten


=============================================================================
