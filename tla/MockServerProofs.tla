-------------------------- MODULE MockServerProofs --------------------------
(***************************************************************************)
(* What the integration tests may rely on of the mock feed, for any number *)
(* of lookups, whatever they ask and whenever the server is told to stop.  *)
(***************************************************************************)
EXTENDS MockServer, LookupProofs, IndicatorsProofs

----------------------------------------------------------------------------
\* Each canned record has the type the classifier gives its indicator, and
\* the verdict its name says (data.go:19-72).
LEMMA CannedRecords ==
    ASSUME NEW v \in Known
    PROVE  /\ byIndicator[v].type = IndicatorType(v)
           /\ byIndicator[v].malicious <=> v \in {TorExit, BadDomain, BadHash}
<1>1. IndicatorType(TorExit) = "ipv4"
  BY QuadType DEF TorExit
<1>2. IndicatorType(CleanIP) = "ipv4"
  BY QuadType DEF CleanIP
<1>3. IndicatorType(BadHash) = "sha256"
  BY HexType DEF BadHash
<1>4. IndicatorType(BadDomain) = "domain"
  BY HostType DEF BadDomain, HostLabel, AlphaLabel, Hyphenated, Word, Label
<1>5. IndicatorType(GoodDomain) = "domain"
  BY HostType DEF GoodDomain, HostLabel, AlphaLabel, Word, Label
<1>6. TorExit # CleanIP
  <2>1. TorExit.text.labels[1].num = 185 /\ CleanIP.text.labels[1].num = 93
    BY DEF TorExit, CleanIP, Value, Quad, Dotted, Digits
  <2> QED
    BY <2>1
<1>7. BadDomain # GoodDomain
  <2>1. BadDomain.text.labels[1].len = 10 /\ GoodDomain.text.labels[1].len = 4
    BY DEF BadDomain, GoodDomain, Value, Dotted, Hyphenated, Word, Label
  <2> QED
    BY <2>1
<1>8. /\ TorExit \notin {BadDomain, BadHash, CleanIP, GoodDomain}
      /\ BadDomain \notin {BadHash, CleanIP, GoodDomain}
      /\ BadHash \notin {CleanIP, GoodDomain}
      /\ CleanIP # GoodDomain
  BY <1>1, <1>2, <1>3, <1>4, <1>5, <1>6, <1>7
<1>9. byIndicator[v] = CASE v = TorExit    -> Record("ipv4", TRUE, "nonzero", "some")
                         [] v = BadDomain  -> Record("domain", TRUE, "nonzero", "some")
                         [] v = BadHash    -> Record("sha256", TRUE, "nonzero", "some")
                         [] v = CleanIP    -> Record("ipv4", FALSE, "nil", "empty")
                         [] v = GoodDomain -> Record("domain", FALSE, "nonzero", "empty")
  BY DEF byIndicator
<1>10. /\ v = TorExit => byIndicator[v] = Record("ipv4", TRUE, "nonzero", "some")
       /\ v = BadDomain => byIndicator[v] = Record("domain", TRUE, "nonzero", "some")
       /\ v = BadHash => byIndicator[v] = Record("sha256", TRUE, "nonzero", "some")
       /\ v = CleanIP => byIndicator[v] = Record("ipv4", FALSE, "nil", "empty")
       /\ v = GoodDomain => byIndicator[v] = Record("domain", FALSE, "nonzero", "empty")
  BY <1>8, <1>9
<1>11. v \in {TorExit, BadDomain, BadHash, CleanIP, GoodDomain}
  BY DEF Known
<1>12. CASE v = TorExit
  BY <1>1, <1>10, <1>12 DEF Record
<1>13. CASE v = BadDomain
  BY <1>4, <1>10, <1>13 DEF Record
<1>14. CASE v = BadHash
  BY <1>3, <1>10, <1>14 DEF Record
<1>15. CASE v = CleanIP
  BY <1>2, <1>8, <1>10, <1>15 DEF Record
<1>16. CASE v = GoodDomain
  BY <1>5, <1>8, <1>10, <1>16 DEF Record
<1> QED
  BY <1>11, <1>12, <1>13, <1>14, <1>15, <1>16

----------------------------------------------------------------------------
\* The inductive invariant.  What a lookup returned is not enough: it has to
\* be known what a lookup still reading has in hand, that it came from this
\* server, and that no lookup began before the port was printed.

\* The answer a lookup has is the one its question deserves.
Fed(k) ==
    /\ k.at = "reading" => k.answer = Handler(k.call)
    /\ k.at = "done" /\ k.out # ErrorOut => k.answer = Handler(k.call)

Opened == \A s \in Scans : lk[s].at # "idle" => srv \notin {"starting", "bound"}

ProcessOK ==
    /\ srv \in {"starting", "bound", "announced", "serving", "closing", "exited"}
    /\ armed \in BOOLEAN /\ signal \in BOOLEAN
    /\ conn \in [Scans -> {"none", "refused", "queued", "handling", "answered", "reset"}]

MockInv ==
    /\ LookupInv
    /\ \A s \in Scans : Fed(lk[s])
    /\ ProcessOK
    /\ Opened
    /\ AnnouncedMeansReachable

LEMMA OneFedChanges ==
    ASSUME LookupInv, \A s \in Scans : Fed(lk[s]),
           NEW s \in Scans, NEW k, Fed(k), lk' = [lk EXCEPT ![s] = k]
    PROVE  /\ \A r \in Scans : Fed(lk[r])'
           /\ \A r \in Scans : lk'[r].at # "idle" => lk[r].at # "idle" \/ r = s
<1>1. \A r \in Scans : lk'[r] = IF r = s THEN k ELSE lk[r]
  BY DEF LookupInv
<1>2. \A r \in Scans : Fed(lk'[r])
  BY <1>1
<1> QED
  BY <1>1, <1>2 DEF Fed

\* An error is no answer.
LEMMA ErrorFed ==
    ASSUME NEW k, CallOK(k), Fed(k), k.at # "idle"
    PROVE  Fed([k EXCEPT !.at = "done", !.out = ErrorOut])
BY DEF Fed, CallOK

LEMMA ReadFed ==
    ASSUME NEW k, CallOK(k), Fed(k), k.at = "reading", NEW out
    PROVE  Fed([k EXCEPT !.at = "done", !.read = TRUE, !.out = out])
BY DEF Fed, CallOK

LEMMA AnswerFed ==
    ASSUME NEW k, CallOK(k), Fed(k), k.at = "waiting"
    PROVE  Fed([k EXCEPT !.at = "reading", !.answer = Handler(k.call)])
BY DEF Fed, CallOK

LEMMA BeginFed ==
    ASSUME NEW call \in Calls
    PROVE  Fed(Begin(call))
BY DEF Fed, Begin, Idle

----------------------------------------------------------------------------
\* The invariant is inductive.

\* A lookup's error, answer and start, seen from the lookups alone: whichever
\* it is, no lookup but one that was under way, or the one begun, is active
\* after it.
LEMMA ErrorStep ==
    ASSUME MockInv, NEW s \in Scans, lk[s].at # "idle", Finish(s, ErrorOut)
    PROVE  /\ LookupInv' /\ \A r \in Scans : Fed(lk[r])'
           /\ \A r \in Scans : lk'[r].at # "idle" => lk[r].at # "idle"
<1> DEFINE k == [lk[s] EXCEPT !.at = "done", !.out = ErrorOut]
<1>1. CallOK(lk[s]) /\ Fed(lk[s])
  BY DEF MockInv, LookupInv
<1>2. Fed(k) /\ lk' = [lk EXCEPT ![s] = k]
  BY <1>1, ErrorFed DEF Finish
<1>3. LookupInv'
  BY ErrorKeeps DEF MockInv
<1> HIDE DEF k
<1> QED
  BY <1>2, <1>3, OneFedChanges DEF MockInv

LEMMA ReadStep ==
    ASSUME MockInv, NEW s \in Scans, ReadBody(s)
    PROVE  /\ LookupInv' /\ \A r \in Scans : Fed(lk[r])'
           /\ \A r \in Scans : lk'[r].at # "idle" => lk[r].at # "idle"
<1> DEFINE out == Dispatch(lk[s].call.value, lk[s].answer)
           k == [lk[s] EXCEPT !.at = "done", !.read = TRUE, !.out = out]
<1>1. CallOK(lk[s]) /\ Fed(lk[s]) /\ lk[s].at = "reading"
  BY DEF MockInv, LookupInv, ReadBody
<1>2. lk' = [lk EXCEPT ![s] = k]
  BY DEF ReadBody
<1>3. LookupInv'
  BY StepKeeps DEF LookupStep, MockInv
<1> HIDE DEF out
<1>4. Fed(k)
  BY <1>1, ReadFed
<1> HIDE DEF k
<1> QED
  BY <1>1, <1>2, <1>3, <1>4, OneFedChanges DEF MockInv

LEMMA AnswerStep ==
    ASSUME MockInv, NEW s \in Scans, Respond(s, Handler(lk[s].call))
    PROVE  /\ LookupInv' /\ \A r \in Scans : Fed(lk[r])'
           /\ \A r \in Scans : lk'[r].at # "idle" => lk[r].at # "idle"
<1> DEFINE k == [lk[s] EXCEPT !.at = "reading", !.answer = Handler(lk[s].call)]
<1>1. CallOK(lk[s]) /\ Fed(lk[s]) /\ lk[s].at = "waiting"
  BY DEF MockInv, LookupInv, Respond
<1>2. lk' = [lk EXCEPT ![s] = k]
  BY DEF Respond
<1>3. Handler(lk[s].call) \in Answers
  BY <1>1, FeedAssumption DEF CallOK
<1>4. LookupInv'
  BY <1>3, StepKeeps DEF LookupStep, MockInv
<1>5. Fed(k)
  BY <1>1, AnswerFed
<1> HIDE DEF k
<1> QED
  BY <1>1, <1>2, <1>4, <1>5, OneFedChanges DEF MockInv

LEMMA CallStep ==
    ASSUME MockInv, NEW s \in Scans, NEW call \in Calls, Call(s, call)
    PROVE  LookupInv' /\ \A r \in Scans : Fed(lk[r])'
<1>1. lk' = [lk EXCEPT ![s] = Begin(call)] /\ Fed(Begin(call))
  BY BeginFed DEF Call
<1>2. LookupInv'
  BY CallKeeps DEF MockInv
<1> QED
  BY <1>1, <1>2, OneFedChanges DEF MockInv

\* A step of the server that no lookup notices.
LEMMA ServerStep ==
    ASSUME MockInv, UNCHANGED lk, ProcessOK', AnnouncedMeansReachable',
           srv \notin {"starting", "bound"} => srv' \notin {"starting", "bound"}
    PROVE  MockInv'
BY DEF MockInv, LookupInv, Opened

\* A step of a lookup that moves at most its connection.
LEMMA ClientStep ==
    ASSUME MockInv, UNCHANGED process,
           LookupInv', \A r \in Scans : Fed(lk[r])',
           \A r \in Scans : lk'[r].at # "idle" => lk[r].at # "idle",
           ProcessOK', AnnouncedMeansReachable'
    PROVE  MockInv'
BY DEF MockInv, Opened, process

LEMMA MockInitially == MockInit => MockInv
<1> SUFFICES ASSUME MockInit PROVE MockInv
  OBVIOUS
<1>1. LookupInv
  BY LookupInitially DEF MockInit
<1>2. \A s \in Scans : Fed(lk[s]) /\ lk[s].at = "idle"
  BY DEF MockInit, LookupInit, Idle, Fed
<1>3. ProcessOK /\ AnnouncedMeansReachable
  BY DEF MockInit, ProcessOK, AnnouncedMeansReachable
<1> QED
  BY <1>1, <1>2, <1>3 DEF MockInv, Opened

LEMMA MockInductive == MockInv /\ [MockNext]_mockVars => MockInv'
<1> SUFFICES ASSUME MockInv, [MockNext]_mockVars PROVE MockInv'
  OBVIOUS
<1> USE DEF AnnouncedMeansReachable, ProcessOK
<1>0. ProcessOK /\ AnnouncedMeansReachable /\ Opened
  BY DEF MockInv
<1>1. CASE Listen
  BY <1>0, <1>1, ServerStep DEF Listen
<1>2. CASE Announce
  BY <1>0, <1>2, ServerStep DEF Announce
<1>3. CASE Arm
  BY <1>0, <1>3, ServerStep DEF Arm
<1>4. CASE Serve
  BY <1>0, <1>4, ServerStep DEF Serve
<1>5. CASE Signal
  BY <1>0, <1>5, ServerStep DEF Signal, Gone
<1>6. CASE Shutdown
  BY <1>0, <1>6, ServerStep DEF Shutdown
<1>7. CASE Exit
  BY <1>0, <1>7, ServerStep DEF Exit, Gone
<1>8. ASSUME NEW s \in Scans, Accept(s) PROVE MockInv'
  BY <1>0, <1>8, ServerStep DEF Accept, process
<1>9. ASSUME NEW s \in Scans, Answer(s) PROVE MockInv'
  <2>1. UNCHANGED process /\ ProcessOK' /\ AnnouncedMeansReachable'
    BY <1>0, <1>9 DEF Answer, process
  <2>2. CASE lk[s].at = "waiting"
    BY <1>9, <2>1, <2>2, AnswerStep, ClientStep DEF Answer
  <2>3. CASE lk[s].at # "waiting"
    BY <1>9, <2>1, <2>3, ServerStep DEF Answer, process
  <2> QED
    BY <2>2, <2>3
<1>10. ASSUME NEW s \in Scans, Connect(s) PROVE MockInv'
  <2>1. CASE srv \in {"announced", "serving"}
    BY <1>0, <1>10, <2>1, ServerStep DEF Connect, process
  <2>2. CASE srv \notin {"announced", "serving"}
    <3>1. UNCHANGED process /\ TransportError(s) /\ lk[s].at = "waiting"
          /\ conn' = [conn EXCEPT ![s] = "refused"]
      BY <1>10, <2>2 DEF Connect
    <3>2. srv \in {"closing", "exited"}
      BY <1>0, <2>2, <3>1 DEF Opened
    <3>3. ProcessOK' /\ AnnouncedMeansReachable'
      BY <1>0, <3>1, <3>2 DEF process
    <3> QED
      BY <3>1, <3>3, ErrorStep, ClientStep DEF TransportError
  <2> QED
    BY <2>1, <2>2
<1>11. ASSUME NEW s \in Scans, NoticeReset(s) PROVE MockInv'
  BY <1>0, <1>11, ErrorStep, ClientStep DEF NoticeReset, TransportError, process
<1>12. ASSUME NEW s \in Scans, ReadAnswer(s) PROVE MockInv'
  BY <1>0, <1>12, ReadStep, ClientStep DEF ReadAnswer, process
<1>13. ASSUME NEW s \in Scans, GiveUp(s) PROVE MockInv'
  BY <1>0, <1>13, ErrorStep, ClientStep DEF GiveUp, Expire, InFlight, process
<1>14. ASSUME NEW s \in Scans, NEW call \in Calls, StartLookup(s, call)
       PROVE  MockInv'
  <2>1. /\ srv \notin {"starting", "bound"} /\ Call(s, call)
        /\ UNCHANGED <<srv, armed, signal, conn>>
    BY <1>14 DEF StartLookup, process
  <2>2. LookupInv' /\ \A r \in Scans : Fed(lk[r])'
    BY <2>1, CallStep
  <2> QED
    BY <1>0, <2>1, <2>2 DEF MockInv, Opened
<1>15. CASE UNCHANGED mockVars
  BY <1>0, <1>15, ServerStep DEF mockVars
<1> QED
  BY <1>1, <1>2, <1>3, <1>4, <1>5, <1>6, <1>7, <1>8, <1>9, <1>10, <1>11,
     <1>12, <1>13, <1>14, <1>15 DEF MockNext

LEMMA MockInvariance == MockSpec => []MockInv
BY MockInitially, MockInductive, PTL DEF MockSpec

----------------------------------------------------------------------------
\* What a lookup that is done returned, in terms of what it asked.
LEMMA VerdictOf ==
    ASSUME NEW k, CallOK(k), Fed(k), k.at = "done"
    PROVE  \/ k.out = ErrorOut
           \/ /\ apiKey = NoKey \/ k.call.key = apiKey
              /\ k.call.value \notin Known
              /\ k.out = NoneOut
           \/ /\ apiKey = NoKey \/ k.call.key = apiKey
              /\ k.call.value \in Known
              /\ k.out = RowOut(projectReputation(k.call.value, byIndicator[k.call.value]))
<1> SUFFICES ASSUME k.out # ErrorOut
             PROVE  \/ /\ apiKey = NoKey \/ k.call.key = apiKey
                       /\ k.call.value \notin Known
                       /\ k.out = NoneOut
                    \/ /\ apiKey = NoKey \/ k.call.key = apiKey
                       /\ k.call.value \in Known
                       /\ k.out = RowOut(projectReputation(k.call.value, byIndicator[k.call.value]))
  OBVIOUS
<1>1. k.answer = Handler(k.call)
  BY DEF Fed
<1>2. \/ k.out = NoneOut /\ k.answer.status = 404
      \/ k.out = RowOut(projectReputation(k.call.value, k.answer.rep)) /\ k.answer.json
  BY DEF CallOK, Returns
<1>3. \A n \in {400, 401, 404} : Status(n).status = n /\ Status(n).json = FALSE
  BY DEF Status, NoAnswer
<1>4. apiKey = NoKey \/ k.call.key = apiKey
  BY <1>1, <1>2, <1>3 DEF Handler
<1>5. CASE k.call.value \notin Known
  BY <1>1, <1>2, <1>3, <1>4, <1>5 DEF Handler
<1>6. CASE k.call.value \in Known
  <2>1. k.answer \in {Status(400), [status |-> 200, located |-> FALSE, json |-> TRUE,
                                    rep |-> byIndicator[k.call.value]]}
    BY <1>1, <1>4, <1>6 DEF Handler
  <2> QED
    BY <1>2, <1>3, <1>4, <1>6, <2>1
<1> QED
  BY <1>5, <1>6

LEMMA VerdictsFollow == MockInv => MockVerdicts
<1> SUFFICES ASSUME MockInv, NEW s \in Scans, lk[s].at = "done", NEW k, k = lk[s]
             PROVE  /\ k.out.kind # "error" => apiKey \in {NoKey, k.call.key}
                    /\ k.out.kind = "none" => k.call.value \notin Known
                    /\ k.out.kind = "row" =>
                          /\ k.call.value \in Known
                          /\ k.out.rows[1].malicious
                                <=> k.call.value \in {TorExit, BadDomain, BadHash}
                          /\ k.out.rows[1].type = IndicatorType(k.call.value)
  BY DEF MockVerdicts
<1> DEFINE v == k.call.value
           row == projectReputation(v, byIndicator[v])
<1>1. CallOK(k) /\ Fed(k)
  BY DEF MockInv, LookupInv
<1>2. CASE k.out = ErrorOut
  BY <1>2 DEF ErrorOut
<1>3. CASE /\ apiKey = NoKey \/ k.call.key = apiKey
           /\ v \notin Known /\ k.out = NoneOut
  BY <1>3 DEF NoneOut
<1>4. CASE /\ apiKey = NoKey \/ k.call.key = apiKey
           /\ v \in Known /\ k.out = RowOut(row)
  <2>1. /\ byIndicator[v].type = IndicatorType(v)
        /\ byIndicator[v].malicious <=> v \in {TorExit, BadDomain, BadHash}
    BY <1>4, CannedRecords
  <2>2. row.type = IndicatorType(v) /\ row.malicious = byIndicator[v].malicious
    BY <2>1 DEF projectReputation, RepRow
  <2> HIDE DEF row
  <2>3. k.out.kind = "row" /\ k.out.rows[1] = row
    BY <1>4 DEF RowOut
  <2> QED
    BY <1>4, <2>1, <2>2, <2>3
<1> QED
  BY <1>1, <1>2, <1>3, <1>4, VerdictOf

\* The type invariant, for any number of lookups and any calls.
THEOREM MockTypeCorrect == MockSpec => []MockTypeOK
<1>1. MockInv => MockTypeOK
  BY LookupTyped DEF MockInv, ProcessOK, MockTypeOK
<1> QED
  BY <1>1, MockInvariance, PTL

\* A lookup that ends without an error had the right key, and has the canned
\* row of its indicator or none when there is no such record (server.go:23-47).
THEOREM MockVerdictsCorrect == MockSpec => []MockVerdicts
BY VerdictsFollow, MockInvariance, PTL

\* Whoever waits for the PORT line is refused or cut off only once the server
\* has been told to stop (cmd/mockserver/main.go:42-60).
THEOREM AnnouncedMeansReachableCorrect == MockSpec => []AnnouncedMeansReachable
<1>1. MockInv => AnnouncedMeansReachable
  BY DEF MockInv
<1> QED
  BY <1>1, MockInvariance, PTL

----------------------------------------------------------------------------
\* The mock is one of the feeds Lookup allows for.

\* Against the mock a lookup does nothing that Lookup does not let it do, so
\* that what holds of a call against any feed holds of the tests' calls: each
\* step of server or client is a step of one lookup, or none (client.go:103-159,
\* internal/mockrep/server.go:19-47).
THEOREM MockRefinesLookup == MockSpec => LookupInit /\ [][LookupNext]_lk
<1>1. MockInit => LookupInit
  BY DEF MockInit
<1>2. MockInv /\ [MockNext]_mockVars => [LookupNext]_lk
  <2> SUFFICES ASSUME MockInv, [MockNext]_mockVars, ~UNCHANGED lk
               PROVE  LookupNext
    OBVIOUS
  <2>1. PICK s \in Scans :
            \/ Answer(s) \/ Connect(s) \/ NoticeReset(s) \/ ReadAnswer(s) \/ GiveUp(s)
            \/ \E call \in Calls : StartLookup(s, call)
    BY DEF MockNext, mockVars, Listen, Announce, Arm, Serve, Signal, Shutdown, Exit, Accept
  <2>2. CASE Answer(s)
    <3>1. lk[s].at = "waiting" /\ Respond(s, Handler(lk[s].call))
      BY <2>2 DEF Answer
    <3>2. Handler(lk[s].call) \in Answers
      BY <3>1, FeedAssumption DEF MockInv, LookupInv, CallOK
    <3> QED
      BY <3>1, <3>2 DEF LookupNext, LookupStep
  <2>3. CASE Connect(s) \/ NoticeReset(s)
    BY <2>3 DEF Connect, NoticeReset, LookupNext, LookupStep
  <2>4. CASE ReadAnswer(s) \/ GiveUp(s)
    BY <2>4 DEF ReadAnswer, GiveUp, LookupNext, LookupStep
  <2>5. ASSUME NEW call \in Calls, StartLookup(s, call) PROVE LookupNext
    BY <2>5 DEF StartLookup, LookupNext
  <2> QED
    BY <2>1, <2>2, <2>3, <2>4, <2>5
<1> QED
  BY <1>1, <1>2, MockInvariance, PTL DEF MockSpec

\* A mock that answers a lookup ends it: no step of the server, of its shutdown
\* or of another lookup sets a lookup back.
THEOREM MockCallsShorten == MockSpec => CallsShorten
BY MockRefinesLookup, CallsShortenSteps, LookupInitially, LookupInductive, PTL DEF CallsShorten

----------------------------------------------------------------------------
\* The server and its lookups wind down.

\* How far the process is from its end, and a lookup and its connection from
\* theirs.
ServerLeft ==
    (CASE srv = "starting"  -> 5
       [] srv = "bound"     -> 4
       [] srv = "announced" -> 3
       [] srv = "serving"   -> 2
       [] srv = "closing"   -> 1
       [] OTHER             -> 0)
    + (IF armed THEN 0 ELSE 1) + (IF signal THEN 0 ELSE 1)
ConnLeft(c) ==
    CASE c = "none" -> 3 [] c = "queued" -> 2 [] c = "handling" -> 1 [] OTHER -> 0
LookupLeft(s) == StepsLeft(lk[s]) + ConnLeft(conn[s])

\* No step of the process, of a handler or of a client sets anyone back, and
\* each brings the process or a lookup nearer to its end: seven steps are all
\* the process has, and MaxRequests + 6 all a lookup has.  The order in which
\* the signal goroutine, Serve, Shutdown and the clients run cannot keep them
\* busy (cmd/mockserver/main.go:42-60).
MockWindsDown ==
    [][/\ ServerLeft \in Nat /\ \A s \in Scans : LookupLeft(s) \in Nat
       /\ ServerLeft' <= ServerLeft
       /\ \A s \in Scans : LookupLeft(s)' <= LookupLeft(s)
       /\ \/ ServerLeft' < ServerLeft
          \/ \E s \in Scans : LookupLeft(s)' < LookupLeft(s)]_mockVars

LEMMA ConnLeftIsNat == \A c : ConnLeft(c) \in 0..3
BY DEF ConnLeft

\* Cutting connections off brings their lookups nearer to the end.
LEMMA CutOffLeft ==
    ASSUME NEW c, NEW d, d = c \/ d \in {"reset", "refused", "answered"}
    PROVE  ConnLeft(d) <= ConnLeft(c)
<1>1. ConnLeft("reset") = 0 /\ ConnLeft("refused") = 0 /\ ConnLeft("answered") = 0
  BY DEF ConnLeft
<1>2. ConnLeft(c) \in 0..3
  BY ConnLeftIsNat
<1> QED
  BY <1>1, <1>2

\* A step of the lookup s.
LEMMA LookupMoves ==
    ASSUME MockInv, MockInv', NEW s \in Scans, UNCHANGED process,
           \/ lk' = lk
           \/ LookupStep(s)
           \/ \E call \in Calls : Call(s, call),
           \/ conn'[s] = conn[s] /\ lk' # lk
           \/ ConnLeft(conn'[s]) < ConnLeft(conn[s]),
           \A t \in Scans \ {s} : conn'[t] = conn[t]
    PROVE  /\ ServerLeft' = ServerLeft
           /\ \A t \in Scans : LookupLeft(t)' <= LookupLeft(t)
           /\ LookupLeft(s)' < LookupLeft(s)
<1>1. ServerLeft' = ServerLeft
  BY DEF ServerLeft, process
<1>2. \A t \in Scans : /\ StepsLeft(lk[t]) \in Nat /\ StepsLeft(lk'[t]) \in Nat
                       /\ ConnLeft(conn[t]) \in 0..3 /\ ConnLeft(conn'[t]) \in 0..3
  BY StepsAreNat, ConnLeftIsNat DEF MockInv, LookupInv
<1>3. \/ lk' = lk
      \/ /\ StepsLeft(lk'[s]) < StepsLeft(lk[s])
         /\ \A t \in Scans \ {s} : lk'[t] = lk[t]
  <2>1. CASE LookupStep(s)
    BY <2>1, StepShortens DEF MockInv
  <2>2. ASSUME NEW call \in Calls, Call(s, call)
        PROVE  /\ StepsLeft(lk'[s]) < StepsLeft(lk[s])
               /\ \A t \in Scans \ {s} : lk'[t] = lk[t]
    BY <2>2, CallShortens DEF MockInv
  <2> QED
    BY <2>1, <2>2
<1>4. ASSUME NEW t \in Scans \ {s} PROVE LookupLeft(t)' = LookupLeft(t)
  BY <1>3, <1>4 DEF LookupLeft
<1>5. LookupLeft(s)' < LookupLeft(s)
  <2>1. CASE lk' = lk
    BY <1>2, <2>1 DEF LookupLeft
  <2>2. CASE StepsLeft(lk'[s]) < StepsLeft(lk[s])
    BY <1>2, <2>2 DEF LookupLeft
  <2> QED
    BY <1>3, <2>1, <2>2
<1>6. \A t \in Scans : LookupLeft(t) \in Nat
  BY <1>2 DEF LookupLeft
<1>7. \A t \in Scans : LookupLeft(t)' <= LookupLeft(t)
  <2>1. ASSUME NEW t \in Scans PROVE LookupLeft(t)' <= LookupLeft(t)
    <3>1. /\ StepsLeft(lk[t]) \in Nat /\ StepsLeft(lk'[t]) \in Nat
          /\ ConnLeft(conn[t]) \in 0..3 /\ ConnLeft(conn'[t]) \in 0..3
      BY <1>2
    <3>2. CASE t = s
      BY <1>5, <3>1, <3>2 DEF LookupLeft
    <3>3. CASE t # s
      BY <1>4, <1>6, <3>3
    <3> QED
      BY <3>2, <3>3
  <2> QED
    BY <2>1
<1> QED
  BY <1>1, <1>5, <1>7

\* A step of the process, which cuts connections off or leaves them.
LEMMA ProcessMoves ==
    ASSUME MockInv, UNCHANGED lk, ServerLeft \in Nat, ServerLeft' \in Nat,
           ServerLeft' < ServerLeft,
           \A t \in Scans : conn'[t] = conn[t] \/ conn'[t] = "reset"
    PROVE  /\ ServerLeft' <= ServerLeft
           /\ \A t \in Scans : LookupLeft(t)' <= LookupLeft(t)
<1>1. ASSUME NEW t \in Scans PROVE LookupLeft(t)' <= LookupLeft(t)
  <2>1. StepsLeft(lk[t]) \in Nat /\ ConnLeft(conn[t]) \in 0..3 /\ ConnLeft(conn'[t]) \in 0..3
    BY StepsAreNat, ConnLeftIsNat DEF MockInv, LookupInv
  <2>2. ConnLeft(conn'[t]) <= ConnLeft(conn[t])
    BY CutOffLeft
  <2> QED
    BY <2>1, <2>2 DEF LookupLeft
<1> QED
  BY <1>1

\* The process and its lookups end, in whatever order they move.
THEOREM MockWindsDownCorrect == MockSpec => MockWindsDown
<1>1. MockInv /\ MockInv' /\ [MockNext]_mockVars
      => [/\ ServerLeft \in Nat /\ \A s \in Scans : LookupLeft(s) \in Nat
          /\ ServerLeft' <= ServerLeft
          /\ \A s \in Scans : LookupLeft(s)' <= LookupLeft(s)
          /\ \/ ServerLeft' < ServerLeft
             \/ \E s \in Scans : LookupLeft(s)' < LookupLeft(s)]_mockVars
  <2> SUFFICES ASSUME MockInv, MockInv', MockNext
               PROVE  /\ ServerLeft \in Nat /\ \A s \in Scans : LookupLeft(s) \in Nat
                      /\ ServerLeft' <= ServerLeft
                      /\ \A s \in Scans : LookupLeft(s)' <= LookupLeft(s)
                      /\ \/ ServerLeft' < ServerLeft
                         \/ \E s \in Scans : LookupLeft(s)' < LookupLeft(s)
    OBVIOUS
  <2> DEFINE Good == /\ ServerLeft' <= ServerLeft
                     /\ \A s \in Scans : LookupLeft(s)' <= LookupLeft(s)
                     /\ \/ ServerLeft' < ServerLeft
                        \/ \E s \in Scans : LookupLeft(s)' < LookupLeft(s)
  <2>0. ProcessOK /\ LookupInv
    BY DEF MockInv
  <2>1. ServerLeft \in Nat /\ ServerLeft' \in Nat
    BY DEF ServerLeft
  <2>2. ASSUME NEW s \in Scans PROVE LookupLeft(s) \in Nat
    <3>1. StepsLeft(lk[s]) \in Nat /\ ConnLeft(conn[s]) \in 0..3
      BY <2>0, StepsAreNat, ConnLeftIsNat DEF LookupInv
    <3> QED
      BY <3>1 DEF LookupLeft
  <2>3. CASE Listen \/ Announce \/ Arm \/ Serve
    <3>1. UNCHANGED <<lk, conn>> /\ ServerLeft' < ServerLeft
      BY <2>0, <2>3 DEF Listen, Announce, Arm, Serve, ServerLeft, ProcessOK
    <3> QED
      BY <2>1, <2>2, <3>1, ProcessMoves
  <2>4. CASE Signal \/ Shutdown \/ Exit
    <3>1. /\ UNCHANGED lk /\ ServerLeft' < ServerLeft
          /\ \A t \in Scans : conn'[t] = conn[t] \/ conn'[t] = "reset"
      BY <2>0, <2>4 DEF Signal, Shutdown, Exit, Gone, ServerLeft, ProcessOK
    <3> QED
      BY <2>1, <2>2, <3>1, ProcessMoves
  <2>5. ASSUME NEW s \in Scans, UNCHANGED process,
               \/ lk' = lk
               \/ LookupStep(s)
               \/ \E call \in Calls : Call(s, call),
               \/ conn'[s] = conn[s] /\ lk' # lk
               \/ ConnLeft(conn'[s]) < ConnLeft(conn[s]),
               \A t \in Scans \ {s} : conn'[t] = conn[t]
        PROVE  Good
    BY <2>1, <2>5, LookupMoves
  \* A connection that is accepted, answered or refused is a step further.
  <2>6. /\ ConnLeft("handling") < ConnLeft("queued")
        /\ ConnLeft("queued") < ConnLeft("none")
        /\ ConnLeft("refused") < ConnLeft("none")
        /\ ConnLeft("answered") < ConnLeft("handling")
    BY DEF ConnLeft
  <2>7. ASSUME NEW s \in Scans, Accept(s) PROVE Good
    BY <2>0, <2>5, <2>6, <2>7 DEF Accept, ProcessOK
  <2>8. ASSUME NEW s \in Scans, Answer(s) PROVE Good
    <3>1. /\ UNCHANGED process /\ conn[s] = "handling" /\ conn'[s] = "answered"
          /\ \A t \in Scans \ {s} : conn'[t] = conn[t]
      BY <2>0, <2>8 DEF Answer, ProcessOK
    <3>2. lk' = lk \/ LookupStep(s)
      <4>1. lk[s].at = "waiting" => Handler(lk[s].call) \in Answers
        BY <2>0, FeedAssumption DEF LookupInv, CallOK
      <4> QED
        BY <2>8, <4>1 DEF Answer, LookupStep
    <3> QED
      BY <2>5, <2>6, <3>1, <3>2
  <2>9. ASSUME NEW s \in Scans, Connect(s) PROVE Good
    <3>1. /\ UNCHANGED process /\ conn[s] = "none" /\ conn'[s] \in {"queued", "refused"}
          /\ \A t \in Scans \ {s} : conn'[t] = conn[t]
          /\ lk' = lk \/ LookupStep(s)
      BY <2>0, <2>9 DEF Connect, ProcessOK, LookupStep
    <3> QED
      BY <2>5, <2>6, <3>1
  <2>10. ASSUME NEW s \in Scans, NoticeReset(s) \/ ReadAnswer(s) \/ GiveUp(s)
         PROVE  Good
    <3>1. LookupStep(s) /\ UNCHANGED <<process, conn>>
      BY <2>10 DEF NoticeReset, ReadAnswer, GiveUp, LookupStep
    <3>2. lk' # lk
      BY <2>0, <3>1, StepShortens, StepsAreNat DEF LookupInv
    <3> QED
      BY <2>5, <3>1, <3>2
  <2>11. ASSUME NEW s \in Scans, NEW call \in Calls, StartLookup(s, call)
         PROVE  Good
    <3>1. Call(s, call) /\ UNCHANGED <<process, conn>>
      BY <2>11 DEF StartLookup
    <3>2. lk' # lk
      BY <2>0, <3>1, CallShortens, StepsAreNat DEF LookupInv
    <3> QED
      BY <2>5, <3>1, <3>2
  <2>12. Good
    BY <2>3, <2>4, <2>7, <2>8, <2>9, <2>10, <2>11 DEF MockNext
  <2> QED
    BY <2>1, <2>2, <2>12
<1>2. MockSpec => [][MockNext]_mockVars
  BY DEF MockSpec
<1> QED
  BY <1>1, <1>2, MockInvariance, PTL DEF MockWindsDown

=============================================================================
