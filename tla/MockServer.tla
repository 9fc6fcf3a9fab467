----------------------------- MODULE MockServer -----------------------------
(***************************************************************************)
(* The mock reputation feed the tests run against: Handler and byIndicator *)
(* of internal/mockrep, and the life of cmd/mockserver/main.go, from the   *)
(* printed port to the signal that ends it, with lookups (Lookup) as its   *)
(* clients.                                                                *)
(*                                                                         *)
(* srv    "starting", "bound", "announced" (PORT printed), "serving",      *)
(*        "closing" (Shutdown called, listener closed) or "exited";        *)
(* armed  whether the signal goroutine has called signal.Notify;           *)
(* signal whether a signal waits in its channel;                           *)
(* conn   conn[s], the connection of lookup s: "none", "refused", "queued" *)
(*        (in the listen backlog), "handling", "answered" or "reset".      *)
(*                                                                         *)
(* A call has a key besides what Lookup reads: api_key, NoKey for none,    *)
(* sent as X-API-Key.                                                      *)
(***************************************************************************)
EXTENDS Lookup, Samples

CONSTANT apiKey   \* the --api-key flag, NoKey when not given

NoKey == ""

VARIABLES srv, armed, signal, conn

process == <<srv, armed, signal>>
mockVars == <<lk, srv, armed, signal, conn>>

----------------------------------------------------------------------------
\* internal/mockrep

Record(type, malicious, score, categories) ==
    [type |-> type, malicious |-> malicious, score |-> score,
     categories |-> categories]
TorExit    == Value(Quad(<<185, 220, 101, 1>>))
BadDomain  == Value(Dotted(<<Hyphenated(10), Word(7)>>))
BadHash    == Value(Dotted(<<Hex(64)>>))
CleanIP    == Value(Quad(<<93, 184, 216, 34>>))
GoodDomain == Value(Dotted(<<Word(4), Word(7)>>))
Known == {TorExit, BadDomain, BadHash, CleanIP, GoodDomain}
byIndicator == [v \in Known |->
    CASE v = TorExit    -> Record("ipv4", TRUE, "nonzero", "some")
      [] v = BadDomain  -> Record("domain", TRUE, "nonzero", "some")
      [] v = BadHash    -> Record("sha256", TRUE, "nonzero", "some")
      [] v = CleanIP    -> Record("ipv4", FALSE, "nil", "empty")
      [] v = GoodDomain -> Record("domain", FALSE, "nonzero", "empty")]

\* The indicator is matched as it was sent, whitespace included.
Status(status) == [NoAnswer EXCEPT !.status = status]
\* Faulty: the key is not asked for.
HandlerOpen(call) ==
    IF call.value \notin Known THEN Status(404)
    ELSE [status |-> 200, located |-> FALSE, json |-> TRUE,
          rep |-> byIndicator[call.value]]
Handler(call) ==
    IF apiKey # NoKey /\ call.key # apiKey THEN Status(401)
    ELSE IF ~call.value.pad /\ call.value.text = Blank THEN Status(400)
    ELSE IF call.value \notin Known THEN Status(404)
    ELSE [status |-> 200, located |-> FALSE, json |-> TRUE,
          rep |-> byIndicator[call.value]]

\* The feed of the lookups is this one.
ASSUME FeedAssumption == \A call \in Calls : Handler(call) \in Answers

----------------------------------------------------------------------------
\* cmd/mockserver

\* net.Listen, or log.Fatalf when the address cannot be bound.
Listen ==
    /\ srv = "starting"
    /\ srv' \in {"bound", "exited"}
    /\ UNCHANGED <<lk, armed, signal, conn>>

Announce ==
    /\ srv = "bound"
    /\ srv' = "announced"
    /\ UNCHANGED <<lk, armed, signal, conn>>

\* The signal goroutine, started just before Serve, gets to signal.Notify.
Arm ==
    /\ srv \in {"announced", "serving"}
    /\ ~armed
    /\ armed' = TRUE
    /\ UNCHANGED <<lk, srv, signal, conn>>

\* Faulty: the signals are waited for in main itself, not in a goroutine.
ServeAfterSignal ==
    /\ srv = "announced" /\ signal
    /\ srv' = "serving"
    /\ UNCHANGED <<lk, armed, signal, conn>>
\* srv.Serve accepts connections, beginning with those in the backlog.
Serve ==
    /\ srv = "announced"
    /\ srv' = "serving"
    /\ UNCHANGED <<lk, armed, signal, conn>>

Accept(s) ==
    /\ srv = "serving"
    /\ conn[s] = "queued"
    /\ conn' = [conn EXCEPT ![s] = "handling"]
    /\ UNCHANGED <<lk, process>>

\* The handler writes its answer and the client reads the headers.
Answer(s) ==
    /\ srv \in {"serving", "closing"}
    /\ conn[s] = "handling"
    /\ conn' = [conn EXCEPT ![s] = "answered"]
    /\ IF lk[s].at = "waiting"
       THEN Respond(s, Handler(lk[s].call))
       ELSE UNCHANGED lk
    /\ UNCHANGED process

\* The process ends with its connections.
Gone == [s \in Scans |-> IF conn[s] \in {"queued", "handling"} THEN "reset" ELSE conn[s]]

\* SIGINT or SIGTERM: caught once armed, deadly before.
Signal ==
    /\ srv # "exited" /\ ~signal
    /\ IF armed
       THEN signal' = TRUE /\ UNCHANGED <<srv, conn>>
       ELSE srv' = "exited" /\ conn' = Gone /\ UNCHANGED signal
    /\ UNCHANGED <<lk, armed>>

\* Faulty: the signal is taken from the channel and nothing is done.
ShutdownForgotten ==
    /\ signal /\ srv \in {"announced", "serving"}
    /\ UNCHANGED mockVars
\* srv.Shutdown closes the listener, and with it the connections not yet
\* accepted, then waits for the others up to two seconds.
Shutdown ==
    /\ signal
    /\ srv \in {"announced", "serving"}
    /\ srv' = "closing"
    /\ conn' = [s \in Scans |-> IF conn[s] = "queued" THEN "reset" ELSE conn[s]]
    /\ UNCHANGED <<lk, armed, signal>>

\* Serve returns ErrServerClosed as soon as Shutdown is called, and main with
\* it: the process does not wait for Shutdown.
Exit ==
    /\ srv = "closing"
    /\ srv' = "exited"
    /\ conn' = Gone
    /\ UNCHANGED <<lk, armed, signal>>

----------------------------------------------------------------------------
\* The clients: they learn the port from the printed line.

\* A server that exited may never have printed its line: some of these lookups
\* start where a script would have given up, and are refused like the others.
\* Faulty: the port line is not waited for.
StartLookupEarly(s, call) == Call(s, call) /\ UNCHANGED <<process, conn>>
StartLookup(s, call) ==
    /\ srv \notin {"starting", "bound"}
    /\ Call(s, call)
    /\ UNCHANGED <<process, conn>>

Connect(s) ==
    /\ lk[s].at = "waiting" /\ conn[s] = "none"
    /\ IF srv \in {"announced", "serving"}
       THEN conn' = [conn EXCEPT ![s] = "queued"] /\ UNCHANGED lk
       ELSE conn' = [conn EXCEPT ![s] = "refused"] /\ TransportError(s)
    /\ UNCHANGED process

\* The client notices that its connection was reset.
NoticeReset(s) ==
    /\ conn[s] = "reset"
    /\ TransportError(s)
    /\ UNCHANGED <<process, conn>>

ReadAnswer(s) == ReadBody(s) /\ UNCHANGED <<process, conn>>
GiveUp(s) == Expire(s) /\ UNCHANGED <<process, conn>>

----------------------------------------------------------------------------
MockInit ==
    /\ LookupInit
    /\ srv = "starting" /\ armed = FALSE /\ signal = FALSE
    /\ conn = [s \in Scans |-> "none"]

MockNext ==
    \/ Listen \/ Announce \/ Arm \/ Serve \/ Signal \/ Shutdown \/ Exit
    \/ \E s \in Scans :
          \/ Accept(s) \/ Answer(s) \/ Connect(s) \/ NoticeReset(s)
          \/ ReadAnswer(s) \/ GiveUp(s)
          \/ \E call \in Calls : StartLookup(s, call)

\* The server's own steps and the client's are taken; no one has to signal.
MockFairness ==
    /\ WF_mockVars(Listen) /\ WF_mockVars(Announce) /\ WF_mockVars(Arm)
    /\ WF_mockVars(Serve) /\ WF_mockVars(Shutdown) /\ WF_mockVars(Exit)
    /\ \A s \in Scans :
          WF_mockVars(Accept(s) \/ Answer(s) \/ Connect(s) \/ NoticeReset(s)
                      \/ ReadAnswer(s))
MockSpec == MockInit /\ [][MockNext]_mockVars /\ MockFairness

----------------------------------------------------------------------------
\* Type invariant.
MockTypeOK ==
    /\ LookupTypeOK
    /\ srv \in {"starting", "bound", "announced", "serving", "closing", "exited"}
    /\ armed \in BOOLEAN /\ signal \in BOOLEAN
    /\ conn \in [Scans -> {"none", "refused", "queued", "handling", "answered", "reset"}]

\* server.go:10-15 and the tests of client_test.go, seen from the worker's
\* end: a lookup the mock answers gives the canned row of exactly the
\* indicator asked for, none when there is no such record, and an error
\* without the right key.
MockVerdicts ==
    \A s \in Scans : lk[s].at = "done" =>
        LET call == lk[s].call
            out  == lk[s].out
        IN  /\ out.kind # "error" => apiKey \in {NoKey, call.key}
            /\ out.kind = "none" => call.value \notin Known
            /\ out.kind = "row" =>
                  /\ call.value \in Known
                  /\ out.rows[1].malicious <=> call.value \in {TorExit, BadDomain, BadHash}
                  /\ out.rows[1].type = IndicatorType(call.value)

\* main.go:13-15 of cmd/mockserver: whoever has read the PORT line gets through
\* to the server: a connection is refused or reset only once it was told to stop.
AnnouncedMeansReachable ==
    \A s \in Scans :
        conn[s] \in {"refused", "reset"} => srv \in {"closing", "exited"}

\* A lookup against the mock ends even when its deadline never fires: a server
\* left alone answers every connection it is given, those that came before it
\* accepted any included, and one that ends takes them along, wherever the
\* signal finds it.
LookupsEndByThemselves ==
    \A s \in Scans : InFlight(s) ~> lk[s].at = "done"

\* A signal ends the process, whenever in its life it comes.
SignalEnds == signal ~> srv = "exited"

\* main.go:48 "Graceful shutdown on SIGINT/SIGTERM": once the signals are
\* caught, a request the server has accepted is answered before it ends.
AcceptedIsAnswered ==
    [][\A s \in Scans : armed /\ conn[s] = "handling" => conn'[s] # "reset"]_mockVars

=============================================================================
