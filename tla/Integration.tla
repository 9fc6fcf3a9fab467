---------------------------- MODULE Integration ----------------------------
(***************************************************************************)
(* ci/run-integration.sh: one run of the SQL suite over one transport,     *)
(* with the mock feed and, over http and unix, a worker as its children.   *)
(*                                                                         *)
(* job     what the environment asks for: the transport, whether the       *)
(*         worker is a URL already, SKIP_MOCK, and the test files that     *)
(*         TEST_PATTERN matches;                                           *)
(* pc      where the script stands;                                        *)
(* status  its exit status, "none" while it runs;                          *)
(* tries   polls left;                                                     *)
(* child   child["mock"] and child["worker"]: "none", "booting", "up"      *)
(*         (its line printed, its address open) or "dead";                 *)
(* line    the children whose line is in their port file;                  *)
(* told    the children that were sent SIGTERM;                            *)
(* sock    whether the worker's socket file exists;                        *)
(* report  what the runner said of each test file it ran.                  *)
(***************************************************************************)
EXTENDS Naturals

CONSTANTS Tests,       \* the test files
          MockTests,   \* those that require-env VGI_THREATINTEL_TEST_URL
          MockPolls,   \* thirty in the script
          WorkerPolls  \* fifty in the script

ASSUME PollAssumption == MockPolls \in Nat \ {0} /\ WorkerPolls \in Nat \ {0}
ASSUME TestAssumption == MockTests \subseteq Tests

VARIABLES job, pc, status, tries, child, line, told, sock, report

children == <<child, line, told, sock>>
vars == <<job, pc, status, tries, children, report>>

Children == {"mock", "worker"}
Jobs == [transport : {"subprocess", "http", "unix", "unknown"},
         prelaunched : BOOLEAN, skipMock : BOOLEAN, matched : SUBSET Tests]

\* Whether the script starts a worker of its own.
OwnWorker ==
    \/ job.transport = "unix"
    \/ job.transport = "http" /\ ~job.prelaunched

----------------------------------------------------------------------------
\* The script's steps.

Goto(next) == pc' = next /\ UNCHANGED status
Exit(st) == pc' = "killWorker" /\ status' = st
AfterMock == IF OwnWorker THEN "startWorker" ELSE "stage"

\* The transport is checked before the trap is set.
Begin ==
    /\ pc = "begin"
    /\ IF job.transport = "unknown" THEN pc' = "exited" /\ status' = "error"
       ELSE Goto(IF job.skipMock THEN AfterMock ELSE "buildMock")
    /\ UNCHANGED <<job, tries, children, report>>

\* go build, which set -e makes the script's own failure.
BuildMock ==
    /\ pc = "buildMock"
    /\ Goto("startMock") \/ Exit("error")
    /\ UNCHANGED <<job, tries, children, report>>

Start(c, polls) ==
    /\ child' = [child EXCEPT ![c] = "booting"]
    /\ tries' = polls
    /\ UNCHANGED <<job, line, told, sock, report>>
StartMock == pc = "startMock" /\ Goto("pollMock") /\ Start("mock", MockPolls)
StartWorker == pc = "startWorker" /\ Goto("pollWorker") /\ Start("worker", WorkerPolls)

\* A read of the port file, while reads are left; with none left, the end of the
\* loop has found nothing.
Poll(ready, next, spent) ==
    \/ tries > 0 /\ ready /\ Goto(next) /\ UNCHANGED tries
    \/ tries > 0 /\ ~ready /\ tries' = tries - 1 /\ UNCHANGED <<pc, status>>
    \/ tries = 0 /\ spent /\ UNCHANGED tries

\* Faulty: polling goes on until a line is there.
PollMockForEver ==
    /\ pc = "pollMock"
    /\ "mock" \in line
    /\ Goto(AfterMock)
    /\ UNCHANGED <<job, tries, children, report>>
\* The mock's death is not looked for: the polls run out instead.
PollMock ==
    /\ pc = "pollMock"
    /\ Poll("mock" \in line, AfterMock, Exit("error"))
    /\ UNCHANGED <<job, children, report>>

WorkerReady == "worker" \in line /\ (job.transport = "unix" => sock)
\* Faulty: with the polls run out the script goes on.
PollWorkerFallThrough ==
    /\ pc = "pollWorker"
    /\ Poll(WorkerReady, "stage", Goto("stage"))
    /\ UNCHANGED <<job, children, report>>
\* The line first, then kill -0, then the next poll.
PollWorker ==
    /\ pc = "pollWorker"
    /\ IF ~WorkerReady /\ child["worker"] = "dead"
       THEN Exit("error") /\ UNCHANGED tries
       ELSE Poll(WorkerReady, "stage", Exit("error"))
    /\ UNCHANGED <<job, children, report>>

\* Staging, the httpfs injection and the warm-up; a failed warm-up is a warning.
Stage ==
    /\ pc = "stage"
    /\ IF job.matched = {} THEN Exit("error") ELSE Goto("suite")
    /\ UNCHANGED <<job, tries, children, report>>

\* Faulty: a run of skips passes.
FinishUnguarded ==
    /\ pc = "suite"
    /\ DOMAIN report = job.matched
    /\ Exit(IF \E t \in job.matched : report[t] = "fail" THEN "error" ELSE "ok")
    /\ UNCHANGED <<job, tries, children, report>>
\* The runner's exit status first, then "All tests were skipped" in its log.
Finish ==
    /\ pc = "suite"
    /\ DOMAIN report = job.matched
    /\ Exit(IF \/ \E t \in job.matched : report[t] = "fail"
               \/ \A t \in job.matched : report[t] = "skip"
            THEN "error" ELSE "ok")
    /\ UNCHANGED <<job, tries, children, report>>

\* Faulty: a child that was never started is killed too.
KillBlind(c, here, next) ==
    /\ pc = here
    /\ told' = told \union {c}
    /\ Goto(next)
    /\ UNCHANGED <<job, tries, child, line, sock, report>>
\* The EXIT trap: the worker, then the mock, each killed and waited for, then
\* the socket file.
Kill(c, here, next) ==
    /\ pc = here
    /\ told' = IF child[c] = "none" THEN told ELSE told \union {c}
    /\ Goto(next)
    /\ UNCHANGED <<job, tries, child, line, sock, report>>
Reap(c, here, next) ==
    /\ pc = here
    /\ child[c] \in {"none", "dead"}
    /\ Goto(next)
    /\ UNCHANGED <<job, tries, children, report>>
\* Faulty: killed, not waited for.
CleanupUnwaited ==
    \/ Kill("worker", "killWorker", "killMock")
    \/ Kill("mock", "killMock", "rmSocket")
Cleanup ==
    \/ Kill("worker", "killWorker", "reapWorker")
    \/ Reap("worker", "reapWorker", "killMock")
    \/ Kill("mock", "killMock", "reapMock")
    \/ Reap("mock", "reapMock", "rmSocket")
RemoveSocket ==
    /\ pc = "rmSocket"
    /\ Goto("exited")
    /\ sock' = FALSE
    /\ UNCHANGED <<job, tries, child, line, told, report>>

----------------------------------------------------------------------------
\* The children, and the runner.

\* A child opens its address, then prints its line.
ComeUp(c) ==
    /\ child[c] = "booting"
    /\ child' = [child EXCEPT ![c] = "up"]
    /\ line' = line \union {c}
    /\ sock' = (sock \/ (c = "worker" /\ job.transport = "unix"))
    /\ UNCHANGED <<job, pc, status, tries, told, report>>

\* A child dies, told to or not; it may leave its socket file.
Die(c) ==
    /\ child[c] \in {"booting", "up"}
    /\ child' = [child EXCEPT ![c] = "dead"]
    /\ sock' \in {sock, sock /\ c # "worker"}
    /\ UNCHANGED <<job, pc, status, tries, line, told, report>>

Reachable == OwnWorker => child["worker"] = "up"

\* What the runner may say of a test: a missing require-env and an error that
\* names HTTP are skips.
Outcomes(t) ==
    IF t \in MockTests /\ job.skipMock THEN {"skip"}
    ELSE IF ~Reachable /\ job.transport = "http" THEN {"skip"}
    ELSE IF ~Reachable THEN {"fail", "skip"}
    ELSE IF t \in MockTests /\ child["mock"] # "up" THEN {"fail", "skip"}
    ELSE {"pass", "fail", "skip"}

RunTest(t) ==
    /\ pc = "suite"
    /\ t \in job.matched \ DOMAIN report
    /\ \E o \in Outcomes(t) :
          report' = [u \in DOMAIN report \union {t} |-> IF u = t THEN o ELSE report[u]]
    /\ UNCHANGED <<job, pc, status, tries, children>>

----------------------------------------------------------------------------
Init ==
    /\ job \in Jobs
    /\ pc = "begin" /\ status = "none" /\ tries = 0
    /\ child = [c \in Children |-> "none"]
    /\ line = {} /\ told = {} /\ sock = FALSE
    /\ report = [t \in {} |-> "none"]

Script ==
    \/ Begin \/ BuildMock \/ StartMock \/ PollMock \/ StartWorker \/ PollWorker
    \/ Stage \/ Finish \/ Cleanup \/ RemoveSocket

Next ==
    \/ Script
    \/ \E c \in Children : ComeUp(c) \/ Die(c)
    \/ \E t \in Tests : RunTest(t)

\* The script and the runner go on, and a child that was told to end ends.
\* No child has to come up.
Fairness ==
    /\ WF_vars(Script)
    /\ WF_vars(\E t \in Tests : RunTest(t))
    /\ \A c \in Children : WF_vars(c \in told /\ Die(c))
Spec == Init /\ [][Next]_vars /\ Fairness

----------------------------------------------------------------------------
\* Type invariant: a child that printed its line was started and came up, and
\* only the script's own children are ever told to end.
HarnessTypeOK ==
    /\ job \in Jobs
    /\ status \in {"none", "ok", "error"}
    /\ tries \in 0..MockPolls \union 0..WorkerPolls
    /\ child \in [Children -> {"none", "booting", "up", "dead"}]
    /\ \A c \in line : child[c] \in {"up", "dead"}
    /\ \A c \in told : child[c] # "none"

\* The guard at run-integration.sh:232-257: a green run has failed no test and
\* passed one at least, whatever died under it and whatever was skipped.
GreenMeansTested ==
    status = "ok" =>
        /\ \A t \in job.matched : report[t] # "fail"
        /\ \E t \in job.matched : report[t] = "pass"

\* No test runs before the worker and the mock it will be pointed at have said
\* they listen: a test never fails for a service that was still starting.  That
\* the service is still there is not promised: its line outlives it, and what a
\* run without it may come to is GreenMeansTested.
SuiteMeetsReadyServices ==
    pc = "suite" =>
        /\ job.skipMock \/ "mock" \in line
        /\ OwnWorker => "worker" \in line

\* run-integration.sh:22-23 "All started processes are trap-killed on exit":
\* whichever stage fails, nothing the script started is running once it has
\* exited, and its socket file is gone.
NothingIsLeftBehind ==
    pc = "exited" =>
        /\ \A c \in Children : child[c] \in {"none", "dead"}
        /\ ~sock

\* The script comes to an end, though no child it waits for ever comes up.
ScriptEnds == <>(pc = "exited")

=============================================================================
