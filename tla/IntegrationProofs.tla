------------------------- MODULE IntegrationProofs -------------------------
(***************************************************************************)
(* What a run of run-integration.sh guarantees for every set of tests and  *)
(* every number of polls, whichever stage fails and whichever child dies.  *)
(***************************************************************************)
EXTENDS Integration, TLAPS

Starting == {"begin", "buildMock", "startMock"}
Working == {"pollMock", "startWorker", "pollWorker", "stage", "suite"}
Ending == {"killWorker", "reapWorker", "killMock", "reapMock", "rmSocket", "exited"}

Gone(c) == child[c] \in {"none", "dead"}

\* Type correctness, and that children are in the state their lines and
\* signals say.
Typed ==
    /\ job \in Jobs
    /\ pc \in Starting \union Working \union Ending
    /\ status \in {"none", "ok", "error"}
    /\ tries \in 0..MockPolls \union 0..WorkerPolls
    /\ child \in [Children -> {"none", "booting", "up", "dead"}]
    /\ line \subseteq Children /\ told \subseteq Children
    /\ sock \in BOOLEAN
    /\ \A c \in line : child[c] \in {"up", "dead"}
    /\ \A c \in told : child[c] # "none"

\* A child is started once, after which the script only leads on; what the
\* trap has waited for stays gone, and nothing makes a socket again.
Cleaned ==
    /\ pc \in Starting \union {"pollMock", "startWorker"} => child["worker"] = "none"
    /\ pc \in Starting => child["mock"] = "none"
    /\ pc \in {"killMock", "reapMock", "rmSocket", "exited"} => Gone("worker")
    /\ pc \in {"rmSocket", "exited"} => Gone("mock")
    /\ sock => child["worker"] \in {"up", "dead"}
    /\ pc = "exited" => ~sock

\* The polls were passed.
Announced ==
    /\ pc \in {"startWorker", "pollWorker", "stage", "suite"} =>
          job.skipMock \/ "mock" \in line
    /\ pc \in {"stage", "suite"} /\ OwnWorker => "worker" \in line
    /\ pc \in {"startWorker", "pollWorker"} => OwnWorker

\* The status is the report's.
Judged ==
    /\ status = "ok" => pc \in Ending
    /\ status = "ok" =>
          /\ \A t \in job.matched : report[t] # "fail"
          /\ \E t \in job.matched : report[t] # "skip"
    /\ \A t \in DOMAIN report : report[t] \in {"pass", "fail", "skip"}
    /\ status = "ok" => job.matched = DOMAIN report

HarnessInv == Typed /\ Cleaned /\ Announced /\ Judged

----------------------------------------------------------------------------
\* The parts of the invariant that look at no variable a step changes hold on.

LEMMA TypedFacts ==
    ASSUME Typed
    PROVE  /\ \A c \in Children : child[c] \in {"none", "booting", "up", "dead"}
           /\ DOMAIN child = Children
           /\ "mock" \in Children /\ "worker" \in Children
BY DEF Typed, Children

LEMMA HarnessInitially == Init => HarnessInv
<1> SUFFICES ASSUME Init PROVE HarnessInv
  OBVIOUS
<1>1. Typed
  <2>1. 0 \in 0..MockPolls
    BY PollAssumption
  <2>2. child \in [Children -> {"none", "booting", "up", "dead"}]
    BY DEF Init
  <2> QED
    BY <2>1, <2>2 DEF Init, Typed, Starting
<1>2. Cleaned /\ Announced
  BY DEF Init, Cleaned, Announced, Gone, Children
<1>3. Judged
  BY DEF Init, Judged
<1> QED
  BY <1>1, <1>2, <1>3 DEF HarnessInv

\* A step of the script that touches no child and leads on or out.
LEMMA ScriptKeeps ==
    ASSUME HarnessInv, UNCHANGED <<job, children>>, tries' \in 0..MockPolls \union 0..WorkerPolls,
           pc' \in Starting \union Working \union Ending,
           status' \in {"none", "ok", "error"}
    PROVE  Typed'
BY DEF HarnessInv, Typed, children

LEMMA BeginKeeps == ASSUME HarnessInv, Begin PROVE HarnessInv'
<1> USE DEF HarnessInv
<1>1. Typed'
  BY ScriptKeeps DEF Begin, Goto, AfterMock, Starting, Working, Ending, Typed
<1>2. Cleaned'
  BY DEF Begin, Goto, AfterMock, Cleaned, Gone, Starting, children, Typed, Children
<1>3. Announced'
  BY DEF Begin, Goto, AfterMock, Announced, OwnWorker, children
<1>4. Judged'
  BY DEF Begin, Goto, Judged, Ending
<1> QED
  BY <1>1, <1>2, <1>3, <1>4

LEMMA BuildMockKeeps == ASSUME HarnessInv, BuildMock PROVE HarnessInv'
<1> USE DEF HarnessInv
<1>1. Typed'
  BY ScriptKeeps DEF BuildMock, Goto, Exit, Starting, Working, Ending, Typed
<1>2. Cleaned'
  BY DEF BuildMock, Goto, Exit, Cleaned, Gone, Starting, children
<1>3. Announced'
  BY DEF BuildMock, Goto, Exit, Announced, OwnWorker, children
<1>4. Judged'
  BY DEF BuildMock, Goto, Exit, Judged, Ending
<1> QED
  BY <1>1, <1>2, <1>3, <1>4

LEMMA StartKeeps == ASSUME HarnessInv, StartMock \/ StartWorker PROVE HarnessInv'
<1> USE DEF HarnessInv
<1>1. Typed'
  <2>1. ASSUME NEW c \in Children, NEW polls \in {MockPolls, WorkerPolls},
               child[c] = "none", Start(c, polls), pc' \in Working, UNCHANGED status
        PROVE  Typed'
    <3>1. tries' \in 0..MockPolls \union 0..WorkerPolls
      BY <2>1, PollAssumption DEF Start
    <3> QED
      BY <2>1, <3>1, TypedFacts DEF Start, Typed
  <2>2. CASE StartMock
    BY <2>1, <2>2, TypedFacts DEF StartMock, Goto, Cleaned, Starting, Working
  <2>3. CASE StartWorker
    BY <2>1, <2>3, TypedFacts DEF StartWorker, Goto, Cleaned, Working
  <2> QED
    BY <2>2, <2>3
<1>2. Cleaned'
  BY TypedFacts DEF StartMock, StartWorker, Start, Goto, Cleaned, Gone, Starting
<1>3. Announced'
  BY DEF StartMock, StartWorker, Start, Goto, Announced, OwnWorker
<1>4. Judged'
  BY DEF StartMock, StartWorker, Start, Goto, Judged, Ending
<1> QED
  BY <1>1, <1>2, <1>3, <1>4

LEMMA PollKeeps == ASSUME HarnessInv, PollMock \/ PollWorker PROVE HarnessInv'
<1> USE DEF HarnessInv
<1>1. tries' \in 0..MockPolls \union 0..WorkerPolls
  <2>1. tries \in 0..MockPolls \union 0..WorkerPolls
    BY DEF Typed
  <2>2. tries' = tries \/ (tries > 0 /\ tries' = tries - 1)
    <3>1. CASE PollMock
      BY <3>1 DEF PollMock, Poll
    <3>2. CASE PollWorker
      BY <3>2 DEF PollWorker, Poll
    <3> QED
      BY <3>1, <3>2
  <2> QED
    BY <2>1, <2>2, PollAssumption
<1>2. Typed'
  BY <1>1, ScriptKeeps
  DEF PollMock, PollWorker, Poll, Goto, Exit, AfterMock, Starting, Working, Ending, Typed
<1>3. Cleaned'
  BY DEF PollMock, PollWorker, Poll, Goto, Exit, AfterMock, Cleaned, Gone, Starting, children
<1>4. Announced'
  BY DEF PollMock, PollWorker, Poll, Goto, Exit, AfterMock, WorkerReady, Announced,
     OwnWorker, children
<1>5. Judged'
  BY DEF PollMock, PollWorker, Poll, Goto, Exit, Judged, Ending
<1> QED
  BY <1>2, <1>3, <1>4, <1>5

LEMMA StageKeeps == ASSUME HarnessInv, Stage PROVE HarnessInv'
<1> USE DEF HarnessInv
<1>1. Typed'
  BY ScriptKeeps DEF Stage, Goto, Exit, Starting, Working, Ending, Typed
<1>2. Cleaned'
  BY DEF Stage, Goto, Exit, Cleaned, Gone, Starting, children
<1>3. Announced'
  BY DEF Stage, Goto, Exit, Announced, OwnWorker, children
<1>4. Judged'
  BY DEF Stage, Goto, Exit, Judged, Ending
<1> QED
  BY <1>1, <1>2, <1>3, <1>4

LEMMA FinishKeeps == ASSUME HarnessInv, Finish PROVE HarnessInv'
<1> USE DEF HarnessInv
<1>1. Typed'
  BY ScriptKeeps DEF Finish, Exit, Starting, Working, Ending, Typed
<1>2. Cleaned'
  BY DEF Finish, Exit, Cleaned, Gone, Starting, children
<1>3. Announced'
  BY DEF Finish, Exit, Announced, OwnWorker, children
<1>4. Judged'
  BY DEF Finish, Exit, Judged, Ending
<1> QED
  BY <1>1, <1>2, <1>3, <1>4

LEMMA CleanupKeeps == ASSUME HarnessInv, Cleanup \/ RemoveSocket PROVE HarnessInv'
<1> USE DEF HarnessInv
<1>1. Typed'
  BY TypedFacts
  DEF Cleanup, Kill, Reap, RemoveSocket, Goto, Typed, Starting, Working, Ending, children
<1>2. Cleaned'
  BY DEF Cleanup, Kill, Reap, RemoveSocket, Goto, Cleaned, Gone, Starting, children
<1>3. Announced'
  BY DEF Cleanup, Kill, Reap, RemoveSocket, Goto, Announced, OwnWorker, children
<1>4. Judged'
  BY DEF Cleanup, Kill, Reap, RemoveSocket, Goto, Judged, Ending, children
<1> QED
  BY <1>1, <1>2, <1>3, <1>4

LEMMA ChildKeeps ==
    ASSUME HarnessInv, NEW c \in Children, ComeUp(c) \/ Die(c)
    PROVE  HarnessInv'
<1> USE DEF HarnessInv
<1>1. Typed'
  BY TypedFacts DEF ComeUp, Die, Typed
<1>2. Cleaned'
  BY TypedFacts DEF ComeUp, Die, Cleaned, Gone, Typed, Starting, Children
<1>3. Announced'
  BY DEF ComeUp, Die, Announced, OwnWorker
<1>4. Judged'
  BY DEF ComeUp, Die, Judged
<1> QED
  BY <1>1, <1>2, <1>3, <1>4

LEMMA RunTestKeeps ==
    ASSUME HarnessInv, NEW t \in Tests, RunTest(t)
    PROVE  HarnessInv'
<1> USE DEF HarnessInv
<1>1. Typed'
  BY ScriptKeeps DEF RunTest, Typed
<1>2. Cleaned' /\ Announced'
  BY DEF RunTest, Cleaned, Gone, Announced, OwnWorker, children
<1>3. status # "ok"
  BY DEF RunTest, Judged, Ending
<1>4. PICK o \in Outcomes(t) :
         report' = [u \in DOMAIN report \union {t} |-> IF u = t THEN o ELSE report[u]]
  BY DEF RunTest
<1>5. o \in {"pass", "fail", "skip"}
  BY DEF Outcomes
<1>6. Judged'
  BY <1>3, <1>4, <1>5 DEF RunTest, Judged
<1> QED
  BY <1>1, <1>2, <1>6

LEMMA HarnessInductive == HarnessInv /\ [Next]_vars => HarnessInv'
<1> SUFFICES ASSUME HarnessInv, [Next]_vars PROVE HarnessInv'
  OBVIOUS
<1>1. CASE Script
  BY <1>1, BeginKeeps, BuildMockKeeps, StartKeeps, PollKeeps, StageKeeps, FinishKeeps,
     CleanupKeeps DEF Script
<1>2. ASSUME NEW c \in Children, ComeUp(c) \/ Die(c) PROVE HarnessInv'
  BY <1>2, ChildKeeps
<1>3. ASSUME NEW t \in Tests, RunTest(t) PROVE HarnessInv'
  BY <1>3, RunTestKeeps
<1>4. CASE UNCHANGED vars
  BY <1>4 DEF vars, children, HarnessInv, Typed, Cleaned, Gone, Announced, OwnWorker, Judged
<1> QED
  BY <1>1, <1>2, <1>3, <1>4 DEF Next

LEMMA HarnessInvariance == Spec => []HarnessInv
BY HarnessInitially, HarnessInductive, PTL DEF Spec

----------------------------------------------------------------------------
\* Type correctness of the harness.
THEOREM HarnessTypeCorrect == Spec => []HarnessTypeOK
<1>1. HarnessInv => HarnessTypeOK
  BY DEF HarnessInv, Typed, HarnessTypeOK
<1> QED
  BY <1>1, HarnessInvariance, PTL

\* A green run has failed no test and passed one, for any set of tests
\* (run-integration.sh:246-257).
THEOREM GreenMeansTestedCorrect == Spec => []GreenMeansTested
<1>1. HarnessInv => GreenMeansTested
  BY DEF HarnessInv, Judged, GreenMeansTested
<1> QED
  BY <1>1, HarnessInvariance, PTL

\* The suite runs only once the services it needs have said that they listen
\* (run-integration.sh:99-111, 136-149, 163-175).
THEOREM SuiteMeetsReadyServicesCorrect == Spec => []SuiteMeetsReadyServices
<1>1. HarnessInv => SuiteMeetsReadyServices
  BY DEF HarnessInv, Announced, SuiteMeetsReadyServices
<1> QED
  BY <1>1, HarnessInvariance, PTL

\* Once the script has exited, no child of it runs and no socket is left
\* (run-integration.sh:75-83).
THEOREM NothingIsLeftBehindCorrect == Spec => []NothingIsLeftBehind
<1>1. HarnessInv => NothingIsLeftBehind
  BY DEF HarnessInv, Cleaned, Gone, NothingIsLeftBehind, Children
<1> QED
  BY <1>1, HarnessInvariance, PTL

----------------------------------------------------------------------------
\* The script comes to an end.

\* How many steps the script has left at the most.
ScriptLeft ==
    CASE pc = "exited"      -> 0
      [] pc = "rmSocket"    -> 1
      [] pc = "reapMock"    -> 2
      [] pc = "killMock"    -> 3
      [] pc = "reapWorker"  -> 4
      [] pc = "killWorker"  -> 5
      [] pc = "suite"       -> 6
      [] pc = "stage"       -> 7
      [] pc = "pollWorker"  -> 8 + tries
      [] pc = "startWorker" -> 9 + WorkerPolls
      [] pc = "pollMock"    -> 10 + WorkerPolls + tries
      [] pc = "startMock"   -> 11 + WorkerPolls + MockPolls
      [] pc = "buildMock"   -> 12 + WorkerPolls + MockPolls
      [] OTHER              -> 13 + WorkerPolls + MockPolls

\* Every step of the script leaves it fewer to take, whatever its children do
\* meanwhile; nobody else moves it; and the status it has once decided on, the
\* clean-up does not change.
ScriptLeadsOn ==
    [][/\ ScriptLeft \in Nat
       /\ Script => ScriptLeft' < ScriptLeft
       /\ ~Script => UNCHANGED <<pc, status, tries>>
       /\ status # "none" => status' = status]_vars

\* The part of the invariant on which that rests: a status is decided on the
\* way out, and not before.
Decided == status # "none" <=> pc \in Ending

LEMMA DecidedInvariance == Spec => []Decided
<1>1. Init => Decided
  BY DEF Init, Decided, Ending
<1>2. HarnessInv /\ Decided /\ [Next]_vars => Decided'
  <2> SUFFICES ASSUME HarnessInv, Decided, [Next]_vars PROVE Decided'
    OBVIOUS
  <2> USE DEF Decided, Ending, Goto, Exit
  <2>1. CASE Begin \/ BuildMock \/ StartMock \/ StartWorker
    BY <2>1 DEF Begin, BuildMock, StartMock, StartWorker, Start, AfterMock
  <2>2. CASE PollMock \/ PollWorker
    BY <2>2 DEF PollMock, PollWorker, Poll, AfterMock
  <2>3. CASE Stage \/ Finish
    BY <2>3 DEF Stage, Finish
  <2>4. CASE Cleanup \/ RemoveSocket
    BY <2>4 DEF Cleanup, Kill, Reap, RemoveSocket
  <2>5. ASSUME NEW c \in Children, ComeUp(c) \/ Die(c) PROVE Decided'
    BY <2>5 DEF ComeUp, Die
  <2>6. ASSUME NEW t \in Tests, RunTest(t) PROVE Decided'
    BY <2>6 DEF RunTest
  <2>7. CASE UNCHANGED vars
    BY <2>7 DEF vars
  <2> QED
    BY <2>1, <2>2, <2>3, <2>4, <2>5, <2>6, <2>7 DEF Next, Script
<1> QED
  BY <1>1, <1>2, HarnessInvariance, PTL DEF Spec

LEMMA ScriptShortens ==
    ASSUME HarnessInv, Script
    PROVE  ScriptLeft' < ScriptLeft
<1>1. tries \in Nat /\ MockPolls \in Nat /\ WorkerPolls \in Nat
  BY PollAssumption DEF HarnessInv, Typed
<1> USE <1>1 DEF ScriptLeft, Goto, Exit
<1>2. CASE Begin \/ BuildMock
  BY <1>2 DEF Begin, BuildMock, AfterMock
<1>3. CASE StartMock \/ StartWorker
  BY <1>3 DEF StartMock, StartWorker, Start
<1>4. CASE PollMock
  BY <1>4 DEF PollMock, Poll, AfterMock
<1>5. CASE PollWorker
  BY <1>5 DEF PollWorker, Poll
<1>6. CASE Stage \/ Finish
  BY <1>6 DEF Stage, Finish
<1>7. CASE Cleanup \/ RemoveSocket
  BY <1>7 DEF Cleanup, Kill, Reap, RemoveSocket
<1> QED
  BY <1>2, <1>3, <1>4, <1>5, <1>6, <1>7 DEF Script

\* The script takes at most 13 steps and one for every poll it may make: 93 with
\* its thirty and its fifty (run-integration.sh:99-111, 136-149).
THEOREM ScriptLeadsOnCorrect == Spec => ScriptLeadsOn
<1>1. HarnessInv /\ Decided /\ [Next]_vars
      => [/\ ScriptLeft \in Nat
          /\ Script => ScriptLeft' < ScriptLeft
          /\ ~Script => UNCHANGED <<pc, status, tries>>
          /\ status # "none" => status' = status]_vars
  <2> SUFFICES ASSUME HarnessInv, Decided, Next
               PROVE  /\ ScriptLeft \in Nat
                      /\ Script => ScriptLeft' < ScriptLeft
                      /\ ~Script => UNCHANGED <<pc, status, tries>>
                      /\ status # "none" => status' = status
    OBVIOUS
  <2>1. ScriptLeft \in Nat
    <3>1. tries \in Nat /\ MockPolls \in Nat /\ WorkerPolls \in Nat
      BY PollAssumption DEF HarnessInv, Typed
    <3> QED
      BY <3>1 DEF ScriptLeft
  <2>2. ~Script => UNCHANGED <<pc, status, tries>>
    BY DEF Next, ComeUp, Die, RunTest
  <2>3. ASSUME Script, status # "none" PROVE status' = status
    <3>1. pc \in Ending
      BY <2>3 DEF Decided
    <3>2. Cleanup \/ RemoveSocket
      BY <2>3, <3>1 DEF Script, Ending, Begin, BuildMock, StartMock, StartWorker, PollMock,
                        PollWorker, Stage, Finish
    <3> QED
      BY <3>2 DEF Cleanup, Kill, Reap, RemoveSocket, Goto
  <2> QED
    BY <2>1, <2>2, <2>3, ScriptShortens
<1>2. Spec => [][Next]_vars
  BY DEF Spec
<1> QED
  BY <1>1, <1>2, HarnessInvariance, DecidedInvariance, PTL DEF ScriptLeadsOn

=============================================================================
