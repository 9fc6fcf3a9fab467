------------------------------ MODULE Delivery ------------------------------
(***************************************************************************)
(* What reputation() promises a query, transport and feed apart: each scan *)
(* settles on the rows it will return, hands them over in order, each once *)
(* and without a gap, and ends with all of them handed over or with an     *)
(* error.  The code has no part of this name; Continuation and Reputation  *)
(* are shown to implement it.                                              *)
(***************************************************************************)
EXTENDS Integers, Sequences

CONSTANTS Scans, Rows

VARIABLES phase,   \* phase[s]: "new", "open", "done" or "failed"
          plan,    \* plan[s]: the rows scan s has settled on
          got      \* got[s]: the rows the query has received

vars == <<phase, plan, got>>

Init ==
    /\ phase = [s \in Scans |-> "new"]
    /\ plan = [s \in Scans |-> << >>]
    /\ got = [s \in Scans |-> << >>]

\* The scan settles on its rows.
Decide(s) ==
    /\ phase[s] = "new"
    /\ phase' = [phase EXCEPT ![s] = "open"]
    /\ plan'[s] \in Seq(Rows)
    /\ plan' = [plan EXCEPT ![s] = plan'[s]]
    /\ UNCHANGED got

\* The next rows, one or more, reach the query.
Deliver(s) ==
    /\ phase[s] = "open"
    /\ \E n \in (Len(got[s]) + 1)..Len(plan[s]) :
          got' = [got EXCEPT ![s] = SubSeq(plan[s], 1, n)]
    /\ UNCHANGED <<phase, plan>>

Complete(s) ==
    /\ phase[s] = "open"
    /\ got[s] = plan[s]
    /\ phase' = [phase EXCEPT ![s] = "done"]
    /\ UNCHANGED <<plan, got>>

\* One failure may end several scans: the worker they share died.
Fail ==
    /\ \E F \in SUBSET {s \in Scans : phase[s] \in {"new", "open"}} :
          phase' = [s \in Scans |-> IF s \in F THEN "failed" ELSE phase[s]]
    /\ UNCHANGED <<plan, got>>

Next ==
    \/ \E s \in Scans : Decide(s) \/ Deliver(s) \/ Complete(s)
    \/ Fail

Spec == Init /\ [][Next]_vars

=============================================================================
