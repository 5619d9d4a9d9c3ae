-------------------------- MODULE ScrapeLifecycle --------------------------
(***************************************************************************)
(* What the scrape queue promises about a job, without its timestamps, its *)
(* workers or its calls: a property has at most one active job; an active  *)
(* job is handed out a bounded number of times; it fails only after it was *)
(* tried; it is done only once its listing was delivered; done, withdrawn  *)
(* and failed jobs never become active again.                              *)
(***************************************************************************)
EXTENDS Integers

CONSTANTS Rids, NoRid, JobIds, MaxAttempts

VARIABLES
    phase,      \* phase[j]
    owner,      \* owner[j]: the property of job j
    tries,      \* tries[j]: times a worker was given job j
    delivered   \* jobs whose listing reached the DAG

vars == <<phase, owner, tries, delivered>>

Init ==
    /\ phase = [j \in JobIds |-> "unused"]
    /\ owner = [j \in JobIds |-> NoRid]
    /\ tries = [j \in JobIds |-> 0]
    /\ delivered = {}

Started(r) == {j \in JobIds : owner[j] = r /\ phase[j] \in {"active", "failed"}}

Enqueue(r, j) ==
    /\ phase[j] = "unused"
    /\ \A k \in Started(r) : phase[k] # "active"
    /\ phase' = [phase EXCEPT ![j] = "active"]
    /\ owner' = [owner EXCEPT ![j] = r]
    /\ UNCHANGED <<tries, delivered>>

Withdraw(r) ==
    /\ phase' = [j \in JobIds |-> IF j \in Started(r) THEN "withdrawn" ELSE phase[j]]
    /\ UNCHANGED <<owner, tries, delivered>>

Retry(r, j) ==
    /\ phase[j] = "unused"
    /\ phase' = [k \in JobIds |-> IF k = j THEN "active"
                                  ELSE IF k \in Started(r) THEN "withdrawn" ELSE phase[k]]
    /\ owner' = [owner EXCEPT ![j] = r]
    /\ UNCHANGED <<tries, delivered>>

\* A poll gives up on some tried jobs and hands out at most one other.
Poll(givenUp, handedOut) ==
    /\ \A j \in givenUp : phase[j] = "active" /\ tries[j] > 0
    /\ \A j \in handedOut : phase[j] = "active" /\ tries[j] < MaxAttempts
    /\ givenUp \cap handedOut = {}
    /\ \A j, k \in handedOut : j = k
    /\ phase' = [j \in JobIds |-> IF j \in givenUp THEN "failed" ELSE phase[j]]
    /\ tries' = [j \in JobIds |-> IF j \in handedOut THEN tries[j] + 1 ELSE tries[j]]
    /\ UNCHANGED <<owner, delivered>>

Fail(j) == Poll({j}, {})

Deliver(j) ==
    /\ phase[j] # "unused"
    /\ delivered' = delivered \cup {j}
    /\ UNCHANGED <<phase, owner, tries>>

Complete(j) ==
    /\ phase[j] \in {"active", "failed"}
    /\ j \in delivered
    /\ phase' = [phase EXCEPT ![j] = "done"]
    /\ UNCHANGED <<owner, tries, delivered>>

Next ==
    \/ \E r \in Rids : Withdraw(r) \/ \E j \in JobIds : Enqueue(r, j) \/ Retry(r, j)
    \/ \E j \in JobIds : Fail(j) \/ Deliver(j) \/ Complete(j)
    \/ \E givenUp, handedOut \in SUBSET JobIds : Poll(givenUp, handedOut)

Spec == Init /\ [][Next]_vars
=============================================================================
