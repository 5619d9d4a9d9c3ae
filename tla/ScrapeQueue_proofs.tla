------------------------- MODULE ScrapeQueue_proofs -------------------------
(***************************************************************************)
(* Proofs about ScrapeQueue, for any number of properties, jobs, workers   *)
(* and attempts.                                                           *)
(***************************************************************************)
EXTENDS ScrapeQueue, TLAPS

-----------------------------------------------------------------------------
(* Typing *)

\* backoff_delay stays within the cap, whatever the power of two.
LEMMA BackoffTyping ==
    ASSUME NEW n \in Nat
    PROVE  BackoffDelay(n) \in 0..BackoffCap
BY BoundsAssumption DEF BackoffDelay

LEMMA FailureTyping ==
    ASSUME TypeOK, NEW j \in JobIds
    PROVE  /\ StatusAfterFailure(j) \in {"failed", "pending"}
           /\ WaitAfterFailure(j) \in 0..BackoffCap
<1>1. attempts[j] + 1 \in Nat  BY DEF TypeOK
<1>2. BackoffDelay(attempts[j] + 1) \in 0..BackoffCap  BY <1>1, BackoffTyping
<1>. QED  BY <1>1, <1>2 DEF TypeOK, StatusAfterFailure, WaitAfterFailure

\* The calls keep their type as one is taken or added.
LEMMA CallTyping ==
    ASSUME TypeOK
    PROVE  /\ calls # <<>> => /\ Head(calls) \in UserCall \cup ReportCall
                              /\ Tail(calls) \in Seq(UserCall \cup ReportCall)
           /\ \A call \in UserCall \cup ReportCall :
                 Append(calls, call) \in Seq(UserCall \cup ReportCall)
<1>. DEFINE S == UserCall \cup ReportCall
<1>1. calls \in Seq(S)  BY DEF TypeOK
<1>. HIDE DEF S
<1>2. calls # <<>> => Head(calls) \in S /\ Tail(calls) \in Seq(S)  BY <1>1
<1>3. \A call \in S : Append(calls, call) \in Seq(S)  BY <1>1
<1>. QED  BY <1>2, <1>3 DEF S

-----------------------------------------------------------------------------
(***************************************************************************)
(* The typing is inductive together with two facts: a row that was ever    *)
(* inserted belongs to a property, and a busy worker has a job.            *)
(***************************************************************************)
RowsOwned   == \A j \in JobIds : status[j] # "unused" => rid[j] \in Rids
BusyWithJob == \A w \in Workers : worker[w].phase # "idle" => worker[w].job \in JobIds
TypeInv == TypeOK /\ RowsOwned /\ BusyWithJob

\* The half of TypeOK about the table, the other half, and each after a step.
RowsOK == /\ nextId' \in 1..(MaxJobs + 1)
          /\ rid' \in [JobIds -> Rids \cup {NoRid}]
          /\ status' \in [JobIds -> InTable \cup {"unused", "done", "withdrawn"}]
          /\ attempts' \in [JobIds -> Nat]
          /\ wait' \in [JobIds -> 0..BackoffCap]
          /\ age' \in [JobIds -> 0..StaleClaim]
          /\ RowsOwned'
RestOK == /\ worker' \in [Workers -> WorkerState]
          /\ calls' \in Seq(UserCall \cup ReportCall)
          /\ replies' \in SUBSET Reply
          /\ property' \in [Rids -> BOOLEAN]
          /\ claims' \in [JobIds -> Nat]
          /\ seeded' \in SUBSET JobIds
          /\ BusyWithJob'

LEMMA TypeInvParts == RowsOK /\ RestOK => TypeInv'
BY DEF RowsOK, RestOK, TypeInv, TypeOK

LEMMA InsertOK ==
    ASSUME TypeInv, NEW r \in Rids,
           NEW st \in [JobIds -> InTable \cup {"unused", "done", "withdrawn"}],
           \A j \in JobIds : st[j] # "unused" => status[j] # "unused",
           Insert(r, st)
    PROVE  RowsOK
<1>1. nextId' \in 1..(MaxJobs + 1)  BY BoundsAssumption DEF Insert, JobIds
<1>2. rid' \in [JobIds -> Rids \cup {NoRid}]  BY DEF Insert, TypeInv, TypeOK
<1>3. status' \in [JobIds -> InTable \cup {"unused", "done", "withdrawn"}]
  BY DEF Insert, InTable, Active
<1>4. RowsOwned'  BY DEF Insert, RowsOwned, TypeInv, TypeOK
<1>. QED  BY <1>1, <1>2, <1>3, <1>4 DEF Insert, RowsOK, TypeInv, TypeOK

LEMMA WithoutOK ==
    ASSUME TypeInv, NEW r
    PROVE  /\ WithoutJobsOf(r) \in [JobIds -> InTable \cup {"unused", "done", "withdrawn"}]
           /\ \A j \in JobIds : WithoutJobsOf(r)[j] # "unused" => status[j] # "unused"
BY DEF WithoutJobsOf, TypeInv, TypeOK, InTable, Active

LEMMA UnchangedOK ==
    ASSUME TypeInv, UNCHANGED rowVars
    PROVE  RowsOK
BY DEF TypeInv, TypeOK, RowsOwned, RowsOK, rowVars

LEMMA ReportOK ==
    ASSUME TypeInv, NEW j \in JobIds, NEW ok \in BOOLEAN, ReportScrape(j, ok)
    PROVE  RowsOK
<1>. USE DEF TypeInv, TypeOK
<1>1. CASE UNCHANGED rowVars  BY <1>1, UnchangedOK
<1>2. CASE /\ status[j] \in InTable
           /\ status' = [status EXCEPT ![j] = "done"]
           /\ UNCHANGED <<nextId, rid, attempts, wait, age>>
  BY <1>2 DEF RowsOK, RowsOwned, InTable, Active
<1>3. CASE /\ status[j] \in InTable
           /\ attempts' = [attempts EXCEPT ![j] = @ + 1]
           /\ status' = [status EXCEPT ![j] = StatusAfterFailure(j)]
           /\ wait' = [wait EXCEPT ![j] = WaitAfterFailure(j)]
           /\ UNCHANGED <<nextId, rid, age>>
  <2>1. StatusAfterFailure(j) \in {"failed", "pending"} /\ WaitAfterFailure(j) \in 0..BackoffCap
    BY FailureTyping
  <2>2. attempts' \in [JobIds -> Nat]  BY <1>3
  <2>3. status' \in [JobIds -> InTable \cup {"unused", "done", "withdrawn"}]
    BY <1>3, <2>1 DEF InTable, Active
  <2>4. wait' \in [JobIds -> 0..BackoffCap]  BY <1>3, <2>1
  <2>5. RowsOwned'  BY <1>3, <2>1 DEF RowsOwned, InTable, Active
  <2>. QED  BY <1>3, <2>2, <2>3, <2>4, <2>5 DEF RowsOK
<1>. QED  BY <1>1, <1>2, <1>3 DEF ReportScrape

LEMMA ClaimOK ==
    ASSUME TypeInv, NEW w \in Workers, Claim(w)
    PROVE  TypeInv'
<1>. USE DEF TypeInv, TypeOK
<1>1. \A j \in JobIds : /\ StatusAfterFailure(j) \in {"failed", "pending"}
                        /\ WaitAfterFailure(j) \in 0..BackoffCap
  BY FailureTyping
<1>2. /\ Reclaimed \in [JobIds -> InTable \cup {"unused", "done", "withdrawn"}]
      /\ \A j \in JobIds : Reclaimed[j] # "unused" => status[j] # "unused"
  BY <1>1 DEF Reclaimed, InTable, Active, Stale
<1>3. attempts' \in [JobIds -> Nat]  BY DEF Claim, ClaimDueScrape
<1>4. wait' \in [JobIds -> 0..BackoffCap]  BY <1>1 DEF Claim, ClaimDueScrape
<1>5. CASE status' = Reclaimed /\ UNCHANGED <<age, worker, claims>>
  <2>1. RowsOK  BY <1>2, <1>3, <1>4, <1>5 DEF RowsOK, RowsOwned, Claim, ClaimDueScrape
  <2>2. RestOK  BY <1>5 DEF RestOK, BusyWithJob, Claim
  <2>. QED  BY <2>1, <2>2, TypeInvParts
<1>6. CASE \E j \in JobIds :
              /\ Due(j)
              /\ status' = [Reclaimed EXCEPT ![j] = "in_progress"]
              /\ age' = [age EXCEPT ![j] = 0]
              /\ worker' = [worker EXCEPT ![w] = [phase |-> "scraping", job |-> j]]
              /\ claims' = [claims EXCEPT ![j] = @ + 1]
  <2>1. PICK j \in JobIds :
              /\ Due(j)
              /\ status' = [Reclaimed EXCEPT ![j] = "in_progress"]
              /\ age' = [age EXCEPT ![j] = 0]
              /\ worker' = [worker EXCEPT ![w] = [phase |-> "scraping", job |-> j]]
              /\ claims' = [claims EXCEPT ![j] = @ + 1]
    BY <1>6
  <2>2. status' \in [JobIds -> InTable \cup {"unused", "done", "withdrawn"}]
    BY <2>1, <1>2 DEF InTable, Active
  <2>3. age' \in [JobIds -> 0..StaleClaim]  BY <2>1, BoundsAssumption
  <2>4. RowsOwned'  BY <2>1, <1>2 DEF RowsOwned, Due, Claim, ClaimDueScrape
  <2>5. RowsOK  BY <1>3, <1>4, <2>2, <2>3, <2>4 DEF RowsOK, Claim, ClaimDueScrape
  <2>6. worker' \in [Workers -> WorkerState] /\ BusyWithJob'
    BY <2>1 DEF WorkerState, BusyWithJob
  <2>7. claims' \in [JobIds -> Nat]  BY <2>1
  <2>8. RestOK  BY <2>6, <2>7 DEF RestOK, Claim
  <2>. QED  BY <2>5, <2>8, TypeInvParts
<1>. QED  BY <1>5, <1>6 DEF Claim, ClaimDueScrape

LEMMA TypeInvStep ==
    ASSUME TypeInv, [Next]_vars
    PROVE  TypeInv'
<1>. USE DEF TypeInv, TypeOK
<1>1. ASSUME NEW r \in Rids, NEW fields \in BOOLEAN, AddByUrl(r, fields) PROVE TypeInv'
  <2>1. RowsOK  BY <1>1, InsertOK, UnchangedOK DEF AddByUrl, EnqueueScrape
  <2>2. [kind |-> "add", rid |-> r] \in UserCall \cup ReportCall  BY DEF UserCall
  <2>3. RestOK  BY <1>1, <2>2, CallTyping DEF AddByUrl, Submit, RestOK, BusyWithJob
  <2>. QED  BY <2>1, <2>3, TypeInvParts
<1>2. ASSUME NEW r \in Rids, NEW fields \in BOOLEAN, AddWithFacts(r, fields) PROVE TypeInv'
  <2>1. RowsOK  BY <1>2, UnchangedOK DEF AddWithFacts
  <2>2. [kind |-> "add", rid |-> r] \in UserCall \cup ReportCall  BY DEF UserCall
  <2>3. RestOK  BY <1>2, <2>2, CallTyping DEF AddWithFacts, Submit, RestOK, BusyWithJob
  <2>. QED  BY <2>1, <2>3, TypeInvParts
<1>3. ASSUME NEW r \in Rids, RetryScrape(r) PROVE TypeInv'
  <2>1. RowsOK  BY <1>3, InsertOK, WithoutOK DEF RetryScrape
  <2>2. RestOK  BY <1>3 DEF RetryScrape, RestOK, BusyWithJob
  <2>. QED  BY <2>1, <2>2, TypeInvParts
<1>c. ASSUME NEW r \in Rids, CancelScrape(r) PROVE RowsOK
  BY <1>c, WithoutOK DEF CancelScrape, RowsOK, RowsOwned
<1>4. ASSUME NEW r \in Rids, PatchDetails(r) PROVE TypeInv'
  <2>1. RowsOK  BY <1>4, <1>c DEF PatchDetails
  <2>2. RestOK  BY <1>4 DEF PatchDetails, RestOK, BusyWithJob
  <2>. QED  BY <2>1, <2>2, TypeInvParts
<1>5. ASSUME NEW r \in Rids, RemoveProperty(r) PROVE TypeInv'
  <2>1. RowsOK  BY <1>5, <1>c DEF RemoveProperty
  <2>2. [kind |-> "remove", rid |-> r] \in UserCall \cup ReportCall  BY DEF UserCall
  <2>3. RestOK  BY <1>5, <2>2, CallTyping DEF RemoveProperty, Submit, RestOK, BusyWithJob
  <2>. QED  BY <2>1, <2>3, TypeInvParts
<1>6. ASSUME NEW w \in Workers, Claim(w) PROVE TypeInv'
  BY <1>6, ClaimOK
<1>7. ASSUME NEW w \in Workers, PostListing(w) PROVE TypeInv'
  <2>. DEFINE j == worker[w].job
              call == [kind |-> "report", rid |-> rid[j], job |-> j, by |-> w]
  <2>1. RowsOK  BY <1>7, UnchangedOK DEF PostListing
  <2>2. j \in JobIds /\ rid[j] \in Rids
    BY <1>7 DEF PostListing, BusyWithJob, RowsOwned, InTable, Active
  <2>3. call \in UserCall \cup ReportCall  BY <2>2 DEF ReportCall
  <2>4. calls' = Append(calls, call)  BY <1>7 DEF PostListing, Submit
  <2>5. calls' \in Seq(UserCall \cup ReportCall)  BY <2>3, <2>4, CallTyping
  <2>6. worker' \in [Workers -> WorkerState] /\ BusyWithJob'
    BY <1>7, <2>2 DEF PostListing, WorkerState, BusyWithJob
  <2>7. RestOK  BY <1>7, <2>5, <2>6 DEF PostListing, RestOK
  <2>. QED  BY <2>1, <2>7, TypeInvParts
<1>8. ASSUME NEW w \in Workers, PostFailure(w) PROVE TypeInv'
  <2>1. worker[w].job \in JobIds  BY <1>8 DEF PostFailure, BusyWithJob
  <2>2. RowsOK  BY <1>8, <2>1, ReportOK DEF PostFailure
  <2>3. RestOK  BY <1>8 DEF PostFailure, RestOK, BusyWithJob, WorkerState, Idle
  <2>. QED  BY <2>2, <2>3, TypeInvParts
<1>9. ASSUME NEW w \in Workers, WorkerDies(w) PROVE TypeInv'
  <2>1. RowsOK  BY <1>9, UnchangedOK DEF WorkerDies
  <2>2. RestOK  BY <1>9 DEF WorkerDies, RestOK, BusyWithJob, WorkerState, Idle
  <2>. QED  BY <2>1, <2>2, TypeInvParts
<1>10. ASSUME RunAdd \/ RunRemove PROVE TypeInv'
  <2>1. RowsOK  BY <1>10, UnchangedOK DEF RunAdd, RunRemove
  <2>2. calls' \in Seq(UserCall \cup ReportCall)
    BY <1>10, CallTyping DEF RunAdd, RunRemove
  <2>3. property' \in [Rids -> BOOLEAN]  BY <1>10 DEF RunAdd, RunRemove
  <2>4. RestOK  BY <1>10, <2>2, <2>3 DEF RunAdd, RunRemove, RestOK, BusyWithJob
  <2>. QED  BY <2>1, <2>4, TypeInvParts
<1>11. ASSUME RunSeed PROVE TypeInv'
  <2>1. RowsOK  BY <1>11, UnchangedOK DEF RunSeed
  <2>2. Head(calls) \in ReportCall /\ calls' \in Seq(UserCall \cup ReportCall)
    BY <1>11, CallTyping DEF RunSeed, UserCall
  <2>3. property' \in [Rids -> BOOLEAN] /\ seeded' \in SUBSET JobIds
    BY <1>11, <2>2 DEF RunSeed, ReportCall
  <2>4. replies' \in SUBSET Reply
    BY <1>11, <2>2 DEF RunSeed, ReportCall, Reply
  <2>5. RestOK  BY <1>11, <2>2, <2>3, <2>4 DEF RunSeed, RestOK, BusyWithJob
  <2>. QED  BY <2>1, <2>5, TypeInvParts
<1>12. ASSUME NEW p \in replies, FinishReport(p) PROVE TypeInv'
  <2>1. p.job \in JobIds /\ p.by \in Workers /\ p.ok \in BOOLEAN  BY <1>12 DEF Reply
  <2>2. RowsOK  BY <1>12, <2>1, ReportOK DEF FinishReport
  <2>3. worker' \in [Workers -> WorkerState] /\ BusyWithJob'
    BY <1>12 DEF FinishReport, BusyWithJob, WorkerState, Idle
  <2>4. RestOK  BY <1>12, <2>3 DEF FinishReport, RestOK
  <2>. QED  BY <2>2, <2>4, TypeInvParts
<1>13. ASSUME ServerRestart PROVE TypeInv'
  <2>1. RowsOK  BY <1>13, UnchangedOK DEF ServerRestart
  <2>2. RestOK  BY <1>13 DEF ServerRestart, RestOK, BusyWithJob
  <2>. QED  BY <2>1, <2>2, TypeInvParts
<1>14. ASSUME Tick PROVE TypeInv'
  <2>1. wait' \in [JobIds -> 0..BackoffCap]  BY <1>14, BoundsAssumption DEF Tick
  <2>2. age' \in [JobIds -> 0..StaleClaim]  BY <1>14, BoundsAssumption DEF Tick
  <2>3. RowsOK  BY <1>14, <2>1, <2>2 DEF Tick, RowsOK, RowsOwned
  <2>4. RestOK  BY <1>14 DEF Tick, RestOK, BusyWithJob
  <2>. QED  BY <2>3, <2>4, TypeInvParts
<1>15. CASE UNCHANGED vars
  <2>1. RowsOK  BY <1>15, UnchangedOK DEF vars, rowVars
  <2>2. RestOK  BY <1>15 DEF vars, RestOK, BusyWithJob
  <2>. QED  BY <2>1, <2>2, TypeInvParts
<1>. QED
  BY <1>1, <1>2, <1>3, <1>4, <1>5, <1>6, <1>7, <1>8, <1>9, <1>10, <1>11, <1>12,
     <1>13, <1>14, <1>15
     DEF Next, UserNext, WorkerNext, ProcessorNext

LEMMA TypeInvInit == Init => TypeInv
BY BoundsAssumption
   DEF Init, TypeInv, TypeOK, RowsOwned, BusyWithJob, JobIds, InTable, Active,
       WorkerState, Idle

\* Every reachable state of the queue is typed, and its rows and workers are
\* never half made: no row without a property, no busy worker without a job.
THEOREM TypeInvariant == Spec => []TypeInv
<1>1. TypeInv /\ [Next]_vars => TypeInv'
  BY TypeInvStep
<1>. QED  BY <1>1, TypeInvInit, PTL DEF Spec

\* What the runs check as TypeOK, for every value of the constants: a back-off
\* within its cap, an age within its limit, calls and replies well formed.
THEOREM TypeCorrect == Spec => []TypeOK
<1>1. TypeInv => TypeOK  BY DEF TypeInv
<1>. QED  BY <1>1, TypeInvariant, PTL

-----------------------------------------------------------------------------
(***************************************************************************)
(* What a step can do to one job.  The safety theorems use this summary    *)
(* and never look at the actions again.                                    *)
(***************************************************************************)
Kept(j) == rid'[j] = rid[j] /\ claims'[j] = claims[j]

Same(j) == Kept(j) /\ status'[j] = status[j] /\ attempts'[j] = attempts[j]

Inserted(j) ==
    /\ j = nextId /\ nextId' = nextId + 1
    /\ status'[j] = "pending"
    /\ claims'[j] = claims[j] /\ attempts'[j] = attempts[j]
    /\ \A k \in JobIds \ {j} : rid'[k] = rid'[j] => status'[k] \notin Active

Left(j) ==
    /\ Kept(j) /\ attempts'[j] = attempts[j]
    /\ status[j] \in InTable
    /\ \/ status'[j] = "withdrawn"
       \/ status'[j] = "done" /\ \E p \in replies : p.job = j /\ p.ok

Claimed(j) ==
    /\ rid'[j] = rid[j] /\ attempts'[j] = attempts[j]
    /\ status[j] = "pending" /\ status'[j] = "in_progress"
    /\ claims'[j] = claims[j] + 1

Failed(j) ==
    /\ Kept(j) /\ attempts'[j] = attempts[j] + 1
    /\ status[j] \in InTable
    /\ status'[j] = StatusAfterFailure(j)

JobStep(j) == Same(j) \/ Inserted(j) \/ Left(j) \/ Claimed(j) \/ Failed(j)
NextIdStep == nextId' = nextId \/ (nextId \in JobIds /\ Inserted(nextId))

LEMMA InsertSteps ==
    ASSUME TypeInv, NEW r \in Rids, EnqueueScrape(r), UNCHANGED claims
    PROVE  (\A j \in JobIds : JobStep(j)) /\ NextIdStep
<1>. USE DEF TypeInv, TypeOK
<1>1. CASE HasActiveJob(r)
  BY <1>1 DEF EnqueueScrape, rowVars, JobStep, Same, Kept, NextIdStep
<1>2. CASE ~HasActiveJob(r)
  <2>1. Insert(r, status)  BY <1>2 DEF EnqueueScrape
  <2>2. Inserted(nextId)
    BY <1>2, <2>1 DEF Insert, Inserted, HasActiveJob
  <2>3. \A j \in JobIds \ {nextId} : Same(j)  BY <2>1 DEF Insert, Same, Kept
  <2>. QED  BY <2>1, <2>2, <2>3 DEF JobStep, NextIdStep, Insert
<1>. QED  BY <1>1, <1>2

LEMMA RetrySteps ==
    ASSUME TypeInv, NEW r \in Rids, Insert(r, WithoutJobsOf(r)), UNCHANGED claims
    PROVE  (\A j \in JobIds : JobStep(j)) /\ NextIdStep
<1>. USE DEF TypeInv, TypeOK
<1>1. /\ nextId \in JobIds /\ nextId' = nextId + 1 /\ attempts' = attempts
      /\ rid'[nextId] = r /\ status'[nextId] = "pending"
      /\ \A j \in JobIds \ {nextId} :
            rid'[j] = rid[j] /\ status'[j] = WithoutJobsOf(r)[j]
  BY WithoutOK DEF Insert
<1>2. \A j \in JobIds : \/ WithoutJobsOf(r)[j] = status[j] /\ (rid[j] = r => status[j] \notin Active)
                        \/ WithoutJobsOf(r)[j] = "withdrawn" /\ status[j] \in InTable
  BY DEF WithoutJobsOf, InTable
<1>3. \A j \in JobIds \ {nextId} : Same(j) \/ Left(j)
  BY <1>1, <1>2 DEF Same, Left, Kept
<1>4. Inserted(nextId)
  <2>1. \A k \in JobIds \ {nextId} : rid'[k] = r => status'[k] \notin Active
    BY <1>1, <1>2 DEF Active
  <2>. QED  BY <1>1, <2>1 DEF Inserted
<1>. QED  BY <1>1, <1>3, <1>4 DEF JobStep, NextIdStep

LEMMA CancelSteps ==
    ASSUME TypeInv, NEW r \in Rids, CancelScrape(r), UNCHANGED claims
    PROVE  (\A j \in JobIds : JobStep(j)) /\ NextIdStep
BY DEF TypeInv, TypeOK, CancelScrape, WithoutJobsOf, JobStep, Same, Left, Kept, NextIdStep

LEMMA ReportSteps ==
    ASSUME TypeInv, NEW i \in JobIds, NEW ok \in BOOLEAN, ReportScrape(i, ok),
           UNCHANGED claims, ok => \E p \in replies : p.job = i /\ p.ok
    PROVE  (\A j \in JobIds : JobStep(j)) /\ NextIdStep
<1>. USE DEF TypeInv, TypeOK
<1>1. CASE UNCHANGED rowVars
  BY <1>1 DEF rowVars, JobStep, Same, Kept, NextIdStep
<1>2. CASE /\ status[i] \in InTable /\ ok
           /\ status' = [status EXCEPT ![i] = "done"]
           /\ UNCHANGED <<nextId, rid, attempts, wait, age>>
  <2>1. Left(i)  BY <1>2 DEF Left, Kept
  <2>2. \A j \in JobIds \ {i} : Same(j)  BY <1>2 DEF Same, Kept
  <2>. QED  BY <1>2, <2>1, <2>2 DEF JobStep, NextIdStep
<1>3. CASE /\ status[i] \in InTable
           /\ attempts' = [attempts EXCEPT ![i] = @ + 1]
           /\ status' = [status EXCEPT ![i] = StatusAfterFailure(i)]
           /\ UNCHANGED <<nextId, rid, age>>
  <2>1. Failed(i)  BY <1>3 DEF Failed, Kept
  <2>2. \A j \in JobIds \ {i} : Same(j)  BY <1>3 DEF Same, Kept
  <2>. QED  BY <1>3, <2>1, <2>2 DEF JobStep, NextIdStep
<1>. QED  BY <1>1, <1>2, <1>3 DEF ReportScrape

LEMMA ClaimSteps ==
    ASSUME TypeInv, NEW w \in Workers, Claim(w)
    PROVE  (\A j \in JobIds : JobStep(j)) /\ NextIdStep
<1>. USE DEF TypeInv, TypeOK
<1>1. attempts' = [j \in JobIds |-> IF Stale(j) THEN attempts[j] + 1 ELSE attempts[j]]
      /\ UNCHANGED <<nextId, rid>>
  BY DEF Claim, ClaimDueScrape
<1>2. \A j \in JobIds : Stale(j) => attempts'[j] = attempts[j] + 1 /\ status[j] \in InTable
  BY <1>1 DEF Stale, InTable, Active
<1>3. CASE status' = Reclaimed /\ UNCHANGED claims
  <2>1. \A j \in JobIds : Stale(j) => Failed(j)
    BY <1>1, <1>2, <1>3 DEF Failed, Kept, Reclaimed
  <2>2. \A j \in JobIds : ~Stale(j) => Same(j)
    BY <1>1, <1>3 DEF Same, Kept, Reclaimed
  <2>. QED  BY <1>1, <2>1, <2>2 DEF JobStep, NextIdStep
<1>4. CASE \E i \in JobIds :
              /\ Due(i)
              /\ status' = [Reclaimed EXCEPT ![i] = "in_progress"]
              /\ claims' = [claims EXCEPT ![i] = @ + 1]
  <2>1. PICK i \in JobIds :
              /\ Due(i)
              /\ status' = [Reclaimed EXCEPT ![i] = "in_progress"]
              /\ claims' = [claims EXCEPT ![i] = @ + 1]
    BY <1>4
  <2>2. ~Stale(i) /\ status[i] = "pending"  BY <2>1 DEF Due, Stale
  <2>3. Claimed(i)  BY <1>1, <2>1, <2>2 DEF Claimed, Reclaimed
  <2>4. \A j \in JobIds \ {i} : status'[j] = Reclaimed[j] /\ claims'[j] = claims[j]
    BY <2>1 DEF Reclaimed
  <2>5. \A j \in JobIds \ {i} : Stale(j) => Failed(j)
    BY <1>1, <1>2, <2>4 DEF Failed, Kept, Reclaimed
  <2>6. \A j \in JobIds \ {i} : ~Stale(j) => Same(j)
    BY <1>1, <2>4 DEF Same, Kept, Reclaimed
  <2>. QED  BY <1>1, <2>3, <2>5, <2>6 DEF JobStep, NextIdStep
<1>. QED  BY <1>3, <1>4 DEF Claim, ClaimDueScrape

LEMMA JobSteps ==
    ASSUME TypeInv, [Next]_vars
    PROVE  (\A j \in JobIds : JobStep(j)) /\ NextIdStep
<1>1. ASSUME NEW r \in Rids, NEW fields \in BOOLEAN, AddByUrl(r, fields)
      PROVE (\A j \in JobIds : JobStep(j)) /\ NextIdStep
  BY <1>1, InsertSteps DEF AddByUrl
<1>2. ASSUME NEW r \in Rids, RetryScrape(r) PROVE (\A j \in JobIds : JobStep(j)) /\ NextIdStep
  BY <1>2, RetrySteps DEF RetryScrape
<1>3. ASSUME NEW r \in Rids, PatchDetails(r) \/ RemoveProperty(r)
      PROVE (\A j \in JobIds : JobStep(j)) /\ NextIdStep
  BY <1>3, CancelSteps DEF PatchDetails, RemoveProperty
<1>4. ASSUME NEW w \in Workers, Claim(w) PROVE (\A j \in JobIds : JobStep(j)) /\ NextIdStep
  BY <1>4, ClaimSteps
<1>5. ASSUME NEW w \in Workers, PostFailure(w) PROVE (\A j \in JobIds : JobStep(j)) /\ NextIdStep
  <2>1. worker[w].job \in JobIds  BY <1>5 DEF PostFailure, TypeInv, BusyWithJob
  <2>. QED  BY <1>5, <2>1, ReportSteps DEF PostFailure
<1>6. ASSUME NEW p \in replies, FinishReport(p) PROVE (\A j \in JobIds : JobStep(j)) /\ NextIdStep
  <2>1. p.job \in JobIds /\ p.ok \in BOOLEAN  BY <1>6 DEF TypeInv, TypeOK, Reply
  <2>. QED  BY <1>6, <2>1, ReportSteps DEF FinishReport
<1>7. ASSUME UNCHANGED <<nextId, rid, status, attempts, claims>>
      PROVE (\A j \in JobIds : JobStep(j)) /\ NextIdStep
  BY <1>7 DEF JobStep, Same, Kept, NextIdStep
<1>. QED
  BY <1>1, <1>2, <1>3, <1>4, <1>5, <1>6, <1>7
     DEF Next, UserNext, WorkerNext, ProcessorNext, AddWithFacts, PostListing,
         WorkerDies, RunAdd, RunRemove, RunSeed, ServerRestart, Tick, vars, rowVars

-----------------------------------------------------------------------------
(***************************************************************************)
(* The budget.  Slots are used in the order of their ids; a job that can   *)
(* still run has attempts left, one that failed has none; each claim but   *)
(* the current one has been paid for with a failed attempt.                *)
(***************************************************************************)
SlotsInOrder == \A j \in JobIds : status[j] = "unused" <=> j >= nextId

JobBudget(j) ==
    /\ status[j] = "unused" => attempts[j] = 0 /\ claims[j] = 0
    /\ status[j] \in Active => attempts[j] < MaxAttempts
    /\ status[j] = "failed" => attempts[j] >= MaxAttempts
    /\ status[j] = "pending" => claims[j] <= attempts[j]
    /\ claims[j] <= attempts[j] + 1
    /\ claims[j] <= MaxAttempts

Budget == \A j \in JobIds : JobBudget(j)

BudgetInv == TypeInv /\ SlotsInOrder /\ Budget

LEMMA SlotsStep ==
    ASSUME TypeInv, SlotsInOrder, \A j \in JobIds : JobStep(j), NextIdStep
    PROVE  SlotsInOrder'
<1>1. nextId \in Nat  BY DEF TypeInv, TypeOK
<1>2. ASSUME NEW j \in JobIds PROVE status'[j] = "unused" <=> j >= nextId'
  <2>1. j \in Nat  BY DEF JobIds
  <2>2. CASE Inserted(j)  BY <1>1, <2>1, <2>2 DEF Inserted
  <2>3. CASE ~Inserted(j)
    <3>1. status'[j] = "unused" <=> status[j] = "unused"
      BY <2>3, FailureTyping
         DEF JobStep, Same, Left, Claimed, Failed, InTable, Active, TypeInv
    <3>2. nextId' = nextId \/ (nextId' = nextId + 1 /\ j # nextId)
      BY <2>3 DEF NextIdStep, Inserted
    <3>. QED  BY <1>1, <2>1, <3>1, <3>2 DEF SlotsInOrder
  <2>. QED  BY <2>2, <2>3
<1>. QED  BY <1>2 DEF SlotsInOrder

LEMMA BudgetStep ==
    ASSUME TypeInv, SlotsInOrder, Budget, \A j \in JobIds : JobStep(j)
    PROVE  Budget'
<1>. SUFFICES ASSUME NEW j \in JobIds PROVE JobBudget(j)'  BY DEF Budget
<1>1. /\ JobBudget(j)
      /\ attempts[j] \in Nat /\ claims[j] \in Nat /\ j \in Nat
      /\ MaxAttempts \in Nat \ {0}
  BY BoundsAssumption DEF Budget, TypeInv, TypeOK, JobIds
<1>2. CASE Same(j)  BY <1>1, <1>2 DEF Same, Kept, JobBudget
<1>3. CASE Inserted(j)
  <2>1. status[j] = "unused"  BY <1>1, <1>3 DEF Inserted, SlotsInOrder
  <2>. QED  BY <1>1, <1>3, <2>1 DEF Inserted, JobBudget
<1>4. CASE Left(j)  BY <1>1, <1>4 DEF Left, Kept, JobBudget, Active
<1>5. CASE Claimed(j)  BY <1>1, <1>5 DEF Claimed, JobBudget, Active
<1>6. CASE Failed(j)
  BY <1>1, <1>6 DEF Failed, Kept, JobBudget, Active, StatusAfterFailure
<1>. QED  BY <1>2, <1>3, <1>4, <1>5, <1>6 DEF JobStep

LEMMA BudgetInvariant == Spec => []BudgetInv
<1>1. Init => BudgetInv
  <2>1. Init => SlotsInOrder /\ Budget
    BY BoundsAssumption DEF Init, SlotsInOrder, Budget, JobBudget, JobIds, Active
  <2>. QED  BY <2>1, TypeInvInit DEF BudgetInv
<1>2. BudgetInv /\ [Next]_vars => BudgetInv'
  BY TypeInvStep, JobSteps, SlotsStep, BudgetStep DEF BudgetInv
<1>. QED  BY <1>1, <1>2, PTL DEF Spec

\* However many workers die, time out or report late, no job is ever handed out
\* more than MAX_ATTEMPTS times: a claim is always paid for by a failed attempt.
THEOREM ClaimsAreBounded == Spec => []ClaimsBounded
<1>1. BudgetInv => ClaimsBounded  BY DEF BudgetInv, Budget, JobBudget, ClaimsBounded
<1>. QED  BY <1>1, BudgetInvariant, PTL

\* Whatever reports are still on their way, a job that failed for good is never
\* pending or in progress again.
THEOREM FailedIsFinal == Spec => FailedStaysFailed
<1>1. ASSUME BudgetInv, [Next]_vars, NEW j \in JobIds, status[j] = "failed"
      PROVE  status'[j] \notin Active
  <2>1. JobStep(j)  BY <1>1, JobSteps DEF BudgetInv
  <2>2. status[j] # "unused"  BY <1>1
  <2>3. attempts[j] >= MaxAttempts /\ attempts[j] \in Nat /\ MaxAttempts \in Nat
    BY <1>1, BoundsAssumption DEF BudgetInv, Budget, JobBudget, TypeInv, TypeOK
  <2>4. ~Inserted(j)
    BY <1>1, <2>2 DEF Inserted, BudgetInv, SlotsInOrder, TypeInv, TypeOK
  <2>5. Failed(j) => status'[j] = "failed"
    BY <2>3 DEF Failed, StatusAfterFailure
  <2>. QED  BY <1>1, <2>1, <2>4, <2>5 DEF JobStep, Same, Left, Claimed, Active
<1>2. BudgetInv /\ [Next]_vars
        => [\A j \in JobIds : status[j] = "failed" => status'[j] \notin Active]_vars
  BY <1>1
<1>. QED  BY <1>2, BudgetInvariant, PTL DEF Spec, FailedStaysFailed

-----------------------------------------------------------------------------
(* One active job per property, and the newest row is the one that counts *)

LEMMA ActiveStep ==
    ASSUME BudgetInv, [Next]_vars, NEW j \in JobIds, status'[j] \in Active
    PROVE  Inserted(j) \/ (status[j] \in Active /\ rid'[j] = rid[j])
<1>1. JobStep(j)  BY JobSteps DEF BudgetInv
<1>2. status[j] = "failed" => status'[j] \notin Active
  <2>1. ASSUME status[j] = "failed", Failed(j) PROVE status'[j] = "failed"
    BY <2>1, BoundsAssumption
       DEF Failed, StatusAfterFailure, BudgetInv, Budget, JobBudget, TypeInv, TypeOK
  <2>2. ~(status[j] = "failed" /\ Inserted(j))
    BY DEF Inserted, BudgetInv, SlotsInOrder, TypeInv, TypeOK
  <2>. QED  BY <1>1, <2>1, <2>2 DEF JobStep, Same, Left, Claimed, Active
<1>. QED
  BY <1>1, <1>2 DEF JobStep, Same, Left, Claimed, Failed, Kept, InTable, Active

\* enqueue_scrape's check-then-insert, the retry endpoint's drop-and-enqueue and
\* failure reports in any order never leave a property with two active jobs.
THEOREM AtMostOneActiveJob == Spec => []OneActiveJob
<1>1. Init => OneActiveJob  BY DEF Init, OneActiveJob, Active
<1>2. BudgetInv /\ OneActiveJob /\ [Next]_vars => OneActiveJob'
  <2>. SUFFICES ASSUME BudgetInv, OneActiveJob, [Next]_vars,
                       NEW j \in JobIds, NEW k \in JobIds,
                       status'[j] \in Active, status'[k] \in Active, rid'[j] = rid'[k]
                PROVE  j = k
    BY DEF OneActiveJob
  <2>1. CASE Inserted(j)  BY <2>1 DEF Inserted
  <2>2. CASE Inserted(k)  BY <2>2 DEF Inserted
  <2>3. CASE ~Inserted(j) /\ ~Inserted(k)  BY <2>3, ActiveStep DEF OneActiveJob
  <2>. QED  BY <2>1, <2>2, <2>3
<1>. QED  BY <1>1, <1>2, BudgetInvariant, PTL DEF Spec

\* scrape_status_for_rid reads the newest row of a property, and the newest row
\* is the active one whenever the property has one.
THEOREM NewestRowIsActive == Spec => []StatusShowsActiveJob
<1>1. Init => StatusShowsActiveJob  BY DEF Init, StatusShowsActiveJob, Active
<1>2. BudgetInv /\ StatusShowsActiveJob /\ [Next]_vars => StatusShowsActiveJob'
  <2>. SUFFICES ASSUME BudgetInv, StatusShowsActiveJob, [Next]_vars,
                       NEW j \in JobIds, NEW k \in JobIds,
                       status'[j] \in Active, status'[k] \in InTable, rid'[j] = rid'[k]
                PROVE  k <= j
    BY DEF StatusShowsActiveJob
  <2>1. j \in Nat /\ k \in Nat /\ nextId \in Nat /\ nextId' \in Nat
    BY TypeInvStep DEF JobIds, BudgetInv, TypeInv, TypeOK
  <2>2. SlotsInOrder'
    BY JobSteps, SlotsStep DEF BudgetInv
  <2>3. k < nextId'  BY <2>1, <2>2 DEF SlotsInOrder, InTable, Active
  <2>4. CASE Inserted(j)  BY <2>1, <2>3, <2>4 DEF Inserted
  <2>5. CASE ~Inserted(j)
    <3>1. status[j] \in Active /\ rid'[j] = rid[j]  BY <2>5, ActiveStep
    <3>2. CASE Inserted(k)  BY <2>1, <3>2 DEF Inserted
    <3>3. CASE ~Inserted(k)
      <4>1. JobStep(k)  BY JobSteps DEF BudgetInv
      <4>2. status[k] \in InTable /\ rid'[k] = rid[k]
        BY <3>3, <4>1 DEF JobStep, Same, Left, Claimed, Failed, Kept, InTable, Active
      <4>. QED  BY <3>1, <4>2 DEF StatusShowsActiveJob
    <3>. QED  BY <3>2, <3>3
  <2>. QED  BY <2>4, <2>5
<1>. QED  BY <1>1, <1>2, BudgetInvariant, PTL DEF Spec

-----------------------------------------------------------------------------
(***************************************************************************)
(* A report that reaches FinishReport with ok has been seeded: that is the *)
(* order of _apply_scraped_report and report_scrape in the endpoint.       *)
(***************************************************************************)
RepliesSeeded == \A p \in replies : p.ok => p.job \in seeded

LEMMA SeedStep ==
    ASSUME [Next]_vars, RepliesSeeded
    PROVE  seeded \subseteq seeded' /\ RepliesSeeded'
<1>1. CASE RunSeed
  <2>1. PICK ok \in BOOLEAN :
           /\ seeded' = IF ok THEN seeded \cup {Head(calls).job} ELSE seeded
           /\ replies' = replies \cup {[job |-> Head(calls).job, by |-> Head(calls).by,
                                        ok |-> ok]}
    BY <1>1 DEF RunSeed
  <2>. QED  BY <2>1 DEF RepliesSeeded
<1>2. ASSUME seeded' = seeded, replies' \subseteq replies
      PROVE  seeded \subseteq seeded' /\ RepliesSeeded'
  BY <1>2 DEF RepliesSeeded
<1>. QED
  BY <1>1, <1>2
     DEF Next, UserNext, WorkerNext, ProcessorNext, AddByUrl, AddWithFacts, RetryScrape,
         PatchDetails, RemoveProperty, Claim, PostListing, PostFailure, WorkerDies,
         RunAdd, RunRemove, FinishReport, ServerRestart, Tick, vars

\* A report deletes a job's row only after its listing reached the DAG, across
\* failed seeds, restarts of the server and duplicated reports.
THEOREM ReportedMeansSeeded == Spec => []DoneMeansSeeded
<1>1. Init => RepliesSeeded /\ DoneMeansSeeded
  BY DEF Init, RepliesSeeded, DoneMeansSeeded
<1>2. BudgetInv /\ RepliesSeeded /\ DoneMeansSeeded /\ [Next]_vars
        => RepliesSeeded' /\ DoneMeansSeeded'
  <2>. SUFFICES ASSUME BudgetInv, RepliesSeeded, DoneMeansSeeded, [Next]_vars
                PROVE  RepliesSeeded' /\ DoneMeansSeeded'
    OBVIOUS
  <2>1. seeded \subseteq seeded' /\ RepliesSeeded'  BY SeedStep
  <2>2. ASSUME NEW j \in JobIds, status'[j] = "done" PROVE j \in seeded
    <3>1. JobStep(j)  BY JobSteps DEF BudgetInv
    <3>2. status[j] = "done" \/ \E p \in replies : p.job = j /\ p.ok
      BY <2>2, <3>1 DEF JobStep, Same, Inserted, Left, Claimed, Failed, StatusAfterFailure
    <3>. QED  BY <3>2 DEF RepliesSeeded, DoneMeansSeeded
  <2>. QED  BY <2>1, <2>2 DEF DoneMeansSeeded
<1>. QED  BY <1>1, <1>2, BudgetInvariant, PTL DEF Spec

-----------------------------------------------------------------------------
(* Two workers on one job *)

\* What a step can do to the workers: they let go of jobs, or one claims one.
WorkersLetGo == \A w \in Workers : worker'[w].job \in {worker[w].job, NoJob}
WorkerClaims ==
    \E w \in Workers, j \in JobIds :
       /\ Claimed(j)
       /\ worker'[w].job = j
       /\ \A v \in Workers \ {w} : worker'[v] = worker[v]

LEMMA WorkerSteps ==
    ASSUME TypeInv, [Next]_vars
    PROVE  WorkersLetGo \/ WorkerClaims
<1>. USE DEF TypeInv, TypeOK
<1>1. ASSUME NEW w \in Workers, Claim(w) PROVE WorkersLetGo \/ WorkerClaims
  <2>1. CASE UNCHANGED worker  BY <2>1 DEF WorkersLetGo
  <2>2. CASE \E j \in JobIds :
                /\ Due(j)
                /\ status' = [Reclaimed EXCEPT ![j] = "in_progress"]
                /\ worker' = [worker EXCEPT ![w] = [phase |-> "scraping", job |-> j]]
                /\ claims' = [claims EXCEPT ![j] = @ + 1]
    <3>1. PICK j \in JobIds :
                /\ Due(j)
                /\ status' = [Reclaimed EXCEPT ![j] = "in_progress"]
                /\ worker' = [worker EXCEPT ![w] = [phase |-> "scraping", job |-> j]]
                /\ claims' = [claims EXCEPT ![j] = @ + 1]
      BY <2>2
    <3>2. ~Stale(j) /\ status[j] = "pending"  BY <3>1 DEF Due, Stale
    <3>3. rid' = rid /\ attempts'[j] = attempts[j]
      BY <1>1, <3>2 DEF Claim, ClaimDueScrape
    <3>4. Claimed(j)  BY <3>1, <3>2, <3>3 DEF Claimed, Reclaimed
    <3>. QED  BY <3>1, <3>4 DEF WorkerClaims
  <2>. QED  BY <1>1, <2>1, <2>2 DEF Claim, ClaimDueScrape
<1>2. ASSUME NEW w \in Workers, PostListing(w) \/ PostFailure(w) \/ WorkerDies(w)
      PROVE  WorkersLetGo
  <2>1. CASE worker' = [worker EXCEPT ![w].phase = "posting"]
    <3>1. \A v \in Workers : worker'[v].job = worker[v].job  BY <2>1 DEF WorkerState
    <3>. QED  BY <3>1 DEF WorkersLetGo
  <2>2. CASE worker' = [worker EXCEPT ![w] = Idle]
    <3>1. worker'[w].job = NoJob /\ \A v \in Workers \ {w} : worker'[v] = worker[v]
      BY <2>2 DEF Idle
    <3>. QED  BY <3>1 DEF WorkersLetGo
  <2>. QED  BY <1>2, <2>1, <2>2 DEF PostListing, PostFailure, WorkerDies
<1>3. ASSUME NEW p \in replies, FinishReport(p) PROVE WorkersLetGo
  BY <1>3 DEF FinishReport, WorkersLetGo, Idle
<1>4. CASE UNCHANGED worker  BY <1>4 DEF WorkersLetGo
<1>. QED
  BY <1>1, <1>2, <1>3, <1>4
     DEF Next, UserNext, WorkerNext, ProcessorNext, AddByUrl, AddWithFacts, RetryScrape,
         PatchDetails, RemoveProperty, RunAdd, RunRemove, RunSeed, ServerRestart, Tick,
         vars

\* A job some worker holds has been claimed.
HeldIsClaimed ==
    \A w \in Workers : worker[w].job # NoJob => claims[worker[w].job] >= 1

\* The claim itself never hands out a job that is being worked on: two workers hold
\* one job only after a failure of it was recorded, by a report or by STALE_CLAIM.
THEOREM ClaimIsExclusive == Spec => []NoDoubleScrape
<1>1. Init => HeldIsClaimed /\ NoDoubleScrape
  BY DEF Init, HeldIsClaimed, NoDoubleScrape, Idle
<1>2. BudgetInv /\ HeldIsClaimed /\ NoDoubleScrape /\ [Next]_vars
        => HeldIsClaimed' /\ NoDoubleScrape'
  <2>. SUFFICES ASSUME BudgetInv, HeldIsClaimed, NoDoubleScrape, [Next]_vars
                PROVE  HeldIsClaimed' /\ NoDoubleScrape'
    OBVIOUS
  <2>1. \A w \in Workers : worker[w].job \in JobIds \cup {NoJob}
    BY DEF BudgetInv, TypeInv, TypeOK, WorkerState
  <2>2. \A j \in JobIds : /\ attempts[j] \in Nat /\ attempts'[j] \in Nat
                          /\ claims[j] \in Nat /\ claims'[j] \in Nat
    BY TypeInvStep DEF BudgetInv, TypeInv, TypeOK
  <2>3. \A j \in JobIds : attempts'[j] >= attempts[j] /\ claims'[j] >= claims[j]
    <3>. SUFFICES ASSUME NEW j \in JobIds
                  PROVE  attempts'[j] >= attempts[j] /\ claims'[j] >= claims[j]
      OBVIOUS
    <3>1. JobStep(j)  BY JobSteps DEF BudgetInv
    <3>. QED  BY <2>2, <3>1 DEF JobStep, Same, Inserted, Left, Claimed, Failed, Kept
  <2>4. NoJob \notin JobIds  BY DEF NoJob, JobIds
  <2>5. CASE WorkersLetGo
    <3>1. HeldIsClaimed'
      BY <2>1, <2>2, <2>3, <2>4, <2>5 DEF WorkersLetGo, HeldIsClaimed
    <3>2. NoDoubleScrape'
      BY <2>1, <2>2, <2>3, <2>4, <2>5 DEF WorkersLetGo, NoDoubleScrape
    <3>. QED  BY <3>1, <3>2
  <2>6. CASE WorkerClaims
    <3>1. PICK w \in Workers, j \in JobIds :
             /\ Claimed(j)
             /\ worker'[w].job = j
             /\ \A v \in Workers \ {w} : worker'[v] = worker[v]
      BY <2>6 DEF WorkerClaims
    <3>2. claims'[j] >= 1  BY <2>2, <3>1 DEF Claimed
    <3>3. HeldIsClaimed'
      BY <2>1, <2>2, <2>3, <3>1, <3>2 DEF HeldIsClaimed
    <3>4. ASSUME NEW v \in Workers \ {w}, worker[v].job = j PROVE attempts'[j] >= 1
      <4>1. claims[j] >= 1  BY <2>4, <3>4 DEF HeldIsClaimed
      <4>2. claims[j] <= attempts[j]
        BY <3>1 DEF Claimed, BudgetInv, Budget, JobBudget
      <4>. QED  BY <2>2, <2>3, <4>1, <4>2
    <3>5. NoDoubleScrape'
      BY <2>1, <2>2, <2>3, <3>1, <3>4 DEF NoDoubleScrape
    <3>. QED  BY <3>3, <3>5
  <2>. QED  BY <2>5, <2>6, WorkerSteps DEF BudgetInv
<1>. QED  BY <1>1, <1>2, BudgetInvariant, PTL DEF Spec

-----------------------------------------------------------------------------
(***************************************************************************)
(* ScrapeQueue implements ScrapeLifecycle: under the mapping of Lifecycle  *)
(* every step of the queue is a step of a job's life or a stutter.         *)
(***************************************************************************)

(***************************************************************************)
(* The abstract specification lets a job fail, or be delivered, only after *)
(* it was handed out.  So: a job in progress, held by a worker or named in *)
(* a report, wherever the report has got to, has been claimed.             *)
(***************************************************************************)
RunningIsClaimed  == \A j \in JobIds : status[j] = "in_progress" => claims[j] >= 1
ReportsAreClaimed ==
    /\ \A i \in 1..Len(calls) : calls[i].kind = "report" => claims[calls[i].job] >= 1
    /\ \A p \in replies : claims[p.job] >= 1

ClaimInv == RunningIsClaimed /\ HeldIsClaimed /\ ReportsAreClaimed

LEMMA ClaimsGrow ==
    ASSUME BudgetInv, [Next]_vars
    PROVE  \A j \in JobIds : /\ claims[j] \in Nat /\ claims'[j] \in Nat
                             /\ claims'[j] >= claims[j]
<1>. SUFFICES ASSUME NEW j \in JobIds
              PROVE  /\ claims[j] \in Nat /\ claims'[j] \in Nat
                     /\ claims'[j] >= claims[j]
  OBVIOUS
<1>1. claims[j] \in Nat /\ claims'[j] \in Nat
  BY TypeInvStep DEF BudgetInv, TypeInv, TypeOK
<1>2. JobStep(j)  BY JobSteps DEF BudgetInv
<1>. QED  BY <1>1, <1>2 DEF JobStep, Same, Inserted, Left, Claimed, Failed, Kept

LEMMA RunningStep ==
    ASSUME BudgetInv, [Next]_vars, RunningIsClaimed
    PROVE  RunningIsClaimed'
<1>. SUFFICES ASSUME NEW j \in JobIds, status'[j] = "in_progress" PROVE claims'[j] >= 1
  BY DEF RunningIsClaimed
<1>1. claims[j] \in Nat  BY DEF BudgetInv, TypeInv, TypeOK
<1>2. JobStep(j)  BY JobSteps DEF BudgetInv
<1>. QED
  BY <1>1, <1>2
     DEF JobStep, Same, Inserted, Left, Claimed, Failed, Kept, StatusAfterFailure,
         RunningIsClaimed

LEMMA HeldStep ==
    ASSUME BudgetInv, [Next]_vars, HeldIsClaimed
    PROVE  HeldIsClaimed'
<1>1. \A w \in Workers : worker[w].job \in JobIds \cup {NoJob}
  BY DEF BudgetInv, TypeInv, TypeOK, WorkerState
<1>2. CASE WorkersLetGo  BY <1>1, <1>2, ClaimsGrow DEF WorkersLetGo, HeldIsClaimed
<1>3. CASE WorkerClaims
  <2>1. PICK w \in Workers, j \in JobIds :
           /\ Claimed(j)
           /\ worker'[w].job = j
           /\ \A v \in Workers \ {w} : worker'[v] = worker[v]
    BY <1>3 DEF WorkerClaims
  <2>2. claims'[j] >= 1  BY <2>1, ClaimsGrow DEF Claimed
  <2>. QED  BY <1>1, <2>1, <2>2, ClaimsGrow DEF HeldIsClaimed
<1>. QED  BY <1>2, <1>3, WorkerSteps DEF BudgetInv

\* How a step changes the reports under way: they end, or a worker posts one
\* for the job it holds, or the processor turns the oldest into a reply.
ReportsEnd == calls' \in {calls, <<>>, Tail(calls)} /\ replies' \subseteq replies
ReportPosted ==
    /\ replies' = replies
    /\ \E call \in UserCall \cup ReportCall :
          /\ calls' = Append(calls, call)
          /\ call.kind = "report" =>
                \E w \in Workers : call.job = worker[w].job /\ worker[w].phase # "idle"
ReportSeeded ==
    /\ calls # <<>> /\ Head(calls).kind = "report"
    /\ calls' = Tail(calls)
    /\ \A p \in replies' : p \in replies \/ p.job = Head(calls).job

LEMMA ReportMoves ==
    ASSUME TypeInv, [Next]_vars
    PROVE  ReportsEnd \/ ReportPosted \/ ReportSeeded
<1>1. ASSUME NEW r \in Rids, NEW fields \in BOOLEAN,
             AddByUrl(r, fields) \/ AddWithFacts(r, fields)
      PROVE  ReportPosted
  <2>1. [kind |-> "add", rid |-> r] \in UserCall  BY DEF UserCall
  <2>. QED  BY <1>1, <2>1 DEF AddByUrl, AddWithFacts, Submit, ReportPosted
<1>2. ASSUME NEW r \in Rids, RemoveProperty(r) PROVE ReportPosted
  <2>1. [kind |-> "remove", rid |-> r] \in UserCall  BY DEF UserCall
  <2>. QED  BY <1>2, <2>1 DEF RemoveProperty, Submit, ReportPosted
<1>3. ASSUME NEW w \in Workers, PostListing(w) PROVE ReportPosted
  <2>. DEFINE j == worker[w].job
              call == [kind |-> "report", rid |-> rid[j], job |-> j, by |-> w]
  <2>1. j \in JobIds /\ rid[j] \in Rids
    BY <1>3 DEF PostListing, TypeInv, BusyWithJob, RowsOwned, InTable, Active
  <2>2. call \in ReportCall  BY <2>1 DEF ReportCall
  <2>3. calls' = Append(calls, call) /\ replies' = replies /\ worker[w].phase # "idle"
    BY <1>3 DEF PostListing, Submit
  <2>4. call.job = worker[w].job  OBVIOUS
  <2>. HIDE DEF call
  <2>. QED  BY <2>2, <2>3, <2>4 DEF ReportPosted
<1>4. CASE RunSeed  BY <1>4 DEF RunSeed, ReportSeeded
<1>. QED
  BY <1>1, <1>2, <1>3, <1>4
     DEF Next, UserNext, WorkerNext, ProcessorNext, RetryScrape, PatchDetails, Claim,
         PostFailure, WorkerDies, RunAdd, RunRemove, FinishReport, ServerRestart, Tick,
         vars, ReportsEnd

LEMMA ReportsStep ==
    ASSUME BudgetInv, [Next]_vars, HeldIsClaimed, ReportsAreClaimed
    PROVE  ReportsAreClaimed'
<1>. DEFINE S == UserCall \cup ReportCall
<1>1. calls \in Seq(S) /\ replies \subseteq Reply  BY DEF BudgetInv, TypeInv, TypeOK
<1>2. \A call \in S : call.kind = "report" => call.job \in JobIds
  BY DEF UserCall, ReportCall
<1>3. \A p \in replies : p.job \in JobIds  BY <1>1 DEF Reply
<1>. HIDE DEF S
<1>4. \A i \in 1..Len(calls) : calls[i] \in S  BY <1>1
<1>5. \A i \in 1..Len(calls) : calls[i].kind = "report" => claims'[calls[i].job] >= 1
  BY <1>2, <1>4, ClaimsGrow DEF ReportsAreClaimed
<1>6. \A p \in replies : claims'[p.job] >= 1
  BY <1>3, ClaimsGrow DEF ReportsAreClaimed
<1>7. \A i \in 1..Len(Tail(calls)) :
         calls # <<>> => Tail(calls)[i] = calls[i + 1] /\ i + 1 \in 1..Len(calls)
  BY <1>1
<1>8. CASE ReportsEnd
  <2>1. \A i \in 1..Len(calls') : calls'[i].kind = "report" => claims'[calls'[i].job] >= 1
    <3>1. CASE calls' = calls  BY <1>5, <3>1
    <3>2. CASE calls' = <<>>  BY <3>2
    <3>3. CASE calls' = Tail(calls) /\ calls # <<>>  BY <1>5, <1>7, <3>3
    <3>4. CASE calls' = Tail(calls) /\ calls = <<>>  BY <3>4
    <3>. QED  BY <1>8, <3>1, <3>2, <3>3, <3>4 DEF ReportsEnd
  <2>. QED  BY <1>6, <1>8, <2>1 DEF ReportsEnd, ReportsAreClaimed
<1>9. CASE ReportPosted
  <2>1. PICK call \in S :
           /\ calls' = Append(calls, call)
           /\ call.kind = "report" =>
                 \E w \in Workers : call.job = worker[w].job /\ worker[w].phase # "idle"
    BY <1>9 DEF ReportPosted, S
  <2>2. call.kind = "report" => claims'[call.job] >= 1
    <3>. SUFFICES ASSUME call.kind = "report" PROVE claims'[call.job] >= 1
      OBVIOUS
    <3>1. PICK w \in Workers : call.job = worker[w].job /\ worker[w].phase # "idle"
      BY <2>1
    <3>2. call.job \in JobIds  BY <1>2
    <3>3. claims[call.job] >= 1
      BY <3>1, <3>2 DEF HeldIsClaimed, NoJob, JobIds
    <3>. QED  BY <3>2, <3>3, ClaimsGrow
  <2>3. \A i \in 1..Len(calls') :
           \/ i \in 1..Len(calls) /\ calls'[i] = calls[i]
           \/ calls'[i] = call
    BY <1>1, <2>1
  <2>. QED  BY <1>5, <1>6, <1>9, <2>2, <2>3 DEF ReportPosted, ReportsAreClaimed
<1>10. CASE ReportSeeded
  <2>1. 1 \in 1..Len(calls) /\ Head(calls) = calls[1]  BY <1>1, <1>10 DEF ReportSeeded
  <2>2. \A p \in replies' : claims'[p.job] >= 1
    BY <1>5, <1>6, <1>10, <2>1 DEF ReportSeeded
  <2>. QED  BY <1>5, <1>7, <1>10, <2>2 DEF ReportSeeded, ReportsAreClaimed
<1>. QED  BY <1>8, <1>9, <1>10, ReportMoves DEF BudgetInv

LEMMA ClaimInvariant == Spec => []ClaimInv
<1>1. Init => ClaimInv
  BY DEF Init, ClaimInv, RunningIsClaimed, HeldIsClaimed, ReportsAreClaimed, Idle
<1>2. BudgetInv /\ ClaimInv /\ [Next]_vars => ClaimInv'
  BY RunningStep, HeldStep, ReportsStep DEF ClaimInv
<1>. QED  BY <1>1, <1>2, BudgetInvariant, PTL DEF Spec

-----------------------------------------------------------------------------
(***************************************************************************)
(* Each action against the abstract one it implements.                     *)
(***************************************************************************)
Ph == [j \in JobIds |-> IF status[j] \in Active THEN "active" ELSE status[j]]

\* The abstract job stands still.
Stutters == Ph' = Ph /\ rid' = rid /\ claims' = claims /\ seeded' = seeded

LEMMA StartedJobs ==
    ASSUME TypeInv, NEW r \in Rids, NEW j \in JobIds
    PROVE  j \in Lifecycle!Started(r) <=> rid[j] = r /\ status[j] \in InTable
BY DEF Lifecycle!Started, TypeInv, TypeOK, InTable, Active

LEMMA EnqueueRefines ==
    ASSUME BudgetInv, NEW r \in Rids, NEW fields \in BOOLEAN, AddByUrl(r, fields)
    PROVE  Stutters \/ \E j \in JobIds : Lifecycle!Enqueue(r, j)
<1>1. CASE UNCHANGED rowVars  BY <1>1 DEF AddByUrl, rowVars, Stutters, Ph
<1>2. CASE ~HasActiveJob(r) /\ Insert(r, status)
  <2>1. PICK n \in JobIds : n = nextId /\ status[n] = "unused"
    BY <1>2 DEF Insert, BudgetInv, SlotsInOrder, TypeInv, TypeOK
  <2>2. \A k \in Lifecycle!Started(r) : k \in JobIds /\ Ph[k] # "active"
    BY <1>2
       DEF Lifecycle!Started, HasActiveJob, Ph, Active, InTable, BudgetInv, TypeInv, TypeOK
  <2>3. Ph' = [Ph EXCEPT ![n] = "active"] /\ Ph[n] = "unused"
    <3>1. status' = [status EXCEPT ![n] = "pending"]  BY <1>2, <2>1 DEF Insert
    <3>. QED  BY <2>1, <3>1 DEF Ph, Active, BudgetInv, TypeInv, TypeOK
  <2>4. rid' = [rid EXCEPT ![n] = r] /\ UNCHANGED <<claims, seeded>>
    BY <1>2, <2>1 DEF Insert, AddByUrl
  <2>5. Lifecycle!Enqueue(r, n)  BY <2>2, <2>3, <2>4 DEF Lifecycle!Enqueue, Ph
  <2>. QED  BY <2>5
<1>. QED  BY <1>1, <1>2 DEF AddByUrl, EnqueueScrape

LEMMA RetryRefines ==
    ASSUME BudgetInv, NEW r \in Rids, RetryScrape(r)
    PROVE  \E j \in JobIds : Lifecycle!Retry(r, j)
<1>1. PICK n \in JobIds : n = nextId /\ status[n] = "unused"
  BY DEF RetryScrape, Insert, BudgetInv, SlotsInOrder, TypeInv, TypeOK
<1>2. \A j \in JobIds : j \in Lifecycle!Started(r) <=> rid[j] = r /\ status[j] \in InTable
  BY StartedJobs DEF BudgetInv
<1>3. Lifecycle!Retry(r, n)
  BY <1>1, <1>2
     DEF RetryScrape, Insert, WithoutJobsOf, Lifecycle!Retry, BudgetInv, TypeInv, TypeOK,
         InTable, Active
<1>. QED  BY <1>3

LEMMA WithdrawRefines ==
    ASSUME TypeInv, NEW r \in Rids, CancelScrape(r), UNCHANGED <<claims, seeded>>
    PROVE  Lifecycle!Withdraw(r)
<1>1. \A j \in JobIds : j \in Lifecycle!Started(r) <=> rid[j] = r /\ status[j] \in InTable
  BY StartedJobs
<1>. QED
  BY <1>1 DEF CancelScrape, WithoutJobsOf, Lifecycle!Withdraw, TypeInv, TypeOK, InTable, Active

LEMMA SeedRefines ==
    ASSUME BudgetInv, ClaimInv, RunSeed
    PROVE  Stutters \/ \E j \in JobIds : Lifecycle!Deliver(j)
<1>1. Head(calls) \in ReportCall
  BY CallTyping DEF RunSeed, BudgetInv, TypeInv, UserCall
<1>2. Head(calls).job \in JobIds  BY <1>1 DEF ReportCall
<1>3. 1 \in 1..Len(calls) /\ Head(calls) = calls[1]
  BY DEF RunSeed, BudgetInv, TypeInv, TypeOK
<1>4. claims[Head(calls).job] >= 1
  BY <1>3 DEF RunSeed, ClaimInv, ReportsAreClaimed
<1>5. status[Head(calls).job] # "unused"
  BY <1>2, <1>4 DEF BudgetInv, Budget, JobBudget
<1>6. UNCHANGED <<status, rid, claims>>  BY DEF RunSeed, rowVars
<1>7. CASE seeded' = seeded  BY <1>6, <1>7 DEF Stutters, Ph
<1>8. CASE seeded' = seeded \cup {Head(calls).job}
  <2>1. Lifecycle!Deliver(Head(calls).job)
    BY <1>2, <1>5, <1>6, <1>8 DEF Lifecycle!Deliver, Active
  <2>. QED  BY <1>2, <2>1
<1>. QED  BY <1>7, <1>8 DEF RunSeed

\* Failing a job that was claimed, reported or presumed.
LEMMA ReportRefines ==
    ASSUME BudgetInv, NEW j \in JobIds, NEW ok \in BOOLEAN, ReportScrape(j, ok),
           UNCHANGED <<claims, seeded>>, claims[j] >= 1, ok => j \in seeded
    PROVE  Stutters \/ Lifecycle!Fail(j) \/ Lifecycle!Complete(j)
<1>. USE DEF BudgetInv, TypeInv, TypeOK
<1>1. CASE status[j] \notin InTable
  BY <1>1 DEF ReportScrape, rowVars, Stutters, Ph
<1>2. CASE status[j] \in InTable /\ ok
  BY <1>2 DEF ReportScrape, Lifecycle!Complete, InTable, Active
<1>3. CASE status[j] \in InTable /\ ~ok
  <2>1. /\ status' = [status EXCEPT ![j] = StatusAfterFailure(j)]
        /\ UNCHANGED <<rid, claims, seeded>>
    BY <1>3 DEF ReportScrape
  <2>2. CASE Ph'[j] = Ph[j]
    <3>1. Ph' = Ph  BY <2>1, <2>2 DEF Ph
    <3>. QED  BY <2>1, <3>1 DEF Stutters
  <2>3. CASE Ph'[j] # Ph[j]
    <3>1. status[j] \in Active /\ status'[j] = "failed"
      BY <1>3, <2>1, <2>3, FailureTyping, BoundsAssumption
         DEF Ph, StatusAfterFailure, InTable, Active, Budget, JobBudget
    <3>2. Ph[j] = "active" /\ Ph' = [k \in JobIds |-> IF k \in {j} THEN "failed" ELSE Ph[k]]
      BY <2>1, <3>1 DEF Ph, Active
    <3>3. claims' = [k \in JobIds |-> IF k \in {} THEN claims[k] + 1 ELSE claims[k]]
      BY <2>1
    <3>4. Lifecycle!Fail(j)
      BY <2>1, <3>2, <3>3 DEF Lifecycle!Fail, Lifecycle!Poll, Ph
    <3>. QED  BY <3>4
  <2>. QED  BY <2>2, <2>3
<1>. QED  BY <1>1, <1>2, <1>3

\* A claim gives up on the stale claims that used up their attempts and hands
\* out at most one other job.
LEMMA ClaimRefines ==
    ASSUME BudgetInv, RunningIsClaimed, NEW w \in Workers, Claim(w)
    PROVE  \E givenUp, handedOut \in SUBSET JobIds : Lifecycle!Poll(givenUp, handedOut)
<1>. USE DEF BudgetInv, TypeInv, TypeOK
<1>. DEFINE GivenUp == {j \in JobIds : Stale(j) /\ Reclaimed[j] = "failed"}
<1>1. \A j \in GivenUp : j \in JobIds /\ Ph[j] = "active" /\ claims[j] > 0
  BY DEF Ph, Active, Stale, RunningIsClaimed
<1>2. \A j \in JobIds : /\ Stale(j) /\ j \notin GivenUp => Reclaimed[j] = "pending"
                        /\ ~Stale(j) => Reclaimed[j] = status[j]
  BY FailureTyping DEF Reclaimed
<1>3. UNCHANGED <<rid, seeded>>  BY DEF Claim, ClaimDueScrape
<1>4. CASE status' = Reclaimed /\ claims' = claims
  <2>1. Ph' = [j \in JobIds |-> IF j \in GivenUp THEN "failed" ELSE Ph[j]]
    BY <1>2, <1>4 DEF Ph, Active, Stale
  <2>2. claims' = [j \in JobIds |-> IF j \in {} THEN claims[j] + 1 ELSE claims[j]]
    BY <1>4
  <2>. HIDE DEF GivenUp
  <2>3. Lifecycle!Poll(GivenUp, {})
    BY <1>1, <1>3, <2>1, <2>2 DEF Lifecycle!Poll, Ph
  <2>. QED  BY <2>3 DEF GivenUp
<1>5. CASE \E j \in JobIds : /\ Due(j)
                             /\ status' = [Reclaimed EXCEPT ![j] = "in_progress"]
                             /\ claims' = [claims EXCEPT ![j] = @ + 1]
  <2>1. PICK j \in JobIds : /\ Due(j)
                            /\ status' = [Reclaimed EXCEPT ![j] = "in_progress"]
                            /\ claims' = [claims EXCEPT ![j] = @ + 1]
    BY <1>5
  <2>2. j \notin GivenUp /\ Ph[j] = "active" /\ claims[j] < MaxAttempts
    BY <2>1, BoundsAssumption DEF Due, Stale, Ph, Active, Budget, JobBudget
  <2>3. Ph' = [k \in JobIds |-> IF k \in GivenUp THEN "failed" ELSE Ph[k]]
    BY <1>2, <2>1, <2>2 DEF Ph, Active, Stale, Reclaimed
  <2>4. claims' = [k \in JobIds |-> IF k \in {j} THEN claims[k] + 1 ELSE claims[k]]
    BY <2>1
  <2>5. GivenUp \in SUBSET JobIds  OBVIOUS
  <2>. HIDE DEF GivenUp
  <2>6. Lifecycle!Poll(GivenUp, {j})
    BY <1>1, <1>3, <2>2, <2>3, <2>4 DEF Lifecycle!Poll, Ph
  <2>. QED  BY <2>5, <2>6
<1>. QED  BY <1>4, <1>5 DEF Claim, ClaimDueScrape

LEMMA RefinementStep ==
    ASSUME BudgetInv, RepliesSeeded, ClaimInv, [Next]_vars
    PROVE  [Lifecycle!Next]_(Lifecycle!vars)
<1>. SUFFICES Stutters \/ Lifecycle!Next  BY DEF Lifecycle!vars, Stutters, Ph
<1>1. ASSUME NEW r \in Rids, NEW fields \in BOOLEAN, AddByUrl(r, fields)
      PROVE  Stutters \/ Lifecycle!Next
  BY <1>1, EnqueueRefines DEF Lifecycle!Next
<1>2. ASSUME NEW r \in Rids, RetryScrape(r) PROVE Lifecycle!Next
  BY <1>2, RetryRefines DEF Lifecycle!Next
<1>3. ASSUME NEW r \in Rids, PatchDetails(r) \/ RemoveProperty(r) PROVE Lifecycle!Next
  <2>1. Lifecycle!Withdraw(r)
    BY <1>3, WithdrawRefines DEF PatchDetails, RemoveProperty, BudgetInv
  <2>. QED  BY <2>1 DEF Lifecycle!Next
<1>4. CASE RunSeed  BY <1>4, SeedRefines DEF Lifecycle!Next
<1>5. ASSUME NEW w \in Workers, Claim(w) PROVE Lifecycle!Next
  BY <1>5, ClaimRefines DEF Lifecycle!Next, ClaimInv
<1>6. ASSUME NEW w \in Workers, PostFailure(w) PROVE Stutters \/ Lifecycle!Next
  <2>1. PICK j \in JobIds : j = worker[w].job
    BY <1>6 DEF PostFailure, BudgetInv, TypeInv, BusyWithJob
  <2>2. claims[j] >= 1  BY <2>1 DEF ClaimInv, HeldIsClaimed, NoJob, JobIds
  <2>3. ReportScrape(j, FALSE) /\ UNCHANGED <<claims, seeded>>
    BY <1>6, <2>1 DEF PostFailure, ReportScrape, StatusAfterFailure, WaitAfterFailure
  <2>. QED  BY <2>2, <2>3, ReportRefines DEF Lifecycle!Next
<1>7. ASSUME NEW p \in replies, FinishReport(p) PROVE Stutters \/ Lifecycle!Next
  <2>1. p.job \in JobIds /\ p.ok \in BOOLEAN  BY DEF BudgetInv, TypeInv, TypeOK, Reply
  <2>2. claims[p.job] >= 1 /\ (p.ok => p.job \in seeded)
    BY DEF ClaimInv, ReportsAreClaimed, RepliesSeeded
  <2>3. ReportScrape(p.job, p.ok) /\ UNCHANGED <<claims, seeded>>
    BY <1>7 DEF FinishReport
  <2>. QED  BY <2>1, <2>2, <2>3, ReportRefines DEF Lifecycle!Next
<1>8. ASSUME UNCHANGED <<status, rid, claims, seeded>> PROVE Stutters
  BY <1>8 DEF Stutters, Ph
<1>. QED
  BY <1>1, <1>2, <1>3, <1>4, <1>5, <1>6, <1>7, <1>8
     DEF Next, UserNext, WorkerNext, ProcessorNext, AddWithFacts, PostListing, WorkerDies,
         RunAdd, RunRemove, ServerRestart, Tick, vars, rowVars

\* The queue implements the life cycle: whatever back-off, stale claims, late and
\* repeated reports and restarts do, a job goes from active to done, withdrawn
\* or failed as ScrapeLifecycle says and never back.
THEOREM QueueImplementsLifecycle == Spec => ImplementsLifecycle
<1>1. Init => Lifecycle!Init  BY DEF Init, Lifecycle!Init, Active
<1>2. BudgetInv /\ RepliesSeeded /\ ClaimInv /\ [Next]_vars => [Lifecycle!Next]_(Lifecycle!vars)
  BY RefinementStep
<1>3. Init => RepliesSeeded  BY DEF Init, RepliesSeeded
<1>4. RepliesSeeded /\ [Next]_vars => RepliesSeeded'  BY SeedStep
<1>. QED
  BY <1>1, <1>2, <1>3, <1>4, BudgetInvariant, ClaimInvariant, PTL
     DEF Spec, ImplementsLifecycle, Lifecycle!Spec
=============================================================================
