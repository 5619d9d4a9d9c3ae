---------------------------- MODULE ScrapeQueue ----------------------------
(***************************************************************************)
(* The durable scrape queue (houses/scrape_queue.py), the endpoints that   *)
(* feed it (houses/server.py) and the workers that empty it                *)
(* (tools/scrape_worker.py).                                               *)
(*                                                                         *)
(* A row of pending_scrapes is job j; rows that were deleted keep their    *)
(* slot with status "done" (a report deleted it) or "withdrawn" (a user    *)
(* did), so that the properties can tell the two apart.  Timestamps are    *)
(* kept relative to the present: wait[j] is next_retry_at - now, never     *)
(* below 0, and age[j] is now - claimed_at, never above StaleClaim: the    *)
(* queries only compare them with 0 and with StaleClaim.                   *)
(***************************************************************************)
EXTENDS Integers, Sequences, FiniteSets

CONSTANTS
    Rids,         \* properties
    NoRid,        \* the rid of a row not inserted yet
    Workers,      \* scrape_worker processes (--loop, --once)
    MaxJobs,      \* bound: rows ever inserted
    MaxCalls,     \* bound: submitted calls not answered yet
    MaxAttempts,  \* _RetryPolicy.MAX_ATTEMPTS
    BackoffBase,  \* _RetryPolicy.BACKOFF_BASE
    BackoffCap,   \* _RetryPolicy.BACKOFF_CAP
    StaleClaim    \* _RetryPolicy.STALE_CLAIM

ASSUME BoundsAssumption ==
    /\ MaxJobs \in Nat \ {0}
    /\ MaxCalls \in Nat \ {0}
    /\ MaxAttempts \in Nat \ {0}
    /\ BackoffBase \in Nat \ {0}
    /\ BackoffCap \in Nat \ {0}
    /\ StaleClaim \in Nat \ {0}

ASSUME NoRidAssumption == NoRid \notin Rids

JobIds == 1..MaxJobs
NoJob  == 0

VARIABLES
    nextId,     \* AUTOINCREMENT: ids are never reused
    rid,        \* rid[j]: the property job j is for
    status,     \* status[j]
    attempts,   \* attempts[j]
    wait,       \* wait[j]: time left until next_retry_at
    age,        \* age[j]: time since claimed_at
    worker,     \* worker[w]: what the worker process is doing
    calls,      \* calls submitted to the processor loop, oldest first
    replies,    \* seeds that ran and whose report handler has not resumed
    property,   \* property[r]: r is in the registry and has DAG rows
    claims,     \* history: how often job j was handed to a worker
    seeded      \* history: jobs whose listing reached the DAG

rowVars == <<nextId, rid, status, attempts, wait, age>>
vars == <<nextId, rid, status, attempts, wait, age,
          worker, calls, replies, property, claims, seeded>>

Active  == {"pending", "in_progress"}     \* ACTIVE_STATUSES
InTable == Active \cup {"failed"}         \* the row exists

WorkerState == [phase : {"idle", "scraping", "posting"}, job : JobIds \cup {NoJob}]
Idle == [phase |-> "idle", job |-> NoJob]

UserCall   == [kind : {"add", "remove"}, rid : Rids]
ReportCall == [kind : {"report"}, rid : Rids, job : JobIds, by : Workers]
Reply      == [job : JobIds, by : Workers, ok : BOOLEAN]

TypeOK ==
    /\ nextId \in 1..(MaxJobs + 1)
    /\ rid \in [JobIds -> Rids \cup {NoRid}]
    /\ status \in [JobIds -> InTable \cup {"unused", "done", "withdrawn"}]
    /\ attempts \in [JobIds -> Nat]
    /\ wait \in [JobIds -> 0..BackoffCap]
    /\ age \in [JobIds -> 0..StaleClaim]
    /\ worker \in [Workers -> WorkerState]
    /\ calls \in Seq(UserCall \cup ReportCall)
    /\ replies \in SUBSET Reply
    /\ property \in [Rids -> BOOLEAN]
    /\ claims \in [JobIds -> Nat]
    /\ seeded \in SUBSET JobIds

Init ==
    /\ nextId = 1
    /\ rid = [j \in JobIds |-> NoRid]
    /\ status = [j \in JobIds |-> "unused"]
    /\ attempts = [j \in JobIds |-> 0]
    /\ wait = [j \in JobIds |-> 0]
    /\ age = [j \in JobIds |-> 0]
    /\ worker = [w \in Workers |-> Idle]
    /\ calls = <<>>
    /\ replies = {}
    /\ property = [r \in Rids |-> FALSE]
    /\ claims = [j \in JobIds |-> 0]
    /\ seeded = {}

-----------------------------------------------------------------------------
(***************************************************************************)
(* The operations of houses/scrape_queue.py on the table.                  *)
(***************************************************************************)

\* Mutant of BackoffDelay: the cap is missing.
UncappedDelay(n) == BackoffBase * 2^n

\* backoff_delay: base * 2^attempts, capped.
BackoffDelay(n) ==
    LET delay == BackoffBase * 2^n
    IN  IF delay \in 0..BackoffCap THEN delay ELSE BackoffCap

HasActiveJob(r) == \E j \in JobIds : rid[j] = r /\ status[j] \in Active

\* The INSERT of enqueue_scrape, on a table whose statuses are st.
Insert(r, st) ==
    /\ nextId \in JobIds
    /\ nextId' = nextId + 1
    /\ rid' = [rid EXCEPT ![nextId] = r]
    /\ status' = [st EXCEPT ![nextId] = "pending"]
    /\ UNCHANGED <<attempts, wait, age>>

\* Mutant of EnqueueScrape: no look for an active job.
EnqueueAlways(r) == Insert(r, status)

EnqueueScrape(r) ==
    \/ HasActiveJob(r) /\ UNCHANGED rowVars
    \/ ~HasActiveJob(r) /\ Insert(r, status)

\* The DELETE of cancel_scrape_for_rid: the statuses it leaves.
WithoutJobsOf(r) ==
    [j \in JobIds |-> IF rid[j] = r /\ status[j] \in InTable
                      THEN "withdrawn" ELSE status[j]]

CancelScrape(r) ==
    /\ status' = WithoutJobsOf(r)
    /\ UNCHANGED <<nextId, rid, attempts, wait, age>>

\* Mutants of StatusAfterFailure: off by one; and = for >=.
StatusOneTooMany(j) == IF attempts[j] + 1 > MaxAttempts THEN "failed" ELSE "pending"
StatusAtExactly(j)  == IF attempts[j] + 1 = MaxAttempts THEN "failed" ELSE "pending"

\* What one failed attempt does to a row, reported or presumed.
StatusAfterFailure(j)  == IF attempts[j] + 1 >= MaxAttempts THEN "failed" ELSE "pending"
WaitAfterFailure(j) ==
    IF attempts[j] + 1 >= MaxAttempts THEN wait[j] ELSE BackoffDelay(attempts[j] + 1)

\* Mutant of ReportScrape: a reported job is dropped, whatever the report.
ReportDrops(j, ok) ==
    /\ status' = IF status[j] \in InTable THEN [status EXCEPT ![j] = "done"] ELSE status
    /\ UNCHANGED <<nextId, rid, attempts, wait, age>>

\* report_scrape: an unknown job is ignored, success deletes the row.
ReportScrape(j, ok) ==
    \/ /\ status[j] \notin InTable
       /\ UNCHANGED rowVars
    \/ /\ status[j] \in InTable /\ ok
       /\ status' = [status EXCEPT ![j] = "done"]
       /\ UNCHANGED <<nextId, rid, attempts, wait, age>>
    \/ /\ status[j] \in InTable /\ ~ok
       /\ attempts' = [attempts EXCEPT ![j] = @ + 1]
       /\ status' = [status EXCEPT ![j] = StatusAfterFailure(j)]
       /\ wait' = [wait EXCEPT ![j] = WaitAfterFailure(j)]
       /\ UNCHANGED <<nextId, rid, age>>

\* Mutant of Stale: a claim never goes stale.
NeverStale(j) == FALSE

\* claim_due_scrape, first statement: claims older than STALE_CLAIM fail.
Stale(j) == status[j] = "in_progress" /\ age[j] >= StaleClaim

Reclaimed ==
    [j \in JobIds |-> IF Stale(j) THEN StatusAfterFailure(j) ELSE status[j]]

\* Mutant of Due: a claimed job is due again.
DueWhileClaimed(j) == status[j] \in Active /\ wait[j] = 0

\* A row reclaimed just now waits for its backoff, which is never 0.
Due(j) == status[j] = "pending" /\ wait[j] = 0

ClaimDueScrape(w) ==
    /\ attempts' = [j \in JobIds |-> IF Stale(j) THEN attempts[j] + 1 ELSE attempts[j]]
    /\ wait' = [j \in JobIds |-> IF Stale(j) THEN WaitAfterFailure(j) ELSE wait[j]]
    /\ \/ /\ \A j \in JobIds : ~Due(j)
          /\ status' = Reclaimed
          /\ UNCHANGED <<age, worker, claims>>
       \/ \E j \in JobIds :
             /\ Due(j)
             /\ \A k \in JobIds : Due(k) => j <= k      \* ORDER BY created_at
             /\ status' = [Reclaimed EXCEPT ![j] = "in_progress"]
             /\ age' = [age EXCEPT ![j] = 0]
             /\ worker' = [worker EXCEPT ![w] = [phase |-> "scraping", job |-> j]]
             /\ claims' = [claims EXCEPT ![j] = @ + 1]
    /\ UNCHANGED <<nextId, rid>>

-----------------------------------------------------------------------------
(***************************************************************************)
(* The user's endpoints.  run_on_processor submits a call to the processor *)
(* loop, which runs the submitted calls one after another.                 *)
(***************************************************************************)

Submit(call) ==
    /\ Len(calls) + Cardinality(replies) < MaxCalls
    /\ calls' = Append(calls, call)

\* _duplicate_error: a property is added once, unless the call names fields.
MayAdd(r, fields) == fields \/ ~property[r]

\* upsert_property with a URL only: enqueue, then seed on the processor.
AddByUrl(r, fields) ==
    /\ MayAdd(r, fields)
    /\ EnqueueScrape(r)
    /\ Submit([kind |-> "add", rid |-> r])
    /\ UNCHANGED <<worker, replies, property, claims, seeded>>

\* upsert_property with the user's own facts: no scrape.
AddWithFacts(r, fields) ==
    /\ MayAdd(r, fields)
    /\ Submit([kind |-> "add", rid |-> r])
    /\ UNCHANGED <<rowVars, worker, replies, property, claims, seeded>>

\* retry_scrape
RetryScrape(r) ==
    /\ property[r]
    /\ Insert(r, WithoutJobsOf(r))
    /\ UNCHANGED <<worker, calls, replies, property, claims, seeded>>

\* patch_property_details with price and bedrooms: the facts are complete.
PatchDetails(r) ==
    /\ property[r]
    /\ CancelScrape(r)
    /\ UNCHANGED <<worker, calls, replies, property, claims, seeded>>

\* remove_property up to its await
RemoveProperty(r) ==
    /\ CancelScrape(r)
    /\ Submit([kind |-> "remove", rid |-> r])
    /\ UNCHANGED <<worker, replies, property, claims, seeded>>

-----------------------------------------------------------------------------
(***************************************************************************)
(* The processor loop runs the oldest submitted call.                      *)
(***************************************************************************)

\* _seed_dag for an add, whose failure nobody looks at.
RunAdd ==
    /\ calls # <<>> /\ Head(calls).kind = "add"
    /\ \E ok \in BOOLEAN : property' = [property EXCEPT ![Head(calls).rid] = ok \/ @]
    /\ calls' = Tail(calls)
    /\ UNCHANGED <<rowVars, worker, replies, claims, seeded>>

RunRemove ==
    /\ calls # <<>> /\ Head(calls).kind = "remove"
    /\ property' = [property EXCEPT ![Head(calls).rid] = FALSE]
    /\ calls' = Tail(calls)
    /\ UNCHANGED <<rowVars, worker, replies, claims, seeded>>

\* _seed_dag for a report: it lands whole, or fails and is to be re-queued.
RunSeed ==
    /\ calls # <<>> /\ Head(calls).kind = "report"
    /\ LET call == Head(calls) IN
       \E ok \in BOOLEAN :
          /\ property' = [property EXCEPT ![call.rid] = ok \/ @]
          /\ seeded' = IF ok THEN seeded \cup {call.job} ELSE seeded
          /\ replies' = replies \cup {[job |-> call.job, by |-> call.by, ok |-> ok]}
    /\ calls' = Tail(calls)
    /\ UNCHANGED <<rowVars, worker, claims>>

-----------------------------------------------------------------------------
(***************************************************************************)
(* The workers, and the report endpoint they post to.                      *)
(***************************************************************************)

Claim(w) ==
    /\ worker[w].phase = "idle"
    /\ ClaimDueScrape(w)
    /\ UNCHANGED <<calls, replies, property, seeded>>

\* Bound: one success report of a worker for a job is in flight at a time.
ReportInFlight(w, j) ==
    \/ \E i \in 1..Len(calls) :
          calls[i].kind = "report" /\ calls[i].job = j /\ calls[i].by = w
    \/ \E p \in replies : p.job = j /\ p.by = w

\* POST {ok: true} of a known job: the listing is applied before the row goes.
PostListing(w) ==
    LET j == worker[w].job IN
    /\ worker[w].phase = "scraping"
    /\ status[j] \in InTable              \* scrape_job_rid
    /\ ~ReportInFlight(w, j)
    /\ Submit([kind |-> "report", rid |-> rid[j], job |-> j, by |-> w])
    /\ worker' = [worker EXCEPT ![w].phase = "posting"]
    /\ UNCHANGED <<rowVars, replies, property, claims, seeded>>

\* The report handler resumes after its await.
FinishReport(p) ==
    /\ p \in replies
    /\ replies' = replies \ {p}
    /\ ReportScrape(p.job, p.ok)
    /\ worker' = IF worker[p.by] = [phase |-> "posting", job |-> p.job]
                 THEN [worker EXCEPT ![p.by] = Idle] ELSE worker
    /\ UNCHANGED <<calls, property, claims, seeded>>

\* POST {ok: false}: the scrape failed, the listing had no address or a value
\* that does not parse, the job was unknown, or the success POST raised (its
\* httpx timeout included).
PostFailure(w) ==
    /\ worker[w].phase # "idle"
    /\ ReportScrape(worker[w].job, FALSE)
    /\ worker' = [worker EXCEPT ![w] = Idle]
    /\ UNCHANGED <<calls, replies, property, claims, seeded>>

\* The worker dies, or even its failure report does not get through.
WorkerDies(w) ==
    /\ worker[w].phase # "idle"
    /\ worker' = [worker EXCEPT ![w] = Idle]
    /\ UNCHANGED <<rowVars, calls, replies, property, claims, seeded>>

\* The server restarts: the table survives, calls and handlers do not.
ServerRestart ==
    /\ calls # <<>> \/ replies # {}
    /\ calls' = <<>>
    /\ replies' = {}
    /\ UNCHANGED <<rowVars, worker, property, claims, seeded>>

Tick ==
    /\ \E j \in JobIds : wait[j] > 0 \/ (status[j] = "in_progress" /\ age[j] < StaleClaim)
    /\ wait' = [j \in JobIds |-> IF wait[j] > 0 THEN wait[j] - 1 ELSE 0]
    /\ age' = [j \in JobIds |-> IF status[j] = "in_progress" /\ age[j] < StaleClaim
                                THEN age[j] + 1 ELSE age[j]]
    /\ UNCHANGED <<nextId, rid, status, attempts,
                   worker, calls, replies, property, claims, seeded>>

UserNext ==
    \E r \in Rids :
       \/ \E fields \in BOOLEAN : AddByUrl(r, fields) \/ AddWithFacts(r, fields)
       \/ RetryScrape(r) \/ PatchDetails(r) \/ RemoveProperty(r)

WorkerNext ==
    \E w \in Workers : Claim(w) \/ PostListing(w) \/ PostFailure(w) \/ WorkerDies(w)

ProcessorNext == RunAdd \/ RunRemove \/ RunSeed

Next ==
    \/ UserNext
    \/ WorkerNext
    \/ ProcessorNext
    \/ \E p \in replies : FinishReport(p)
    \/ ServerRestart
    \/ Tick

Spec == Init /\ [][Next]_vars

(***************************************************************************)
(* Fairness.  Time passes; a polling worker claims what it can (run_loop   *)
(* never exits); a worker with a job ends it one way or another.  Nothing  *)
(* is assumed of the users, of the server's replies or of restarts.        *)
(***************************************************************************)
ClaimProgress == \E w \in Workers : Claim(w)
Fairness ==
    /\ WF_vars(Tick)
    /\ WF_vars(ClaimProgress)
    /\ \A w \in Workers : WF_vars(PostListing(w) \/ PostFailure(w) \/ WorkerDies(w))

FairSpec == Spec /\ Fairness

-----------------------------------------------------------------------------
(***************************************************************************)
(* Properties.                                                             *)
(***************************************************************************)

\* enqueue_scrape's check-then-insert, the retry endpoint's drop-and-enqueue and
\* failure reports that arrive in any order never leave a property with two
\* jobs a worker could claim.
OneActiveJob ==
    \A j, k \in JobIds :
        status[j] \in Active /\ status[k] \in Active /\ rid[j] = rid[k] => j = k

\* scrape_status_for_rid reads the newest row: while a property has a job that
\* can still run, that row is the newest one, so the card never shows the
\* `failed` row of an earlier job.
StatusShowsActiveJob ==
    \A j, k \in JobIds :
        status[j] \in Active /\ status[k] \in InTable /\ rid[j] = rid[k] => k <= j

\* However many workers die, time out or report late, a job is handed out at
\* most MAX_ATTEMPTS times.
ClaimsBounded == \A j \in JobIds : claims[j] <= MaxAttempts

\* Two workers hold one job only after a failure of it was recorded: the
\* claim itself never hands a job out twice.
NoDoubleScrape ==
    \A v, w \in Workers :
        v # w /\ worker[v].job = worker[w].job /\ worker[v].job # NoJob
            => attempts[worker[v].job] >= 1

\* A job's row is deleted by a report only after its listing reached the DAG,
\* across failed seeds, restarts of the server and duplicated reports.
DoneMeansSeeded == \A j \in JobIds : status[j] = "done" => j \in seeded

\* A job that failed for good is never pending or in progress again, whatever
\* reports are still on their way.
FailedStaysFailed ==
    [][\A j \in JobIds : status[j] = "failed" => status'[j] \notin Active]_vars

\* No job stays active for ever: it is done, withdrawn or failed in the end,
\* even if every worker that claims it dies before it reports.
JobSettles == \A j \in JobIds : (status[j] \in Active) ~> (status[j] \notin Active)

\* The queue implements the life cycle of ScrapeLifecycle: timestamps, workers,
\* restarts and late reports change nothing a user of a job can observe.
Lifecycle == INSTANCE ScrapeLifecycle WITH
    phase <- [j \in JobIds |-> IF status[j] \in Active THEN "active" ELSE status[j]],
    owner <- rid, tries <- claims, delivered <- seeded

ImplementsLifecycle == Lifecycle!Spec

\* "the scrape job, the DAG rows, and the registry entry all go away": when the
\* removal of a property has run, no job of it is left to bring it back.
RemoveLeavesNoJob ==
    [][\A r \in Rids : property[r] /\ ~property'[r] => ~HasActiveJob(r)']_vars
=============================================================================
