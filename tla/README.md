# A formal model of `houses`

`houses` keeps a shortlist of properties, computes what each would cost and how far
it is from everything, and recomputes when an input changes. The modules here model what in it is hard to get
right: the parts whose correctness depends on order, timing and failure, and the calculations whose cases
multiply. TLC checks them on small instances, and TLAPS proves the main safety results about the scrape queue, the DAG processor,
the pages, the what-ifs, the gateway and the releases for every instance. All paths below are relative to `src/`.

## 1. The system

| Component | State it keeps | Operations | Interacts with |
|---|---|---|---|
| Scrape queue (`houses/scrape_queue.py`) | table `pending_scrapes`: rid, status, attempts, `next_retry_at`, `claimed_at` | enqueue, claim, report, cancel, status | endpoints and workers, through SQLite |
| Scrape worker (`tools/scrape_worker.py`) | the job in hand | poll, scrape, post a listing or a failure | claim and report endpoints, over HTTP |
| Property endpoints (`houses/server.py`, `houses/nodes/cutover.py`, `houses/property_registry.py`) | the registry of properties | add, retry, details, remove, claim, report | queue (in the handler's thread), DAG (through `run_on_processor`) |
| Refresh queue and processor (`dag/scheduler.py`, `dag/processor.py`) | a heap of events, `_scheduled`, `_requeue_counts`; one thread with an asyncio loop | notify, drain, flush, register, start and stop | all nodes |
| Derived nodes (`dag/derived_node.py`) | attempt, dependency stamps, retry time and count | staleness test, refresh, defer, retry, persist | signals of their dependencies, the queue, rows |
| Input nodes and signals (`dag/user_input_node.py`, `dag/signal.py`, `dag/slot.py`, `dag/connection.py`) | the user's value | push, fail, notify | handler threads and the processor |
| Node rows (`dag/node.py`, `dag/persistence.py`) | append-only rows: attempt, stamps, retry | append, load the latest, history | nodes |
| Conditional nodes, regeneration (`dag/if_then_else_node.py`, `dag/regenerate.py`) | the active dependency set; code version | switch branch, invalidate old rows | derived nodes |
| What-if and settings (`houses/web/api_router.py`) | a marker of the running scenario | apply, restore | history of input nodes |
| Scenario evaluation (`dag/evaluate.py`) | none | evaluate a graph with other inputs | nodes |
| Attempts and expressions (`dag/attempt.py`, `dag/expression.py`, `dag/measurement.py`) | none | arithmetic over values, doubts and errors; formulas | nodes, rows |
| Broadcaster (`houses/web/broadcaster.py`) | clients, pending set, stale markers, debounce task | notify, debounce, send, drop | signals, web sockets |
| Authentication (`houses/web/auth.py`) | OAuth states with expiry, sessions | start, callback | browser |
| Provider gateway and cache (`houses/apigw.py`, `houses/api_cache.py`) | last call, daily quota mark, files of answers | pace, fetch, store, mark | pipelines |
| Property pipelines (`houses/nodes/`) | wiring of the graph of a property | build, rewire commutes, remove | DAG library |
| Calculators (`houses/model/domain.py`, `houses/nodes/pmt.py`, ...) | none | tiered rates, loan payments, equity, the total and its split | pipelines |
| Journeys and tables (`houses/tfl_client.py`, `houses/council_tax.py`, `houses/location.py`, ...) | files of rates | plan, price, look up a register's row | providers, pipelines |
| Deployment (`.github/workflows/release.yml`, `tools/deploy/`) | two boxes, their databases, forwarding rules | release, prepare, flip, recover, roll back | database files |
| Data scripts (`scripts/`) | the rows of a database, tables of fares | migrate rows and check them, extract fares | deployment, look-ups |
| Commute tools (`tools/commute/`) | files of driving times, areas, stations | batches that make the search areas | TfL, OpenRouteService |
| Frontend store (`houses/frontend/src/stores/`) | cards of the page | fetch, merge pushed updates, reconnect | server |

`PROJECT.json` lists every component with its status, the ones that are not modelled included.

### What makes it hard, and what correctness means

**Scrape queue.** Endpoints run in the server, workers in other processes, and both may
stop at any time. A claim can be declared stale while its worker is still busy, so a job may
have two workers, and reports may come late, twice, or never. The report endpoint awaits
the processor between accepting a listing and deleting the row. It is correct when a property
has one active job, a job ends within its attempt budget and stays ended, the card shows the job
that runs, a listing is never lost between DAG and table, and every job ends.

**DAG processor.** A pushed value is visible in memory at once while its row and its
notification wait for the processor. A refresh suspends in its compute with inputs bound
earlier, and during that time inputs change, other nodes refresh, and a flush may drain the same
queue. Nodes defer behind queued dependencies, failures become timed retries, and a restart
rebuilds everything from rows. It is correct when a node that counts as fresh shows what its
inputs imply, no pending node is forgotten, rows only advance and agree with memory, and the
processor comes to rest.

**Edits of the household.** Saving the persons rewires every property's commutes while nodes are queued or in flight: nodes are
disconnected whose refresh is still to come, inputs are swapped under a node, and the order of a signal's slots decides who sees
which household. At rest each commute and the breakdown must be of the household saved last. A what-if borrows the same input and must give it
back, whatever restart or malformed request comes between.

**From figures to the page.** A figure passes a debounce, a queue, a sweep of the other cards, a socket that may be dead and a
store that also fetches listings. Every change a page does not show must be on its way.

**Money paid to providers, and what comes back.** Concurrent calls share a pace and a quota, and two cache layers one directory.
What is chosen from an answer (a journey, a fare, a register's row) must be the property's own.

**Releases.** A workflow with a dozen steps acts on two boxes and can die at each; no accepted write may be lost. The migrations
it runs are killed and rerun on tables that are half old.

**Calculations.** The same money is computed as a total and as two figures; a commute is rewritten by four stages; an outline
is traced around cells; an error or a doubt must survive arithmetic. Their cases multiply beyond what example tests cover.

## 2. Modules

| Module | What it is |
|---|---|
| `ScrapeLifecycle` | abstract specification: what users may rely on about a job |
| `ScrapeQueue` | the table, the endpoints, the processor loop as far as they use it, the workers, time |
| `MCScrapeQueue` | its instance for TLC (symmetry of workers and properties) |
| `ScrapeQueue_proofs` | the safety theorems about `ScrapeQueue` and that it implements `ScrapeLifecycle`, with their proofs |
| `DagProcessor` | nodes, rows, refresh queue, drains, submissions, restart |
| `DagProcessor_proofs`, `LiveCards_proofs`, `Household_proofs`, `WhatIf_proofs`, `ApiGateway_proofs`, `Rollout_proofs` | the theorems about these modules, with their proofs |
| `Workings_proofs` | the theorems about the money of a household (`HousingCost`), with lemmas on sums over finite sets |
| `MCDagProcessor` | its graphs and computes: a pair of inputs, a triangle, a chain |
| `Household` | the commute pipelines of one property under edits of the household |
| `WhatIf` | apply, restore and accept of a scenario over the rows of the persons node |
| `MCHousehold` | the households that `Household` and `WhatIf` are tried with, and their composition for TLC |
| `LiveCards` | refresh callback, broadcaster, listing endpoint, the page's store and socket |
| `ApiGateway` | one provider behind the gate and the two cache layers |
| `Rollout` | the release workflow over two boxes |
| `Migrations` | the migration runner, the two shipped migrations and their checks |
| `Evaluation` | conditional nodes, cascade, what-if evaluation, startup sweep, fingerprint |
| `Expressions` | expressions, measurements, errors and what storage keeps of them |
| `HousingCost` | duty, loan, equity, the monthly total and its split |
| `Journey` | one commute from the planners' answers to its fuel |
| `PropertyFacts` | the rows of the council tax and energy registers |
| `Lookups` | places, schools, car parks, buses |
| `SearchArea` | cells, outlines, rectangles, driving times, intersection |
| `ShedBatch` | the resumable batch over stations |
| `DriveRuns` | the runs that write the driving areas, and their files |
| `FareTables` | the extraction of bus fares from the operators' files |
| `PropertyGraph` | the graph of one property: its wiring, edits of its inputs, its opening |
| `TflCalls` | the calls to TfL over one cache on disk, and the records its answers are read into |
| `MCWorkings` | inputs for the modules of calculations, and the behaviours that pick them |

### `ScrapeQueue`

*State.* Row `j` of `pending_scrapes` is slot `j` of `rid`, `status`, `attempts`, `wait` and `age`.
Ids are AUTOINCREMENT, so slots are never reused. A deleted row keeps its slot with
status `done` (a report deleted it) or `withdrawn` (a user did), which only properties look at.
The queries compare timestamps with the present and nothing else, so they are kept relative to it:
`wait` is `next_retry_at - now`, at least 0, and `age` is `now - claimed_at`, at most
`StaleClaim`. `calls` is what `run_on_processor` has submitted, oldest first, and `replies` are report
handlers whose seed has run and which have not resumed. `property[r]` says that the property
is registered with rows. `claims` and `seeded` are history variables for the properties.

*Actions.* `AddByUrl` and `AddWithFacts` are the two ways through `upsert_property`, each with or
without detail fields (a repeated add passes the duplicate check only with fields). `RetryScrape`,
`PatchDetails` and `RemoveProperty` are the other endpoints; the last one runs up to its
await. `RunAdd`, `RunRemove` and `RunSeed` are the
processor's side of these calls. A worker's `Claim` contains both statements of
`claim_due_scrape`, the stale sweep and the pick. `PostListing` is the success report up
to its await, `FinishReport` the rest of it. `PostFailure` is every road to `{ok: false}`, a timed-out success POST
included, so a failure report may overtake a listing the server is still working on. `WorkerDies`, `ServerRestart` and `Tick` are the environment.

*Assumptions.* Every property has a URL, so the early return of the retry endpoint for a missing one does not
occur. Details without price and bedrooms leave the queue alone and are not an
action. The seed of a report lands whole or raises. The endpoints are coroutines of one event loop and the functions of the
queue contain no await, so the claim, the enqueue and the retry are single steps; the workers reach the table only
through these endpoints. A worker has at most one success report per job in flight
(`ReportInFlight`).

### `DagProcessor`

*State.* `node[n]` is the object in memory, `row[n]` what the latest row would load as. A row's
timestamp is its place in the order of all rows (`clock`); 0 is the empty stamp of a node
without a row. `ready` and `later` are the two halves of the heap (due, and waiting retries),
in `scheduled_at` order. An event is `live` when it is the one `_scheduled` holds for its node, and
events that are no longer live stay in the heap and are still refreshed, as in the code. `drain[p]` is
the refresh a drain is suspended in, with the values and the stamps bound before the await.
`submissions` is what handler threads handed to the loop.

*Actions.* `Push` is `push` or `fail` in a handler's thread (memory now, the row later).
`SubmitPush` is a submitted call that pushes once it runs (`_seed`). `RunSubmission` is
`_apply_result` with the notification of all dependents. `Begin(p, d)` pops an event and runs
`refresh` to its first suspension or its early end; its five disjuncts are the returns
in order: not stale, a dependency failed, a dependency queued (defer), a dependency pending, compute.
`Succeed` and `Fail` are the rest of `refresh`, with persist, emit and `_settle_event`. `Tick`
makes the first retry due. `StartFlush` and `EndFlush` bound `process_pending`, which reads the time once (`horizon`).
`Restart` builds every node from its row and registers it.

*Assumptions.* The graph is fixed. Computes are functions of the bound values; `Flaky` nodes may fail
(`FailureKinds`: `transient` is retried, `throttled` carries a Retry-After and is not counted, `broken` is final).
A retry is placed at any position among the waiting ones. `stop_processor` drains submissions, which `Crashes = FALSE`
expresses; with `Crashes = TRUE` a restart may lose them.

*What is remembered.* Three things that the code does not prevent leave a node wrong for good (section 6), and the properties except the nodes they happened to, by history.
`strayed` holds the inputs that a handler and a call on the processor wrote at the same time, or whose submitted row a crash lost; `shared` the nodes that two drains refreshed at once; a node
is not `Based` while it was computed from an input that had no row. `Firm(d)` says that none of this touches `d` or what it reads.

### `Household`, `WhatIf` and their composition `MCHousehold`

*State of `Household`.* `writes` is the sequence of households saved so far, each with who made the write and what was paged;
`graph` holds the property's nodes with their memory and rows, the listeners of the persons source in order, the queue and
`_scheduled`; `running` is a node whose result is computed and not yet stored. A commute is four nodes here (place, route, mpg, entry), which
is what it takes for one to be queued behind another; the other nodes of a pipeline only stand between these.
*Actions.* `PushPersons` is a write of the persons source with all its slots, in the order of a snapshot: nodes of pipelines mark
themselves stale and queue themselves, and the property's own slot (`_on_persons_changed`) takes down pipelines of destinations that are gone, builds those of
new ones and gives the breakdown its inputs anew (`set_deps`). `Refresh` takes an event off the queue and runs `refresh` up to
its result, with the deferral behind a queued dependency; `StoreResult` stores it and notifies. `RestartServer` builds the property over the rows there are. What the
code does to nodes one after the other (building, queueing, taking down) is one operator on the sequence of nodes, in that order.
*Assumptions.* One property and no other edits. Writes come at any time: before, during and after the refreshes that earlier ones caused. `hurried` remembers that
one found nodes still queued, for what is shown may then stay old (section 6).

*State of `WhatIf`.* Persons and marker in memory, the rows of both with their timestamps, what the processor has yet to write, and
what the household considers its own (history). *Actions* are the handlers of `api_router.py`, each one step because it
contains no await, the processor's `WriteRow`, and `Restart`, which loses what was submitted. Requests overlap: the next one may come before the rows of the last are written, so `story` keeps
what a crash would find on disk after each row that is still to come, and `raced` that a scenario began while persons were among them (section 6).

### `LiveCards`

*State.* Figures are versions; `pending`, `debouncing`, `queue`, `push` and `stale` are those of the broadcaster, `inbox`, `shown` and `listing`
those of each page, `registered` and `up` the two ends of a socket. *Actions.* `Reprice` and `RefreshHome` are refreshes on the DAG with their
callbacks; `FlushNotifies` ends a debounce; `Broadcast` sends to every client, drops the dead ones and marks
what failed; `Connect`, `Drop`, `NoticeDrop` are the socket; `Load`, `ServeListing`, `ReceiveListing` a fetch that may overlap pushes; `ApplyUpdate`, `RemoveProperty`,
`ForgetCard` the store. *Assumptions.* A summary is built in one step; a socket delivers in order until it breaks.

### `ApiGateway`

Coroutines of one event loop, so they interleave where the code awaits: in the sleep of `pace` and while the provider answers. `file` is the cache
directory under the caller's key and the key of the wire. `Refuse`, `StartSleep` and `Start` are the ways into `api_fetch`, `Wake` the end of the
sleep, `Respond` the answer with every kind the code distinguishes, `Restart` forgets the gate and keeps the files. What an older version left on disk is
part of `Init` (`Legacy`).

### `Rollout` and `Migrations`

`Rollout` has one action per step of the jobs in `release.yml` that touches a box, a rule or the archive; `StepFails`, `RunnerLost` and `Approve`
are what may happen to a run between any two. `Unfreeze`, which a failed preparation runs once and best-effort, may fail as well and leave production down (`switch.sh:190-193`). A run reads the roles once, at `Dispatch`; in a
split state only a rollback acts, and the `provision` job of a release, whose condition does not ask (`release.yml:837`). Runs are under way at once, because nothing in the workflow keeps them apart: `crossed` remembers that two acted at once, or that a flip was
approved on a reading that no longer held. `UserWrites` goes to whichever box
the https rule targets as long as its app runs. A database is the set of writes it holds and whether its migrations are checked.

`Migrations` is the runner inside a rollout. A row has its blob (what it says, its provenance tree), its columns and a stamp; a key names a person by
name, slug or id. One action per commit: a batch of re-keyed rows, the last batch with stamps and ids, a chunk of converted rows, the drop of the legacy column, the
check; `KillMigration` between any two; `AppStarts` and `AppSaves` are the application on the result.

### The calculations: `HousingCost`, `Journey`, `PropertyFacts`, `Lookups`, `Evaluation`, `Expressions`, `SearchArea`, `FareTables`

These modules have one variable each, the input that is tried (a household, a trip, a search, ...), and define the program's functions as operators over it. The
properties compare what comes out with a reference definition or with what another road through the code gives.
Amounts are whole numbers in units that the module's head names. Text is replaced by what is told apart: an address is a sequence of parts of words, a
register's entry records the dwelling it is about (which the program cannot see), an expression is a sequence of steps, an error its chain of causes.
In `HousingCost` a line of the deposit's explanation is the set of its terms and its result, branch by branch as the code prints it. In `Journey` a planner's plan has a time of its own beside its legs, and may be broken; a failure goes through every
stage. In `FareTables` the prices of a file are one sequence, in and outside its fare tables, as the parser iterates over them; ids are matched by containment where the code does, and a network fare covers the first zone of its tariff.
`Evaluation` keeps the order of events of a cascade, in which a node is refreshed as soon as its turn comes. `SearchArea` scales lengths so that centres and
borders of cells are whole.

### `PropertyGraph`

*What it is.* `Wiring` is the list of nodes in the order in which `PropertyNodes` and `build_commute_pipeline` build them, each with its dependencies; a node is
its owner and its name, as in `{rid}/{key}/walk`. A node that is given the persons or a destination also lists the facets it reads of them (money, walking tolerance, mpg, works,
schools; trips and place of a destination). `Edits` are what the endpoints push. `Spread` goes through the wiring part by part (`Through`), runs each node below a change once and passes the change on unless the
node comes to the value it had; `Opened` (part by part, `Swept`) computes each node from its active dependencies, impossible before pending, as `refresh` does. The module takes the queue to have drained, which is
the business of `DagProcessor`, and a node to be refreshed after those it reads.
*Properties.* `EditsAreScoped`: an edit asks the providers for what depends on it and nothing else, and one that enters a figure reaches the household cost and
the comparison with the current home. `OpeningSettles`: with an address nothing waits but for a price, only causes that matter fail a figure, and a journey that failed is
never left out of the cost. `GraphsAgree` joins them with `Evaluation`'s.
*Left out.* Changes of the set of destinations and of the car or the modes, which are frozen with the pipeline (`Household`); the values computed
(`HousingCost`, `Journey`, `Lookups`).

### `ShedBatch` and `DriveRuns`

Batches that take hours, are killed and resume. `ShedBatch` has the file of records, the batch in memory and the world that changes between runs (stations, settings,
outages of TfL, of any set of the questions it is asked about a station; `halved` remembers the records made of answers while other questions failed); `DriveRuns` the four files of a run, the intersection and the map, with a kill between any two writes.

### `TflCalls` and the composition `MCWorkings`

*State.* `tflTruth` is what TfL knows of a journey, `tflFile` the cache on disk (an entry is a bare body, a body in an envelope with its status, or
absent, and an older version may have left outages there), `tflCall` the coroutines. *Actions.* `BeginUse` starts a plan, a duration or a fare;
`CachedApiCall` looks on disk, `TransportLooks` looks again below it, `PlannerAnswers` is an answer or a failure with what is kept of it,
`GeocodeFallback` asks for the coordinates of an ambiguous origin. *Properties.* What a call returns is what TfL says or a failure that is told as one
(`AnswersAreTfls`), an outage is never kept (`OutagesAreNotKept`), TfL is not asked again for what it has said (`SaidOnce`); responses survive being read, written and read again
(`RoundTripLosesNothing`), the journey and the fare rows are the fitting ones (`ChosenFitly`), and the weekday morning that is planned for lies ahead (`MorningIsNext`).
They are joined in `CallsAnswer`, a part of `LookupsHold`.

`MCWorkings` composes the batches, `Migrations`, `TflCalls` and the calculations: one of them moves, the others stay where they start.

## 3. Runs

All passing runs finish within about three minutes on two workers. `CHECK_DEADLOCK FALSE` is set throughout, because
the system may rest: an idle queue with nothing to time out, a quiet processor, or an input that has been tried has no step
left once the bound on jobs or edits is reached.

| Run | States | Question and answer |
|---|---|---|
| `queue_safety` | 1.05 M | Two workers, one property, two jobs, two calls in flight: do stale claims, late and repeated reports, retries, removals and restarts keep one active job, the budget, the newest row, exclusive claims, finality, listing before deletion, and the life cycle of `ScrapeLifecycle`? Yes. |
| `queue_liveness` | 234 k | Does every active job end, even if each claimant dies? Yes, under the fairness below. |
| `queue_remove` | violated | Is a removed property's job gone? No, see section 6. |
| `dag_tri` | 931 k | Node `b` reads `u` directly and through `a`; `u` has no value at first, `a` may fail; three overlapping edits and a crash. What is firm and reads as fresh is right, nothing is stranded, retries have budget. |
| `dag_flush` | 2.2 M | The same graph drained by the loop and a flush at once, a provider that fails, edits from handlers and on the processor. A flush strands nothing and, but for nodes that both drains refreshed at once, makes nothing read as fresh that is not (`FlushIsHarmless`); rows agree with memory, but for an input written from both sides at once, and advance. |
| `dag_serial` | 77 k | Edits wait for rest; all kinds of failure; one restart. At rest, every node agrees with its inputs. |
| `dag_live` | 260 k | From an input without a value: the processor comes to rest once edits stop, also across a crash and with the requeue bound at its limit (`Registered = 2`). |
| `live_cards` | 527 k | Two properties, one of them the current home: every change a page that follows does not show is on its way (`UpdateIsComing`), and it arrives (`UpdatesArrive`). |
| `household_edits` | 856 k | What-ifs and persons pushes, overlapping: a real household is kept to return to, and is the one shown when no what-if is active, until a scenario begins while persons are still to be written; the pipelines follow every write, and at rest each commute and the breakdown follow the household saved last until a write finds nodes queued (`HouseholdIsFollowed`). |
| `gateway_safety` | 100 k | Three callers of one request: a spent quota is overrun by started calls at most, answers are the provider's, errors never enter the cache, calls end. |
| `rollout_serial` | 697 k | Three workflow runs, two at a time, with every failure, that of the unfreeze included: until two cross, no accepted write is lost, the live box is complete, downtime is accounted for; and crossed or not, an outage that a preparation begins comes to an end or is reported (`FreezeEnds`). |
| `workings` | 319 k | Every calculation over its inputs, every edit of a property and its opening with any of its sources missing, the three batches over their crashes, and the calls to TfL over their interleavings: ten properties, one per question (see the comments in the modules). |

*Bounds.* Two jobs of one property are what enqueue's look-then-insert, the newest-row rule and
retry's drop-then-enqueue need to go wrong, and no action reads jobs of two properties
together. Two attempts give a first failure (back-off) and a last one, `BackoffBase = 2` with `BackoffCap = 2` lets
the cap bite at the first back-off, `StaleClaim = 2` lets a claim be young, older and stale. Two workers suffice for a job held
twice. The triangle is the smallest graph where a node can see an input newer than the dependency it also reads;
three edits let one land before, during and after a refresh; with two drains, two edits and one flush do. `Registered = 20` keeps the requeue bound out of reach where
it is not the question. `MaxStamp` only bounds answers with Retry-After,
which the code repeats without a limit. Symmetry is used in `queue_safety` only, which has no liveness property.

Two writes and two starts (`MaxWrites`, `MaxOpenings`) are what it takes for a destination to leave, come back or change
while its nodes are queued. A write that finds nodes queued is made into those that a start has just queued, and is the last (`OneHurry`): the proofs cover what follows. The six households of `SomeHouseholds` differ in name, address, order, car, mpg and children. Four what-if acts
allow a scenario inside a scenario and an edit between. In `live_cards`, one version of each figure, two breaks and one fetch are enough for a push to overtake a listing. Three callers with a pace
of two and a day of four make a quota end while one sleeps and one is on the wire. Three workflow runs are a release, what fails after
it, and the repair, or two that cross and a third on what they left. In `workings` the inputs are enumerated around each boundary in the code (a price at, just above and beyond a border of the duty, walks at and over the limit, one to
four parts of an address, every set of cells of a small grid in three orders); the batches have three stations or rows per decision and are killed up to the
named number of times. The property graph has two destinations of one adult, one of another without a car, a school, and a child's club that is not followed; every set of inputs that one
endpoint can write, up to two facets of a person or all of them, with and without a node that comes to its old value; and every set of the five sources of address, place and price, with
the others pending or failed and eight sets of failing look-ups.

An error in the code such as a forgotten stamp, an uncounted failure or a claim of a claimed row makes
these runs fail: each property is paired in `PROJECT.json` with a mutant of the definition it guards, written
next to it in the module.

*Fairness.* `ScrapeQueue!Fairness`: time passes; some worker polls and claims (`run_loop` never exits);
a worker with a job ends it by a report, a failure or its death. Users, replies and restarts are not fair.
`LiveCards!Fairness`: the server's and the page's loops run and requests are answered; nothing makes a figure change, a socket reconnect or a user act.
`ApiGateway!Fairness`: time passes, sleepers wake, and a call on the wire ends (`timeout_s`). `Rollout!Fairness`: a step of a workflow ends, by itself, by
failing or by its timeout (`timeout-minutes`); nobody is sure to approve or to repair.
`DagProcessor!Fairness`: the processor loop runs submitted calls, timers fire, a started refresh ends (every
provider call has a timeout). No edit, flush, failure or restart is fair. Termination is stated without
throttled answers: a provider that always sends Retry-After is asked for ever, by the code's choice.

## 4. Proofs

Each module of proofs states its theorems for every value of the constants that its module's assumptions allow: any number of properties, nodes, pages, coroutines,
workflow runs, edits and restarts, interleaved as the module lets them. What the code does not prevent is in the properties, as an exception that names what happened (`raced`, `hurried`, `crossed`, `strayed`, `shared`), and section 6 says what
then goes wrong. Three theorems have a hypothesis beyond that (third column).

| Theorem | States | Hypothesis |
|---|---|---|
| **`ScrapeQueue_proofs`** | | |
| `TypeCorrect` | `TypeOK`, the back-off within its cap included | |
| `ClaimsAreBounded` | a job is handed out at most `MaxAttempts` times | |
| `FailedIsFinal` | a failed job never becomes active again | |
| `AtMostOneActiveJob` | a property has at most one active job | |
| `NewestRowIsActive` | an active job is its property's newest row | |
| `ReportedMeansSeeded` | a row deleted by a report was delivered to the DAG | |
| `ClaimIsExclusive` | two workers share a job only after a recorded failure | |
| `QueueImplementsLifecycle` | `Spec => Lifecycle!Spec` | |
| **`DagProcessor_proofs`** | | |
| `RetriesHaveBudget` | a waiting retry belongs to a pending node with budget left | |
| `RowsAreMemory` | a node's row is what it serves, once its writes have landed, but for an input that strayed | |
| `RowsOnlyAdvance` | a row is never followed by one computed from older inputs, but for a node that was shared | |
| `FreshIsFresh` | a node that is firm and reads as fresh holds what its settled dependencies imply | |
| `PendingStaysOwned` | a pending node whose inputs are there is queued, being computed, or about to be woken | `BelowLimit` |
| **`Household_proofs`** | | |
| `PipelinesAlwaysFollow` | one pipeline per destination that is travelled to, built when the destination came or the server started; its nodes listen once | `KeysAreUnique`, `ChildrenStayChildren` |
| `LossAlwaysPaged` | a loss that a write other than the user's own brings is paged | `NamesTell`, `NamesStay` |
| `BreakdownAlwaysFollows` | until a write finds nodes queued: at rest the breakdown is the sum over the destinations of today, as they are today, or says that one cannot be reached | `KeysAreUnique`, `ChildrenStayChildren` |
| `HouseholdAlwaysFollowed` | the three together, `HouseholdIsFollowed`, for writes that overlap as they like | all of these |
| **`LiveCards_proofs`** | | |
| `UpdatesAreComing` | what a following page does not show is announced, on its way or marked | |
| **`WhatIf_proofs`** | | |
| `RestorePointHolds` | the point a restore returns to is the household from before the scenario, unless `raced` | |
| `OwnWhenInactive` | without a marker the settings are the household's own, also after a crash, unless `raced` | |
| `RestoresExactly` | a restore puts the exact original values back, unless `raced` | |
| **`ApiGateway_proofs`** | | |
| `OverrunIsBounded` | a spent quota is overrun by fewer calls than there are coroutines | |
| `OkIsGenuine` | ok is told only of what the provider gave to that request | |
| `OnlyAnswersAreStored` | no step writes an outage or another request's answer to the disk | |
| **`Rollout_proofs`** | | |
| `NothingIsLost` | the live box holds every write that no approved recovery gave up, unless `crossed` | |
| `LiveBoxIsComplete` | users are sent to a box with the role and a checked database only, unless `crossed` | |
| `OnlyTheStandbyIsInstalled` | no run rebuilds or installs on the box that serves, unless `crossed` | |
| `OutagesAreAccountedFor` | production is down for the stated reasons only, unless `crossed` | |
| **`Workings_proofs`** | | |
| `HeadlineAgreesWithTotal` | the two figures of the headline and the one total are the same money | `FewAdults` |
| `PurchaseAlwaysHolds` | the deposit is shared out without loss, its lines add up where each part is stated once, duty is the marginal tax, payments repay the loan | |

The modules of the DAG processor, the pages, the what-ifs, the gateway and the releases also prove `TypeCorrect` and their inductive invariant (`InductiveInvariant`; in `DagProcessor_proofs`
`BaseInvariant`, `WritesInvariant` and `FreshnessInvariant`, each on top of the one before). TLC checked every inductive invariant on the instance of the module's run before it was proved.

*Assumptions on the constants.* `BoundsAssumption`: the limits of the queue are positive naturals. `GraphAssumption`: inputs read nothing, `Order` names derived nodes, no node reads
itself ("the graph is acyclic", `dag/scheduler.py:221-225`), `Order` names every derived node. `CardAssumption`: finitely many properties, of which the current home has a cost. `GatewayAssumption` and
`AnswersAssumption`: finitely many coroutines, pace and day of positive length, answers of the kinds the code tells apart. `RolloutAssumption`: two boxes. `HouseholdAssumption`: finitely many adults, at least one, and children. `AmountsAssumption`: amounts are
whole numbers of a small unit, prices positive, parts of a home whole per cents of at most a hundred in all (`_parse_co_owners`, `houses/web/api_router.py:814-830`). `DocumentsAssumption`: a household is a sequence of persons. TLC evaluates all of them on
every run.

*Hypotheses.* `BelowLimit` (of `PendingStaysOwned`): no node was re-queued as often as there are nodes in the registry; at that count the loop raises and drops the event
(`dag/scheduler.py:221-225`), and with `Registered = 1` TLC finds the pending node that nothing wakes. It is a hypothesis on the behaviour, not on the code's constants. `FewAdults`: fewer than 32 adults; with 32, two shares may
both end in half a ten-thousandth, and rounded up both they are more than the whole. Those of the household are about what is saved: `KeysAreUnique`: no two destinations of one household have the same
person and label; `build_commute_pipeline` would build both. `ChildrenStayChildren`: between two writes the owner of a destination neither comes of age nor becomes a child; the code compares keys alone, so the
pipeline of an adult's office stays when the adult is written as a child. `NamesTell`: persons and destinations have names, and no two persons of a
household the same; `NamesStay`: a name stands for one person, in whichever write. The alarm compares names, skips what has none and keeps the last of two (`houses/nodes/settings.py:112-162`), so the destinations of a nameless
person, or of one replaced by a namesake with the same labels, are lost unpaged. `household_edits` satisfies all of them.

### The scrape queue

*The argument.* `TypeOK` is not inductive: a claim or a failure report uses the rid of a row and the job of a worker, so `TypeInv`
adds that used rows have a property and busy workers a job. None of the others is inductive either. A bound on `claims` says
nothing of a job that is pending again, and finality needs to know that a failed row has no attempts left. `BudgetInv` therefore adds `SlotsInOrder`
(slot `j` is unused exactly when `j >= nextId`) and `Budget` (a job that can run has attempts
left, a failed one has none, each claim but the current one has been paid for with a failure). The lemma `JobSteps` reduces the
actions to five things that can happen to one job: nothing, insertion, leaving the table, a claim, a failure. Each
theorem is then a short case split on these. The single active job and the newest row use the shape of an insertion
(`ActiveStep`), delivery uses `RepliesSeeded`, the exclusive claim uses
`WorkerSteps` (a step lets go of jobs or one worker claims one).

*The refinement.* The abstract specification lets a job fail only once it was handed out, and complete only once it was
delivered. `ClaimInv` supplies the first: a job in progress, held by a worker, or named in a report that is under way (submitted or
seeded) has been claimed. It is inductive because claims only grow and a report starts from a worker's job. `RepliesSeeded` supplies
the second. One lemma per action then names the abstract action it implements: `AddByUrl` is `Enqueue` or a stutter, `RetryScrape` is
`Retry`, `PatchDetails` and `RemoveProperty` are `Withdraw`, `RunSeed` is `Deliver` or a stutter, `Claim` is `Poll` with the stale
claims that used up their attempts given up, a report is `Fail`, `Complete` or a stutter, and everything else stutters.

### The DAG processor

`Base` says how records, rows and stamps fit together: a row follows its node, stamps are not from the future, an event that waits belongs to a node that is pending
and has budget, what a drain holds was bound from stamps that existed. It needs no hypothesis. `Events` lists the nodes of a set in the order of
registration, by recursion along `Order`; that it lists live events of the set and nothing else (`EventsAreOf`) is proved by taking the smallest place where it would not (`Upwards`).
`RowsAreMemory` adds `Writes`, for inputs that have not strayed (`InStep`): the writes of an input that wait are those of handlers, in a row, and then those on the processor; the last of a handler's carries what memory holds
(`LastApplied`), or there is none and the row does (`Landed`). A handler's push while one of the other kind waits is what makes an input stray, and a push on the processor sets memory and row in one step.
`RowsOnlyAdvance` adds `Apart` (two drains are in one node only if it is shared) and `Advancing`: a compute under way in a node that is not shared was started from stamps no older than those its row was computed from.
`FreshIsFresh` adds `Freshness`, for that a node reads as fresh is decided long after its inputs were bound.
A dependency that still has the stamp a compute started with still has the value it started with, unless an edit's write is on its way (`BoundHolds`). A node with a live event is stale, unless its stamps need not show it because it is shared or
not `Based` (`DueIsStale`, `Mixed`), and one whose compute runs while its event is queued will be stale again (`DueAgain`). Failed computes of a node that two drains are in are where this ends: TLC finds one drain's failure re-queued, the
other's success clearing it, and a dependent that defers on the event that is still there and is restamped. Each conjunct of `Next` has one lemma
that names its effect on records (`Moved`) and one that each part survives it.
`PendingStaysOwned` looks one node at a time: it may stop being owned only when its event is popped, its compute ends or the write that would wake it lands, and each of these puts an event in place of
what it takes (`BeginOwned`, `EndOwned`, `RunSubmissionOwned`), unless the loop raises. A restart queues every pending node (`RestartOwned`).

### The household

What the code does to one node after the other is a concatenation here, and concatenations are folds; `FlattenHolds` and `AmongKeeps` give their length, order and elements by induction along the sequence
(a `Flat` recursion that `FlattenSeq` satisfies), `StepUpTo` being that induction for a fixed predicate.

*Pipelines.* `PipelinesFollow` is not inductive: which listeners a tear-down leaves depends on which nodes in memory belong to a pipeline that stands, and old nodes with the same ids stay in memory. `FollowInv` therefore adds
that the nodes of a key that are as old as its entry are the four of one pipeline (`MemoryStands`, from which `PartsArePipes`), that there is one entry for each key, and when each was built: at the write since which its key has been there
without a break, or at the start of the server if that was later (`BornSince`; such a write exists for each key, `Dated`, and there is one only, `SinceIsOne`). A tear-down keeps the pipelines that are not gone (`TearDownStands`), a building
adds one for each new key and nothing for the others (`BuildStands`, whose `CanBuild` is what a building needs: no pipeline of those keys, nothing as young as they), an edit is both
(`EditStands`), and neither the notifications around it nor a refresh moves anything but records and queue (`Unmoved`). Writes may overlap with queued and running work: nothing here depends on the queue.

*What is shown.* That the breakdown is right at rest is decided long before, by what each node was computed from, so `ShownInv` says of every row, every node and the result at work what it may still be.
Its part `Main` has three layers. *Rows and records* (`Typed`, `Backed`, `RowsTold`, `RowsLinked`, `RowsSummed`, `MemoryTold`): a record that carries the stamp of its input was computed from that input's value, so a place
stamped with the present household tells its address, a route with its home's stamp is the route to it, and the breakdown's row, when its entries' rows have not moved, is their sum. These hold of the rows
too because a restart builds the nodes from them (`TableFits`, `OpenMain`). *The queue* (`Queued`, `InOrder`): an id is queued once, nodes that are torn down and still queued concern nobody, and within a pipeline home, route, entry wait in this order.
*Nodes that nobody has in hand* (`Settled`, `SumStands`; `Free` is neither queued nor at work): a free home is of the present household, a free route is the route to its home, a free entry is made of its route
and its miles, a free breakdown is the sum. The order has one exception, and so has the entry: a home that came to another value tells its route only when it is stored, so an entry may be right about a route that is about to change, but
then the route is queued or at work and will come to something else, which tells the entry (`Changes`, `WillTell`). `UnderWay` keeps of the result at work what the store will need: it fits the inputs it was computed from, or its
node is queued again (`Given`). A step of the processor either stores a record and tells its listeners (`StoredMain`), puts a node off (`PutOffMain`) or starts one (`RefreshMain`); a result that
comes to the same value is recorded anew and tells nobody (`StoreResultMain`). A write moves the household's stamp, so that all who read it are stale and queued (`InformedIsStale`), new pipelines
are queued behind them in their order (`PushedIs`), and what was at work is still given (`PushedGiven`), since its node is queued again or torn down. With an empty queue and no result at work all nodes are free, and `ReachedIs` reads off
what each entry shows. Only the breakdown itself may be pending by its row (`BreakdownPutOff`).

*Losses.* A destination that is lost belonged to a person of some name; either no person has that name any more, or the label is gone from the labels of that name (`LossShrinks`), and both are paged.

### The pages

A page's card may be old for as long as something will correct it. `Covered(r)` says what that is on the server's side: the property is announced, marked, or the card
about to be sent is accurate. The invariant follows a card along its way: one that is built is accurate or announced again (`CardIsBuilt`); each message on a socket is followed by, or is,
an accurate one, or its property is covered (`MailIsFollowed`); what is shown without mail to come is accurate or covered (`ShownIsCovered`), and so is what a listing under way will make the
page show, unless it replaces a newer card (`ListingIsCovered`). `DownMisses`, `ForgetsRemoved` and `ListingIsPast` keep the exceptions apart. A step of the server keeps every page's share when it
keeps each property covered (`PagesKeep`), a step of a page touches its own share only (`OnePage`).

### What-ifs, gateway and releases

*What-ifs.* Requests may be any number of rows ahead of the disk, so the invariant is about `story`: it has one point more than there are submissions, each submission takes the disk from one point to the next (`Tells`), the first is
on disk and the last in memory, and at each of them a restart would find the household's own settings, or a marker and before it the rows to restore those from (`Sound`, `PointOK`). A row that is written later does not move what lies before a marker
(`EarlierStays`), unless the scenario began with persons still to be written, which is `raced`. `real` is the last point's.

*Gateway.* `StoreOK` says of the disk what `OkIsGenuine` says of callers. The overrun is bounded because a call goes out over a spent quota only by leaving
the sleep, and the one that brought the news was awake: `overrun + Started` stays below the number of coroutines (`StartedFalls`).

*Releases.* Until two runs cross, one run at most is at work, however many wait for an approval or have died (`OneAtWork`). `RunOK` gives that run what holds at each of its steps (the roles it read still stand, the box being restored is dark, a prepare's snapshot has every
accepted write), `PreparedHolds` what a finished preparation left behind. A flip that waits is held to nothing: its approval checks that its reading still stands, or is the crossing. One lemma per step shows that step, its failure and the loss of its runner.

### The money

The sums of the model are folds over finite sets. `SumFunctionOnSet` shows that they satisfy the usual recursion, from which the general lemmas follow by
induction on the size of a set (`SumAdds`, `SumTimes`, `SumJoins`, `SumSwap`); induction over the numbers goes through the least counterexample, because the library's induction takes an operator.

*The headline.* Group by group each cost is a sum over people, and owners and others split the adults (`FiguresOf`). What is priced in shares is left: the two shares
of a bill, each rounded to four decimals, make a whole unless both end in a half (`SharesMakeAWhole`). A half needs a denominator that divides 20000 times a part with an odd quotient, hence one
that 32 divides (`NoTie`, by halving five times); fewer adults have none. `BillsAreAllocated` then says that council tax, annexe and sinking fund are each paid in full by whoever the stored payers are matched to.

*The purchase.* What each person brings is a sum over homes of a sum over co-owners; swapping the sums (`SumSwap`) and collecting entries of one name (`SumByName`) gives the value of the homes less what was promised to nobody
(`DepositOfHousehold`). A line of the explanation has terms from one home at most, of which a holder who gave parts away reads the whole home before the part kept (`StatedTwice`, `LineOf`); someone with parts of several homes, or two entries in one, is left out (`OneHome`), for the line
keeps the last one only. Duty is shown band by band (`DutyOfPrice`), the loan by its closed form:
after `m` months the balance is the loan times the compound rate of all months less that of `m` (`LoanOf`), for every loan, rate and number of months, of which the property names a few.

### Only model-checked

- Liveness: `JobSettles`, `DrainSettles`, `UpdatesArrive`, `CallsEnd`, `FreezeEnds`. TLAPS does not handle fairness and ENABLED.
- `QuietMeansFresh` of `DagProcessor`: it holds on the graphs of the runs and not on every graph. A deferred node that has a value is stamped and not queued again (section 6); when what it waited
  for is recomputed to the same value, a change it had from another input is lost, which takes two roads of unequal length from one input. `FlushIsHarmless` is `NoFalseFreshness` and `PendingIsOwned`, which are both proved, for any number of drains (`FreshIsFresh`, `PendingStaysOwned`).
- What joins `Household` and `WhatIf` in `MCHousehold`: that a scenario and the household's own writes are tried in one run.
- The calculations other than the money, the look-ups and the batches of `MCWorkings`: what they compute from sequences of rows, cells and files, through recursive functions and folds, is checked over their inputs. `Expressions` uses RECURSIVE operators and is out of
  the provers' reach.

## 5. Plan

1. *Done:* scrape queue with its life cycle and refinement; DAG processor; household edits and what-ifs; the way to the page; gateway;
   releases and migrations; the calculations, look-ups and batches.
2. *Done:* the safety of the scrape queue, the DAG processor, the pages, the what-ifs, the gateway and the releases, with their inductive invariants; the money of a household; the pipelines of a household, what is shown of them and what is paged.
   *Proofs next:* the invariants of `TflCalls` (`OutagesAreNotKept`, `SaidOnce`) and of `Migrations`.
3. *Modelling left:* weak references of slots, the edits of several properties at once, the settings endpoint of thresholds.

## 6. Disagreements met while modelling

With a run that shows it: `queue_remove`. `houses/server.py:686-687` promises that "the scrape job, the DAG rows, and the registry entry all go away". The job is cancelled
before the await; a retry handled meanwhile leaves a job whose report brings the property back.

Without a run of their own. Each was met in a counterexample of TLC, and most can be reproduced by changing a constant or by dropping an exception
that a property names.

*Scrape queue and DAG*

- `houses/scrape_queue.py:38` reads "failed -> gave up after MAX_ATTEMPTS". One slow attempt is counted twice, as stale and
  as reported, so a job may fail after fewer attempts than that.
- `dag/derived_node.py:758-759`, "Defer — reschedule after the dep completes". A deferred node that already
  has a value is not queued again, and nothing wakes it when its dependency recomputes to the same value.
- `dag/derived_node.py:731-732` rules out "a false freshness claim". A first value bound before its row exists has
  an empty stamp, which switches the stamp comparison off (the exception `Based`); and loop and flush may refresh one node with different outcomes: one drain's failure is re-queued, the other's success clears
  it, and a dependent that defers on the event that is still there is restamped (`shared`).
- `docs/dag-library.md:574-576` has handlers mutate through `run_on_processor`. `patch_property_details` pushes in its own thread, so
  memory and rows may end with different values (`strayed`).
- `dag/scheduler.py:221-225`: a node "may only defer once per not-yet-complete dep". A dependency that retries breaks the count. With a
  tiny registry the drain raises, drops the event and strands the node.
- `dag/scheduler.py:229-230`: "_scheduled holds exactly the queued nodes". Events of popped nodes may stay in the heap.
- `docs/dag-library.md:584` takes history order for cascade order. With two drains in one node, a row may be followed by
  one from older inputs (`shared`).
- `houses/server.py:543-544` expects the flush to run the cascade. `process_pending` reads the time once, so it stops before
  events its own refreshes enqueue.
- A crash after a handler's push was bound and before its row is written leaves a dependent falsely fresh (`strayed`). No document promises otherwise.
- Staleness asks the active dependencies only (`dag/derived_node.py:575`), so clearing a corrected address (`PATCH`, `houses/web/api_router.py:526-530`) leaves
  `best_address` as it was, against `docs/dag-library.md:237-241` (`EveryEditIsSeen` in `Evaluation`). A conditional node that switches to a pending branch keeps its
  old value.
- `dag/evaluate.py:91-99` reports pending before impossible, the refresh it mirrors impossible before pending; its failed dependency has no causes.
- The fingerprint of a node's code does not follow calls that a helper makes through a module or on `self`, nor helpers of `__init__` and
  `_get_active_deps` (`dag/derived_node.py:160-165`, `227-255`, `293-298`).
- `dag/expression.py:357` "Both branches are included in formula output": only one is (`401-409`). Money less a measurement is impossible while the sum falls
  back (`dag/measurement.py:7-10`); `Add` restates the internal text of an error, so its causes are lost; a pending operand becomes impossible; the
  exception's class is lost at the second save.

*Household and what-ifs*

- `houses/nodes/property_nodes.py:360-361`: "every persons push re-prices the breakdown through it". When a person with another mpg leaves and comes back, the breakdown is put off
  behind a node that is then torn down, and stays pending (the exception `BreakdownPutOff` of `HouseholdIsFollowed`).
- `houses/nodes/property_nodes.py:371`: "Value-only changes (trips/car/MPG) need no structural work at all". Whether a person has a car or is a child, the acceptable
  modes and the limit of the walking route are frozen when the pipeline is built (`houses/nodes/commute_pipeline_builder.py:96-203`), so a change of these is followed
  after a restart only (`CarIsFollowed`).
- A write that finds nodes queued (the exception `hurried`) may leave old figures on the page. If a place is queued and its route was put off behind it, the place comes to the same value by its stamps and tells nobody, so at rest the breakdown
  shows the old address. And the slot of a removed place is still called and leaves its id in `_scheduled`; the node that is later built under that id is not queued (`dag/scheduler.py:120-124`).
- Labels are matched as prefixes up to a "/" (`houses/nodes/property_nodes.py:387`), so a label that contains one, or is used twice, takes another's pipeline down.
- `docs/usability-requirements.md`, B7, promises the exact original numbers. An edit whose row is still to be written when the scenario starts is not restored
  (`houses/web/api_router.py:264`, the exception `raced`); a scenario whose marker outlived a crash may be active without having been applied (`281-282`);
  `node_result_before` does not break ties by row (`dag/persistence.py:600-605`).

*Property graph*

- `houses/nodes/transit.py:178-180`: after a trips-only edit planners "are never marked stale and never re-plan". `TransitNode` depends on the whole place
  (`houses/nodes/commute_pipeline_builder.py:152`) and asks Google for the route again where TfL has none; `MayAsk` excepts it.
- A scraped address that failed leaves `best_address` pending, because only sources with a value are active (`houses/nodes/best_address_node.py:37-56`): its figures wait
  for ever, where `dag/user_input_node.py` (`fail`) says "downstream derived nodes propagate `dep_failed`".
- `houses/nodes/town_desc_node.py` falls back when there is no town in the address, but a `town_name` that is impossible fails the node before it computes (`dag/derived_node.py:736-756`).

*Pages*

- The summary that is pushed has neither the scrape state nor `push_stale` of the listing. Other pages are never told of a removal, and a
  late push adds the removed card again.
- `docs/ux-fixes-plan.md:232`: a baseline update re-pushes every summary. The sweep may come before the recomputation. Nothing is fetched again after a reconnection, and a listing that is
  overtaken by a push replaces it with older figures (`docs/dag-library.md:591-604`).
- `houses/nodes/current_home_node.py:213` takes properties to be never deregistered; `houses/server.py:686` does.

*Gateway*

- A cache file that was torn by a crash fails every later call for its request (`houses/api_cache.py:158-161`); an exhausted key refuses answers that are in the cache; an answer
  403 that arrives after midnight blocks the new day; two sleepers may wake within one pace; a cached `OVER_QUERY_LIMIT` marks the quota again; a wrapped 404 of a
  bare URL is served as data.

*Releases and migrations*

- A rollback to the box that is live already does nothing and reports success; a run that was dispatched before another one finished acts on roles that have changed (`crossed`): it may rebuild the box that serves
  (`release.yml:30`, `348`; `tools/deploy/switch.sh:41-45`; `docs/anti-fragile-rollout-plan.md:122`; `docs/rollout-prd.md:54`).
- A rerun after a kill overwrites the only backup from before the migration with the half-migrated table (`tools/deploy/run_migrations.py:270`); any backup file of an earlier run is
  accepted. `backfill_person_ids.py` stamps the persons and all estimates anew on every rollout (`274`, `316`) although `258-260` says never, which moves the point
  a what-if returns to. A record keyed by both name and slug keeps the later money only.

- `release.yml:494-496`: "Both cases must unfreeze", a cancelled run and a lost runner. The unfreeze is one attempt over ssh under `set +e`; a lost runner makes none; and where the app does not come back the box stays down until an
  operator looks (`switch.sh:190-193`). In a split state `resolve` says that all but a rollback refuse, and a release's `provision` job rebuilds the standby all the same (`837`).

*Money and journeys*

- A co-owner who is gone, unknown or a child counts among the joint owners, so the owners' shares allocate too much. The explanation of the deposit does
  not add up for someone who sells one home and co-owns another, or is named twice or in two homes (`houses/model/domain.py:452-458` keeps the last entry); a holder who gave parts away reads the whole home and the part kept, with a plus between them
  (`482-483`, `StatedTwice`). The total counts children's commutes and insurance, the headline figures do not.
- A plan of TfL whose parking was priced counts as having a fare, so the rail fare is not looked up (`houses/nodes/rail_fare_node.py:80-82`). A bus for the
  first walk of a plan of one group replaces the whole plan (`bus_leg_augment_node.py:157-194`). The choice is impossible as soon as one acceptable
  alternative failed, though another leads there, a broken plan of TfL among them, where `TransitNode`'s docstring "falls back through driving/walking via the CommuteSelectorNode" (`houses/nodes/transit.py:363-364`); a first leg that is replaced makes the parking stage add the legs up, which loses the
  planner's own time (`Drift`); `CostGroup` says costs are never added (`houses/commute.py`), `petrol.py:194-204` adds them.
- The energy band drops the letter of a house number (`houses/epc.py:174-180` against `223-227`), and a neighbour whose line begins this address counts as exact. The council tax
  prefix has no border at the comma (`houses/council_tax.py:449`), and "Brent" answers for Brentwood (`203-206`).
- A bus zone found at one operator by a similar name is kept for the next (`houses/bus_journey.py:289-304`). Sorting the file of car parks may change which of two
  rows of a station is used (`houses/car_park.py:453`). `houses/location.py:447-450` takes a failure that may pass for an answer.
- Bus fares: every price of an element is read as that of a single, so a day or return ticket stated only in a fare table also counts as one (`scripts/parse_netex_fares.py:491-520`); a network fare covers the first zone of its tariff only
  (`776-789`, which a test pins); an element sells every product whose id contains the one it names (`626`); prices of a sales offer are never applied when its zones are spelt `StartZoneRef`, because an element without children is false
  (`scripts/parse_netex_fares.py:685-690`); a later file without prices may unprice a stop's zone (`extract_bus_fares.py:254`); an operator that fails is dropped from the
  published table though an earlier one had it (`368-381`); a checkpoint torn by a kill stops every later run until `--force` (`374`).

*Search areas*

- Holes and pinched pieces of a union become searches of their own; outlines are not clipped to the box while rectangles are; holes count as reachable in the
  intersection, where "A house in the intersection is commutable". A cell that touches the buffer's south or west exactly is left out (`tools/commute/tile.py:3-4`).
- An outage of some of a station's questions leaves a record without `routing_error` that is never asked for again, against "byte-identical to a from-scratch run" (`tools/commute/station_shed.py:336`) and `_resume_records` ("gets another chance instead of
  permanently excluding"). `ShedIsCurrent` excepts these records by name (`halved`).
- `_write_if_changed` writes in place (`tools/commute/drive_isochrone.py:994-996`), so the text and the map may be torn; an intersection made during or after a killed run
  mixes new thresholds with old areas, because only labels are compared.

## 7. Not modelled

Authentication: who may see what does not enter any of the calculations. The parsing of web pages and of providers' payloads, the rendering of provenance, formulas and streaming
responses, the views of the page and the map, machine provisioning: almost no state of their own, and what could go wrong there is in the data. The other one-off
scripts convert files without a decision. In the DAG: weak slots of collected nodes, forced refresh, the content of the provenance tree, and the wait in `stop_processor`
(a restart may come at any point). The thresholds of colours write one input that no node of a property reads.
