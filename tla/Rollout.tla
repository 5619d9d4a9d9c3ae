------------------------------ MODULE Rollout ------------------------------
(***************************************************************************)
(* A release: the jobs of .github/workflows/release.yml that act on two    *)
(* boxes through tools/deploy/switch.sh and install-artifact.sh, and move  *)
(* the public traffic by setting the target of two forwarding rules.       *)
(*                                                                         *)
(* A workflow run reads the roles of the boxes once, when it is dispatched,*)
(* and acts on that reading to its end.  Any of its steps can fail, the one*)
(* that gives production back included, it can be cancelled, and its runner*)
(* can be lost; users write to whichever box the https rule targets as long*)
(* as the app on it runs.  Nothing in the workflow keeps two runs apart:   *)
(* crossed remembers that it happened.                                     *)
(***************************************************************************)
EXTENDS Naturals, FiniteSets

CONSTANTS
    Boxes,        \* the two instances
    NoBox,        \* no box
    LiveInstance, \* the box the rules target when they are made
    Runs,         \* workflow runs that may be dispatched, numbered as they are (bound)
    MaxActive,    \* bound: runs under way at the same time
    MaxWrites,    \* bound: what users write
    RunnersDie    \* whether a runner can vanish without its last steps

ASSUME RolloutAssumption ==
    /\ IsFiniteSet(Boxes) /\ Cardinality(Boxes) = 2 /\ NoBox \notin Boxes
    /\ LiveInstance \in Boxes
    /\ Runs \subseteq Nat /\ MaxActive \in Nat /\ MaxWrites \in Nat /\ RunnersDie \in BOOLEAN

VARIABLES
    rules,     \* the targets of the rules houses-l4-http and houses-l4-https
    app,       \* houses.service runs on the box
    db,        \* the box's database: what it holds, whether its migrations are checked
    relay,     \* the box's Caddy relays houses-smoke to the other box
    role,      \* the box's environment names the production URL
    objects,   \* archived snapshots
    run,       \* the workflow runs
    ready,     \* the box last recorded REVIEW READY, and by which action
    accepted,  \* history: writes users made on the live box
    abandoned, \* history: writes given up by approving a recovery
    crossed    \* history: two runs were at work at once, or a flip was approved that
               \* had read the roles before another run changed them

vars == <<rules, app, db, relay, role, objects, run, ready, accepted, abandoned, crossed>>

Writes == 1 .. MaxWrites
NoData == [there |-> FALSE, writes |-> {}, clean |-> FALSE]
Database == [there : BOOLEAN, writes : SUBSET Writes, clean : BOOLEAN]
Kinds == {"release", "prepare", "recover", "flip", "rollback"}
Steps == {"idle", "provision", "install", "freeze", "archive", "rebase", "restoring",
          "relay", "verify", "gate", "preflight", "http", "https", "darken", "settle",
          "unfreeze", "done", "failed", "down", "lost"}
Ended == {"idle", "done", "failed", "down", "lost"}
Run == [kind : Kinds, step : Steps, owner : Boxes, agreed : BOOLEAN, snap : SUBSET Writes]
NotReady == [box |-> NoBox, kind |-> "none"]

Other(b) == CHOOSE c \in Boxes : c # b
Live == rules["https"]
Standby(r) == Other(run[r].owner)

\* A run that waits for the approval of its flip does nothing to the boxes.
AtWork(r) == run[r].step \notin Ended \cup {"gate"}

Goto(r, step) == run' = [run EXCEPT ![r].step = step]

Init ==
    /\ rules = [port \in {"http", "https"} |-> LiveInstance]
    /\ app = [b \in Boxes |-> b = LiveInstance]
    /\ db = [b \in Boxes |-> IF b = LiveInstance THEN [there |-> TRUE, writes |-> {}, clean |-> TRUE] ELSE NoData]
    /\ relay = [b \in Boxes |-> FALSE]
    /\ role = [b \in Boxes |-> b = LiveInstance]
    /\ objects = {} /\ ready = NotReady /\ accepted = {} /\ abandoned = {} /\ crossed = FALSE
    /\ run = [r \in Runs |-> [kind |-> "release", step |-> "idle", owner |-> LiveInstance,
                              agreed |-> TRUE, snap |-> {}]]

-----------------------------------------------------------------------------
\* The first step of each action of the workflow.
FirstStep(kind) ==
    CASE kind = "release"  -> "provision"
      [] kind = "prepare"  -> "freeze"
      [] kind = "recover"  -> "install"
      [] kind = "flip"     -> "gate"
      [] kind = "rollback" -> "http"

\* The resolve job: the owner is the target of the https rule.  While the two rules
\* disagree only a rollback runs, and the provision job of a release, whose condition
\* does not ask.  A new preparation ends what was ready for review.
Dispatch(r, kind) ==
    /\ run[r].step = "idle" /\ \A s \in Runs : s < r => run[s].step # "idle"
    /\ Cardinality({s \in Runs : run[s].step \notin Ended}) < MaxActive
    /\ LET agreed == rules["http"] = rules["https"] IN
       /\ agreed \/ kind \in {"rollback", "release"}
       /\ \E source \in (IF kind = "recover" THEN objects ELSE {{}}) :
            run' = [run EXCEPT ![r] = [kind |-> kind, step |-> FirstStep(kind), owner |-> Live,
                                       agreed |-> agreed, snap |-> source]]
    /\ ready' = IF kind \in {"release", "prepare", "recover"} THEN NotReady ELSE ready
    /\ crossed' = (crossed \/ (kind # "flip" /\ \E s \in Runs : AtWork(s)))
    /\ UNCHANGED <<rules, app, db, relay, role, objects, accepted, abandoned>>

\* Where a failed run goes on: prepare restarts the app it froze.
AfterFailure(r) == IF run[r].kind = "prepare" THEN "unfreeze" ELSE "failed"

\* A step fails before it changed anything, or the run is cancelled.  The unfreeze
\* that runs then fails in its own way.
StepFails(r) ==
    /\ run[r].step \notin Ended \cup {"unfreeze"}
    /\ Goto(r, AfterFailure(r))
    /\ UNCHANGED <<rules, app, db, relay, role, objects, ready, accepted, abandoned, crossed>>

RunnerLost(r) ==
    /\ RunnersDie /\ run[r].step \notin Ended
    /\ Goto(r, "lost")
    /\ UNCHANGED <<rules, app, db, relay, role, objects, ready, accepted, abandoned, crossed>>

-----------------------------------------------------------------------------
\* terraform apply -replace: a new instance without database, relay or role.  Its
\* guard compares the two boxes read at the dispatch, never the rules again; the
\* install after it is skipped where the rules disagreed.
Provision(r) ==
    LET b == Standby(r) IN
    /\ run[r].step = "provision"
    /\ app' = [app EXCEPT ![b] = FALSE]
    /\ db' = [db EXCEPT ![b] = NoData]
    /\ relay' = [relay EXCEPT ![b] = FALSE]
    /\ role' = [role EXCEPT ![b] = FALSE]
    /\ Goto(r, IF run[r].agreed THEN "install" ELSE "done")
    /\ UNCHANGED <<rules, objects, ready, accepted, abandoned, crossed>>

\* install-artifact.sh stops the app of the box it is sent to and leaves it stopped.
Install(r) ==
    /\ run[r].step = "install"
    /\ app' = [app EXCEPT ![Standby(r)] = FALSE]
    /\ Goto(r, IF run[r].kind = "recover" THEN "rebase" ELSE "done")
    /\ UNCHANGED <<rules, db, relay, role, objects, ready, accepted, abandoned, crossed>>

\* Mutant: the snapshot is taken while the owner serves.
SnapshotWithoutFreeze(r) ==
    /\ run[r].step = "freeze" /\ db[run[r].owner].there
    /\ run' = [run EXCEPT ![r].step = "archive", ![r].snap = db[run[r].owner].writes]
    /\ UNCHANGED <<rules, app, db, relay, role, objects, ready, accepted, abandoned, crossed>>

\* switch.sh --snapshot: the app is stopped first; the copy after it may fail.
FreezeAndSnapshot(r) ==
    LET b == run[r].owner IN
    /\ run[r].step = "freeze"
    /\ app' = [app EXCEPT ![b] = FALSE]
    /\ \/ db[b].there /\ run' = [run EXCEPT ![r].step = "archive", ![r].snap = db[b].writes]
       \/ Goto(r, "unfreeze")
    /\ UNCHANGED <<rules, db, relay, role, objects, ready, accepted, abandoned, crossed>>

\* The clean copy is archived before any migration runs.
Archive(r) ==
    /\ run[r].step = "archive"
    /\ objects' = objects \cup {run[r].snap}
    /\ Goto(r, "rebase")
    /\ UNCHANGED <<rules, app, db, relay, role, ready, accepted, abandoned, crossed>>

\* --public-url, then --rebase or --restore stops the standby's app.
BeginRestore(r) ==
    LET b == Standby(r) IN
    /\ run[r].step = "rebase"
    /\ role' = [role EXCEPT ![b] = TRUE]
    /\ app' = [app EXCEPT ![b] = FALSE]
    /\ Goto(r, "restoring")
    /\ UNCHANGED <<rules, db, relay, objects, ready, accepted, abandoned, crossed>>

Restored(r, clean) == [there |-> TRUE, writes |-> run[r].snap, clean |-> clean]

\* Mutant: a failed migration does not keep the app from starting.
FinishRestoreAnyway(r) ==
    LET b == Standby(r) IN
    /\ run[r].step = "restoring"
    /\ \E clean \in BOOLEAN : db' = [db EXCEPT ![b] = Restored(r, clean)]
    /\ app' = [app EXCEPT ![b] = TRUE]
    /\ Goto(r, IF run[r].kind = "prepare" THEN "relay" ELSE "verify")
    /\ UNCHANGED <<rules, relay, role, objects, ready, accepted, abandoned, crossed>>

\* _finish_restore: the copy is verified and swapped in, migrated and checked, and
\* the app restarted; a box that does not become healthy is stopped again, one that
\* fails the data smoke is left running.
FinishRestore(r) ==
    LET b == Standby(r) IN
    /\ run[r].step = "restoring"
    /\ \/ /\ db' = [db EXCEPT ![b] = Restored(r, FALSE)]
          /\ Goto(r, AfterFailure(r)) /\ UNCHANGED app
       \/ /\ db' = [db EXCEPT ![b] = Restored(r, TRUE)]
          /\ \/ \E healthy \in BOOLEAN :
                   Goto(r, AfterFailure(r)) /\ app' = [app EXCEPT ![b] = healthy]
             \/ /\ Goto(r, IF run[r].kind = "prepare" THEN "relay" ELSE "verify")
                /\ app' = [app EXCEPT ![b] = TRUE]
    /\ UNCHANGED <<rules, relay, role, objects, ready, accepted, abandoned, crossed>>

\* prepare publishes the review surface on the owner's Caddy and records the box.
PublishRelay(r) ==
    /\ run[r].step = "relay"
    /\ relay' = [relay EXCEPT ![run[r].owner] = TRUE]
    /\ ready' = [box |-> Standby(r), kind |-> "prepare"]
    /\ Goto(r, "done")
    /\ UNCHANGED <<rules, app, db, role, objects, accepted, abandoned, crossed>>

\* houses-smoke: served by the live box's Caddy, if it relays and the other app runs.
SmokeAnswers == relay[Live] /\ app[Other(Live)]

\* recover polls the review surface but does not publish it.
VerifyReview(r) ==
    /\ run[r].step = "verify" /\ SmokeAnswers
    /\ ready' = [box |-> Standby(r), kind |-> "recover"]
    /\ Goto(r, "done")
    /\ UNCHANGED <<rules, app, db, relay, role, objects, accepted, abandoned, crossed>>

\* Mutant: the failed preparation leaves the owner as it is.
UnfreezeForgotten(r) ==
    /\ run[r].step = "unfreeze"
    /\ Goto(r, "failed")
    /\ UNCHANGED <<rules, app, db, relay, role, objects, ready, accepted, abandoned, crossed>>

\* switch.sh --unfreeze, sent once by a prepare that failed or was cancelled.  The box
\* may be out of reach, or its app may not come back: the step fails, nothing tries
\* again, and production stays down.
Unfreeze(r) ==
    LET b == run[r].owner IN
    /\ run[r].step = "unfreeze"
    /\ \/ db[b].there /\ app' = [app EXCEPT ![b] = TRUE] /\ Goto(r, "failed")
       \/ UNCHANGED app /\ Goto(r, "down")
    /\ UNCHANGED <<rules, db, relay, role, objects, ready, accepted, abandoned, crossed>>

-----------------------------------------------------------------------------
\* The human approves the pending flip of the box recorded as ready; it goes on with
\* the roles read when it was dispatched.
Approve(r) ==
    /\ run[r].step = "gate" /\ ready # NotReady
    /\ Goto(r, "preflight")
    /\ crossed' = (crossed \/ run[r].owner # Live \/ (\E s \in Runs : AtWork(s)))
    /\ UNCHANGED <<rules, app, db, relay, role, objects, ready, accepted, abandoned>>

\* Mutant: the surface is not looked at again after the approval.
NoPreflight(r) ==
    /\ run[r].step = "preflight"
    /\ Goto(r, "http")
    /\ UNCHANGED <<rules, app, db, relay, role, objects, ready, accepted, abandoned, crossed>>

Preflight(r) ==
    /\ run[r].step = "preflight" /\ SmokeAnswers
    /\ Goto(r, "http")
    /\ UNCHANGED <<rules, app, db, relay, role, objects, ready, accepted, abandoned, crossed>>

\* Where a run points the rules: a flip at the standby, a rollback at the box that
\* was the target when it was dispatched, whether the rules agreed or not.
TargetOf(r) == IF run[r].kind = "flip" THEN Standby(r) ELSE run[r].owner

SetHttp(r) ==
    /\ run[r].step = "http"
    /\ rules' = [rules EXCEPT !["http"] = TargetOf(r)]
    /\ Goto(r, "https")
    /\ UNCHANGED <<app, db, relay, role, objects, ready, accepted, abandoned, crossed>>

\* From here users are served by the other box; approving a recovery gives up what
\* its object does not hold.
SetHttps(r) ==
    /\ run[r].step = "https"
    /\ rules' = [rules EXCEPT !["https"] = TargetOf(r)]
    /\ abandoned' = IF run[r].kind = "flip" /\ ready.kind = "recover"
                    THEN abandoned \cup (accepted \ db[TargetOf(r)].writes) ELSE abandoned
    /\ Goto(r, IF run[r].kind = "flip" THEN "darken" ELSE "settle")
    /\ UNCHANGED <<app, db, relay, role, objects, ready, accepted, crossed>>

\* Mutant: the flip forgets the box and keeps the kind of its preparation.
DarkenKeepsKind(r) ==
    /\ run[r].step = "darken"
    /\ relay' = [relay EXCEPT ![run[r].owner] = FALSE]
    /\ ready' = [ready EXCEPT !.box = NoBox]
    /\ Goto(r, "settle")
    /\ UNCHANGED <<rules, app, db, role, objects, accepted, abandoned, crossed>>

Darken(r) ==
    /\ run[r].step = "darken"
    /\ relay' = [relay EXCEPT ![run[r].owner] = FALSE]
    /\ ready' = NotReady
    /\ Goto(r, "settle")
    /\ UNCHANGED <<rules, app, db, role, objects, accepted, abandoned, crossed>>

\* The continuity probe and the settle window, or the rollback's verification.
Settle(r) ==
    /\ run[r].step = "settle" /\ app[Live]
    /\ Goto(r, "done")
    /\ UNCHANGED <<rules, app, db, relay, role, objects, ready, accepted, abandoned, crossed>>

-----------------------------------------------------------------------------
\* An operator starts the live box by hand, and gives up what was ready.
OperatorUnfreeze ==
    /\ ~app[Live] /\ db[Live].there
    /\ \A r \in Runs : run[r].step \in Ended \cup {"gate"}
    /\ app' = [app EXCEPT ![Live] = TRUE]
    /\ ready' = NotReady
    /\ UNCHANGED <<rules, db, relay, role, objects, run, accepted, abandoned, crossed>>

UserWrites ==
    /\ app[Live] /\ Cardinality(accepted) < MaxWrites
    /\ LET w == Cardinality(accepted) + 1 IN
       /\ accepted' = accepted \cup {w}
       /\ db' = [db EXCEPT ![Live].writes = @ \cup {w}]
    /\ UNCHANGED <<rules, app, relay, role, objects, run, ready, abandoned, crossed>>

RunStep(r) ==
    \/ Provision(r) \/ Install(r)
    \/ FreezeAndSnapshot(r) \/ Archive(r) \/ BeginRestore(r) \/ FinishRestore(r)
    \/ PublishRelay(r) \/ VerifyReview(r) \/ Unfreeze(r)
    \/ Preflight(r) \/ SetHttp(r) \/ SetHttps(r) \/ Darken(r) \/ Settle(r)

Next ==
    \/ \E r \in Runs, kind \in Kinds : Dispatch(r, kind)
    \/ \E r \in Runs : RunStep(r) \/ StepFails(r) \/ RunnerLost(r) \/ Approve(r)
    \/ OperatorUnfreeze
    \/ UserWrites

Spec == Init /\ [][Next]_vars

\* A runner goes through its steps: each ends by itself, by failing or by its
\* timeout-minutes.  Nobody promises to dispatch, to approve or to repair anything.
Fairness == \A r \in Runs : WF_vars(RunStep(r) \/ StepFails(r))

FairSpec == Spec /\ Fairness

-----------------------------------------------------------------------------
\* Every variable has its type.
TypeOK ==
    /\ rules \in [{"http", "https"} -> Boxes]
    /\ app \in [Boxes -> BOOLEAN] /\ relay \in [Boxes -> BOOLEAN] /\ role \in [Boxes -> BOOLEAN]
    /\ db \in [Boxes -> Database]
    /\ objects \subseteq SUBSET Writes
    /\ run \in [Runs -> Run]
    /\ ready \in [box : Boxes, kind : {"prepare", "recover"}] \cup {NotReady}
    /\ accepted \subseteq Writes /\ abandoned \subseteq Writes
    /\ crossed \in BOOLEAN

\* The workflow has no concurrency group of its own, so runs may cross; the first three
\* properties are about the behaviours up to the first crossing.

\* No write a user made is lost by moving the traffic, except those given up by
\* approving a recovery: the box users are sent to holds all the others.
NoWriteLost == crossed \/ accepted \ abandoned \subseteq db[Live].writes

\* Users are only ever served from a database whose migrations were all checked, by
\* a box that was given the production role.
LiveIsComplete == crossed \/ (db[Live].clean /\ role[Live])

\* Production is down only while a preparation is under way or waits for its flip,
\* after a runner was lost, after an unfreeze that reported the box down, or when a
\* release or a recovery was dispatched over the frozen owner: these take the
\* reviewed box away and restart nothing.
DownIsAccountedFor ==
    \/ crossed
    \/ app[Live]
    \/ ready # NotReady
    \/ \E r \in Runs : run[r].kind \in {"release", "recover"} /\ run[r].step # "idle"
    \/ \E r \in Runs : \/ run[r].step \in {"lost", "down"}
                       \/ run[r].kind = "prepare" /\ run[r].step \notin Ended

\* The outage a preparation begins comes to an end it reports, whether runs cross or
\* not: the frozen box serves again, a box is ready for review, or the run is lost or
\* says that its unfreeze failed.
FreezeEnds ==
    \A r \in Runs : run[r].kind = "prepare" /\ run[r].step \in {"archive", "unfreeze"}
                      ~> app[run[r].owner] \/ ready.kind = "prepare" \/ run[r].step \in {"lost", "down"}

\* A rollback whose rules agreed when it started moves the traffic off the box that
\* was live then, back to the other one.
RollbackMovesTraffic ==
    [][\A r \in Runs : run[r].kind = "rollback" /\ run[r].agreed
                         /\ run[r].step = "https" /\ run'[r].step = "settle"
            => rules'["https"] # run[r].owner]_vars

\* No run rebuilds or installs on the box that serves the users, as long as no runs
\* cross: the guard of the job does not read the rules again.
LiveBoxIsNotInstalled ==
    [][\A r \in Runs : run[r].step \in {"provision", "install"} /\ run'[r].step \in {"install", "done", "rebase"}
                         /\ run[r].step # run'[r].step => crossed \/ Standby(r) # Live]_vars
=============================================================================
