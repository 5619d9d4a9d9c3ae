--------------------------- MODULE Rollout_proofs ---------------------------
(***************************************************************************)
(* Proofs about Rollout, for any number of workflow runs and of writes,    *)
(* whichever step of a run fails, or loses its runner.  Runs may overlap   *)
(* in any way; what is said of the boxes is said until two runs cross.     *)
(***************************************************************************)
EXTENDS Rollout, FiniteSetTheorems, TLAPS

-----------------------------------------------------------------------------
(***************************************************************************)
(* The inductive invariant.  RunOK is what holds of a run that is under    *)
(* way; one that has ended is held to nothing.                             *)
(***************************************************************************)
Active(r) == run[r].step \notin Ended
OneAtWork == \A r, s \in Runs : AtWork(r) /\ AtWork(s) => r = s

\* Which workflow goes through which step.
KindsOf(step) ==
    CASE step = "provision" -> {"release"}
      [] step = "install" -> {"release", "recover"}
      [] step \in {"freeze", "archive", "relay", "unfreeze"} -> {"prepare"}
      [] step \in {"rebase", "restoring"} -> {"prepare", "recover"}
      [] step = "verify" -> {"recover"}
      [] step \in {"gate", "preflight", "darken"} -> {"flip"}
      [] OTHER -> {"flip", "rollback"}

\* Until it has moved the https rule, a run's reading of the roles stands.
OwnerIsLive(r) == run[r].step \notin {"darken", "settle"} => run[r].owner = Live

\* The app of the box that is being restored is down.
RestoringIsDark(r) == run[r].step = "restoring" => ~app[Standby(r)] /\ role[Standby(r)]

\* A run that works on the standby has first ended what was ready for review.
ReadyIsOver(r) == run[r].kind \in {"release", "prepare", "recover"} => ready = NotReady

\* From the freeze to the relay nobody writes, and the snapshot holds everything.
PrepareIsFrozen(r) ==
    run[r].kind = "prepare" /\ run[r].step \in {"archive", "rebase", "restoring", "relay"} =>
        /\ ~app[Live] /\ accepted \ abandoned \subseteq run[r].snap
        /\ run[r].step = "relay" => db[Standby(r)].writes = run[r].snap

\* A flip past its preflight moves the traffic to a box that runs, then has moved it.
FlipIsServed(r) ==
    run[r].kind = "flip" =>
        /\ run[r].step \in {"preflight", "http", "https"} => ready # NotReady
        /\ run[r].step \in {"http", "https"} => app[Standby(r)]
        /\ run[r].step = "darken" => app[Live]

RunOK(r) ==
    /\ Active(r) => run[r].kind \in KindsOf(run[r].step)
    /\ AtWork(r) => /\ OwnerIsLive(r) /\ RestoringIsDark(r) /\ ReadyIsOver(r)
                    /\ PrepareIsFrozen(r) /\ FlipIsServed(r)

\* An app runs only on a database whose migrations were checked, with the role.
AppIsComplete == \A b \in Boxes : app[b] => db[b].clean /\ role[b]

\* What a preparation left ready: the other box holds everything and users are
\* held off, or the flip is over and its step after it failed.
PreparedHolds ==
    ready.kind = "prepare" =>
        \/ ~app[Live] /\ accepted \ abandoned \subseteq db[Other(Live)].writes
        \/ ~app[Other(Live)]

\* What the properties say, of a behaviour without a crossing.
LiveHoldsAll == accepted \ abandoned \subseteq db[Live].writes
LiveIsReady == db[Live].clean /\ role[Live]
DownIsExcused ==
    \/ app[Live]
    \/ ready # NotReady
    \/ \E r \in Runs : run[r].kind \in {"release", "recover"} /\ run[r].step # "idle"
    \/ \E r \in Runs : \/ run[r].step \in {"lost", "down"}
                       \/ run[r].kind = "prepare" /\ run[r].step \notin Ended

BoxesOK == AppIsComplete /\ PreparedHolds /\ LiveHoldsAll /\ LiveIsReady

Orderly ==
    /\ TypeOK /\ OneAtWork /\ \A r \in Runs : RunOK(r)
    /\ BoxesOK /\ DownIsExcused

IInv == TypeOK /\ (crossed \/ Orderly)

-----------------------------------------------------------------------------
(***************************************************************************)
(* Two boxes, and one run that moves.                                      *)
(***************************************************************************)

\* Other is the other one of the two boxes.
LEMMA TwoBoxes ==
    ASSUME NEW b \in Boxes
    PROVE  /\ Other(b) \in Boxes /\ Other(b) # b
           /\ \A c \in Boxes : c # b => c = Other(b)
<1>1. IsFiniteSet(Boxes) /\ Cardinality(Boxes) = 2  BY RolloutAssumption
<1>2. IsFiniteSet(Boxes \ {b}) /\ Cardinality(Boxes \ {b}) = 1  BY <1>1, FS_RemoveElement
<1>3. PICK o : Boxes \ {b} = {o}  BY <1>2, FS_Singleton
<1>. QED  BY <1>3 DEF Other

\* Where one run at most is at work, the invariant of the runs has to be shown of the
\* one that moves, and of no other.
LEMMA RunMoves ==
    ASSUME NEW r \in Runs, \A s \in Runs \ {r} : ~AtWork(s) /\ RunOK(s),
           \A s \in Runs \ {r} : run'[s] = run[s], RunOK(r)'
    PROVE  OneAtWork' /\ \A s \in Runs : RunOK(s)'
<1>1. \A s \in Runs \ {r} : ~AtWork(s)'  BY DEF AtWork
<1>. QED  BY <1>1 DEF OneAtWork, RunOK, Active

LEMMA OthersRest ==
    ASSUME Orderly, NEW r \in Runs, AtWork(r)
    PROVE  \A s \in Runs \ {r} : ~AtWork(s)
BY DEF Orderly, OneAtWork

\* Whatever excuses the box that serves nobody is not forgotten by another run.
Excuses(r) == \/ run[r].kind \in {"release", "recover"} /\ run[r].step # "idle"
              \/ run[r].step \in {"lost", "down"}
              \/ run[r].kind = "prepare" /\ Active(r)
UpOrExcused(r) == app[Live] \/ ready # NotReady \/ Excuses(r)

LEMMA DownStays ==
    ASSUME NEW r \in Runs, \A s \in Runs \ {r} : run'[s] = run[s],
           DownIsExcused, UpOrExcused(r) => UpOrExcused(r)',
           app[Live] \/ ready # NotReady => UpOrExcused(r)'
    PROVE  DownIsExcused'
<1>1. DownIsExcused <=> \E s \in Runs : UpOrExcused(s)
  BY DEF DownIsExcused, UpOrExcused, Excuses, Active
<1>2. DownIsExcused' <=> \E s \in Runs : UpOrExcused(s)'
  BY DEF DownIsExcused, UpOrExcused, Excuses, Active
<1>3. \A s \in Runs \ {r} : Excuses(s)' = Excuses(s)  BY DEF Excuses, Active
<1>. QED  BY <1>1, <1>2, <1>3 DEF UpOrExcused

LEMMA StepPreserves ==
    ASSUME Orderly, NEW r \in Runs, \A s \in Runs \ {r} : ~AtWork(s),
           \A s \in Runs \ {r} : run'[s] = run[s],
           TypeOK', RunOK(r)', BoxesOK', UpOrExcused(r) => UpOrExcused(r)',
           app[Live] \/ ready # NotReady => UpOrExcused(r)'
    PROVE  Orderly'
<1>1. \A s \in Runs \ {r} : RunOK(s)  BY DEF Orderly
<1>2. OneAtWork' /\ \A s \in Runs : RunOK(s)'  BY <1>1, RunMoves
<1>3. DownIsExcused'  BY DownStays DEF Orderly
<1>. QED  BY <1>2, <1>3 DEF Orderly

\* A run that ends without touching a box does not disturb the one that is at work.
LEMMA EndPreserves ==
    ASSUME Orderly, NEW r \in Runs, \A s \in Runs \ {r} : run'[s] = run[s],
           UNCHANGED <<rules, app, db, relay, role, ready, accepted, abandoned>>,
           TypeOK', ~AtWork(r)', RunOK(r)', UpOrExcused(r) => UpOrExcused(r)'
    PROVE  Orderly'
<1>1. \A s \in Runs \ {r} : AtWork(s)' = AtWork(s)  BY DEF AtWork
<1>2. OneAtWork'  BY <1>1 DEF Orderly, OneAtWork
<1>3. \A s \in Runs \ {r} : RunOK(s)'
  <2>1. SUFFICES ASSUME NEW s \in Runs \ {r}  PROVE RunOK(s)'  OBVIOUS
  <2>2. RunOK(s) /\ run'[s] = run[s]  BY <2>1 DEF Orderly
  <2>. QED  BY <2>2 DEF RunOK, AtWork, Active, OwnerIsLive, RestoringIsDark, ReadyIsOver, PrepareIsFrozen,
              FlipIsServed, Live, Standby, Other
<1>4. BoxesOK'
  BY DEF Orderly, BoxesOK, AppIsComplete, PreparedHolds, LiveHoldsAll, LiveIsReady, Live, Other
<1>5. app[Live] \/ ready # NotReady => UpOrExcused(r)'  BY DEF UpOrExcused, Live
<1>6. DownIsExcused'  BY <1>5, DownStays DEF Orderly
<1>. QED  BY <1>2, <1>3, <1>4, <1>6 DEF Orderly

\* A run goes to its next step and keeps everything else.
LEMMA Moved ==
    ASSUME TypeOK, NEW r \in Runs, NEW step \in Steps, Goto(r, step)
    PROVE  /\ run' \in [Runs -> Run]
           /\ \A s \in Runs \ {r} : run'[s] = run[s]
           /\ run'[r].step = step
           /\ run'[r].kind = run[r].kind /\ run'[r].owner = run[r].owner /\ run'[r].snap = run[r].snap
           /\ Standby(r)' = Standby(r)
BY DEF TypeOK, Run, Goto, Standby, Other

LEMMA Owners ==
    ASSUME TypeOK, NEW r \in Runs
    PROVE  /\ Live \in Boxes /\ Other(Live) \in Boxes /\ Other(Live) # Live
           /\ run[r].owner \in Boxes /\ Standby(r) \in Boxes /\ Standby(r) # run[r].owner
           /\ \A c \in Boxes : c # run[r].owner => c = Standby(r)
           /\ \A c \in Boxes : c # Live => c = Other(Live)
BY TwoBoxes DEF TypeOK, Run, Live, Standby

-----------------------------------------------------------------------------
(***************************************************************************)
(* Every step keeps the type, whatever other runs are doing.               *)
(***************************************************************************)

\* A run is dispatched with what it reads.
LEMMA DispatchMoves ==
    ASSUME TypeOK, NEW r \in Runs, NEW kind \in Kinds, Dispatch(r, kind)
    PROVE  /\ run' \in [Runs -> Run] /\ \A s \in Runs \ {r} : run'[s] = run[s]
           /\ run'[r].kind = kind /\ run'[r].step = FirstStep(kind) /\ run'[r].owner = Live
           /\ kind \in KindsOf(FirstStep(kind))
<1>1. PICK source \in SUBSET Writes :
        run' = [run EXCEPT ![r] = [kind |-> kind, step |-> FirstStep(kind), owner |-> Live,
                                   agreed |-> rules["http"] = rules["https"], snap |-> source]]
  BY DEF Dispatch, TypeOK
<1>2. FirstStep(kind) \in Steps /\ kind \in KindsOf(FirstStep(kind))
  BY DEF Kinds, FirstStep, Steps, KindsOf
<1>3. Live \in Boxes  BY DEF TypeOK, Live
<1>. QED  BY <1>1, <1>2, <1>3 DEF TypeOK, Run

\* The next write is within the bound.
LEMMA NextWrite ==
    ASSUME TypeOK, Cardinality(accepted) < MaxWrites
    PROVE  Cardinality(accepted) + 1 \in Writes
<1>1. IsFiniteSet(Writes)  BY RolloutAssumption, FS_Interval DEF Writes
<1>2. IsFiniteSet(accepted)  BY <1>1, FS_Subset DEF TypeOK
<1>3. Cardinality(accepted) \in Nat  BY <1>2, FS_CardinalityType
<1>. QED  BY <1>3, RolloutAssumption DEF Writes

\* The steps that keep the databases of the boxes.
LEMMA TypeStepBoxes ==
    ASSUME TypeOK, NEW r \in Runs,
           \/ Install(r) \/ BeginRestore(r) \/ PublishRelay(r) \/ VerifyReview(r) \/ Unfreeze(r)
           \/ Preflight(r) \/ SetHttp(r) \/ SetHttps(r) \/ Darken(r) \/ Settle(r)
           \/ StepFails(r) \/ RunnerLost(r) \/ Approve(r)
    PROVE  TypeOK'
<1>1. /\ Live \in Boxes /\ run[r].owner \in Boxes /\ Standby(r) \in Boxes /\ TargetOf(r) \in Boxes
  BY Owners DEF TargetOf
<1>2. PICK step \in Steps : Goto(r, step)
  BY DEF Install, BeginRestore, PublishRelay, VerifyReview, Unfreeze, Preflight, SetHttp, SetHttps, Darken, Settle,
         StepFails, RunnerLost, Approve, AfterFailure, Steps
<1>3. run' \in [Runs -> Run]  BY <1>2, Moved
<1>4. /\ rules' \in [{"http", "https"} -> Boxes]
      /\ app' \in [Boxes -> BOOLEAN] /\ relay' \in [Boxes -> BOOLEAN] /\ role' \in [Boxes -> BOOLEAN]
      /\ db' = db /\ objects' = objects
  BY <1>1 DEF TypeOK, Install, BeginRestore, PublishRelay, VerifyReview, Unfreeze, Preflight, SetHttp, SetHttps,
         Darken, Settle, StepFails, RunnerLost, Approve
<1>5. ready' \in [box : Boxes, kind : {"prepare", "recover"}] \cup {NotReady}
  <2>1. ready' \in {ready, NotReady, [box |-> Standby(r), kind |-> "prepare"], [box |-> Standby(r), kind |-> "recover"]}
    BY DEF Install, BeginRestore, PublishRelay, VerifyReview, Unfreeze, Preflight, SetHttp, SetHttps,
           Darken, Settle, StepFails, RunnerLost, Approve
  <2>. QED  BY <1>1, <2>1 DEF TypeOK
<1>6. accepted' = accepted /\ abandoned' \subseteq Writes /\ crossed' \in BOOLEAN
  BY <1>1 DEF TypeOK, Install, BeginRestore, PublishRelay, VerifyReview, Unfreeze, Preflight, SetHttp, SetHttps,
         Darken, Settle, StepFails, RunnerLost, Approve
<1>. QED  BY <1>3, <1>4, <1>5, <1>6 DEF TypeOK

\* The steps that make a database, copy it or write to it, or wake a box.
LEMMA TypeStepData ==
    ASSUME TypeOK, NEW r \in Runs,
           Provision(r) \/ FreezeAndSnapshot(r) \/ Archive(r) \/ FinishRestore(r)
    PROVE  TypeOK'
<1>1. Live \in Boxes /\ run[r].owner \in Boxes /\ Standby(r) \in Boxes  BY Owners
<1>2. run[r] \in Run /\ run[r].snap \in SUBSET Writes /\ NoData \in Database
  BY DEF TypeOK, Run, NoData, Database
<1>3. \A clean \in BOOLEAN : Restored(r, clean) \in Database  BY <1>2 DEF Restored, Database
<1>4. CASE Provision(r)
  <2>1. PICK step \in Steps : Goto(r, step)  BY <1>4 DEF Provision, Steps
  <2>2. run' \in [Runs -> Run]  BY <2>1, Moved
  <2>. QED  BY <1>1, <1>2, <1>4, <2>2 DEF Provision, TypeOK
<1>5. CASE FreezeAndSnapshot(r)
  <2>1. db[run[r].owner].writes \in SUBSET Writes  BY <1>1 DEF TypeOK, Database
  <2>2. run' \in [Runs -> Run]
    <3>1. CASE Goto(r, "unfreeze")  BY <3>1, Moved DEF Steps
    <3>2. CASE run' = [run EXCEPT ![r].step = "archive", ![r].snap = db[run[r].owner].writes]
      <4>. DEFINE new == [run[r] EXCEPT !.step = "archive", !.snap = db[run[r].owner].writes]
      <4>1. new \in Run  BY <1>2, <2>1 DEF Run, Steps
      <4>2. run' = [run EXCEPT ![r] = new]  BY <3>2
      <4>. QED  BY <4>1, <4>2 DEF TypeOK
    <3>. QED  BY <1>5, <3>1, <3>2 DEF FreezeAndSnapshot
  <2>. QED  BY <1>1, <1>5, <2>2 DEF FreezeAndSnapshot, TypeOK
<1>6. CASE Archive(r)
  <2>1. run' \in [Runs -> Run]  BY <1>6, Moved DEF Archive, Steps
  <2>. QED  BY <1>2, <1>6, <2>1 DEF Archive, TypeOK
<1>7. CASE FinishRestore(r)
  <2>1. PICK step \in Steps : Goto(r, step)  BY <1>7 DEF FinishRestore, AfterFailure, Steps
  <2>2. run' \in [Runs -> Run]  BY <2>1, Moved
  <2>3. db' \in [Boxes -> Database]  BY <1>1, <1>3, <1>7 DEF FinishRestore, TypeOK
  <2>4. app' \in [Boxes -> BOOLEAN]  BY <1>1, <1>7 DEF FinishRestore, TypeOK
  <2>. QED  BY <1>7, <2>2, <2>3, <2>4 DEF FinishRestore, TypeOK
<1>. QED  BY <1>4, <1>5, <1>6, <1>7

LEMMA TypeStep == TypeOK /\ [Next]_vars => TypeOK'
<1>1. SUFFICES ASSUME TypeOK, [Next]_vars  PROVE TypeOK'  OBVIOUS
<1>2. ASSUME NEW r \in Runs, NEW kind \in Kinds, Dispatch(r, kind)  PROVE TypeOK'
  <2>1. run' \in [Runs -> Run]  BY <1>1, <1>2, DispatchMoves
  <2>2. ready' \in {ready, NotReady} /\ crossed' \in BOOLEAN  BY <1>1, <1>2 DEF Dispatch, TypeOK
  <2>. QED  BY <1>1, <1>2, <2>1, <2>2 DEF Dispatch, TypeOK
<1>3. ASSUME NEW r \in Runs, RunStep(r) \/ StepFails(r) \/ RunnerLost(r) \/ Approve(r)  PROVE TypeOK'
  BY <1>1, <1>3, TypeStepBoxes, TypeStepData DEF RunStep
<1>4. ASSUME OperatorUnfreeze  PROVE TypeOK'
  BY <1>1, <1>4 DEF OperatorUnfreeze, TypeOK, Live
<1>5. ASSUME UserWrites  PROVE TypeOK'
  <2>1. PICK w \in Writes : accepted' = accepted \cup {w} /\ db' = [db EXCEPT ![Live].writes = @ \cup {w}]
    BY <1>1, <1>5, NextWrite DEF UserWrites
  <2>2. Live \in Boxes  BY <1>1 DEF TypeOK, Live
  <2>3. db' \in [Boxes -> Database]  BY <1>1, <2>1, <2>2 DEF TypeOK, Database
  <2>. QED  BY <1>1, <1>5, <2>1, <2>3 DEF UserWrites, TypeOK
<1>6. CASE UNCHANGED vars  BY <1>1, <1>6 DEF vars, TypeOK
<1>. QED  BY <1>1, <1>2, <1>3, <1>4, <1>5, <1>6 DEF Next

-----------------------------------------------------------------------------
(***************************************************************************)
(* While no two runs have crossed, every step keeps the boxes in order.    *)
(***************************************************************************)

LEMMA ProvisionOK ==
    ASSUME Orderly, NEW r \in Runs, Provision(r)
    PROVE  Orderly'
<1>. DEFINE step == IF run[r].agreed THEN "install" ELSE "done"
<1>1. TypeOK /\ AtWork(r) /\ RunOK(r)  BY DEF Orderly, AtWork, Provision, Ended
<1>2. step \in Steps /\ Goto(r, step)  BY DEF Provision, Steps
<1>3. /\ run' \in [Runs -> Run] /\ \A s \in Runs \ {r} : run'[s] = run[s]
      /\ run'[r].step = step /\ run'[r].kind = run[r].kind
      /\ run'[r].owner = run[r].owner /\ run'[r].snap = run[r].snap /\ Standby(r)' = Standby(r)
  BY <1>1, <1>2, Moved
<1>4. /\ Live \in Boxes /\ Other(Live) \in Boxes /\ Other(Live) # Live
      /\ run[r].owner \in Boxes /\ Standby(r) \in Boxes /\ Standby(r) # run[r].owner
      /\ \A c \in Boxes : c # Live => c = Other(Live)
  BY <1>1, Owners
<1>5. TypeOK'  BY <1>1, TypeStep DEF Next, RunStep
<1>6. RunOK(r)'
  BY <1>1, <1>3, <1>4 DEF Provision, TypeOK, RunOK, AtWork, Active, Ended, KindsOf, OwnerIsLive, RestoringIsDark,
         ReadyIsOver, PrepareIsFrozen, FlipIsServed, Live, SmokeAnswers, TargetOf
<1>7. BoxesOK'
  BY <1>1, <1>3, <1>4 DEF Provision, Orderly, TypeOK, RunOK, KindsOf, OwnerIsLive, RestoringIsDark, ReadyIsOver,
         PrepareIsFrozen, FlipIsServed, BoxesOK, AppIsComplete, PreparedHolds, LiveHoldsAll, LiveIsReady,
         Live, Standby, NotReady, TargetOf
<1>8. /\ UpOrExcused(r) => UpOrExcused(r)'
      /\ app[Live] \/ ready # NotReady => UpOrExcused(r)'
  BY <1>1, <1>3, <1>4 DEF Provision, TypeOK, RunOK, KindsOf, OwnerIsLive, ReadyIsOver, FlipIsServed, UpOrExcused, Excuses,
         Active, Ended, Live, Standby, NotReady, TargetOf
<1>. QED  BY <1>1, <1>3, <1>5, <1>6, <1>7, <1>8, OthersRest, StepPreserves

LEMMA InstallOK ==
    ASSUME Orderly, NEW r \in Runs, Install(r)
    PROVE  Orderly'
<1>. DEFINE step == IF run[r].kind = "recover" THEN "rebase" ELSE "done"
<1>1. TypeOK /\ AtWork(r) /\ RunOK(r)  BY DEF Orderly, AtWork, Install, Ended
<1>2. step \in Steps /\ Goto(r, step)  BY DEF Install, Steps
<1>3. /\ run' \in [Runs -> Run] /\ \A s \in Runs \ {r} : run'[s] = run[s]
      /\ run'[r].step = step /\ run'[r].kind = run[r].kind
      /\ run'[r].owner = run[r].owner /\ run'[r].snap = run[r].snap /\ Standby(r)' = Standby(r)
  BY <1>1, <1>2, Moved
<1>4. /\ Live \in Boxes /\ Other(Live) \in Boxes /\ Other(Live) # Live
      /\ run[r].owner \in Boxes /\ Standby(r) \in Boxes /\ Standby(r) # run[r].owner
      /\ \A c \in Boxes : c # Live => c = Other(Live)
  BY <1>1, Owners
<1>5. TypeOK'  BY <1>1, TypeStep DEF Next, RunStep
<1>6. RunOK(r)'
  BY <1>1, <1>3, <1>4 DEF Install, TypeOK, RunOK, AtWork, Active, Ended, KindsOf, OwnerIsLive, RestoringIsDark,
         ReadyIsOver, PrepareIsFrozen, FlipIsServed, Live, SmokeAnswers, TargetOf
<1>7. BoxesOK'
  BY <1>1, <1>3, <1>4 DEF Install, Orderly, TypeOK, RunOK, KindsOf, OwnerIsLive, RestoringIsDark, ReadyIsOver,
         PrepareIsFrozen, FlipIsServed, BoxesOK, AppIsComplete, PreparedHolds, LiveHoldsAll, LiveIsReady,
         Live, Standby, NotReady, TargetOf
<1>8. /\ UpOrExcused(r) => UpOrExcused(r)'
      /\ app[Live] \/ ready # NotReady => UpOrExcused(r)'
  BY <1>1, <1>3, <1>4 DEF Install, TypeOK, RunOK, KindsOf, OwnerIsLive, ReadyIsOver, FlipIsServed, UpOrExcused, Excuses,
         Active, Ended, Live, Standby, NotReady, TargetOf
<1>. QED  BY <1>1, <1>3, <1>5, <1>6, <1>7, <1>8, OthersRest, StepPreserves

LEMMA ArchiveOK ==
    ASSUME Orderly, NEW r \in Runs, Archive(r)
    PROVE  Orderly'
<1>. DEFINE step == "rebase"
<1>1. TypeOK /\ AtWork(r) /\ RunOK(r)  BY DEF Orderly, AtWork, Archive, Ended
<1>2. step \in Steps /\ Goto(r, step)  BY DEF Archive, Steps
<1>3. /\ run' \in [Runs -> Run] /\ \A s \in Runs \ {r} : run'[s] = run[s]
      /\ run'[r].step = step /\ run'[r].kind = run[r].kind
      /\ run'[r].owner = run[r].owner /\ run'[r].snap = run[r].snap /\ Standby(r)' = Standby(r)
  BY <1>1, <1>2, Moved
<1>4. /\ Live \in Boxes /\ Other(Live) \in Boxes /\ Other(Live) # Live
      /\ run[r].owner \in Boxes /\ Standby(r) \in Boxes /\ Standby(r) # run[r].owner
      /\ \A c \in Boxes : c # Live => c = Other(Live)
  BY <1>1, Owners
<1>5. TypeOK'  BY <1>1, TypeStep DEF Next, RunStep
<1>6. RunOK(r)'
  BY <1>1, <1>3, <1>4 DEF Archive, TypeOK, RunOK, AtWork, Active, Ended, KindsOf, OwnerIsLive, RestoringIsDark,
         ReadyIsOver, PrepareIsFrozen, FlipIsServed, Live, SmokeAnswers, TargetOf
<1>7. BoxesOK'
  BY <1>1, <1>3, <1>4 DEF Archive, Orderly, TypeOK, RunOK, KindsOf, OwnerIsLive, RestoringIsDark, ReadyIsOver,
         PrepareIsFrozen, FlipIsServed, BoxesOK, AppIsComplete, PreparedHolds, LiveHoldsAll, LiveIsReady,
         Live, Standby, NotReady, TargetOf
<1>8. /\ UpOrExcused(r) => UpOrExcused(r)'
      /\ app[Live] \/ ready # NotReady => UpOrExcused(r)'
  BY <1>1, <1>3, <1>4 DEF Archive, TypeOK, RunOK, KindsOf, OwnerIsLive, ReadyIsOver, FlipIsServed, UpOrExcused, Excuses,
         Active, Ended, Live, Standby, NotReady, TargetOf
<1>. QED  BY <1>1, <1>3, <1>5, <1>6, <1>7, <1>8, OthersRest, StepPreserves

LEMMA BeginRestoreOK ==
    ASSUME Orderly, NEW r \in Runs, BeginRestore(r)
    PROVE  Orderly'
<1>. DEFINE step == "restoring"
<1>1. TypeOK /\ AtWork(r) /\ RunOK(r)  BY DEF Orderly, AtWork, BeginRestore, Ended
<1>2. step \in Steps /\ Goto(r, step)  BY DEF BeginRestore, Steps
<1>3. /\ run' \in [Runs -> Run] /\ \A s \in Runs \ {r} : run'[s] = run[s]
      /\ run'[r].step = step /\ run'[r].kind = run[r].kind
      /\ run'[r].owner = run[r].owner /\ run'[r].snap = run[r].snap /\ Standby(r)' = Standby(r)
  BY <1>1, <1>2, Moved
<1>4. /\ Live \in Boxes /\ Other(Live) \in Boxes /\ Other(Live) # Live
      /\ run[r].owner \in Boxes /\ Standby(r) \in Boxes /\ Standby(r) # run[r].owner
      /\ \A c \in Boxes : c # Live => c = Other(Live)
  BY <1>1, Owners
<1>5. TypeOK'  BY <1>1, TypeStep DEF Next, RunStep
<1>6. RunOK(r)'
  BY <1>1, <1>3, <1>4 DEF BeginRestore, TypeOK, RunOK, AtWork, Active, Ended, KindsOf, OwnerIsLive, RestoringIsDark,
         ReadyIsOver, PrepareIsFrozen, FlipIsServed, Live, SmokeAnswers, TargetOf
<1>7. BoxesOK'
  BY <1>1, <1>3, <1>4 DEF BeginRestore, Orderly, TypeOK, RunOK, KindsOf, OwnerIsLive, RestoringIsDark, ReadyIsOver,
         PrepareIsFrozen, FlipIsServed, BoxesOK, AppIsComplete, PreparedHolds, LiveHoldsAll, LiveIsReady,
         Live, Standby, NotReady, TargetOf
<1>8. /\ UpOrExcused(r) => UpOrExcused(r)'
      /\ app[Live] \/ ready # NotReady => UpOrExcused(r)'
  BY <1>1, <1>3, <1>4 DEF BeginRestore, TypeOK, RunOK, KindsOf, OwnerIsLive, ReadyIsOver, FlipIsServed, UpOrExcused, Excuses,
         Active, Ended, Live, Standby, NotReady, TargetOf
<1>. QED  BY <1>1, <1>3, <1>5, <1>6, <1>7, <1>8, OthersRest, StepPreserves

LEMMA PublishRelayOK ==
    ASSUME Orderly, NEW r \in Runs, PublishRelay(r)
    PROVE  Orderly'
<1>. DEFINE step == "done"
<1>1. TypeOK /\ AtWork(r) /\ RunOK(r)  BY DEF Orderly, AtWork, PublishRelay, Ended
<1>2. step \in Steps /\ Goto(r, step)  BY DEF PublishRelay, Steps
<1>3. /\ run' \in [Runs -> Run] /\ \A s \in Runs \ {r} : run'[s] = run[s]
      /\ run'[r].step = step /\ run'[r].kind = run[r].kind
      /\ run'[r].owner = run[r].owner /\ run'[r].snap = run[r].snap /\ Standby(r)' = Standby(r)
  BY <1>1, <1>2, Moved
<1>4. /\ Live \in Boxes /\ Other(Live) \in Boxes /\ Other(Live) # Live
      /\ run[r].owner \in Boxes /\ Standby(r) \in Boxes /\ Standby(r) # run[r].owner
      /\ \A c \in Boxes : c # Live => c = Other(Live)
  BY <1>1, Owners
<1>5. TypeOK'  BY <1>1, TypeStep DEF Next, RunStep
<1>6. RunOK(r)'
  BY <1>1, <1>3, <1>4 DEF PublishRelay, TypeOK, RunOK, AtWork, Active, Ended, KindsOf, OwnerIsLive, RestoringIsDark,
         ReadyIsOver, PrepareIsFrozen, FlipIsServed, Live, SmokeAnswers, TargetOf
<1>7. BoxesOK'
  BY <1>1, <1>3, <1>4 DEF PublishRelay, Orderly, TypeOK, RunOK, AtWork, Active, Ended, KindsOf, OwnerIsLive, RestoringIsDark, ReadyIsOver,
         PrepareIsFrozen, FlipIsServed, BoxesOK, AppIsComplete, PreparedHolds, LiveHoldsAll, LiveIsReady,
         Live, Standby, NotReady, TargetOf
<1>8. /\ UpOrExcused(r) => UpOrExcused(r)'
      /\ app[Live] \/ ready # NotReady => UpOrExcused(r)'
  BY <1>1, <1>3, <1>4 DEF PublishRelay, TypeOK, RunOK, KindsOf, OwnerIsLive, ReadyIsOver, FlipIsServed, UpOrExcused, Excuses,
         Active, Ended, Live, Standby, NotReady, TargetOf
<1>. QED  BY <1>1, <1>3, <1>5, <1>6, <1>7, <1>8, OthersRest, StepPreserves

LEMMA VerifyReviewOK ==
    ASSUME Orderly, NEW r \in Runs, VerifyReview(r)
    PROVE  Orderly'
<1>. DEFINE step == "done"
<1>1. TypeOK /\ AtWork(r) /\ RunOK(r)  BY DEF Orderly, AtWork, VerifyReview, Ended
<1>2. step \in Steps /\ Goto(r, step)  BY DEF VerifyReview, Steps
<1>3. /\ run' \in [Runs -> Run] /\ \A s \in Runs \ {r} : run'[s] = run[s]
      /\ run'[r].step = step /\ run'[r].kind = run[r].kind
      /\ run'[r].owner = run[r].owner /\ run'[r].snap = run[r].snap /\ Standby(r)' = Standby(r)
  BY <1>1, <1>2, Moved
<1>4. /\ Live \in Boxes /\ Other(Live) \in Boxes /\ Other(Live) # Live
      /\ run[r].owner \in Boxes /\ Standby(r) \in Boxes /\ Standby(r) # run[r].owner
      /\ \A c \in Boxes : c # Live => c = Other(Live)
  BY <1>1, Owners
<1>5. TypeOK'  BY <1>1, TypeStep DEF Next, RunStep
<1>6. RunOK(r)'
  BY <1>1, <1>3, <1>4 DEF VerifyReview, TypeOK, RunOK, AtWork, Active, Ended, KindsOf, OwnerIsLive, RestoringIsDark,
         ReadyIsOver, PrepareIsFrozen, FlipIsServed, Live, SmokeAnswers, TargetOf
<1>7. BoxesOK'
  BY <1>1, <1>3, <1>4 DEF VerifyReview, Orderly, TypeOK, RunOK, KindsOf, OwnerIsLive, RestoringIsDark, ReadyIsOver,
         PrepareIsFrozen, FlipIsServed, BoxesOK, AppIsComplete, PreparedHolds, LiveHoldsAll, LiveIsReady,
         Live, Standby, NotReady, TargetOf
<1>8. /\ UpOrExcused(r) => UpOrExcused(r)'
      /\ app[Live] \/ ready # NotReady => UpOrExcused(r)'
  BY <1>1, <1>3, <1>4 DEF VerifyReview, TypeOK, RunOK, KindsOf, OwnerIsLive, ReadyIsOver, FlipIsServed, UpOrExcused, Excuses,
         Active, Ended, Live, Standby, NotReady, TargetOf
<1>. QED  BY <1>1, <1>3, <1>5, <1>6, <1>7, <1>8, OthersRest, StepPreserves

LEMMA UnfreezeOK ==
    ASSUME Orderly, NEW r \in Runs, Unfreeze(r)
    PROVE  Orderly'
<1>1. TypeOK /\ AtWork(r) /\ RunOK(r)  BY DEF Orderly, AtWork, Unfreeze, Ended
<1>2. PICK step \in {"failed", "down"} :
        /\ Goto(r, step)
        /\ \/ step = "failed" /\ app' = [app EXCEPT ![run[r].owner] = TRUE]
           \/ step = "down" /\ UNCHANGED app
  BY DEF Unfreeze
<1>3. /\ run' \in [Runs -> Run] /\ \A s \in Runs \ {r} : run'[s] = run[s]
      /\ run'[r].step = step /\ run'[r].kind = run[r].kind
      /\ run'[r].owner = run[r].owner /\ run'[r].snap = run[r].snap /\ Standby(r)' = Standby(r)
  BY <1>1, <1>2, Moved DEF Steps
<1>4. /\ Live \in Boxes /\ Other(Live) \in Boxes /\ Other(Live) # Live
      /\ run[r].owner \in Boxes /\ Standby(r) \in Boxes /\ Standby(r) # run[r].owner
      /\ \A c \in Boxes : c # Live => c = Other(Live)
  BY <1>1, Owners
<1>5. TypeOK'  BY <1>1, TypeStep DEF Next, RunStep
<1>6. RunOK(r)'
  BY <1>1, <1>2, <1>3, <1>4 DEF Unfreeze, TypeOK, RunOK, AtWork, Active, Ended, KindsOf, OwnerIsLive, RestoringIsDark,
         ReadyIsOver, PrepareIsFrozen, FlipIsServed, Live, SmokeAnswers, TargetOf
<1>7. BoxesOK'
  BY <1>1, <1>2, <1>3, <1>4 DEF Unfreeze, Orderly, TypeOK, RunOK, AtWork, Active, Ended, KindsOf, OwnerIsLive, RestoringIsDark, ReadyIsOver,
         PrepareIsFrozen, FlipIsServed, BoxesOK, AppIsComplete, PreparedHolds, LiveHoldsAll, LiveIsReady,
         Live, Standby, NotReady, TargetOf
<1>8. /\ UpOrExcused(r) => UpOrExcused(r)'
      /\ app[Live] \/ ready # NotReady => UpOrExcused(r)'
  BY <1>1, <1>2, <1>3, <1>4 DEF Unfreeze, TypeOK, RunOK, KindsOf, OwnerIsLive, ReadyIsOver, FlipIsServed, UpOrExcused, Excuses,
         Active, Ended, Live, Standby, NotReady, TargetOf
<1>. QED  BY <1>1, <1>3, <1>5, <1>6, <1>7, <1>8, OthersRest, StepPreserves

\* An approved flip finds the roles it has read, and nobody else at work.
LEMMA ApproveOK ==
    ASSUME Orderly, NEW r \in Runs, Approve(r), ~crossed'
    PROVE  Orderly'
<1>. DEFINE step == "preflight"
<1>1. /\ TypeOK /\ RunOK(r) /\ Active(r) /\ run[r].step = "gate"
      /\ run[r].owner = Live /\ \A s \in Runs \ {r} : ~AtWork(s)
  BY DEF Orderly, Approve, Active, Ended
<1>2. step \in Steps /\ Goto(r, step)  BY DEF Approve, Steps
<1>3. /\ run' \in [Runs -> Run] /\ \A s \in Runs \ {r} : run'[s] = run[s]
      /\ run'[r].step = step /\ run'[r].kind = run[r].kind
      /\ run'[r].owner = run[r].owner /\ run'[r].snap = run[r].snap /\ Standby(r)' = Standby(r)
  BY <1>1, <1>2, Moved
<1>4. /\ Live \in Boxes /\ Other(Live) \in Boxes /\ Other(Live) # Live
      /\ run[r].owner \in Boxes /\ Standby(r) \in Boxes /\ Standby(r) # run[r].owner
      /\ \A c \in Boxes : c # Live => c = Other(Live)
  BY <1>1, Owners
<1>5. TypeOK'  BY <1>1, TypeStep DEF Next, RunStep
<1>6. RunOK(r)'
  BY <1>1, <1>3, <1>4 DEF Approve, TypeOK, RunOK, AtWork, Active, Ended, KindsOf, OwnerIsLive, RestoringIsDark,
         ReadyIsOver, PrepareIsFrozen, FlipIsServed, Live, SmokeAnswers, TargetOf
<1>7. BoxesOK'
  BY <1>1, <1>3, <1>4 DEF Approve, Orderly, TypeOK, RunOK, KindsOf, OwnerIsLive, RestoringIsDark, ReadyIsOver,
         PrepareIsFrozen, FlipIsServed, BoxesOK, AppIsComplete, PreparedHolds, LiveHoldsAll, LiveIsReady,
         Live, Standby, NotReady, TargetOf
<1>8. /\ UpOrExcused(r) => UpOrExcused(r)'
      /\ app[Live] \/ ready # NotReady => UpOrExcused(r)'
  BY <1>1, <1>3, <1>4 DEF Approve, TypeOK, RunOK, KindsOf, OwnerIsLive, ReadyIsOver, FlipIsServed, UpOrExcused, Excuses,
         Active, Ended, Live, Standby, NotReady, TargetOf
<1>. QED  BY <1>1, <1>3, <1>5, <1>6, <1>7, <1>8, StepPreserves

LEMMA PreflightOK ==
    ASSUME Orderly, NEW r \in Runs, Preflight(r)
    PROVE  Orderly'
<1>. DEFINE step == "http"
<1>1. TypeOK /\ AtWork(r) /\ RunOK(r)  BY DEF Orderly, AtWork, Preflight, Ended
<1>2. step \in Steps /\ Goto(r, step)  BY DEF Preflight, Steps
<1>3. /\ run' \in [Runs -> Run] /\ \A s \in Runs \ {r} : run'[s] = run[s]
      /\ run'[r].step = step /\ run'[r].kind = run[r].kind
      /\ run'[r].owner = run[r].owner /\ run'[r].snap = run[r].snap /\ Standby(r)' = Standby(r)
  BY <1>1, <1>2, Moved
<1>4. /\ Live \in Boxes /\ Other(Live) \in Boxes /\ Other(Live) # Live
      /\ run[r].owner \in Boxes /\ Standby(r) \in Boxes /\ Standby(r) # run[r].owner
      /\ \A c \in Boxes : c # Live => c = Other(Live)
  BY <1>1, Owners
<1>5. TypeOK'  BY <1>1, TypeStep DEF Next, RunStep
<1>6. RunOK(r)'
  BY <1>1, <1>3, <1>4 DEF Preflight, TypeOK, RunOK, AtWork, Active, Ended, KindsOf, OwnerIsLive, RestoringIsDark,
         ReadyIsOver, PrepareIsFrozen, FlipIsServed, Live, SmokeAnswers, TargetOf
<1>7. BoxesOK'
  BY <1>1, <1>3, <1>4 DEF Preflight, Orderly, TypeOK, RunOK, KindsOf, OwnerIsLive, RestoringIsDark, ReadyIsOver,
         PrepareIsFrozen, FlipIsServed, BoxesOK, AppIsComplete, PreparedHolds, LiveHoldsAll, LiveIsReady,
         Live, Standby, NotReady, TargetOf
<1>8. /\ UpOrExcused(r) => UpOrExcused(r)'
      /\ app[Live] \/ ready # NotReady => UpOrExcused(r)'
  BY <1>1, <1>3, <1>4 DEF Preflight, TypeOK, RunOK, KindsOf, OwnerIsLive, ReadyIsOver, FlipIsServed, UpOrExcused, Excuses,
         Active, Ended, Live, Standby, NotReady, TargetOf
<1>. QED  BY <1>1, <1>3, <1>5, <1>6, <1>7, <1>8, OthersRest, StepPreserves

LEMMA SetHttpOK ==
    ASSUME Orderly, NEW r \in Runs, SetHttp(r)
    PROVE  Orderly'
<1>. DEFINE step == "https"
<1>1. TypeOK /\ AtWork(r) /\ RunOK(r)  BY DEF Orderly, AtWork, SetHttp, Ended
<1>2. step \in Steps /\ Goto(r, step)  BY DEF SetHttp, Steps
<1>3. /\ run' \in [Runs -> Run] /\ \A s \in Runs \ {r} : run'[s] = run[s]
      /\ run'[r].step = step /\ run'[r].kind = run[r].kind
      /\ run'[r].owner = run[r].owner /\ run'[r].snap = run[r].snap /\ Standby(r)' = Standby(r)
  BY <1>1, <1>2, Moved
<1>4. /\ Live \in Boxes /\ Other(Live) \in Boxes /\ Other(Live) # Live
      /\ run[r].owner \in Boxes /\ Standby(r) \in Boxes /\ Standby(r) # run[r].owner
      /\ \A c \in Boxes : c # Live => c = Other(Live)
  BY <1>1, Owners
<1>5. TypeOK'  BY <1>1, TypeStep DEF Next, RunStep
<1>6. RunOK(r)'
  BY <1>1, <1>3, <1>4 DEF SetHttp, TypeOK, RunOK, AtWork, Active, Ended, KindsOf, OwnerIsLive, RestoringIsDark,
         ReadyIsOver, PrepareIsFrozen, FlipIsServed, Live, SmokeAnswers, TargetOf
<1>7. BoxesOK'
  BY <1>1, <1>3, <1>4 DEF SetHttp, Orderly, TypeOK, RunOK, KindsOf, OwnerIsLive, RestoringIsDark, ReadyIsOver,
         PrepareIsFrozen, FlipIsServed, BoxesOK, AppIsComplete, PreparedHolds, LiveHoldsAll, LiveIsReady,
         Live, Standby, NotReady, TargetOf
<1>8. /\ UpOrExcused(r) => UpOrExcused(r)'
      /\ app[Live] \/ ready # NotReady => UpOrExcused(r)'
  BY <1>1, <1>3, <1>4 DEF SetHttp, TypeOK, RunOK, KindsOf, OwnerIsLive, ReadyIsOver, FlipIsServed, UpOrExcused, Excuses,
         Active, Ended, Live, Standby, NotReady, TargetOf
<1>. QED  BY <1>1, <1>3, <1>5, <1>6, <1>7, <1>8, OthersRest, StepPreserves

LEMMA SetHttpsOK ==
    ASSUME Orderly, NEW r \in Runs, SetHttps(r)
    PROVE  Orderly'
<1>. DEFINE step == IF run[r].kind = "flip" THEN "darken" ELSE "settle"
<1>1. TypeOK /\ AtWork(r) /\ RunOK(r)  BY DEF Orderly, AtWork, SetHttps, Ended
<1>2. step \in Steps /\ Goto(r, step)  BY DEF SetHttps, Steps
<1>3. /\ run' \in [Runs -> Run] /\ \A s \in Runs \ {r} : run'[s] = run[s]
      /\ run'[r].step = step /\ run'[r].kind = run[r].kind
      /\ run'[r].owner = run[r].owner /\ run'[r].snap = run[r].snap /\ Standby(r)' = Standby(r)
  BY <1>1, <1>2, Moved
<1>4. /\ Live \in Boxes /\ Other(Live) \in Boxes /\ Other(Live) # Live
      /\ run[r].owner \in Boxes /\ Standby(r) \in Boxes /\ Standby(r) # run[r].owner
      /\ \A c \in Boxes : c # Live => c = Other(Live)
  BY <1>1, Owners
<1>5. TypeOK'  BY <1>1, TypeStep DEF Next, RunStep
<1>6. RunOK(r)'
  BY <1>1, <1>3, <1>4 DEF SetHttps, TypeOK, RunOK, AtWork, Active, Ended, KindsOf, OwnerIsLive, RestoringIsDark,
         ReadyIsOver, PrepareIsFrozen, FlipIsServed, Live, SmokeAnswers, TargetOf
<1>7. BoxesOK'
  <2>1. run[r].owner = Live /\ Standby(r) = Other(Live) /\ run[r].kind \in {"flip", "rollback"}
    BY <1>1 DEF SetHttps, RunOK, AtWork, Active, Ended, KindsOf, OwnerIsLive, Standby
  <2>2. CASE run[r].kind = "rollback"
    <3>1. Live' = Live  BY <1>1, <2>1, <2>2 DEF SetHttps, TargetOf, TypeOK, Live
    <3>2. Other(Live') = Other(Live)  BY <3>1
    <3>. QED  BY <2>1, <2>2, <3>1, <3>2
         DEF SetHttps, Orderly, BoxesOK, AppIsComplete, PreparedHolds, LiveHoldsAll, LiveIsReady
  <2>3. CASE run[r].kind = "flip"
    <3>1. Live' = Other(Live)  BY <1>1, <2>1, <2>3 DEF SetHttps, TargetOf, TypeOK, Live
    <3>2. Other(Live') = Live  BY <1>4, <3>1, TwoBoxes
    <3>3. ready # NotReady /\ app[Other(Live)]
      BY <1>1, <2>1, <2>3 DEF SetHttps, RunOK, FlipIsServed
    <3>4. ready.kind \in {"prepare", "recover"}  BY <1>1, <3>3 DEF TypeOK
    <3>5. AppIsComplete' /\ LiveIsReady'
      BY <1>4, <3>1, <3>3 DEF SetHttps, Orderly, BoxesOK, AppIsComplete, LiveIsReady
    <3>6. LiveHoldsAll'
      <4>1. CASE ready.kind = "recover"
        BY <2>1, <2>3, <3>1, <4>1 DEF SetHttps, LiveHoldsAll, TargetOf
      <4>2. CASE ready.kind = "prepare"
        BY <2>3, <3>1, <3>3, <4>2 DEF SetHttps, Orderly, BoxesOK, PreparedHolds, LiveHoldsAll
      <4>. QED  BY <3>4, <4>1, <4>2
    <3>7. PreparedHolds'
      <4>1. SUFFICES ASSUME ready.kind = "prepare"  PROVE ~app[Live]
        BY <3>1, <3>2 DEF SetHttps, PreparedHolds
      <4>. QED  BY <3>3, <4>1 DEF Orderly, BoxesOK, PreparedHolds
    <3>. QED  BY <3>5, <3>6, <3>7 DEF BoxesOK
  <2>. QED  BY <2>1, <2>2, <2>3
<1>8. /\ UpOrExcused(r) => UpOrExcused(r)'
      /\ app[Live] \/ ready # NotReady => UpOrExcused(r)'
  BY <1>1, <1>3, <1>4 DEF SetHttps, TypeOK, RunOK, KindsOf, OwnerIsLive, ReadyIsOver, FlipIsServed, UpOrExcused, Excuses,
         Active, Ended, Live, Standby, NotReady, TargetOf
<1>. QED  BY <1>1, <1>3, <1>5, <1>6, <1>7, <1>8, OthersRest, StepPreserves

LEMMA DarkenOK ==
    ASSUME Orderly, NEW r \in Runs, Darken(r)
    PROVE  Orderly'
<1>. DEFINE step == "settle"
<1>1. TypeOK /\ AtWork(r) /\ RunOK(r)  BY DEF Orderly, AtWork, Darken, Ended
<1>2. step \in Steps /\ Goto(r, step)  BY DEF Darken, Steps
<1>3. /\ run' \in [Runs -> Run] /\ \A s \in Runs \ {r} : run'[s] = run[s]
      /\ run'[r].step = step /\ run'[r].kind = run[r].kind
      /\ run'[r].owner = run[r].owner /\ run'[r].snap = run[r].snap /\ Standby(r)' = Standby(r)
  BY <1>1, <1>2, Moved
<1>4. /\ Live \in Boxes /\ Other(Live) \in Boxes /\ Other(Live) # Live
      /\ run[r].owner \in Boxes /\ Standby(r) \in Boxes /\ Standby(r) # run[r].owner
      /\ \A c \in Boxes : c # Live => c = Other(Live)
  BY <1>1, Owners
<1>5. TypeOK'  BY <1>1, TypeStep DEF Next, RunStep
<1>6. RunOK(r)'
  BY <1>1, <1>3, <1>4 DEF Darken, TypeOK, RunOK, AtWork, Active, Ended, KindsOf, OwnerIsLive, RestoringIsDark,
         ReadyIsOver, PrepareIsFrozen, FlipIsServed, Live, SmokeAnswers, TargetOf
<1>7. BoxesOK'
  BY <1>1, <1>3, <1>4 DEF Darken, Orderly, TypeOK, RunOK, KindsOf, OwnerIsLive, RestoringIsDark, ReadyIsOver,
         PrepareIsFrozen, FlipIsServed, BoxesOK, AppIsComplete, PreparedHolds, LiveHoldsAll, LiveIsReady,
         Live, Standby, NotReady, TargetOf
<1>8. /\ UpOrExcused(r) => UpOrExcused(r)'
      /\ app[Live] \/ ready # NotReady => UpOrExcused(r)'
  BY <1>1, <1>3, <1>4 DEF Darken, TypeOK, RunOK, KindsOf, OwnerIsLive, ReadyIsOver, FlipIsServed, UpOrExcused, Excuses,
         Active, Ended, Live, Standby, NotReady, TargetOf
<1>. QED  BY <1>1, <1>3, <1>5, <1>6, <1>7, <1>8, OthersRest, StepPreserves

LEMMA SettleOK ==
    ASSUME Orderly, NEW r \in Runs, Settle(r)
    PROVE  Orderly'
<1>. DEFINE step == "done"
<1>1. TypeOK /\ AtWork(r) /\ RunOK(r)  BY DEF Orderly, AtWork, Settle, Ended
<1>2. step \in Steps /\ Goto(r, step)  BY DEF Settle, Steps
<1>3. /\ run' \in [Runs -> Run] /\ \A s \in Runs \ {r} : run'[s] = run[s]
      /\ run'[r].step = step /\ run'[r].kind = run[r].kind
      /\ run'[r].owner = run[r].owner /\ run'[r].snap = run[r].snap /\ Standby(r)' = Standby(r)
  BY <1>1, <1>2, Moved
<1>4. /\ Live \in Boxes /\ Other(Live) \in Boxes /\ Other(Live) # Live
      /\ run[r].owner \in Boxes /\ Standby(r) \in Boxes /\ Standby(r) # run[r].owner
      /\ \A c \in Boxes : c # Live => c = Other(Live)
  BY <1>1, Owners
<1>5. TypeOK'  BY <1>1, TypeStep DEF Next, RunStep
<1>6. RunOK(r)'
  BY <1>1, <1>3, <1>4 DEF Settle, TypeOK, RunOK, AtWork, Active, Ended, KindsOf, OwnerIsLive, RestoringIsDark,
         ReadyIsOver, PrepareIsFrozen, FlipIsServed, Live, SmokeAnswers, TargetOf
<1>7. BoxesOK'
  BY <1>1, <1>3, <1>4 DEF Settle, Orderly, TypeOK, RunOK, KindsOf, OwnerIsLive, RestoringIsDark, ReadyIsOver,
         PrepareIsFrozen, FlipIsServed, BoxesOK, AppIsComplete, PreparedHolds, LiveHoldsAll, LiveIsReady,
         Live, Standby, NotReady, TargetOf
<1>8. /\ UpOrExcused(r) => UpOrExcused(r)'
      /\ app[Live] \/ ready # NotReady => UpOrExcused(r)'
  BY <1>1, <1>3, <1>4 DEF Settle, TypeOK, RunOK, KindsOf, OwnerIsLive, ReadyIsOver, FlipIsServed, UpOrExcused, Excuses,
         Active, Ended, Live, Standby, NotReady, TargetOf
<1>. QED  BY <1>1, <1>3, <1>5, <1>6, <1>7, <1>8, OthersRest, StepPreserves

LEMMA StepFailsOK ==
    ASSUME Orderly, NEW r \in Runs, StepFails(r)
    PROVE  Orderly'
<1>. DEFINE step == AfterFailure(r)
<1>1. TypeOK /\ Active(r) /\ RunOK(r)  BY DEF Orderly, StepFails, Active, Ended
<1>2. step \in Steps /\ Goto(r, step)  BY DEF StepFails, Steps, AfterFailure
<1>3. /\ run' \in [Runs -> Run] /\ \A s \in Runs \ {r} : run'[s] = run[s]
      /\ run'[r].step = step /\ run'[r].kind = run[r].kind
      /\ run'[r].owner = run[r].owner /\ run'[r].snap = run[r].snap /\ Standby(r)' = Standby(r)
  BY <1>1, <1>2, Moved
<1>4. TypeOK'  BY <1>1, TypeStep DEF Next, RunStep
<1>5. UpOrExcused(r) => UpOrExcused(r)'
  BY <1>1, <1>3 DEF StepFails, UpOrExcused, Excuses, Active, Ended, Live, AfterFailure
<1>6. CASE run[r].kind = "prepare"
  <2>1. AtWork(r)  BY <1>1, <1>6 DEF RunOK, Active, AtWork, KindsOf
  <2>2. RunOK(r)'
    BY <1>1, <1>3, <1>6, <2>1 DEF StepFails, RunOK, KindsOf, OwnerIsLive, RestoringIsDark, ReadyIsOver, PrepareIsFrozen,
           FlipIsServed, Live, AfterFailure
  <2>3. BoxesOK'
    BY DEF StepFails, Orderly, BoxesOK, AppIsComplete, PreparedHolds, LiveHoldsAll, LiveIsReady, Live, Other
  <2>4. app[Live] \/ ready # NotReady => UpOrExcused(r)'  BY DEF StepFails, UpOrExcused, Live
  <2>. QED  BY <1>3, <1>4, <1>5, <2>1, <2>2, <2>3, <2>4, OthersRest, StepPreserves
<1>7. CASE run[r].kind # "prepare"
  BY <1>3, <1>4, <1>5, <1>7, EndPreserves DEF StepFails, AfterFailure, RunOK, AtWork, Active, Ended
<1>. QED  BY <1>6, <1>7

LEMMA RunnerLostOK ==
    ASSUME Orderly, NEW r \in Runs, RunnerLost(r)
    PROVE  Orderly'
<1>. DEFINE step == "lost"
<1>1. TypeOK /\ Active(r) /\ RunOK(r)  BY DEF Orderly, RunnerLost, Active, Ended
<1>2. step \in Steps /\ Goto(r, step)  BY DEF RunnerLost, Steps
<1>3. /\ run' \in [Runs -> Run] /\ \A s \in Runs \ {r} : run'[s] = run[s]
      /\ run'[r].step = step /\ run'[r].kind = run[r].kind
      /\ run'[r].owner = run[r].owner /\ run'[r].snap = run[r].snap /\ Standby(r)' = Standby(r)
  BY <1>1, <1>2, Moved
<1>4. TypeOK'  BY <1>1, TypeStep DEF Next, RunStep
<1>5. UpOrExcused(r) => UpOrExcused(r)'
  BY <1>1, <1>3 DEF RunnerLost, UpOrExcused, Excuses, Active, Ended, Live
<1>. QED  BY <1>3, <1>4, <1>5, EndPreserves DEF RunnerLost, RunOK, AtWork, Active, Ended

LEMMA FreezeAndSnapshotOK ==
    ASSUME Orderly, NEW r \in Runs, FreezeAndSnapshot(r)
    PROVE  Orderly'
<1>1. TypeOK /\ AtWork(r) /\ RunOK(r)  BY DEF Orderly, AtWork, FreezeAndSnapshot, Ended
<1>2. run[r].kind = "prepare" /\ run[r].owner = Live /\ ready = NotReady
  BY <1>1 DEF FreezeAndSnapshot, RunOK, AtWork, Active, Ended, KindsOf, OwnerIsLive, ReadyIsOver
<1>3. /\ Live \in Boxes /\ Other(Live) \in Boxes /\ Other(Live) # Live
      /\ \A c \in Boxes : c # Live => c = Other(Live)
  BY <1>1, Owners
<1>4. PICK step \in {"archive", "unfreeze"} :
        /\ run' \in [Runs -> Run] /\ \A s \in Runs \ {r} : run'[s] = run[s]
        /\ run'[r].step = step /\ run'[r].kind = run[r].kind /\ run'[r].owner = run[r].owner
        /\ step = "archive" => run'[r].snap = db[Live].writes
  <2>1. CASE db[Live].there /\ run' = [run EXCEPT ![r].step = "archive", ![r].snap = db[Live].writes]
    <3>1. PICK snap \in SUBSET Writes : snap = db[Live].writes
      BY <1>1, <1>3 DEF TypeOK, Database
    <3>2. run \in [Runs -> Run] /\ run[r] \in Run  BY <1>1 DEF TypeOK
    <3>. DEFINE new == [run[r] EXCEPT !.step = "archive", !.snap = snap]
    <3>3. /\ new \in Run /\ new.step = "archive" /\ new.snap = snap
          /\ new.kind = run[r].kind /\ new.owner = run[r].owner
      BY <3>2 DEF Run, Steps
    <3>4. run' = [run EXCEPT ![r] = new]  BY <2>1, <3>1
    <3>. HIDE DEF new
    <3>5. /\ run' \in [Runs -> Run] /\ run'[r] = new
          /\ \A s \in Runs \ {r} : run'[s] = run[s]
      BY <3>2, <3>3, <3>4
    <3>. QED  BY <3>1, <3>3, <3>5
  <2>2. CASE Goto(r, "unfreeze")
    <3>1. "unfreeze" \in Steps  BY DEF Steps
    <3>. QED  BY <1>1, <2>2, <3>1, Moved
  <2>. QED  BY <1>2, <2>1, <2>2 DEF FreezeAndSnapshot
<1>5. TypeOK'  BY <1>1, TypeStep DEF Next, RunStep
<1>6. ~app'[Live] /\ Live' = Live  BY <1>1, <1>2, <1>3 DEF FreezeAndSnapshot, TypeOK, Live
<1>7. RunOK(r)'
  BY <1>1, <1>2, <1>4, <1>6 DEF FreezeAndSnapshot, Orderly, BoxesOK, LiveHoldsAll, RunOK, KindsOf, OwnerIsLive,
         RestoringIsDark, ReadyIsOver, PrepareIsFrozen, FlipIsServed
<1>8. BoxesOK'
  BY <1>1, <1>2, <1>6 DEF FreezeAndSnapshot, Orderly, TypeOK, BoxesOK, AppIsComplete, PreparedHolds,
         LiveHoldsAll, LiveIsReady, NotReady
<1>9. UpOrExcused(r)'
  BY <1>2, <1>4 DEF UpOrExcused, Excuses, Active, Ended
<1>. QED  BY <1>1, <1>4, <1>5, <1>7, <1>8, <1>9, OthersRest, StepPreserves

LEMMA FinishRestoreOK ==
    ASSUME Orderly, NEW r \in Runs, FinishRestore(r)
    PROVE  Orderly'
<1>. DEFINE passed == IF run[r].kind = "prepare" THEN "relay" ELSE "verify"
<1>1. TypeOK /\ AtWork(r) /\ RunOK(r)  BY DEF Orderly, AtWork, FinishRestore, Ended
<1>2. /\ run[r].kind \in {"prepare", "recover"} /\ run[r].owner = Live /\ ready = NotReady
      /\ ~app[Standby(r)] /\ role[Standby(r)]
  BY <1>1 DEF FinishRestore, RunOK, AtWork, Active, Ended, KindsOf, OwnerIsLive, ReadyIsOver, RestoringIsDark
<1>3. /\ Live \in Boxes /\ Other(Live) \in Boxes /\ Other(Live) # Live
      /\ run[r].owner \in Boxes /\ Standby(r) \in Boxes /\ Standby(r) # run[r].owner
      /\ \A c \in Boxes : c # Live => c = Other(Live)
  BY <1>1, Owners
<1>4. PICK new \in Database :
        /\ new.writes = run[r].snap
        /\ db' = [db EXCEPT ![Standby(r)] = new]
        /\ \/ app' = app
           \/ new.clean /\ \E up \in BOOLEAN : app' = [app EXCEPT ![Standby(r)] = up]
  <2>1. /\ Restored(r, FALSE) \in Database /\ Restored(r, FALSE).writes = run[r].snap
        /\ Restored(r, TRUE) \in Database /\ Restored(r, TRUE).writes = run[r].snap /\ Restored(r, TRUE).clean
    BY <1>1 DEF TypeOK, Run, Restored, Database
  <2>2. \/ db' = [db EXCEPT ![Standby(r)] = Restored(r, FALSE)] /\ app' = app
        \/ /\ db' = [db EXCEPT ![Standby(r)] = Restored(r, TRUE)]
           /\ \E up \in BOOLEAN : app' = [app EXCEPT ![Standby(r)] = up]
    BY DEF FinishRestore
  <2>. QED  BY <2>1, <2>2
<1>5. PICK step \in {AfterFailure(r), passed} : Goto(r, step)  BY DEF FinishRestore
<1>6. /\ run' \in [Runs -> Run] /\ \A s \in Runs \ {r} : run'[s] = run[s]
      /\ run'[r].step = step /\ run'[r].kind = run[r].kind
      /\ run'[r].owner = run[r].owner /\ run'[r].snap = run[r].snap /\ Standby(r)' = Standby(r)
  <2>1. step \in Steps  BY DEF Steps, AfterFailure
  <2>. QED  BY <1>1, <1>5, <2>1, Moved
<1>7. /\ db' \in [Boxes -> Database] /\ app' \in [Boxes -> BOOLEAN]
      /\ db'[Live] = db[Live] /\ app'[Live] = app[Live] /\ Live' = Live /\ Other(Live)' = Other(Live)
      /\ db'[Standby(r)].writes = run[r].snap
      /\ app'[Standby(r)] => db'[Standby(r)].clean
  <2>1. db' \in [Boxes -> Database] /\ db'[Live] = db[Live] /\ db'[Standby(r)] = new
    BY <1>1, <1>2, <1>3, <1>4 DEF TypeOK
  <2>2. app' \in [Boxes -> BOOLEAN] /\ app'[Live] = app[Live]
    BY <1>1, <1>2, <1>3, <1>4 DEF TypeOK
  <2>3. app'[Standby(r)] => new.clean  BY <1>2, <1>4
  <2>4. Live' = Live  BY DEF FinishRestore, Live
  <2>. QED  BY <1>4, <2>1, <2>2, <2>3, <2>4
<1>8. TypeOK'  BY <1>1, TypeStep DEF Next, RunStep
<1>9. RunOK(r)'
  <2>1. /\ role' = role /\ ready' = ready /\ accepted' = accepted /\ abandoned' = abandoned
    BY DEF FinishRestore
  <2>2. CASE run[r].kind = "prepare"
    <3>1. ~app[Live] /\ accepted \ abandoned \subseteq run[r].snap
      BY <1>1, <2>2 DEF FinishRestore, RunOK, PrepareIsFrozen
    <3>. QED  BY <1>2, <1>6, <1>7, <2>1, <2>2, <3>1 DEF AfterFailure, RunOK, KindsOf, OwnerIsLive,
                RestoringIsDark, ReadyIsOver, PrepareIsFrozen, FlipIsServed
  <2>3. CASE run[r].kind = "recover"
    BY <1>2, <1>6, <1>7, <2>1, <2>3 DEF AfterFailure, RunOK, AtWork, Active, Ended, KindsOf, OwnerIsLive,
         RestoringIsDark, ReadyIsOver, PrepareIsFrozen, FlipIsServed
  <2>. QED  BY <1>2, <2>2, <2>3
<1>10. BoxesOK'
  <2>1. role' = role /\ ready' = NotReady /\ accepted' = accepted /\ abandoned' = abandoned
    BY <1>2 DEF FinishRestore
  <2>2. AppIsComplete'
    <3>1. app'[Standby(r)] => db'[Standby(r)].clean /\ role'[Standby(r)]
      BY <1>2, <1>7, <2>1
    <3>2. app'[Live] => db'[Live].clean /\ role'[Live]
      BY <1>3, <1>7, <2>1 DEF Orderly, BoxesOK, AppIsComplete
    <3>3. Standby(r) = Other(Live)  BY <1>2 DEF Standby
    <3>. QED  BY <1>3, <3>1, <3>2, <3>3 DEF AppIsComplete
  <2>3. PreparedHolds' /\ LiveHoldsAll' /\ LiveIsReady'
    BY <1>7, <2>1 DEF Orderly, BoxesOK, PreparedHolds, LiveHoldsAll, LiveIsReady, NotReady
  <2>. QED  BY <2>2, <2>3 DEF BoxesOK
<1>11. /\ UpOrExcused(r) => UpOrExcused(r)'
       /\ app[Live] \/ ready # NotReady => UpOrExcused(r)'
  BY <1>2, <1>6, <1>7 DEF UpOrExcused, Excuses, Active, Ended, AfterFailure, FinishRestore
<1>. QED  BY <1>1, <1>6, <1>8, <1>9, <1>10, <1>11, OthersRest, StepPreserves

-----------------------------------------------------------------------------
\* A run is dispatched while nobody is at work, or it is a flip and waits.
LEMMA DispatchOK ==
    ASSUME Orderly, NEW r \in Runs, NEW kind \in Kinds, Dispatch(r, kind), ~crossed'
    PROVE  Orderly'
<1>1. TypeOK /\ run[r].step = "idle" /\ TypeOK'  BY TypeStep DEF Orderly, Dispatch, Next
<1>2. kind = "flip" \/ \A s \in Runs : ~AtWork(s)  BY DEF Dispatch
<1>3. /\ \A s \in Runs \ {r} : run'[s] = run[s]
      /\ run'[r].kind = kind /\ run'[r].step = FirstStep(kind) /\ run'[r].owner = Live
      /\ kind \in KindsOf(FirstStep(kind))
  BY <1>1, DispatchMoves
<1>4. UNCHANGED <<rules, app, db, relay, role, objects, accepted, abandoned>>  BY DEF Dispatch
<1>5. RunOK(r)'
  BY <1>3, <1>4 DEF Dispatch, Kinds, FirstStep, RunOK, OwnerIsLive, RestoringIsDark,
         ReadyIsOver, PrepareIsFrozen, FlipIsServed, Live
<1>6. ~Excuses(r)  BY <1>1 DEF Excuses, Active, Ended
<1>7. CASE kind = "flip"
  <2>1. ready' = ready /\ ~AtWork(r)'  BY <1>3, <1>7 DEF Dispatch, FirstStep, AtWork
  <2>2. UpOrExcused(r) => UpOrExcused(r)'  BY <1>4, <1>6, <2>1 DEF UpOrExcused, Live
  <2>. QED  BY <1>1, <1>3, <1>4, <1>5, <2>1, <2>2, EndPreserves
<1>8. CASE kind # "flip"
  <2>1. \A s \in Runs : ~AtWork(s)  BY <1>2, <1>8
  <2>2. app[Live] \/ ready # NotReady => UpOrExcused(r)'
    BY <1>3, <1>4, <1>8 DEF Dispatch, Kinds, FirstStep, UpOrExcused, Excuses, Active, Ended, Live
  <2>3. ready' = ready \/ ready' = NotReady  BY DEF Dispatch
  <2>4. BoxesOK'
    BY <1>4, <2>3 DEF Orderly, BoxesOK, AppIsComplete, PreparedHolds, LiveHoldsAll, LiveIsReady, Live, NotReady
  <2>. QED  BY <1>1, <1>3, <1>5, <1>6, <2>1, <2>2, <2>4, StepPreserves DEF UpOrExcused
<1>. QED  BY <1>7, <1>8

LEMMA OperatorUnfreezeOK ==
    ASSUME Orderly, OperatorUnfreeze
    PROVE  Orderly'
<1>1. TypeOK /\ Live \in Boxes  BY Owners DEF Orderly, TypeOK, Live
<1>2. /\ app' = [app EXCEPT ![Live] = TRUE] /\ ready' = NotReady
      /\ UNCHANGED <<rules, db, relay, role, objects, run, accepted, abandoned>>
  BY DEF OperatorUnfreeze
<1>3. TypeOK'  BY <1>1, TypeStep DEF Next
<1>4. \A r \in Runs : RunOK(r)'
  BY <1>1, <1>2 DEF OperatorUnfreeze, Orderly, TypeOK, RunOK, AtWork, Active, Ended, OwnerIsLive, RestoringIsDark, ReadyIsOver,
         PrepareIsFrozen, FlipIsServed, KindsOf, Live
<1>5. OneAtWork'  BY <1>2 DEF Orderly, OneAtWork, AtWork
<1>6. BoxesOK'
  BY <1>1, <1>2 DEF Orderly, TypeOK, BoxesOK, AppIsComplete, PreparedHolds, LiveHoldsAll, LiveIsReady, Live, NotReady
<1>7. DownIsExcused'  BY <1>1, <1>2 DEF TypeOK, DownIsExcused, Live
<1>. QED  BY <1>3, <1>4, <1>5, <1>6, <1>7 DEF Orderly

LEMMA UserWritesOK ==
    ASSUME Orderly, UserWrites
    PROVE  Orderly'
<1>1. TypeOK /\ Live \in Boxes /\ Other(Live) # Live  BY Owners, TwoBoxes DEF Orderly, TypeOK, Live
<1>2. PICK w \in Writes :
        accepted' = accepted \cup {w} /\ db' = [db EXCEPT ![Live].writes = @ \cup {w}]
  BY <1>1, NextWrite DEF UserWrites
<1>3. app[Live] /\ UNCHANGED <<rules, app, relay, role, objects, run, ready, abandoned>>
  BY DEF UserWrites
<1>4. /\ db' \in [Boxes -> Database] /\ db'[Live].writes = db[Live].writes \cup {w}
      /\ \A b \in Boxes : db'[b].clean = db[b].clean
      /\ \A b \in Boxes \ {Live} : db'[b] = db[b]
  BY <1>1, <1>2 DEF TypeOK, Database
<1>5. TypeOK'  BY <1>1, TypeStep DEF Next, RunStep
<1>6. \A r \in Runs : RunOK(r)'
  BY <1>3 DEF Orderly, RunOK, AtWork, Active, OwnerIsLive, RestoringIsDark, ReadyIsOver, PrepareIsFrozen, FlipIsServed,
         Live, Standby
<1>7. OneAtWork'  BY <1>3 DEF Orderly, OneAtWork, AtWork
<1>8. BoxesOK'
  BY <1>1, <1>2, <1>3, <1>4 DEF Orderly, BoxesOK, AppIsComplete, PreparedHolds, LiveHoldsAll, LiveIsReady, Live
<1>9. DownIsExcused'  BY <1>3 DEF DownIsExcused, Live
<1>. QED  BY <1>5, <1>6, <1>7, <1>8, <1>9 DEF Orderly

LEMMA InitOK == Init => TypeOK /\ Orderly
<1>1. SUFFICES ASSUME Init  PROVE TypeOK /\ Orderly  OBVIOUS
<1>2. Live = LiveInstance /\ LiveInstance \in Boxes  BY <1>1, RolloutAssumption DEF Init, Live
<1>3. TypeOK
  <2>1. run \in [Runs -> Run]  BY <1>1, <1>2 DEF Init, Run, Kinds, Steps
  <2>2. db \in [Boxes -> Database]  BY <1>1 DEF Init, Database, NoData
  <2>. QED  BY <1>1, <1>2, <2>1, <2>2 DEF Init, TypeOK
<1>4. OneAtWork /\ \A r \in Runs : RunOK(r)  BY <1>1 DEF Init, OneAtWork, RunOK, AtWork, Active, Ended
<1>5. BoxesOK
  BY <1>1, <1>2 DEF Init, BoxesOK, AppIsComplete, PreparedHolds, LiveHoldsAll, LiveIsReady, NotReady
<1>6. DownIsExcused  BY <1>1, <1>2 DEF Init, DownIsExcused
<1>. QED  BY <1>3, <1>4, <1>5, <1>6 DEF Orderly

LEMMA StutterOK == Orderly /\ UNCHANGED vars => Orderly'
BY DEF vars, Orderly, TypeOK, OneAtWork, AtWork, RunOK, Active, OwnerIsLive, RestoringIsDark, ReadyIsOver,
       PrepareIsFrozen, FlipIsServed, BoxesOK, AppIsComplete, PreparedHolds, LiveHoldsAll, LiveIsReady,
       DownIsExcused, Live, Standby, SmokeAnswers

LEMMA NextOK ==
    ASSUME Orderly, [Next]_vars, ~crossed'
    PROVE  Orderly'
<1>1. ASSUME NEW r \in Runs, NEW kind \in Kinds, Dispatch(r, kind)  PROVE Orderly'  BY <1>1, DispatchOK
<1>2. ASSUME NEW r \in Runs, RunStep(r)  PROVE Orderly'
  BY <1>2, ProvisionOK, InstallOK, FreezeAndSnapshotOK, ArchiveOK, BeginRestoreOK, FinishRestoreOK, PublishRelayOK,
     VerifyReviewOK, UnfreezeOK, PreflightOK, SetHttpOK, SetHttpsOK, DarkenOK, SettleOK DEF RunStep
<1>3. ASSUME NEW r \in Runs, StepFails(r) \/ RunnerLost(r) \/ Approve(r)  PROVE Orderly'
  BY <1>3, StepFailsOK, RunnerLostOK, ApproveOK
<1>. QED  BY <1>1, <1>2, <1>3, OperatorUnfreezeOK, UserWritesOK, StutterOK DEF Next

\* A crossing is remembered.
LEMMA CrossedStays == TypeOK /\ [Next]_vars /\ crossed => crossed'
<1>1. SUFFICES ASSUME [Next]_vars, crossed  PROVE crossed'  OBVIOUS
<1>2. ASSUME NEW r \in Runs, NEW kind \in Kinds, Dispatch(r, kind)  PROVE crossed'  BY <1>1, <1>2 DEF Dispatch
<1>3. ASSUME NEW r \in Runs, RunStep(r)  PROVE crossed'
  BY <1>1, <1>3 DEF RunStep, Provision, Install, FreezeAndSnapshot, Archive, BeginRestore, FinishRestore, PublishRelay,
       VerifyReview, Unfreeze, Preflight, SetHttp, SetHttps, Darken, Settle
<1>4. ASSUME NEW r \in Runs, StepFails(r) \/ RunnerLost(r) \/ Approve(r)  PROVE crossed'
  BY <1>1, <1>4 DEF StepFails, RunnerLost, Approve
<1>. QED  BY <1>1, <1>2, <1>3, <1>4 DEF Next, OperatorUnfreeze, UserWrites, vars

-----------------------------------------------------------------------------
(***************************************************************************)
(* What holds of every behaviour: any number of runs, overlapping or not.  *)
(***************************************************************************)

\* The state of the boxes, the rules, the archive and the runs keeps its type,
\* whether runs cross or not.
THEOREM TypeCorrect == Spec => []TypeOK
<1>1. Init => TypeOK  BY InitOK
<1>2. TypeOK /\ [Next]_vars => TypeOK'  BY TypeStep
<1>. QED  BY <1>1, <1>2, PTL DEF Spec

\* The boxes are in order, or two runs have crossed.
THEOREM InductiveInvariant == Spec => []IInv
<1>1. Init => IInv  BY InitOK DEF IInv
<1>2. IInv /\ [Next]_vars => IInv'
  <2>1. SUFFICES ASSUME IInv, [Next]_vars  PROVE IInv'  OBVIOUS
  <2>2. TypeOK'  BY <2>1, TypeStep DEF IInv
  <2>3. ASSUME ~crossed'  PROVE Orderly'
    BY <2>1, <2>3, CrossedStays, NextOK DEF IInv
  <2>. QED  BY <2>2, <2>3 DEF IInv
<1>. QED  BY <1>1, <1>2, PTL DEF Spec

\* Until two runs cross, moving the traffic loses no write of a user but those that an
\* approved recovery gave up: the box users are sent to holds all the others, after
\* any number of releases, flips, rollbacks and recoveries, whichever of their steps
\* failed and however many flips wait for their approval meanwhile.
THEOREM NothingIsLost == Spec => []NoWriteLost
<1>1. IInv => NoWriteLost  BY DEF IInv, Orderly, BoxesOK, LiveHoldsAll, NoWriteLost
<1>. QED  BY <1>1, InductiveInvariant, PTL

\* Until two runs cross, users are only ever sent to a box with the production role,
\* whose database has been migrated and checked.
THEOREM LiveBoxIsComplete == Spec => []LiveIsComplete
<1>1. IInv => LiveIsComplete  BY DEF IInv, Orderly, BoxesOK, LiveIsReady, LiveIsComplete
<1>. QED  BY <1>1, InductiveInvariant, PTL

\* No run rebuilds or installs on the box that serves the users unless it crossed
\* another, in a split state or not.
THEOREM OnlyTheStandbyIsInstalled == Spec => LiveBoxIsNotInstalled
<1>1. IInv => \A r \in Runs : run[r].step \in {"provision", "install"} => crossed \/ Standby(r) # Live
  <2>1. SUFFICES ASSUME IInv, NEW r \in Runs, run[r].step \in {"provision", "install"}, ~crossed
                 PROVE  Standby(r) # Live
    OBVIOUS
  <2>2. run[r].owner = Live  BY <2>1 DEF IInv, Orderly, RunOK, AtWork, Ended, OwnerIsLive
  <2>. QED  BY <2>1, <2>2, Owners DEF IInv
<1>2. IInv /\ [Next]_vars =>
        [\A r \in Runs : run[r].step \in {"provision", "install"} /\ run'[r].step \in {"install", "done", "rebase"}
                           /\ run[r].step # run'[r].step => crossed \/ Standby(r) # Live]_vars
  BY <1>1
<1>. QED  BY <1>2, InductiveInvariant, PTL DEF Spec, LiveBoxIsNotInstalled

\* Until two runs cross, production is down for the reasons that DownIsAccountedFor
\* lists, and no other.
THEOREM OutagesAreAccountedFor == Spec => []DownIsAccountedFor
<1>1. IInv => DownIsAccountedFor  BY DEF IInv, Orderly, DownIsExcused, DownIsAccountedFor
<1>. QED  BY <1>1, InductiveInvariant, PTL
=============================================================================
