-------------------------- MODULE ApiGateway_proofs --------------------------
(***************************************************************************)
(* Proofs about ApiGateway, for any number of coroutines, requests and     *)
(* restarts, any pace and any length of the day.                           *)
(***************************************************************************)
EXTENDS ApiGateway, FiniteSetTheorems, TLAPS

-----------------------------------------------------------------------------
(***************************************************************************)
(* The inductive invariant.  A body on the disk is one the provider gave   *)
(* for that request, and the outer layer holds nothing but bodies, where   *)
(* the two layers have keys of their own.                                  *)
(***************************************************************************)
BodiesAreGiven(f, g) ==
    \A r \in Requests : \A k \in {OuterKey(r), InnerKey(r)} :
        f[k] \in {"data", "overlimit"} => f[k] \in g[r]
OuterHoldsBodies(f) ==
    \A r \in Requests \ Bare : f[OuterKey(r)] \in {"absent", "data", "overlimit"}
StoreOK(f, g) == f \in [Keys -> Entries] /\ BodiesAreGiven(f, g) /\ OuterHoldsBodies(f)

IInv == TypeOK /\ StoreOK(file, given) /\ AnswersAreGenuine /\ OverrunBounded

\* What a step may do to the disk.
Written(r, k) ==
    file'[k] # file[k] => file'[k] \in {"absent", "torn"} \/ file'[k] \in given'[r]
OnlyGiven == \A r \in Requests : \A k \in {OuterKey(r), InnerKey(r)} : Written(r, k)

-----------------------------------------------------------------------------
(***************************************************************************)
(* Keys and time.                                                          *)
(***************************************************************************)

\* The keys of two requests differ, and so do a request's own two unless it is bare.
LEMMA KeysDiffer ==
    /\ \A r \in Requests : OuterKey(r) \in Keys /\ InnerKey(r) \in Keys
    /\ \A r \in Requests \ Bare : OuterKey(r) # InnerKey(r)
    /\ \A r, s \in Requests : r # s =>
          /\ OuterKey(r) # OuterKey(s) /\ OuterKey(r) # InnerKey(s)
          /\ InnerKey(r) # OuterKey(s) /\ InnerKey(r) # InnerKey(s)
BY DEF Keys, OuterKey, InnerKey

\* The quota comes back at a later time.
LEMMA MidnightIsTime ==
    ASSUME TypeOK
    PROVE  NextMidnight \in Nat
<1>. DEFINE days == now \div DayLength
<1>1. now \in Nat /\ DayLength \in Nat /\ DayLength > 0  BY GatewayAssumption DEF TypeOK
<1>2. days \in Nat  BY <1>1
<1>. HIDE DEF days
<1>3. (days + 1) * DayLength \in Nat  BY <1>1, <1>2
<1>. QED  BY <1>3 DEF NextMidnight, days

-----------------------------------------------------------------------------
(***************************************************************************)
(* How a coroutine leaves a step other than the sleep: idle with a result, *)
(* or sent; the quota is marked by one that is then idle.                  *)
(***************************************************************************)
Outcome(c, r) ==
    \E pc \in {"idle", "sent"}, res \in Results :
        /\ caller' = [caller EXCEPT ![c] = [pc |-> pc, req |-> r, wake |-> 0, result |-> res]]
        /\ res = "ok" /\ r \notin Bare => "data" \in given'[r]
        /\ \/ UNCHANGED <<exhaustedUntil, overrun>>
           \/ pc = "idle" /\ ~Exhausted /\ exhaustedUntil' = NextMidnight /\ overrun' = 0
           \/ pc = "sent" /\ Exhausted /\ overrun' = overrun + 1 /\ UNCHANGED exhaustedUntil

\* One that leaves the sleep makes room; with one awake, not all of them sleep.
LEMMA StartedFalls ==
    ASSUME TypeOK, NEW c \in Callers, NEW new \in Caller, new.pc # "pacing",
           caller' = [caller EXCEPT ![c] = new]
    PROVE  /\ Started \in Nat /\ Started' \in Nat /\ Cardinality(Callers) \in Nat
           /\ Started' < Cardinality(Callers)
           /\ Started' = IF caller[c].pc = "pacing" THEN Started - 1 ELSE Started
<1>. DEFINE paced == {d \in Callers : caller[d].pc = "pacing"}
            pacedAfter == {d \in Callers : caller'[d].pc = "pacing"}
<1>1. pacedAfter = paced \ {c} /\ pacedAfter \subseteq Callers \ {c}  BY DEF TypeOK
<1>2. IsFiniteSet(Callers) /\ IsFiniteSet(paced)  BY GatewayAssumption, FS_Subset
<1>3. /\ IsFiniteSet(Callers \ {c}) /\ Cardinality(Callers \ {c}) = Cardinality(Callers) - 1
      /\ Cardinality(Callers) \in Nat /\ Cardinality(paced) \in Nat
  BY <1>2, FS_RemoveElement, FS_CardinalityType
<1>4. IsFiniteSet(pacedAfter) /\ Cardinality(pacedAfter) <= Cardinality(Callers \ {c})
  BY <1>1, <1>3, FS_Subset
<1>5. Cardinality(pacedAfter) \in Nat  BY <1>4, FS_CardinalityType
<1>6. Cardinality(pacedAfter) = IF c \in paced THEN Cardinality(paced) - 1 ELSE Cardinality(paced)
  BY <1>1, <1>2, FS_RemoveElement
<1>7. Started = Cardinality(paced) /\ Started' = Cardinality(pacedAfter)  BY DEF Started
<1>. HIDE DEF paced, pacedAfter
<1>8. c \in paced <=> caller[c].pc = "pacing"  BY DEF paced
<1>. QED  BY <1>3, <1>4, <1>5, <1>6, <1>7, <1>8

\* The bound of the overrun: a call goes out over an exhausted quota only by leaving
\* the sleep, and the one that brings the news of the quota is itself awake.
LEMMA OutcomeOK ==
    ASSUME IInv, NEW c \in Callers, NEW r \in Requests, Outcome(c, r), now' = now,
           caller[c].pc = "pacing" \/ ~Exhausted \/ caller'[c].pc = "idle",
           \A q \in Requests : given[q] \subseteq given'[q]
    PROVE  /\ caller' \in [Callers -> Caller] /\ overrun' \in Nat /\ exhaustedUntil' \in Nat
           /\ AnswersAreGenuine' /\ OverrunBounded'
<1>. DEFINE new(pc, res) == [pc |-> pc, req |-> r, wake |-> 0, result |-> res]
<1>1. PICK pc \in {"idle", "sent"}, res \in Results :
        /\ caller' = [caller EXCEPT ![c] = new(pc, res)]
        /\ res = "ok" /\ r \notin Bare => "data" \in given'[r]
        /\ \/ UNCHANGED <<exhaustedUntil, overrun>>
           \/ pc = "idle" /\ ~Exhausted /\ exhaustedUntil' = NextMidnight /\ overrun' = 0
           \/ pc = "sent" /\ Exhausted /\ overrun' = overrun + 1 /\ UNCHANGED exhaustedUntil
  BY DEF Outcome
<1>2. TypeOK /\ new(pc, res) \in Caller /\ new(pc, res).pc # "pacing"  BY DEF IInv, Caller
<1>3. caller' \in [Callers -> Caller] /\ caller'[c] = new(pc, res)
  BY <1>1, <1>2 DEF TypeOK
<1>4. overrun' \in Nat /\ exhaustedUntil' \in Nat
  BY <1>1, <1>2, MidnightIsTime DEF TypeOK
<1>5. AnswersAreGenuine'
  <2>1. SUFFICES ASSUME NEW d \in Callers, caller'[d].result = "ok", caller'[d].req \notin Bare
                 PROVE  "data" \in given'[caller'[d].req]
    BY DEF AnswersAreGenuine
  <2>2. CASE d = c  BY <1>1, <1>3, <2>1, <2>2
  <2>3. CASE d # c
    <3>1. caller'[d] = caller[d] /\ caller[d].req \in Requests  BY <1>1, <1>2, <2>3 DEF TypeOK, Caller
    <3>. QED  BY <2>1, <3>1 DEF IInv, AnswersAreGenuine
  <2>. QED  BY <2>2, <2>3
<1>6. OverrunBounded'
  <2>. HIDE DEF new
  <2>1. /\ Started \in Nat /\ Started' \in Nat /\ Cardinality(Callers) \in Nat
        /\ Started' < Cardinality(Callers)
        /\ Started' = IF caller[c].pc = "pacing" THEN Started - 1 ELSE Started
    BY <1>1, <1>2, StartedFalls
  <2>2. overrun \in Nat /\ (Exhausted => overrun + Started < Cardinality(Callers))
    BY <1>2 DEF IInv, TypeOK, OverrunBounded
  <2>3. CASE UNCHANGED <<exhaustedUntil, overrun>>
    BY <2>1, <2>2, <2>3 DEF OverrunBounded, Exhausted
  <2>4. CASE overrun' = 0  BY <2>1, <2>4 DEF OverrunBounded
  <2>5. CASE pc = "sent" /\ Exhausted /\ overrun' = overrun + 1
    <3>1. caller[c].pc = "pacing"  BY <1>3, <2>5 DEF new
    <3>. QED  BY <2>1, <2>2, <2>5, <3>1 DEF OverrunBounded
  <2>. QED  BY <1>1, <2>3, <2>4, <2>5
<1>. QED  BY <1>3, <1>4, <1>5, <1>6

\* The ends of a call are outcomes.
LEMMA FailOutcome ==
    ASSUME NEW c, NEW r, NEW res \in Results \ {"ok"}, Fail(c, r, res)
    PROVE  Outcome(c, r)
BY DEF Fail, Finish, Outcome

LEMMA DeliverOutcome ==
    ASSUME NEW c, NEW r, NEW body \in {"data", "overlimit"}, Deliver(c, r, body),
           body = "data" => "data" \in given'[r]
    PROVE  Outcome(c, r)
<1>1. CASE body = "overlimit"  BY <1>1 DEF Deliver, Finish, MarkExhausted, Results, Outcome
<1>2. CASE body = "data"  BY <1>2 DEF Deliver, Finish, Results, Outcome
<1>. QED  BY <1>1, <1>2

LEMMA SendOutcome ==
    ASSUME NEW c, NEW r, Send(c, r)
    PROVE  Outcome(c, r)
BY DEF Send, Outcome, Results

-----------------------------------------------------------------------------
(***************************************************************************)
(* What the two layers do to the disk.                                     *)
(***************************************************************************)

\* One entry is replaced: by nothing, or by a body given for the request.
LEMMA StoreOne ==
    ASSUME StoreOK(file, given), NEW r \in Requests, NEW k \in {OuterKey(r), InnerKey(r)}, NEW e \in Entries,
           file' = [file EXCEPT ![k] = e], given' = given, e = "absent" \/ e \in given[r],
           r \notin Bare /\ k = OuterKey(r) => e \in {"absent", "data", "overlimit"}
    PROVE  StoreOK(file', given') /\ OnlyGiven
<1>1. k \in Keys  BY KeysDiffer
<1>2. file' \in [Keys -> Entries] /\ file'[k] = e /\ \A q \in Keys \ {k} : file'[q] = file[q]
  BY <1>1 DEF StoreOK
<1>3. \A q \in Requests \ {r} : OuterKey(q) # k /\ InnerKey(q) # k  BY KeysDiffer
<1>4. BodiesAreGiven(file', given')
  BY <1>2, <1>3, KeysDiffer DEF StoreOK, BodiesAreGiven
<1>5. OuterHoldsBodies(file')
  BY <1>2, <1>3, KeysDiffer DEF StoreOK, OuterHoldsBodies
<1>6. OnlyGiven  BY <1>2, <1>3, KeysDiffer DEF OnlyGiven, Written
<1>. QED  BY <1>2, <1>4, <1>5, <1>6 DEF StoreOK

LEMMA StoreNone ==
    ASSUME StoreOK(file, given), file' = file, given' = given
    PROVE  StoreOK(file', given') /\ OnlyGiven
BY DEF StoreOK, BodiesAreGiven, OuterHoldsBodies, OnlyGiven, Written

LEMMA TransportOK ==
    ASSUME IInv, NEW c \in Callers, NEW r \in Requests, Transport(c, r), given' = given
    PROVE  Outcome(c, r) /\ StoreOK(file', given') /\ OnlyGiven
<1>. DEFINE entry == file[InnerKey(r)]
<1>1. StoreOK(file, given)  BY DEF IInv
<1>2. CASE entry \in {"absent", "busy"} /\ file' = [file EXCEPT ![InnerKey(r)] = "absent"] /\ Send(c, r)
  BY <1>1, <1>2, StoreOne, SendOutcome DEF Entries
<1>3. CASE /\ entry \in {"data", "overlimit"}
           /\ file' = [file EXCEPT ![OuterKey(r)] = entry]
           /\ Deliver(c, r, entry)
  <2>1. entry \in given[r]  BY <1>1, <1>3 DEF StoreOK, BodiesAreGiven
  <2>2. Outcome(c, r)  BY <1>3, <2>1, DeliverOutcome
  <2>3. entry \in Entries  BY <1>3 DEF Entries
  <2>. QED  BY <1>1, <1>3, <2>1, <2>2, <2>3, StoreOne
<1>4. CASE /\ entry \in {"notfound", "torn"}
           /\ \E res \in {"permanent", "broken"} : Fail(c, r, res)
           /\ UNCHANGED file
  BY <1>1, <1>4, StoreNone, FailOutcome DEF Results
<1>. QED  BY <1>2, <1>3, <1>4 DEF Transport

LEMMA LookupOK ==
    ASSUME IInv, NEW c \in Callers, NEW r \in Requests, Lookup(c, r), given' = given
    PROVE  Outcome(c, r) /\ StoreOK(file', given') /\ OnlyGiven
<1>. DEFINE entry == file[OuterKey(r)]
<1>1. StoreOK(file, given)  BY DEF IInv
<1>2. CASE Transport(c, r)  BY <1>2, TransportOK
<1>3. CASE entry \in {"data", "overlimit"} /\ Deliver(c, r, entry) /\ UNCHANGED file
  <2>1. entry \in given[r]  BY <1>1, <1>3 DEF StoreOK, BodiesAreGiven
  <2>. QED  BY <1>1, <1>3, <2>1, StoreNone, DeliverOutcome
<1>4. CASE entry \in {"notfound", "busy"} /\ Fail(c, r, "ok") /\ UNCHANGED file
  <2>1. r \in Bare  BY <1>1, <1>4 DEF StoreOK, OuterHoldsBodies
  <2>2. Outcome(c, r)  BY <1>4, <2>1 DEF Fail, Finish, Results, Outcome
  <2>. QED  BY <1>1, <1>4, <2>2, StoreNone
<1>5. CASE entry = "torn" /\ Fail(c, r, "broken") /\ UNCHANGED file
  BY <1>1, <1>5, StoreNone, FailOutcome DEF Results
<1>. QED  BY <1>2, <1>3, <1>4, <1>5 DEF Lookup

-----------------------------------------------------------------------------
(***************************************************************************)
(* The steps.  Each keeps the invariant and writes only what it may.       *)
(***************************************************************************)
Kept == IInv' /\ OnlyGiven

LEMMA LookedUp ==
    ASSUME IInv, NEW c \in Callers, NEW r \in Requests, caller[c].pc = "pacing" \/ ~Exhausted,
           Lookup(c, r), lastCall' = now, UNCHANGED <<now, restarts, given>>
    PROVE  Kept
<1>1. Outcome(c, r) /\ StoreOK(file', given') /\ OnlyGiven  BY LookupOK
<1>2. /\ caller' \in [Callers -> Caller] /\ overrun' \in Nat /\ exhaustedUntil' \in Nat
      /\ AnswersAreGenuine' /\ OverrunBounded'
  BY <1>1, OutcomeOK
<1>3. TypeOK'  BY <1>1, <1>2, GatewayAssumption DEF IInv, TypeOK, StoreOK
<1>. QED  BY <1>1, <1>2, <1>3 DEF IInv, Kept

LEMMA RefuseOK ==
    ASSUME IInv, NEW c \in Callers, NEW r \in Requests, Refuse(c, r)
    PROVE  Kept
<1>1. StoreOK(file', given') /\ OnlyGiven  BY StoreNone DEF IInv, Refuse
<1>2. Outcome(c, r)  BY FailOutcome DEF Refuse, Results
<1>3. caller'[c].pc = "idle"  BY DEF IInv, TypeOK, Refuse, Fail, Finish
<1>4. /\ caller' \in [Callers -> Caller] /\ overrun' \in Nat /\ exhaustedUntil' \in Nat
      /\ AnswersAreGenuine' /\ OverrunBounded'
  BY <1>2, <1>3, OutcomeOK DEF Refuse
<1>5. TypeOK'  BY <1>1, <1>4 DEF IInv, TypeOK, StoreOK, Refuse
<1>. QED  BY <1>1, <1>4, <1>5 DEF IInv, Kept

LEMMA StartSleepOK ==
    ASSUME IInv, NEW c \in Callers, NEW r \in Requests, StartSleep(c, r)
    PROVE  Kept
<1>1. StoreOK(file', given') /\ OnlyGiven  BY StoreNone DEF IInv, StartSleep
<1>2. lastCall + Pace \in Nat  BY GatewayAssumption DEF IInv, TypeOK
<1>3. caller' \in [Callers -> Caller]
  BY <1>2 DEF IInv, TypeOK, StartSleep, Caller, Results
<1>4. AnswersAreGenuine'
  BY DEF IInv, TypeOK, StartSleep, AnswersAreGenuine
<1>5. OverrunBounded'  BY DEF StartSleep, OverrunBounded, Exhausted
<1>6. TypeOK'  BY <1>3 DEF IInv, TypeOK, StartSleep
<1>. QED  BY <1>1, <1>4, <1>5, <1>6 DEF IInv, Kept

LEMMA StartOK ==
    ASSUME IInv, NEW c \in Callers, NEW r \in Requests, Start(c, r)
    PROVE  Kept
BY LookedUp DEF Start

LEMMA WakeOK ==
    ASSUME IInv, NEW c \in Callers, Wake(c)
    PROVE  Kept
<1>1. caller[c].req \in Requests  BY DEF IInv, TypeOK, Caller
<1>. QED  BY <1>1, LookedUp DEF Wake

\* What is stored is what the provider has just given.
LEMMA RespondOK ==
    ASSUME IInv, NEW c \in Callers, NEW answer \in Answers, Respond(c, answer)
    PROVE  Kept
<1>. DEFINE r == caller[c].req
<1>1. /\ r \in Requests /\ StoreOK(file, given) /\ given \in [Requests -> SUBSET Storable]
      /\ given' = [given EXCEPT ![r] = @ \cup ({answer} \cap Storable)]
  BY DEF IInv, TypeOK, Caller, Respond
<1>. HIDE DEF r
<1>2. /\ given' \in [Requests -> SUBSET Storable] /\ \A q \in Requests : given[q] \subseteq given'[q]
      /\ answer \in Storable => answer \in given'[r]
  BY <1>1
<1>3. Outcome(c, r) /\ StoreOK(file', given') /\ OnlyGiven
  <2>1. CASE answer \in {"data", "overlimit"} /\ StoreBody(r, answer) /\ Deliver(c, r, answer)
    <3>1. answer \in Storable /\ answer \in Entries  BY <2>1 DEF Storable, Entries
    <3>2. file' = [file EXCEPT ![InnerKey(r)] = answer, ![OuterKey(r)] = answer]  BY <2>1 DEF StoreBody
    <3>3. /\ file' \in [Keys -> Entries] /\ file'[InnerKey(r)] = answer /\ file'[OuterKey(r)] = answer
          /\ \A q \in Requests \ {r} : /\ file'[OuterKey(q)] = file[OuterKey(q)]
                                       /\ file'[InnerKey(q)] = file[InnerKey(q)]
      BY <1>1, <3>1, <3>2, KeysDiffer DEF StoreOK
    <3>4. BodiesAreGiven(file', given')  BY <1>1, <1>2, <3>1, <3>3 DEF StoreOK, BodiesAreGiven
    <3>5. OuterHoldsBodies(file')  BY <1>1, <2>1, <3>3 DEF StoreOK, OuterHoldsBodies
    <3>6. OnlyGiven  BY <1>2, <3>1, <3>3 DEF OnlyGiven, Written
    <3>7. Outcome(c, r)  BY <1>2, <2>1, <3>1, DeliverOutcome
    <3>. QED  BY <3>3, <3>4, <3>5, <3>6, <3>7 DEF StoreOK
  <2>2. CASE /\ answer = "notfound"
             /\ file' = [file EXCEPT ![InnerKey(r)] = "notfound"]
             /\ Fail(c, r, "permanent")
    <3>1. /\ file' \in [Keys -> Entries] /\ file'[InnerKey(r)] = answer
          /\ \A q \in Keys \ {InnerKey(r)} : file'[q] = file[q]
      BY <1>1, <2>2, KeysDiffer DEF StoreOK, Entries
    <3>2. answer \in given'[r]  BY <1>2, <2>2 DEF Storable
    <3>3. BodiesAreGiven(file', given')  BY <1>1, <1>2, <2>2, <3>1, KeysDiffer DEF StoreOK, BodiesAreGiven
    <3>4. OuterHoldsBodies(file')  BY <1>1, <3>1, KeysDiffer DEF StoreOK, OuterHoldsBodies
    <3>5. OnlyGiven  BY <1>1, <3>1, <3>2, KeysDiffer DEF OnlyGiven, Written
    <3>6. Outcome(c, r)  BY <2>2, FailOutcome DEF Results
    <3>. QED  BY <3>1, <3>3, <3>4, <3>5, <3>6 DEF StoreOK
  <2>3. CASE /\ \/ Finish(c, r, "empty") /\ MarkExhausted
                \/ \E res \in {"permanent", "retryable"} : Fail(c, r, res)
             /\ UNCHANGED file
    <3>1. BodiesAreGiven(file', given')  BY <1>1, <1>2, <2>3 DEF StoreOK, BodiesAreGiven
    <3>2. OuterHoldsBodies(file') /\ OnlyGiven  BY <1>1, <2>3 DEF StoreOK, OuterHoldsBodies, OnlyGiven, Written
    <3>3. Finish(c, r, "empty") /\ MarkExhausted => Outcome(c, r)
      BY DEF Finish, MarkExhausted, Results, Outcome
    <3>4. \A res \in {"permanent", "retryable"} : Fail(c, r, res) => Outcome(c, r)
      BY FailOutcome DEF Results
    <3>. QED  BY <1>1, <2>3, <3>1, <3>2, <3>3, <3>4 DEF StoreOK
  <2>. QED  BY <2>1, <2>2, <2>3 DEF Respond, r
<1>4. now' = now /\ lastCall' = lastCall /\ restarts' = restarts  BY DEF Respond
<1>5. caller'[c].pc = "idle"
  BY DEF IInv, TypeOK, Respond, Deliver, Fail, Finish
<1>6. /\ caller' \in [Callers -> Caller] /\ overrun' \in Nat /\ exhaustedUntil' \in Nat
      /\ AnswersAreGenuine' /\ OverrunBounded'
  BY <1>1, <1>2, <1>3, <1>4, <1>5, OutcomeOK
<1>7. TypeOK'  BY <1>2, <1>3, <1>4, <1>6 DEF IInv, TypeOK, StoreOK
<1>. QED  BY <1>3, <1>6, <1>7 DEF IInv, Kept

\* A crash may leave a file torn, and forgets the quota.
LEMMA RestartOK ==
    ASSUME IInv, Restart
    PROVE  Kept
<1>1. /\ exhaustedUntil' = 0 /\ overrun' = 0 /\ lastCall' = 0 /\ now' = now /\ given' = given
      /\ restarts < MaxRestarts /\ restarts' = restarts + 1
  BY DEF Restart
<1>2. caller' \in [Callers -> Caller] /\ \A c \in Callers : caller'[c].result = "none"
  <2>1. caller' = [c \in Callers |-> [caller[c] EXCEPT !.pc = "idle", !.wake = 0, !.result = "none"]]
    BY DEF Restart
  <2>. QED  BY <2>1 DEF IInv, TypeOK, Caller, Results
<1>3. StoreOK(file', given') /\ OnlyGiven
  <2>1. CASE UNCHANGED file  BY <1>1, <2>1, StoreNone DEF IInv
  <2>2. ASSUME NEW c \in Callers, file' = [file EXCEPT ![InnerKey(caller[c].req)] = "torn"]
        PROVE  StoreOK(file', given') /\ OnlyGiven
    <3>. DEFINE r == caller[c].req
    <3>1. r \in Requests  BY DEF IInv, TypeOK, Caller
    <3>. HIDE DEF r
    <3>2. /\ file' \in [Keys -> Entries] /\ file'[InnerKey(r)] = "torn"
          /\ \A q \in Keys \ {InnerKey(r)} : file'[q] = file[q]
      BY <2>2, <3>1, KeysDiffer DEF IInv, StoreOK, Entries, r
    <3>3. BodiesAreGiven(file', given')  BY <1>1, <3>1, <3>2, KeysDiffer DEF IInv, StoreOK, BodiesAreGiven
    <3>4. OuterHoldsBodies(file')  BY <3>1, <3>2, KeysDiffer DEF IInv, StoreOK, OuterHoldsBodies
    <3>5. OnlyGiven  BY <3>1, <3>2, KeysDiffer DEF OnlyGiven, Written
    <3>. QED  BY <3>2, <3>3, <3>4, <3>5 DEF StoreOK
  <2>. QED  BY <2>1, <2>2 DEF Restart
<1>4. TypeOK'  BY <1>1, <1>2, <1>3, GatewayAssumption DEF IInv, TypeOK, StoreOK
<1>5. AnswersAreGenuine'  BY <1>2 DEF AnswersAreGenuine
<1>6. OverrunBounded'  BY <1>1, GatewayAssumption DEF IInv, TypeOK, OverrunBounded, Exhausted
<1>. QED  BY <1>3, <1>4, <1>5, <1>6 DEF IInv, Kept

\* Time can end the exhaustion, never begin one.
LEMMA TickOK ==
    ASSUME IInv, Tick
    PROVE  Kept
<1>1. StoreOK(file', given') /\ OnlyGiven  BY StoreNone DEF IInv, Tick
<1>2. TypeOK'  BY GatewayAssumption DEF IInv, TypeOK, Tick
<1>3. AnswersAreGenuine'  BY DEF IInv, Tick, AnswersAreGenuine
<1>4. Exhausted' => Exhausted  BY DEF IInv, TypeOK, Tick, Exhausted
<1>5. OverrunBounded'  BY <1>4 DEF IInv, Tick, OverrunBounded, Started
<1>. QED  BY <1>1, <1>2, <1>3, <1>5 DEF IInv, Kept

LEMMA StutterOK ==
    ASSUME IInv, UNCHANGED vars
    PROVE  Kept
<1>1. StoreOK(file', given') /\ OnlyGiven  BY StoreNone DEF IInv, vars
<1>. QED  BY <1>1 DEF Kept, IInv, TypeOK, AnswersAreGenuine, OverrunBounded, Exhausted, Started, vars

LEMMA NextOK ==
    ASSUME IInv, [Next]_vars
    PROVE  Kept
BY RefuseOK, StartSleepOK, StartOK, WakeOK, RespondOK, RestartOK, TickOK, StutterOK DEF Next

LEMMA InitOK == Init => IInv
<1>1. SUFFICES ASSUME Init  PROVE IInv  OBVIOUS
<1>2. PICK old \in [Requests -> Legacy \cup {"absent"}] :
         file = [k \in Keys |-> IF k = InnerKey(k[1]) THEN old[k[1]] ELSE "absent"]
  BY <1>1 DEF Init
<1>3. \A r \in Requests : /\ file[InnerKey(r)] \in Entries \ {"data", "overlimit"}
                          /\ r \notin Bare => file[OuterKey(r)] = "absent"
                          /\ file[OuterKey(r)] \in Entries \ {"data", "overlimit"}
  BY <1>2, AnswersAssumption, KeysDiffer DEF InnerKey, OuterKey, Entries
<1>4. file \in [Keys -> Entries]  BY <1>2, <1>3 DEF Keys
<1>5. StoreOK(file, given)  BY <1>3, <1>4 DEF StoreOK, BodiesAreGiven, OuterHoldsBodies
<1>6. caller \in [Callers -> Caller] /\ \A c \in Callers : caller[c].result = "none"
  BY <1>1 DEF Init, Caller, Results
<1>7. TypeOK  BY <1>1, <1>4, <1>6, GatewayAssumption DEF Init, TypeOK
<1>8. AnswersAreGenuine  BY <1>6 DEF AnswersAreGenuine
<1>9. OverrunBounded  BY <1>1 DEF Init, OverrunBounded, Exhausted
<1>. QED  BY <1>5, <1>7, <1>8, <1>9 DEF IInv

-----------------------------------------------------------------------------
(***************************************************************************)
(* What holds of every gateway.                                            *)
(***************************************************************************)

\* The invariant above is one.
THEOREM InductiveInvariant == Spec => []IInv
<1>1. IInv /\ [Next]_vars => IInv'  BY NextOK DEF Kept
<1>. QED  BY <1>1, InitOK, PTL DEF Spec

\* The clock, the gate, the disk, the callers and the histories keep their type.
THEOREM TypeCorrect == Spec => []TypeOK
<1>1. IInv => TypeOK  BY DEF IInv
<1>. QED  BY <1>1, InductiveInvariant, PTL

\* However the coroutines interleave and the clock runs, and whatever crashes, the
\* calls put on the wire over an exhausted quota and those still asleep are fewer
\* than the coroutines.
THEOREM OverrunIsBounded == Spec => []OverrunBounded
<1>1. IInv => OverrunBounded  BY DEF IInv
<1>. QED  BY <1>1, InductiveInvariant, PTL

\* "ok" is told only of data the provider gave for that request, however often and
\* from whichever of the two layers it is served.
THEOREM OkIsGenuine == Spec => []AnswersAreGenuine
<1>1. IInv => AnswersAreGenuine  BY DEF IInv
<1>. QED  BY <1>1, InductiveInvariant, PTL

\* No step writes an outage, or another request's answer, to the disk.
THEOREM OnlyAnswersAreStored == Spec => StoredIsWhatWasGiven
<1>1. IInv /\ [Next]_vars =>
        [\A r \in Requests : \A k \in {OuterKey(r), InnerKey(r)} :
            file'[k] # file[k] =>
               \/ file'[k] \in {"absent", "torn"}
               \/ file'[k] \in given'[r]]_vars
  BY NextOK DEF Kept, OnlyGiven, Written
<1>. QED  BY <1>1, InductiveInvariant, PTL DEF Spec, StoredIsWhatWasGiven
=============================================================================
