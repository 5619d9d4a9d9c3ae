----------------------------- MODULE ApiGateway -----------------------------
(***************************************************************************)
(* One external provider behind houses/apigw.py: the gate that spaces the  *)
(* calls and remembers an exhausted daily quota, and the disk cache of     *)
(* houses/api_cache.py, which is consulted twice: by api_fetch under the   *)
(* caller's key and by the HTTP transport under the key of the wire.       *)
(*                                                                         *)
(* Callers are coroutines of one event loop.  They interleave only where   *)
(* the code awaits: in the sleep of `pace` and while the provider answers. *)
(***************************************************************************)
EXTENDS Integers, FiniteSets

CONSTANTS
    Callers,      \* coroutines that may be inside api_fetch at once
    Requests,     \* distinct requests to this provider
    Bare,         \* those without parameters or body: both layers use one key
    Pace,         \* ApiProfile.pace_s, in ticks
    DayLength,    \* ticks between two UTC midnights
    Answers,      \* what the provider may answer, a subset of AllAnswers
    Legacy,       \* what the transport of an older version may have left on disk
    MaxTime,      \* bound: the clock
    MaxRestarts   \* bound: restarts of the process

ASSUME GatewayAssumption ==
    /\ IsFiniteSet(Callers) /\ Callers # {}
    /\ Bare \subseteq Requests
    /\ Pace \in Nat \ {0} /\ DayLength \in Nat \ {0}
    /\ MaxTime \in Nat \ {0} /\ MaxRestarts \in Nat

VARIABLES
    now,             \* the clock (time.time and time.monotonic advance together)
    lastCall,        \* ApiGate._last_call of the profile; 0: never called
    exhaustedUntil,  \* ApiGate._exhausted_until of the profile; 0: not set
    file,            \* the cache directory: key -> entry
    caller,          \* the coroutines
    restarts,        \* history: restarts so far
    given,           \* history: the deterministic answers the provider gave, by request
    overrun          \* history: calls put on the wire since the quota was marked

vars == <<now, lastCall, exhaustedUntil, file, caller, restarts, given, overrun>>

(***************************************************************************)
(* "data": 200 with a usable body.  "overlimit": 200 whose body says that  *)
(* the daily limit is reached (Google).  "garbled": 200 that is not JSON.  *)
(* "notfound": 404.  "quota": the profile's quota status.  "busy": 429 or  *)
(* 5xx.  "timeout": no answer within timeout_s.                            *)
(***************************************************************************)
AllAnswers == {"data", "overlimit", "garbled", "notfound", "quota", "busy", "timeout"}
Storable == {"data", "overlimit", "notfound"}

\* Entries of the cache: a raw 2xx body, a wrapped 404, a wrapped transient
\* status left by an older version, or a file cut short by a crash.
Entries == {"absent", "data", "overlimit", "notfound", "busy", "torn"}

\* A body found on the disk was given by the provider: Legacy is what else may be there.
ASSUME AnswersAssumption ==
    Answers \subseteq AllAnswers /\ Legacy \subseteq Entries \ {"absent", "data", "overlimit"}

OuterKey(r) == <<r, "call">>
InnerKey(r) == IF r \in Bare THEN OuterKey(r) ELSE <<r, "wire">>
Keys == {OuterKey(r) : r \in Requests} \cup {InnerKey(r) : r \in Requests}

Results == {"none", "ok", "empty", "permanent", "retryable", "broken"}
Caller == [pc : {"idle", "pacing", "sent"}, req : Requests, wake : Nat, result : Results]

Started == Cardinality({c \in Callers : caller[c].pc = "pacing"})

Exhausted == now < exhaustedUntil
NextMidnight == (now \div DayLength + 1) * DayLength

Init ==
    /\ now = 1 /\ lastCall = 0 /\ exhaustedUntil = 0
    /\ \E old \in [Requests -> Legacy \cup {"absent"}] :
         file = [k \in Keys |-> IF k = InnerKey(k[1]) THEN old[k[1]] ELSE "absent"]
    /\ \E r \in Requests :
         caller = [c \in Callers |-> [pc |-> "idle", req |-> r, wake |-> 0, result |-> "none"]]
    /\ restarts = 0 /\ overrun = 0
    /\ given = [r \in Requests |-> {}]

(***************************************************************************)
(* Ends of a call.                                                         *)
(***************************************************************************)
Finish(c, r, res) == caller' = [caller EXCEPT ![c] = [pc |-> "idle", req |-> r, wake |-> 0, result |-> res]]

\* The mark is not moved while it stands.
MarkExhausted ==
    IF Exhausted THEN UNCHANGED <<exhaustedUntil, overrun>>
    ELSE exhaustedUntil' = NextMidnight /\ overrun' = 0

\* A 200 body reaches the API class, which treats Google's limit as a quota answer.
Deliver(c, r, body) ==
    IF body = "overlimit"
    THEN Finish(c, r, "empty") /\ MarkExhausted
    ELSE Finish(c, r, "ok") /\ UNCHANGED <<exhaustedUntil, overrun>>

Fail(c, r, res) == Finish(c, r, res) /\ UNCHANGED <<exhaustedUntil, overrun>>

\* The call goes on the wire.
Send(c, r) ==
    /\ caller' = [caller EXCEPT ![c] = [pc |-> "sent", req |-> r, wake |-> 0, result |-> "none"]]
    /\ overrun' = IF Exhausted THEN overrun + 1 ELSE overrun
    /\ UNCHANGED exhaustedUntil

(***************************************************************************)
(* The transport: it looks under the key of the wire, drops an entry that  *)
(* holds a transient status, serves a wrapped one with its real status and *)
(* otherwise calls the provider.                                           *)
(***************************************************************************)
\* Mutant: a wrapped 404 is served as a success.
TransportForgetsStatus(c, r) ==
    LET entry == file[InnerKey(r)] IN
    \/ entry \in {"absent", "busy"} /\ Send(c, r) /\ UNCHANGED file
    \/ entry = "data" /\ Deliver(c, r, entry) /\ UNCHANGED file
    \/ entry \in {"overlimit", "notfound"} /\ Fail(c, r, "ok") /\ UNCHANGED file
    \/ entry = "torn" /\ Fail(c, r, "broken") /\ UNCHANGED file

Transport(c, r) ==
    LET entry == file[InnerKey(r)] IN
    \/ /\ entry \in {"absent", "busy"}
       /\ file' = [file EXCEPT ![InnerKey(r)] = "absent"]
       /\ Send(c, r)
    \/ /\ entry \in {"data", "overlimit"}
       /\ file' = [file EXCEPT ![OuterKey(r)] = entry]
       /\ Deliver(c, r, entry)
    \/ entry = "notfound" /\ Fail(c, r, "permanent") /\ UNCHANGED file
    \/ entry = "torn" /\ Fail(c, r, "broken") /\ UNCHANGED file

\* CacheRequest.fetch: any entry under the caller's key is the answer, whatever
\* it holds; a file that does not parse raises.
Lookup(c, r) ==
    LET entry == file[OuterKey(r)] IN
    \/ entry = "absent" /\ Transport(c, r)
    \/ entry \in {"data", "overlimit"} /\ Deliver(c, r, entry) /\ UNCHANGED file
    \/ entry \in {"notfound", "busy"} /\ Fail(c, r, "ok") /\ UNCHANGED file
    \/ entry = "torn" /\ Fail(c, r, "broken") /\ UNCHANGED file

(***************************************************************************)
(* api_fetch                                                               *)
(***************************************************************************)
\* The quota is checked before anything else, the cache included.
Refuse(c, r) ==
    /\ caller[c].pc = "idle" /\ Exhausted
    /\ Fail(c, r, "empty")
    /\ UNCHANGED <<now, lastCall, file, restarts, given>>

MustWait == lastCall # 0 /\ now - lastCall < Pace

StartSleep(c, r) ==
    /\ caller[c].pc = "idle" /\ ~Exhausted /\ MustWait /\ now + Pace <= MaxTime
    /\ caller' = [caller EXCEPT ![c] =
                    [pc |-> "pacing", req |-> r, wake |-> lastCall + Pace, result |-> "none"]]
    /\ UNCHANGED <<now, lastCall, exhaustedUntil, file, restarts, given, overrun>>

\* Mutant: only the calls that have to sleep check the quota.
StartWithoutQuotaCheck(c, r) ==
    /\ caller[c].pc = "idle" /\ ~MustWait /\ now + Pace <= MaxTime
    /\ lastCall' = now
    /\ Lookup(c, r)
    /\ UNCHANGED <<now, restarts, given>>

Start(c, r) ==
    /\ caller[c].pc = "idle" /\ ~Exhausted /\ ~MustWait /\ now + Pace <= MaxTime
    /\ lastCall' = now
    /\ Lookup(c, r)
    /\ UNCHANGED <<now, restarts, given>>

\* Mutant: a coroutine that wakes to an exhausted quota goes back to sleep.
WakeWhenQuotaIsBack(c) ==
    /\ caller[c].pc = "pacing" /\ now >= caller[c].wake /\ ~Exhausted
    /\ lastCall' = now
    /\ Lookup(c, caller[c].req)
    /\ UNCHANGED <<now, restarts, given>>

\* After the sleep neither the quota nor the time of the last call is read again.
Wake(c) ==
    /\ caller[c].pc = "pacing" /\ now >= caller[c].wake
    /\ lastCall' = now
    /\ Lookup(c, caller[c].req)
    /\ UNCHANGED <<now, restarts, given>>

\* A usable body is stored by the transport and again by CacheRequest.fetch.
StoreBody(r, body) == file' = [file EXCEPT ![InnerKey(r)] = body, ![OuterKey(r)] = body]

\* Mutant: an error body is wrapped and stored like a 404.
RespondStoresErrors(c, answer) ==
    LET r == caller[c].req IN
    /\ caller[c].pc = "sent"
    /\ given' = [given EXCEPT ![r] = @ \cup ({answer} \cap Storable)]
    /\ \/ answer = "data" /\ StoreBody(r, answer) /\ Deliver(c, r, answer)
       \/ /\ answer \in {"notfound", "busy"}
          /\ file' = [file EXCEPT ![InnerKey(r)] = answer]
          /\ Fail(c, r, "permanent")
    /\ UNCHANGED <<now, lastCall, restarts>>

Respond(c, answer) ==
    LET r == caller[c].req IN
    /\ caller[c].pc = "sent"
    /\ given' = [given EXCEPT ![r] = @ \cup ({answer} \cap Storable)]
    /\ \/ answer \in {"data", "overlimit"} /\ StoreBody(r, answer) /\ Deliver(c, r, answer)
       \/ /\ answer = "notfound"
          /\ file' = [file EXCEPT ![InnerKey(r)] = "notfound"]
          /\ Fail(c, r, "permanent")
       \/ answer = "quota" /\ Finish(c, r, "empty") /\ MarkExhausted /\ UNCHANGED file
       \/ answer = "garbled" /\ Fail(c, r, "permanent") /\ UNCHANGED file
       \/ answer \in {"busy", "timeout"} /\ Fail(c, r, "retryable") /\ UNCHANGED file
    /\ UNCHANGED <<now, lastCall, restarts>>

\* The process dies; write_text may have truncated the file it was writing.  The
\* gate's memory is per process and is lost.
Restart ==
    /\ restarts < MaxRestarts
    /\ restarts' = restarts + 1
    /\ \/ UNCHANGED file
       \/ \E c \in Callers, answer \in {"data", "overlimit"} \cap Answers :
            /\ caller[c].pc = "sent"
            /\ file' = [file EXCEPT ![InnerKey(caller[c].req)] = "torn"]
    /\ caller' = [c \in Callers |-> [caller[c] EXCEPT !.pc = "idle", !.wake = 0, !.result = "none"]]
    /\ lastCall' = 0 /\ exhaustedUntil' = 0 /\ overrun' = 0
    /\ UNCHANGED <<now, given>>

Tick ==
    /\ now < MaxTime
    /\ now' = now + 1
    /\ UNCHANGED <<lastCall, exhaustedUntil, file, caller, restarts, given, overrun>>

Next ==
    \/ \E c \in Callers, r \in Requests : Refuse(c, r) \/ StartSleep(c, r) \/ Start(c, r)
    \/ \E c \in Callers : Wake(c)
    \/ \E c \in Callers, answer \in Answers : Respond(c, answer)
    \/ Restart
    \/ Tick

Spec == Init /\ [][Next]_vars

\* Time passes, a sleeping coroutine is resumed, and a call on the wire ends:
\* httpx gives up after timeout_s.
Fairness ==
    /\ WF_vars(Tick)
    /\ \A c \in Callers : WF_vars(Wake(c)) /\ WF_vars(\E answer \in Answers : Respond(c, answer))

FairSpec == Spec /\ Fairness

-----------------------------------------------------------------------------
\* Every variable has its type.
TypeOK ==
    /\ now \in 1 .. MaxTime /\ lastCall \in 0 .. MaxTime /\ exhaustedUntil \in Nat
    /\ file \in [Keys -> Entries]
    /\ caller \in [Callers -> Caller]
    /\ restarts \in 0 .. MaxRestarts /\ overrun \in Nat
    /\ given \in [Requests -> SUBSET Storable]

\* Once the quota is marked, only the calls that had passed the check and were
\* asleep in `pace` still reach the provider: with the one that brought the news,
\* no more than there are coroutines.
OverrunBounded == Exhausted => overrun + Started < Cardinality(Callers)

\* A caller whose request has keys of its own in the two layers is told "ok" only
\* when the provider answered that request with data, now or before a restart.
AnswersAreGenuine ==
    \A c \in Callers :
        caller[c].result = "ok" /\ caller[c].req \notin Bare => "data" \in given[caller[c].req]

\* An outage is never written to the disk: what the cache newly holds under a key
\* is a body or a 404 the provider really gave for that request, or a file the
\* process died writing.
StoredIsWhatWasGiven ==
    [][\A r \in Requests : \A k \in {OuterKey(r), InnerKey(r)} :
         file'[k] # file[k] =>
            \/ file'[k] \in {"absent", "torn"}
            \/ file'[k] \in given'[r]]_vars

\* A call always ends: neither the pacing nor a lost answer holds it for ever.
CallsEnd == \A c \in Callers : caller[c].pc # "idle" ~> caller[c].pc = "idle"

\* Calls on the wire are at least Pace apart: two coroutines are never let through in the same interval.
CallsAreSpaced ==
    [][\A c \in Callers : caller[c].pc # "sent" /\ caller'[c].pc = "sent"
            => lastCall = 0 \/ now - lastCall >= Pace]_vars

\* The quota is marked only on an answer of the provider, never on a stored one.
MarkIsNews ==
    [][exhaustedUntil' > exhaustedUntil =>
         \E c \in Callers : caller[c].pc = "sent" /\ caller'[c].pc = "idle"]_vars

\* A stored 404 is never served as a success.
StoredMissStaysAMiss ==
    \A c \in Callers : caller[c].result = "ok" => "data" \in given[caller[c].req]

=============================================================================
