------------------------------- MODULE WhatIf -------------------------------
(***************************************************************************)
(* A what-if scenario of the household: apply, restore and accept          *)
(* (houses/web/api_router.py) over the persons node and the                *)
(* whatif_started_at marker, two input nodes whose memory changes in the   *)
(* handler's thread while the processor appends their rows                 *)
(* (dag/user_input_node.py, dag/persistence.py).                           *)
(*                                                                         *)
(* A handler contains no await, so it is one step; the next request may    *)
(* come before the processor has written the rows of the last one.  Time   *)
(* is a counter that every timestamp taken advances.                       *)
(***************************************************************************)
EXTENDS Integers, Sequences, FiniteSets

CONSTANTS
    People,      \* members of the household
    Figures,     \* what a person's settings may be
    Original,    \* the settings stored at first, [People -> Figures]
    Malformed,   \* whether an apply may name an unknown person
    Crashes,     \* whether a restart may lose submitted work
    MaxActs, MaxRestarts   \* bounds

Settings == [People -> Figures]

ASSUME WhatIfAssumption ==
    /\ Original \in Settings
    /\ {Malformed, Crashes} \subseteq BOOLEAN
    /\ MaxActs \in Nat /\ MaxRestarts \in Nat

VARIABLES
    persons,     \* persons_source in memory
    started,     \* whatif_started_at in memory, 0 for the empty marker
    rows,        \* rows of persons: [at |-> created_at, value |-> persons]
    savedStart,  \* the latest row of whatif_started_at
    clock,       \* the latest timestamp taken
    submissions, \* rows the processor has yet to write, oldest first
    story,       \* history: what a restart finds on disk, now and after each submission,
                 \*   and the settings the household considers its own with that
    raced,       \* history: a scenario began while persons were still to be written
    acts, restarts   \* counters for the bounds

bounds == <<acts, restarts>>
vars == <<persons, started, rows, savedStart, clock, submissions, story, raced, bounds>>

Row == [at : Nat, value : Settings]
Submission == [node : {"persons"}, value : Settings]
         \cup [node : {"started"}, mark : Nat]
Point == [persons : Settings, started : Nat, real : Settings]

TypeOK ==
    /\ persons \in Settings /\ started \in Nat
    /\ rows \subseteq Row /\ IsFiniteSet(rows)
    /\ savedStart \in Nat /\ clock \in Nat
    /\ submissions \in Seq(Submission)
    /\ story \in Seq(Point) /\ raced \in BOOLEAN
    /\ acts \in Nat /\ restarts \in Nat

Write(v) == [node |-> "persons", value |-> v]
Mark(t) == [node |-> "started", mark |-> t]

Latest(S) == CHOOSE r \in S : \A q \in S : q.at <= r.at

\* Mutant of Earlier: the row written at the boundary or later counts too.
EarlierOrLater(t) == rows

Earlier(t) == {r \in rows : r.at < t}

\* node_result_before(persons, started)
Before(t) == Latest(Earlier(t)).value

\* The settings the household considers its own.
Own(points) == points[Len(points)].real
real == Own(story)

\* What the household considers its own once a request has submitted those rows, and what a
\* restart would find after each of them.
At(value, mark, own) == [persons |-> value, started |-> mark, real |-> own]

Request(points) ==
    /\ acts < MaxActs /\ acts' = acts + 1
    /\ story' = story \o points
    /\ UNCHANGED restarts

\* A scenario begins: whoever wrote the persons last may not have a row of them yet.
Begins == raced' = (raced \/ \E i \in DOMAIN submissions : submissions[i].node = "persons")

-----------------------------------------------------------------------------
\* _merge_what_if_persons: people who are not mentioned keep their settings.
Merge(updates, current) ==
    [p \in People |-> IF p \in DOMAIN updates THEN updates[p] ELSE current[p]]

Updates == UNION {[S -> Figures] : S \in SUBSET People \ {{}}}

\* patch_person: the settings of one person, from a scenario or not.
PatchPerson(p, f) ==
    LET updated == [persons EXCEPT ![p] = f]
    IN  /\ Request(<<At(updated, started, IF started = 0 THEN updated ELSE real)>>)
        /\ persons' = updated
        /\ submissions' = Append(submissions, Write(updated))
        /\ UNCHANGED <<started, rows, savedStart, clock, raced>>

\* Mutant of Apply: the boundary moves with every scenario.
ApplyRestarts(updates) ==
    LET merged == Merge(updates, persons)
        now == clock + 1
    IN  /\ Request(<<At(persons, now, real), At(merged, now, real)>>)
        /\ Begins
        /\ clock' = now /\ started' = now
        /\ submissions' = submissions \o <<Mark(now), Write(merged)>>
        /\ persons' = merged
        /\ UNCHANGED <<rows, savedStart>>

\* what_if_apply: the marker first, when there is none, then the merged persons.
Apply(updates) ==
    LET merged == Merge(updates, persons)
        now == clock + 1
    IN  /\ \/ /\ started = 0
              /\ Request(<<At(persons, now, real), At(merged, now, real)>>)
              /\ Begins
              /\ clock' = now /\ started' = now
              /\ submissions' = submissions \o <<Mark(now), Write(merged)>>
           \/ /\ started # 0
              /\ Request(<<At(merged, started, real)>>)
              /\ submissions' = Append(submissions, Write(merged))
              /\ UNCHANGED <<clock, started, raced>>
        /\ persons' = merged
        /\ UNCHANGED <<rows, savedStart>>

\* what_if_apply for an unknown person: the merge raises after the marker is set.
ApplyRejected ==
    LET now == clock + 1
    IN  /\ Malformed
        /\ started = 0
        /\ Request(<<At(persons, now, real)>>)
        /\ Begins
        /\ clock' = now /\ started' = now
        /\ submissions' = Append(submissions, Mark(now))
        /\ UNCHANGED <<persons, rows, savedStart>>

\* what_if_restore; 409 when there is no marker or no row before it.
Restore ==
    LET before == Before(started)
    IN  /\ started # 0 /\ Earlier(started) # {}
        /\ Request(<<At(before, started, real), At(before, 0, real)>>)
        /\ persons' = before
        /\ started' = 0
        /\ submissions' = submissions \o <<Write(before), Mark(0)>>
        /\ UNCHANGED <<rows, savedStart, clock, raced>>

\* what_if_accept
Accept ==
    /\ started # 0
    /\ Request(<<At(persons, 0, persons)>>)
    /\ started' = 0
    /\ submissions' = Append(submissions, Mark(0))
    /\ UNCHANGED <<persons, rows, savedStart, clock, raced>>

\* The processor writes the oldest submitted row, stamped now.
WriteRow ==
    /\ submissions # <<>>
    /\ LET s == Head(submissions)
       IN  \/ /\ s.node = "persons"
              /\ clock' = clock + 1
              /\ rows' = rows \cup {[at |-> clock + 1, value |-> s.value]}
              /\ UNCHANGED savedStart
           \/ /\ s.node = "started"
              /\ savedStart' = s.mark
              /\ UNCHANGED <<clock, rows>>
    /\ submissions' = Tail(submissions)
    /\ story' = Tail(story)
    /\ UNCHANGED <<persons, started, raced, bounds>>

\* Mutant of Restart: the server forgets that a scenario is active.
RestartForgets ==
    /\ restarts < MaxRestarts /\ restarts' = restarts + 1
    /\ Crashes \/ submissions = <<>>
    /\ persons' = Latest(rows).value
    /\ started' = 0
    /\ submissions' = <<>>
    /\ story' = <<Head(story)>>
    /\ UNCHANGED <<rows, savedStart, clock, raced, acts>>

\* The server starts again from the latest rows.
Restart ==
    /\ restarts < MaxRestarts /\ restarts' = restarts + 1
    /\ Crashes \/ submissions = <<>>
    /\ persons' = Latest(rows).value
    /\ started' = savedStart
    /\ submissions' = <<>>
    /\ story' = <<Head(story)>>
    /\ UNCHANGED <<rows, savedStart, clock, raced, acts>>

Init ==
    /\ persons = Original /\ started = 0
    /\ rows = {[at |-> 1, value |-> Original]}
    /\ savedStart = 0 /\ clock = 1
    /\ submissions = <<>>
    /\ story = <<At(Original, 0, Original)>> /\ raced = FALSE
    /\ acts = 0 /\ restarts = 0

Next ==
    \/ \E p \in People, f \in Figures : PatchPerson(p, f)
    \/ \E updates \in Updates : Apply(updates)
    \/ ApplyRejected \/ Restore \/ Accept
    \/ WriteRow \/ Restart

Spec == Init /\ [][Next]_vars
-----------------------------------------------------------------------------
(***************************************************************************)
(* Properties                                                              *)
(***************************************************************************)

\* While a scenario is active the row a restore would return to is what the
\* household had before it, through requests that overlap, repeated scenarios, edits
\* inside one, and a crash between any two rows -- unless the scenario, or one before
\* it, began while persons were still to be written: that row is later than the marker.
RestorePoint ==
    raced \/ (started # 0 => Earlier(started) # {} /\ Before(started) = real)

\* Without a scenario the settings are the household's own: what a restore or an
\* accept left, and no scenario figure that outlived its marker in a crash -- with
\* the same exception.
RealWhenInactive == raced \/ (started = 0 => persons = real)

\* "Restore ... puts the exact original values back" and "restore returns the
\* exact original numbers" (docs/usability-requirements.md, B7) -- with the same exception.
RestoreIsExact == [][Restore => raced \/ persons' = real]_vars

\* "Whether what-if numbers are currently live (the started-at marker is set)":
\* a marker that a rejected request left behind stands for no scenario.
ActiveMeansApplied ==
    started # 0 /\ submissions = <<>> => \E r \in rows : r.at > started
=============================================================================
