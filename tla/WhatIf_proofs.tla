---------------------------- MODULE WhatIf_proofs ----------------------------
(***************************************************************************)
(* Proofs about WhatIf, for any household, any settings and any number of  *)
(* requests and restarts: whether or not requests overlap, whether or not  *)
(* one may name an unknown person, and whether or not a restart may lose   *)
(* what was submitted.                                                     *)
(***************************************************************************)
EXTENDS WhatIf, FiniteSetTheorems, TLAPS

-----------------------------------------------------------------------------
(***************************************************************************)
(* The inductive invariant.                                                *)
(***************************************************************************)

\* No row and no marker is newer than the clock, and what a restart or a restore may read
\* is a household.
TimesOK ==
    /\ rows # {} /\ \A q \in rows : q.at <= clock
    /\ savedStart <= clock /\ \A i \in 1..Len(story) : story[i].started <= clock
    /\ Latest(rows).value \in Settings
    /\ \A t \in 0..clock : Earlier(t) # {} => Before(t) \in Settings

\* A submission takes the disk from one point of the story to the next.
Follows(a, s, b) ==
    \/ s = Write(b.persons) /\ b.started = a.started
    \/ s = Mark(b.started) /\ b.persons = a.persons

\* The story has one point more than there are submissions, and the persons of a point are
\* those of the last one unless others are still to be written.
Tells(subs, points) ==
    /\ subs \in Seq(Submission) /\ points \in Seq(Point) /\ Len(points) = Len(subs) + 1
    /\ \A i \in 1..Len(subs) : Follows(points[i], subs[i], points[i + 1])
    /\ \A k \in 1..Len(points) :
         \/ points[k].persons = points[Len(points)].persons
         \/ \E j \in 1..Len(subs) : j >= k /\ subs[j].node = "persons"

\* The story begins with what is on disk and ends with what is in memory.
OnDisk == story[1].persons = Latest(rows).value /\ story[1].started = savedStart
InMemory == story[Len(story)].persons = persons /\ story[Len(story)].started = started

\* At each point a restart finds what the household counts as its own, or the marker of a
\* scenario and before it the rows to restore that from.
PointOK(p) ==
    IF p.started = 0 THEN p.persons = p.real
    ELSE Earlier(p.started) # {} /\ Before(p.started) = p.real
Sound == \A i \in 1..Len(story) : PointOK(story[i])

IInv ==
    /\ TypeOK /\ TimesOK
    /\ Tells(submissions, story) /\ OnDisk /\ InMemory
    /\ raced \/ Sound

-----------------------------------------------------------------------------
(***************************************************************************)
(* Rows.                                                                   *)
(***************************************************************************)

\* The row stamped last is the latest one.
LEMMA LatestIsNew ==
    ASSUME NEW S, NEW t \in Int, \A q \in S : q.at \in Int /\ q.at < t, NEW new, new.at = t
    PROVE  Latest(S \cup {new}) = new
<1>1. \A q \in S \cup {new} : q.at <= new.at  OBVIOUS
<1>2. \A r \in S \cup {new} : (\A q \in S \cup {new} : q.at <= r.at) => r = new  OBVIOUS
<1>. QED  BY <1>1, <1>2 DEF Latest

\* A row stamped now is none of those before an older marker.
LEMMA EarlierStays ==
    ASSUME TypeOK, NEW t \in Nat, t <= clock, NEW new, new.at = clock + 1, rows' = rows \cup {new}
    PROVE  Earlier(t)' = Earlier(t)
BY DEF TypeOK, Row, Earlier

\* All rows there are lie before a marker set now.
LEMMA AllAreEarlier ==
    ASSUME TypeOK, TimesOK
    PROVE  clock + 1 \in Nat /\ clock + 1 # 0 /\ Earlier(clock + 1) = rows /\ Before(clock + 1) = Latest(rows).value
<1>1. clock \in Nat /\ \A q \in rows : q.at \in Nat /\ q.at <= clock  BY DEF TypeOK, TimesOK, Row
<1>2. Earlier(clock + 1) = rows  BY <1>1 DEF Earlier
<1>. QED  BY <1>1, <1>2 DEF Before

LEMMA Typing ==
    /\ \A v \in Settings : Write(v) \in Submission /\ Write(v).node = "persons" /\ Write(v).value = v
    /\ \A t \in Nat : Mark(t) \in Submission /\ Mark(t).node = "started" /\ Mark(t).mark = t
    /\ \A v \in Settings, t \in Nat, o \in Settings :
         /\ At(v, t, o) \in Point
         /\ At(v, t, o).persons = v /\ At(v, t, o).started = t /\ At(v, t, o).real = o
BY DEF Submission, Write, Mark, Point, At

LEMMA MergeTyping ==
    ASSUME NEW updates \in Updates, NEW current \in Settings
    PROVE  Merge(updates, current) \in Settings
BY DEF Updates, Merge, Settings

-----------------------------------------------------------------------------
(***************************************************************************)
(* The story.                                                              *)
(***************************************************************************)
LEMMA Appended ==
    ASSUME NEW S, NEW s \in Seq(S), NEW e \in S
    PROVE  /\ Append(s, e) \in Seq(S) /\ Len(Append(s, e)) = Len(s) + 1
           /\ \A i \in 1..Len(s) : Append(s, e)[i] = s[i]
           /\ Append(s, e)[Len(s) + 1] = e
           /\ s \o <<e>> = Append(s, e)
OBVIOUS

LEMMA AppendedTwice ==
    ASSUME NEW S, NEW s \in Seq(S), NEW a \in S, NEW b \in S
    PROVE  s \o <<a, b>> = Append(Append(s, a), b)
OBVIOUS

LEMMA Dropped ==
    ASSUME NEW S, NEW s \in Seq(S), s # << >>
    PROVE  /\ Tail(s) \in Seq(S) /\ Len(Tail(s)) = Len(s) - 1 /\ Len(s) \in Nat \ {0}
           /\ \A i \in 1..Len(s) - 1 : Tail(s)[i] = s[i + 1]
           /\ Head(s) = s[1] /\ s[1] \in S
OBVIOUS

LEMMA TellsMore ==
    ASSUME NEW subs, NEW points, Tells(subs, points), NEW s \in Submission, NEW p \in Point,
           Follows(points[Len(points)], s, p)
    PROVE  /\ Tells(Append(subs, s), Append(points, p))
           /\ Append(points, p)[Len(Append(points, p))] = p /\ Append(points, p)[1] = points[1]
<1>. DEFINE subs1 == Append(subs, s)
            points1 == Append(points, p)
            n == Len(subs)
<1>1. subs \in Seq(Submission) /\ points \in Seq(Point) /\ n \in Nat /\ Len(points) = n + 1  BY DEF Tells
<1>2. /\ subs1 \in Seq(Submission) /\ Len(subs1) = n + 1
      /\ \A i \in 1..n : subs1[i] = subs[i]
      /\ subs1[n + 1] = s
  BY <1>1, Appended
<1>3. /\ points1 \in Seq(Point) /\ Len(points1) = n + 2
      /\ \A i \in 1..n + 1 : points1[i] = points[i]
      /\ points1[n + 2] = p
  <2>1. /\ points1 \in Seq(Point) /\ Len(points1) = Len(points) + 1
        /\ \A i \in 1..Len(points) : points1[i] = points[i]
        /\ points1[Len(points) + 1] = p
    BY <1>1, Appended
  <2>. QED  BY <1>1, <2>1
<1>. HIDE DEF subs1, points1, n
<1>4. ASSUME NEW i \in 1..n + 1 PROVE Follows(points1[i], subs1[i], points1[i + 1])
  <2>1. CASE i \in 1..n  BY <1>1, <1>2, <1>3, <2>1 DEF Tells, n
  <2>2. CASE i = n + 1  BY <1>1, <1>2, <1>3, <2>2
  <2>. QED  BY <1>1, <2>1, <2>2
<1>5. ASSUME NEW k \in 1..n + 2
      PROVE  \/ points1[k].persons = points1[n + 2].persons
             \/ \E j \in 1..n + 1 : j >= k /\ subs1[j].node = "persons"
  <2>1. CASE k = n + 2  BY <2>1
  <2>2. CASE k \in 1..n + 1 /\ s.node = "persons"  BY <1>1, <1>2, <2>2
  <2>3. CASE k \in 1..n + 1 /\ s.node # "persons"
    <3>1. p.persons = points[n + 1].persons  BY <1>1, <2>3 DEF Follows, Write
    <3>2. CASE points[k].persons = points[n + 1].persons  BY <1>1, <1>3, <2>3, <3>1, <3>2
    <3>3. CASE points[k].persons # points[n + 1].persons
      <4>1. PICK j \in 1..n : j >= k /\ subs[j].node = "persons"  BY <1>1, <2>3, <3>3 DEF Tells, n
      <4>2. j \in 1..n + 1 /\ subs1[j].node = "persons"  BY <1>1, <1>2, <4>1
      <4>. QED  BY <4>1, <4>2
    <3>. QED  BY <3>2, <3>3
  <2>. QED  BY <1>1, <2>1, <2>2, <2>3
<1>6. Tells(subs1, points1)  BY <1>1, <1>2, <1>3, <1>4, <1>5 DEF Tells
<1>7. points1[Len(points1)] = p /\ points1[1] = points[1]  BY <1>1, <1>3
<1>. QED  BY <1>6, <1>7 DEF subs1, points1

LEMMA TellsLess ==
    ASSUME NEW subs, NEW points, Tells(subs, points), subs # << >>
    PROVE  /\ Tells(Tail(subs), Tail(points))
           /\ Len(points) > 1 /\ Len(Tail(points)) = Len(points) - 1
           /\ \A i \in 1..Len(points) - 1 : Tail(points)[i] = points[i + 1]
           /\ Follows(points[1], Head(subs), points[2])
<1>. DEFINE subs1 == Tail(subs)
            points1 == Tail(points)
            n == Len(subs)
<1>1. subs \in Seq(Submission) /\ points \in Seq(Point) /\ Len(points) = n + 1  BY DEF Tells
<1>2. /\ subs1 \in Seq(Submission) /\ Len(subs1) = n - 1 /\ n \in Nat \ {0}
      /\ \A i \in 1..n - 1 : subs1[i] = subs[i + 1]
      /\ Head(subs) = subs[1]
  BY <1>1, Dropped
<1>3. /\ points1 \in Seq(Point) /\ Len(points1) = n
      /\ \A i \in 1..n : points1[i] = points[i + 1]
  <2>1. points # << >>  BY <1>1, <1>2
  <2>2. /\ points1 \in Seq(Point) /\ Len(points1) = Len(points) - 1
        /\ \A i \in 1..Len(points) - 1 : points1[i] = points[i + 1]
    BY <1>1, <2>1, Dropped
  <2>. QED  BY <1>1, <1>2, <2>2
<1>. HIDE DEF subs1, points1, n
<1>4. ASSUME NEW i \in 1..n - 1 PROVE Follows(points1[i], subs1[i], points1[i + 1])
  <2>1. i + 1 \in 1..n /\ i \in 1..n  BY <1>2
  <2>2. Follows(points[i + 1], subs[i + 1], points[i + 1 + 1])  BY <1>1, <2>1 DEF Tells, n
  <2>3. points1[i] = points[i + 1] /\ subs1[i] = subs[i + 1] /\ points1[i + 1] = points[i + 1 + 1]
    BY <1>2, <1>3, <2>1
  <2>. QED  BY <2>2, <2>3
<1>5. ASSUME NEW k \in 1..n
      PROVE  \/ points1[k].persons = points1[n].persons
             \/ \E j \in 1..n - 1 : j >= k /\ subs1[j].node = "persons"
  <2>1. points1[k] = points[k + 1] /\ points1[n] = points[n + 1]  BY <1>2, <1>3
  <2>2. CASE points[k + 1].persons = points[n + 1].persons  BY <2>1, <2>2
  <2>3. CASE points[k + 1].persons # points[n + 1].persons
    <3>1. PICK j \in 1..n : j >= k + 1 /\ subs[j].node = "persons"  BY <1>1, <1>2, <2>3 DEF Tells, n
    <3>2. j - 1 \in 1..n - 1 /\ j - 1 >= k /\ subs1[j - 1] = subs[j]  BY <1>2, <3>1
    <3>. QED  BY <3>1, <3>2
  <2>. QED  BY <2>2, <2>3
<1>6. Tells(subs1, points1)  BY <1>1, <1>2, <1>3, <1>4, <1>5 DEF Tells
<1>7. Follows(points[1], Head(subs), points[2])  BY <1>1, <1>2 DEF Tells, n
<1>8. Len(points) > 1 /\ Len(points1) = Len(points) - 1
      /\ \A i \in 1..Len(points) - 1 : points1[i] = points[i + 1]
  BY <1>1, <1>2, <1>3
<1>. QED  BY <1>6, <1>7, <1>8 DEF subs1, points1

LEMMA StoryTyping ==
    ASSUME IInv
    PROVE  /\ Len(story) \in Nat /\ Len(story) \in 1..Len(story) /\ clock \in Nat
           /\ \A i \in 1..Len(story) : story[i] \in Point /\ story[i].started \in 0..clock
<1>1. story \in Seq(Point) /\ Len(story) \in Nat /\ Len(story) \in 1..Len(story) /\ clock \in Nat
  BY DEF IInv, TypeOK, Tells
<1>2. ASSUME NEW i \in 1..Len(story) PROVE story[i] \in Point /\ story[i].started \in 0..clock
  <2>1. story[i] \in Point  BY <1>1
  <2>2. story[i].started \in Nat  BY <2>1 DEF Point
  <2>3. story[i].started <= clock  BY DEF IInv, TimesOK
  <2>. QED  BY <1>1, <2>1, <2>2, <2>3
<1>. QED  BY <1>1, <1>2

\* What was written last is in memory, unless others are still to be written.
LEMMA NothingLeft ==
    ASSUME IInv, \A i \in DOMAIN submissions : submissions[i].node # "persons"
    PROVE  persons = Latest(rows).value
<1>1. Len(story) \in Nat /\ 1 \in 1..Len(story)  BY DEF IInv, Tells
<1>2. story[1].persons = story[Len(story)].persons  BY <1>1 DEF IInv, Tells
<1>. QED  BY <1>2 DEF IInv, OnDisk, InMemory

\* A request adds a point to the story.
LEMMA Submitted ==
    ASSUME IInv, NEW s \in Submission, NEW p \in Point, Follows(story[Len(story)], s, p),
           submissions' = Append(submissions, s), story' = story \o <<p>>,
           persons' = p.persons, started' = p.started, UNCHANGED <<rows, savedStart>>,
           clock' \in Nat, clock <= clock', p.started <= clock'
    PROVE  /\ Tells(submissions', story') /\ OnDisk' /\ InMemory'
           /\ \A i \in 1..Len(story') : story'[i].started <= clock'
           /\ Sound /\ PointOK(p) => Sound'
<1>1. story' = Append(story, p) /\ story \in Seq(Point) /\ clock \in Nat  BY Appended DEF IInv, TypeOK
<1>2. /\ Tells(submissions', story')
      /\ story'[Len(story')] = p /\ story'[1] = story[1]
  <2>1. Tells(submissions, story)  BY DEF IInv
  <2>2. /\ Tells(Append(submissions, s), Append(story, p))
        /\ Append(story, p)[Len(Append(story, p))] = p /\ Append(story, p)[1] = story[1]
    BY <2>1, TellsMore
  <2>. QED  BY <1>1, <2>2
<1>3. OnDisk' /\ InMemory'  BY <1>2 DEF IInv, OnDisk, InMemory, Latest
<1>4. \A i \in 1..Len(story') : story'[i] = p \/ \E k \in 1..Len(story) : story'[i] = story[k]
  <2>1. Len(story') = Len(story) + 1 /\ \A i \in 1..Len(story) : story'[i] = story[i]
    BY <1>1, Appended
  <2>2. Len(story) \in Nat  BY <1>1
  <2>. QED  BY <1>2, <2>1, <2>2
<1>5. \A i \in 1..Len(story) : story[i].started \in Nat /\ story[i].started <= clock
  BY <1>1, StoryTyping
<1>6. \A i \in 1..Len(story') : story'[i].started <= clock'  BY <1>1, <1>4, <1>5
<1>7. Sound /\ PointOK(p) => Sound'
  <2>1. \A q : PointOK(q)' <=> PointOK(q)  BY DEF PointOK, Earlier, Before
  <2>2. SUFFICES ASSUME Sound, PointOK(p), NEW i \in 1..Len(story') PROVE PointOK(story'[i])
    BY DEF Sound, PointOK, Earlier, Before
  <2>. QED  BY <1>4, <2>2 DEF Sound
<1>. QED  BY <1>2, <1>3, <1>6, <1>7

\* ... or two.
LEMMA SubmittedTwice ==
    ASSUME IInv, NEW s \in Submission, NEW p \in Point, Follows(story[Len(story)], s, p),
           NEW t \in Submission, NEW q \in Point, Follows(p, t, q),
           submissions' = submissions \o <<s, t>>, story' = story \o <<p, q>>,
           persons' = q.persons, started' = q.started, UNCHANGED <<rows, savedStart>>,
           clock' \in Nat, clock <= clock', p.started <= clock', q.started <= clock'
    PROVE  /\ Tells(submissions', story') /\ OnDisk' /\ InMemory'
           /\ \A i \in 1..Len(story') : story'[i].started <= clock'
           /\ Sound /\ PointOK(p) /\ PointOK(q) => Sound'
<1>. DEFINE subs1 == Append(submissions, s)
            points1 == Append(story, p)
<1>1. /\ submissions' = Append(subs1, t) /\ story' = Append(points1, q)
      /\ story \in Seq(Point) /\ clock \in Nat
  <2>1. submissions \in Seq(Submission) /\ story \in Seq(Point) /\ clock \in Nat  BY DEF IInv, TypeOK
  <2>2. submissions \o <<s, t>> = Append(subs1, t)  BY <2>1, AppendedTwice
  <2>3. story \o <<p, q>> = Append(points1, q)  BY <2>1, AppendedTwice
  <2>. QED  BY <2>1, <2>2, <2>3
<1>2. Tells(subs1, points1) /\ points1[Len(points1)] = p /\ points1[1] = story[1]
  <2>1. Tells(submissions, story)  BY DEF IInv
  <2>. QED  BY <2>1, TellsMore
<1>3. /\ points1 \in Seq(Point) /\ Len(points1) = Len(story) + 1
      /\ \A i \in 1..Len(story) : points1[i] = story[i]
  BY <1>1, Appended
<1>. HIDE DEF subs1, points1
<1>4. /\ Tells(submissions', story')
      /\ story'[Len(story')] = q /\ story'[1] = story[1]
  <2>1. Follows(points1[Len(points1)], t, q)  BY <1>2
  <2>2. /\ Tells(Append(subs1, t), Append(points1, q))
        /\ Append(points1, q)[Len(Append(points1, q))] = q /\ Append(points1, q)[1] = points1[1]
    BY <1>2, <2>1, TellsMore
  <2>. QED  BY <1>1, <1>2, <2>2
<1>5. OnDisk' /\ InMemory'  BY <1>4 DEF IInv, OnDisk, InMemory, Latest
<1>6. \A i \in 1..Len(story') : story'[i] \in {p, q} \/ \E k \in 1..Len(story) : story'[i] = story[k]
  <2>1. Len(story') = Len(points1) + 1 /\ \A i \in 1..Len(points1) : story'[i] = points1[i]
    BY <1>1, <1>3, Appended
  <2>2. Len(story) \in Nat  BY <1>1
  <2>3. ASSUME NEW i \in 1..Len(story') PROVE story'[i] \in {p, q} \/ \E k \in 1..Len(story) : story'[i] = story[k]
    <3>1. CASE i = Len(story')  BY <1>4, <3>1
    <3>2. CASE i = Len(points1)  BY <1>2, <1>3, <2>1, <2>2, <3>2
    <3>3. CASE i \in 1..Len(story)
      <4>1. i \in 1..Len(points1)  BY <1>3, <2>2, <3>3
      <4>2. story'[i] = points1[i] /\ points1[i] = story[i]  BY <1>3, <2>1, <3>3, <4>1
      <4>. QED  BY <3>3, <4>2
    <3>. QED  BY <1>3, <2>1, <2>2, <3>1, <3>2, <3>3
  <2>. QED  BY <2>3
<1>7. \A i \in 1..Len(story) : story[i].started \in Nat /\ story[i].started <= clock
  BY <1>1, StoryTyping
<1>8. \A i \in 1..Len(story') : story'[i].started <= clock'  BY <1>1, <1>6, <1>7
<1>9. Sound /\ PointOK(p) /\ PointOK(q) => Sound'
  <2>1. SUFFICES ASSUME Sound, PointOK(p), PointOK(q), NEW i \in 1..Len(story') PROVE PointOK(story'[i])
    BY DEF Sound, PointOK, Earlier, Before
  <2>. QED  BY <1>6, <2>1 DEF Sound
<1>. QED  BY <1>4, <1>5, <1>8, <1>9

\* The last point of the story is what memory holds.
LEMMA Today ==
    ASSUME IInv
    PROVE  /\ story[Len(story)].persons = persons /\ story[Len(story)].started = started
           /\ story[Len(story)].real = real /\ real \in Settings
           /\ Sound => PointOK(story[Len(story)])
<1>1. story \in Seq(Point) /\ Len(story) \in Nat /\ Len(story) \in 1..Len(story)  BY DEF IInv, Tells
<1>2. story[Len(story)] \in Point  BY <1>1
<1>. QED  BY <1>1, <1>2 DEF IInv, InMemory, real, Own, Sound, Point

-----------------------------------------------------------------------------
(***************************************************************************)
(* The requests.                                                           *)
(***************************************************************************)

\* A request that sets no marker leaves the times as they are.
LEMMA TimesStay ==
    ASSUME IInv, UNCHANGED <<rows, savedStart, clock>>, \A i \in 1..Len(story') : story'[i].started <= clock'
    PROVE  TimesOK'
BY DEF IInv, TimesOK, Earlier, Before, Latest

LEMMA MoreIsSeq ==
    ASSUME Tells(submissions', story')
    PROVE  submissions' \in Seq(Submission) /\ story' \in Seq(Point)
BY DEF Tells

LEMMA PatchPersonOK ==
    ASSUME IInv, NEW p \in People, NEW f \in Figures, PatchPerson(p, f)
    PROVE  IInv'
<1>. DEFINE own(u) == IF started = 0 THEN u ELSE real
<1>1. PICK updated \in Settings :
        /\ persons' = updated /\ submissions' = Append(submissions, Write(updated))
        /\ story' = story \o <<At(updated, started, own(updated))>>
  BY DEF PatchPerson, Request, IInv, TypeOK, Settings
<1>2. UNCHANGED <<started, rows, savedStart, clock, raced, restarts>> /\ acts' = acts + 1
  BY DEF PatchPerson, Request
<1>3. started \in Nat /\ clock \in Nat /\ real \in Settings /\ acts \in Nat /\ started <= clock
  <2>1. Len(story) \in Nat /\ Len(story) \in 1..Len(story)  BY DEF IInv, Tells
  <2>. QED  BY <2>1, Today DEF IInv, TypeOK, TimesOK, InMemory
<1>. DEFINE pt == At(updated, started, own(updated))
<1>4. pt \in Point /\ pt.persons = updated /\ pt.started = started /\ pt.real = own(updated)
  <2>1. own(updated) \in Settings  BY <1>1, <1>3
  <2>. HIDE DEF own
  <2>2. LET a == At(updated, started, own(updated))
        IN  a \in Point /\ a.persons = updated /\ a.started = started /\ a.real = own(updated)
    BY <1>1, <1>3, <2>1, Typing
  <2>. QED  BY <2>2 DEF pt
<1>5. Write(updated) \in Submission  BY <1>1, Typing
<1>6. Follows(story[Len(story)], Write(updated), pt)  BY <1>4, Today DEF Follows
<1>7. Sound => PointOK(pt)
  BY <1>4, Today DEF PointOK
<1>. HIDE DEF pt
<1>8. story' = story \o <<pt>>  BY <1>1 DEF pt
<1>9. /\ Tells(submissions', story') /\ OnDisk' /\ InMemory'
      /\ \A i \in 1..Len(story') : story'[i].started <= clock'
      /\ Sound /\ PointOK(pt) => Sound'
  BY <1>1, <1>2, <1>3, <1>4, <1>5, <1>6, <1>8, Submitted
<1>10. TimesOK'  BY <1>2, <1>9, TimesStay
<1>11. TypeOK'  BY <1>1, <1>2, <1>3, <1>9, MoreIsSeq DEF IInv, TypeOK
<1>. QED  BY <1>2, <1>7, <1>9, <1>10, <1>11 DEF IInv

\* A marker set now.
LEMMA MarkedNow ==
    ASSUME IInv, clock' = clock + 1, UNCHANGED <<rows, savedStart>>,
           \A i \in 1..Len(story') : story'[i].started <= clock'
    PROVE  TimesOK'
<1>1. clock \in Nat /\ savedStart \in Nat  BY DEF IInv, TypeOK
<1>2. Earlier(clock + 1) = rows /\ Before(clock + 1) = Latest(rows).value  BY AllAreEarlier DEF IInv
<1>3. rows \subseteq Row  BY DEF IInv, TypeOK
<1>4. \A q \in rows : q.at <= clock'  BY <1>1, <1>3 DEF IInv, TimesOK, Row
<1>5. ASSUME NEW t \in 0..clock', Earlier(t) # {} PROVE Before(t) \in Settings
  <2>1. CASE t = clock + 1  BY <1>2, <2>1 DEF IInv, TimesOK
  <2>2. CASE t \in 0..clock  BY <1>5, <2>2 DEF IInv, TimesOK
  <2>. QED  BY <1>1, <2>1, <2>2
<1>6. Latest(rows').value \in Settings /\ rows' # {} /\ savedStart' <= clock'
  BY <1>1 DEF IInv, TimesOK
<1>7. \A t \in 0..clock' : Earlier(t)' # {} => Before(t)' \in Settings  BY <1>5 DEF Earlier, Before
<1>. QED  BY <1>4, <1>6, <1>7 DEF TimesOK

\* Unless persons are still to be written, what lies before a marker set now is the household's own.
LEMMA BegunOK ==
    ASSUME IInv, started = 0, Begins, ~raced', NEW p, p.started = clock + 1, p.real = real
    PROVE  Sound /\ PointOK(p)
<1>1. ~raced /\ \A i \in DOMAIN submissions : submissions[i].node # "persons"  BY DEF Begins, IInv, TypeOK
<1>2. persons = Latest(rows).value /\ Sound  BY <1>1, NothingLeft DEF IInv
<1>3. persons = real  BY <1>2, Today DEF PointOK
<1>4. /\ clock + 1 # 0 /\ Earlier(clock + 1) = rows /\ Before(clock + 1) = Latest(rows).value /\ rows # {}
  BY AllAreEarlier DEF IInv, TimesOK
<1>. QED  BY <1>2, <1>3, <1>4 DEF PointOK

LEMMA ApplyOK ==
    ASSUME IInv, NEW updates \in Updates, Apply(updates)
    PROVE  IInv'
<1>. DEFINE merged == Merge(updates, persons)
            now == clock + 1
<1>1. /\ merged \in Settings /\ persons \in Settings /\ started \in Nat /\ clock \in Nat /\ acts \in Nat
      /\ real \in Settings
  BY MergeTyping, Today DEF IInv, TypeOK
<1>2. persons' = merged /\ UNCHANGED <<rows, savedStart>>  BY DEF Apply
<1>3. Write(merged) \in Submission  BY <1>1, Typing
<1>. HIDE DEF merged
<1>4. CASE started = 0
  <2>1. /\ story' = story \o <<At(persons, now, real), At(merged, now, real)>>
        /\ Begins /\ clock' = now /\ started' = now
        /\ submissions' = submissions \o <<Mark(now), Write(merged)>>
        /\ acts' = acts + 1 /\ restarts' = restarts
    BY <1>4 DEF Apply, Request, merged
  <2>. DEFINE p == At(persons, now, real)
              q == At(merged, now, real)
  <2>2. now \in Nat /\ Mark(now) \in Submission  BY <1>1, Typing
  <2>3. /\ p \in Point /\ p.persons = persons /\ p.started = now /\ p.real = real
        /\ q \in Point /\ q.persons = merged /\ q.started = now /\ q.real = real
    BY <1>1, <2>2, Typing
  <2>4. Follows(story[Len(story)], Mark(now), p) /\ Follows(p, Write(merged), q)
    BY <2>3, Today DEF Follows
  <2>. HIDE DEF p, q
  <2>5. story' = story \o <<p, q>>  BY <2>1 DEF p, q
  <2>6. persons' = q.persons /\ started' = q.started
        /\ clock' \in Nat /\ clock <= clock' /\ p.started <= clock' /\ q.started <= clock'
    BY <1>1, <1>2, <2>1, <2>3
  <2>7. /\ Tells(submissions', story') /\ OnDisk' /\ InMemory'
        /\ \A i \in 1..Len(story') : story'[i].started <= clock'
        /\ Sound /\ PointOK(p) /\ PointOK(q) => Sound'
    BY <1>2, <1>3, <2>1, <2>2, <2>3, <2>4, <2>5, <2>6, SubmittedTwice
  <2>8. TimesOK'  BY <1>2, <2>1, <2>7, MarkedNow
  <2>9. raced' \in BOOLEAN  BY <2>1 DEF Begins, IInv, TypeOK
  <2>10. TypeOK'  BY <1>1, <1>2, <2>1, <2>2, <2>7, <2>9, MoreIsSeq DEF IInv, TypeOK
  <2>11. ~raced' => Sound /\ PointOK(p) /\ PointOK(q)  BY <1>4, <2>1, <2>3, BegunOK
  <2>. QED  BY <2>7, <2>8, <2>10, <2>11 DEF IInv
<1>5. CASE started # 0
  <2>1. /\ story' = story \o <<At(merged, started, real)>>
        /\ submissions' = Append(submissions, Write(merged))
        /\ acts' = acts + 1 /\ UNCHANGED <<clock, started, raced, restarts>>
    BY <1>5 DEF Apply, Request, merged
  <2>. DEFINE p == At(merged, started, real)
  <2>2. p \in Point /\ p.persons = merged /\ p.started = started /\ p.real = real  BY <1>1, Typing
  <2>3. Follows(story[Len(story)], Write(merged), p)  BY <2>2, Today DEF Follows
  <2>4. Sound => PointOK(p)  BY <1>5, <2>2, Today DEF PointOK
  <2>. HIDE DEF p
  <2>5. story' = story \o <<p>>  BY <2>1 DEF p
  <2>6. started <= clock
    <3>1. Len(story) \in Nat /\ Len(story) \in 1..Len(story)  BY DEF IInv, Tells
    <3>. QED  BY <3>1 DEF IInv, TimesOK, InMemory
  <2>7. /\ Tells(submissions', story') /\ OnDisk' /\ InMemory'
        /\ \A i \in 1..Len(story') : story'[i].started <= clock'
        /\ Sound /\ PointOK(p) => Sound'
    <3>1. /\ persons' = p.persons /\ started' = p.started /\ clock' \in Nat /\ clock <= clock'
          /\ p.started <= clock'
      BY <1>1, <1>2, <2>1, <2>2, <2>6
    <3>. QED  BY <1>2, <1>3, <2>1, <2>2, <2>3, <2>5, <3>1, Submitted
  <2>8. TimesOK'  BY <1>2, <2>1, <2>7, TimesStay
  <2>9. TypeOK'  BY <1>1, <1>2, <2>1, <2>7, MoreIsSeq DEF IInv, TypeOK
  <2>. QED  BY <2>1, <2>4, <2>7, <2>8, <2>9 DEF IInv
<1>. QED  BY <1>4, <1>5

LEMMA ApplyRejectedOK ==
    ASSUME IInv, ApplyRejected
    PROVE  IInv'
<1>. DEFINE now == clock + 1
            p == At(persons, now, real)
<1>1. persons \in Settings /\ started \in Nat /\ clock \in Nat /\ acts \in Nat /\ real \in Settings
  BY Today DEF IInv, TypeOK
<1>2. /\ started = 0 /\ story' = story \o <<p>> /\ Begins
      /\ clock' = now /\ started' = now
      /\ submissions' = Append(submissions, Mark(now))
      /\ acts' = acts + 1 /\ UNCHANGED <<persons, rows, savedStart, restarts>>
  BY DEF ApplyRejected, Request
<1>3. now \in Nat /\ Mark(now) \in Submission  BY <1>1, Typing
<1>4. p \in Point /\ p.persons = persons /\ p.started = now /\ p.real = real  BY <1>1, <1>3, Typing
<1>5. Follows(story[Len(story)], Mark(now), p)  BY <1>4, Today DEF Follows
<1>. HIDE DEF p
<1>6. persons' = p.persons /\ started' = p.started /\ clock' \in Nat /\ clock <= clock' /\ p.started <= clock'
  BY <1>1, <1>2, <1>4
<1>7. /\ Tells(submissions', story') /\ OnDisk' /\ InMemory'
      /\ \A i \in 1..Len(story') : story'[i].started <= clock'
      /\ Sound /\ PointOK(p) => Sound'
  BY <1>2, <1>3, <1>4, <1>5, <1>6, Submitted
<1>8. TimesOK'  BY <1>2, <1>7, MarkedNow
<1>9. raced' \in BOOLEAN  BY <1>2 DEF Begins, IInv, TypeOK
<1>10. TypeOK'  BY <1>1, <1>2, <1>3, <1>7, <1>9, MoreIsSeq DEF IInv, TypeOK
<1>11. ~raced' => Sound /\ PointOK(p)  BY <1>2, <1>4, BegunOK
<1>. QED  BY <1>7, <1>8, <1>10, <1>11 DEF IInv

LEMMA RestoreOK ==
    ASSUME IInv, Restore
    PROVE  IInv'
<1>. DEFINE before == Before(started)
            p == At(before, started, real)
            q == At(before, 0, real)
<1>1. persons \in Settings /\ started \in Nat /\ clock \in Nat /\ acts \in Nat /\ real \in Settings
  BY Today DEF IInv, TypeOK
<1>2. /\ started # 0 /\ Earlier(started) # {} /\ story' = story \o <<p, q>>
      /\ persons' = before /\ started' = 0
      /\ submissions' = submissions \o <<Write(before), Mark(0)>>
      /\ acts' = acts + 1 /\ UNCHANGED <<rows, savedStart, clock, raced, restarts>>
  BY DEF Restore, Request
<1>3. started \in 0..clock
  <2>1. Len(story) \in Nat /\ Len(story) \in 1..Len(story)  BY DEF IInv, Tells
  <2>. QED  BY <1>1, <2>1 DEF IInv, TimesOK, InMemory
<1>4. before \in Settings  BY <1>2, <1>3 DEF IInv, TimesOK
<1>5. Sound => before = real  BY <1>2, Today DEF PointOK
<1>. HIDE DEF before
<1>6. Write(before) \in Submission /\ Mark(0) \in Submission  BY <1>4, Typing
<1>7. /\ p \in Point /\ p.persons = before /\ p.started = started /\ p.real = real
      /\ q \in Point /\ q.persons = before /\ q.started = 0 /\ q.real = real
  BY <1>1, <1>4, Typing
<1>8. Follows(story[Len(story)], Write(before), p) /\ Follows(p, Mark(0), q)
  BY <1>7, Today DEF Follows
<1>9. Sound => PointOK(p) /\ PointOK(q)
  BY <1>2, <1>5, <1>7 DEF PointOK, before
<1>. HIDE DEF p, q
<1>10. persons' = q.persons /\ started' = q.started
       /\ clock' \in Nat /\ clock <= clock' /\ p.started <= clock' /\ q.started <= clock'
  BY <1>1, <1>2, <1>3, <1>7
<1>11. /\ Tells(submissions', story') /\ OnDisk' /\ InMemory'
       /\ \A i \in 1..Len(story') : story'[i].started <= clock'
       /\ Sound /\ PointOK(p) /\ PointOK(q) => Sound'
  BY <1>2, <1>6, <1>7, <1>8, <1>10, SubmittedTwice
<1>12. TimesOK'  BY <1>2, <1>11, TimesStay
<1>13. TypeOK'  BY <1>1, <1>2, <1>4, <1>11, MoreIsSeq DEF IInv, TypeOK
<1>. QED  BY <1>2, <1>9, <1>11, <1>12, <1>13 DEF IInv

LEMMA AcceptOK ==
    ASSUME IInv, Accept
    PROVE  IInv'
<1>. DEFINE p == At(persons, 0, persons)
<1>1. persons \in Settings /\ clock \in Nat /\ acts \in Nat  BY DEF IInv, TypeOK
<1>2. /\ story' = story \o <<p>> /\ started' = 0
      /\ submissions' = Append(submissions, Mark(0))
      /\ acts' = acts + 1 /\ UNCHANGED <<persons, rows, savedStart, clock, raced, restarts>>
  BY DEF Accept, Request
<1>3. Mark(0) \in Submission  BY Typing
<1>4. p \in Point /\ p.persons = persons /\ p.started = 0 /\ p.real = persons  BY <1>1, Typing
<1>5. Follows(story[Len(story)], Mark(0), p) /\ PointOK(p)  BY <1>4, Today DEF Follows, PointOK
<1>. HIDE DEF p
<1>6. /\ Tells(submissions', story') /\ OnDisk' /\ InMemory'
      /\ \A i \in 1..Len(story') : story'[i].started <= clock'
      /\ Sound /\ PointOK(p) => Sound'
  BY <1>1, <1>2, <1>3, <1>4, <1>5, Submitted
<1>7. TimesOK'  BY <1>2, <1>6, TimesStay
<1>8. TypeOK'  BY <1>1, <1>2, <1>6, MoreIsSeq DEF IInv, TypeOK
<1>. QED  BY <1>2, <1>5, <1>6, <1>7, <1>8 DEF IInv

-----------------------------------------------------------------------------
(***************************************************************************)
(* The processor and the restarts.                                         *)
(***************************************************************************)

\* A row that is written leaves what lies before each marker as it was.
LEMMA RowWritten ==
    ASSUME IInv, NEW v \in Settings, NEW row, row = [at |-> clock + 1, value |-> v],
           rows' = rows \cup {row}, clock' = clock + 1, savedStart' = savedStart
    PROVE  /\ rows' \in SUBSET Row /\ IsFiniteSet(rows') /\ clock' \in Nat
           /\ rows' # {} /\ \A q \in rows' : q.at <= clock'
           /\ savedStart' <= clock'
           /\ Latest(rows').value = v
           /\ \A t \in 0..clock' : Earlier(t)' # {} => Before(t)' \in Settings
           /\ \A t \in 0..clock : Earlier(t)' = Earlier(t)
<1>1. clock \in Nat /\ savedStart \in Nat /\ rows \subseteq Row /\ IsFiniteSet(rows)
  BY DEF IInv, TypeOK
<1>2. savedStart <= clock /\ \A q \in rows : q.at \in Nat /\ q.at <= clock  BY <1>1 DEF IInv, TimesOK, Row
<1>3. row \in Row /\ row.at = clock + 1 /\ row.value = v  BY <1>1 DEF Row
<1>4. Latest(rows') = row
  <2>1. clock + 1 \in Int /\ \A q \in rows : q.at \in Int /\ q.at < clock + 1  BY <1>1, <1>2
  <2>2. Latest(rows \cup {row}) = row  BY <2>1, <1>3, LatestIsNew
  <2>. QED  BY <2>2
<1>5. rows' \in SUBSET Row /\ IsFiniteSet(rows') /\ clock' \in Nat  BY <1>1, <1>3, FS_AddElement
<1>6. rows' # {} /\ savedStart' <= clock' /\ \A q \in rows' : q.at <= clock'  BY <1>1, <1>2, <1>3
<1>7. \A t \in 0..clock : Earlier(t)' = Earlier(t)
  <2>1. TypeOK  BY DEF IInv
  <2>. QED  BY <1>1, <1>3, <2>1, EarlierStays
<1>8. ASSUME NEW t \in Nat, t = clock + 1 PROVE Earlier(t)' = rows
  <2>1. Earlier(t)' = {r \in rows' : r.at < t}  BY DEF Earlier
  <2>2. {r \in rows' : r.at < t} = rows  BY <1>1, <1>2, <1>3, <1>8
  <2>. QED  BY <2>1, <2>2
<1>9. ASSUME NEW t \in 0..clock', Earlier(t)' # {} PROVE Before(t)' \in Settings
  <2>1. CASE t \in 0..clock  BY <1>7, <1>9, <2>1 DEF IInv, TimesOK, Before
  <2>2. CASE t = clock + 1
    <3>1. Earlier(t)' = rows  BY <1>1, <1>8, <2>2
    <3>2. Before(t)' = Latest(rows).value  BY <3>1 DEF Before, Latest
    <3>3. Latest(rows).value \in Settings  BY DEF IInv, TimesOK
    <3>. QED  BY <3>2, <3>3
  <2>. QED  BY <1>1, <2>1, <2>2
<1>. QED  BY <1>3, <1>4, <1>5, <1>6, <1>7, <1>9

LEMMA WriteRowOK ==
    ASSUME IInv, WriteRow
    PROVE  IInv'
<1>1. /\ submissions # << >> /\ submissions' = Tail(submissions) /\ story' = Tail(story)
      /\ UNCHANGED <<persons, started, raced, acts, restarts>>
  BY DEF WriteRow, bounds
<1>2. /\ Tells(submissions', story')
      /\ Len(story) > 1 /\ Len(story') = Len(story) - 1
      /\ \A i \in 1..Len(story) - 1 : story'[i] = story[i + 1]
      /\ Follows(story[1], Head(submissions), story[2])
  BY <1>1, TellsLess DEF IInv
<1>3. story \in Seq(Point) /\ Len(story) \in Nat /\ clock \in Nat  BY DEF IInv, TypeOK
<1>4. \A i \in 1..Len(story) : story[i].started \in 0..clock
  BY StoryTyping
<1>5. \A i \in 1..Len(story') : i + 1 \in 1..Len(story) /\ story'[i] = story[i + 1]  BY <1>2, <1>3
<1>6. InMemory'
  <2>1. Len(story') \in 1..Len(story') /\ Len(story') + 1 = Len(story)  BY <1>2, <1>3
  <2>2. story'[Len(story')] = story[Len(story)]  BY <1>5, <2>1
  <2>. QED  BY <1>1, <2>2 DEF IInv, InMemory
<1>7. story[2] \in Point /\ story'[1] = story[2]  BY <1>2, <1>3
<1>8. CASE Head(submissions) = Write(story[2].persons) /\ story[2].started = story[1].started
  <2>. DEFINE v == story[2].persons
              row == [at |-> clock + 1, value |-> v]
  <2>1. v \in Settings /\ Write(v).node = "persons" /\ Write(v).value = v  BY <1>7, Typing DEF Point
  <2>2. rows' = rows \cup {row} /\ clock' = clock + 1 /\ savedStart' = savedStart
    BY <1>8, <2>1 DEF WriteRow
  <2>. HIDE DEF row
  <2>3. row = [at |-> clock + 1, value |-> v]  BY DEF row
  <2>. HIDE DEF v
  <2>4. /\ rows' \in SUBSET Row /\ IsFiniteSet(rows') /\ clock' \in Nat
        /\ rows' # {} /\ \A q \in rows' : q.at <= clock'
        /\ savedStart' <= clock'
        /\ Latest(rows').value = v
        /\ \A t \in 0..clock' : Earlier(t)' # {} => Before(t)' \in Settings
        /\ \A t \in 0..clock : Earlier(t)' = Earlier(t)
    BY <2>1, <2>2, <2>3, RowWritten
  <2>5. TimesOK'
    <3>1. \A i \in 1..Len(story') : story'[i].started <= clock'  BY <1>3, <1>4, <1>5, <2>2
    <3>. QED  BY <2>1, <2>4, <3>1 DEF TimesOK
  <2>6. OnDisk'  BY <1>7, <1>8, <2>2, <2>4 DEF IInv, OnDisk, v
  <2>7. Sound => Sound'
    <3>2. ASSUME Sound, NEW i \in 1..Len(story') PROVE PointOK(story[i])'
      <4>1. PICK k \in 1..Len(story) : story'[i] = story[k]  BY <1>5
      <4>2. story[k].started \in 0..clock /\ PointOK(story[k])  BY <1>4, <3>2 DEF Sound
      <4>. QED  BY <2>4, <4>1, <4>2 DEF PointOK, Before
    <3>. QED  BY <3>2 DEF Sound, PointOK, Earlier, Before
  <2>8. TypeOK'  BY <1>1, <1>2, <2>2, <2>4, MoreIsSeq DEF IInv, TypeOK
  <2>. QED  BY <1>1, <1>2, <1>6, <2>5, <2>6, <2>7, <2>8 DEF IInv
<1>9. CASE Head(submissions) = Mark(story[2].started) /\ story[2].persons = story[1].persons
  <2>1. story[2].started \in Nat  BY <1>7 DEF Point
  <2>2. Mark(story[2].started).node = "started" /\ Mark(story[2].started).mark = story[2].started
    BY <2>1, Typing
  <2>3. savedStart' = story[2].started /\ UNCHANGED <<rows, clock>>  BY <1>9, <2>2 DEF WriteRow
  <2>4. savedStart' <= clock'
    <3>1. 2 \in 1..Len(story)  BY <1>2, <1>3
    <3>. QED  BY <1>3, <1>4, <2>3, <3>1
  <2>5. TimesOK'
    <3>1. \A i \in 1..Len(story') : story'[i].started <= clock'  BY <1>3, <1>4, <1>5, <2>3
    <3>. QED  BY <2>3, <2>4, <3>1 DEF IInv, TimesOK, Earlier, Before
  <2>6. OnDisk'  BY <1>7, <1>9, <2>3 DEF IInv, OnDisk
  <2>7. Sound => Sound'
    <3>1. ASSUME Sound, NEW i \in 1..Len(story') PROVE PointOK(story'[i])  BY <1>5, <3>1 DEF Sound
    <3>. QED  BY <2>3, <3>1 DEF Sound, PointOK, Earlier, Before
  <2>8. TypeOK'  BY <1>1, <1>2, <2>1, <2>3, MoreIsSeq DEF IInv, TypeOK
  <2>. QED  BY <1>1, <1>2, <1>6, <2>5, <2>6, <2>7, <2>8 DEF IInv
<1>. QED  BY <1>2, <1>8, <1>9 DEF Follows

LEMMA RestartOK ==
    ASSUME IInv, Restart
    PROVE  IInv'
<1>1. /\ persons' = Latest(rows).value /\ started' = savedStart /\ submissions' = << >>
      /\ story' = <<Head(story)>>
      /\ restarts' = restarts + 1 /\ UNCHANGED <<rows, savedStart, clock, raced, acts>>
  BY DEF Restart
<1>2. story \in Seq(Point) /\ Len(story) \in Nat /\ 1 \in 1..Len(story)  BY DEF IInv, Tells
<1>3. story[1] \in Point /\ Head(story) = story[1]  BY <1>2
<1>4. /\ story' \in Seq(Point) /\ Len(story') = 1 /\ story'[1] = story[1]
      /\ submissions' \in Seq(Submission) /\ Len(submissions') = 0
  BY <1>1, <1>3
<1>5. Tells(submissions', story')  BY <1>4 DEF Tells
<1>6. OnDisk' /\ InMemory'  BY <1>1, <1>4 DEF IInv, OnDisk, InMemory
<1>7. \A i \in 1..Len(story') : story'[i] = story[1]  BY <1>4
<1>8. TimesOK'  BY <1>1, <1>2, <1>7, TimesStay DEF IInv, TimesOK
<1>9. Sound => Sound'  BY <1>1, <1>2, <1>7 DEF Sound, PointOK, Earlier, Before
<1>10. TypeOK'  BY <1>1, <1>4 DEF IInv, TypeOK, TimesOK
<1>. QED  BY <1>1, <1>5, <1>6, <1>8, <1>9, <1>10 DEF IInv

-----------------------------------------------------------------------------
(***************************************************************************)
(* The theorems.                                                           *)
(***************************************************************************)
LEMMA InitOK == Init => IInv
<1>. SUFFICES ASSUME Init PROVE IInv  OBVIOUS
<1>. DEFINE first == [at |-> 1, value |-> Original]
            p == At(Original, 0, Original)
<1>1. Original \in Settings  BY WhatIfAssumption
<1>2. rows = {first} /\ first \in Row /\ first.at = 1 /\ first.value = Original
  BY <1>1 DEF Init, Row
<1>3. p \in Point /\ p.persons = Original /\ p.started = 0 /\ p.real = Original  BY <1>1 DEF At, Point
<1>. HIDE DEF first
<1>4. Latest(rows) = first
  <2>1. 1 \in Int /\ \A q \in {} : q.at \in Int /\ q.at < 1  OBVIOUS
  <2>2. Latest({} \cup {first}) = first  BY <2>1, <1>2, LatestIsNew
  <2>. QED  BY <2>2, <1>2
<1>5. story = <<p>>  BY DEF Init
<1>. HIDE DEF p
<1>6. story \in Seq(Point) /\ Len(story) = 1 /\ story[1] = p  BY <1>3, <1>5
<1>7. submissions \in Seq(Submission) /\ Len(submissions) = 0  BY DEF Init
<1>8. IsFiniteSet(rows)  BY <1>2, FS_Singleton
<1>9. TypeOK  BY <1>1, <1>2, <1>6, <1>7, <1>8 DEF Init, TypeOK
<1>10. TimesOK
  <2>1. clock = 1 /\ savedStart = 0  BY DEF Init
  <2>2. \A t \in 0..1 : Earlier(t) = {}  BY <1>2 DEF Earlier
  <2>. QED  BY <1>1, <1>2, <1>3, <1>4, <1>6, <2>1, <2>2 DEF TimesOK
<1>11. Tells(submissions, story)  BY <1>6, <1>7 DEF Tells
<1>12. OnDisk /\ InMemory  BY <1>2, <1>3, <1>4, <1>6 DEF Init, OnDisk, InMemory
<1>13. Sound  BY <1>3, <1>6 DEF Sound, PointOK
<1>. QED  BY <1>9, <1>10, <1>11, <1>12, <1>13 DEF IInv

LEMMA StutterOK ==
    ASSUME IInv, UNCHANGED vars
    PROVE  IInv'
<1>1. UNCHANGED <<persons, started, rows, savedStart, clock, submissions, story, raced, acts, restarts>>
  BY DEF vars, bounds
<1>2. TypeOK' /\ TimesOK'  BY <1>1 DEF IInv, TypeOK, TimesOK, Before, Earlier
<1>3. Tells(submissions, story)' /\ OnDisk' /\ InMemory'  BY <1>1 DEF IInv, OnDisk, InMemory
<1>4. Sound => Sound'  BY <1>1 DEF Sound, PointOK, Before, Earlier
<1>. QED  BY <1>1, <1>2, <1>3, <1>4 DEF IInv

\* One step per action of Next.
LEMMA StepOK ==
    ASSUME IInv, [Next]_vars
    PROVE  IInv'
<1>1. ASSUME NEW p \in People, NEW f \in Figures, PatchPerson(p, f) PROVE IInv'
  BY <1>1, PatchPersonOK
<1>2. ASSUME NEW updates \in Updates, Apply(updates) PROVE IInv'  BY <1>2, ApplyOK
<1>3. CASE ApplyRejected  BY <1>3, ApplyRejectedOK
<1>4. CASE Restore  BY <1>4, RestoreOK
<1>5. CASE Accept  BY <1>5, AcceptOK
<1>6. CASE WriteRow  BY <1>6, WriteRowOK
<1>7. CASE Restart  BY <1>7, RestartOK
<1>8. CASE UNCHANGED vars  BY <1>8, StutterOK
<1>. QED  BY <1>1, <1>2, <1>3, <1>4, <1>5, <1>6, <1>7, <1>8 DEF Next

\* What is in memory, on disk and still to be written fits together after any
\* requests, overlapping or not, and restarts.
THEOREM InductiveInvariant == Spec => []IInv
<1>1. IInv /\ [Next]_vars => IInv'  BY StepOK
<1>. QED  BY <1>1, InitOK, PTL DEF Spec

\* Memory, rows and what is submitted keep their types.
THEOREM TypeCorrect == Spec => []TypeOK
<1>1. IInv => TypeOK  BY DEF IInv
<1>. QED  BY <1>1, InductiveInvariant, PTL

\* what_if_restore returns to what the household had before the scenario, whatever
\* requests and restarts came since (node_result_before of the marker), unless a
\* scenario began while persons were still to be written.
THEOREM RestorePointHolds == Spec => []RestorePoint
<1>1. IInv => RestorePoint  BY Today DEF IInv, PointOK, RestorePoint
<1>. QED  BY <1>1, InductiveInvariant, PTL

\* Without a marker the settings are the household's own: no figure of a scenario
\* outlives its marker, whichever rows a restart loses, with the same exception.
THEOREM OwnWhenInactive == Spec => []RealWhenInactive
<1>1. IInv => RealWhenInactive  BY Today DEF IInv, PointOK, RealWhenInactive
<1>. QED  BY <1>1, InductiveInvariant, PTL

\* A restore puts the exact original values back, with the same exception.
THEOREM RestoresExactly == Spec => RestoreIsExact
<1>1. IInv => (Restore => raced \/ persons' = real)
  BY Today DEF IInv, PointOK, Restore
<1>2. IInv => [Restore => raced \/ persons' = real]_vars  BY <1>1
<1>. QED  BY <1>2, InductiveInvariant, PTL DEF RestoreIsExact
=============================================================================
