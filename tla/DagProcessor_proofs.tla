------------------------- MODULE DagProcessor_proofs -------------------------
(***************************************************************************)
(* Proofs about DagProcessor, for any graph of nodes, any computes, any    *)
(* number of drains, pushes, flushes and restarts.                         *)
(***************************************************************************)
EXTENDS DagProcessor, NaturalsInduction, WellFoundedInduction, TLAPS

-----------------------------------------------------------------------------
(***************************************************************************)
(* Sequences of events.                                                    *)
(***************************************************************************)

\* A property of the numbers up to n that is true of 0 and passed on is true of all of them.
LEMMA Upwards ==
    ASSUME NEW n \in Nat, NEW T \in SUBSET (0..n), 0 \in T,
           \A i \in 1..n : i - 1 \in T => i \in T
    PROVE  T = 0..n
<1>. SUFFICES ASSUME T # 0..n PROVE FALSE  OBVIOUS
<1>. DEFINE missing == (0..n) \ T
            before == OpToRel(<, Nat)
<1>1. missing \subseteq Nat /\ missing # {}
  <2>1. \E i \in 0..n : i \notin T  OBVIOUS
  <2>. QED  BY <2>1
<1>2. PICK i \in missing : \A j \in missing : ~ (<<j, i>> \in before)
  BY <1>1, NatLessThanWellFounded, WFMin, Zenon
<1>3. \A j, k \in Nat : j < k => <<j, k>> \in before
  <2>1. \A j, k \in Nat : j < k => <<j, k>> \in {p \in Nat \X Nat : p[1] < p[2]}  BY SMT
  <2>. QED  BY <2>1, Zenon DEF OpToRel
<1>. HIDE DEF before
<1>4. i \in 1..n /\ i - 1 \in 0..n /\ i - 1 \in Nat /\ i \in Nat /\ i - 1 < i  BY <1>2, SMT
<1>5. i - 1 \notin missing
  <2>1. <<i - 1, i>> \in before  BY <1>3, <1>4
  <2>. QED  BY <2>1, <1>2, Zenon
<1>. QED  BY <1>2, <1>4, <1>5, SMT

\* What the recursion of Events defines, up to n.
Grown(S, f, n) ==
    f = [i \in 0..n |-> IF i = 0 THEN <<>>
                        ELSE IF Order[i] \in S THEN Append(f[i - 1], Live(Order[i]))
                        ELSE f[i - 1]]

\* The recursion has a solution.
LEMMA GrownExists ==
    ASSUME NEW S
    PROVE  \E f : Grown(S, f, Len(Order))
<1>. DEFINE N == Len(Order)
            T == {n \in 0..N : \E f : Grown(S, f, n)}
<1>1. N \in Nat  BY GraphAssumption
<1>. HIDE DEF N
<1>2. 0 \in T
  <2>. DEFINE f == [i \in 0..0 |-> <<>>]
  <2>1. Grown(S, f, 0)  BY DEF Grown
  <2>. QED  BY <2>1, <1>1
<1>3. ASSUME NEW i \in 1..N, i - 1 \in T PROVE i \in T
  <2>1. PICK f : Grown(S, f, i - 1)  BY <1>3
  <2>. DEFINE last == IF Order[i] \in S THEN Append(f[i - 1], Live(Order[i])) ELSE f[i - 1]
              g == [j \in 0..i |-> IF j = i THEN last ELSE f[j]]
  <2>2. \A j \in 0..i : g[j] = IF j = 0 THEN <<>>
                        ELSE IF Order[j] \in S THEN Append(g[j - 1], Live(Order[j]))
                        ELSE g[j - 1]
    <3>. TAKE j \in 0..i
    <3>. HIDE DEF last
    <3>1. CASE j = i  BY <1>1, <3>1 DEF last
    <3>2. CASE j # i
      <4>1. j \in 0..(i - 1) /\ i - 1 \in Nat /\ g[j] = f[j] /\ (j # 0 => g[j - 1] = f[j - 1])  BY <1>1, <3>2
      <4>. QED  BY <2>1, <4>1 DEF Grown
    <3>. QED  BY <3>1, <3>2
  <2>3. Grown(S, g, i)  BY <2>2 DEF Grown
  <2>. QED  BY <2>3
<1>4. T = 0..N  BY <1>1, <1>2, <1>3, Upwards
<1>. QED  BY <1>1, <1>4 DEF N

\* Events is the last value of that recursion.
LEMMA EventsGrow ==
    ASSUME NEW S
    PROVE  \E f : Grown(S, f, Len(Order)) /\ Events(S) = f[Len(Order)]
<1>. DEFINE f == CHOOSE f : Grown(S, f, Len(Order))
<1>1. Grown(S, f, Len(Order))  BY GrownExists, Zenon
<1>2. Events(S) = f[Len(Order)]  BY DEF Events, Grown
<1>. QED  BY <1>1, <1>2

\* Events lists live events of S.
LEMMA EventsAreOf ==
    ASSUME NEW S \in SUBSET Derived
    PROVE  /\ Events(S) \in Seq(Event)
           /\ \A i \in DOMAIN Events(S) : Events(S)[i].live /\ Events(S)[i].node \in S
<1>. DEFINE N == Len(Order)
            Listing(s) == s \in Seq(Event) /\ \A i \in DOMAIN s : s[i].live /\ s[i].node \in S
<1>1. PICK f : Grown(S, f, N) /\ Events(S) = f[N]  BY EventsGrow
<1>. DEFINE T == {n \in 0..N : Listing(f[n])}
<1>2. N \in Nat /\ \A i \in 1..N : Order[i] \in Derived  BY GraphAssumption
<1>. HIDE DEF N
<1>3. 0 \in T
  <2>1. f[0] = << >>  BY <1>1, <1>2 DEF Grown
  <2>2. Listing(<< >>)  OBVIOUS
  <2>3. Listing(f[0])  BY <2>1, <2>2, Zenon
  <2>. HIDE DEF Listing
  <2>. QED  BY <2>3, <1>2
<1>4. ASSUME NEW i \in 1..N, i - 1 \in T PROVE i \in T
  <2>1. Listing(f[i - 1])  BY <1>4
  <2>2. f[i] = IF Order[i] \in S THEN Append(f[i - 1], Live(Order[i])) ELSE f[i - 1]
    <3>1. i \in 0..N /\ i # 0  BY <1>2
    <3>2. f = [j \in 0..N |-> IF j = 0 THEN <<>>
                              ELSE IF Order[j] \in S THEN Append(f[j - 1], Live(Order[j]))
                              ELSE f[j - 1]]
      BY <1>1, Zenon DEF Grown
    <3>. QED  BY <3>1, <3>2
  <2>3. CASE Order[i] \in S
    <3>. DEFINE e == Live(Order[i])
    <3>1. e \in Event /\ e.live /\ e.node \in S  BY <1>2, <2>3 DEF Live, Event
    <3>. HIDE DEF e
    <3>2. Listing(Append(f[i - 1], e))  BY <2>1, <3>1
    <3>3. f[i] = Append(f[i - 1], e)  BY <2>2, <2>3 DEF e
    <3>4. Listing(f[i])  BY <3>2, <3>3, Zenon
    <3>. HIDE DEF Listing
    <3>. QED  BY <3>4, <1>2
  <2>4. CASE Order[i] \notin S
    <3>1. f[i] = f[i - 1]  BY <2>2, <2>4
    <3>2. Listing(f[i])  BY <2>1, <3>1, Zenon
    <3>. HIDE DEF Listing
    <3>. QED  BY <3>2, <1>2
  <2>. QED  BY <2>3, <2>4
<1>5. T = 0..N  BY <1>2, <1>3, <1>4, Upwards
<1>. QED  BY <1>1, <1>2, <1>5

\* A set of positions has a last one.
LEMMA LastIsIn ==
    ASSUME NEW n \in Nat, NEW S \in SUBSET (1..n), S # {}
    PROVE  LastOf(S) \in S
<1>. DEFINE T == {k \in 0..n : (\A i \in S : i > k) \/ \E i \in S : \A j \in S : j <= k => j <= i}
<1>1. 0 \in T  OBVIOUS
<1>2. ASSUME NEW k \in 1..n, k - 1 \in T PROVE k \in T
  <2>1. CASE k \in S  BY <2>1
  <2>2. CASE k \notin S
    <3>1. \A j \in S : j <= k => j <= k - 1  BY <2>2
    <3>. QED  BY <1>2, <3>1
  <2>. QED  BY <2>1, <2>2
<1>. HIDE DEF T
<1>3. T = 0..n  BY <1>1, <1>2, Upwards DEF T
<1>4. n \in T  BY <1>3
<1>5. ~ \A i \in S : i > n
  <2>1. PICK i \in S : TRUE  OBVIOUS
  <2>2. ~ (i > n)  OBVIOUS
  <2>. QED  BY <2>2
<1>6. PICK i \in S : \A j \in S : j <= n => j <= i  BY <1>4, <1>5 DEF T
<1>7. \A j \in S : j <= i  BY <1>6
<1>. QED  BY <1>7 DEF LastOf

LEMMA InsertAtHolds ==
    ASSUME NEW S, NEW s \in Seq(S), NEW e \in S, NEW i \in 1..(Len(s) + 1)
    PROVE  /\ InsertAt(s, i, e) \in Seq(S) /\ Len(InsertAt(s, i, e)) = Len(s) + 1
           /\ \A k \in DOMAIN InsertAt(s, i, e) :
                 InsertAt(s, i, e)[k] = e \/ \E j \in DOMAIN s : InsertAt(s, i, e)[k] = s[j]
<1>. DEFINE front == SubSeq(s, 1, i - 1)
            back == SubSeq(s, i, Len(s))
            both == front \o <<e>> \o back
<1>1. /\ front \in Seq(S) /\ Len(front) = i - 1
      /\ \A k \in 1..(i - 1) : front[k] = s[k]
  OBVIOUS
<1>2. /\ back \in Seq(S) /\ Len(back) = Len(s) - i + 1
      /\ \A k \in 1..(Len(s) - i + 1) : back[k] = s[k + i - 1]
  OBVIOUS
<1>. HIDE DEF front, back
<1>3. both \in Seq(S) /\ Len(both) = Len(s) + 1  BY <1>1, <1>2
<1>4. ASSUME NEW k \in 1..(Len(s) + 1) PROVE both[k] = e \/ \E j \in DOMAIN s : both[k] = s[j]
  <2>1. CASE k < i
    <3>1. both[k] = s[k] /\ k \in DOMAIN s  BY <1>1, <1>2, <2>1
    <3>. QED  BY <3>1
  <2>2. CASE k = i  BY <1>1, <1>2, <2>2
  <2>3. CASE k > i
    <3>1. k - i \in 1..(Len(s) - i + 1) /\ k - 1 = (k - i) + i - 1 /\ k - 1 \in 1..Len(s)
      BY <2>3
    <3>2. both[k] = back[k - i]  BY <1>1, <1>2, <2>3, <3>1
    <3>3. back[k - i] = s[k - 1]  BY <1>2, <3>1
    <3>. HIDE DEF both
    <3>. QED  BY <3>1, <3>2, <3>3
  <2>4. k < i \/ k = i \/ k > i  OBVIOUS
  <2>. HIDE DEF both
  <2>. QED  BY <2>1, <2>2, <2>3, <2>4
<1>5. InsertAt(s, i, e) = both  BY DEF InsertAt, front, back
<1>. HIDE DEF both
<1>6. DOMAIN both = 1..(Len(s) + 1)  BY <1>3
<1>. QED  BY <1>3, <1>4, <1>5, <1>6

LEMMA ForgetHolds ==
    ASSUME NEW q \in Seq(Event), NEW d
    PROVE  /\ Forget(q, d) \in Seq(Event) /\ Len(Forget(q, d)) = Len(q)
           /\ \A i \in 1..Len(q) : /\ Forget(q, d)[i].node = q[i].node
                                   /\ Forget(q, d)[i].live <=> q[i].live /\ q[i].node # d
<1>1. ASSUME NEW i \in 1..Len(q)
      PROVE  /\ Forget(q, d)[i] \in Event
             /\ Forget(q, d)[i].node = q[i].node
             /\ Forget(q, d)[i].live <=> q[i].live /\ q[i].node # d
  <2>1. q[i] \in Event  OBVIOUS
  <2>2. Forget(q, d)[i] = [q[i] EXCEPT !.live = q[i].live /\ q[i].node # d]  BY DEF Forget
  <2>. DEFINE b == q[i].live /\ q[i].node # d
  <2>3. b \in BOOLEAN  OBVIOUS
  <2>4. Forget(q, d)[i] = [q[i] EXCEPT !.live = b]  BY <2>2
  <2>5. (b = TRUE \/ b = FALSE) /\ (b <=> q[i].live /\ q[i].node # d)  BY <2>3
  <2>. HIDE DEF b
  <2>. QED  BY <2>1, <2>4, <2>5 DEF Event
<1>2. Forget(q, d) = [i \in 1..Len(q) |-> Forget(q, d)[i]]  BY DEF Forget
<1>. QED  BY <1>1, <1>2

-----------------------------------------------------------------------------
(***************************************************************************)
(* The nodes with an event in a queue.                                     *)
(***************************************************************************)
On(q) == {q[i].node : i \in {j \in DOMAIN q : q[j].live}}

LEMMA ScheduledIsOn ==
    ASSUME NEW rdy \in Seq(Event), NEW ltr \in Seq(Event), NEW d \in Derived
    PROVE  Scheduled(d, rdy, ltr) <=> d \in On(rdy) \cup On(ltr)
<1>1. \A e \in Event : e = Live(d) <=> e.live /\ e.node = d  BY DEF Live, Event
<1>2. /\ DOMAIN rdy = 1..Len(rdy) /\ \A i \in DOMAIN rdy : rdy[i] \in Event
      /\ DOMAIN ltr = 1..Len(ltr) /\ \A i \in DOMAIN ltr : ltr[i] \in Event
  OBVIOUS
<1>3. ASSUME NEW q, \A i \in DOMAIN q : q[i] \in Event
      PROVE  Live(d) \in ToSet(q) <=> d \in On(q)
  <2>1. Live(d) \in ToSet(q) <=> \E i \in DOMAIN q : q[i] = Live(d)  BY DEF ToSet
  <2>2. d \in On(q) <=> \E i \in DOMAIN q : q[i].live /\ q[i].node = d  BY DEF On
  <2>. QED  BY <1>1, <1>3, <2>1, <2>2
<1>. QED  BY <1>2, <1>3 DEF Scheduled

LEMMA OnForget ==
    ASSUME NEW q \in Seq(Event), NEW d
    PROVE  On(Forget(q, d)) = On(q) \ {d}
<1>. DEFINE f == Forget(q, d)
<1>1. DOMAIN f = DOMAIN q  BY DEF Forget
<1>2. \A i \in DOMAIN q : f[i].node = q[i].node /\ (f[i].live <=> q[i].live /\ q[i].node # d)
  BY ForgetHolds
<1>. HIDE DEF f
<1>3. On(f) = On(q) \ {d}  BY <1>1, <1>2 DEF On
<1>. QED  BY <1>3 DEF f

LEMMA OnInsert ==
    ASSUME NEW q \in Seq(Event), NEW e \in Event, NEW i \in 1..(Len(q) + 1)
    PROVE  On(InsertAt(q, i, e)) \subseteq On(q) \cup {e.node}
<1>. DEFINE a == InsertAt(q, i, e)
<1>1. \A k \in DOMAIN a : a[k] = e \/ \E j \in DOMAIN q : a[k] = q[j]  BY InsertAtHolds
<1>. HIDE DEF a
<1>2. On(a) \subseteq On(q) \cup {e.node}  BY <1>1 DEF On
<1>. QED  BY <1>2 DEF a

LEMMA OnJoin ==
    ASSUME NEW q \in Seq(Event), NEW r \in Seq(Event)
    PROVE  On(q \o r) \subseteq On(q) \cup On(r)
<1>1. ASSUME NEW i \in 1..(Len(q) + Len(r))
      PROVE  \/ i \in DOMAIN q /\ (q \o r)[i] = q[i]
             \/ i - Len(q) \in DOMAIN r /\ (q \o r)[i] = r[i - Len(q)]
  OBVIOUS
<1>2. DOMAIN (q \o r) = 1..(Len(q) + Len(r))  OBVIOUS
<1>. QED  BY <1>1, <1>2 DEF On

LEMMA OnTail ==
    ASSUME NEW q \in Seq(Event), q # << >>
    PROVE  /\ Tail(q) \in Seq(Event) /\ Len(Tail(q)) = Len(q) - 1
           /\ Head(q) \in Event /\ On(Tail(q)) \subseteq On(q)
           /\ Head(q).live => Head(q).node \in On(q)
<1>1. \A i \in DOMAIN Tail(q) : i + 1 \in DOMAIN q /\ Tail(q)[i] = q[i + 1]  OBVIOUS
<1>2. 1 \in DOMAIN q /\ Head(q) = q[1]  OBVIOUS
<1>. QED  BY <1>1, <1>2 DEF On

LEMMA OnEvents ==
    ASSUME NEW S \in SUBSET Derived
    PROVE  Events(S) \in Seq(Event) /\ On(Events(S)) \subseteq S
BY EventsAreOf DEF On

LEMMA OnAppend ==
    ASSUME NEW q \in Seq(Event), NEW e \in Event
    PROVE  /\ Append(q, e) \in Seq(Event) /\ Len(Append(q, e)) = Len(q) + 1
           /\ On(Append(q, e)) \subseteq On(q) \cup (IF e.live THEN {e.node} ELSE {})
<1>. DEFINE a == Append(q, e)
<1>1. /\ a \in Seq(Event) /\ Len(a) = Len(q) + 1
      /\ \A i \in 1..Len(q) : a[i] = q[i]
      /\ a[Len(q) + 1] = e
  OBVIOUS
<1>. HIDE DEF a
<1>2. \A i \in DOMAIN a : i \in 1..Len(q) \/ i = Len(q) + 1  BY <1>1
<1>3. On(a) \subseteq On(q) \cup (IF e.live THEN {e.node} ELSE {})  BY <1>1, <1>2 DEF On
<1>. QED  BY <1>1, <1>3 DEF a

\* What the queue is given keeps its type, and no node but d enters it, and d
\* only when it is still pending.
QueueOK(rdy, ltr, h) ==
    rdy \in Seq(Event) /\ ltr \in Seq(Event) /\ h \in 0..Len(rdy)
    /\ requeues \in [Derived -> 0..Registered]

LEMMA SettleHolds ==
    ASSUME NEW p, NEW d \in Derived, NEW ns, NEW rdy, NEW ltr, NEW h,
           QueueOK(rdy, ltr, h), Settle(p, d, ns, rdy, ltr, h)
    PROVE  /\ QueueOK(ready, later, horizon)'
           /\ On(ready') \cup On(later') \subseteq
                On(rdy) \cup On(ltr) \cup (IF ns[d].value = Pending THEN {d} ELSE {})
<1>. DEFINE fr == Forget(rdy, d)
            fl == Forget(ltr, d)
            inReady == LiveDeps(d, rdy)
            inLater == LiveDeps(d, ltr)
<1>1. /\ rdy \in Seq(Event) /\ ltr \in Seq(Event) /\ h \in 0..Len(rdy)
      /\ requeues \in [Derived -> 0..Registered]
  BY DEF QueueOK
<1>2. /\ fr \in Seq(Event) /\ Len(fr) = Len(rdy) /\ On(fr) \subseteq On(rdy)
      /\ fl \in Seq(Event) /\ Len(fl) = Len(ltr) /\ On(fl) \subseteq On(ltr)
  BY <1>1, ForgetHolds, OnForget
<1>3. /\ inReady \subseteq 1..Len(rdy) /\ inLater \subseteq 1..Len(ltr)
      /\ Len(rdy) \in Nat /\ Len(ltr) \in Nat
  BY <1>1 DEF LiveDeps
<1>4. Live(d) \in Event /\ Live(d).node = d  BY DEF Live, Event
<1>5. CASE /\ ready' = rdy /\ later' = ltr /\ horizon' \in {h, 0}
           /\ requeues' \in {requeues, [requeues EXCEPT ![d] = 0]}
  <2>1. requeues' \in [Derived -> 0..Registered]  BY <1>1, <1>5, BoundsAssumption
  <2>. QED  BY <1>1, <1>5, <2>1 DEF QueueOK
<1>6. CASE /\ ns[d].value = Pending /\ MayRequeue(d)
           /\ requeues' = [requeues EXCEPT ![d] = @ + 1]
           /\ \/ /\ inLater # {}
                 /\ ready' = fr /\ later' = InsertAt(fl, LastOf(inLater) + 1, Live(d))
                 /\ horizon' = h
              \/ /\ inReady # {}
                 /\ ready' = InsertAt(fr, LastOf(inReady) + 1, Live(d)) /\ later' = fl
                 /\ horizon' = IF LastOf(inReady) <= h THEN h + 1 ELSE h
  <2>. HIDE DEF fr, fl, inReady, inLater
  <2>1. requeues' \in [Derived -> 0..Registered]
    BY <1>1, <1>6, BoundsAssumption DEF MayRequeue
  <2>2. CASE /\ inLater # {}
             /\ ready' = fr /\ later' = InsertAt(fl, LastOf(inLater) + 1, Live(d))
             /\ horizon' = h
    <3>. DEFINE last == LastOf(inLater)
    <3>0. last \in inLater  BY <1>3, <2>2, LastIsIn
    <3>. HIDE DEF last
    <3>1. last + 1 \in 1..(Len(fl) + 1)  BY <1>2, <1>3, <3>0
    <3>2. /\ later' \in Seq(Event) /\ On(later') \subseteq On(fl) \cup {d}
      <4>1. later' = InsertAt(fl, last + 1, Live(d))  BY <2>2 DEF last
      <4>. QED  BY <1>2, <1>4, <3>1, <4>1, InsertAtHolds, OnInsert
    <3>. QED  BY <1>1, <1>2, <1>6, <2>1, <2>2, <3>2 DEF QueueOK
  <2>3. CASE /\ inReady # {}
             /\ ready' = InsertAt(fr, LastOf(inReady) + 1, Live(d)) /\ later' = fl
             /\ horizon' = IF LastOf(inReady) <= h THEN h + 1 ELSE h
    <3>. DEFINE last == LastOf(inReady)
    <3>0. last \in inReady  BY <1>3, <2>3, LastIsIn
    <3>. HIDE DEF last
    <3>1. last + 1 \in 1..(Len(fr) + 1)  BY <1>2, <1>3, <3>0
    <3>2. /\ ready' \in Seq(Event) /\ Len(ready') = Len(rdy) + 1
          /\ On(ready') \subseteq On(fr) \cup {d}
      <4>1. ready' = InsertAt(fr, last + 1, Live(d))  BY <2>3 DEF last
      <4>. QED  BY <1>2, <1>4, <3>1, <4>1, InsertAtHolds, OnInsert
    <3>3. horizon' \in 0..Len(ready')
      <4>1. horizon' \in {h, h + 1}  BY <2>3
      <4>. QED  BY <1>1, <3>2, <4>1
    <3>. QED  BY <1>1, <1>2, <1>6, <2>1, <2>3, <3>2, <3>3 DEF QueueOK
  <2>. QED  BY <1>6, <2>2, <2>3
<1>7. inLater = {} /\ inReady \cup inLater # {} => inReady # {}  OBVIOUS
<1>. QED  BY <1>5, <1>6, <1>7 DEF Settle

-----------------------------------------------------------------------------
(***************************************************************************)
(* What a step does to the records of the nodes: either nothing, or the    *)
(* record of one node becomes mem in memory and disk in its row, and other *)
(* nodes lose at most the count of their retries.                          *)
(***************************************************************************)
Like(r, s) ==
    /\ r.value = s.value /\ r.stamp = s.stamp /\ r.basis = s.basis
    /\ r.retry = s.retry /\ r.retries \in {s.retries, 0}

Moved(n, mem, disk) ==
    /\ mem \in Record(n) /\ disk \in Record(n)
    /\ mem.stamp = clock + 1 /\ disk.stamp = clock + 1
    /\ disk.basis = mem.basis /\ disk.retry = mem.retry
    /\ disk.retries \in {mem.retries, 0}
    /\ clock' = clock + 1
    /\ DOMAIN node' = Nodes /\ DOMAIN row' = Nodes
    /\ \A m \in Nodes : node'[m] \in Record(m) /\ row'[m] \in Record(m)
    /\ \A m \in Nodes \ {n} : Like(node'[m], node[m]) /\ row'[m] = row[m]
    /\ Like(node'[n], mem) /\ row'[n] = disk

RecordsOK(f) == DOMAIN f = Nodes /\ \A n \in Nodes : f[n] \in Record(n)

LEMMA NotifiedHolds ==
    ASSUME NEW n, NEW f, RecordsOK(f)
    PROVE  /\ RecordsOK(Notified(n, f))
           /\ \A m \in Nodes : Like(Notified(n, f)[m], f[m])
<1>. DEFINE g == Notified(n, f)
<1>1. DOMAIN g = Nodes  BY DEF Notified
<1>2. ASSUME NEW m \in Nodes PROVE g[m] \in Record(m) /\ Like(g[m], f[m])
  <2>1. f[m] \in Record(m) /\ 0 \in 0..MaxRetries  BY BoundsAssumption DEF RecordsOK
  <2>2. g[m] = f[m] \/ g[m] = [f[m] EXCEPT !.retries = 0]  BY DEF Notified
  <2>. HIDE DEF g
  <2>. QED  BY <2>1, <2>2 DEF Record, Like
<1>. HIDE DEF g
<1>3. RecordsOK(g) /\ \A m \in Nodes : Like(g[m], f[m])  BY <1>1, <1>2 DEF RecordsOK
<1>. QED  BY <1>3 DEF g

\* Staleness does not depend on the retry counts.
LEMMA StaleLike ==
    ASSUME NEW f, NEW g, NEW d \in Derived, \A m \in Nodes : Like(g[m], f[m])
    PROVE  Stale(d, g) <=> Stale(d, f)
<1>1. d \in Nodes /\ Deps[d] \subseteq Nodes  BY GraphAssumption DEF Nodes
<1>2. \A m \in Deps[d] : g[m].stamp = f[m].stamp  BY <1>1 DEF Like
<1>3. g[d].value = f[d].value /\ g[d].stamp = f[d].stamp /\ g[d].basis = f[d].basis /\ g[d].retry = f[d].retry
  BY <1>1 DEF Like
<1>. QED  BY <1>2, <1>3 DEF Stale

LEMMA WritingMoves ==
    ASSUME RecordsOK(node), RecordsOK(row), NEW n \in Nodes, NEW mem \in Record(n), NEW disk \in Record(n),
           mem.stamp = clock + 1, disk.stamp = clock + 1,
           disk.basis = mem.basis, disk.retry = mem.retry, disk.retries \in {mem.retries, 0},
           NEW ns, DOMAIN ns = Nodes, ns[n] = mem, \A m \in Nodes \ {n} : ns[m] = node[m],
           NEW notified, notified \in {ns, Notified(n, ns)},
           node' = notified, clock' = clock + 1, row' = [row EXCEPT ![n] = disk]
    PROVE  /\ Moved(n, mem, disk) /\ \A m \in Nodes : Like(node'[m], ns[m])
<1>1. RecordsOK(ns)  BY DEF RecordsOK
<1>2. RecordsOK(row')  BY DEF RecordsOK
<1>3. RecordsOK(node') /\ \A m \in Nodes : Like(node'[m], ns[m])
  <2>1. CASE node' = ns  BY <1>1, <2>1 DEF Like
  <2>2. CASE node' = Notified(n, ns)
    <3>1. /\ RecordsOK(Notified(n, ns))
          /\ \A m \in Nodes : Like(Notified(n, ns)[m], ns[m])
      BY <1>1, NotifiedHolds
    <3>. QED  BY <2>2, <3>1 DEF RecordsOK
  <2>. QED  BY <2>1, <2>2
<1>4. row'[n] = disk /\ \A m \in Nodes \ {n} : row'[m] = row[m]  BY DEF RecordsOK
<1>5. Like(node'[n], mem) /\ \A m \in Nodes \ {n} : Like(node'[m], node[m])  BY <1>3
<1>6. /\ DOMAIN node' = Nodes /\ DOMAIN row' = Nodes
      /\ \A m \in Nodes : node'[m] \in Record(m) /\ row'[m] \in Record(m)
  BY <1>2, <1>3 DEF RecordsOK
<1>. QED  BY <1>3, <1>4, <1>5, <1>6 DEF Moved

LEMMA RefreshMoves ==
    ASSUME RecordsOK(node), RecordsOK(row), NEW n \in Nodes, NEW mem \in Record(n), NEW disk \in Record(n),
           mem.stamp = clock + 1, disk.stamp = clock + 1,
           disk.basis = mem.basis, disk.retry = mem.retry, disk.retries \in {mem.retries, 0},
           NEW ns, ns = [node EXCEPT ![n] = mem], NEW notified, notified \in {ns, Notified(n, ns)},
           node' = notified, clock' = clock + 1, row' = [row EXCEPT ![n] = disk]
    PROVE  /\ Moved(n, mem, disk) /\ \A m \in Nodes : Like(node'[m], ns[m])
<1>1. DOMAIN ns = Nodes /\ ns[n] = mem /\ \A m \in Nodes \ {n} : ns[m] = node[m]  BY DEF RecordsOK
<1>. QED  BY <1>1, WritingMoves, ZenonT(60)

LEMMA LoadableHolds ==
    ASSUME NEW d, NEW rec \in Record(d)
    PROVE  /\ Loadable(rec) \in Record(d)
           /\ Loadable(rec).value = rec.value /\ Loadable(rec).stamp = rec.stamp
           /\ Loadable(rec).basis = rec.basis /\ Loadable(rec).retry = rec.retry
           /\ Loadable(rec).retries \in {rec.retries, 0}
BY BoundsAssumption DEF Loadable, Record

-----------------------------------------------------------------------------
(***************************************************************************)
(* What each action does.                                                  *)
(***************************************************************************)

\* Nodes with a live event.
Due == On(ready) \cup On(later)

LEMMA TypeParts ==
    StateOK <=>
        /\ RecordsOK(node) /\ RecordsOK(row) /\ clock \in Nat
        /\ QueueOK(ready, later, horizon)
        /\ DOMAIN drain = Drains
        /\ \A p \in Drains : drain[p] = Idle \/ \E d \in Derived : drain[p] \in Suspended(d)
        /\ flushing \in BOOLEAN
        /\ submissions \in Seq(Submission)
BY DEF StateOK, RecordsOK, QueueOK

\* The nodes that a write of n puts into the queue: its stale dependents.
Entering(n) == {e \in Derived : n \in Deps[e] /\ Stale(e, node')}

LEMMA WokenHolds ==
    ASSUME NEW n \in Nodes, NEW ns, \A m \in Nodes : Like(node'[m], ns[m]),
           NEW rdy \in Seq(Event), NEW ltr
    PROVE  /\ rdy \o Woken(n, ns, rdy, ltr) \in Seq(Event)
           /\ Len(rdy \o Woken(n, ns, rdy, ltr)) >= Len(rdy)
           /\ On(rdy \o Woken(n, ns, rdy, ltr)) \subseteq On(rdy) \cup Entering(n)
<1>. DEFINE S == {d \in Derived : n \in Deps[d] /\ Stale(d, ns) /\ ~Scheduled(d, rdy, ltr)}
            w == Events(S)
<1>1. w \in Seq(Event) /\ On(w) \subseteq S  BY OnEvents
<1>2. S \subseteq Entering(n)  BY StaleLike DEF Entering
<1>. HIDE DEF w
<1>3. /\ rdy \o w \in Seq(Event) /\ Len(rdy \o w) >= Len(rdy)
      /\ On(rdy \o w) \subseteq On(rdy) \cup On(w)
  BY <1>1, OnJoin
<1>. QED  BY <1>1, <1>2, <1>3 DEF w, Woken

LEMMA CompleteHolds ==
    ASSUME RecordsOK(node), RecordsOK(row), NEW p, NEW d \in Derived, NEW v \in Outcomes \ {Pending},
           NEW stamps \in [Deps[d] -> Nat], NEW retries \in 0..MaxRetries, clock \in Nat,
           NEW rdy, NEW ltr, NEW h, QueueOK(rdy, ltr, h),
           Complete(p, d, v, stamps, retries, rdy, ltr, h)
    PROVE  LET rec == Fresh(d, v, stamps, FALSE, retries)
           IN  /\ Moved(d, rec, Loadable(rec)) /\ QueueOK(ready, later, horizon)'
               /\ Due' \subseteq On(rdy) \cup On(ltr) \cup Entering(d)
<1>. DEFINE rec == Fresh(d, v, stamps, FALSE, retries)
            ns == [node EXCEPT ![d] = rec]
            rdy2 == rdy \o Woken(d, ns, rdy, ltr)
<1>1. d \in Nodes  BY DEF Nodes
<1>2. rec \in Record(d) /\ rec.stamp = clock + 1 /\ rec.value = v
  BY DEF Fresh, Record
<1>3. /\ clock' = clock + 1 /\ row' = [row EXCEPT ![d] = Loadable(rec)]
      /\ Settle(p, d, Notified(d, ns), rdy2, ltr, h)
  BY DEF Complete, Persist
<1>. HIDE DEF rec
<1>4. node' = Notified(d, ns)  BY <1>3 DEF Settle
<1>5. Moved(d, rec, Loadable(rec)) /\ \A m \in Nodes : Like(node'[m], ns[m])
  <2>. HIDE DEF ns
  <2>1. ns = [node EXCEPT ![d] = rec]  BY DEF ns
  <2>. QED  BY <1>1, <1>2, <1>3, <1>4, <2>1, LoadableHolds, RefreshMoves
<1>6. node'[d].value = v  BY <1>2, <1>5 DEF Moved, Like
<1>. HIDE DEF ns
<1>7. rdy \in Seq(Event) /\ ltr \in Seq(Event) /\ h \in 0..Len(rdy)  BY DEF QueueOK
<1>8. rdy2 \in Seq(Event) /\ Len(rdy2) >= Len(rdy) /\ On(rdy2) \subseteq On(rdy) \cup Entering(d)
  BY <1>1, <1>5, <1>7, WokenHolds
<1>. HIDE DEF rdy2
<1>9. QueueOK(rdy2, ltr, h)  BY <1>7, <1>8 DEF QueueOK
<1>10. /\ QueueOK(ready, later, horizon)'
       /\ On(ready') \cup On(later') \subseteq On(rdy2) \cup On(ltr)
  BY <1>3, <1>4, <1>6, <1>9, SettleHolds
<1>. QED  BY <1>5, <1>8, <1>10 DEF Due, rec

\* The stamps of what d computes from, and the records a refresh of d can write: the
\* first two from what it finds, the others when its compute is over.
Current(d) == [m \in Deps[d] |-> node[m].stamp]
DepFailed(d, rec) ==
    /\ rec = Fresh(d, Impossible, Current(d), FALSE, 0)
    /\ \E m \in Deps[d] : node[m].value = Impossible
Deferred(d, rec) ==
    /\ rec = [node[d] EXCEPT !.stamp = clock + 1, !.basis = Current(d)]
    /\ \E m \in Deps[d] \cap Derived : m # d /\ m \in Due
Computed(p, d, rec) ==
    /\ rec.value = Compute[d][drain[p].bound]
    /\ rec \in {Fresh(d, Compute[d][drain[p].bound], drain[p].stamps, FALSE, 0),
                [node[d] EXCEPT !.stamp = clock + 1, !.basis = drain[p].stamps]}
Failed(p, d, rec) ==
    /\ d \in Flaky
    /\ \E n \in 0..MaxRetries :
          \/ rec = Fresh(d, Impossible, drain[p].stamps, FALSE, n)
          \/ rec = Fresh(d, Pending, drain[p].stamps, TRUE, n) /\ n < MaxRetries

Pends(d) == IF node'[d].value = Pending THEN {d} ELSE {}

\* Begin finds nothing to do or an input that is not there yet, a failed dependency or a
\* queued one, or starts a compute.
Waits(d) ==
    UNCHANGED <<node, row, clock, drain>> /\ Due' \subseteq (Due \ {d}) \cup Pends(d)
FailsToo(d, rec) ==
    /\ DepFailed(d, rec) /\ Moved(d, rec, Loadable(rec)) /\ UNCHANGED drain
    /\ Due' \subseteq (Due \ {d}) \cup Entering(d)
Defers(d, rec) ==
    /\ Deferred(d, rec) /\ Moved(d, rec, Loadable(rec)) /\ UNCHANGED drain
    /\ Due' \subseteq (Due \ {d}) \cup Pends(d)
Starts(p, d) ==
    /\ UNCHANGED <<node, row, clock>> /\ Due' \subseteq Due \ {d}
    /\ \A m \in Deps[d] : node[m].value \in Values
    /\ drain' = [drain EXCEPT ![p] = [node |-> d, bound |-> [m \in Deps[d] |-> node[m].value],
                                      stamps |-> Current(d)]]

LEMMA PoppedHolds ==
    ASSUME QueueOK(ready, later, horizon), ready # << >>, NEW d
    PROVE  LET rdy == Forget(Tail(ready), d)
               ltr == Forget(later, d)
           IN  /\ QueueOK(rdy, ltr, IF horizon > 0 THEN horizon - 1 ELSE 0)
               /\ On(rdy) \cup On(ltr) \subseteq Due \ {d}
<1>. DEFINE t == Tail(ready)
<1>1. /\ t \in Seq(Event) /\ Len(t) = Len(ready) - 1 /\ On(t) \subseteq On(ready)
      /\ horizon \in 0..Len(ready) /\ later \in Seq(Event)
  BY OnTail DEF QueueOK
<1>. HIDE DEF t
<1>2. /\ Forget(t, d) \in Seq(Event) /\ Len(Forget(t, d)) = Len(t) /\ On(Forget(t, d)) = On(t) \ {d}
      /\ Forget(later, d) \in Seq(Event) /\ On(Forget(later, d)) = On(later) \ {d}
  BY <1>1, ForgetHolds, OnForget
<1>3. (IF horizon > 0 THEN horizon - 1 ELSE 0) \in 0..Len(t)  BY <1>1
<1>. QED  BY <1>1, <1>2, <1>3 DEF QueueOK, Due, t

LEMMA CurrentTyped ==
    ASSUME RecordsOK(node), NEW d \in Derived
    PROVE  Current(d) \in [Deps[d] -> Nat]
BY GraphAssumption DEF RecordsOK, Current, Record, Nodes

Restamped(r, t, b) == [r EXCEPT !.stamp = t, !.basis = b]

LEMMA RestampedHolds ==
    ASSUME NEW d, NEW r \in Record(d), NEW t \in Nat, NEW b \in [Deps[d] -> Nat]
    PROVE  /\ Restamped(r, t, b) \in Record(d)
           /\ Restamped(r, t, b).stamp = t /\ Restamped(r, t, b).basis = b
           /\ Restamped(r, t, b).value = r.value /\ Restamped(r, t, b).retry = r.retry
           /\ Restamped(r, t, b).retries = r.retries
BY DEF Restamped, Record

LEMMA BeginEffect ==
    ASSUME StateOK, NEW p \in Drains, NEW d \in Derived, Begin(p, d)
    PROVE  /\ QueueOK(ready, later, horizon)' /\ UNCHANGED <<flushing, submissions, bounds>>
           /\ drain[p] = Idle
           /\ \/ Waits(d) \/ Starts(p, d)
              \/ \E rec \in Record(d) : FailsToo(d, rec) \/ Defers(d, rec)
<1>. DEFINE rdy == Forget(Tail(ready), d)
            ltr == Forget(later, d)
            h == IF horizon > 0 THEN horizon - 1 ELSE 0
            DepIs(v) == \E m \in Deps[d] : node[m].value = v
            depQueued == \E m \in Deps[d] \cap Derived : Scheduled(m, rdy, ltr)
<1>1. RecordsOK(node) /\ RecordsOK(row) /\ clock \in Nat /\ QueueOK(ready, later, horizon)
      /\ DOMAIN drain = Drains
  BY TypeParts
<1>2. QueueOK(rdy, ltr, h) /\ On(rdy) \cup On(ltr) \subseteq Due \ {d}
  <2>1. ready # << >>  BY DEF Begin
  <2>. QED  BY <1>1, <2>1, PoppedHolds
<1>3. d \in Nodes /\ node[d] \in Record(d) /\ Current(d) \in [Deps[d] -> Nat]
  BY <1>1, CurrentTyped DEF Nodes, RecordsOK
<1>4. drain[p] = Idle /\ UNCHANGED <<flushing, submissions, bounds>>  BY DEF Begin
<1>5. CASE /\ Settle(p, d, node, rdy, ltr, h) /\ UNCHANGED <<row, clock, drain>>
  <2>. HIDE DEF rdy, ltr, h
  <2>1. node' = node  BY <1>5 DEF Settle
  <2>2. /\ QueueOK(ready, later, horizon)'
        /\ Due' \subseteq On(rdy) \cup On(ltr) \cup Pends(d)
    BY <1>2, <1>5, <2>1, SettleHolds DEF Due, Pends
  <2>. QED  BY <1>2, <1>4, <1>5, <2>1, <2>2 DEF Waits
<1>6. CASE /\ DepIs(Impossible)
           /\ Complete(p, d, Impossible, Current(d), 0, rdy, ltr, h) /\ UNCHANGED drain
  <2>. DEFINE rec == Fresh(d, Impossible, Current(d), FALSE, 0)
  <2>. HIDE DEF rdy, ltr, h
  <2>1. Impossible \in Outcomes \ {Pending} /\ 0 \in 0..MaxRetries
    BY ValueAssumption, BoundsAssumption DEF Outcomes
  <2>2. /\ Moved(d, rec, Loadable(rec)) /\ QueueOK(ready, later, horizon)'
        /\ Due' \subseteq On(rdy) \cup On(ltr) \cup Entering(d)
    BY <1>1, <1>2, <1>3, <1>6, <2>1, CompleteHolds
  <2>3. rec \in Record(d)  BY <2>2 DEF Moved
  <2>4. FailsToo(d, rec)  BY <1>2, <1>6, <2>2 DEF FailsToo, DepFailed
  <2>. QED  BY <1>4, <2>2, <2>3, <2>4
<1>7. CASE /\ depQueued
           /\ LET rec == [node[d] EXCEPT !.stamp = clock + 1, !.basis = Current(d)]
              IN  Persist(d, rec) /\ Settle(p, d, [node EXCEPT ![d] = rec], rdy, ltr, h)
           /\ UNCHANGED drain
  <2>. DEFINE rec == [node[d] EXCEPT !.stamp = clock + 1, !.basis = Current(d)]
              ns == [node EXCEPT ![d] = rec]
  <2>1. rec \in Record(d) /\ rec.stamp = clock + 1
    <3>1. rec = Restamped(node[d], clock + 1, Current(d))  BY Zenon DEF Restamped
    <3>2. clock + 1 \in Nat  BY <1>1
    <3>. HIDE DEF rec
    <3>. QED  BY <1>3, <3>1, <3>2, RestampedHolds
  <2>2. PICK m \in Deps[d] \cap Derived : m \in On(rdy) \cup On(ltr)
    <3>1. rdy \in Seq(Event) /\ ltr \in Seq(Event)  BY <1>2 DEF QueueOK
    <3>. HIDE DEF rdy, ltr
    <3>. QED  BY <1>7, <3>1, ScheduledIsOn
  <2>. HIDE DEF rdy, ltr, h
  <2>3. m # d /\ m \in Due  BY <1>2, <2>2
  <2>4. Deferred(d, rec)  BY <2>2, <2>3 DEF Deferred
  <2>5. clock' = clock + 1 /\ row' = [row EXCEPT ![d] = Loadable(rec)] /\ Settle(p, d, ns, rdy, ltr, h)
    BY <1>7 DEF Persist
  <2>. HIDE DEF rec
  <2>6. node' = ns  BY <2>5 DEF Settle
  <2>7. ns = [node EXCEPT ![d] = rec]  OBVIOUS
  <2>. HIDE DEF ns
  <2>8. Moved(d, rec, Loadable(rec))
    BY <1>1, <1>3, <2>1, <2>5, <2>6, <2>7, LoadableHolds, RefreshMoves
  <2>9. /\ QueueOK(ready, later, horizon)'
        /\ Due' \subseteq On(rdy) \cup On(ltr) \cup Pends(d)
    BY <1>2, <2>5, <2>6, SettleHolds DEF Due, Pends
  <2>10. Defers(d, rec)  BY <1>2, <1>7, <2>4, <2>8, <2>9 DEF Defers
  <2>. QED  BY <1>4, <2>1, <2>9, <2>10
<1>8. CASE /\ ~DepIs(Impossible) /\ ~DepIs(Pending)
           /\ drain' = [drain EXCEPT ![p] =
                 [node |-> d, bound |-> [m \in Deps[d] |-> node[m].value], stamps |-> Current(d)]]
           /\ ready' = rdy /\ later' = ltr /\ horizon' = h
           /\ UNCHANGED <<node, row, clock, requeues>>
  <2>1. \A m \in Deps[d] : node[m].value \in Values
    <3>1. \A m \in Deps[d] : m \in Nodes  BY <1>3, GraphAssumption
    <3>2. \A m \in Deps[d] : node[m].value \in Outcomes  BY <1>1, <3>1 DEF RecordsOK, Record
    <3>. QED  BY <1>8, <3>2 DEF Outcomes
  <2>. HIDE DEF rdy, ltr, h
  <2>2. Starts(p, d)  BY <1>2, <1>8, <2>1 DEF Starts, Due
  <2>3. QueueOK(ready, later, horizon)'  BY <1>2, <1>8 DEF QueueOK
  <2>. QED  BY <1>4, <2>2, <2>3
<1>9. Current(d) = [m \in Deps[d] |-> node[m].stamp]  BY DEF Current
<1>. HIDE DEF rdy, ltr, h, depQueued, DepIs
<1>. QED  BY <1>5, <1>6, <1>7, <1>8, <1>9 DEF Begin, rdy, ltr, h, depQueued, DepIs

\* The compute of d is over: the node is as it was, or holds what it computed, or waits
\* for a retry, or gave up.
LEMMA DrainedHolds ==
    ASSUME StateOK, NEW p \in Drains, drain[p] # Idle
    PROVE  /\ drain[p].node \in Derived /\ drain[p].node \in Nodes
           /\ drain[p].bound \in [Deps[drain[p].node] -> Values]
           /\ drain[p].stamps \in [Deps[drain[p].node] -> Nat]
           /\ Compute[drain[p].node][drain[p].bound] \in Values
<1>1. PICK d \in Derived : drain[p] \in Suspended(d)  BY DEF StateOK
<1>2. drain[p].node = d /\ drain[p].bound \in [Deps[d] -> Values] /\ drain[p].stamps \in [Deps[d] -> Nat]
  BY <1>1 DEF Suspended
<1>3. Compute[d] \in [[Deps[d] -> Values] -> Values]  BY ValueAssumption
<1>4. Compute[d][drain[p].bound] \in Values  BY <1>2, <1>3
<1>. QED  BY <1>2, <1>4 DEF Nodes

Finds(d) == UNCHANGED <<node, row, clock>> /\ Due' \subseteq Due
Ends(p, d, rec) ==
    /\ Computed(p, d, rec) \/ Failed(p, d, rec)
    /\ Moved(d, rec, Loadable(rec))
    /\ Due' \subseteq Due \cup Entering(d) \cup (IF rec.retry THEN {d} ELSE {})

LEMMA SucceedEffect ==
    ASSUME StateOK, NEW p \in Drains, Succeed(p)
    PROVE  /\ QueueOK(ready, later, horizon)' /\ UNCHANGED <<flushing, submissions, bounds>>
           /\ drain[p] # Idle /\ drain' = [drain EXCEPT ![p] = Idle]
           /\ \/ /\ node[drain[p].node].value = Compute[drain[p].node][drain[p].bound]
                 /\ node[drain[p].node].basis = drain[p].stamps
                 /\ Finds(drain[p].node)
              \/ \E rec \in Record(drain[p].node) : Ends(p, drain[p].node, rec)
<1>. DEFINE d == drain[p].node
            v == Compute[d][drain[p].bound]
            stamps == drain[p].stamps
            rec == [node[d] EXCEPT !.stamp = clock + 1, !.basis = stamps]
<1>0. drain[p] # Idle  BY DEF Succeed
<1>1. /\ d \in Derived /\ d \in Nodes /\ stamps \in [Deps[d] -> Nat] /\ v \in Values
      /\ RecordsOK(node) /\ RecordsOK(row) /\ clock \in Nat /\ clock + 1 \in Nat
      /\ QueueOK(ready, later, horizon) /\ node[d] \in Record(d)
  <2>1. /\ d \in Derived /\ d \in Nodes /\ stamps \in [Deps[d] -> Nat] /\ v \in Values
    BY <1>0, DrainedHolds
  <2>. HIDE DEF d, v, stamps
  <2>. QED  BY <2>1, TypeParts DEF RecordsOK
<1>2. v \in Outcomes \ {Pending}  BY <1>1, ValueAssumption DEF Outcomes
<1>3. /\ drain' = [drain EXCEPT ![p] = Idle] /\ UNCHANGED <<flushing, submissions, bounds>>
  BY DEF Succeed
<1>4. CASE /\ node[d].value = v /\ node[d].basis = stamps
           /\ Settle(p, d, node, ready, later, horizon) /\ UNCHANGED <<row, clock>>
  <2>. HIDE DEF d, v, stamps
  <2>1. node' = node  BY <1>4 DEF Settle
  <2>2. QueueOK(ready, later, horizon)' /\ Due' \subseteq Due
    BY <1>1, <1>2, <1>4, SettleHolds DEF Due
  <2>. QED  BY <1>0, <1>3, <1>4, <2>1, <2>2 DEF Finds, d, v, stamps
<1>5. CASE /\ node[d].value = v
           /\ Persist(d, rec) /\ Settle(p, d, [node EXCEPT ![d] = rec], ready, later, horizon)
  <2>. DEFINE ns == [node EXCEPT ![d] = rec]
  <2>1. rec \in Record(d) /\ rec.stamp = clock + 1 /\ rec.value = v
    <3>. HIDE DEF d, v, stamps
    <3>1. rec = Restamped(node[d], clock + 1, stamps)  BY Zenon DEF Restamped
    <3>2. node[d].value = v  BY <1>5
    <3>. HIDE DEF rec
    <3>. QED  BY <1>1, <3>1, <3>2, RestampedHolds
  <2>2. Computed(p, d, rec)  BY <2>1 DEF Computed
  <2>. HIDE DEF rec
  <2>3. clock' = clock + 1 /\ row' = [row EXCEPT ![d] = Loadable(rec)]
        /\ Settle(p, d, ns, ready, later, horizon)
    BY <1>5 DEF Persist
  <2>. HIDE DEF d, v, stamps
  <2>4. node' = ns /\ ns = [node EXCEPT ![d] = rec]  BY <2>3 DEF Settle
  <2>5. ns[d].value # Pending  BY <1>1, <1>2, <2>1, <2>4 DEF RecordsOK
  <2>. HIDE DEF ns
  <2>6. Moved(d, rec, Loadable(rec))
    BY <1>1, <2>1, <2>3, <2>4, LoadableHolds, RefreshMoves
  <2>7. QueueOK(ready, later, horizon)' /\ Due' \subseteq Due
    BY <1>1, <2>3, <2>5, SettleHolds DEF Due
  <2>8. Ends(p, d, rec)  BY <2>2, <2>6, <2>7 DEF Ends
  <2>. QED  BY <1>0, <1>3, <2>1, <2>7, <2>8 DEF d
<1>6. CASE Complete(p, d, v, stamps, 0, ready, later, horizon)
  <2>. DEFINE new == Fresh(d, v, stamps, FALSE, 0)
  <2>0. 0 \in 0..MaxRetries  BY BoundsAssumption
  <2>1. /\ Moved(d, new, Loadable(new)) /\ QueueOK(ready, later, horizon)'
        /\ Due' \subseteq Due \cup Entering(d)
    <3>. HIDE DEF d, v, stamps
    <3>. QED  BY <1>1, <1>2, <1>6, <2>0, CompleteHolds DEF Due
  <2>2. new \in Record(d)  BY <2>1 DEF Moved
  <2>3. Computed(p, d, new)  BY DEF Computed, Fresh
  <2>4. Ends(p, d, new)  BY <2>1, <2>3 DEF Ends
  <2>. QED  BY <1>0, <1>3, <2>1, <2>2, <2>4
<1>. QED  BY <1>4, <1>5, <1>6 DEF Succeed

LEMMA FailEffect ==
    ASSUME StateOK, NEW p \in Drains, NEW kind, Fail(p, kind)
    PROVE  /\ QueueOK(ready, later, horizon)' /\ UNCHANGED <<flushing, submissions, bounds>>
           /\ drain[p] # Idle /\ drain' = [drain EXCEPT ![p] = Idle]
           /\ \E rec \in Record(drain[p].node) : Ends(p, drain[p].node, rec)
<1>. DEFINE d == drain[p].node
            stamps == drain[p].stamps
            n == RetriesAfter(kind, node[d].retries)
            rec == Fresh(d, Pending, stamps, TRUE, n)
<1>0. drain[p] # Idle  BY DEF Fail
<1>1. /\ d \in Derived /\ d \in Nodes /\ stamps \in [Deps[d] -> Nat]
      /\ RecordsOK(node) /\ RecordsOK(row) /\ clock \in Nat
      /\ QueueOK(ready, later, horizon) /\ node[d] \in Record(d)
  <2>1. d \in Derived /\ d \in Nodes /\ stamps \in [Deps[d] -> Nat]  BY <1>0, DrainedHolds
  <2>. HIDE DEF d, stamps
  <2>. QED  BY <2>1, TypeParts DEF RecordsOK
<1>2. node[d].retries \in 0..MaxRetries /\ n \in 0..MaxRetries
  <2>1. node[d].retries \in 0..MaxRetries  BY <1>1 DEF Record
  <2>. HIDE DEF d
  <2>. QED  BY <2>1, BoundsAssumption DEF RetriesAfter
<1>3. /\ drain' = [drain EXCEPT ![p] = Idle] /\ UNCHANGED <<flushing, submissions, bounds>>
      /\ d \in Flaky
  BY DEF Fail
<1>4. Impossible \in Outcomes \ {Pending}  BY ValueAssumption DEF Outcomes
<1>5. ASSUME NEW k \in 0..MaxRetries, Complete(p, d, Impossible, stamps, k, ready, later, horizon)
      PROVE  QueueOK(ready, later, horizon)' /\ \E r \in Record(d) : Ends(p, d, r)
  <2>. DEFINE new == Fresh(d, Impossible, stamps, FALSE, k)
  <2>1. /\ Moved(d, new, Loadable(new)) /\ QueueOK(ready, later, horizon)'
        /\ Due' \subseteq Due \cup Entering(d)
    <3>. HIDE DEF d, stamps
    <3>. QED  BY <1>1, <1>4, <1>5, CompleteHolds DEF Due
  <2>2. new \in Record(d)  BY <2>1 DEF Moved
  <2>3. Failed(p, d, new)  BY <1>3 DEF Failed
  <2>4. Ends(p, d, new)  BY <2>1, <2>3 DEF Ends
  <2>. QED  BY <2>1, <2>2, <2>4
<1>6. ASSUME n < MaxRetries, Persist(d, rec), NEW i \in 1..(Len(later) + 1),
             Settle(p, d, [node EXCEPT ![d] = rec], ready,
                    IF Scheduled(d, ready, later) THEN later ELSE InsertAt(later, i, Live(d)), horizon)
      PROVE  QueueOK(ready, later, horizon)' /\ \E r \in Record(d) : Ends(p, d, r)
  <2>. DEFINE ns == [node EXCEPT ![d] = rec]
              ltr == IF Scheduled(d, ready, later) THEN later ELSE InsertAt(later, i, Live(d))
  <2>1. rec \in Record(d) /\ rec.stamp = clock + 1 /\ rec.retry
    <3>1. Pending \in Outcomes /\ clock + 1 \in Nat  BY <1>1 DEF Outcomes
    <3>. HIDE DEF d, stamps, n
    <3>. QED  BY <1>1, <1>2, <3>1 DEF Fresh, Record
  <2>2. Failed(p, d, rec)  BY <1>2, <1>3, <1>6 DEF Failed
  <2>. HIDE DEF rec
  <2>3. clock' = clock + 1 /\ row' = [row EXCEPT ![d] = Loadable(rec)]
        /\ Settle(p, d, ns, ready, ltr, horizon)
    BY <1>6 DEF Persist
  <2>. HIDE DEF d, n, stamps
  <2>4. node' = ns /\ ns = [node EXCEPT ![d] = rec]  BY <2>3 DEF Settle
  <2>. HIDE DEF ns
  <2>5. Moved(d, rec, Loadable(rec))
    BY <1>1, <2>1, <2>3, <2>4, LoadableHolds, RefreshMoves
  <2>6. ltr \in Seq(Event) /\ On(ltr) \subseteq On(later) \cup {d}
    <3>1. later \in Seq(Event)  BY <1>1 DEF QueueOK
    <3>2. Live(d) \in Event /\ Live(d).node = d  BY <1>1 DEF Live, Event
    <3>3. /\ InsertAt(later, i, Live(d)) \in Seq(Event)
          /\ On(InsertAt(later, i, Live(d))) \subseteq On(later) \cup {d}
      BY <3>1, <3>2, InsertAtHolds, OnInsert
    <3>. QED  BY <3>1, <3>3
  <2>. HIDE DEF ltr
  <2>7. QueueOK(ready, ltr, horizon)  BY <1>1, <2>6 DEF QueueOK
  <2>8. QueueOK(ready, later, horizon)' /\ Due' \subseteq Due \cup {d}
    BY <1>1, <2>3, <2>6, <2>7, SettleHolds DEF Due
  <2>9. Ends(p, d, rec)  BY <2>1, <2>2, <2>5, <2>8 DEF Ends
  <2>. QED  BY <2>1, <2>8, <2>9
<1>7. QueueOK(ready, later, horizon)' /\ \E r \in Record(d) : Ends(p, d, r)
  BY <1>2, <1>5, <1>6 DEF Fail
<1>. QED  BY <1>0, <1>3, <1>7

\* The row of an input takes the submitted value; a push takes it into memory as well.
Lands(u, s, mem, disk) ==
    /\ Moved(u, mem, disk) /\ disk.value = s.value
    /\ mem.value = (IF s.kind = "push" THEN s.value ELSE node[u].value)
    /\ mem.basis = node[u].basis
    /\ Due' \subseteq Due \cup Entering(u)

LEMMA RunSubmissionEffect ==
    ASSUME StateOK, RunSubmission
    PROVE  /\ QueueOK(ready, later, horizon)' /\ UNCHANGED <<drain, flushing, bounds>>
           /\ submissions # << >> /\ submissions' = Tail(submissions)
           /\ submissions' \in Seq(Submission) /\ Head(submissions) \in Submission
           /\ \E mem, disk \in Record(Head(submissions).node) :
                 Lands(Head(submissions).node, Head(submissions), mem, disk)
<1>. DEFINE s == Head(submissions)
            u == s.node
            v == IF s.kind = "push" THEN s.value ELSE node[u].value
            ns == [node EXCEPT ![u].value = v, ![u].stamp = clock + 1]
            disk == Loadable([ns[u] EXCEPT !.value = s.value])
            w == Woken(u, ns, ready, later)
<1>1. /\ RecordsOK(node) /\ RecordsOK(row) /\ clock \in Nat /\ QueueOK(ready, later, horizon)
      /\ submissions \in Seq(Submission)
  BY TypeParts
<1>2. submissions # << >> /\ submissions' = Tail(submissions) /\ UNCHANGED <<drain, flushing, bounds>>
  BY DEF RunSubmission
<1>3. s \in Submission /\ Tail(submissions) \in Seq(Submission)  BY <1>1, <1>2
<1>4. u \in Inputs /\ s.value \in Outcomes
  <2>. HIDE DEF s
  <2>. QED  BY <1>3 DEF Submission, Outcomes
<1>5. /\ node' = Notified(u, ns) /\ ready' = ready \o w
      /\ clock' = clock + 1 /\ row' = [row EXCEPT ![u] = disk]
      /\ UNCHANGED <<later, requeues, horizon>>
  BY DEF RunSubmission, Persist
<1>. HIDE DEF s
<1>6. u \in Nodes /\ node[u] \in Record(u) /\ v \in Outcomes /\ clock + 1 \in Nat
  <2>1. u \in Nodes  BY <1>4 DEF Nodes
  <2>2. node[u] \in Record(u)  BY <1>1, <2>1 DEF RecordsOK
  <2>3. node[u].value \in Outcomes  BY <2>2 DEF Record
  <2>. QED  BY <1>1, <1>4, <2>1, <2>2, <2>3
<1>. HIDE DEF u, v
<1>7. /\ DOMAIN ns = Nodes /\ \A m \in Nodes \ {u} : ns[m] = node[m]
      /\ ns[u] \in Record(u) /\ ns[u].value = v /\ ns[u].stamp = clock + 1
      /\ ns[u].basis = node[u].basis /\ ns[u].retry = node[u].retry
  BY <1>1, <1>6 DEF RecordsOK, Record
<1>. HIDE DEF ns
<1>8. /\ disk \in Record(u) /\ disk.value = s.value /\ disk.stamp = clock + 1
      /\ disk.basis = ns[u].basis /\ disk.retry = ns[u].retry
      /\ disk.retries \in {ns[u].retries, 0}
  <2>. DEFINE r == [ns[u] EXCEPT !.value = s.value]
  <2>1. /\ r \in Record(u) /\ r.value = s.value /\ r.stamp = ns[u].stamp
        /\ r.basis = ns[u].basis /\ r.retry = ns[u].retry /\ r.retries = ns[u].retries
    BY <1>4, <1>7 DEF Record
  <2>. HIDE DEF r
  <2>2. /\ Loadable(r) \in Record(u) /\ Loadable(r).value = s.value /\ Loadable(r).stamp = clock + 1
        /\ Loadable(r).basis = ns[u].basis /\ Loadable(r).retry = ns[u].retry
        /\ Loadable(r).retries \in {ns[u].retries, 0}
    BY <1>7, <2>1, LoadableHolds
  <2>. QED  BY <2>2 DEF r
<1>. HIDE DEF disk
<1>9. Moved(u, ns[u], disk) /\ \A m \in Nodes : Like(node'[m], ns[m])
  BY <1>1, <1>5, <1>6, <1>7, <1>8, WritingMoves
<1>10. ready \in Seq(Event) /\ later \in Seq(Event) /\ horizon \in 0..Len(ready)
       /\ requeues \in [Derived -> 0..Registered]
  BY <1>1 DEF QueueOK
<1>11. /\ ready' \in Seq(Event) /\ Len(ready') >= Len(ready)
       /\ On(ready') \subseteq On(ready) \cup Entering(u)
  BY <1>5, <1>6, <1>9, <1>10, WokenHolds
<1>12. QueueOK(ready, later, horizon)' /\ Due' \subseteq Due \cup Entering(u)
  BY <1>5, <1>10, <1>11 DEF QueueOK, Due
<1>13. Lands(u, s, ns[u], disk)  BY <1>7, <1>8, <1>9, <1>12 DEF Lands, v
<1>. QED  BY <1>2, <1>3, <1>7, <1>8, <1>12, <1>13 DEF s, u

\* A restart queues what its rows leave stale.
LEMMA RestartEffect ==
    ASSUME StateOK, Restart
    PROVE  /\ QueueOK(ready, later, horizon)'
           /\ node' = row /\ UNCHANGED <<row, clock>> /\ submissions' = << >> /\ flushing' = FALSE
           /\ drain' = [p \in Drains |-> Idle]
           /\ Crashes \/ submissions = << >>
           /\ Due' \subseteq {e \in Derived : Stale(e, node')}
<1>1. PICK waiting \in SUBSET {d \in Derived : row[d].retry} : Register(row, waiting)
  BY DEF Restart
<1>. DEFINE S == {d \in Derived \ waiting : Stale(d, row)}
<1>2. ready' = Events(S) /\ later' = Events(waiting)  BY <1>1 DEF Register
<1>3. /\ ready' \in Seq(Event) /\ On(ready') \subseteq S
      /\ later' \in Seq(Event) /\ On(later') \subseteq waiting
  BY <1>2, OnEvents
<1>4. \A e \in waiting : Stale(e, row)  BY DEF Stale
<1>5. horizon' = 0 /\ requeues' \in [Derived -> 0..Registered]  BY BoundsAssumption DEF Restart
<1>6. QueueOK(ready, later, horizon)'  BY <1>3, <1>5 DEF QueueOK
<1>7. node' = row  BY DEF Restart
<1>8. Due' \subseteq {e \in Derived : Stale(e, node')}  BY <1>3, <1>4, <1>7 DEF Due
<1>. QED  BY <1>6, <1>7, <1>8 DEF Restart

-----------------------------------------------------------------------------
(***************************************************************************)
(* The first invariant: types, rows that follow memory, stamps that grow   *)
(* and retries that have budget.                                           *)
(***************************************************************************)

\* The row of a node carries its stamp, its basis and its retry, and for a derived node
\* its value.
Follows ==
    \A n \in Nodes :
        /\ row[n].stamp = node[n].stamp /\ row[n].basis = node[n].basis
        /\ row[n].retry = node[n].retry
        /\ n \in Derived => /\ row[n].value = node[n].value
                            /\ row[n].retry => row[n].retries < MaxRetries

\* No stamp is later than the clock, and nothing was computed from a later one than its
\* dependency has.
StampsOK ==
    /\ \A n \in Nodes : node[n].stamp <= clock
    /\ \A n \in Nodes : \A m \in Deps[n] : node[n].basis[m] <= node[m].stamp
    /\ \A p \in Drains : drain[p] # Idle =>
          \A m \in Deps[drain[p].node] : drain[p].stamps[m] <= node[m].stamp

Base == StateOK /\ Follows /\ StampsOK /\ RetryHasBudget

LEMMA RecordFields ==
    ASSUME RecordsOK(node), RecordsOK(row), NEW n \in Nodes
    PROVE  /\ node[n].stamp \in Nat /\ node[n].basis \in [Deps[n] -> Nat] /\ Deps[n] \subseteq Nodes
           /\ node[n].value \in Outcomes /\ node[n].retries \in 0..MaxRetries
           /\ row[n].stamp \in Nat /\ row[n].value \in Outcomes /\ row[n].retries \in 0..MaxRetries
BY GraphAssumption DEF RecordsOK, Record

\* A write keeps all that, when what it writes does.
LEMMA MovedBase ==
    ASSUME Base, NEW n \in Nodes, NEW mem, NEW disk, Moved(n, mem, disk),
           \A m \in Deps[n] : mem.basis[m] <= node[m].stamp,
           n \in Derived => /\ disk.value = mem.value
                            /\ mem.retry => mem.value = Pending /\ mem.retries < MaxRetries,
           \A p \in Drains : drain'[p] \in {Idle, drain[p]}
    PROVE  Follows' /\ StampsOK' /\ RetryHasBudget'
<1>1. RecordsOK(node) /\ RecordsOK(row) /\ clock \in Nat  BY TypeParts DEF Base
<1>2. \A m \in Nodes : Deps[m] \subseteq Nodes /\ node[m].stamp \in Nat  BY <1>1, RecordFields
<1>3. Follows'
  <2>1. ASSUME NEW m \in Nodes PROVE
          /\ row'[m].stamp = node'[m].stamp /\ row'[m].basis = node'[m].basis
          /\ row'[m].retry = node'[m].retry
          /\ m \in Derived => /\ row'[m].value = node'[m].value
                              /\ row'[m].retry => row'[m].retries < MaxRetries
    <3>1. CASE m = n  BY <3>1, BoundsAssumption DEF Moved, Like, Record
    <3>2. CASE m # n  BY <3>2 DEF Moved, Like, Base, Follows
    <3>. QED  BY <3>1, <3>2
  <2>. QED  BY <2>1 DEF Follows
<1>4. /\ node'[n].stamp = clock + 1 /\ \A m \in Nodes \ {n} : node'[m].stamp = node[m].stamp
      /\ clock' = clock + 1
  BY DEF Moved, Like
<1>5. \A m \in Nodes : node[m].stamp <= clock  BY DEF Base, StampsOK
<1>6. \A m \in Nodes : node'[m].stamp <= clock' /\ node[m].stamp <= node'[m].stamp
  BY <1>1, <1>2, <1>4, <1>5
<1>7. ASSUME NEW m \in Nodes, NEW e \in Deps[m] PROVE node'[m].basis[e] <= node'[e].stamp
  <2>1. e \in Nodes /\ node[e].stamp <= node'[e].stamp /\ node[e].stamp \in Nat /\ node'[e].stamp \in Int
    BY <1>1, <1>2, <1>4, <1>6
  <2>2. node'[m].basis \in [Deps[m] -> Nat]  BY DEF Moved, Record
  <2>3. node'[m].basis[e] <= node[e].stamp
    <3>1. CASE m = n  BY <3>1 DEF Moved, Like
    <3>2. CASE m # n  BY <3>2 DEF Moved, Like, Base, StampsOK
    <3>. QED  BY <3>1, <3>2
  <2>. QED  BY <2>1, <2>2, <2>3
<1>8. ASSUME NEW p \in Drains, drain'[p] # Idle, NEW m \in Deps[drain'[p].node]
      PROVE  drain'[p].stamps[m] <= node'[m].stamp
  <2>1. drain'[p] = drain[p]  BY <1>8
  <2>2. drain[p].node \in Nodes /\ drain[p].stamps \in [Deps[drain[p].node] -> Nat]
    BY <1>8, <2>1, DrainedHolds DEF Base
  <2>3. m \in Nodes /\ node[m].stamp <= node'[m].stamp /\ node[m].stamp \in Nat /\ node'[m].stamp \in Int
    BY <1>1, <1>2, <1>4, <1>6, <1>8, <2>1, <2>2
  <2>4. drain[p].stamps[m] <= node[m].stamp  BY <1>8, <2>1 DEF Base, StampsOK
  <2>. QED  BY <1>8, <2>1, <2>2, <2>3, <2>4
<1>9. StampsOK'  BY <1>6, <1>7, <1>8 DEF StampsOK
<1>10. RetryHasBudget'
  <2>1. ASSUME NEW d \in Derived, node'[d].retry
        PROVE  node'[d].value = Pending /\ node'[d].retries < MaxRetries
    <3>0. d \in Nodes /\ 0 < MaxRetries  BY BoundsAssumption DEF Nodes
    <3>1. CASE d = n  BY <2>1, <3>0, <3>1 DEF Moved, Like
    <3>2. CASE d # n  BY <2>1, <3>0, <3>2 DEF Moved, Like, Base, RetryHasBudget
    <3>. QED  BY <3>1, <3>2
  <2>. QED  BY <2>1 DEF RetryHasBudget
<1>. QED  BY <1>3, <1>9, <1>10

\* What a refresh writes is computed from stamps that were there, and a retry it writes
\* belongs to a pending node with budget left.
LEMMA RefreshIsSound ==
    ASSUME Base, NEW p \in Drains, NEW d \in Derived, NEW rec,
           \/ DepFailed(d, rec) \/ Deferred(d, rec)
           \/ drain[p] # Idle /\ drain[p].node = d /\ (Computed(p, d, rec) \/ Failed(p, d, rec))
    PROVE  /\ \A m \in Deps[d] : rec.basis[m] <= node[m].stamp
           /\ rec.retry => rec.value = Pending /\ rec.retries < MaxRetries
<1>1. /\ RecordsOK(node) /\ RecordsOK(row) /\ clock \in Nat /\ d \in Nodes
  BY TypeParts DEF Base, Nodes
<1>2. \A m \in Deps[d] : node[m].stamp \in Nat  BY <1>1, RecordFields
<1>3. \A m \in Deps[d] : Current(d)[m] <= node[m].stamp  BY <1>2 DEF Current
<1>4. drain[p] # Idle /\ drain[p].node = d => \A m \in Deps[d] : drain[p].stamps[m] <= node[m].stamp
  BY DEF Base, StampsOK
<1>5. node[d].retry => node[d].value = Pending /\ node[d].retries < MaxRetries
  BY DEF Base, RetryHasBudget
<1>6. node[d] \in Record(d)  BY <1>1 DEF RecordsOK
<1>7. ASSUME NEW v, NEW b, NEW n,
             b = Current(d) \/ (b = drain[p].stamps /\ drain[p] # Idle /\ drain[p].node = d),
             \/ rec = Fresh(d, v, b, FALSE, n)
             \/ rec = Fresh(d, Pending, b, TRUE, n) /\ n < MaxRetries
      PROVE  /\ \A m \in Deps[d] : rec.basis[m] <= node[m].stamp
             /\ rec.retry => rec.value = Pending /\ rec.retries < MaxRetries
  BY <1>3, <1>4, <1>7 DEF Fresh
<1>8. ASSUME NEW b, rec = Restamped(node[d], clock + 1, b),
             b = Current(d) \/ (b = drain[p].stamps /\ drain[p] # Idle /\ drain[p].node = d)
      PROVE  /\ \A m \in Deps[d] : rec.basis[m] <= node[m].stamp
             /\ rec.retry => rec.value = Pending /\ rec.retries < MaxRetries
  <2>1. b \in [Deps[d] -> Nat]  BY <1>1, <1>8, CurrentTyped, DrainedHolds DEF Base
  <2>2. /\ rec.basis = b /\ rec.value = node[d].value /\ rec.retry = node[d].retry
        /\ rec.retries = node[d].retries
    <3>1. clock + 1 \in Nat  BY <1>1
    <3>. QED  BY <1>6, <1>8, <2>1, <3>1, RestampedHolds
  <2>. QED  BY <1>3, <1>4, <1>5, <1>8, <2>2
<1>9. CASE DepFailed(d, rec)
  <2>1. rec = Fresh(d, Impossible, Current(d), FALSE, 0)  BY <1>9 DEF DepFailed
  <2>. QED  BY <1>7, <2>1, Zenon
<1>10. CASE Deferred(d, rec)
  <2>1. rec = Restamped(node[d], clock + 1, Current(d))  BY <1>10, Zenon DEF Deferred, Restamped
  <2>. QED  BY <1>8, <2>1, Zenon
<1>11. CASE drain[p] # Idle /\ drain[p].node = d /\ Computed(p, d, rec)
  <2>1. \/ rec = Fresh(d, Compute[d][drain[p].bound], drain[p].stamps, FALSE, 0)
        \/ rec = Restamped(node[d], clock + 1, drain[p].stamps)
    BY <1>11, Zenon DEF Computed, Restamped
  <2>. QED  BY <1>7, <1>8, <1>11, <2>1
<1>12. CASE drain[p] # Idle /\ drain[p].node = d /\ Failed(p, d, rec)  BY <1>7, <1>12 DEF Failed
<1>. QED  BY <1>9, <1>10, <1>11, <1>12

DrainsOK(d) ==
    /\ DOMAIN d = Drains
    /\ \A p \in Drains : d[p] = Idle \/ \E n \in Derived : d[p] \in Suspended(n)

LEMMA TypesStay ==
    ASSUME RecordsOK(node'), RecordsOK(row'), clock' \in Nat, QueueOK(ready, later, horizon)',
           DrainsOK(drain'), flushing' \in BOOLEAN, submissions' \in Seq(Submission)
    PROVE  StateOK'
BY DEF StateOK, RecordsOK, QueueOK, DrainsOK

\* A drain that ends leaves the others alone.
LEMMA DrainEnds ==
    ASSUME StateOK, NEW p, drain' = [drain EXCEPT ![p] = Idle]
    PROVE  DrainsOK(drain') /\ \A q \in Drains : drain'[q] \in {Idle, drain[q]}
BY DEF StateOK, DrainsOK

\* A step that writes no record and starts no compute.
LEMMA UnmovedBase ==
    ASSUME Base, UNCHANGED <<node, row, clock>>, QueueOK(ready, later, horizon)',
           DrainsOK(drain'), \A p \in Drains : drain'[p] \in {Idle, drain[p]},
           flushing' \in BOOLEAN, submissions' \in Seq(Submission)
    PROVE  Base'
<1>1. StateOK'  BY TypesStay, TypeParts DEF Base
<1>2. Follows' /\ RetryHasBudget'  BY DEF Base, Follows, RetryHasBudget
<1>3. StampsOK'  BY DEF Base, StampsOK
<1>. QED  BY <1>1, <1>2, <1>3 DEF Base

\* A refresh that writes.
LEMMA RefreshedBase ==
    ASSUME Base, NEW p \in Drains, NEW d \in Derived, NEW rec \in Record(d),
           \/ DepFailed(d, rec) \/ Deferred(d, rec)
           \/ drain[p] # Idle /\ drain[p].node = d /\ (Computed(p, d, rec) \/ Failed(p, d, rec)),
           Moved(d, rec, Loadable(rec)), QueueOK(ready, later, horizon)',
           drain' \in {drain, [drain EXCEPT ![p] = Idle]}, UNCHANGED <<flushing, submissions>>
    PROVE  Base'
<1>1. DrainsOK(drain') /\ \A q \in Drains : drain'[q] \in {Idle, drain[q]}
  BY DrainEnds DEF Base, StateOK, DrainsOK
<1>2. /\ \A m \in Deps[d] : rec.basis[m] <= node[m].stamp
      /\ rec.retry => rec.value = Pending /\ rec.retries < MaxRetries
  BY RefreshIsSound
<1>3. Loadable(rec).value = rec.value /\ d \in Nodes  BY LoadableHolds DEF Nodes
<1>4. Follows' /\ StampsOK' /\ RetryHasBudget'  BY <1>1, <1>2, <1>3, MovedBase
<1>5. RecordsOK(node') /\ RecordsOK(row') /\ clock' \in Nat
  BY TypeParts DEF Moved, RecordsOK, Base
<1>6. flushing' \in BOOLEAN /\ submissions' \in Seq(Submission)  BY DEF Base, StateOK
<1>7. StateOK'  BY <1>1, <1>5, <1>6, TypesStay
<1>. QED  BY <1>4, <1>7 DEF Base

LEMMA EditBase ==
    ASSUME Base, NEW u \in Inputs, NEW v \in Values \cup {Impossible}, Push(u, v) \/ SubmitPush(u, v)
    PROVE  Base'
<1>. DEFINE Sent(kind) == [kind |-> kind, node |-> u, value |-> v]
<1>1. /\ RecordsOK(node) /\ RecordsOK(row) /\ clock \in Nat /\ QueueOK(ready, later, horizon)
      /\ DrainsOK(drain) /\ flushing \in BOOLEAN /\ submissions \in Seq(Submission)
  BY TypeParts DEF Base, DrainsOK
<1>2. Sent("apply") \in Submission /\ Sent("push") \in Submission  BY DEF Submission
<1>. HIDE DEF Sent
<1>3. submissions' \in Seq(Submission)
  <2>1. submissions' = Append(submissions, Sent("apply")) \/ submissions' = Append(submissions, Sent("push"))
    BY DEF Push, SubmitPush, Sent
  <2>. QED  BY <1>1, <1>2, <2>1
<1>4. UNCHANGED <<row, clock, ready, later, requeues, horizon, drain, flushing>>
  BY DEF Push, SubmitPush, queueVars
<1>5. QueueOK(ready, later, horizon)' /\ DrainsOK(drain') /\ flushing' \in BOOLEAN
  BY <1>1, <1>4 DEF QueueOK
<1>6. CASE node' = node  BY <1>1, <1>3, <1>4, <1>5, <1>6, UnmovedBase
<1>7. CASE node' = [node EXCEPT ![u].value = v]
  <2>0. u \in Nodes /\ u \notin Derived /\ v \in Outcomes  BY GraphAssumption DEF Nodes, Outcomes
  <2>1. /\ DOMAIN node' = Nodes
        /\ \A m \in Nodes : /\ node'[m] \in Record(m)
                            /\ node'[m].stamp = node[m].stamp /\ node'[m].basis = node[m].basis
                            /\ node'[m].retry = node[m].retry
                            /\ m # u => node'[m] = node[m]
    BY <1>1, <1>7, <2>0 DEF RecordsOK, Record
  <2>2. StateOK'  BY <1>1, <1>3, <1>4, <1>5, <2>1, TypesStay DEF RecordsOK
  <2>3. Follows'
    <3>1. ASSUME NEW n \in Nodes PROVE
            /\ row'[n].stamp = node'[n].stamp /\ row'[n].basis = node'[n].basis
            /\ row'[n].retry = node'[n].retry
            /\ n \in Derived => /\ row'[n].value = node'[n].value
                                /\ row'[n].retry => row'[n].retries < MaxRetries
      BY <1>4, <2>0, <2>1 DEF Base, Follows
    <3>. QED  BY <3>1 DEF Follows
  <2>4. RetryHasBudget'  BY <2>0, <2>1 DEF Base, RetryHasBudget, Nodes
  <2>5. StampsOK'
    <3>1. \A n \in Nodes : node'[n].stamp <= clock'  BY <1>4, <2>1 DEF Base, StampsOK
    <3>2. \A n \in Nodes : \A m \in Deps[n] : node'[n].basis[m] <= node'[m].stamp
      BY <2>1, GraphAssumption DEF Base, StampsOK
    <3>3. ASSUME NEW p \in Drains, drain[p] # Idle, NEW m \in Deps[drain[p].node]
          PROVE  drain[p].stamps[m] <= node'[m].stamp
      <4>1. m \in Nodes  BY <3>3, DrainedHolds, GraphAssumption DEF Base
      <4>2. drain[p].stamps[m] <= node[m].stamp  BY <3>3 DEF Base, StampsOK
      <4>. QED  BY <2>1, <4>1, <4>2
    <3>. QED  BY <1>4, <3>1, <3>2, <3>3 DEF StampsOK
  <2>. QED  BY <2>2, <2>3, <2>4, <2>5 DEF Base
<1>. QED  BY <1>6, <1>7 DEF Push, SubmitPush

LEMMA RunSubmissionBase ==
    ASSUME Base, RunSubmission
    PROVE  Base'
<1>. DEFINE s == Head(submissions)
            u == s.node
<1>1. /\ QueueOK(ready, later, horizon)' /\ UNCHANGED <<drain, flushing>>
      /\ submissions' \in Seq(Submission) /\ s \in Submission
  BY RunSubmissionEffect DEF Base
<1>2. PICK mem \in Record(u), disk \in Record(u) : Lands(u, s, mem, disk)
  BY RunSubmissionEffect DEF Base
<1>. HIDE DEF s
<1>3. u \in Nodes /\ u \notin Derived /\ Deps[u] = {}  BY <1>1, GraphAssumption DEF Submission, Nodes
<1>. HIDE DEF u
<1>4. Moved(u, mem, disk)  BY <1>2 DEF Lands
<1>5. \A p \in Drains : drain'[p] \in {Idle, drain[p]}  BY <1>1
<1>6. Follows' /\ StampsOK' /\ RetryHasBudget'  BY <1>3, <1>4, <1>5, MovedBase
<1>7. RecordsOK(node') /\ RecordsOK(row') /\ clock' \in Nat
  BY <1>4, TypeParts DEF Moved, RecordsOK, Base
<1>8. StateOK'  BY <1>1, <1>7, TypesStay, TypeParts DEF Base, DrainsOK
<1>. QED  BY <1>6, <1>8 DEF Base

LEMMA BeginBase ==
    ASSUME Base, NEW p \in Drains, NEW d \in Derived, Begin(p, d)
    PROVE  Base'
<1>1. /\ QueueOK(ready, later, horizon)' /\ UNCHANGED <<flushing, submissions>> /\ drain[p] = Idle
      /\ flushing \in BOOLEAN /\ submissions \in Seq(Submission) /\ DrainsOK(drain)
      /\ RecordsOK(node) /\ RecordsOK(row) /\ clock \in Nat
  BY BeginEffect, TypeParts DEF Base, DrainsOK
<1>2. CASE Waits(d)  BY <1>1, <1>2, UnmovedBase DEF Waits
<1>3. CASE \E rec \in Record(d) : FailsToo(d, rec) \/ Defers(d, rec)
  BY <1>1, <1>3, RefreshedBase DEF FailsToo, Defers
<1>4. CASE Starts(p, d)
  <2>. DEFINE bound == [m \in Deps[d] |-> node[m].value]
              new == [node |-> d, bound |-> bound, stamps |-> Current(d)]
  <2>1. /\ UNCHANGED <<node, row, clock>> /\ bound \in [Deps[d] -> Values]
        /\ drain' = [drain EXCEPT ![p] = new]
    BY <1>4 DEF Starts
  <2>2. Current(d) \in [Deps[d] -> Nat]  BY <1>1, CurrentTyped
  <2>3. new \in Suspended(d) /\ new.node = d /\ new.stamps = Current(d)  BY <2>1, <2>2 DEF Suspended
  <2>. HIDE DEF new
  <2>4. DrainsOK(drain')  BY <1>1, <2>1, <2>3 DEF DrainsOK
  <2>5. StateOK'  BY <1>1, <2>1, <2>4, TypesStay
  <2>6. Follows' /\ RetryHasBudget'  BY <2>1 DEF Base, Follows, RetryHasBudget
  <2>7. StampsOK'
    <3>1. \A m \in Deps[d] : Current(d)[m] <= node[m].stamp
      <4>1. \A m \in Deps[d] : node[m].stamp \in Nat
        BY <1>1, GraphAssumption DEF RecordsOK, Record, Nodes
      <4>. QED  BY <4>1 DEF Current
    <3>2. ASSUME NEW q \in Drains, drain'[q] # Idle, NEW m \in Deps[drain'[q].node]
          PROVE  drain'[q].stamps[m] <= node'[m].stamp
      <4>1. CASE q = p  BY <1>1, <2>1, <2>3, <3>1, <3>2, <4>1 DEF DrainsOK
      <4>2. CASE q # p  BY <1>1, <2>1, <3>2, <4>2 DEF DrainsOK, Base, StampsOK
      <4>. QED  BY <4>1, <4>2
    <3>. QED  BY <2>1, <3>2 DEF Base, StampsOK
  <2>. QED  BY <2>5, <2>6, <2>7 DEF Base
<1>. QED  BY <1>2, <1>3, <1>4, BeginEffect DEF Base

LEMMA EndBase ==
    ASSUME Base, NEW p \in Drains, NEW kind, Succeed(p) \/ Fail(p, kind)
    PROVE  Base'
<1>. DEFINE d == drain[p].node
<1>1. /\ QueueOK(ready, later, horizon)' /\ UNCHANGED <<flushing, submissions>>
      /\ drain[p] # Idle /\ drain' = [drain EXCEPT ![p] = Idle]
      /\ Finds(d) \/ \E rec \in Record(d) : Ends(p, d, rec)
  BY SucceedEffect, FailEffect DEF Base
<1>2. /\ flushing \in BOOLEAN /\ submissions \in Seq(Submission) /\ d \in Derived
      /\ DrainsOK(drain') /\ \A q \in Drains : drain'[q] \in {Idle, drain[q]}
  BY <1>1, DrainEnds, DrainedHolds, TypeParts DEF Base
<1>3. CASE Finds(d)  BY <1>1, <1>2, <1>3, UnmovedBase DEF Finds
<1>4. CASE \E rec \in Record(d) : Ends(p, d, rec)  BY <1>1, <1>2, <1>4, RefreshedBase DEF Ends
<1>. QED  BY <1>1, <1>3, <1>4

\* The steps that only move events or flags.
LEMMA OtherBase ==
    ASSUME Base, Tick \/ StartFlush \/ EndFlush \/ UNCHANGED vars
    PROVE  Base' /\ UNCHANGED <<node, row, clock, drain, submissions>> /\ Due' \subseteq Due
<1>1. /\ RecordsOK(node) /\ RecordsOK(row) /\ clock \in Nat /\ QueueOK(ready, later, horizon)
      /\ DrainsOK(drain) /\ flushing \in BOOLEAN /\ submissions \in Seq(Submission)
  BY TypeParts DEF Base, DrainsOK
<1>2. UNCHANGED <<node, row, clock, drain, submissions, requeues>>
  BY DEF Tick, StartFlush, EndFlush, vars, queueVars
<1>3. QueueOK(ready, later, horizon)' /\ Due' \subseteq Due
  <2>1. CASE Tick
    <3>. DEFINE e == Head(later)
    <3>1. /\ e \in Event /\ Tail(later) \in Seq(Event) /\ On(Tail(later)) \subseteq On(later)
          /\ e.live => e.node \in On(later)
      BY <1>1, <2>1, OnTail DEF Tick, QueueOK
    <3>. HIDE DEF e
    <3>2. ready' = Append(ready, e) /\ later' = Tail(later) /\ horizon' = horizon
      BY <2>1 DEF Tick, e
    <3>3. /\ ready \in Seq(Event) /\ horizon \in 0..Len(ready) /\ requeues \in [Derived -> 0..Registered]
      BY <1>1 DEF QueueOK
    <3>4. /\ ready' \in Seq(Event) /\ Len(ready') = Len(ready) + 1
          /\ On(ready') \subseteq On(ready) \cup (IF e.live THEN {e.node} ELSE {})
      BY <3>1, <3>2, <3>3, OnAppend
    <3>. QED  BY <1>2, <3>1, <3>2, <3>3, <3>4 DEF QueueOK, Due
  <2>2. CASE StartFlush
    <3>1. UNCHANGED <<ready, later>> /\ horizon' = Len(ready)  BY <2>2 DEF StartFlush
    <3>. QED  BY <1>1, <1>2, <3>1 DEF QueueOK, Due
  <2>3. CASE EndFlush \/ UNCHANGED vars
    <3>1. UNCHANGED <<ready, later, horizon>>  BY <2>3 DEF EndFlush, vars, queueVars
    <3>. QED  BY <1>1, <1>2, <3>1 DEF QueueOK, Due
  <2>. QED  BY <2>1, <2>2, <2>3
<1>4. flushing' \in BOOLEAN  BY <1>1 DEF Tick, StartFlush, EndFlush, vars
<1>. QED  BY <1>1, <1>2, <1>3, <1>4, UnmovedBase

LEMMA RestartBase ==
    ASSUME Base, Restart
    PROVE  Base'
<1>1. /\ QueueOK(ready, later, horizon)'
      /\ node' = row /\ UNCHANGED <<row, clock>> /\ submissions' = << >> /\ flushing' = FALSE
      /\ drain' = [p \in Drains |-> Idle]
  BY RestartEffect DEF Base
<1>2. RecordsOK(node) /\ RecordsOK(row) /\ clock \in Nat  BY TypeParts DEF Base
<1>3. StateOK'
  <2>1. DrainsOK(drain')  BY <1>1 DEF DrainsOK
  <2>2. RecordsOK(node') /\ RecordsOK(row') /\ clock' \in Nat  BY <1>1, <1>2
  <2>3. submissions' \in Seq(Submission) /\ flushing' \in BOOLEAN
    <3>1. << >> \in Seq(Submission)  OBVIOUS
    <3>. QED  BY <1>1, <3>1
  <2>. QED  BY <1>1, <2>1, <2>2, <2>3, TypesStay
<1>4. Follows'  BY <1>1 DEF Base, Follows
<1>5. StampsOK'
  <2>1. \A n \in Nodes : row[n].stamp = node[n].stamp /\ row[n].basis = node[n].basis
    BY DEF Base, Follows
  <2>2. \A n \in Nodes : \A m \in Deps[n] : m \in Nodes  BY GraphAssumption
  <2>. QED  BY <1>1, <2>1, <2>2 DEF Base, StampsOK
<1>6. RetryHasBudget'  BY <1>1 DEF Base, Follows, RetryHasBudget, Nodes
<1>. QED  BY <1>3, <1>4, <1>5, <1>6 DEF Base

LEMMA InitBase ==
    ASSUME Init
    PROVE  Base
<1>1. \A n \in Nodes : /\ node[n].value = (IF n \in Inputs THEN Initial[n] ELSE Pending)
                       /\ node[n].stamp = (IF n \in Inputs /\ Initial[n] # Pending THEN 1 ELSE 0)
                       /\ node[n].basis = [m \in Deps[n] |-> 0]
                       /\ node[n].retry = FALSE /\ node[n].retries = 0
  BY DEF Init
<1>2. RecordsOK(node)
  <2>1. ASSUME NEW n \in Nodes PROVE node[n] \in Record(n)
    <3>1. (IF n \in Inputs THEN Initial[n] ELSE Pending) \in Outcomes  BY ValueAssumption DEF Outcomes
    <3>. QED  BY <3>1, BoundsAssumption DEF Init, Record
  <2>. QED  BY <2>1 DEF RecordsOK, Init
<1>3. row = node /\ clock = 1 /\ submissions = << >> /\ flushing = FALSE /\ DrainsOK(drain)
  BY DEF Init, DrainsOK
<1>4. QueueOK(ready, later, horizon)
  <2>1. \A d \in Derived : Live(d) \in Event  BY DEF Live, Event
  <2>2. DOMAIN Order = 1..Len(Order) /\ \A i \in DOMAIN Order : Order[i] \in Derived
    BY GraphAssumption
  <2>3. \A i \in DOMAIN Order : Live(Order[i]) \in Event  BY <2>1, <2>2
  <2>4. ready = [i \in 1..Len(Order) |-> Live(Order[i])] /\ Len(Order) \in Nat
    BY <2>2, GraphAssumption DEF Init
  <2>5. ready \in Seq(Event)  BY <2>2, <2>3, <2>4
  <2>6. later = << >> /\ horizon = 0 /\ requeues \in [Derived -> 0..Registered]
    BY BoundsAssumption DEF Init
  <2>. QED  BY <2>5, <2>6 DEF QueueOK
<1>5. StateOK
  <2>1. << >> \in Seq(Submission)  OBVIOUS
  <2>. QED  BY <1>2, <1>3, <1>4, <2>1, TypeParts DEF DrainsOK
<1>6. Follows /\ RetryHasBudget  BY <1>1, <1>3 DEF Follows, RetryHasBudget, Nodes
<1>7. StampsOK
  <2>1. \A p \in Drains : drain[p] = Idle  BY DEF Init
  <2>2. \A n \in Nodes : \A m \in Deps[n] : m \in Nodes  BY GraphAssumption
  <2>3. \A n \in Nodes : node[n].stamp \in {0, 1}  BY <1>1
  <2>4. \A n \in Nodes : \A m \in Deps[n] : node[n].basis[m] = 0  BY <1>1
  <2>5. \A n \in Nodes : node[n].stamp <= clock  BY <1>3, <2>3
  <2>6. \A n \in Nodes : \A m \in Deps[n] : node[n].basis[m] <= node[m].stamp
    BY <2>2, <2>3, <2>4
  <2>. QED  BY <2>1, <2>5, <2>6 DEF StampsOK
<1>. QED  BY <1>5, <1>6, <1>7 DEF Base

LEMMA StepBase ==
    ASSUME Base, [Next]_vars
    PROVE  Base'
<1>1. CASE Edit  BY <1>1, EditBase DEF Edit
<1>2. CASE RunSubmission  BY <1>2, RunSubmissionBase
<1>3. CASE \E p \in Drains : Refresh(p)  BY <1>3, BeginBase, EndBase DEF Refresh
<1>4. CASE Tick \/ StartFlush \/ EndFlush \/ UNCHANGED vars  BY <1>4, OtherBase
<1>5. CASE Restart  BY <1>5, RestartBase
<1>. QED  BY <1>1, <1>2, <1>3, <1>4, <1>5 DEF Next

\* Records, rows, stamps and retries fit together after any steps.
THEOREM BaseInvariant == Spec => []Base
<1>1. Init => Base  BY InitBase
<1>2. Base /\ [Next]_vars => Base'  BY StepBase
<1>. QED  BY <1>1, <1>2, PTL DEF Spec

\* What happened to an input or a node is remembered.
LEMMA StepHistory ==
    ASSUME [Next]_vars
    PROVE  /\ strayed \subseteq strayed' /\ strayed' \subseteq strayed \cup Inputs
           /\ shared \subseteq shared' /\ shared' \subseteq shared \cup Derived
<1>1. CASE Edit  BY <1>1 DEF Edit, Push, SubmitPush, history
<1>2. CASE RunSubmission  BY <1>2 DEF RunSubmission, history
<1>3. ASSUME NEW p \in Drains, NEW d \in Derived, Begin(p, d)
      PROVE  strayed' = strayed /\ shared' \in {shared, shared \cup {d}}
  BY <1>3 DEF Begin
<1>4. ASSUME NEW p \in Drains, NEW kind, Succeed(p) \/ Fail(p, kind)
      PROVE  strayed' = strayed /\ shared' = shared
  BY <1>4 DEF Succeed, Fail, history
<1>5. CASE \E p \in Drains : Refresh(p)  BY <1>3, <1>4, <1>5 DEF Refresh
<1>6. CASE Tick \/ StartFlush \/ EndFlush \/ UNCHANGED vars
  BY <1>6 DEF Tick, StartFlush, EndFlush, vars, history
<1>7. CASE Restart  BY <1>7 DEF Restart
<1>. QED  BY <1>1, <1>2, <1>5, <1>6, <1>7 DEF Next

\* Nodes, rows, both halves of the queue, the drains, the submissions and the history keep
\* their types.
THEOREM TypeCorrect == Spec => []TypeOK
<1>1. Init => Base /\ HistoryOK  BY InitBase DEF Init, HistoryOK
<1>2. Base /\ HistoryOK /\ [Next]_vars => (Base /\ HistoryOK)'  BY StepBase, StepHistory DEF HistoryOK
<1>3. Base /\ HistoryOK => TypeOK  BY DEF Base, TypeOK
<1>. QED  BY <1>1, <1>2, <1>3, PTL DEF Spec

\* A retry that waits belongs to a pending node with budget left, whatever drains,
\* pushes, failures and restarts come in between (_retry_delay_from, _complete_refresh).
THEOREM RetriesHaveBudget == Spec => []RetryHasBudget
<1>1. Base => RetryHasBudget  BY DEF Base
<1>. QED  BY <1>1, BaseInvariant, PTL

-----------------------------------------------------------------------------
(***************************************************************************)
(* Rows are what memory holds, once the writes have landed.                *)
(***************************************************************************)

\* The writes of u that wait are those of handlers, in a row, then those on the processor: the
\* last of a handler's is of what memory holds, or there is none and the row holds it.
LastApplied(u, i) ==
    /\ submissions[i].node = u /\ submissions[i].value = node[u].value
    /\ \A j \in DOMAIN submissions :
          submissions[j].node = u => (submissions[j].kind = "apply" <=> j <= i)
Landed(u) ==
    /\ row[u].value = node[u].value
    /\ \A i \in DOMAIN submissions : submissions[i].node = u => submissions[i].kind = "push"
InStep(u) == Landed(u) \/ \E i \in DOMAIN submissions : LastApplied(u, i)
Writes == \A u \in Inputs : u \in strayed \/ InStep(u)

LEMMA WritesStay ==
    ASSUME Writes, submissions' = submissions, strayed \subseteq strayed',
           \A u \in Inputs : node'[u].value = node[u].value /\ row'[u].value = row[u].value
    PROVE  Writes'
BY DEF Writes, InStep, LastApplied, Landed

LEMMA AppendedSubmission ==
    ASSUME Base, NEW s \in Submission, submissions' = Append(submissions, s)
    PROVE  LET n == Len(submissions) + 1
           IN  /\ DOMAIN submissions' = (DOMAIN submissions) \cup {n} /\ n \notin DOMAIN submissions
               /\ n \in Nat /\ submissions'[n] = s
               /\ \A i \in DOMAIN submissions : submissions'[i] = submissions[i] /\ i \in Nat /\ i < n
<1>1. submissions \in Seq(Submission)  BY DEF Base, StateOK
<1>. QED  BY <1>1

LEMMA EditWrites ==
    ASSUME Base, Writes, NEW u \in Inputs, NEW v \in Values \cup {Impossible},
           Push(u, v) \/ SubmitPush(u, v)
    PROVE  Writes'
<1>1. PICK s \in Submission :
        /\ submissions' = Append(submissions, s) /\ s.node = u /\ s.value = v
        /\ s.kind \in {"push", "apply"}
        /\ s.kind = "apply" => node' = [node EXCEPT ![u].value = v] /\ (PushWaits(u) => u \in strayed')
        /\ s.kind = "push" => node' = node
  <2>1. CASE Push(u, v)
    <3>. DEFINE s == [kind |-> "apply", node |-> u, value |-> v]
    <3>1. /\ s \in Submission /\ s.kind = "apply" /\ s.node = u /\ s.value = v
          /\ submissions' = Append(submissions, s)
          /\ node' = [node EXCEPT ![u].value = v] /\ (PushWaits(u) => u \in strayed')
      BY <2>1 DEF Push, Submission
    <3>. QED  BY <3>1
  <2>2. CASE SubmitPush(u, v)
    <3>. DEFINE s == [kind |-> "push", node |-> u, value |-> v]
    <3>1. /\ s \in Submission /\ s.kind = "push" /\ s.node = u /\ s.value = v
          /\ submissions' = Append(submissions, s) /\ node' = node
      BY <2>2 DEF SubmitPush, Submission
    <3>. QED  BY <3>1
  <2>. QED  BY <2>1, <2>2
<1>2. row' = row /\ strayed \subseteq strayed'  BY DEF Push, SubmitPush, history
<1>3. PICK n :
         /\ DOMAIN submissions' = (DOMAIN submissions) \cup {n} /\ n \notin DOMAIN submissions
         /\ n \in Nat /\ submissions'[n] = s
         /\ \A i \in DOMAIN submissions : submissions'[i] = submissions[i] /\ i \in Nat /\ i < n
  BY <1>1, AppendedSubmission
<1>4. RecordsOK(node)  BY TypeParts DEF Base
<1>5. ASSUME NEW i \in DOMAIN submissions PROVE submissions[i].kind \in {"apply", "push"}
  <2>1. submissions[i] \in Submission  BY DEF Base, StateOK
  <2>. QED  BY <2>1 DEF Submission
<1>6. ASSUME NEW w \in Inputs, w \notin strayed' PROVE InStep(w)'
  <2>1. w \in Nodes /\ InStep(w)  BY <1>2, <1>6 DEF Nodes, Writes
  <2>2. CASE s.kind = "push" \/ w # u
    <3>1. node'[w] = node[w]  BY <1>1, <1>4, <2>1, <2>2 DEF RecordsOK
    <3>2. CASE Landed(w)
      <4>1. Landed(w)'  BY <1>1, <1>2, <1>3, <2>2, <3>1, <3>2 DEF Landed
      <4>. QED  BY <4>1 DEF InStep
    <3>3. ASSUME NEW i \in DOMAIN submissions, LastApplied(w, i) PROVE InStep(w)'
      <4>1. i \in DOMAIN submissions' /\ i \in Nat /\ i < n  BY <1>3
      <4>2. ASSUME NEW j \in DOMAIN submissions', submissions'[j].node = w
            PROVE  submissions'[j].kind = "apply" <=> j <= i
        <5>1. CASE j \in DOMAIN submissions  BY <1>3, <3>3, <4>2, <5>1 DEF LastApplied
        <5>2. CASE j = n  BY <1>1, <1>3, <2>2, <4>1, <4>2, <5>2
        <5>. QED  BY <1>3, <5>1, <5>2
      <4>3. LastApplied(w, i)'  BY <1>3, <3>1, <3>3, <4>1, <4>2 DEF LastApplied
      <4>. QED  BY <4>1, <4>3 DEF InStep
    <3>. QED  BY <2>1, <3>2, <3>3 DEF InStep
  <2>3. CASE s.kind = "apply" /\ w = u
    <3>1. node'[w].value = v  BY <1>1, <1>4, <2>1, <2>3 DEF RecordsOK, Record
    <3>2. \A i \in DOMAIN submissions : submissions[i].node = w => submissions[i].kind = "apply"
      BY <1>1, <1>5, <1>6, <2>3 DEF PushWaits
    <3>3. ASSUME NEW j \in DOMAIN submissions', submissions'[j].node = w
          PROVE  submissions'[j].kind = "apply" /\ j <= n
      BY <1>3, <2>3, <3>2, <3>3
    <3>4. LastApplied(w, n)'  BY <1>1, <1>3, <2>3, <3>1, <3>3 DEF LastApplied
    <3>. QED  BY <1>3, <3>4 DEF InStep
  <2>. QED  BY <1>1, <2>2, <2>3
<1>. QED  BY <1>6 DEF Writes

LEMMA DroppedSubmission ==
    ASSUME Base, submissions # << >>, submissions' = Tail(submissions)
    PROVE  /\ \A i \in DOMAIN submissions' : i + 1 \in DOMAIN submissions /\ i \in Nat \ {0}
                                             /\ submissions'[i] = submissions[i + 1]
           /\ \A i \in DOMAIN submissions : i \in Nat /\ (i # 1 => i - 1 \in DOMAIN submissions')
           /\ 1 \in DOMAIN submissions /\ Head(submissions) = submissions[1]
<1>1. submissions \in Seq(Submission)  BY DEF Base, StateOK
<1>. QED  BY <1>1

LEMMA RunSubmissionWrites ==
    ASSUME Base, Writes, RunSubmission
    PROVE  Writes'
<1>. DEFINE s == Head(submissions)
<1>1. submissions # << >> /\ submissions' = Tail(submissions) /\ s \in Submission
  BY RunSubmissionEffect DEF Base
<1>2. PICK mem \in Record(s.node), disk \in Record(s.node) : Lands(s.node, s, mem, disk)
  BY RunSubmissionEffect DEF Base
<1>3. /\ \A i \in DOMAIN submissions' : i + 1 \in DOMAIN submissions /\ i \in Nat \ {0}
                                        /\ submissions'[i] = submissions[i + 1]
      /\ \A i \in DOMAIN submissions : i \in Nat /\ (i # 1 => i - 1 \in DOMAIN submissions')
      /\ 1 \in DOMAIN submissions /\ s = submissions[1]
  BY <1>1, DroppedSubmission
<1>. HIDE DEF s
<1>4. PICK u \in Inputs : u = s.node /\ u \in Nodes /\ s.kind \in {"apply", "push"}
  BY <1>1 DEF Submission, Nodes
<1>5. /\ node'[u].value = (IF s.kind = "push" THEN s.value ELSE node[u].value)
      /\ row'[u].value = s.value
      /\ \A w \in Nodes \ {u} : node'[w].value = node[w].value /\ row'[w].value = row[w].value
  BY <1>2, <1>4 DEF Lands, Moved, Like
<1>6. strayed' = strayed  BY DEF RunSubmission, history
<1>7. ASSUME NEW w \in Inputs, NEW i \in DOMAIN submissions, LastApplied(w, i), i # 1,
             node'[w].value = node[w].value
      PROVE  InStep(w)'
  <2>1. i \in Nat /\ i - 1 \in DOMAIN submissions' /\ submissions'[i - 1] = submissions[i]
    BY <1>3, <1>7
  <2>2. ASSUME NEW j \in DOMAIN submissions', submissions'[j].node = w
        PROVE  submissions'[j].kind = "apply" <=> j <= i - 1
    <3>1. /\ j + 1 \in DOMAIN submissions /\ j \in Nat /\ submissions'[j] = submissions[j + 1]
      BY <1>3, <2>2
    <3>2. submissions[j + 1].kind = "apply" <=> j + 1 <= i  BY <1>7, <2>2, <3>1 DEF LastApplied
    <3>. QED  BY <2>1, <3>1, <3>2
  <2>3. LastApplied(w, i - 1)'  BY <1>7, <2>1, <2>2 DEF LastApplied
  <2>. QED  BY <2>1, <2>3 DEF InStep
<1>8. ASSUME NEW w \in Inputs, w # u, InStep(w) PROVE InStep(w)'
  <2>1. w \in Nodes  BY DEF Nodes
  <2>2. CASE Landed(w)
    <3>1. Landed(w)'  BY <1>3, <1>5, <1>8, <2>1, <2>2 DEF Landed
    <3>. QED  BY <3>1 DEF InStep
  <2>3. ASSUME NEW i \in DOMAIN submissions, LastApplied(w, i) PROVE InStep(w)'
    <3>1. i # 1  BY <1>3, <1>4, <1>8, <2>3 DEF LastApplied
    <3>. QED  BY <1>5, <1>7, <1>8, <2>1, <2>3, <3>1
  <2>. QED  BY <1>8, <2>2, <2>3 DEF InStep
<1>9. ASSUME InStep(u) PROVE InStep(u)'
  <2>1. CASE s.kind = "push"
    <3>1. ASSUME NEW i \in DOMAIN submissions, LastApplied(u, i) PROVE FALSE
      <4>1. ~ (1 <= i) /\ i \in Nat  BY <1>3, <1>4, <2>1, <3>1 DEF LastApplied
      <4>2. i = 0 \/ 1 <= i  BY <4>1
      <4>3. submissions \in Seq(Submission)  BY DEF Base, StateOK
      <4>4. 0 \notin DOMAIN submissions  BY <4>3
      <4>. QED  BY <3>1, <4>1, <4>2, <4>4
    <3>2. Landed(u)  BY <1>9, <3>1 DEF InStep
    <3>3. Landed(u)'  BY <1>3, <1>5, <2>1, <3>2 DEF Landed
    <3>. QED  BY <3>3 DEF InStep
  <2>2. CASE s.kind = "apply"
    <3>1. PICK i \in DOMAIN submissions : LastApplied(u, i)
      BY <1>3, <1>4, <1>9, <2>2 DEF InStep, Landed
    <3>2. CASE i = 1
      <4>1. ASSUME NEW j \in DOMAIN submissions', submissions'[j].node = u
            PROVE  submissions'[j].kind = "push"
        <5>1. /\ j + 1 \in DOMAIN submissions /\ j \in Nat \ {0} /\ submissions'[j] = submissions[j + 1]
          BY <1>3, <4>1
        <5>2. submissions[j + 1].kind = "apply" <=> j + 1 <= 1
          BY <3>1, <3>2, <4>1, <5>1 DEF LastApplied
        <5>3. submissions[j + 1] \in Submission  BY <5>1 DEF Base, StateOK
        <5>4. submissions[j + 1].kind \in {"apply", "push"}  BY <5>3 DEF Submission
        <5>. QED  BY <5>1, <5>2, <5>4
      <4>2. row'[u].value = node'[u].value  BY <1>3, <1>5, <2>2, <3>1, <3>2 DEF LastApplied
      <4>3. Landed(u)'  BY <4>1, <4>2 DEF Landed
      <4>. QED  BY <4>3 DEF InStep
    <3>3. CASE i # 1
      <4>1. node'[u].value = node[u].value  BY <1>5, <2>2
      <4>. QED  BY <1>7, <3>1, <3>3, <4>1
    <3>. QED  BY <3>2, <3>3
  <2>. QED  BY <1>4, <2>1, <2>2
<1>. QED  BY <1>6, <1>8, <1>9 DEF Writes

\* A step of a drain leaves the inputs alone.
LEMMA RefreshWrites ==
    ASSUME Base, Writes, NEW p \in Drains, Refresh(p)
    PROVE  Writes'
<1>. SUFFICES /\ submissions' = submissions
              /\ \A u \in Inputs : node'[u].value = node[u].value /\ row'[u].value = row[u].value
  BY WritesStay, StepHistory DEF Next
<1>1. \A u \in Inputs : u \in Nodes /\ u \notin Derived  BY GraphAssumption DEF Nodes
<1>2. ASSUME NEW d \in Derived, NEW rec, Moved(d, rec, Loadable(rec))
      PROVE  \A u \in Inputs : node'[u].value = node[u].value /\ row'[u].value = row[u].value
  BY <1>1, <1>2 DEF Moved, Like
<1>3. CASE \E d \in Derived : Begin(p, d)
  BY <1>2, <1>3, BeginEffect DEF Base, Waits, Starts, FailsToo, Defers
<1>4. CASE Succeed(p)
  BY <1>2, <1>4, SucceedEffect, DrainedHolds DEF Base, Finds, Ends
<1>5. CASE \E kind \in FailureKinds : Fail(p, kind)
  BY <1>2, <1>5, FailEffect, DrainedHolds DEF Base, Ends
<1>. QED  BY <1>3, <1>4, <1>5 DEF Refresh

LEMMA StepWrites ==
    ASSUME Base, Writes, [Next]_vars
    PROVE  Writes'
<1>1. CASE Edit  BY <1>1, EditWrites DEF Edit
<1>2. CASE RunSubmission  BY <1>2, RunSubmissionWrites
<1>3. CASE \E p \in Drains : Refresh(p)  BY <1>3, RefreshWrites
<1>4. CASE Tick \/ StartFlush \/ EndFlush \/ UNCHANGED vars
  BY <1>4, OtherBase, WritesStay, StepHistory
<1>5. CASE Restart
  <2>1. node' = row /\ row' = row /\ submissions' = << >>  BY <1>5, RestartEffect DEF Base
  <2>. QED  BY <2>1 DEF Writes, InStep, Landed
<1>. QED  BY <1>1, <1>2, <1>3, <1>4, <1>5 DEF Next

LEMMA InitWrites == Init => Writes
BY DEF Init, Writes, InStep, Landed

LEMMA WritesMeanMemory ==
    ASSUME Base, Writes
    PROVE  RowIsMemory
<1>1. ASSUME NEW u \in Inputs, u \notin strayed, ~ Submitted(u) PROVE row[u].value = node[u].value
  BY <1>1 DEF Writes, InStep, LastApplied, Landed, Submitted
<1>. QED  BY <1>1 DEF Base, Follows, RowIsMemory, Nodes

\* The invariant of the writes: but for the inputs that strayed, what waits ends in what memory holds.
THEOREM WritesInvariant == Spec => [](Base /\ Writes)
<1>1. Init => Base /\ Writes  BY InitBase, InitWrites
<1>2. Base /\ Writes /\ [Next]_vars => (Base /\ Writes)'  BY StepBase, StepWrites
<1>. QED  BY <1>1, <1>2, PTL DEF Spec

\* The row a node would be restored from is the value it serves, once its writes have
\* landed (_apply_result, _persist), through failed computes, deferrals, flushes and restarts;
\* but for the inputs that a handler pushed while a push of them waited on the processor.
THEOREM RowsAreMemory == Spec => []RowIsMemory
<1>1. Base /\ Writes => RowIsMemory  BY WritesMeanMemory
<1>. QED  BY <1>1, WritesInvariant, PTL

-----------------------------------------------------------------------------
(***************************************************************************)
(* Rows advance, and a node that reads as fresh is fresh, however many     *)
(* drains there are: what two of them compute at a time is remembered.     *)
(***************************************************************************)

\* Two drains are suspended in one node only if it is known to be shared.
Apart ==
    \A p, q \in Drains : p # q /\ drain[p] # Idle /\ drain[q] # Idle /\ drain[p].node = drain[q].node
        => drain[p].node \in shared

\* A compute of one drain only, under way, started from what the row of its node was computed
\* from, or from later stamps.
Advancing ==
    \A p \in Drains : drain[p] # Idle /\ drain[p].node \notin shared =>
        \A m \in Deps[drain[p].node] : node[drain[p].node].basis[m] <= drain[p].stamps[m]

\* A dependency that has the stamp a compute was started with has the value it was started
\* with, but for an edit whose write is still to land.
BoundHolds ==
    \A p \in Drains : drain[p] # Idle =>
        \A m \in Deps[drain[p].node] :
            node[m].stamp = drain[p].stamps[m] => node[m].value = drain[p].bound[m] \/ Submitted(m)

\* The stamps of e need not show that it is stale: two drains computed it at a time, or it was
\* computed from a value that had no row.
Mixed(e) == e \in shared \/ ~ Based(e)

\* A node with a live event is stale, and will be when the compute that is under way ends,
\* unless it is mixed.
DueIsStale == \A e \in Due : e \in Derived /\ (Stale(e, node) \/ Mixed(e))
DueAgain ==
    \A p \in Drains : drain[p] # Idle /\ drain[p].node \in Due =>
        \/ drain[p].node \in shared
        \/ \E m \in Deps[drain[p].node] : node[m].stamp # drain[p].stamps[m]

Standing == BoundHolds /\ DueIsStale /\ DueAgain
Freshness == Apart /\ Standing /\ NoFalseFreshness

\* What a step of a drain remembers.
LEMMA RefreshHistory ==
    ASSUME NEW p \in Drains, Refresh(p)
    PROVE  strayed' = strayed /\ shared \subseteq shared'
<1>1. ASSUME NEW d, Begin(p, d) PROVE strayed' = strayed /\ shared \subseteq shared'
  BY <1>1 DEF Begin
<1>2. ASSUME NEW kind, Succeed(p) \/ Fail(p, kind) PROVE strayed' = strayed /\ shared \subseteq shared'
  BY <1>2 DEF Succeed, Fail, history
<1>. QED  BY <1>1, <1>2 DEF Refresh

LEMMA BeginShares ==
    ASSUME NEW p \in Drains, NEW d \in Derived, Begin(p, d)
    PROVE  /\ strayed' = strayed /\ shared \subseteq shared'
           /\ \A q \in Drains : drain[q] # Idle /\ drain[q].node = d => d \in shared'
BY DEF Begin

\* No step starts a compute but Begin.
LEMMA DrainsStep ==
    ASSUME Base, [Next]_vars
    PROVE  \/ \A q \in Drains : drain'[q] \in {Idle, drain[q]}
           \/ \E p \in Drains, d \in Derived : Begin(p, d) /\ Starts(p, d)
<1>1. StateOK  BY DEF Base
<1>2. CASE Edit  BY <1>2 DEF Edit, Push, SubmitPush
<1>3. CASE RunSubmission  BY <1>3 DEF RunSubmission
<1>4. CASE \E p \in Drains, d \in Derived : Begin(p, d)
  BY <1>1, <1>4, BeginEffect DEF Waits, FailsToo, Defers
<1>5. CASE \E p \in Drains : Succeed(p) \/ \E kind \in FailureKinds : Fail(p, kind)
  BY <1>1, <1>5, DrainEnds DEF Succeed, Fail
<1>6. CASE Tick \/ StartFlush \/ EndFlush \/ UNCHANGED vars  BY <1>6, OtherBase
<1>7. CASE Restart  BY <1>1, <1>7, RestartEffect
<1>. QED  BY <1>2, <1>3, <1>4, <1>5, <1>6, <1>7 DEF Next, Refresh

LEMMA StepApart ==
    ASSUME Base, Apart, [Next]_vars
    PROVE  Apart'
<1>1. shared \subseteq shared'  BY StepHistory
<1>2. CASE \A q \in Drains : drain'[q] \in {Idle, drain[q]}  BY <1>1, <1>2 DEF Apart
<1>3. ASSUME NEW p \in Drains, NEW d \in Derived, Begin(p, d), Starts(p, d) PROVE Apart'
  <2>1. /\ drain'[p].node = d /\ \A q \in Drains \ {p} : drain'[q] = drain[q]
    BY <1>3, TypeParts DEF Starts, Base
  <2>2. \A q \in Drains : drain[q] # Idle /\ drain[q].node = d => d \in shared'
    BY <1>3, BeginShares
  <2>. QED  BY <1>1, <2>1, <2>2 DEF Apart
<1>. QED  BY <1>2, <1>3, DrainsStep

\* What a refresh writes is computed from no older stamps than the row it replaces.
LEMMA RefreshAdvances ==
    ASSUME Base, Advancing, NEW p \in Drains, NEW d \in Derived, NEW rec,
           \/ DepFailed(d, rec) \/ Deferred(d, rec)
           \/ /\ drain[p] # Idle /\ drain[p].node = d /\ d \notin shared
              /\ Computed(p, d, rec) \/ Failed(p, d, rec)
    PROVE  \A m \in Deps[d] : node[d].basis[m] <= rec.basis[m]
<1>1. /\ RecordsOK(node) /\ d \in Nodes /\ node[d] \in Record(d) /\ clock + 1 \in Nat
  BY TypeParts DEF Base, Nodes, RecordsOK
<1>2. \A m \in Deps[d] : node[d].basis[m] <= Current(d)[m]  BY <1>1 DEF Base, StampsOK, Current
<1>3. drain[p] # Idle /\ drain[p].node = d /\ d \notin shared
        => \A m \in Deps[d] : node[d].basis[m] <= drain[p].stamps[m]
  BY DEF Advancing
<1>4. PICK b : /\ rec.basis = b
               /\ b = Current(d) \/ (b = drain[p].stamps /\ drain[p] # Idle /\ drain[p].node = d /\ d \notin shared)
  <2>1. ASSUME NEW b \in [Deps[d] -> Nat], rec = Restamped(node[d], clock + 1, b) PROVE rec.basis = b
    BY <1>1, <2>1, RestampedHolds
  <2>2. CASE DepFailed(d, rec)  BY <2>2 DEF DepFailed, Fresh
  <2>3. CASE Deferred(d, rec)
    <3>1. rec = Restamped(node[d], clock + 1, Current(d))  BY <2>3, Zenon DEF Deferred, Restamped
    <3>. QED  BY <1>1, <2>1, <3>1, CurrentTyped
  <2>4. CASE drain[p] # Idle /\ drain[p].node = d /\ d \notin shared /\ Computed(p, d, rec)
    <3>1. \/ rec = Fresh(d, Compute[d][drain[p].bound], drain[p].stamps, FALSE, 0)
          \/ rec = Restamped(node[d], clock + 1, drain[p].stamps)
      BY <2>4, Zenon DEF Computed, Restamped
    <3>2. drain[p].stamps \in [Deps[d] -> Nat]  BY <2>4, DrainedHolds DEF Base
    <3>3. rec.basis = drain[p].stamps  BY <2>1, <3>1, <3>2 DEF Fresh
    <3>. QED  BY <2>4, <3>3
  <2>5. CASE drain[p] # Idle /\ drain[p].node = d /\ d \notin shared /\ Failed(p, d, rec)
    BY <2>5 DEF Failed, Fresh
  <2>. QED  BY <2>2, <2>3, <2>4, <2>5
<1>. QED  BY <1>2, <1>3, <1>4

BasesAdvance == \A d \in Derived \ shared : \A m \in Deps[d] : row'[d].basis[m] >= row[d].basis[m]

LEMMA MovedAdvances ==
    ASSUME Base, NEW n \in Nodes, NEW mem, NEW disk, Moved(n, mem, disk),
           n \notin shared => \A m \in Deps[n] : node[n].basis[m] <= mem.basis[m]
    PROVE  BasesAdvance
<1>1. RecordsOK(node) /\ RecordsOK(row)  BY TypeParts DEF Base
<1>2. ASSUME NEW d \in Derived \ shared, NEW m \in Deps[d] PROVE row'[d].basis[m] >= row[d].basis[m]
  <2>1. d \in Nodes /\ row[d].basis \in [Deps[d] -> Nat] /\ row[d].basis = node[d].basis
    BY <1>1 DEF Nodes, RecordsOK, Record, Base, Follows
  <2>2. CASE d = n
    <3>1. row'[d].basis = mem.basis /\ mem.basis \in [Deps[d] -> Nat]  BY <2>2 DEF Moved, Record
    <3>. QED  BY <1>2, <2>1, <2>2, <3>1
  <2>3. CASE d # n
    <3>1. row'[d] = row[d]  BY <2>1, <2>3 DEF Moved
    <3>. QED  BY <1>2, <2>1, <3>1
  <2>. QED  BY <2>2, <2>3
<1>. QED  BY <1>2 DEF BasesAdvance

LEMMA SameRowsAdvance ==
    ASSUME Base, row' = row
    PROVE  BasesAdvance
<1>1. RecordsOK(row)  BY TypeParts DEF Base
<1>2. \A d \in Derived : row[d].basis \in [Deps[d] -> Nat]
  BY <1>1 DEF RecordsOK, Record, Nodes
<1>. QED  BY <1>2 DEF BasesAdvance

\* A step that starts no compute and writes no node that a drain is still in, unless it is shared.
LEMMA AdvancingStays ==
    ASSUME Base, Advancing, shared \subseteq shared',
           \A q \in Drains : drain'[q] \in {Idle, drain[q]},
           \A q \in Drains : drain'[q] # Idle /\ drain'[q].node \notin shared'
               => node'[drain'[q].node].basis = node[drain'[q].node].basis
    PROVE  Advancing'
BY DEF Advancing

LEMMA StepAdvances ==
    ASSUME Base, Apart, Advancing, [Next]_vars
    PROVE  Advancing' /\ BasesAdvance
<1>1. /\ RecordsOK(node) /\ RecordsOK(row) /\ DOMAIN drain = Drains /\ shared \subseteq shared'
  BY TypeParts, StepHistory DEF Base
<1>2. \A q \in Drains : drain[q] # Idle => drain[q].node \in Derived  BY DrainedHolds DEF Base
<1>3. ASSUME row' = row, \A q \in Drains : drain'[q] \in {Idle, drain[q]},
             \A d \in Derived : node'[d].basis = node[d].basis
      PROVE  Advancing' /\ BasesAdvance
  BY <1>1, <1>2, <1>3, AdvancingStays, SameRowsAdvance
<1>4. CASE Edit
  <2>1. PICK u \in Inputs : node' = node \/ \E v : node' = [node EXCEPT ![u].value = v]
    BY <1>4 DEF Edit, Push, SubmitPush
  <2>2. UNCHANGED <<row, drain>>  BY <1>4 DEF Edit, Push, SubmitPush
  <2>3. \A d \in Derived : d \in Nodes /\ d # u  BY GraphAssumption DEF Nodes
  <2>4. \A d \in Derived : node'[d] = node[d]  BY <1>1, <2>1, <2>3 DEF RecordsOK
  <2>. QED  BY <1>3, <2>2, <2>4
<1>5. CASE RunSubmission
  <2>. DEFINE u == Head(submissions).node
  <2>1. drain' = drain /\ u \in Inputs
    BY <1>5, RunSubmissionEffect DEF Base, Submission
  <2>2. PICK mem, disk : Lands(u, Head(submissions), mem, disk)
    BY <1>5, RunSubmissionEffect DEF Base
  <2>3. u \in Nodes /\ u \notin Derived /\ Deps[u] = {}  BY <2>1, GraphAssumption DEF Nodes
  <2>4. Moved(u, mem, disk)  BY <2>2 DEF Lands
  <2>. HIDE DEF u
  <2>5. BasesAdvance  BY <2>3, <2>4, MovedAdvances
  <2>6. \A d \in Derived : node'[d].basis = node[d].basis  BY <2>3, <2>4 DEF Moved, Like, Nodes
  <2>7. Advancing'  BY <1>1, <1>2, <2>1, <2>6, AdvancingStays
  <2>. QED  BY <2>5, <2>7
<1>6. ASSUME NEW d \in Derived, NEW rec, Moved(d, rec, Loadable(rec)),
             \A q \in Drains : drain'[q] \in {Idle, drain[q]},
             \A q \in Drains : drain'[q] # Idle /\ drain'[q].node = d => d \in shared'
      PROVE  Advancing'
  <2>1. ASSUME NEW q \in Drains, drain'[q] # Idle, drain'[q].node \notin shared'
        PROVE  node'[drain'[q].node].basis = node[drain'[q].node].basis
    <3>1. drain'[q].node # d /\ drain'[q].node \in Nodes  BY <1>2, <1>6, <2>1 DEF Nodes
    <3>. QED  BY <1>6, <3>1 DEF Moved, Like
  <2>. QED  BY <1>1, <1>6, <2>1, AdvancingStays
<1>7. ASSUME NEW p \in Drains, NEW d \in Derived, Begin(p, d) PROVE Advancing' /\ BasesAdvance
  <2>1. \A q \in Drains : drain[q] # Idle /\ drain[q].node = d => d \in shared'
    BY <1>7, BeginShares
  <2>2. CASE Waits(d)  BY <1>3, <2>2 DEF Waits
  <2>3. ASSUME NEW rec, FailsToo(d, rec) \/ Defers(d, rec) PROVE Advancing' /\ BasesAdvance
    <3>1. Moved(d, rec, Loadable(rec)) /\ drain' = drain /\ (DepFailed(d, rec) \/ Deferred(d, rec))
      BY <2>3 DEF FailsToo, Defers
    <3>2. BasesAdvance
      <4>1. \A m \in Deps[d] : node[d].basis[m] <= rec.basis[m]  BY <3>1, RefreshAdvances
      <4>. QED  BY <3>1, <4>1, MovedAdvances DEF Nodes
    <3>3. Advancing'  BY <1>6, <2>1, <3>1
    <3>. QED  BY <3>2, <3>3
  <2>4. CASE Starts(p, d)
    <3>1. /\ UNCHANGED <<node, row>> /\ drain'[p].node = d /\ drain'[p].stamps = Current(d)
          /\ \A q \in Drains \ {p} : drain'[q] = drain[q]
      BY <1>1, <2>4 DEF Starts
    <3>2. \A m \in Deps[d] : node[d].basis[m] <= Current(d)[m]
      BY DEF Base, StampsOK, Current, Nodes
    <3>3. ASSUME NEW q \in Drains, drain'[q] # Idle, drain'[q].node \notin shared'
          PROVE  \A m \in Deps[drain'[q].node] : node[drain'[q].node].basis[m] <= drain'[q].stamps[m]
      <4>1. CASE q = p  BY <3>1, <3>2, <4>1
      <4>2. CASE q # p  BY <1>1, <3>1, <3>3, <4>2 DEF Advancing
      <4>. QED  BY <4>1, <4>2
    <3>4. Advancing'  BY <3>1, <3>3 DEF Advancing
    <3>. QED  BY <3>1, <3>4, SameRowsAdvance
  <2>. QED  BY <1>7, <2>2, <2>3, <2>4, BeginEffect DEF Base
<1>8. ASSUME NEW p \in Drains, NEW kind, Succeed(p) \/ Fail(p, kind) PROVE Advancing' /\ BasesAdvance
  <2>. DEFINE d == drain[p].node
  <2>1. /\ drain[p] # Idle /\ drain' = [drain EXCEPT ![p] = Idle]
        /\ Finds(d) \/ \E rec \in Record(d) : Ends(p, d, rec)
    BY <1>8, SucceedEffect, FailEffect DEF Base
  <2>2. /\ drain'[p] = Idle /\ d \in Derived /\ \A q \in Drains \ {p} : drain'[q] = drain[q]
        /\ \A q \in Drains : drain'[q] \in {Idle, drain[q]}
    BY <1>1, <1>2, <2>1
  <2>3. CASE Finds(d)  BY <1>3, <2>2, <2>3 DEF Finds
  <2>4. ASSUME NEW rec, Ends(p, d, rec) PROVE Advancing' /\ BasesAdvance
    <3>1. Moved(d, rec, Loadable(rec)) /\ (Computed(p, d, rec) \/ Failed(p, d, rec))
      BY <2>4 DEF Ends
    <3>2. d \notin shared => \A m \in Deps[d] : node[d].basis[m] <= rec.basis[m]
      BY <2>1, <2>2, <3>1, RefreshAdvances
    <3>3. \A q \in Drains : drain'[q] # Idle /\ drain'[q].node = d => d \in shared'
      BY <1>1, <2>1, <2>2 DEF Apart
    <3>. HIDE DEF d
    <3>4. BasesAdvance  BY <2>2, <3>1, <3>2, MovedAdvances DEF Nodes
    <3>5. Advancing'  BY <1>6, <2>2, <3>1, <3>3
    <3>. QED  BY <3>4, <3>5
  <2>. QED  BY <2>1, <2>3, <2>4
<1>9. CASE \E p \in Drains : Refresh(p)  BY <1>7, <1>8, <1>9 DEF Refresh
<1>10. CASE Tick \/ StartFlush \/ EndFlush \/ UNCHANGED vars  BY <1>3, <1>10, OtherBase
<1>11. CASE Restart
  <2>1. row' = row /\ \A p \in Drains : drain'[p] = Idle  BY <1>11, RestartEffect DEF Base
  <2>. QED  BY <2>1, SameRowsAdvance DEF Advancing
<1>. QED  BY <1>4, <1>5, <1>9, <1>10, <1>11 DEF Next

\* A recorded row is never replaced by one calculated from older inputs, whatever pushes,
\* flushes and restarts come between the start of a compute and its end (_complete_refresh),
\* unless two drains were in its node at a time.
THEOREM RowsOnlyAdvance == Spec => RowsAdvance
<1>1. Init => Base /\ Apart /\ Advancing  BY InitBase DEF Init, Apart, Advancing
<1>2. Base /\ Apart /\ Advancing /\ [Next]_vars => (Base /\ Apart /\ Advancing)' /\ BasesAdvance
  BY StepBase, StepApart, StepAdvances
<1>3. Spec => [][BasesAdvance]_vars  BY <1>1, <1>2, PTL DEF Spec
<1>. QED  BY <1>3, PTL DEF RowsAdvance, BasesAdvance

-----------------------------------------------------------------------------
\* Staleness reads four fields of a record.
LEMMA StaleReads ==
    ASSUME NEW f, NEW g, NEW d \in Derived,
           g[d].value = f[d].value, g[d].stamp = f[d].stamp, g[d].basis = f[d].basis, g[d].retry = f[d].retry,
           \A m \in Deps[d] : g[m].stamp = f[m].stamp
    PROVE  Stale(d, g) <=> Stale(d, f)
BY DEF Stale

\* A write of n makes its dependents stale and leaves no other stale node fresh.
LEMMA WriteStales ==
    ASSUME Base, NEW n \in Nodes, NEW mem, NEW disk, Moved(n, mem, disk),
           NEW e \in Derived, e # n, Stale(e, node) \/ n \in Deps[e]
    PROVE  Stale(e, node')
<1>1. RecordsOK(node) /\ RecordsOK(row) /\ clock \in Nat /\ e \in Nodes  BY TypeParts DEF Base, Nodes
<1>2. Deps[e] \subseteq Nodes /\ node[e].stamp \in Nat /\ node[e].stamp <= clock
  BY <1>1, RecordFields DEF Base, StampsOK
<1>3. /\ node'[e].value = node[e].value /\ node'[e].stamp = node[e].stamp
      /\ node'[e].basis = node[e].basis /\ node'[e].retry = node[e].retry
      /\ node'[n].stamp = clock + 1
      /\ \A m \in Deps[e] : m # n => node'[m].stamp = node[m].stamp
  BY <1>1, <1>2 DEF Moved, Like
<1>4. CASE n \in Deps[e]
  <2>1. node'[n].stamp > node'[e].stamp  BY <1>1, <1>2, <1>3
  <2>. QED  BY <1>4, <2>1 DEF Stale
<1>5. CASE n \notin Deps[e]
  <2>1. \A m \in Deps[e] : node'[m].stamp = node[m].stamp  BY <1>3, <1>5
  <2>. QED  BY <1>3, <1>5, <2>1, StaleReads
<1>. QED  BY <1>4, <1>5

\* The record a compute that ends leaves behind: its value, and the stamps it was bound at.
LEMMA EndedRecord ==
    ASSUME Base, NEW p \in Drains, drain[p] # Idle, NEW d, d = drain[p].node, NEW rec,
           Computed(p, d, rec) \/ Failed(p, d, rec)
    PROVE  /\ rec.basis = drain[p].stamps
           /\ \/ rec.value = Compute[d][drain[p].bound]
              \/ d \in Flaky /\ rec.value \in {Impossible, Pending}
<1>1. /\ d \in Derived /\ d \in Nodes /\ drain[p].stamps \in [Deps[d] -> Nat]
      /\ node[d] \in Record(d) /\ clock + 1 \in Nat
  BY DrainedHolds, TypeParts DEF Base, RecordsOK
<1>2. CASE Computed(p, d, rec)
  <2>1. \/ rec = Fresh(d, Compute[d][drain[p].bound], drain[p].stamps, FALSE, 0)
        \/ rec = Restamped(node[d], clock + 1, drain[p].stamps)
    BY <1>2, Zenon DEF Computed, Restamped
  <2>2. rec.basis = drain[p].stamps  BY <1>1, <2>1, RestampedHolds DEF Fresh
  <2>. QED  BY <1>2, <2>2 DEF Computed
<1>3. CASE Failed(p, d, rec)  BY <1>3 DEF Failed, Fresh
<1>. QED  BY <1>2, <1>3

-----------------------------------------------------------------------------
(***************************************************************************)
(* The parts of Freshness, first those about the queue and the drains.     *)
(***************************************************************************)

\* A step that touches no stamp of a node with a dependent, no drain and no new event.
LEMMA SameStanding ==
    ASSUME Standing, UNCHANGED <<node, drain, submissions>>, Due' \subseteq Due, shared \subseteq shared'
    PROVE  Standing'
<1>1. BoundHolds'  BY DEF Standing, BoundHolds, Submitted
<1>2. DueIsStale'  BY DEF Standing, DueIsStale, Mixed, Based
<1>3. DueAgain'  BY DEF Standing, DueAgain
<1>. QED  BY <1>1, <1>2, <1>3 DEF Standing

LEMMA EditStanding ==
    ASSUME Base, Standing, NEW u \in Inputs, NEW v \in Values \cup {Impossible},
           Push(u, v) \/ SubmitPush(u, v)
    PROVE  Standing'
<1>1. /\ RecordsOK(node) /\ DrainsOK(drain) /\ u \in Nodes /\ u \notin Derived
  BY TypeParts, GraphAssumption DEF Base, DrainsOK, Nodes
<1>2. /\ node' = node \/ node' = [node EXCEPT ![u].value = v]
      /\ node' = node \/ Submitted(u)'
      /\ \A m \in Nodes : Submitted(m) => Submitted(m)'
  <2>1. PICK s \in Submission : /\ submissions' = Append(submissions, s) /\ s.node = u
                                /\ node' = node \/ node' = [node EXCEPT ![u].value = v]
    <3>. DEFINE Sent(kind) == [kind |-> kind, node |-> u, value |-> v]
    <3>1. \A kind \in {"apply", "push"} : Sent(kind) \in Submission /\ Sent(kind).node = u
      BY DEF Submission
    <3>2. \E kind \in {"apply", "push"} : submissions' = Append(submissions, Sent(kind))
      BY DEF Push, SubmitPush
    <3>3. node' = node \/ node' = [node EXCEPT ![u].value = v]  BY DEF Push, SubmitPush
    <3>. HIDE DEF Sent
    <3>. QED  BY <3>1, <3>2, <3>3
  <2>2. PICK n :
           /\ DOMAIN submissions' = (DOMAIN submissions) \cup {n} /\ submissions'[n] = s
           /\ \A i \in DOMAIN submissions : submissions'[i] = submissions[i]
    BY <2>1, AppendedSubmission
  <2>. QED  BY <2>1, <2>2 DEF Submitted
<1>3. UNCHANGED <<ready, later, drain, shared>>  BY DEF Push, SubmitPush, queueVars, history
<1>4. \A m \in Nodes : /\ node'[m].stamp = node[m].stamp /\ node'[m].basis = node[m].basis
                       /\ node'[m].retry = node[m].retry
                       /\ m # u => node'[m].value = node[m].value
  BY <1>1, <1>2 DEF RecordsOK, Record
<1>5. \A n \in Nodes : Deps[n] \subseteq Nodes  BY GraphAssumption
<1>6. \A p \in Drains : drain[p] # Idle => drain[p].node \in Nodes  BY DrainedHolds DEF Base
<1>7. node'[u].value = node[u].value \/ Submitted(u)'  BY <1>2
<1>8. BoundHolds'
  <2>1. ASSUME NEW p \in Drains, drain[p] # Idle, NEW m \in Deps[drain[p].node],
               node[m].stamp = drain[p].stamps[m]
        PROVE  node'[m].value = drain[p].bound[m] \/ Submitted(m)'
    <3>1. m \in Nodes  BY <1>5, <1>6, <2>1
    <3>2. node[m].value = drain[p].bound[m] \/ Submitted(m)  BY <2>1 DEF Standing, BoundHolds
    <3>. QED  BY <1>2, <1>4, <1>7, <3>1, <3>2
  <2>. QED  BY <1>3, <1>4, <1>5, <1>6, <2>1 DEF BoundHolds
<1>9. ASSUME NEW e \in Derived PROVE (Stale(e, node') <=> Stale(e, node)) /\ (Mixed(e)' <=> Mixed(e))
  <2>1. e \in Nodes /\ e # u  BY <1>1 DEF Nodes
  <2>2. Stale(e, node') <=> Stale(e, node)  BY <1>4, <1>5, <2>1, StaleReads
  <2>3. Mixed(e)' <=> Mixed(e)  BY <1>3, <1>4, <2>1 DEF Mixed, Based
  <2>. QED  BY <2>2, <2>3
<1>10. Due' = Due  BY <1>3 DEF Due
<1>11. DueIsStale'  BY <1>9, <1>10 DEF Standing, DueIsStale
<1>12. DueAgain'  BY <1>3, <1>4, <1>5, <1>6, <1>10 DEF Standing, DueAgain
<1>. QED  BY <1>8, <1>11, <1>12 DEF Standing

\* The stamps a compute was bound at are no later than the clock.
LEMMA BoundBefore ==
    ASSUME Base, NEW p \in Drains, drain[p] # Idle, NEW m \in Deps[drain[p].node]
    PROVE  /\ m \in Nodes /\ drain[p].stamps[m] \in Nat /\ drain[p].stamps[m] < clock + 1
           /\ node[m].stamp \in Nat /\ drain[p].stamps[m] <= node[m].stamp
<1>1. drain[p].node \in Nodes /\ drain[p].stamps \in [Deps[drain[p].node] -> Nat]
  BY DrainedHolds DEF Base
<1>2. RecordsOK(node) /\ RecordsOK(row) /\ clock \in Nat  BY TypeParts DEF Base
<1>3. m \in Nodes  BY <1>1, GraphAssumption
<1>4. node[m].stamp \in Nat /\ node[m].stamp <= clock  BY <1>2, <1>3, RecordFields DEF Base, StampsOK
<1>5. drain[p].stamps[m] <= node[m].stamp  BY DEF Base, StampsOK
<1>. QED  BY <1>1, <1>2, <1>3, <1>4, <1>5

\* A write of n gives it a stamp that no compute was bound at, and keeps the values of the others.
LEMMA WriteKeepsBound ==
    ASSUME Base, BoundHolds, NEW n \in Nodes, NEW mem, NEW disk, Moved(n, mem, disk),
           \A q \in Drains : drain'[q] \in {Idle, drain[q]},
           \A m \in Nodes \ {n} : Submitted(m) => Submitted(m)'
    PROVE  BoundHolds'
<1>1. /\ node'[n].stamp = clock + 1
      /\ \A m \in Nodes \ {n} : node'[m].stamp = node[m].stamp /\ node'[m].value = node[m].value
  BY DEF Moved, Like
<1>2. ASSUME NEW p \in Drains, drain[p] # Idle, NEW m \in Deps[drain[p].node],
             node'[m].stamp = drain[p].stamps[m]
      PROVE  node'[m].value = drain[p].bound[m] \/ Submitted(m)'
  <2>1. m \in Nodes /\ m # n  BY <1>1, <1>2, BoundBefore
  <2>2. node[m].value = drain[p].bound[m] \/ Submitted(m)
    BY <1>1, <1>2, <2>1 DEF BoundHolds
  <2>. QED  BY <1>1, <2>1, <2>2
<1>3. \A p \in Drains : drain'[p] # Idle => drain'[p] = drain[p]  OBVIOUS
<1>. QED  BY <1>2, <1>3 DEF BoundHolds

\* A write of n outdates the computes of its dependents; one of a node that a drain is in is
\* remembered.
LEMMA WriteKeepsAgain ==
    ASSUME Base, DueAgain, NEW n \in Nodes, NEW mem, NEW disk, Moved(n, mem, disk),
           \A q \in Drains : drain'[q] \in {Idle, drain[q]}, shared \subseteq shared',
           \A q \in Drains : drain'[q] # Idle /\ drain'[q].node = n => n \in shared',
           Due' \subseteq Due \cup Entering(n) \cup {n}
    PROVE  DueAgain'
<1>1. /\ node'[n].stamp = clock + 1
      /\ \A m \in Nodes \ {n} : node'[m].stamp = node[m].stamp
  BY DEF Moved, Like
<1>2. ASSUME NEW p \in Drains, drain[p] # Idle, drain[p].node \in Due', drain[p].node \notin shared',
             drain'[p] = drain[p]
      PROVE  \E m \in Deps[drain[p].node] : node'[m].stamp # drain[p].stamps[m]
  <2>1. drain[p].node # n  BY <1>2
  <2>2. CASE n \in Deps[drain[p].node]
    <3>1. drain[p].stamps[n] \in Nat /\ drain[p].stamps[n] < clock + 1  BY <1>2, <2>2, BoundBefore
    <3>2. node'[n].stamp # drain[p].stamps[n]  BY <1>1, <3>1
    <3>. QED  BY <2>2, <3>2
  <2>3. CASE n \notin Deps[drain[p].node]
    <3>1. drain[p].node \in Due  BY <1>2, <2>1, <2>3 DEF Entering
    <3>2. PICK m \in Deps[drain[p].node] : node[m].stamp # drain[p].stamps[m]
      BY <1>2, <3>1 DEF DueAgain
    <3>3. m \in Nodes /\ m # n  BY <1>2, <2>3, <3>2, BoundBefore
    <3>. QED  BY <1>1, <3>2, <3>3
  <2>. QED  BY <2>2, <2>3
<1>3. \A p \in Drains : drain'[p] # Idle => drain'[p] = drain[p]  OBVIOUS
<1>. QED  BY <1>2, <1>3 DEF DueAgain

\* A write of n leaves what was due stale, or mixed.
LEMMA WriteKeepsStale ==
    ASSUME Base, DueIsStale, NEW n \in Nodes, NEW mem, NEW disk, Moved(n, mem, disk),
           shared \subseteq shared', NEW e \in Due, e # n
    PROVE  e \in Derived /\ (Stale(e, node') \/ Mixed(e)')
<1>1. e \in Derived /\ e \in Nodes /\ (Stale(e, node) \/ Mixed(e))  BY DEF DueIsStale, Nodes
<1>2. CASE Stale(e, node)  BY <1>1, <1>2, WriteStales
<1>3. CASE Mixed(e)
  <2>1. node'[e].basis = node[e].basis  BY <1>1 DEF Moved, Like
  <2>2. Mixed(e)'  BY <1>3, <2>1 DEF Mixed, Based
  <2>. QED  BY <1>1, <2>2
<1>. QED  BY <1>1, <1>2, <1>3

LEMMA EnteringIsStale ==
    ASSUME NEW n, NEW e \in Entering(n)
    PROVE  e \in Derived /\ Stale(e, node')
BY DEF Entering

LEMMA RunSubmissionStanding ==
    ASSUME Base, Standing, RunSubmission
    PROVE  Standing'
<1>. DEFINE s == Head(submissions)
<1>1. drain' = drain /\ submissions # << >> /\ submissions' = Tail(submissions) /\ s \in Submission
  BY RunSubmissionEffect DEF Base
<1>2. PICK u, mem, disk : u = s.node /\ Lands(u, s, mem, disk)
  BY RunSubmissionEffect DEF Base
<1>3. /\ \A i \in DOMAIN submissions : i # 1 => i - 1 \in DOMAIN submissions' /\ i \in Nat
      /\ \A i \in DOMAIN submissions' : submissions'[i] = submissions[i + 1]
      /\ s = submissions[1]
  BY <1>1, DroppedSubmission
<1>. HIDE DEF s
<1>4. u \in Inputs /\ u \in Nodes /\ u \notin Derived
  BY <1>1, <1>2, GraphAssumption DEF Submission, Nodes
<1>5. ASSUME NEW m, m # u, Submitted(m) PROVE Submitted(m)'
  <2>1. PICK i \in DOMAIN submissions : submissions[i].node = m  BY <1>5 DEF Submitted
  <2>2. i # 1 /\ i - 1 \in DOMAIN submissions' /\ i \in Nat  BY <1>2, <1>3, <1>5, <2>1
  <2>3. submissions'[i - 1].node = m  BY <1>3, <2>1, <2>2
  <2>. QED  BY <2>2, <2>3 DEF Submitted
<1>6. /\ Moved(u, mem, disk) /\ Due' \subseteq Due \cup Entering(u) /\ shared \subseteq shared'
  BY <1>2 DEF Lands, RunSubmission, history
<1>7. \A q \in Drains : drain'[q] \in {Idle, drain[q]} /\ (drain'[q] # Idle => drain'[q].node # u)
  BY <1>1, <1>4, DrainedHolds DEF Base
<1>8. BoundHolds'  BY <1>4, <1>5, <1>6, <1>7, WriteKeepsBound DEF Standing
<1>9. DueAgain'  BY <1>4, <1>6, <1>7, WriteKeepsAgain DEF Standing
<1>10. DueIsStale'
  <2>1. \A e \in Due : e # u  BY <1>4 DEF Standing, DueIsStale
  <2>2. \A e \in Due : e \in Derived /\ (Stale(e, node') \/ Mixed(e)')
    BY <1>4, <1>6, <2>1, WriteKeepsStale DEF Standing
  <2>. QED  BY <1>6, <2>2, EnteringIsStale DEF DueIsStale
<1>. QED  BY <1>8, <1>9, <1>10 DEF Standing

LEMMA BeginStanding ==
    ASSUME Base, Standing, NEW p \in Drains, NEW d \in Derived, Begin(p, d)
    PROVE  Standing'
<1>1. /\ drain[p] = Idle /\ d \in Nodes /\ DOMAIN drain = Drains /\ submissions' = submissions
      /\ RecordsOK(node) /\ RecordsOK(row)
  BY BeginEffect, TypeParts DEF Base, Nodes
<1>2. /\ shared \subseteq shared'
      /\ \A q \in Drains : drain[q] # Idle /\ drain[q].node = d => d \in shared'
  BY BeginShares
<1>3. CASE Waits(d)
  <2>1. node' = node /\ drain' = drain /\ Due' \subseteq Due \cup Pends(d)  BY <1>3 DEF Waits
  <2>2. BoundHolds'  BY <1>1, <2>1 DEF Standing, BoundHolds, Submitted
  <2>3. DueAgain'
    <3>1. ASSUME NEW q \in Drains, drain[q] # Idle, drain[q].node \in Due', drain[q].node \notin shared'
          PROVE  \E m \in Deps[drain[q].node] : node[m].stamp # drain[q].stamps[m]
      <4>1. drain[q].node # d  BY <1>2, <3>1
      <4>2. drain[q].node \in Due /\ drain[q].node \notin shared  BY <1>2, <2>1, <3>1, <4>1 DEF Pends
      <4>. QED  BY <3>1, <4>2 DEF Standing, DueAgain
    <3>. QED  BY <2>1, <3>1 DEF DueAgain
  <2>4. DueIsStale'
    <3>1. \A e \in Due : e \in Derived /\ (Stale(e, node') \/ Mixed(e)')
      BY <1>2, <2>1 DEF Standing, DueIsStale, Mixed, Based
    <3>2. \A e \in Pends(d) : e \in Derived /\ Stale(e, node')  BY <2>1 DEF Pends, Stale
    <3>. QED  BY <2>1, <3>1, <3>2 DEF DueIsStale
  <2>. QED  BY <2>2, <2>3, <2>4 DEF Standing
<1>4. CASE \E rec : FailsToo(d, rec) \/ Defers(d, rec)
  <2>1. PICK rec : /\ Moved(d, rec, Loadable(rec)) /\ drain' = drain
                   /\ Due' \subseteq (Due \ {d}) \cup Entering(d) \cup Pends(d)
    BY <1>4 DEF FailsToo, Defers
  <2>2. BoundHolds'
    <3>1. \A m \in Nodes \ {d} : Submitted(m) => Submitted(m)'  BY <1>1 DEF Submitted
    <3>. QED  BY <1>1, <2>1, <3>1, WriteKeepsBound DEF Standing
  <2>3. DueAgain'
    <3>1. Due' \subseteq Due \cup Entering(d) \cup {d}  BY <2>1 DEF Pends
    <3>. QED  BY <1>1, <1>2, <2>1, <3>1, WriteKeepsAgain DEF Standing
  <2>4. \A e \in Due \ {d} : e \in Derived /\ (Stale(e, node') \/ Mixed(e)')
    BY <1>1, <1>2, <2>1, WriteKeepsStale DEF Standing
  <2>5. \A e \in Entering(d) \cup Pends(d) : e \in Derived /\ Stale(e, node')
    BY EnteringIsStale DEF Pends, Stale
  <2>6. DueIsStale'  BY <2>1, <2>4, <2>5 DEF DueIsStale
  <2>. QED  BY <2>2, <2>3, <2>6 DEF Standing
<1>5. CASE Starts(p, d)
  <2>1. /\ node' = node /\ Due' \subseteq Due \ {d}
        /\ drain'[p].node = d /\ drain'[p].stamps = Current(d)
        /\ drain'[p].bound = [m \in Deps[d] |-> node[m].value]
        /\ \A q \in Drains \ {p} : drain'[q] = drain[q]
    BY <1>1, <1>5 DEF Starts
  <2>2. ASSUME NEW q \in Drains, drain'[q] # Idle, NEW m \in Deps[drain'[q].node],
               node[m].stamp = drain'[q].stamps[m]
        PROVE  node[m].value = drain'[q].bound[m] \/ Submitted(m)'
    <3>1. CASE q = p  BY <2>1, <2>2, <3>1
    <3>2. CASE q # p
      <4>1. drain'[q] = drain[q]  BY <2>1, <3>2
      <4>2. node[m].value = drain[q].bound[m] \/ Submitted(m)
        BY <2>2, <4>1 DEF Standing, BoundHolds
      <4>. QED  BY <1>1, <4>1, <4>2 DEF Submitted
    <3>. QED  BY <3>1, <3>2
  <2>3. BoundHolds'  BY <2>1, <2>2 DEF BoundHolds
  <2>4. DueIsStale'  BY <1>2, <2>1 DEF Standing, DueIsStale, Mixed, Based
  <2>5. ASSUME NEW q \in Drains, drain'[q] # Idle, drain'[q].node \in Due', drain'[q].node \notin shared'
        PROVE  \E m \in Deps[drain'[q].node] : node[m].stamp # drain'[q].stamps[m]
    <3>1. q # p  BY <2>1, <2>5
    <3>2. drain'[q] = drain[q]  BY <2>1, <3>1
    <3>. QED  BY <1>2, <2>1, <2>5, <3>2 DEF Standing, DueAgain
  <2>6. DueAgain'  BY <2>1, <2>5 DEF DueAgain
  <2>. QED  BY <2>3, <2>4, <2>6 DEF Standing
<1>. QED  BY <1>3, <1>4, <1>5, BeginEffect DEF Base

LEMMA EndStanding ==
    ASSUME Base, Apart, Standing, NEW p \in Drains, NEW kind, Succeed(p) \/ Fail(p, kind),
           NEW d, d = drain[p].node
    PROVE  Standing'
<1>1. /\ drain[p] # Idle /\ drain' = [drain EXCEPT ![p] = Idle] /\ submissions' = submissions
      /\ Finds(d) \/ \E rec \in Record(d) : Ends(p, d, rec)
  BY SucceedEffect, FailEffect DEF Base
<1>2. /\ d \in Derived /\ d \in Nodes /\ drain[p].stamps \in [Deps[d] -> Nat]
      /\ RecordsOK(node) /\ RecordsOK(row) /\ DOMAIN drain = Drains
  BY <1>1, DrainedHolds, TypeParts DEF Base
<1>3. /\ drain'[p] = Idle /\ \A q \in Drains \ {p} : drain'[q] = drain[q]
      /\ \A q \in Drains : drain'[q] \in {Idle, drain[q]}
      /\ shared' = shared
  BY <1>1, <1>2 DEF Succeed, Fail, history
<1>4. \A q \in Drains : drain'[q] # Idle /\ drain'[q].node = d => d \in shared'
  BY <1>1, <1>3 DEF Apart
<1>5. CASE Finds(d)
  <2>1. node' = node /\ Due' \subseteq Due  BY <1>5 DEF Finds
  <2>2. BoundHolds'  BY <1>1, <1>3, <2>1 DEF Standing, BoundHolds, Submitted
  <2>3. DueAgain'  BY <1>3, <2>1 DEF Standing, DueAgain
  <2>4. DueIsStale'  BY <1>3, <2>1 DEF Standing, DueIsStale, Mixed, Based
  <2>. QED  BY <2>2, <2>3, <2>4 DEF Standing
<1>6. CASE \E rec \in Record(d) : Ends(p, d, rec)
  <2>1. PICK rec : Ends(p, d, rec)  BY <1>6
  <2>2. /\ Moved(d, rec, Loadable(rec))
        /\ Due' \subseteq Due \cup Entering(d) \cup (IF rec.retry THEN {d} ELSE {})
    BY <2>1 DEF Ends
  <2>3. rec.basis = drain[p].stamps  BY <1>1, <2>1, EndedRecord DEF Ends
  <2>4. node'[d].basis = rec.basis /\ node'[d].retry = rec.retry
        /\ \A m \in Nodes \ {d} : node'[m].stamp = node[m].stamp
    BY <2>2 DEF Moved, Like
  <2>5. BoundHolds'
    <3>1. \A m \in Nodes \ {d} : Submitted(m) => Submitted(m)'  BY <1>1 DEF Submitted
    <3>. QED  BY <1>2, <1>3, <2>2, <3>1, WriteKeepsBound DEF Standing
  <2>6. DueAgain'
    <3>1. Due' \subseteq Due \cup Entering(d) \cup {d}  BY <2>2
    <3>. QED  BY <1>2, <1>3, <1>4, <2>2, <3>1, WriteKeepsAgain DEF Standing
  <2>7. ASSUME d \in Due, ~ Mixed(d)' PROVE Stale(d, node')
    <3>1. d \notin shared  BY <1>3, <2>7 DEF Mixed
    <3>2. PICK m \in Deps[d] : node[m].stamp # drain[p].stamps[m]
      BY <1>1, <2>7, <3>1 DEF Standing, DueAgain
    <3>3. m \in Nodes /\ m # d  BY <1>2, GraphAssumption
    <3>4. node'[d].basis[m] # 0  BY <2>7 DEF Mixed, Based
    <3>5. /\ drain[p].stamps[m] \in Nat /\ drain[p].stamps[m] <= node[m].stamp
          /\ node[m].stamp \in Nat
      BY <1>1, BoundBefore
    <3>6. node'[m].stamp \notin {0, node'[d].basis[m]}
      BY <2>3, <2>4, <3>2, <3>3, <3>4, <3>5
    <3>. QED  BY <3>4, <3>6 DEF Stale
  <2>8. \A e \in Due \ {d} : e \in Derived /\ (Stale(e, node') \/ Mixed(e)')
    BY <1>2, <1>3, <2>2, WriteKeepsStale DEF Standing
  <2>9. rec.retry => Stale(d, node')  BY <2>4 DEF Stale
  <2>10. DueIsStale'
    BY <1>2, <2>2, <2>7, <2>8, <2>9, EnteringIsStale DEF DueIsStale
  <2>. QED  BY <2>5, <2>6, <2>10 DEF Standing
<1>. QED  BY <1>1, <1>5, <1>6

-----------------------------------------------------------------------------
(***************************************************************************)
(* No false freshness: first what settles a node, then one lemma for the   *)
(* nodes a step does not compute and one for the node it does.             *)
(***************************************************************************)

\* A settled node that a step neither writes nor submits was settled before it.
LEMMA SettledBefore ==
    ASSUME NEW m \in Nodes, Settled(m)', node'[m].value = node[m].value,
           Submitted(m) => Submitted(m)',
           m \in Derived => (Stale(m, node) => Stale(m, node'))
    PROVE  Settled(m)
BY DEF Settled, Submitted

\* What a node agrees with are the values of its dependencies and its own.
LEMMA AgreesStay ==
    ASSUME NEW d \in Derived, Agrees(d), node'[d].value = node[d].value,
           \A m \in Deps[d] : node'[m].value = node[m].value
    PROVE  Agrees(d)'
<1>1. [m \in Deps[d] |-> node'[m].value] = [m \in Deps[d] |-> node[m].value]  OBVIOUS
<1>2. Expected(d)' = Expected(d)  BY <1>1 DEF Expected
<1>. QED  BY <1>2 DEF Agrees

\* What a firm node is computed from neither strayed nor is shared.
LEMMA FirmParts ==
    ASSUME NEW d, Firm(d)'
    PROVE  /\ Settled(d)' /\ Based(d)'
           /\ \A m \in Deps[d] : Settled(m)' /\ Based(m)' /\ m \notin strayed' /\ m \notin shared'
BY DEF Firm

\* A node whose dependencies were settled, with the same values, is as fresh as it was.
LEMMA FirmBefore ==
    ASSUME NoFalseFreshness, NEW d \in Derived, Firm(d)',
           strayed \subseteq strayed', shared \subseteq shared',
           \A m \in {d} \cup Deps[d] : /\ Settled(m) /\ node'[m].value = node[m].value
                                       /\ node'[m].basis = node[m].basis
    PROVE  Agrees(d)'
<1>1. /\ Based(d)' /\ \A m \in Deps[d] : Based(m)' /\ m \notin strayed' /\ m \notin shared'
  BY FirmParts
<1>2. \A m \in {d} \cup Deps[d] : Based(m)' => Based(m)  BY DEF Based
<1>3. Firm(d)  BY <1>1, <1>2 DEF Firm
<1>4. Agrees(d)  BY <1>3 DEF NoFalseFreshness
<1>. QED  BY <1>4, AgreesStay

\* A node other than the one written: either the write makes it stale, or it held before.
LEMMA OthersStayFresh ==
    ASSUME Base, NoFalseFreshness, NEW n \in Nodes, NEW mem, NEW disk, Moved(n, mem, disk),
           \A m \in Nodes : m # n => (Submitted(m) => Submitted(m)'),
           strayed \subseteq strayed', shared \subseteq shared',
           NEW d \in Derived, d # n, Firm(d)'
    PROVE  Agrees(d)'
<1>1. d \in Nodes /\ Deps[d] \subseteq Nodes  BY GraphAssumption DEF Nodes
<1>2. Settled(d)' /\ \A m \in Deps[d] : Settled(m)'  BY FirmParts
<1>3. n \notin Deps[d]  BY <1>2, WriteStales DEF Settled
<1>4. ASSUME NEW m \in Nodes, m # n, Settled(m)'
      PROVE  Settled(m) /\ node'[m].value = node[m].value /\ node'[m].basis = node[m].basis
  <2>1. node'[m].value = node[m].value /\ node'[m].basis = node[m].basis  BY <1>4 DEF Moved, Like
  <2>2. m \in Derived => (Stale(m, node) => Stale(m, node'))  BY <1>4, WriteStales
  <2>3. Settled(m)  BY <1>4, <2>1, <2>2, SettledBefore
  <2>. QED  BY <2>1, <2>3
<1>. QED  BY <1>1, <1>2, <1>3, <1>4, FirmBefore

\* The node a refresh wrote.
LEMMA WrittenIsFresh ==
    ASSUME Base, Standing, NEW p \in Drains, NEW d \in Derived, NEW rec, Moved(d, rec, Loadable(rec)),
           \/ DepFailed(d, rec) \/ Deferred(d, rec)
           \/ drain[p] # Idle /\ drain[p].node = d /\ (Computed(p, d, rec) \/ Failed(p, d, rec)),
           \A m \in Nodes : Submitted(m) => Submitted(m)', shared \subseteq shared',
           Firm(d)'
    PROVE  Agrees(d)'
<1>1. /\ d \in Nodes /\ Deps[d] \subseteq Nodes /\ d \notin Deps[d]
      /\ RecordsOK(node) /\ RecordsOK(row) /\ clock \in Nat
  BY GraphAssumption, TypeParts DEF Nodes, Base
<1>2. /\ node'[d].value = rec.value /\ node'[d].basis = rec.basis
      /\ \A m \in Deps[d] : /\ node'[m].value = node[m].value /\ node'[m].stamp = node[m].stamp
                            /\ node'[m].basis = node[m].basis
  BY <1>1 DEF Moved, Like
<1>0. /\ Settled(d)' /\ Based(d)'
      /\ \A m \in Deps[d] : Settled(m)' /\ Based(m)' /\ m \notin shared'
  BY FirmParts
<1>3. ~ Stale(d, node') /\ node'[d].value # Pending  BY <1>0 DEF Settled
<1>4. CASE DepFailed(d, rec)
  <2>1. rec.value = Impossible /\ \E m \in Deps[d] : node'[m].value = Impossible
    BY <1>2, <1>4 DEF DepFailed, Fresh
  <2>2. Expected(d)' = Impossible  BY <2>1 DEF Expected
  <2>. QED  BY <1>2, <2>1, <2>2 DEF Agrees
<1>5. CASE Deferred(d, rec)
  <2>1. PICK m \in Deps[d] \cap Derived : m # d /\ m \in Due  BY <1>5 DEF Deferred
  <2>2. ~ Mixed(m)  BY <1>0, <1>2, <2>1 DEF Mixed, Based
  <2>3. Stale(m, node)  BY <2>1, <2>2 DEF Standing, DueIsStale
  <2>4. Stale(m, node')  BY <1>1, <2>1, <2>3, WriteStales
  <2>. QED  BY <1>0, <2>1, <2>4 DEF Settled
<1>6. CASE drain[p] # Idle /\ drain[p].node = d /\ (Computed(p, d, rec) \/ Failed(p, d, rec))
  <2>1. /\ rec.basis = drain[p].stamps
        /\ \/ rec.value = Compute[d][drain[p].bound]
           \/ d \in Flaky /\ rec.value \in {Impossible, Pending}
    BY <1>6, EndedRecord
  <2>2. /\ drain[p].bound \in [Deps[d] -> Values] /\ drain[p].stamps \in [Deps[d] -> Nat]
    BY <1>6, DrainedHolds DEF Base
  <2>3. CASE d \in Flaky /\ rec.value \in {Impossible, Pending}
    BY <1>2, <1>3, <2>3 DEF Agrees
  <2>4. CASE rec.value = Compute[d][drain[p].bound]
    <3>1. ASSUME NEW m \in Deps[d] PROVE node'[m].value = drain[p].bound[m]
      <4>1. drain[p].stamps[m] # 0 /\ drain[p].stamps[m] \in Nat
        BY <1>0, <1>2, <2>1, <2>2 DEF Based
      <4>2. node[m].stamp \in Nat /\ drain[p].stamps[m] <= node[m].stamp
        BY <1>6, BoundBefore
      <4>3. node'[m].stamp \in {0, drain[p].stamps[m]}
        BY <1>2, <1>3, <2>1, <4>1 DEF Stale
      <4>4. node[m].stamp = drain[p].stamps[m]  BY <1>2, <4>1, <4>2, <4>3
      <4>5. node[m].value = drain[p].bound[m] \/ Submitted(m)
        BY <1>6, <4>4 DEF Standing, BoundHolds
      <4>6. ~ Submitted(m)'  BY <1>0 DEF Settled, Submitted
      <4>. QED  BY <1>1, <1>2, <4>5, <4>6
    <3>2. [m \in Deps[d] |-> node'[m].value] = drain[p].bound  BY <2>2, <3>1
    <3>3. \A m \in Deps[d] : node'[m].value # Impossible  BY <2>2, <3>1, ValueAssumption
    <3>4. Expected(d)' = Compute[d][drain[p].bound]  BY <3>2, <3>3 DEF Expected
    <3>. QED  BY <1>2, <2>4, <3>4 DEF Agrees
  <2>. QED  BY <2>1, <2>3, <2>4
<1>. QED  BY <1>4, <1>5, <1>6

LEMMA RefreshStaysFresh ==
    ASSUME Base, Standing, NoFalseFreshness, NEW p \in Drains, NEW d \in Derived, NEW rec,
           Moved(d, rec, Loadable(rec)),
           \/ DepFailed(d, rec) \/ Deferred(d, rec)
           \/ drain[p] # Idle /\ drain[p].node = d /\ (Computed(p, d, rec) \/ Failed(p, d, rec)),
           submissions' = submissions, strayed \subseteq strayed', shared \subseteq shared'
    PROVE  NoFalseFreshness'
<1>1. \A m \in Nodes : Submitted(m) => Submitted(m)'  BY DEF Submitted
<1>2. ASSUME NEW e \in Derived, Firm(e)' PROVE Agrees(e)'
  <2>1. d \in Nodes  BY DEF Nodes
  <2>2. CASE e = d
    <3>1. Firm(d)'  BY <1>2, <2>2
    <3>2. Agrees(d)'  BY <1>1, <3>1, WrittenIsFresh
    <3>. QED  BY <2>2, <3>2
  <2>3. CASE e # d  BY <1>1, <1>2, <2>1, <2>3, OthersStayFresh
  <2>. QED  BY <2>2, <2>3
<1>. QED  BY <1>2 DEF NoFalseFreshness

\* A step after which what is settled was settled before it, with the same values, but for
\* what strayed.
LEMMA SameFreshness ==
    ASSUME NoFalseFreshness, strayed \subseteq strayed', shared \subseteq shared',
           \A m \in Nodes : node'[m].basis = node[m].basis,
           \A m \in Nodes : Settled(m)' /\ (m \in Derived \/ m \notin strayed')
               => Settled(m) /\ node'[m].value = node[m].value
    PROVE  NoFalseFreshness'
<1>1. \A d \in Derived : d \in Nodes /\ Deps[d] \subseteq Nodes  BY GraphAssumption DEF Nodes
<1>2. ASSUME NEW d \in Derived, Firm(d)' PROVE Agrees(d)'
  <2>1. Settled(d)' /\ \A m \in Deps[d] : Settled(m)' /\ m \notin strayed'  BY <1>2, FirmParts
  <2>2. \A m \in {d} \cup Deps[d] : /\ Settled(m) /\ node'[m].value = node[m].value
                                    /\ node'[m].basis = node[m].basis
    BY <1>1, <2>1
  <2>. QED  BY <1>2, <2>2, FirmBefore
<1>. QED  BY <1>2 DEF NoFalseFreshness

LEMMA UnmovedFreshness ==
    ASSUME NoFalseFreshness, UNCHANGED <<node, submissions>>,
           strayed \subseteq strayed', shared \subseteq shared'
    PROVE  NoFalseFreshness'
<1>1. \A m \in Nodes : Settled(m)' => Settled(m) /\ node'[m].value = node[m].value
  BY DEF Settled, Submitted
<1>. QED  BY <1>1, SameFreshness

LEMMA EditFreshness ==
    ASSUME Base, NoFalseFreshness, NEW u \in Inputs, NEW v \in Values \cup {Impossible},
           Push(u, v) \/ SubmitPush(u, v), strayed \subseteq strayed', shared \subseteq shared'
    PROVE  NoFalseFreshness'
<1>1. RecordsOK(node) /\ u \in Nodes /\ u \notin Derived
  BY TypeParts, GraphAssumption DEF Base, Nodes
<1>2. PICK s \in Submission : /\ submissions' = Append(submissions, s) /\ s.node = u
                              /\ node' = node \/ node' = [node EXCEPT ![u].value = v]
  <2>. DEFINE Sent(kind) == [kind |-> kind, node |-> u, value |-> v]
  <2>1. \A kind \in {"apply", "push"} : Sent(kind) \in Submission /\ Sent(kind).node = u
    BY DEF Submission
  <2>2. \E kind \in {"apply", "push"} : submissions' = Append(submissions, Sent(kind))
    BY DEF Push, SubmitPush
  <2>3. node' = node \/ node' = [node EXCEPT ![u].value = v]  BY DEF Push, SubmitPush
  <2>. HIDE DEF Sent
  <2>. QED  BY <2>1, <2>2, <2>3
<1>3. PICK n :
         /\ DOMAIN submissions' = (DOMAIN submissions) \cup {n} /\ submissions'[n] = s
         /\ \A i \in DOMAIN submissions : submissions'[i] = submissions[i]
  BY <1>2, AppendedSubmission
<1>4. ~ Settled(u)'
  <2>1. Submitted(u)'  BY <1>2, <1>3 DEF Submitted
  <2>. QED  BY <2>1 DEF Settled
<1>5. \A m \in Nodes : /\ node'[m].stamp = node[m].stamp /\ node'[m].basis = node[m].basis
                       /\ node'[m].retry = node[m].retry
                       /\ m # u => node'[m].value = node[m].value
  BY <1>1, <1>2 DEF RecordsOK, Record
<1>6. ASSUME NEW m \in Nodes, Settled(m)' PROVE Settled(m) /\ node'[m].value = node[m].value
  <2>1. m # u /\ node'[m].value = node[m].value  BY <1>4, <1>5, <1>6
  <2>2. Submitted(m) => Submitted(m)'  BY <1>3 DEF Submitted
  <2>3. m \in Derived => (Stale(m, node) => Stale(m, node'))
    <3>1. \A e \in Deps[m] : e \in Nodes  BY GraphAssumption
    <3>. QED  BY <1>5, <2>1, <3>1, StaleReads
  <2>. QED  BY <1>6, <2>1, <2>2, <2>3, SettledBefore
<1>. QED  BY <1>5, <1>6, SameFreshness

LEMMA RunSubmissionFreshness ==
    ASSUME Base, NoFalseFreshness, RunSubmission
    PROVE  NoFalseFreshness'
<1>. DEFINE s == Head(submissions)
<1>1. submissions # << >> /\ submissions' = Tail(submissions) /\ s \in Submission
  BY RunSubmissionEffect DEF Base
<1>2. PICK u, mem, disk : u = s.node /\ Lands(u, s, mem, disk)
  BY RunSubmissionEffect DEF Base
<1>3. /\ \A i \in DOMAIN submissions : i # 1 => i - 1 \in DOMAIN submissions' /\ i \in Nat
      /\ \A i \in DOMAIN submissions' : submissions'[i] = submissions[i + 1]
      /\ s = submissions[1]
  BY <1>1, DroppedSubmission
<1>. HIDE DEF s
<1>4. u \in Nodes /\ u \notin Derived  BY <1>1, <1>2, GraphAssumption DEF Submission, Nodes
<1>5. ASSUME NEW m, m # u, Submitted(m) PROVE Submitted(m)'
  <2>1. PICK i \in DOMAIN submissions : submissions[i].node = m  BY <1>5 DEF Submitted
  <2>2. i # 1 /\ i - 1 \in DOMAIN submissions' /\ i \in Nat  BY <1>2, <1>3, <1>5, <2>1
  <2>3. submissions'[i - 1].node = m  BY <1>3, <2>1, <2>2
  <2>. QED  BY <2>2, <2>3 DEF Submitted
<1>6. Moved(u, mem, disk) /\ strayed' = strayed /\ shared' = shared
  BY <1>2 DEF Lands, RunSubmission, history
<1>7. ASSUME NEW d \in Derived, Firm(d)' PROVE Agrees(d)'
  BY <1>4, <1>5, <1>6, <1>7, OthersStayFresh
<1>. QED  BY <1>7 DEF NoFalseFreshness

\* A restart builds the nodes that were there, but for the inputs whose writes it loses.
LEMMA RestartFreshness ==
    ASSUME Base, Writes, NoFalseFreshness, Restart
    PROVE  NoFalseFreshness' /\ Standing'
<1>1. /\ node' = row
      /\ drain' = [p \in Drains |-> Idle]
      /\ Due' \subseteq {e \in Derived : Stale(e, node')}
  BY RestartEffect DEF Base
<1>2. strayed' = strayed \cup {u \in Inputs : Submitted(u)} /\ shared' = shared  BY DEF Restart
<1>3. ASSUME NEW m \in Nodes
      PROVE  /\ node'[m].stamp = node[m].stamp
             /\ node'[m].basis = node[m].basis /\ node'[m].retry = node[m].retry
  BY <1>1 DEF Base, Follows
<1>4. ASSUME NEW m \in Derived PROVE m \in Nodes /\ node'[m].value = node[m].value /\ ~ Submitted(m)
  <2>1. m \in Nodes /\ m \notin Inputs  BY GraphAssumption DEF Nodes
  <2>2. node'[m].value = node[m].value  BY <1>1, <2>1 DEF Base, Follows
  <2>3. \A i \in DOMAIN submissions : submissions[i].node \in Inputs
    <3>1. submissions \in Seq(Submission)  BY DEF Base, StateOK
    <3>2. \A i \in DOMAIN submissions : submissions[i] \in Submission  BY <3>1
    <3>. QED  BY <3>2 DEF Submission
  <2>. QED  BY <2>1, <2>2, <2>3 DEF Submitted
<1>5. ASSUME NEW m \in Inputs, m \notin strayed' PROVE node'[m].value = node[m].value /\ ~ Submitted(m)
  <2>1. m \in Nodes /\ m \notin strayed /\ ~ Submitted(m)  BY <1>2, <1>5 DEF Nodes
  <2>2. RowIsMemory  BY WritesMeanMemory
  <2>. QED  BY <1>1, <2>1, <2>2 DEF RowIsMemory
<1>6. ASSUME NEW m \in Nodes, Settled(m)', m \in Derived \/ m \notin strayed'
      PROVE  Settled(m) /\ node'[m].value = node[m].value
  <2>1. m \in Derived => (Stale(m, node) => Stale(m, node'))
    <3>1. \A e \in Deps[m] : e \in Nodes  BY GraphAssumption
    <3>. QED  BY <1>3, <1>4, <3>1, StaleReads
  <2>2. ~ Submitted(m) /\ node'[m].value = node[m].value  BY <1>4, <1>5, <1>6 DEF Nodes
  <2>. QED  BY <1>6, <2>1, <2>2, SettledBefore
<1>7. NoFalseFreshness'  BY <1>2, <1>3, <1>6, SameFreshness
<1>8. BoundHolds' /\ DueAgain'  BY <1>1 DEF BoundHolds, DueAgain
<1>9. DueIsStale'  BY <1>1 DEF DueIsStale
<1>. QED  BY <1>7, <1>8, <1>9 DEF Standing

LEMMA StepFreshness ==
    ASSUME Base, Writes, Freshness, [Next]_vars
    PROVE  Freshness'
<1>. SUFFICES Standing' /\ NoFalseFreshness'  BY StepApart DEF Freshness
<1>1. Standing /\ NoFalseFreshness /\ Apart  BY DEF Freshness
<1>2. strayed \subseteq strayed' /\ shared \subseteq shared'  BY StepHistory
<1>3. CASE Edit  BY <1>1, <1>2, <1>3, EditStanding, EditFreshness DEF Edit
<1>4. CASE RunSubmission  BY <1>1, <1>4, RunSubmissionStanding, RunSubmissionFreshness
<1>5. ASSUME NEW p \in Drains, NEW d \in Derived, Begin(p, d) PROVE NoFalseFreshness'
  <2>1. submissions' = submissions  BY <1>5, BeginEffect DEF Base
  <2>2. CASE Waits(d) \/ Starts(p, d)  BY <1>1, <1>2, <2>1, <2>2, UnmovedFreshness DEF Waits, Starts
  <2>3. CASE \E rec : FailsToo(d, rec) \/ Defers(d, rec)
    BY <1>1, <1>2, <2>1, <2>3, RefreshStaysFresh DEF FailsToo, Defers
  <2>. QED  BY <1>5, <2>2, <2>3, BeginEffect DEF Base
<1>6. ASSUME NEW p \in Drains, NEW kind, Succeed(p) \/ Fail(p, kind) PROVE NoFalseFreshness'
  <2>. DEFINE d == drain[p].node
  <2>1. /\ drain[p] # Idle /\ submissions' = submissions
        /\ Finds(d) \/ \E rec \in Record(d) : Ends(p, d, rec)
    BY <1>6, SucceedEffect, FailEffect DEF Base
  <2>2. d \in Derived  BY <2>1, DrainedHolds DEF Base
  <2>3. CASE Finds(d)  BY <1>1, <1>2, <2>1, <2>3, UnmovedFreshness DEF Finds
  <2>4. CASE \E rec \in Record(d) : Ends(p, d, rec)
    BY <1>1, <1>2, <2>1, <2>2, <2>4, RefreshStaysFresh DEF Ends
  <2>. QED  BY <2>1, <2>3, <2>4
<1>7. CASE \E p \in Drains : Refresh(p)
  BY <1>1, <1>5, <1>6, <1>7, BeginStanding, EndStanding DEF Refresh
<1>8. CASE Tick \/ StartFlush \/ EndFlush \/ UNCHANGED vars
  BY <1>1, <1>2, <1>8, OtherBase, SameStanding, UnmovedFreshness
<1>9. CASE Restart  BY <1>1, <1>9, RestartFreshness
<1>. QED  BY <1>3, <1>4, <1>7, <1>8, <1>9 DEF Next

LEMMA InitFreshness ==
    ASSUME Init
    PROVE  Freshness
<1>1. \A n \in Nodes : node[n].value = (IF n \in Inputs THEN Initial[n] ELSE Pending)
  BY DEF Init
<1>2. \A d \in Derived : d \in Nodes /\ node[d].value = Pending
  BY <1>1, GraphAssumption DEF Nodes
<1>3. \A p \in Drains : drain[p] = Idle  BY DEF Init
<1>4. Due \subseteq Derived
  <2>1. ready = [i \in DOMAIN Order |-> Live(Order[i])] /\ later = << >>  BY DEF Init
  <2>2. \A i \in DOMAIN Order : Order[i] \in Derived  BY GraphAssumption
  <2>3. On(ready) \subseteq Derived  BY <2>1, <2>2 DEF On, Live
  <2>4. On(later) = {}  BY <2>1 DEF On
  <2>. QED  BY <2>3, <2>4 DEF Due
<1>5. DueIsStale  BY <1>2, <1>4 DEF DueIsStale, Stale
<1>6. NoFalseFreshness  BY <1>2 DEF NoFalseFreshness, Firm, Settled
<1>. QED  BY <1>3, <1>5, <1>6 DEF Freshness, Apart, Standing, BoundHolds, DueAgain

\* The invariant of freshness.
THEOREM FreshnessInvariant == Spec => [](Base /\ Writes /\ Freshness)
<1>1. Init => Base /\ Writes /\ Freshness  BY InitBase, InitWrites, InitFreshness
<1>2. Base /\ Writes /\ Freshness /\ [Next]_vars => (Base /\ Writes /\ Freshness)'
  BY StepBase, StepWrites, StepFreshness
<1>. QED  BY <1>1, <1>2, PTL DEF Spec

\* A node that reads as fresh holds what its settled dependencies imply, whatever edits,
\* flushes, failures and restarts ran between the binding of its inputs and the end of its
\* compute (refresh, _is_stale, _complete_refresh); but for what Firm leaves out.
THEOREM FreshIsFresh == Spec => []NoFalseFreshness
<1>1. Base /\ Writes /\ Freshness => NoFalseFreshness  BY DEF Freshness
<1>. QED  BY <1>1, FreshnessInvariant, PTL

-----------------------------------------------------------------------------
(***************************************************************************)
(* Nobody is stranded.  A node that has events in the queue, live or not,  *)
(* keeps one whatever is done to the queue, until it is popped itself.     *)
(***************************************************************************)
Named(q) == {q[i].node : i \in DOMAIN q}
Names == Named(ready) \cup Named(later)

\* Forgetting the live event of a node leaves the node in the heap.
LEMMA NamedForget ==
    ASSUME NEW q \in Seq(Event), NEW d
    PROVE  Named(Forget(q, d)) = Named(q)
<1>. DEFINE f == Forget(q, d)
<1>1. DOMAIN f = DOMAIN q  BY DEF Forget
<1>2. \A i \in DOMAIN q : f[i].node = q[i].node  BY ForgetHolds
<1>. HIDE DEF f
<1>3. Named(f) = Named(q)  BY <1>1, <1>2 DEF Named
<1>. QED  BY <1>3 DEF f

LEMMA JoinHolds ==
    ASSUME NEW S, NEW a \in Seq(S), NEW b \in Seq(S)
    PROVE  /\ a \o b \in Seq(S) /\ Len(a \o b) = Len(a) + Len(b)
           /\ \A k \in 1..Len(a) : (a \o b)[k] = a[k]
           /\ \A k \in 1..Len(b) : (a \o b)[Len(a) + k] = b[k]
OBVIOUS

\* Inserting an event loses none.
LEMMA NamedInsert ==
    ASSUME NEW q \in Seq(Event), NEW e \in Event, NEW i \in 1..(Len(q) + 1)
    PROVE  Named(q) \cup {e.node} \subseteq Named(InsertAt(q, i, e))
<1>. DEFINE a == InsertAt(q, i, e)
<1>1. a = SubSeq(q, 1, i - 1) \o <<e>> \o SubSeq(q, i, Len(q))  BY DEF InsertAt
<1>2. /\ DOMAIN a = 1..(Len(q) + 1) /\ a[i] = e
      /\ \A k \in 1..Len(q) : a[IF k < i THEN k ELSE k + 1] = q[k]
  <2>. DEFINE l == SubSeq(q, 1, i - 1)
              r == SubSeq(q, i, Len(q))
  <2>1. /\ l \in Seq(Event) /\ Len(l) = i - 1 /\ \A k \in 1..(i - 1) : l[k] = q[k]
        /\ r \in Seq(Event) /\ Len(r) = Len(q) - i + 1 /\ \A k \in 1..(Len(q) - i + 1) : r[k] = q[k + i - 1]
    OBVIOUS
  <2>2. a = l \o <<e>> \o r  BY <1>1
  <2>. HIDE DEF a, l, r
  <2>3. <<e>> \in Seq(Event) /\ Len(<<e>>) = 1 /\ <<e>>[1] = e  OBVIOUS
  <2>. DEFINE m == l \o <<e>>
  <2>4. /\ m \in Seq(Event) /\ Len(m) = i /\ m[i] = e
        /\ \A k \in 1..(i - 1) : m[k] = q[k]
    <3>. DEFINE s == <<e>>
    <3>1. s \in Seq(Event) /\ Len(s) = 1 /\ s[1] = e  BY <2>3
    <3>2. m = l \o s  OBVIOUS
    <3>. HIDE DEF s, m
    <3>3. /\ m \in Seq(Event) /\ Len(m) = Len(l) + Len(s)
          /\ \A k \in 1..Len(l) : m[k] = l[k]
          /\ \A k \in 1..Len(s) : m[Len(l) + k] = s[k]
      <4>1. /\ l \o s \in Seq(Event) /\ Len(l \o s) = Len(l) + Len(s)
            /\ \A k \in 1..Len(l) : (l \o s)[k] = l[k]
            /\ \A k \in 1..Len(s) : (l \o s)[Len(l) + k] = s[k]
        <5>1. l \in Seq(Event) /\ s \in Seq(Event)  BY <2>1, <3>1
        <5>. QED  BY <5>1, JoinHolds
      <4>. QED  BY <3>2, <4>1, Zenon
    <3>4. Len(m) = i /\ m[i] = s[1]
      <4>1. Len(l) + 1 = i /\ 1 \in 1..Len(s)  BY <2>1, <3>1
      <4>. QED  BY <3>1, <3>3, <4>1
    <3>5. \A k \in 1..(i - 1) : m[k] = l[k]  BY <2>1, <3>3
    <3>. QED  BY <2>1, <3>1, <3>3, <3>4, <3>5
  <2>5. a = m \o r  BY <2>2
  <2>. HIDE DEF m
  <2>6. /\ DOMAIN a = 1..(Len(q) + 1) /\ \A k \in 1..i : a[k] = m[k]
        /\ \A k \in (i + 1)..(Len(q) + 1) : a[k] = r[k - i]
    <3>1. /\ m \o r \in Seq(Event) /\ Len(m \o r) = Len(m) + Len(r)
          /\ \A k \in 1..Len(m) : (m \o r)[k] = m[k]
          /\ \A k \in 1..Len(r) : (m \o r)[Len(m) + k] = r[k]
      <4>1. m \in Seq(Event) /\ r \in Seq(Event)  BY <2>1, <2>4
      <4>. QED  BY <4>1, JoinHolds
    <3>2. Len(m) = i /\ Len(r) = Len(q) - i + 1 /\ i \in Nat /\ Len(q) \in Nat  BY <2>1, <2>4
    <3>3. a \in Seq(Event) /\ Len(a) = Len(q) + 1
      <4>1. Len(m) + Len(r) = Len(q) + 1  BY <3>2
      <4>. QED  BY <2>5, <3>1, <4>1, Zenon
    <3>4. DOMAIN a = 1..(Len(q) + 1)  BY <3>3
    <3>5. \A k \in 1..i : a[k] = m[k]  BY <2>5, <3>1, <3>2, Zenon
    <3>6. ASSUME NEW k \in (i + 1)..(Len(q) + 1) PROVE a[k] = r[k - i]
      <4>1. k - i \in 1..Len(r) /\ Len(m) + (k - i) = k  BY <3>2
      <4>2. (m \o r)[Len(m) + (k - i)] = r[k - i]  BY <3>1, <4>1
      <4>. QED  BY <2>5, <4>1, <4>2, Zenon
    <3>. QED  BY <3>4, <3>5, <3>6
  <2>7. ASSUME NEW k \in 1..Len(q) PROVE a[IF k < i THEN k ELSE k + 1] = q[k]
    <3>1. CASE k < i  BY <2>4, <2>6, <3>1
    <3>2. CASE ~(k < i)
      <4>1. k + 1 \in (i + 1)..(Len(q) + 1) /\ (k + 1) - i \in 1..(Len(q) - i + 1) /\ ((k + 1) - i) + i - 1 = k
        BY <3>2
      <4>. QED  BY <2>1, <2>6, <3>2, <4>1
    <3>. QED  BY <3>1, <3>2
  <2>. QED  BY <2>4, <2>6, <2>7
<1>. HIDE DEF a
<1>3. \A k \in 1..Len(q) : (IF k < i THEN k ELSE k + 1) \in 1..(Len(q) + 1)  OBVIOUS
<1>4. Named(q) \subseteq Named(a)
  <2>1. ASSUME NEW k \in DOMAIN q PROVE q[k].node \in Named(a)
    <3>. DEFINE at == IF k < i THEN k ELSE k + 1
    <3>1. at \in DOMAIN a /\ a[at] = q[k]  BY <1>2, <1>3
    <3>. HIDE DEF at
    <3>. QED  BY <3>1 DEF Named
  <2>. QED  BY <2>1 DEF Named
<1>5. e.node \in Named(a)
  <2>1. i \in DOMAIN a /\ a[i] = e  BY <1>2
  <2>. QED  BY <2>1 DEF Named
<1>. QED  BY <1>4, <1>5 DEF a

LEMMA NamedJoin ==
    ASSUME NEW q \in Seq(Event), NEW r \in Seq(Event)
    PROVE  Named(q) \cup Named(r) \subseteq Named(q \o r)
<1>1. ASSUME NEW i \in DOMAIN q PROVE i \in DOMAIN (q \o r) /\ (q \o r)[i] = q[i]
  OBVIOUS
<1>2. ASSUME NEW i \in DOMAIN r PROVE Len(q) + i \in DOMAIN (q \o r) /\ (q \o r)[Len(q) + i] = r[i]
  OBVIOUS
<1>. HIDE <1>1, <1>2
<1>. DEFINE j == q \o r
<1>3. /\ \A i \in DOMAIN q : i \in DOMAIN j /\ j[i] = q[i]
      /\ \A i \in DOMAIN r : Len(q) + i \in DOMAIN j /\ j[Len(q) + i] = r[i]
  BY <1>1, <1>2
<1>. HIDE DEF j
<1>4. Named(q) \cup Named(r) \subseteq Named(j)  BY <1>3 DEF Named
<1>. QED  BY <1>4 DEF j

\* Popping the head loses the head's node at most.
LEMMA NamedTail ==
    ASSUME NEW q \in Seq(Event), q # << >>
    PROVE  Named(q) \subseteq Named(Tail(q)) \cup {Head(q).node}
<1>1. \A i \in DOMAIN q : i = 1 \/ (i - 1 \in DOMAIN Tail(q) /\ Tail(q)[i - 1] = q[i])  OBVIOUS
<1>2. Head(q) = q[1]  OBVIOUS
<1>3. ASSUME NEW i \in DOMAIN q PROVE q[i].node \in Named(Tail(q)) \cup {Head(q).node}
  <2>1. CASE i = 1  BY <1>2, <2>1
  <2>2. CASE i # 1
    <3>. DEFINE t == Tail(q)
    <3>1. i - 1 \in DOMAIN t /\ t[i - 1] = q[i]  BY <1>1, <2>2
    <3>. HIDE DEF t
    <3>2. q[i].node \in Named(t)  BY <3>1 DEF Named
    <3>. QED  BY <3>2 DEF t
  <2>. QED  BY <2>1, <2>2
<1>. QED  BY <1>3 DEF Named

LEMMA NamedAppend ==
    ASSUME NEW q \in Seq(Event), NEW e \in Event
    PROVE  Named(q) \cup {e.node} \subseteq Named(Append(q, e))
<1>. DEFINE a == Append(q, e)
<1>1. /\ \A i \in DOMAIN q : i \in DOMAIN a /\ a[i] = q[i]
      /\ Len(q) + 1 \in DOMAIN a /\ a[Len(q) + 1] = e
  OBVIOUS
<1>. HIDE DEF a
<1>2. Named(q) \cup {e.node} \subseteq Named(a)  BY <1>1 DEF Named
<1>. QED  BY <1>2 DEF a

\* Every derived node is constructed, so Events lists all of S.
LEMMA EventsNameAll ==
    ASSUME NEW S \in SUBSET Derived
    PROVE  Events(S) \in Seq(Event) /\ S \subseteq Named(Events(S))
<1>. DEFINE N == Len(Order)
            Lists(s, n) == s \in Seq(Event) /\ \A i \in 1..n : Order[i] \in S => Order[i] \in Named(s)
<1>1. PICK f : Grown(S, f, N) /\ Events(S) = f[N]  BY EventsGrow
<1>. DEFINE T == {n \in 0..N : Lists(f[n], n)}
<1>2. N \in Nat /\ DOMAIN Order = 1..N /\ \A i \in 1..N : Order[i] \in Derived  BY GraphAssumption
<1>. HIDE DEF N
<1>3. 0 \in T
  <2>1. f[0] = << >>  BY <1>1, <1>2 DEF Grown
  <2>2. << >> \in Seq(Event) /\ 1..0 = {}  OBVIOUS
  <2>3. Lists(f[0], 0)  BY <2>1, <2>2
  <2>. HIDE DEF Lists
  <2>. QED  BY <2>3, <1>2
<1>4. ASSUME NEW i \in 1..N, i - 1 \in T PROVE i \in T
  <2>1. f[i - 1] \in Seq(Event) /\ \A j \in 1..(i - 1) : Order[j] \in S => Order[j] \in Named(f[i - 1])
    BY <1>4
  <2>2. f[i] = IF Order[i] \in S THEN Append(f[i - 1], Live(Order[i])) ELSE f[i - 1]
    <3>1. i \in 0..N /\ i # 0  BY <1>2
    <3>2. f = [j \in 0..N |-> IF j = 0 THEN <<>>
                              ELSE IF Order[j] \in S THEN Append(f[j - 1], Live(Order[j]))
                              ELSE f[j - 1]]
      BY <1>1, Zenon DEF Grown
    <3>. QED  BY <3>1, <3>2
  <2>3. \A j \in 1..i : j \in 1..(i - 1) \/ j = i  BY <1>2
  <2>4. Lists(f[i], i)
    <3>1. CASE Order[i] \in S
      <4>. DEFINE e == Live(Order[i])
      <4>1. e \in Event /\ e.node = Order[i]  BY <1>2 DEF Live, Event
      <4>2. f[i] = Append(f[i - 1], e)  BY <2>2, <3>1
      <4>. HIDE DEF e
      <4>3. f[i] \in Seq(Event) /\ Named(f[i - 1]) \cup {e.node} \subseteq Named(f[i])
        BY <2>1, <4>1, <4>2, OnAppend, NamedAppend
      <4>. QED  BY <2>1, <2>3, <4>1, <4>3
    <3>2. CASE Order[i] \notin S  BY <2>1, <2>2, <2>3, <3>2
    <3>. QED  BY <3>1, <3>2
  <2>. HIDE DEF Lists
  <2>. QED  BY <2>4, <1>2
<1>5. T = 0..N
  <2>. HIDE DEF T
  <2>1. T \subseteq 0..N  BY DEF T
  <2>. QED  BY <1>2, <1>3, <1>4, <2>1, Upwards
<1>6. Lists(f[N], N)  BY <1>2, <1>5
<1>7. \A d \in S : \E i \in 1..N : Order[i] = d
  <2>1. S \subseteq {Order[i] : i \in DOMAIN Order}  BY GraphAssumption DEF ToSet
  <2>. QED  BY <1>2, <2>1
<1>. QED  BY <1>1, <1>6, <1>7

\* Settling a refresh of d strands nobody: no node loses its last event, and d has one when it
\* is pending behind a queued dependency, as long as it may still be queued again.
LEMMA SettleKeeps ==
    ASSUME NEW p, NEW d \in Derived, NEW ns, NEW rdy, NEW ltr, NEW h,
           QueueOK(rdy, ltr, h), Settle(p, d, ns, rdy, ltr, h)
    PROVE  /\ Named(rdy) \cup Named(ltr) \subseteq Names'
           /\ ns[d].value = Pending /\ MayRequeue(d) /\ LiveDeps(d, rdy) \cup LiveDeps(d, ltr) # {}
                => d \in Names'
<1>. DEFINE fr == Forget(rdy, d)
            fl == Forget(ltr, d)
            inReady == LiveDeps(d, rdy)
            inLater == LiveDeps(d, ltr)
            behind == inReady \cup inLater # {}
            Kept == Named(rdy) \cup Named(ltr) \subseteq Named(ready') \cup Named(later')
            Back == d \in Named(ready') \cup Named(later')
<1>1. rdy \in Seq(Event) /\ ltr \in Seq(Event)  BY DEF QueueOK
<1>2. /\ fr \in Seq(Event) /\ Len(fr) = Len(rdy) /\ Named(fr) = Named(rdy)
      /\ fl \in Seq(Event) /\ Len(fl) = Len(ltr) /\ Named(fl) = Named(ltr)
  BY <1>1, ForgetHolds, NamedForget
<1>3. /\ inReady \subseteq 1..Len(rdy) /\ inLater \subseteq 1..Len(ltr)
      /\ Len(rdy) \in Nat /\ Len(ltr) \in Nat
  BY <1>1 DEF LiveDeps
<1>4. Live(d) \in Event /\ Live(d).node = d  BY DEF Live, Event
<1>. HIDE DEF fr, fl, inReady, inLater
<1>5. CASE ready' = rdy /\ later' = ltr /\ (ns[d].value # Pending \/ ~behind \/ ~MayRequeue(d))
  BY <1>5 DEF Names, inReady, inLater
<1>6. CASE inLater # {} /\ ready' = fr /\ later' = InsertAt(fl, LastOf(inLater) + 1, Live(d))
  <2>. DEFINE last == LastOf(inLater)
  <2>0. last \in inLater  BY <1>3, <1>6, LastIsIn
  <2>1. later' = InsertAt(fl, last + 1, Live(d)) /\ ready' = fr  BY <1>6
  <2>. HIDE DEF last
  <2>2. last + 1 \in 1..(Len(fl) + 1)  BY <1>2, <1>3, <2>0
  <2>3. Named(fl) \cup {d} \subseteq Named(later')
    BY <1>2, <1>4, <2>1, <2>2, NamedInsert
  <2>. QED  BY <1>2, <2>1, <2>3 DEF Names
<1>7. CASE inReady # {} /\ later' = fl /\ ready' = InsertAt(fr, LastOf(inReady) + 1, Live(d))
  <2>. DEFINE last == LastOf(inReady)
  <2>0. last \in inReady  BY <1>3, <1>7, LastIsIn
  <2>1. ready' = InsertAt(fr, last + 1, Live(d)) /\ later' = fl  BY <1>7
  <2>. HIDE DEF last
  <2>2. last + 1 \in 1..(Len(fr) + 1)  BY <1>2, <1>3, <2>0
  <2>3. Named(fr) \cup {d} \subseteq Named(ready')
    BY <1>2, <1>4, <2>1, <2>2, NamedInsert
  <2>. QED  BY <1>2, <2>1, <2>3 DEF Names
<1>8. \/ ready' = rdy /\ later' = ltr /\ (ns[d].value # Pending \/ ~behind \/ ~MayRequeue(d))
      \/ inLater # {} /\ ready' = fr /\ later' = InsertAt(fl, LastOf(inLater) + 1, Live(d))
      \/ inLater = {} /\ behind /\ later' = fl /\ ready' = InsertAt(fr, LastOf(inReady) + 1, Live(d))
  BY DEF Settle, fr, fl, inReady, inLater
<1>9. inLater = {} /\ behind => inReady # {}  OBVIOUS
<1>. QED  BY <1>5, <1>6, <1>7, <1>8, <1>9

\* A notification of n strands no pending dependent: it is queued already or queued now.
LEMMA WokenKeeps ==
    ASSUME NEW n, NEW ns, NEW rdy \in Seq(Event), NEW ltr \in Seq(Event)
    PROVE  /\ rdy \o Woken(n, ns, rdy, ltr) \in Seq(Event)
           /\ Named(rdy) \subseteq Named(rdy \o Woken(n, ns, rdy, ltr))
           /\ \A x \in Derived : n \in Deps[x] /\ ns[x].value = Pending
                => x \in Named(rdy \o Woken(n, ns, rdy, ltr)) \cup Named(ltr)
<1>. DEFINE S == {d \in Derived : n \in Deps[d] /\ Stale(d, ns) /\ ~Scheduled(d, rdy, ltr)}
            w == Events(S)
            j == rdy \o w
<1>1. w \in Seq(Event) /\ S \subseteq Named(w)
  <2>1. S \subseteq Derived  OBVIOUS
  <2>. HIDE DEF S
  <2>. QED  BY <2>1, EventsNameAll
<1>2. j = rdy \o Woken(n, ns, rdy, ltr)  BY DEF Woken
<1>. HIDE DEF w
<1>3. j \in Seq(Event) /\ Named(rdy) \cup Named(w) \subseteq Named(j)
  BY <1>1, NamedJoin
<1>. HIDE DEF j
<1>4. ASSUME NEW x \in Derived, n \in Deps[x], ns[x].value = Pending
      PROVE  x \in Named(j) \cup Named(ltr)
  <2>1. Stale(x, ns)  BY <1>4 DEF Stale
  <2>2. CASE Scheduled(x, rdy, ltr)
    <3>1. x \in On(rdy) \cup On(ltr)  BY <2>2, ScheduledIsOn
    <3>2. On(rdy) \subseteq Named(rdy) /\ On(ltr) \subseteq Named(ltr)  BY DEF On, Named
    <3>. QED  BY <1>3, <3>1, <3>2
  <2>3. CASE ~Scheduled(x, rdy, ltr)
    <3>1. x \in S  BY <1>4, <2>1, <2>3
    <3>. HIDE DEF S
    <3>. QED  BY <1>1, <1>3, <3>1
  <2>. QED  BY <2>2, <2>3
<1>. QED  BY <1>2, <1>3, <1>4

\* The dependents of n that are pending are queued.
Wakes(n) == \A x \in Derived : n \in Deps[x] /\ node'[x].value = Pending => x \in Names'
SameValues == \A m \in Nodes : node'[m].value = node[m].value

\* A result that lands wakes whoever waits for it.
LEMMA CompleteKeeps ==
    ASSUME RecordsOK(node), RecordsOK(row), NEW p, NEW d \in Derived, NEW v \in Outcomes \ {Pending},
           NEW stamps \in [Deps[d] -> Nat], NEW retries \in 0..MaxRetries, clock \in Nat,
           NEW rdy, NEW ltr, NEW h, QueueOK(rdy, ltr, h),
           Complete(p, d, v, stamps, retries, rdy, ltr, h)
    PROVE  /\ Named(rdy) \cup Named(ltr) \subseteq Names'
           /\ Wakes(d) /\ node'[d].value # Pending
           /\ \A m \in Nodes \ {d} : node'[m].value = node[m].value
<1>. DEFINE rec == Fresh(d, v, stamps, FALSE, retries)
            ns == [node EXCEPT ![d] = rec]
            rdy2 == rdy \o Woken(d, ns, rdy, ltr)
<1>1. d \in Nodes  BY DEF Nodes
<1>2. Moved(d, rec, Loadable(rec))  BY CompleteHolds
<1>3. rec.value = v  BY DEF Fresh
<1>4. Settle(p, d, Notified(d, ns), rdy2, ltr, h)  BY DEF Complete
<1>. HIDE DEF rec
<1>5. node' = Notified(d, ns)  BY <1>4 DEF Settle
<1>6. node'[d].value = v /\ \A m \in Nodes \ {d} : node'[m].value = node[m].value
  BY <1>2, <1>3 DEF Moved, Like
<1>7. \A m \in Nodes : ns[m].value = node'[m].value
  <2>1. ns[d] = rec /\ \A m \in Nodes \ {d} : ns[m] = node[m]  BY <1>1 DEF RecordsOK
  <2>. HIDE DEF ns
  <2>. QED  BY <1>3, <1>6, <2>1
<1>8. rdy \in Seq(Event) /\ ltr \in Seq(Event) /\ h \in 0..Len(rdy)
      /\ requeues \in [Derived -> 0..Registered]
  BY DEF QueueOK
<1>. HIDE DEF ns
<1>9. /\ rdy2 \in Seq(Event) /\ Named(rdy) \subseteq Named(rdy2)
      /\ \A x \in Derived : d \in Deps[x] /\ ns[x].value = Pending => x \in Named(rdy2) \cup Named(ltr)
  BY <1>8, WokenKeeps
<1>10. Len(rdy2) >= Len(rdy)
  <2>1. Woken(d, ns, rdy, ltr) \in Seq(Event)
    <3>. DEFINE S == {e \in Derived : d \in Deps[e] /\ Stale(e, ns) /\ ~Scheduled(e, rdy, ltr)}
    <3>1. S \subseteq Derived  OBVIOUS
    <3>2. Woken(d, ns, rdy, ltr) = Events(S)  BY DEF Woken
    <3>. HIDE DEF S
    <3>. QED  BY <3>1, <3>2, EventsNameAll
  <2>. DEFINE w == Woken(d, ns, rdy, ltr)
  <2>. HIDE DEF w
  <2>2. Len(rdy \o w) = Len(rdy) + Len(w) /\ Len(w) \in Nat /\ Len(rdy) \in Nat  BY <1>8, <2>1 DEF w
  <2>. QED  BY <2>2 DEF w
<1>. HIDE DEF rdy2
<1>11. QueueOK(rdy2, ltr, h)  BY <1>8, <1>9, <1>10 DEF QueueOK
<1>12. Named(rdy2) \cup Named(ltr) \subseteq Names'  BY <1>4, <1>11, SettleKeeps
<1>13. Wakes(d)
  <2>1. \A x \in Derived : x \in Nodes  BY DEF Nodes
  <2>. QED  BY <1>7, <1>9, <1>12, <2>1 DEF Wakes
<1>. QED  BY <1>6, <1>9, <1>12, <1>13

\* A refresh that begins takes the events of its own node only, and gives it up without queueing
\* it again only while it waits for an input.
LEMMA BeginKeeps ==
    ASSUME StateOK, NEW p \in Drains, NEW e \in Derived, Begin(p, e)
    PROVE  /\ Names \subseteq Names' \cup {e}
           /\ node'[e].value = Pending /\ MayRequeue(e) =>
                 \/ e \in Names' \/ drain'[p].node = e
                 \/ \E m \in Deps[e] : node'[m].value = Pending
           /\ \A m \in Nodes \ {e} : node'[m].value = node[m].value
           /\ Wakes(e) \/ SameValues
           /\ \A q \in Drains : drain[q] # Idle => drain'[q] = drain[q]
           /\ submissions' = submissions
<1>. DEFINE rdy == Forget(Tail(ready), e)
            ltr == Forget(later, e)
            h == IF horizon > 0 THEN horizon - 1 ELSE 0
            DepIs(v) == \E m \in Deps[e] : node[m].value = v
            depQueued == \E m \in Deps[e] \cap Derived : Scheduled(m, rdy, ltr)
<1>1. RecordsOK(node) /\ RecordsOK(row) /\ clock \in Nat /\ QueueOK(ready, later, horizon)
      /\ DOMAIN drain = Drains
  BY TypeParts
<1>2. ready # << >> /\ Head(ready).node = e /\ drain[p] = Idle /\ submissions' = submissions
  BY DEF Begin
<1>3. QueueOK(rdy, ltr, h)  BY <1>1, <1>2, PoppedHolds
<1>4. Names \subseteq Named(rdy) \cup Named(ltr) \cup {e}
  <2>1. ready \in Seq(Event) /\ later \in Seq(Event) /\ Tail(ready) \in Seq(Event)
    BY <1>1, <1>2, OnTail DEF QueueOK
  <2>2. Named(rdy) = Named(Tail(ready)) /\ Named(ltr) = Named(later)  BY <2>1, NamedForget
  <2>3. Named(ready) \subseteq Named(Tail(ready)) \cup {e}  BY <1>2, <2>1, NamedTail
  <2>. QED  BY <2>2, <2>3 DEF Names
<1>5. \/ Waits(e) \/ Starts(p, e)
      \/ \E rec \in Record(e) : FailsToo(e, rec) \/ Defers(e, rec)
  BY BeginEffect
<1>6. \A m \in Nodes \ {e} : node'[m].value = node[m].value
  <2>1. node' = node \/ \E rec \in Record(e) : Moved(e, rec, Loadable(rec))
    BY <1>5 DEF Waits, Starts, FailsToo, Defers
  <2>. QED  BY <2>1 DEF Moved, Like
<1>7. \A q \in Drains : drain[q] # Idle => drain'[q] = drain[q]
  <2>1. drain' = drain \/ \E new : drain' = [drain EXCEPT ![p] = new]
    BY <1>5 DEF Waits, Starts, FailsToo, Defers
  <2>. QED  BY <1>1, <1>2, <2>1
<1>8. e \in Nodes /\ Current(e) \in [Deps[e] -> Nat] /\ Deps[e] \subseteq Nodes
  BY <1>1, CurrentTyped, GraphAssumption DEF Nodes
<1>9. CASE /\ node[e].value # Pending \/ DepIs(Pending)
           /\ Settle(p, e, node, rdy, ltr, h)
  <2>. HIDE DEF rdy, ltr, h
  <2>1. node' = node /\ Named(rdy) \cup Named(ltr) \subseteq Names'
    BY <1>3, <1>9, SettleKeeps DEF Settle
  <2>. QED  BY <1>2, <1>4, <1>6, <1>7, <1>9, <2>1 DEF SameValues
<1>10. CASE Complete(p, e, Impossible, Current(e), 0, rdy, ltr, h)
  <2>1. Impossible \in Outcomes \ {Pending} /\ 0 \in 0..MaxRetries
    BY ValueAssumption, BoundsAssumption DEF Outcomes
  <2>. HIDE DEF rdy, ltr, h
  <2>2. Named(rdy) \cup Named(ltr) \subseteq Names' /\ Wakes(e) /\ node'[e].value # Pending
    BY <1>1, <1>3, <1>8, <1>10, <2>1, CompleteKeeps
  <2>. QED  BY <1>2, <1>4, <1>6, <1>7, <2>2
<1>11. CASE /\ depQueued
            /\ LET rec == [node[e] EXCEPT !.stamp = clock + 1, !.basis = Current(e)]
               IN  Settle(p, e, [node EXCEPT ![e] = rec], rdy, ltr, h)
  <2>. DEFINE rec == [node[e] EXCEPT !.stamp = clock + 1, !.basis = Current(e)]
              ns == [node EXCEPT ![e] = rec]
  <2>1. Settle(p, e, ns, rdy, ltr, h)  BY <1>11
  <2>2. ns[e].value = node[e].value /\ \A m \in Nodes : ns[m].value = node[m].value
    <3>0. node[e] \in Record(e)  BY <1>1, <1>8 DEF RecordsOK
    <3>1. rec = Restamped(node[e], clock + 1, Current(e))  BY Zenon DEF Restamped
    <3>2. clock + 1 \in Nat  BY <1>1
    <3>3. rec.value = node[e].value
      <4>. HIDE DEF rec
      <4>. QED  BY <1>8, <3>0, <3>1, <3>2, RestampedHolds
    <3>. HIDE DEF rec
    <3>4. ns[e] = rec /\ \A m \in Nodes \ {e} : ns[m] = node[m]  BY <1>1, <1>8 DEF RecordsOK
    <3>. QED  BY <1>8, <3>3, <3>4
  <2>3. LiveDeps(e, rdy) \cup LiveDeps(e, ltr) # {}
    <3>1. rdy \in Seq(Event) /\ ltr \in Seq(Event)  BY <1>3 DEF QueueOK
    <3>2. PICK m \in Deps[e] \cap Derived : m \in On(rdy) \cup On(ltr)
      <4>1. PICK m \in Deps[e] \cap Derived : Scheduled(m, rdy, ltr)  BY <1>11
      <4>. HIDE DEF rdy, ltr
      <4>. QED  BY <3>1, <4>1, ScheduledIsOn
    <3>. HIDE DEF rdy, ltr
    <3>. QED  BY <3>2 DEF On, LiveDeps
  <2>. HIDE DEF rdy, ltr, h, ns
  <2>4. /\ Named(rdy) \cup Named(ltr) \subseteq Names'
        /\ ns[e].value = Pending /\ MayRequeue(e) => e \in Names'
    BY <1>3, <2>1, <2>3, SettleKeeps
  <2>5. node' = ns  BY <2>1 DEF Settle
  <2>. QED  BY <1>2, <1>4, <1>6, <1>7, <2>2, <2>4, <2>5 DEF SameValues
<1>12. CASE /\ drain' = [drain EXCEPT ![p] =
                  [node |-> e, bound |-> [m \in Deps[e] |-> node[m].value], stamps |-> Current(e)]]
            /\ ready' = rdy /\ later' = ltr /\ node' = node
  <2>. DEFINE new == [node |-> e, bound |-> [m \in Deps[e] |-> node[m].value], stamps |-> Current(e)]
  <2>1. drain'[p] = new  BY <1>1, <1>12
  <2>2. new.node = e  OBVIOUS
  <2>3. drain'[p].node = e
    <3>. HIDE DEF new
    <3>. QED  BY <2>1, <2>2
  <2>. HIDE DEF rdy, ltr
  <2>. QED  BY <1>2, <1>4, <1>6, <1>7, <1>12, <2>3 DEF Names, SameValues
<1>13. Stale(e, node) \/ node[e].value # Pending  BY DEF Stale
<1>14. Current(e) = [m \in Deps[e] |-> node[m].stamp]  BY DEF Current
<1>. HIDE DEF rdy, ltr, h, depQueued, DepIs
<1>. QED  BY <1>9, <1>10, <1>11, <1>12, <1>13, <1>14 DEF Begin, Persist, rdy, ltr, h, depQueued, DepIs

\* A compute that ends loses no event: its node has a result, or waits in the queue for a retry,
\* and whoever waited for a new result is woken.
KeepsAll(d) ==
    /\ Names \subseteq Names'
    /\ node'[d].value = Pending => d \in Names'
    /\ \A m \in Nodes \ {d} : node'[m].value = node[m].value
    /\ Wakes(d) \/ node'[d].value \in {node[d].value, Pending}

LEMMA SucceedKeeps ==
    ASSUME StateOK, NEW p \in Drains, Succeed(p)
    PROVE  KeepsAll(drain[p].node)
<1>. DEFINE d == drain[p].node
            v == Compute[d][drain[p].bound]
            stamps == drain[p].stamps
            rec == [node[d] EXCEPT !.stamp = clock + 1, !.basis = stamps]
            ns == [node EXCEPT ![d] = rec]
<1>0. drain[p] # Idle  BY DEF Succeed
<1>1. /\ d \in Derived /\ d \in Nodes /\ stamps \in [Deps[d] -> Nat] /\ v \in Values
      /\ RecordsOK(node) /\ RecordsOK(row) /\ clock \in Nat /\ clock + 1 \in Nat
      /\ QueueOK(ready, later, horizon) /\ node[d] \in Record(d)
  <2>1. /\ d \in Derived /\ d \in Nodes /\ stamps \in [Deps[d] -> Nat] /\ v \in Values
    BY <1>0, DrainedHolds
  <2>. HIDE DEF d, v, stamps
  <2>. QED  BY <2>1, TypeParts DEF RecordsOK
<1>2. v \in Outcomes \ {Pending} /\ 0 \in 0..MaxRetries
  <2>. HIDE DEF v
  <2>. QED  BY <1>1, ValueAssumption, BoundsAssumption DEF Outcomes
<1>3. \/ node[d].value = v /\ Settle(p, d, node, ready, later, horizon)
      \/ node[d].value = v /\ Settle(p, d, ns, ready, later, horizon)
      \/ Complete(p, d, v, stamps, 0, ready, later, horizon)
  BY DEF Succeed
<1>4. rec.value = node[d].value
  <2>1. rec = Restamped(node[d], clock + 1, stamps)  BY Zenon DEF Restamped
  <2>. HIDE DEF rec, d, stamps
  <2>. QED  BY <1>1, <2>1, RestampedHolds
<1>. HIDE DEF rec, v, stamps
<1>5. ns[d] = rec /\ \A m \in Nodes \ {d} : ns[m] = node[m]
  <2>. HIDE DEF d
  <2>. QED  BY <1>1 DEF RecordsOK
<1>. HIDE DEF ns, d
<1>6. ASSUME NEW f, node[d].value = v, Settle(p, d, f, ready, later, horizon),
             f[d].value = node[d].value, \A m \in Nodes \ {d} : f[m] = node[m]
      PROVE  KeepsAll(d)
  <2>1. node' = f /\ Names \subseteq Names'  BY <1>1, <1>6, SettleKeeps DEF Settle, Names
  <2>. QED  BY <1>2, <1>6, <2>1 DEF KeepsAll
<1>7. ASSUME Complete(p, d, v, stamps, 0, ready, later, horizon) PROVE KeepsAll(d)
  <2>1. /\ Names \subseteq Names' /\ Wakes(d) /\ node'[d].value # Pending
        /\ \A m \in Nodes \ {d} : node'[m].value = node[m].value
    BY <1>1, <1>2, <1>7, CompleteKeeps DEF Names
  <2>. QED  BY <2>1 DEF KeepsAll
<1>8. KeepsAll(d)  BY <1>3, <1>4, <1>5, <1>6, <1>7
<1>. QED  BY <1>8 DEF d

LEMMA FailKeeps ==
    ASSUME StateOK, NEW p \in Drains, NEW kind, Fail(p, kind)
    PROVE  KeepsAll(drain[p].node)
<1>. DEFINE d == drain[p].node
            stamps == drain[p].stamps
            n == RetriesAfter(kind, node[d].retries)
            rec == Fresh(d, Pending, stamps, TRUE, n)
            ns == [node EXCEPT ![d] = rec]
<1>0. drain[p] # Idle  BY DEF Fail
<1>1. /\ d \in Derived /\ d \in Nodes /\ stamps \in [Deps[d] -> Nat]
      /\ RecordsOK(node) /\ RecordsOK(row) /\ clock \in Nat
      /\ QueueOK(ready, later, horizon) /\ node[d] \in Record(d)
  <2>1. d \in Derived /\ d \in Nodes /\ stamps \in [Deps[d] -> Nat]  BY <1>0, DrainedHolds
  <2>. HIDE DEF d, stamps
  <2>. QED  BY <2>1, TypeParts DEF RecordsOK
<1>2. node[d].retries \in 0..MaxRetries /\ n \in 0..MaxRetries
  <2>1. node[d].retries \in 0..MaxRetries  BY <1>1 DEF Record
  <2>. HIDE DEF d
  <2>. QED  BY <2>1, BoundsAssumption DEF RetriesAfter
<1>3. Impossible \in Outcomes \ {Pending}  BY ValueAssumption DEF Outcomes
<1>4. rec.value = Pending  BY DEF Fresh
<1>5. \/ \E k \in 0..MaxRetries : Complete(p, d, Impossible, stamps, k, ready, later, horizon)
      \/ \E i \in 1..(Len(later) + 1) :
            Settle(p, d, ns, ready, IF Scheduled(d, ready, later) THEN later ELSE InsertAt(later, i, Live(d)), horizon)
  BY <1>2 DEF Fail
<1>. HIDE DEF rec, n, stamps
<1>6. ns[d] = rec /\ \A m \in Nodes \ {d} : ns[m] = node[m]
  <2>. HIDE DEF d
  <2>. QED  BY <1>1 DEF RecordsOK
<1>. HIDE DEF ns, d
<1>7. ASSUME NEW k \in 0..MaxRetries, Complete(p, d, Impossible, stamps, k, ready, later, horizon)
      PROVE  KeepsAll(d)
  <2>2. /\ Names \subseteq Names' /\ Wakes(d) /\ node'[d].value # Pending
        /\ \A m \in Nodes \ {d} : node'[m].value = node[m].value
    BY <1>1, <1>3, <1>7, CompleteKeeps DEF Names
  <2>. QED  BY <2>2 DEF KeepsAll
<1>8. ASSUME NEW i \in 1..(Len(later) + 1),
             Settle(p, d, ns, ready, IF Scheduled(d, ready, later) THEN later ELSE InsertAt(later, i, Live(d)), horizon)
      PROVE  KeepsAll(d)
  <2>. DEFINE ltr == IF Scheduled(d, ready, later) THEN later ELSE InsertAt(later, i, Live(d))
  <2>1. ready \in Seq(Event) /\ later \in Seq(Event)  BY <1>1 DEF QueueOK
  <2>2. ltr \in Seq(Event) /\ Named(later) \subseteq Named(ltr) /\ d \in Named(ready) \cup Named(ltr)
    <3>1. CASE Scheduled(d, ready, later)
      <4>1. d \in On(ready) \cup On(later)  BY <1>1, <2>1, <3>1, ScheduledIsOn
      <4>2. On(ready) \subseteq Named(ready) /\ On(later) \subseteq Named(later)  BY DEF On, Named
      <4>. QED  BY <2>1, <3>1, <4>1, <4>2
    <3>2. CASE ~Scheduled(d, ready, later)
      <4>1. Live(d) \in Event /\ Live(d).node = d  BY <1>1 DEF Live, Event
      <4>2. /\ InsertAt(later, i, Live(d)) \in Seq(Event)
            /\ Named(later) \cup {d} \subseteq Named(InsertAt(later, i, Live(d)))
        BY <2>1, <4>1, InsertAtHolds, NamedInsert
      <4>. QED  BY <3>2, <4>2
    <3>. QED  BY <3>1, <3>2
  <2>3. Settle(p, d, ns, ready, ltr, horizon)  BY <1>8
  <2>. HIDE DEF ltr
  <2>4. QueueOK(ready, ltr, horizon)  BY <1>1, <2>2 DEF QueueOK
  <2>5. node' = ns /\ Named(ready) \cup Named(ltr) \subseteq Names'
    BY <1>1, <2>3, <2>4, SettleKeeps DEF Settle
  <2>. QED  BY <1>4, <1>6, <2>2, <2>5 DEF KeepsAll, Names
<1>9. KeepsAll(d)  BY <1>5, <1>7, <1>8
<1>. QED  BY <1>9 DEF d

-----------------------------------------------------------------------------
\* d is pending with nothing to wait for; and somebody will see to it.
Awaits(d) == node[d].value = Pending /\ \A m \in Deps[d] : node[m].value # Pending
Owned(d) ==
    \/ d \in Names
    \/ \E p \in Drains : drain[p].node = d
    \/ \E i \in DOMAIN submissions : submissions[i].node \in Deps[d]

LEMMA OwnedMeansOwned == PendingIsOwned <=> \A d \in Derived : Awaits(d) => Owned(d)
BY DEF PendingIsOwned, Awaits, Owned, Names, Named

LEMMA BeginOwned ==
    ASSUME StateOK, PendingIsOwned, NEW p \in Drains, NEW e \in Derived, Begin(p, e),
           NEW d \in Derived, requeues[d] < Registered, Awaits(d)'
    PROVE  Owned(d)'
<1>1. /\ Names \subseteq Names' \cup {e}
      /\ node'[e].value = Pending /\ MayRequeue(e) =>
            \/ e \in Names' \/ drain'[p].node = e
            \/ \E m \in Deps[e] : node'[m].value = Pending
      /\ \A m \in Nodes \ {e} : node'[m].value = node[m].value
      /\ Wakes(e) \/ SameValues
      /\ \A q \in Drains : drain[q] # Idle => drain'[q] = drain[q]
      /\ submissions' = submissions
  BY BeginKeeps
<1>2. node'[d].value = Pending /\ \A m \in Deps[d] : node'[m].value # Pending  BY DEF Awaits
<1>3. d \in Nodes /\ Deps[d] \subseteq Nodes  BY GraphAssumption DEF Nodes
<1>4. CASE d = e  BY <1>1, <1>2, <1>4 DEF Owned, MayRequeue
<1>5. CASE d # e /\ Awaits(d)
  <2>1. Owned(d)  BY <1>5, OwnedMeansOwned
  <2>2. \A q \in Drains : drain[q].node = d => drain[q] # Idle  BY GraphAssumption DEF Idle
  <2>. QED  BY <1>1, <1>5, <2>1, <2>2 DEF Owned
<1>6. CASE d # e /\ ~Awaits(d)
  <2>1. node[d].value = Pending  BY <1>1, <1>2, <1>3, <1>6
  <2>2. PICK m \in Deps[d] : node[m].value = Pending  BY <1>6, <2>1 DEF Awaits
  <2>3. m = e /\ ~SameValues  BY <1>1, <1>2, <1>3, <2>2 DEF SameValues
  <2>. QED  BY <1>1, <1>2, <2>3 DEF Wakes, Owned
<1>. QED  BY <1>4, <1>5, <1>6

LEMMA EndOwned ==
    ASSUME StateOK, PendingIsOwned, NEW p \in Drains, NEW kind, Succeed(p) \/ Fail(p, kind),
           NEW d \in Derived, Awaits(d)'
    PROVE  Owned(d)'
<1>. DEFINE e == drain[p].node
<1>1. /\ Names \subseteq Names'
      /\ node'[e].value = Pending => e \in Names'
      /\ \A m \in Nodes \ {e} : node'[m].value = node[m].value
      /\ Wakes(e) \/ node'[e].value \in {node[e].value, Pending}
  BY SucceedKeeps, FailKeeps DEF KeepsAll
<1>2. node'[d].value = Pending /\ \A m \in Deps[d] : node'[m].value # Pending  BY DEF Awaits
<1>3. d \in Nodes /\ Deps[d] \subseteq Nodes  BY GraphAssumption DEF Nodes
<1>4. /\ drain' = [drain EXCEPT ![p] = Idle] /\ submissions' = submissions
      /\ DOMAIN drain = Drains
  BY DEF Succeed, Fail, StateOK
<1>5. \A q \in Drains : drain[q].node = d /\ d # e => drain'[q].node = d  BY <1>4
<1>. HIDE DEF e
<1>6. CASE d = e  BY <1>1, <1>2, <1>6 DEF Owned
<1>7. CASE d # e /\ Awaits(d)
  <2>1. Owned(d)  BY <1>7, OwnedMeansOwned
  <2>. QED  BY <1>1, <1>4, <1>5, <1>7, <2>1 DEF Owned
<1>8. CASE d # e /\ ~Awaits(d)
  <2>1. node[d].value = Pending  BY <1>1, <1>2, <1>3, <1>8
  <2>2. PICK m \in Deps[d] : node[m].value = Pending  BY <1>8, <2>1 DEF Awaits
  <2>3. m = e /\ node'[e].value \notin {node[e].value, Pending}  BY <1>1, <1>2, <1>3, <2>2
  <2>. QED  BY <1>1, <1>2, <2>2, <2>3 DEF Wakes, Owned
<1>. QED  BY <1>6, <1>7, <1>8

LEMMA EditOwned ==
    ASSUME Base, PendingIsOwned, NEW u \in Inputs, NEW v \in Values \cup {Impossible},
           Push(u, v) \/ SubmitPush(u, v), NEW d \in Derived, Awaits(d)'
    PROVE  Owned(d)'
<1>1. RecordsOK(node) /\ u \in Nodes /\ u # d /\ d \in Nodes /\ Deps[d] \subseteq Nodes
  BY TypeParts, GraphAssumption DEF Base, Nodes
<1>2. PICK s \in Submission : /\ submissions' = Append(submissions, s) /\ s.node = u
                              /\ node' = node \/ node' = [node EXCEPT ![u].value = v]
                              /\ UNCHANGED <<drain, ready, later>>
  <2>. DEFINE Sent(kind) == [kind |-> kind, node |-> u, value |-> v]
  <2>1. \A kind \in {"apply", "push"} : Sent(kind) \in Submission /\ Sent(kind).node = u
    BY DEF Submission
  <2>2. \E kind \in {"apply", "push"} : submissions' = Append(submissions, Sent(kind))
    BY DEF Push, SubmitPush
  <2>3. node' = node \/ node' = [node EXCEPT ![u].value = v]  BY DEF Push, SubmitPush
  <2>4. UNCHANGED <<drain, ready, later>>  BY DEF Push, SubmitPush, queueVars
  <2>. HIDE DEF Sent
  <2>. QED  BY <2>1, <2>2, <2>3, <2>4
<1>3. PICK n :
         /\ DOMAIN submissions' = (DOMAIN submissions) \cup {n} /\ submissions'[n] = s
         /\ \A i \in DOMAIN submissions : submissions'[i] = submissions[i]
  BY <1>2, AppendedSubmission
<1>4. \A m \in Nodes \ {u} : node'[m].value = node[m].value  BY <1>1, <1>2 DEF RecordsOK
<1>5. CASE u \in Deps[d]  BY <1>2, <1>3, <1>5 DEF Owned
<1>6. CASE u \notin Deps[d]
  <2>1. Awaits(d)  BY <1>1, <1>4, <1>6 DEF Awaits
  <2>2. Owned(d)  BY <2>1, OwnedMeansOwned
  <2>. QED  BY <1>2, <1>3, <2>2 DEF Owned, Names
<1>. QED  BY <1>5, <1>6

LEMMA RunSubmissionOwned ==
    ASSUME StateOK, PendingIsOwned, RunSubmission, NEW d \in Derived, Awaits(d)'
    PROVE  Owned(d)'
<1>. DEFINE s == Head(submissions)
            v == IF s.kind = "push" THEN s.value ELSE node[s.node].value
            ns == [node EXCEPT ![s.node].value = v, ![s.node].stamp = clock + 1]
<1>1. submissions # << >> /\ submissions' = Tail(submissions) /\ s \in Submission /\ UNCHANGED drain
  BY RunSubmissionEffect
<1>2. PICK u, mem, disk : u = s.node /\ Lands(u, s, mem, disk)
  BY RunSubmissionEffect
<1>3. /\ \A i \in DOMAIN submissions : i # 1 => i - 1 \in DOMAIN submissions' /\ i \in Nat
      /\ \A i \in DOMAIN submissions' : submissions'[i] = submissions[i + 1]
      /\ s = submissions[1]
  BY <1>1, DroppedSubmission DEF StateOK
<1>4. /\ ready' = ready \o Woken(s.node, ns, ready, later) /\ later' = later
      /\ ready \in Seq(Event) /\ later \in Seq(Event) /\ DOMAIN node = Nodes
  BY DEF RunSubmission, StateOK
<1>. HIDE DEF s
<1>5. u \in Nodes /\ u \notin Derived /\ d \in Nodes /\ Deps[d] \subseteq Nodes
  BY <1>1, <1>2, GraphAssumption DEF Submission, Nodes
<1>6. \A m \in Nodes \ {u} : node'[m].value = node[m].value
  BY <1>2 DEF Lands, Moved, Like
<1>7. ns[d].value = node'[d].value  BY <1>2, <1>4, <1>5, <1>6
<1>. HIDE DEF ns
<1>8. Named(ready) \subseteq Named(ready') /\ (u \in Deps[d] => d \in Names')
  <2>. DEFINE rdy == ready \o Woken(s.node, ns, ready, later)
  <2>1. /\ Named(ready) \subseteq Named(rdy)
        /\ u \in Deps[d] /\ ns[d].value = Pending => d \in Named(rdy) \cup Named(later)
    BY <1>2, <1>4, WokenKeeps
  <2>2. ready' = rdy  BY <1>4
  <2>. HIDE DEF rdy
  <2>. QED  BY <1>4, <1>7, <2>1, <2>2 DEF Awaits, Names
<1>9. CASE u \in Deps[d]  BY <1>8, <1>9 DEF Owned
<1>10. CASE u \notin Deps[d]
  <2>1. Awaits(d)  BY <1>5, <1>6, <1>10 DEF Awaits
  <2>2. Owned(d)  BY <2>1, OwnedMeansOwned
  <2>3. ASSUME NEW i \in DOMAIN submissions, submissions[i].node \in Deps[d]
        PROVE  \E j \in DOMAIN submissions' : submissions'[j].node \in Deps[d]
    <3>1. i # 1  BY <1>2, <1>3, <1>10, <2>3
    <3>2. i - 1 \in DOMAIN submissions' /\ i \in Nat  BY <1>3, <3>1
    <3>3. submissions'[i - 1] = submissions[i]  BY <1>3, <3>2
    <3>. QED  BY <2>3, <3>2, <3>3
  <2>. QED  BY <1>1, <1>4, <1>8, <2>2, <2>3 DEF Owned, Names
<1>. QED  BY <1>9, <1>10

LEMMA OtherOwned ==
    ASSUME StateOK, PendingIsOwned, Tick \/ StartFlush \/ EndFlush \/ UNCHANGED vars,
           NEW d \in Derived, Awaits(d)'
    PROVE  Owned(d)'
<1>1. UNCHANGED <<node, drain, submissions>>
  BY DEF Tick, StartFlush, EndFlush, vars, queueVars
<1>2. Awaits(d)  BY <1>1 DEF Awaits
<1>3. Owned(d)  BY <1>2, OwnedMeansOwned
<1>4. Names \subseteq Names'
  <2>1. CASE Tick
    <3>1. ready \in Seq(Event) /\ later \in Seq(Event) /\ later # << >>  BY <2>1 DEF StateOK, Tick
    <3>2. Head(later) \in Event  BY <3>1
    <3>. DEFINE e == Head(later)
    <3>3. Named(ready) \cup {e.node} \subseteq Named(Append(ready, e))  BY <3>1, <3>2, NamedAppend
    <3>4. Named(later) \subseteq Named(Tail(later)) \cup {e.node}  BY <3>1, NamedTail
    <3>5. ready' = Append(ready, e) /\ later' = Tail(later)  BY <2>1 DEF Tick
    <3>. HIDE DEF e
    <3>. QED  BY <3>3, <3>4, <3>5 DEF Names
  <2>2. CASE StartFlush \/ EndFlush \/ UNCHANGED vars
    <3>1. UNCHANGED <<ready, later>>  BY <2>2 DEF StartFlush, EndFlush, vars, queueVars
    <3>. QED  BY <3>1 DEF Names
  <2>. QED  BY <2>1, <2>2
<1>. QED  BY <1>1, <1>3, <1>4 DEF Owned

LEMMA RestartOwned ==
    ASSUME Restart, NEW d \in Derived, Awaits(d)'
    PROVE  Owned(d)'
<1>1. PICK waiting \in SUBSET {e \in Derived : row[e].retry} : Register(row, waiting)
  BY DEF Restart
<1>. DEFINE S == {e \in Derived \ waiting : Stale(e, row)}
<1>2. ready' = Events(S) /\ later' = Events(waiting)  BY <1>1 DEF Register
<1>3. S \in SUBSET Derived /\ waiting \in SUBSET Derived  OBVIOUS
<1>4. S \subseteq Named(ready') /\ waiting \subseteq Named(later')
  <2>. HIDE DEF S
  <2>. QED  BY <1>2, <1>3, EventsNameAll
<1>5. Stale(d, row)  BY DEF Awaits, Restart, Stale
<1>. QED  BY <1>4, <1>5 DEF Owned, Names

LEMMA InitOwned ==
    ASSUME Init
    PROVE  PendingIsOwned
<1>1. ready = [i \in DOMAIN Order |-> Live(Order[i])]  BY DEF Init
<1>2. \A d \in Derived : \E i \in DOMAIN Order : Order[i] = d
  BY GraphAssumption DEF ToSet
<1>3. \A d \in Derived : \E i \in DOMAIN ready : ready[i].node = d  BY <1>1, <1>2 DEF Live
<1>. QED  BY <1>3 DEF PendingIsOwned

\* No node has used up its deferrals: _settle_event has not had to give one up.
BelowLimit == \A d \in Derived : requeues[d] < Registered

LEMMA StepOwned ==
    ASSUME Base, BelowLimit, PendingIsOwned, [Next]_vars
    PROVE  PendingIsOwned'
<1>. SUFFICES ASSUME NEW d \in Derived, Awaits(d)' PROVE Owned(d)'
  BY DEF PendingIsOwned, Awaits, Owned, Names, Named
<1>1. StateOK /\ requeues[d] < Registered  BY DEF Base, BelowLimit
<1>2. CASE Edit  BY <1>1, <1>2, EditOwned DEF Edit
<1>3. CASE RunSubmission  BY <1>1, <1>3, RunSubmissionOwned
<1>4. CASE \E p \in Drains : Refresh(p)  BY <1>1, <1>4, BeginOwned, EndOwned DEF Refresh
<1>5. CASE Tick \/ StartFlush \/ EndFlush \/ UNCHANGED vars  BY <1>1, <1>5, OtherOwned
<1>6. CASE Restart  BY <1>6, RestartOwned
<1>. QED  BY <1>2, <1>3, <1>4, <1>5, <1>6 DEF Next

\* A pending node whose dependencies all have a result is queued, being computed, or about
\* to be woken, whatever drains, failures, retries, edits and restarts come in between
\* (_settle_event, _on_dep_changed, register): nothing strands it but the limit on deferrals.
THEOREM PendingStaysOwned == Spec /\ []BelowLimit => []PendingIsOwned
<1>1. Init => PendingIsOwned  BY InitOwned
<1>2. Base /\ BelowLimit /\ PendingIsOwned /\ [Next]_vars => PendingIsOwned'  BY StepOwned
<1>. QED  BY <1>1, <1>2, BaseInvariant, PTL DEF Spec
=============================================================================
