-------------------------- MODULE LiveCards_proofs --------------------------
(***************************************************************************)
(* Proof that a change a following page does not show is on its way to it, *)
(* for any number of properties, pages, versions, breaks and fetches.      *)
(***************************************************************************)
EXTENDS LiveCards, FiniteSetTheorems, TLAPS

\* The card the broadcaster has built for r is accurate.
Built(r) == push.card # NoCard /\ Head(push.todo) = r /\ Accurate(r, push.card)

\* Something will push r again, or the listing says that it was not pushed.
Covered(r) == Announced(r) \/ r \in stale \/ Built(r)

\* The current home's cost is copied to base, and base lags behind it.
BaseLags == base <= own[Home]

\* A card that is about to be sent is accurate, or its figures changed since and it is
\* announced again.
CardIsBuilt ==
    push.card # NoCard =>
        /\ push.todo # << >>
        /\ Head(push.todo) \in registry =>
              Accurate(Head(push.todo), push.card) \/ Announced(Head(push.todo))

\* A page whose socket is down has missed something, whatever listing it waits for.
DownMisses ==
    \A c \in Clients \ up : missed[c] /\ ~listing[c].synced /\ inbox[c] = << >>

\* Removed properties are the only ones whose cards a page forgets.
ForgetsRemoved == \A c \in Clients, r \in Rids : <<c, r>> \in removing => r \notin registry

\* A listing on its way holds a card of every registered property, none from the future.
ListingIsPast ==
    \A c \in Clients :
        /\ listing[c].synced => listing[c].state = "served"
        /\ listing[c].state = "served" =>
              \A r \in registry : /\ listing[c].cards[r] \in Card
                                  /\ listing[c].cards[r].own <= own[r]
                                  /\ listing[c].cards[r].base <= base

HasMail(c, r) == \E i \in DOMAIN inbox[c] : inbox[c][i].rid = r

\* A message on a socket is followed by, or is, an accurate one, or there will be another.
MailIsFollowed ==
    \A c \in Clients, r \in registry : \A i \in DOMAIN inbox[c] :
        inbox[c][i].rid = r =>
            \/ Covered(r)
            \/ \E j \in DOMAIN inbox[c] :
                  j >= i /\ inbox[c][j].rid = r /\ Accurate(r, inbox[c][j].card)

\* What a following page shows without a message to come, and what a listing will make it
\* show, is accurate or about to be announced.
ShownIsCovered ==
    \A c \in Clients : Following(c) => \A r \in registry \ overwritten[c] :
        HasMail(c, r) \/ Accurate(r, shown[c][r]) \/ Covered(r)
ListingIsCovered ==
    \A c \in Clients : listing[c].synced => \A r \in registry :
        \/ HasMail(c, r) \/ Accurate(r, listing[c].cards[r]) \/ Covered(r)
        \/ Newer(shown[c][r], listing[c].cards[r])

Server == BaseLags /\ CardIsBuilt
Pages == DownMisses /\ ForgetsRemoved /\ ListingIsPast
Tracking == MailIsFollowed /\ ShownIsCovered /\ ListingIsCovered
IInv == TypeOK /\ Server /\ Pages /\ Tracking

-----------------------------------------------------------------------------
(***************************************************************************)
(* Sequences and the sets they hold.                                       *)
(***************************************************************************)
LEMMA ToSetTail ==
    ASSUME NEW S, NEW q \in Seq(S), q # << >>
    PROVE  /\ Tail(q) \in Seq(S) /\ Head(q) \in S
           /\ ToSet(q) = {Head(q)} \cup ToSet(Tail(q))
<1>1. /\ 1 \in DOMAIN q /\ Head(q) = q[1] /\ Tail(q) \in Seq(S)
      /\ \A i \in DOMAIN Tail(q) : i + 1 \in DOMAIN q /\ Tail(q)[i] = q[i + 1]
      /\ \A i \in DOMAIN q : i = 1 \/ (i - 1 \in DOMAIN Tail(q) /\ Tail(q)[i - 1] = q[i])
  OBVIOUS
<1>. DEFINE t == Tail(q)
<1>. HIDE DEF t
<1>2. \A x : x \in ToSet(q) <=> x = q[1] \/ x \in ToSet(t)
  <2>1. /\ \A x : x \in ToSet(q) <=> \E i \in DOMAIN q : q[i] = x
        /\ \A x : x \in ToSet(t) <=> \E i \in DOMAIN t : t[i] = x
    BY DEF ToSet
  <2>. QED  BY <1>1, <2>1 DEF t
<1>. QED  BY <1>1, <1>2 DEF t

LEMMA ToSetJoin ==
    ASSUME NEW S, NEW q \in Seq(S), NEW r \in Seq(S)
    PROVE  q \o r \in Seq(S) /\ ToSet(q \o r) = ToSet(q) \cup ToSet(r)
<1>1. /\ q \o r \in Seq(S) /\ DOMAIN (q \o r) = 1..(Len(q) + Len(r))
      /\ \A i \in DOMAIN q : i \in DOMAIN (q \o r) /\ (q \o r)[i] = q[i]
      /\ \A i \in DOMAIN r : i + Len(q) \in DOMAIN (q \o r) /\ (q \o r)[i + Len(q)] = r[i]
      /\ \A i \in DOMAIN (q \o r) : \/ i \in DOMAIN q /\ (q \o r)[i] = q[i]
                                    \/ i - Len(q) \in DOMAIN r /\ (q \o r)[i] = r[i - Len(q)]
  OBVIOUS
<1>. DEFINE j == q \o r
<1>. HIDE DEF j
<1>2. \A x : x \in ToSet(j) <=> x \in ToSet(q) \/ x \in ToSet(r)
  <2>1. /\ \A x : x \in ToSet(q) <=> \E i \in DOMAIN q : q[i] = x
        /\ \A x : x \in ToSet(r) <=> \E i \in DOMAIN r : r[i] = x
        /\ \A x : x \in ToSet(j) <=> \E i \in DOMAIN j : j[i] = x
    BY DEF ToSet
  <2>. QED  BY <1>1, <2>1 DEF j
<1>. QED  BY <1>1, <1>2 DEF j

\* An enumeration of a set of properties leaves none out.
LEMMA SetToSeqsHolds ==
    ASSUME NEW S \in SUBSET Rids, NEW f \in SetToSeqs(S)
    PROVE  f \in Seq(Rids) /\ ToSet(f) = S
<1>. DEFINE n == Cardinality(S)
<1>1. IsFiniteSet(S) /\ n \in Nat  BY CardAssumption, FS_Subset, FS_CardinalityType
<1>2. IsFiniteSet(1..n) /\ Cardinality(1..n) = n  BY <1>1, FS_Interval
<1>3. f \in [1..n -> S] /\ \A i, j \in 1..n : i # j => f[i] # f[j]  BY DEF SetToSeqs
<1>4. f \in Injection(1..n, S)  BY <1>3 DEF Injection, IsInjective
<1>5. f \in Surjection(1..n, S)  BY <1>1, <1>2, <1>4, FS_Injection
<1>. HIDE DEF n
<1>6. \A x \in S : \E i \in 1..n : f[i] = x  BY <1>5 DEF Surjection
<1>7. f \in Seq(Rids)  BY <1>1, <1>3
<1>. QED  BY <1>3, <1>6, <1>7 DEF ToSet

LEMMA SummaryHolds ==
    ASSUME TypeOK, NEW r \in Rids
    PROVE  /\ Summary(r) \in Card /\ Summary(r) # NoCard /\ Accurate(r, Summary(r))
           /\ Summary(r).own = own[r] /\ Summary(r).base = base
<1>1. /\ Summary(r) \in Card /\ Summary(r).own = own[r] /\ Summary(r).base = base
  BY DEF TypeOK, Summary, Card
<1>. QED  BY <1>1, CardAssumption DEF Accurate

-----------------------------------------------------------------------------
LEMMA InitHolds ==
    ASSUME Init
    PROVE  IInv
<1>1. own \in [Rids -> Nat] /\ base = 0 /\ registry = Rids  BY DEF Init
<1>2. \A r \in Rids : [own |-> own[r], base |-> base] \in Card  BY <1>1 DEF Card
<1>3. \A c \in Clients, r \in Rids : shown[c][r] = Summary(r)  BY DEF Init
<1>4. shown \in [Clients -> Cards]  BY <1>2 DEF Init, Cards, Summary
<1>5. NoListing \in Listing
  BY DEF NoListing, Cards, Listing
<1>6. NoPush \in Pushing
  <2>1. << >> \in Seq(Rids)  OBVIOUS
  <2>. QED  BY <2>1 DEF NoPush, Pushing
<1>7. inbox \in [Clients -> Seq(Message)]
  <2>1. << >> \in Seq(Message)  OBVIOUS
  <2>. QED  BY <2>1 DEF Init
<1>8. queue \in Seq(Rids)
  <2>1. << >> \in Seq(Rids)  OBVIOUS
  <2>. QED  BY <2>1 DEF Init
<1>9. TypeOK  
  <2>1. /\ push \in Pushing /\ listing \in [Clients -> Listing]
        /\ missed \in [Clients -> BOOLEAN] /\ overwritten \in [Clients -> SUBSET Rids]
    BY <1>5, <1>6 DEF Init
  <2>2. /\ pending = {} /\ debouncing = FALSE /\ stale = {} /\ removing = {}
        /\ registered = Clients /\ up = Clients
    BY DEF Init
  <2>. QED  BY <1>1, <1>4, <1>7, <1>8, <2>1, <2>2 DEF TypeOK
<1>10. Server
  <2>1. Home \in Rids  BY CardAssumption
  <2>. QED  BY <2>1 DEF Init, Server, BaseLags, CardIsBuilt, NoPush
<1>11. Pages  BY DEF Init, Pages, DownMisses, ForgetsRemoved, ListingIsPast, NoListing
<1>12. \A c \in Clients, r \in Rids : Accurate(r, shown[c][r])
  BY <1>3, <1>9, SummaryHolds
<1>13. Tracking
  BY <1>1, <1>12 DEF Init, Tracking, MailIsFollowed, ShownIsCovered, ListingIsCovered, NoListing
<1>. QED  BY <1>9, <1>10, <1>11, <1>13 DEF IInv

-----------------------------------------------------------------------------
(***************************************************************************)
(* Types.                                                                  *)
(***************************************************************************)
Advanced(more) == [todo |-> Tail(push.todo) \o more, first |-> FALSE, card |-> NoCard]

LEMMA AdvanceHolds ==
    ASSUME TypeOK, push.todo # << >>, NEW more \in Seq(Rids), Advance(more)
    PROVE  /\ push' \in Pushing
           /\ push'.card = NoCard /\ Head(push.todo) \in Rids
           /\ ToSet(push.todo) = {Head(push.todo)} \cup ToSet(Tail(push.todo))
           /\ ToSet(push'.todo) = ToSet(Tail(push.todo)) \cup ToSet(more)
<1>1. push.todo \in Seq(Rids)  BY DEF TypeOK, Pushing
<1>2. /\ Tail(push.todo) \in Seq(Rids) /\ Head(push.todo) \in Rids
      /\ ToSet(push.todo) = {Head(push.todo)} \cup ToSet(Tail(push.todo))
  BY <1>1, ToSetTail
<1>. DEFINE tail == Tail(push.todo)
            t == tail \o more
<1>3. t \in Seq(Rids) /\ ToSet(t) = ToSet(tail) \cup ToSet(more)
  <2>1. tail \in Seq(Rids)  BY <1>2
  <2>. HIDE DEF tail
  <2>. QED  BY <2>1, ToSetJoin
<1>4. push' = [todo |-> t, first |-> FALSE, card |-> NoCard]  BY DEF Advance
<1>. HIDE DEF t
<1>. QED  BY <1>2, <1>3, <1>4 DEF Pushing

LEMMA EmptyHolds == << >> \in Seq(Rids) /\ ToSet(<< >>) = {}
<1>1. << >> \in Seq(Rids)  OBVIOUS
<1>2. ToSet(<< >>) = {}  BY DEF ToSet
<1>. QED  BY <1>1, <1>2

LEMMA ServerTypes ==
    ASSUME TypeOK, CardIsBuilt,
           \/ RefreshHome \/ FlushNotifies \/ Broadcast
           \/ \E r \in Rids : Reprice(r)
    PROVE  TypeOK'
<1>0. \A rids : Notified(rids) => debouncing' \in BOOLEAN
  BY Zenon DEF Notified
<1>1. CASE RefreshHome
  <2>1. Home \in Rids /\ own[Home] \in Nat  BY CardAssumption DEF TypeOK
  <2>. QED  BY <1>1, <2>1 DEF TypeOK, RefreshHome, Notified, sockets, page
<1>2. ASSUME NEW r \in Rids, Reprice(r) PROVE TypeOK'
  <2>1. pending' \subseteq Rids /\ own' \in [Rids -> Nat]
    BY <1>2 DEF TypeOK, Reprice, Notified
  <2>2. debouncing' \in BOOLEAN  BY <1>0, <1>2 DEF Reprice
  <2>. QED  BY <1>2, <2>1, <2>2 DEF TypeOK, Reprice, sockets, page
<1>3. CASE FlushNotifies
  <2>1. PICK rids \in SetToSeqs(pending) : queue' = queue \o rids  BY <1>3 DEF FlushNotifies
  <2>2. rids \in Seq(Rids)  BY SetToSeqsHolds DEF TypeOK
  <2>3. queue' \in Seq(Rids)  BY <2>1, <2>2 DEF TypeOK
  <2>. QED  BY <1>3, <2>3 DEF TypeOK, FlushNotifies, figures, sockets, page
<1>4. CASE TakeRid
  <2>1. queue # << >> /\ queue \in Seq(Rids)  BY <1>4 DEF TakeRid, TypeOK
  <2>2. Tail(queue) \in Seq(Rids) /\ Head(queue) \in Rids  BY <2>1, ToSetTail
  <2>3. push' \in Pushing
    <3>1. <<Head(queue)>> \in Seq(Rids)  BY <2>2
    <3>. QED  BY <1>4, <3>1, EmptyHolds DEF TakeRid, NoPush, Pushing
  <2>. QED  BY <1>4, <2>2, <2>3 DEF TypeOK, TakeRid, figures, sockets, page
<1>5. CASE BuildSummary
  <2>1. push.todo # << >> /\ push.todo \in Seq(Rids)  BY <1>5 DEF BuildSummary, TypeOK, Pushing
  <2>2. push' \in Pushing /\ stale' \subseteq Rids
    <3>1. CASE Head(push.todo) \in registry
      <4>1. Summary(Head(push.todo)) \in Card  BY <3>1, SummaryHolds DEF TypeOK
      <4>. QED  BY <1>5, <3>1, <4>1 DEF BuildSummary, TypeOK, Pushing
    <3>2. CASE Head(push.todo) \notin registry
      <4>1. Advance(<< >>) /\ stale' \subseteq stale  BY <1>5, <3>2 DEF BuildSummary
      <4>. QED  BY <2>1, <4>1, AdvanceHolds, EmptyHolds DEF TypeOK
    <3>. QED  BY <3>1, <3>2
  <2>. QED  BY <1>5, <2>2 DEF TypeOK, BuildSummary, figures, notify, sockets, page
<1>6. CASE PushFails
  <2>1. push.todo # << >> /\ Advance(<< >>)  BY <1>6 DEF PushFails
  <2>2. push' \in Pushing
        /\ Head(push.todo) \in Rids
    BY <2>1, AdvanceHolds, EmptyHolds
  <2>. QED  BY <1>6, <2>2 DEF TypeOK, PushFails, figures, notify, sockets, page
<1>7. ASSUME SendSummary, push.todo # << >> PROVE TypeOK'
  <2>. DEFINE r == Head(push.todo)
              sweeps == push.first /\ r = Home /\ r \in registry
              rest == IF sweeps THEN registry \ {r} ELSE {}
  <2>1. PICK others \in SetToSeqs(rest) : Advance(others)  BY <1>7 DEF SendSummary
  <2>2. rest \in SUBSET Rids  BY DEF TypeOK
  <2>. HIDE DEF rest
  <2>3. others \in Seq(Rids)  BY <2>2, SetToSeqsHolds
  <2>4. push' \in Pushing /\ r \in Rids
    BY <1>7, <2>1, <2>3, AdvanceHolds
  <2>. DEFINE message == [rid |-> r, card |-> push.card]
  <2>5. message \in Message
    <3>1. push.card # NoCard /\ push.card \in Card \cup {NoCard}  BY <1>7 DEF SendSummary, TypeOK, Pushing
    <3>. HIDE DEF r
    <3>. QED  BY <2>4, <3>1 DEF Message
  <2>6. inbox' = [c \in Clients |-> IF c \in up THEN Append(inbox[c], message) ELSE inbox[c]]
    BY <1>7 DEF SendSummary
  <2>. HIDE DEF message
  <2>7. inbox' \in [Clients -> Seq(Message)]
    <3>1. \A c \in Clients : Append(inbox[c], message) \in Seq(Message) /\ inbox[c] \in Seq(Message)
      BY <2>5 DEF TypeOK
    <3>. QED  BY <2>6, <3>1
  <2>8. registered' \subseteq Clients /\ up \subseteq registered' /\ stale' \subseteq Rids
    BY <1>7 DEF SendSummary, TypeOK
  <2>. QED  BY <1>7, <2>4, <2>7, <2>8 DEF TypeOK, SendSummary, figures, notify, page
<1>8. CASE SendSummary  BY <1>7, <1>8 DEF SendSummary, CardIsBuilt
<1>. QED  BY <1>1, <1>2, <1>3, <1>4, <1>5, <1>6, <1>8 DEF Broadcast

LEMMA PageTypes ==
    ASSUME TypeOK, NEW c \in Clients,
           \/ Connect(c) \/ Drop(c) \/ NoticeDrop(c)
           \/ Load(c) \/ ServeListing(c) \/ ReceiveListing(c) \/ ApplyUpdate(c)
           \/ \E r \in Rids : RemoveProperty(c, r) \/ ForgetCard(c, r)
    PROVE  TypeOK'
<1>. USE DEF TypeOK, figures, notify, sockets, page, bounds
<1>1. CASE Connect(c) \/ NoticeDrop(c)  BY <1>1 DEF Connect, NoticeDrop
<1>2. CASE Drop(c)
  <2>1. << >> \in Seq(Message)  OBVIOUS
  <2>2. listing' \in [Clients -> Listing]  BY <1>2 DEF Drop, Listing
  <2>. QED  BY <1>2, <2>1, <2>2 DEF Drop
<1>3. CASE Load(c)
  <2>1. listing' \in [Clients -> Listing]  BY <1>3 DEF Load, Listing
  <2>. QED  BY <1>3, <2>1 DEF Load
<1>4. CASE ServeListing(c)
  <2>. DEFINE cards == [r \in Rids |-> IF r \in registry THEN Summary(r) ELSE NoCard]
  <2>1. cards \in Cards  BY SummaryHolds DEF Cards
  <2>2. listing' = [listing EXCEPT ![c] = [state |-> "served", synced |-> c \in up, cards |-> cards]]
    BY <1>4 DEF ServeListing
  <2>. HIDE DEF cards
  <2>3. listing' \in [Clients -> Listing]
    <3>1. [state |-> "served", synced |-> c \in up, cards |-> cards] \in Listing
      BY <2>1 DEF Listing
    <3>. QED  BY <2>2, <3>1
  <2>. QED  BY <1>4, <2>3 DEF ServeListing
<1>5. CASE ReceiveListing(c)
  <2>1. NoListing \in Listing
    BY DEF NoListing, Cards, Listing
  <2>2. listing[c].cards \in Cards /\ (~listing[c].synced) \in BOOLEAN  BY DEF Listing
  <2>3. listing' \in [Clients -> Listing]  BY <1>5, <2>1 DEF ReceiveListing
  <2>4. missed' \in [Clients -> BOOLEAN]  BY <1>5, <2>2, Zenon DEF ReceiveListing
  <2>5. shown' \in [Clients -> Cards]  BY <1>5, <2>2 DEF ReceiveListing
  <2>6. overwritten' \in [Clients -> SUBSET Rids]  BY <1>5 DEF ReceiveListing
  <2>. QED  BY <1>5, <2>3, <2>4, <2>5, <2>6 DEF ReceiveListing
<1>6. CASE ApplyUpdate(c)
  <2>. DEFINE m == Head(inbox[c])
  <2>1. m \in Message /\ Tail(inbox[c]) \in Seq(Message)
    <3>1. inbox[c] \in Seq(Message) /\ inbox[c] # << >>  BY <1>6 DEF ApplyUpdate
    <3>. QED  BY <3>1, ToSetTail
  <2>2. /\ shown' = [shown EXCEPT ![c][m.rid] = m.card]
        /\ overwritten' = [overwritten EXCEPT ![c] = @ \ {m.rid}]
        /\ inbox' = [inbox EXCEPT ![c] = Tail(@)]
    BY <1>6 DEF ApplyUpdate
  <2>. HIDE DEF m
  <2>3. shown' \in [Clients -> Cards]  BY <2>1, <2>2 DEF Cards, Message
  <2>. QED  BY <1>6, <2>1, <2>2, <2>3 DEF ApplyUpdate
<1>7. ASSUME NEW r \in Rids, RemoveProperty(c, r) PROVE TypeOK'
  <2>1. <<c, r>> \in Clients \X Rids  OBVIOUS
  <2>2. registry' \subseteq Rids /\ removing' \subseteq Clients \X Rids
    BY <1>7, <2>1 DEF RemoveProperty
  <2>. QED  BY <1>7, <2>2 DEF RemoveProperty
<1>8. ASSUME NEW r \in Rids, ForgetCard(c, r) PROVE TypeOK'
  <2>1. shown' \in [Clients -> Cards]  BY <1>8 DEF ForgetCard, Cards
  <2>. QED  BY <1>8, <2>1 DEF ForgetCard
<1>. QED  BY <1>1, <1>2, <1>3, <1>4, <1>5, <1>6, <1>7, <1>8

-----------------------------------------------------------------------------
(***************************************************************************)
(* The server's steps: what was covered stays so, and what no longer is    *)
(* accurate becomes so.                                                    *)
(***************************************************************************)
Turn == ToSet(IF push.card = NoCard THEN push.todo ELSE Tail(push.todo))

LEMMA AnnouncedIs == \A r : Announced(r) <=> r \in pending \/ r \in ToSet(queue) \/ r \in Turn
BY DEF Announced, Turn

Kept(r) ==
    /\ Covered(r) => Covered(r)'
    /\ \A card : Accurate(r, card) => Accurate(r, card)' \/ Covered(r)'

\* A step that leaves the pages alone and keeps every property that stays registered.
LEMMA PagesKeep ==
    ASSUME IInv, TypeOK', registry' \subseteq registry,
           \A r \in Rids : own[r] <= own'[r], base <= base', BaseLags', CardIsBuilt',
           \A c \in Clients, r \in Rids : <<c, r>> \in removing' => r \notin registry',
           UNCHANGED <<up, inbox, shown, listing, missed, overwritten>>,
           \A r \in registry' : Kept(r)
    PROVE  IInv'
<1>1. registry \subseteq Rids /\ own \in [Rids -> Nat] /\ own' \in [Rids -> Nat] /\ base \in Nat /\ base' \in Nat
  BY DEF IInv, TypeOK
<1>2. ForgetsRemoved'  BY DEF ForgetsRemoved
<1>3. DownMisses'  BY DEF IInv, Pages, DownMisses
<1>4. ListingIsPast'
  <2>1. ASSUME NEW c \in Clients, listing[c].state = "served", NEW r \in registry'
        PROVE  /\ listing[c].cards[r] \in Card
               /\ listing[c].cards[r].own <= own'[r] /\ listing[c].cards[r].base <= base'
    <3>1. /\ listing[c].cards[r] \in Card /\ listing[c].cards[r].own <= own[r]
          /\ listing[c].cards[r].base <= base /\ r \in Rids
      BY <1>1, <2>1 DEF IInv, Pages, ListingIsPast
    <3>2. listing[c].cards[r].own \in Nat /\ listing[c].cards[r].base \in Nat  BY <3>1 DEF Card
    <3>. QED  BY <1>1, <3>1, <3>2
  <2>. QED  BY <2>1 DEF IInv, Pages, ListingIsPast
<1>5. MailIsFollowed'
  <2>1. ASSUME NEW c \in Clients, NEW r \in registry', NEW i \in DOMAIN inbox[c], inbox[c][i].rid = r
        PROVE  \/ Covered(r)'
               \/ \E j \in DOMAIN inbox[c] :
                     j >= i /\ inbox[c][j].rid = r /\ Accurate(r, inbox[c][j].card)'
    <3>1. CASE Covered(r)  BY <3>1 DEF Kept
    <3>2. ASSUME NEW j \in DOMAIN inbox[c], j >= i, inbox[c][j].rid = r, Accurate(r, inbox[c][j].card)
          PROVE  Covered(r)' \/ Accurate(r, inbox[c][j].card)'
      BY <3>2 DEF Kept, Accurate
    <3>. QED  BY <2>1, <3>1, <3>2 DEF IInv, Tracking, MailIsFollowed
  <2>. QED  BY <2>1 DEF MailIsFollowed
<1>6. ASSUME NEW c \in Clients, NEW r \in registry'
      PROVE  /\ Accurate(r, shown[c][r]) => Accurate(r, shown[c][r])' \/ Covered(r)'
             /\ Accurate(r, listing[c].cards[r]) => Accurate(r, listing[c].cards[r])' \/ Covered(r)'
  BY DEF Kept, Accurate
<1>7. ShownIsCovered'
  BY <1>6 DEF IInv, Tracking, ShownIsCovered, Following, HasMail, Kept
<1>8. ListingIsCovered'
  BY <1>6 DEF IInv, Tracking, ListingIsCovered, HasMail, Kept, Newer
<1>. QED  BY <1>2, <1>3, <1>4, <1>5, <1>7, <1>8 DEF IInv, Server, Pages, Tracking

LEMMA RepriceStep ==
    ASSUME IInv, TypeOK', NEW r \in Rids, Reprice(r)
    PROVE  IInv'
<1>1. /\ UNCHANGED <<base, registry, queue, push, stale, up, inbox, shown, listing, removing,
                     missed, overwritten>>
      /\ own' = [own EXCEPT ![r] = own[r] + 1] /\ pending' = pending \cup {r}
  BY DEF Reprice, Notified, sockets, page
<1>2. own \in [Rids -> Nat] /\ Home \in Rids /\ registry \subseteq Rids /\ base \in Nat
  BY CardAssumption DEF IInv, TypeOK
<1>3. \A x \in Rids : own[x] <= own'[x] /\ (x # r => own'[x] = own[x])  BY <1>1, <1>2
<1>4. \A x : Announced(x) => Announced(x)'  BY <1>1, AnnouncedIs DEF Turn, Announced
<1>5. Announced(r)'  BY <1>1 DEF Announced
<1>6. BaseLags'  BY <1>1, <1>2, <1>3 DEF IInv, Server, BaseLags
<1>7. CardIsBuilt'
  BY <1>1, <1>2, <1>3, <1>4, <1>5 DEF IInv, Server, CardIsBuilt, Accurate
<1>8. ASSUME NEW x \in registry' PROVE Kept(x)
  <2>1. CASE x = r  BY <1>5, <2>1 DEF Kept, Covered
  <2>2. CASE x # r
    <3>1. \A card : Accurate(x, card) => Accurate(x, card)'
      BY <1>1, <1>2, <1>3, <2>2 DEF Accurate
    <3>2. Built(x) => Built(x)'  BY <1>1, <1>2, <1>3, <2>2 DEF Built, Accurate
    <3>. QED  BY <1>1, <1>4, <3>1, <3>2 DEF Kept, Covered
  <2>. QED  BY <2>1, <2>2
<1>. QED  BY <1>1, <1>2, <1>3, <1>6, <1>7, <1>8, PagesKeep DEF IInv, Pages, ForgetsRemoved

LEMMA RefreshHomeStep ==
    ASSUME IInv, TypeOK', RefreshHome
    PROVE  IInv'
<1>1. /\ UNCHANGED <<own, registry, queue, push, stale, up, inbox, shown, listing, removing,
                     missed, overwritten>>
      /\ base' = own[Home] /\ pending' = pending \cup ((registry \cap Costed) \ {Home})
  BY DEF RefreshHome, Notified, sockets, page
<1>2. own \in [Rids -> Nat] /\ Home \in Rids /\ registry \subseteq Rids /\ base \in Nat
  BY CardAssumption DEF IInv, TypeOK
<1>3. base <= base' /\ BaseLags'  BY <1>1, <1>2 DEF IInv, Server, BaseLags
<1>4. \A x : Announced(x) => Announced(x)'  BY <1>1 DEF Announced
<1>5. \A x \in registry : x \in Costed \ {Home} => Announced(x)'  BY <1>1 DEF Announced
<1>6. ASSUME NEW x \in registry PROVE \A card : Accurate(x, card) => Accurate(x, card)' \/ Announced(x)'
  BY <1>1, <1>5 DEF Accurate
<1>7. CardIsBuilt'
  <2>1. ASSUME push.card # NoCard, Head(push.todo) \in registry
        PROVE  Accurate(Head(push.todo), push.card)' \/ Announced(Head(push.todo))'
    <3>1. CASE Announced(Head(push.todo))  BY <1>1, <1>4, <3>1 DEF Announced
    <3>2. CASE Accurate(Head(push.todo), push.card)
      BY <1>1, <1>5, <2>1, <3>2 DEF Accurate, Announced
    <3>. QED  BY <2>1, <3>1, <3>2 DEF IInv, Server, CardIsBuilt
  <2>. QED  BY <1>1, <2>1 DEF IInv, Server, CardIsBuilt
<1>8. ASSUME NEW x \in registry' PROVE Kept(x)
  <2>1. Built(x) => Built(x)' \/ Announced(x)'  BY <1>1, <1>5 DEF Built, Accurate
  <2>. QED  BY <1>1, <1>4, <1>6, <2>1 DEF Kept, Covered
<1>. QED  BY <1>1, <1>2, <1>3, <1>7, <1>8, PagesKeep DEF IInv, Pages, ForgetsRemoved

\* The steps that leave the figures alone keep what they keep announced or marked.
LEMMA SameFiguresKeep ==
    ASSUME IInv, TypeOK', UNCHANGED <<own, base, registry, up, inbox, shown, listing, removing,
                                      missed, overwritten>>,
           CardIsBuilt', \A r \in registry : Covered(r) => Covered(r)'
    PROVE  IInv'
<1>1. own \in [Rids -> Nat] /\ base \in Nat  BY DEF IInv, TypeOK
<1>2. (\A r \in Rids : own[r] <= own'[r]) /\ base <= base' /\ BaseLags'
  BY <1>1 DEF IInv, Server, BaseLags
<1>3. \A r \in registry' : Kept(r)  BY DEF Kept, Accurate
<1>. QED  BY <1>2, <1>3, PagesKeep DEF IInv, Pages, ForgetsRemoved

LEMMA FlushStep ==
    ASSUME IInv, TypeOK', FlushNotifies
    PROVE  IInv'
<1>1. PICK rids \in SetToSeqs(pending) : queue' = queue \o rids  BY DEF FlushNotifies
<1>2. /\ pending' = {}
      /\ UNCHANGED <<own, base, registry, push, stale, up, inbox, shown, listing, removing,
                     missed, overwritten>>
  BY DEF FlushNotifies, figures, sockets, page
<1>3. rids \in Seq(Rids) /\ ToSet(rids) = pending /\ queue \in Seq(Rids)
  BY SetToSeqsHolds DEF IInv, TypeOK
<1>4. ToSet(queue') = ToSet(queue) \cup pending  BY <1>1, <1>3, ToSetJoin
<1>5. \A x : Announced(x) => Announced(x)'  BY <1>2, <1>4 DEF Announced
<1>6. \A x : Covered(x) => Covered(x)'  BY <1>2, <1>5 DEF Covered, Built, Accurate
<1>7. CardIsBuilt'
  BY <1>2, <1>4 DEF IInv, Server, CardIsBuilt, Announced, Accurate
<1>. QED  BY <1>2, <1>6, <1>7, SameFiguresKeep

LEMMA TakeRidStep ==
    ASSUME IInv, TypeOK', TakeRid
    PROVE  IInv'
<1>1. /\ push = NoPush /\ queue # << >> /\ queue' = Tail(queue) /\ queue \in Seq(Rids)
      /\ push' = (IF registered = {} THEN NoPush
                  ELSE [todo |-> <<Head(queue)>>, first |-> TRUE, card |-> NoCard])
      /\ UNCHANGED <<own, base, registry, pending, stale, up, inbox, shown, listing, removing,
                     missed, overwritten>>
  BY DEF TakeRid, figures, sockets, page, IInv, TypeOK
<1>2. push'.card = NoCard /\ push.card = NoCard /\ push.todo = << >>  BY <1>1 DEF NoPush
<1>3. CardIsBuilt'  BY <1>2 DEF CardIsBuilt
<1>4. CASE registered = {}
  <2>1. up = {}  BY <1>4 DEF IInv, TypeOK
  <2>2. \A c \in Clients : missed[c] /\ ~listing[c].synced /\ inbox[c] = << >>
    BY <2>1 DEF IInv, Pages, DownMisses
  <2>3. Server'  BY <1>1, <1>3 DEF IInv, Server, BaseLags
  <2>4. Pages'  BY <1>1 DEF IInv, Pages, DownMisses, ForgetsRemoved, ListingIsPast
  <2>5. MailIsFollowed'
    <3>1. \A c \in Clients : DOMAIN inbox[c] = {}  BY <2>2
    <3>. QED  BY <1>1, <3>1 DEF MailIsFollowed
  <2>6. ShownIsCovered' /\ ListingIsCovered'
    BY <1>1, <2>1, <2>2 DEF ShownIsCovered, ListingIsCovered, Following
  <2>. QED  BY <2>3, <2>4, <2>5, <2>6 DEF IInv, Tracking
<1>5. CASE registered # {}
  <2>1. ToSet(queue) = {Head(queue)} \cup ToSet(Tail(queue))  BY <1>1, ToSetTail
  <2>2. push'.todo = <<Head(queue)>>  BY <1>1, <1>5
  <2>3. Head(queue) \in ToSet(push'.todo)  BY <2>2 DEF ToSet
  <2>4. ToSet(push.todo) = {}  BY <1>2, EmptyHolds
  <2>5. \A x : Announced(x) => Announced(x)'
    BY <1>1, <1>2, <2>1, <2>3, <2>4 DEF Announced
  <2>6. \A x : Covered(x) => Covered(x)'  BY <1>1, <1>2, <2>5 DEF Covered, Built
  <2>. QED  BY <1>1, <1>3, <2>6, SameFiguresKeep
<1>. QED  BY <1>4, <1>5

LEMMA BuildStep ==
    ASSUME IInv, TypeOK', BuildSummary
    PROVE  IInv'
<1>. DEFINE r == Head(push.todo)
<1>1. /\ push.todo # << >> /\ push.card = NoCard /\ push.todo \in Seq(Rids) /\ registry \subseteq Rids
      /\ UNCHANGED <<own, base, registry, pending, queue, up, inbox, shown, listing, removing,
                     missed, overwritten>>
  BY DEF BuildSummary, figures, notify, sockets, page, IInv, TypeOK, Pushing
<1>2. ToSet(push.todo) = {r} \cup ToSet(Tail(push.todo)) /\ r \in Rids  BY <1>1, ToSetTail
<1>3. CASE r \in registry
  <2>1. push' = [push EXCEPT !.card = Summary(r)] /\ stale' = stale  BY <1>3 DEF BuildSummary
  <2>2. push'.card = Summary(r) /\ push'.todo = push.todo  BY <2>1 DEF IInv, TypeOK, Pushing
  <2>3. Summary(r) # NoCard /\ Accurate(r, Summary(r))  BY <1>2, SummaryHolds DEF IInv
  <2>4. Built(r)'  BY <1>1, <2>2, <2>3 DEF Built, Accurate
  <2>5. \A x : Announced(x) => Announced(x)' \/ x = r
    BY <1>1, <1>2, <2>2, <2>3 DEF Announced
  <2>6. \A x : Covered(x) => Covered(x)'  BY <1>1, <2>1, <2>4, <2>5 DEF Covered, Built
  <2>7. CardIsBuilt'  BY <1>1, <2>2, <2>4 DEF CardIsBuilt, Built
  <2>. QED  BY <1>1, <2>6, <2>7, SameFiguresKeep
<1>4. CASE r \notin registry
  <2>1. Advance(<< >>) /\ stale' = stale \ {r}  BY <1>4 DEF BuildSummary
  <2>2. push'.card = NoCard /\ ToSet(push'.todo) = ToSet(Tail(push.todo))
    BY <1>1, <2>1, AdvanceHolds, EmptyHolds DEF IInv
  <2>3. \A x : Announced(x) => Announced(x)' \/ x = r
    BY <1>1, <1>2, <2>2 DEF Announced
  <2>4. \A x \in registry : Covered(x) => Covered(x)'
    BY <1>1, <1>4, <2>1, <2>3 DEF Covered, Built
  <2>5. CardIsBuilt'  BY <2>2 DEF CardIsBuilt
  <2>. QED  BY <1>1, <2>4, <2>5, SameFiguresKeep
<1>. QED  BY <1>3, <1>4

LEMMA PushFailsStep ==
    ASSUME IInv, TypeOK', PushFails
    PROVE  IInv'
<1>. DEFINE r == Head(push.todo)
<1>1. /\ push.todo # << >> /\ push.card = NoCard /\ push.todo \in Seq(Rids)
      /\ UNCHANGED <<own, base, registry, pending, queue, up, inbox, shown, listing, removing,
                     missed, overwritten>>
      /\ Advance(<< >>) /\ stale' = stale \cup {r}
  BY DEF PushFails, figures, notify, sockets, page, IInv, TypeOK, Pushing
<1>2. /\ push'.card = NoCard /\ ToSet(push'.todo) = ToSet(Tail(push.todo))
      /\ ToSet(push.todo) = {r} \cup ToSet(Tail(push.todo))
  BY <1>1, AdvanceHolds, EmptyHolds DEF IInv
<1>3. \A x : Announced(x) => Announced(x)' \/ x = r  BY <1>1, <1>2 DEF Announced
<1>4. \A x : Covered(x) => Covered(x)'  BY <1>1, <1>3 DEF Covered, Built
<1>5. CardIsBuilt'  BY <1>2 DEF CardIsBuilt
<1>. QED  BY <1>1, <1>4, <1>5, SameFiguresKeep

\* A card is sent to every page that is up; a page that is down gets nothing, and misses it.
LEMMA SendStep ==
    ASSUME IInv, TypeOK', SendSummary
    PROVE  IInv'
<1>0. PICK r, sent, message : /\ r = Head(push.todo) /\ sent = push.card
                             /\ message = [rid |-> r, card |-> sent]
  OBVIOUS
<1>. DEFINE rest == IF push.first /\ r = Home /\ r \in registry THEN registry \ {r} ELSE {}
<1>1. /\ push.card # NoCard /\ stale' = stale \ {r}
      /\ UNCHANGED <<own, base, registry, pending, queue, up, shown, listing, removing,
                     missed, overwritten>>
      /\ \A c \in Clients : inbox'[c] = (IF c \in up THEN Append(inbox[c], message) ELSE inbox[c])
  BY <1>0 DEF SendSummary, figures, notify, page
<1>2. push.todo # << >> /\ \A c \in Clients : inbox[c] \in Seq(Message)
  BY <1>1 DEF IInv, Server, CardIsBuilt, TypeOK
<1>3. /\ push'.card = NoCard /\ ToSet(Tail(push.todo)) \subseteq ToSet(push'.todo)
  <2>1. PICK others \in SetToSeqs(rest) : Advance(others)  BY <1>0 DEF SendSummary
  <2>2. rest \in SUBSET Rids  BY DEF IInv, TypeOK
  <2>. HIDE DEF rest
  <2>3. others \in Seq(Rids)  BY <2>2, SetToSeqsHolds
  <2>. QED  BY <1>2, <2>1, <2>3, AdvanceHolds DEF IInv
<1>4. \A x : Announced(x) => Announced(x)'  BY <1>1, <1>3 DEF Announced
<1>5. \A x : x # r /\ Covered(x) => Covered(x)'  BY <1>0, <1>1, <1>4 DEF Covered, Built
<1>6. r \in registry => Accurate(r, sent) \/ Covered(r)'
  BY <1>0, <1>1, <1>4 DEF IInv, Server, CardIsBuilt, Covered
<1>7. \A c \in Clients \ up : inbox'[c] = << >> /\ missed[c] /\ ~listing[c].synced
  BY <1>1 DEF IInv, Pages, DownMisses
<1>8. ASSUME NEW c \in Clients, c \in up
      PROVE  /\ DOMAIN inbox'[c] = (DOMAIN inbox[c]) \cup {Len(inbox[c]) + 1}
             /\ inbox'[c][Len(inbox[c]) + 1].rid = r
             /\ inbox'[c][Len(inbox[c]) + 1].card = sent
             /\ \A i \in DOMAIN inbox[c] : /\ inbox'[c][i] = inbox[c][i] /\ i <= Len(inbox[c]) + 1
                                           /\ i \in Nat
             /\ Len(inbox[c]) + 1 \in Nat
  <2>. DEFINE q == inbox[c]
  <2>1. q \in Seq(Message) /\ inbox'[c] = Append(q, message) /\ message.rid = r /\ message.card = sent
    BY <1>0, <1>1, <1>2, <1>8
  <2>. HIDE DEF q
  <2>2. /\ DOMAIN Append(q, message) = (DOMAIN q) \cup {Len(q) + 1}
        /\ Append(q, message)[Len(q) + 1] = message
        /\ \A i \in DOMAIN q : Append(q, message)[i] = q[i] /\ i <= Len(q) + 1 /\ i \in Nat
        /\ Len(q) + 1 \in Nat
    BY <2>1
  <2>. QED  BY <2>1, <2>2 DEF q
<1>. HIDE DEF rest
<1>9. Server'  BY <1>1, <1>3 DEF IInv, Server, BaseLags, CardIsBuilt
<1>10. Pages'  BY <1>1, <1>7 DEF IInv, Pages, DownMisses, ForgetsRemoved, ListingIsPast
<1>11. ASSUME NEW c \in Clients, c \in up
       PROVE  /\ HasMail(c, r)'
              /\ \A x : HasMail(c, x) => HasMail(c, x)'
  <2>1. HasMail(c, r)'  BY <1>8, <1>11 DEF HasMail
  <2>2. ASSUME NEW x, HasMail(c, x) PROVE HasMail(c, x)'  BY <1>8, <1>11, <2>2 DEF HasMail
  <2>. QED  BY <2>1, <2>2
<1>12. MailIsFollowed'
  <2>1. ASSUME NEW c \in Clients, NEW x \in registry, NEW i \in DOMAIN inbox'[c], inbox'[c][i].rid = x
        PROVE  \/ Covered(x)'
               \/ \E j \in DOMAIN inbox'[c] :
                     j >= i /\ inbox'[c][j].rid = x /\ Accurate(x, inbox'[c][j].card)
    <3>1. c \in up /\ i \in Nat /\ i <= Len(inbox[c]) + 1
      BY <1>7, <1>8, <2>1
    <3>2. CASE x = r  BY <1>6, <1>8, <2>1, <3>1, <3>2 DEF Accurate
    <3>3. CASE x # r
      <4>1. i \in DOMAIN inbox[c] /\ inbox[c][i].rid = x  BY <1>8, <2>1, <3>1, <3>3
      <4>2. CASE Covered(x)  BY <1>5, <3>3, <4>2
      <4>3. CASE \E j \in DOMAIN inbox[c] :
                    j >= i /\ inbox[c][j].rid = x /\ Accurate(x, inbox[c][j].card)
        BY <1>8, <3>1, <4>3 DEF Accurate
      <4>. QED  BY <4>1, <4>2, <4>3 DEF IInv, Tracking, MailIsFollowed
    <3>. QED  BY <3>2, <3>3
  <2>. QED  BY <1>1, <2>1 DEF MailIsFollowed, Accurate
<1>13. ShownIsCovered'
  <2>1. ASSUME NEW c \in Clients, Following(c), NEW x \in registry \ overwritten[c]
        PROVE  HasMail(c, x)' \/ Accurate(x, shown[c][x]) \/ Covered(x)'
    BY <1>5, <1>11, <2>1 DEF IInv, Tracking, ShownIsCovered, Following
  <2>. QED  BY <1>1, <2>1 DEF ShownIsCovered, Following, Accurate
<1>14. ListingIsCovered'
  <2>1. ASSUME NEW c \in Clients, listing[c].synced, NEW x \in registry
        PROVE  \/ HasMail(c, x)' \/ Accurate(x, listing[c].cards[x]) \/ Covered(x)'
               \/ Newer(shown[c][x], listing[c].cards[x])
    BY <1>5, <1>7, <1>11, <2>1 DEF IInv, Tracking, ListingIsCovered
  <2>. QED  BY <1>1, <2>1 DEF ListingIsCovered, Accurate, Newer
<1>. QED  BY <1>9, <1>10, <1>12, <1>13, <1>14 DEF IInv, Tracking

-----------------------------------------------------------------------------
(***************************************************************************)
(* The pages' steps: one page changes, the figures and the broadcaster do  *)
(* not, so what is accurate and what is covered stays so.                  *)
(***************************************************************************)
PagePast(c) ==
    /\ c \notin up => missed[c] /\ ~listing[c].synced /\ inbox[c] = << >>
    /\ listing[c].synced => listing[c].state = "served"
    /\ listing[c].state = "served" =>
          \A r \in registry : /\ listing[c].cards[r] \in Card
                              /\ listing[c].cards[r].own <= own[r]
                              /\ listing[c].cards[r].base <= base

MailFollowed(c) ==
    \A r \in registry : \A i \in DOMAIN inbox[c] :
        inbox[c][i].rid = r =>
            \/ Covered(r)
            \/ \E j \in DOMAIN inbox[c] :
                  j >= i /\ inbox[c][j].rid = r /\ Accurate(r, inbox[c][j].card)

ShownCovered(c) ==
    Following(c) => \A r \in registry \ overwritten[c] :
        HasMail(c, r) \/ Accurate(r, shown[c][r]) \/ Covered(r)

ListingCovered(c) ==
    listing[c].synced => \A r \in registry :
        \/ HasMail(c, r) \/ Accurate(r, listing[c].cards[r]) \/ Covered(r)
        \/ Newer(shown[c][r], listing[c].cards[r])

LEMMA PageByPage ==
    ASSUME IInv, NEW c \in Clients
    PROVE  PagePast(c) /\ MailFollowed(c) /\ ShownCovered(c) /\ ListingCovered(c)
<1>1. PagePast(c)  BY DEF IInv, Pages, DownMisses, ListingIsPast, PagePast
<1>2. MailFollowed(c)  BY DEF IInv, Tracking, MailIsFollowed, MailFollowed
<1>3. ShownCovered(c)  BY DEF IInv, Tracking, ShownIsCovered, ShownCovered
<1>4. ListingCovered(c)  BY DEF IInv, Tracking, ListingIsCovered, ListingCovered
<1>. QED  BY <1>1, <1>2, <1>3, <1>4

LEMMA ServerRests ==
    ASSUME IInv, UNCHANGED <<own, base, pending, queue, push, stale>>, registry' \subseteq registry
    PROVE  /\ Server'
           /\ \A r : Covered(r)' <=> Covered(r)
           /\ \A r, card : Accurate(r, card)' <=> Accurate(r, card)
<1>1. \A r, card : Accurate(r, card)' <=> Accurate(r, card)  BY DEF Accurate
<1>2. \A r : Announced(r)' <=> Announced(r)  BY DEF Announced
<1>3. \A r : Covered(r)' <=> Covered(r)  BY <1>2 DEF Covered, Built, Accurate
<1>4. Server'
  BY DEF IInv, Server, BaseLags, CardIsBuilt, Accurate, Announced
<1>. QED  BY <1>1, <1>3, <1>4

LEMMA OnePage ==
    ASSUME IInv, TypeOK', NEW c \in Clients,
           UNCHANGED <<own, base, pending, queue, push, stale>>, registry' \subseteq registry,
           ForgetsRemoved',
           \A d \in Clients \ {c} :
               /\ d \in up' <=> d \in up
               /\ inbox'[d] = inbox[d] /\ listing'[d] = listing[d] /\ shown'[d] = shown[d]
               /\ missed'[d] = missed[d] /\ overwritten'[d] = overwritten[d],
           PagePast(c)', MailFollowed(c)', ShownCovered(c)', ListingCovered(c)'
    PROVE  IInv'
<1>1. /\ Server'
      /\ \A r : Covered(r)' <=> Covered(r)
      /\ \A r, card : Accurate(r, card)' <=> Accurate(r, card)
  BY ServerRests
<1>2. ASSUME NEW d \in Clients, d # c
      PROVE  PagePast(d)' /\ MailFollowed(d)' /\ ShownCovered(d)' /\ ListingCovered(d)'
  <2>1. /\ d \in up' <=> d \in up
        /\ inbox'[d] = inbox[d] /\ listing'[d] = listing[d] /\ shown'[d] = shown[d]
        /\ missed'[d] = missed[d] /\ overwritten'[d] = overwritten[d]
    BY <1>2
  <2>2. PagePast(d) /\ MailFollowed(d) /\ ShownCovered(d) /\ ListingCovered(d)  BY PageByPage
  <2>3. PagePast(d)'  BY <2>1, <2>2 DEF PagePast
  <2>4. MailFollowed(d)'  BY <1>1, <2>1, <2>2 DEF MailFollowed
  <2>5. ShownCovered(d)'  BY <1>1, <2>1, <2>2 DEF ShownCovered, Following, HasMail
  <2>6. ListingCovered(d)'  BY <1>1, <2>1, <2>2 DEF ListingCovered, HasMail, Newer
  <2>. QED  BY <2>3, <2>4, <2>5, <2>6
<1>3. \A d \in Clients : PagePast(d)' /\ MailFollowed(d)' /\ ShownCovered(d)' /\ ListingCovered(d)'
  BY <1>2
<1>4. Pages'  BY <1>3 DEF Pages, DownMisses, ListingIsPast, PagePast
<1>5. MailIsFollowed'  BY <1>3 DEF MailIsFollowed, MailFollowed
<1>6. ShownIsCovered'  BY <1>3 DEF ShownIsCovered, ShownCovered
<1>7. ListingIsCovered'  BY <1>3 DEF ListingIsCovered, ListingCovered
<1>. QED  BY <1>1, <1>4, <1>5, <1>6, <1>7 DEF IInv, Tracking

LEMMA ConnectStep ==
    ASSUME IInv, TypeOK', NEW c \in Clients, Connect(c)
    PROVE  IInv'
<1>1. /\ UNCHANGED <<own, base, registry, pending, queue, push, stale, inbox, shown, listing,
                     removing, missed, overwritten>>
      /\ c \notin up /\ up' = up \cup {c}
  BY DEF Connect, figures, notify, page
<1>2. PagePast(c) /\ MailFollowed(c) /\ ShownCovered(c) /\ ListingCovered(c)  BY PageByPage
<1>3. /\ \A r : Covered(r)' <=> Covered(r)
      /\ \A r, card : Accurate(r, card)' <=> Accurate(r, card)
  BY <1>1, ServerRests
<1>4. PagePast(c)'  BY <1>1, <1>2 DEF PagePast
<1>5. MailFollowed(c)'  BY <1>1, <1>2, <1>3 DEF MailFollowed
<1>6. ShownCovered(c)'  BY <1>1, <1>2 DEF ShownCovered, Following, PagePast
<1>7. ListingCovered(c)'  BY <1>1, <1>2 DEF ListingCovered, PagePast
<1>8. ForgetsRemoved'  BY <1>1 DEF IInv, Pages, ForgetsRemoved
<1>. QED  BY <1>1, <1>4, <1>5, <1>6, <1>7, <1>8, OnePage

LEMMA DropStep ==
    ASSUME IInv, TypeOK', NEW c \in Clients, Drop(c)
    PROVE  IInv'
<1>1. /\ UNCHANGED <<own, base, registry, pending, queue, push, stale, shown, removing, overwritten>>
      /\ up' = up \ {c} /\ inbox'[c] = << >> /\ missed'[c] = TRUE
      /\ listing'[c].synced = FALSE
      /\ listing'[c].state = listing[c].state /\ listing'[c].cards = listing[c].cards
      /\ \A d \in Clients \ {c} : inbox'[d] = inbox[d] /\ missed'[d] = missed[d]
                                  /\ listing'[d] = listing[d]
  BY DEF Drop, figures, notify, IInv, TypeOK, Listing
<1>2. PagePast(c)  BY PageByPage
<1>3. PagePast(c)'  BY <1>1, <1>2 DEF PagePast
<1>4. MailFollowed(c)'
  <2>1. DOMAIN inbox'[c] = {}  BY <1>1
  <2>. QED  BY <2>1 DEF MailFollowed
<1>5. ShownCovered(c)' /\ ListingCovered(c)'  BY <1>1 DEF ShownCovered, Following, ListingCovered
<1>6. ForgetsRemoved'  BY <1>1 DEF IInv, Pages, ForgetsRemoved
<1>. QED  BY <1>1, <1>3, <1>4, <1>5, <1>6, OnePage

LEMMA LoadStep ==
    ASSUME IInv, TypeOK', NEW c \in Clients, Load(c)
    PROVE  IInv'
<1>1. /\ UNCHANGED <<own, base, registry, pending, queue, push, stale, up, inbox, shown, removing,
                     missed, overwritten>>
      /\ listing'[c].state = "requested" /\ listing'[c].synced = FALSE
      /\ \A d \in Clients \ {c} : listing'[d] = listing[d]
  BY DEF Load, figures, notify, sockets, IInv, TypeOK, Listing, NoListing
<1>2. PagePast(c) /\ MailFollowed(c) /\ ShownCovered(c)  BY PageByPage
<1>3. /\ \A r : Covered(r)' <=> Covered(r)
      /\ \A r, card : Accurate(r, card)' <=> Accurate(r, card)
  BY <1>1, ServerRests
<1>4. PagePast(c)'  BY <1>1, <1>2 DEF PagePast
<1>5. MailFollowed(c)'  BY <1>1, <1>2, <1>3 DEF MailFollowed
<1>6. ShownCovered(c)'  BY <1>1, <1>2, <1>3 DEF ShownCovered, Following, HasMail
<1>7. ListingCovered(c)'  BY <1>1 DEF ListingCovered
<1>8. ForgetsRemoved'  BY <1>1 DEF IInv, Pages, ForgetsRemoved
<1>. QED  BY <1>1, <1>4, <1>5, <1>6, <1>7, <1>8, OnePage

\* A listing holds the summaries of the moment it is served.
LEMMA ServeStep ==
    ASSUME IInv, TypeOK', NEW c \in Clients, ServeListing(c)
    PROVE  IInv'
<1>1. /\ UNCHANGED <<own, base, registry, pending, queue, push, stale, up, inbox, shown, removing,
                     missed, overwritten>>
      /\ listing'[c].state = "served" /\ listing'[c].synced = (c \in up)
      /\ \A r \in registry : listing'[c].cards[r] = Summary(r)
      /\ \A d \in Clients \ {c} : listing'[d] = listing[d]
  BY DEF ServeListing, figures, notify, sockets, bounds, IInv, TypeOK
<1>2. PagePast(c) /\ MailFollowed(c) /\ ShownCovered(c)  BY PageByPage
<1>3. /\ \A r : Covered(r)' <=> Covered(r)
      /\ \A r, card : Accurate(r, card)' <=> Accurate(r, card)
  BY <1>1, ServerRests
<1>4. /\ registry \subseteq Rids /\ own \in [Rids -> Nat] /\ base \in Nat
      /\ \A r \in registry : /\ Summary(r) \in Card /\ Accurate(r, Summary(r))
                             /\ Summary(r).own = own[r] /\ Summary(r).base = base
  BY SummaryHolds DEF IInv, TypeOK
<1>5. PagePast(c)'
  <2>1. \A r \in registry : own[r] \in Nat  BY <1>4
  <2>2. \A r \in registry : /\ listing'[c].cards[r] \in Card
                            /\ listing'[c].cards[r].own <= own[r]
                            /\ listing'[c].cards[r].base <= base
    BY <1>1, <1>4, <2>1
  <2>3. c \notin up' => missed'[c] /\ ~listing'[c].synced /\ inbox'[c] = << >>
    BY <1>1, <1>2 DEF PagePast
  <2>. QED  BY <1>1, <2>2, <2>3 DEF PagePast
<1>6. MailFollowed(c)'  BY <1>1, <1>2, <1>3 DEF MailFollowed
<1>7. ShownCovered(c)'  BY <1>1, <1>2, <1>3 DEF ShownCovered, Following, HasMail
<1>8. ListingCovered(c)'  BY <1>1, <1>3, <1>4 DEF ListingCovered
<1>9. ForgetsRemoved'  BY <1>1 DEF IInv, Pages, ForgetsRemoved
<1>. QED  BY <1>1, <1>5, <1>6, <1>7, <1>8, <1>9, OnePage

\* A listing is taken over whole: what is not shown as accurate then has mail, is covered,
\* or replaces a newer card.
LEMMA ReceiveStep ==
    ASSUME IInv, TypeOK', NEW c \in Clients, ReceiveListing(c)
    PROVE  IInv'
<1>1. /\ UNCHANGED <<own, base, registry, pending, queue, push, stale, up, inbox, removing>>
      /\ listing[c].state = "served"
      /\ shown'[c] = listing[c].cards
      /\ missed'[c] <=> ~listing[c].synced
      /\ overwritten'[c] = {r \in Rids : Newer(shown[c][r], listing[c].cards[r])}
      /\ listing'[c].state = "none" /\ listing'[c].synced = FALSE
      /\ \A d \in Clients \ {c} : /\ listing'[d] = listing[d] /\ shown'[d] = shown[d]
                                  /\ missed'[d] = missed[d] /\ overwritten'[d] = overwritten[d]
  BY DEF ReceiveListing, figures, notify, sockets, IInv, TypeOK, NoListing
<1>2. PagePast(c) /\ MailFollowed(c) /\ ListingCovered(c)  BY PageByPage
<1>3. /\ \A r : Covered(r)' <=> Covered(r)
      /\ \A r, card : Accurate(r, card)' <=> Accurate(r, card)
  BY <1>1, ServerRests
<1>4. PagePast(c)'  BY <1>1, <1>2 DEF PagePast
<1>5. MailFollowed(c)'  BY <1>1, <1>2, <1>3 DEF MailFollowed
<1>6. ShownCovered(c)'
  <2>1. ASSUME Following(c)', NEW r \in registry \ overwritten'[c]
        PROVE  HasMail(c, r)' \/ Accurate(r, listing[c].cards[r]) \/ Covered(r)
    <3>1. listing[c].synced  BY <1>1, <2>1 DEF Following
    <3>2. ~Newer(shown[c][r], listing[c].cards[r])  BY <1>1, <2>1 DEF IInv, TypeOK
    <3>3. HasMail(c, r) \/ Accurate(r, listing[c].cards[r]) \/ Covered(r)
      BY <1>2, <3>1, <3>2 DEF ListingCovered
    <3>4. HasMail(c, r)' <=> HasMail(c, r)  BY <1>1 DEF HasMail
    <3>. QED  BY <3>3, <3>4
  <2>. QED  BY <1>1, <1>3, <2>1 DEF ShownCovered, Accurate
<1>7. ListingCovered(c)'  BY <1>1 DEF ListingCovered
<1>8. ForgetsRemoved'  BY <1>1 DEF IInv, Pages, ForgetsRemoved
<1>. QED  BY <1>1, <1>4, <1>5, <1>6, <1>7, <1>8, OnePage

\* The oldest message becomes the card; what it leaves behind is followed by another message
\* or covered.
LEMMA ApplyStep ==
    ASSUME IInv, TypeOK', NEW c \in Clients, ApplyUpdate(c)
    PROVE  IInv'
<1>0. inbox[c] # << >> /\ inbox[c] \in Seq(Message)  BY DEF ApplyUpdate, IInv, TypeOK
<1>1. PICK m : m = Head(inbox[c])  OBVIOUS
<1>2. m \in Message /\ m.rid \in Rids /\ m.card \in Card
  <2>1. m \in Message  BY <1>0, <1>1, ToSetTail
  <2>. QED  BY <2>1 DEF Message
<1>3. /\ UNCHANGED <<own, base, registry, pending, queue, push, stale, up, listing, removing, missed>>
      /\ shown'[c] = [shown[c] EXCEPT ![m.rid] = m.card]
      /\ overwritten'[c] = overwritten[c] \ {m.rid}
      /\ inbox'[c] = Tail(inbox[c])
      /\ \A d \in Clients \ {c} : /\ inbox'[d] = inbox[d] /\ shown'[d] = shown[d]
                                  /\ overwritten'[d] = overwritten[d]
  BY <1>1 DEF ApplyUpdate, figures, notify, bounds, IInv, TypeOK
<1>4. /\ 1 \in DOMAIN inbox[c] /\ inbox[c][1] = m /\ DOMAIN inbox[c] \subseteq Nat
      /\ DOMAIN inbox'[c] \subseteq Nat \ {0}
      /\ \A i \in DOMAIN inbox'[c] : i + 1 \in DOMAIN inbox[c] /\ inbox'[c][i] = inbox[c][i + 1]
      /\ \A i \in DOMAIN inbox[c] :
            i = 1 \/ (i - 1 \in DOMAIN inbox'[c] /\ inbox'[c][i - 1] = inbox[c][i])
  <2>. DEFINE q == inbox[c]
  <2>1. q \in Seq(Message) /\ q # << >> /\ m = Head(q) /\ inbox'[c] = Tail(q)  BY <1>0, <1>1, <1>3
  <2>. HIDE DEF q
  <2>2. /\ 1 \in DOMAIN q /\ q[1] = Head(q) /\ DOMAIN q \subseteq Nat /\ DOMAIN Tail(q) \subseteq Nat \ {0}
        /\ \A i \in DOMAIN Tail(q) : i + 1 \in DOMAIN q /\ Tail(q)[i] = q[i + 1]
        /\ \A i \in DOMAIN q : i = 1 \/ (i - 1 \in DOMAIN Tail(q) /\ Tail(q)[i - 1] = q[i])
    BY <2>1
  <2>. QED  BY <2>1, <2>2 DEF q
<1>5. /\ \A r \in Rids \ {m.rid} : shown'[c][r] = shown[c][r]
      /\ shown'[c][m.rid] = m.card
  <2>1. shown[c] \in Cards  BY DEF IInv, TypeOK
  <2>. QED  BY <1>2, <1>3, <2>1 DEF Cards
<1>6. PagePast(c) /\ MailFollowed(c) /\ ShownCovered(c) /\ ListingCovered(c)  BY PageByPage
<1>7. /\ \A r : Covered(r)' <=> Covered(r)
      /\ \A r, card : Accurate(r, card)' <=> Accurate(r, card)
  BY <1>3, ServerRests
<1>8. registry \subseteq Rids  BY DEF IInv, TypeOK
<1>9. PagePast(c)'  BY <1>0, <1>3, <1>6 DEF PagePast
<1>10. MailFollowed(c)'
  <2>1. ASSUME NEW r \in registry, NEW i \in DOMAIN inbox'[c], inbox'[c][i].rid = r, ~Covered(r)
        PROVE  \E j \in DOMAIN inbox'[c] :
                  j >= i /\ inbox'[c][j].rid = r /\ Accurate(r, inbox'[c][j].card)
    <3>1. i \in Nat \ {0} /\ i + 1 \in DOMAIN inbox[c] /\ inbox[c][i + 1].rid = r  BY <1>4, <2>1
    <3>2. PICK j \in DOMAIN inbox[c] :
             j >= i + 1 /\ inbox[c][j].rid = r /\ Accurate(r, inbox[c][j].card)
      BY <1>6, <2>1, <3>1 DEF MailFollowed
    <3>3. j \in Nat /\ j # 1  BY <1>4, <3>1, <3>2
    <3>4. j - 1 \in DOMAIN inbox'[c] /\ inbox'[c][j - 1] = inbox[c][j] /\ j - 1 >= i
      BY <1>4, <3>1, <3>2, <3>3
    <3>. QED  BY <3>2, <3>4
  <2>2. \A r : Covered(r) => Covered(r)'  BY <1>7
  <2>3. registry' = registry  BY <1>3
  <2>4. ASSUME NEW r \in registry, NEW i \in DOMAIN inbox'[c], inbox'[c][i].rid = r
        PROVE  \/ Covered(r)'
               \/ \E j \in DOMAIN inbox'[c] :
                     j >= i /\ inbox'[c][j].rid = r /\ Accurate(r, inbox'[c][j].card)
    BY <2>1, <2>2, <2>4
  <2>. QED  BY <1>3, <2>3, <2>4 DEF MailFollowed, Accurate
<1>11. ASSUME NEW r \in registry, HasMail(c, r), r # m.rid PROVE HasMail(c, r)'
  <2>1. PICK i \in DOMAIN inbox[c] : inbox[c][i].rid = r  BY <1>11 DEF HasMail
  <2>2. i # 1  BY <1>4, <1>11, <2>1
  <2>. QED  BY <1>4, <2>1, <2>2 DEF HasMail
<1>12. ASSUME m.rid \in registry
       PROVE  Covered(m.rid) \/ HasMail(c, m.rid)' \/ Accurate(m.rid, m.card)
  <2>1. ASSUME NEW j \in DOMAIN inbox[c], inbox[c][j].rid = m.rid, Accurate(m.rid, inbox[c][j].card)
        PROVE  HasMail(c, m.rid)' \/ Accurate(m.rid, m.card)
    <3>1. CASE j = 1  BY <1>4, <2>1, <3>1
    <3>2. CASE j # 1  BY <1>4, <2>1, <3>2 DEF HasMail
    <3>. QED  BY <3>1, <3>2
  <2>. QED  BY <1>4, <1>6, <1>12, <2>1 DEF MailFollowed
<1>13. ShownCovered(c)'
  <2>1. ASSUME Following(c), NEW r \in registry \ overwritten'[c]
        PROVE  HasMail(c, r)' \/ Accurate(r, shown'[c][r]) \/ Covered(r)
    <3>1. CASE r = m.rid  BY <1>5, <1>12, <3>1
    <3>2. CASE r # m.rid
      <4>1. r \in registry \ overwritten[c] /\ shown'[c][r] = shown[c][r]
        BY <1>3, <1>5, <1>8, <2>1, <3>2
      <4>. QED  BY <1>6, <1>11, <2>1, <3>2, <4>1 DEF ShownCovered
    <3>. QED  BY <3>1, <3>2
  <2>. QED  BY <1>3, <1>7, <2>1 DEF ShownCovered, Following, Accurate
<1>14. ListingCovered(c)'
  <2>1. ASSUME listing[c].synced, NEW r \in registry
        PROVE  \/ HasMail(c, r)' \/ Accurate(r, listing[c].cards[r]) \/ Covered(r)
               \/ Newer(shown'[c][r], listing[c].cards[r])
    <3>1. CASE r # m.rid
      <4>1. shown'[c][r] = shown[c][r]  BY <1>5, <1>8, <3>1
      <4>. QED  BY <1>6, <1>11, <2>1, <3>1, <4>1 DEF ListingCovered
    <3>2. CASE r = m.rid
      <4>1. ASSUME Accurate(r, m.card)
            PROVE  Accurate(r, listing[c].cards[r]) \/ Newer(m.card, listing[c].cards[r])
        <5>1. PICK card : card = listing[c].cards[r]  OBVIOUS
        <5>2. card \in Card /\ card.own <= own[r] /\ card.base <= base
          BY <1>6, <2>1, <5>1 DEF PagePast
        <5>3. card # NoCard /\ m.card # NoCard  BY <1>2, <5>2, CardAssumption
        <5>4. card.own \in Nat /\ card.base \in Nat /\ m.card.own \in Nat /\ m.card.base \in Nat
          BY <1>2, <5>2 DEF Card
        <5>5. own[r] \in Nat /\ base \in Nat  BY <1>8 DEF IInv, TypeOK
        <5>. QED  BY <4>1, <5>1, <5>2, <5>3, <5>4, <5>5 DEF Accurate, Newer
      <4>. QED  BY <1>5, <1>12, <3>2, <4>1
    <3>. QED  BY <3>1, <3>2
  <2>. QED  BY <1>3, <1>7, <2>1 DEF ListingCovered, Accurate, Newer
<1>15. ForgetsRemoved'  BY <1>3 DEF IInv, Pages, ForgetsRemoved
<1>. QED  BY <1>3, <1>9, <1>10, <1>13, <1>14, <1>15, OnePage

LEMMA RemoveStep ==
    ASSUME IInv, TypeOK', NEW c \in Clients, NEW r \in Rids, RemoveProperty(c, r)
    PROVE  IInv'
<1>1. /\ UNCHANGED <<own, base, pending, queue, push, stale, up, inbox, shown, listing,
                     missed, overwritten>>
      /\ registry' = registry \ {r} /\ removing' = removing \cup {<<c, r>>}
  BY DEF RemoveProperty, notify, sockets
<1>2. PagePast(c) /\ MailFollowed(c) /\ ShownCovered(c) /\ ListingCovered(c)  BY PageByPage
<1>3. /\ \A x : Covered(x)' <=> Covered(x)
      /\ \A x, card : Accurate(x, card)' <=> Accurate(x, card)
  BY <1>1, ServerRests
<1>4. PagePast(c)'  BY <1>1, <1>2 DEF PagePast
<1>5. MailFollowed(c)'  BY <1>1, <1>2, <1>3 DEF MailFollowed
<1>6. ShownCovered(c)'  BY <1>1, <1>2, <1>3 DEF ShownCovered, Following, HasMail
<1>7. ListingCovered(c)'  BY <1>1, <1>2, <1>3 DEF ListingCovered, HasMail, Newer
<1>8. ForgetsRemoved'
  <2>1. \A d \in Clients, x \in Rids : <<d, x>> = <<c, r>> => x = r  OBVIOUS
  <2>. QED  BY <1>1, <2>1 DEF IInv, Pages, ForgetsRemoved
<1>. QED  BY <1>1, <1>4, <1>5, <1>6, <1>7, <1>8, OnePage

LEMMA ForgetStep ==
    ASSUME IInv, TypeOK', NEW c \in Clients, NEW r \in Rids, ForgetCard(c, r)
    PROVE  IInv'
<1>1. /\ UNCHANGED <<own, base, registry, pending, queue, push, stale, up, inbox, listing,
                     missed, overwritten>>
      /\ <<c, r>> \in removing /\ removing' \subseteq removing
      /\ shown'[c] = [shown[c] EXCEPT ![r] = NoCard]
      /\ \A d \in Clients \ {c} : shown'[d] = shown[d]
  BY DEF ForgetCard, figures, notify, sockets, bounds, IInv, TypeOK
<1>2. r \notin registry /\ registry \subseteq Rids
  BY <1>1 DEF IInv, Pages, ForgetsRemoved, TypeOK
<1>3. \A x \in registry : shown'[c][x] = shown[c][x]
  <2>1. shown[c] \in Cards  BY DEF IInv, TypeOK
  <2>. QED  BY <1>1, <1>2, <2>1 DEF Cards
<1>4. PagePast(c) /\ MailFollowed(c) /\ ShownCovered(c) /\ ListingCovered(c)  BY PageByPage
<1>5. /\ \A x : Covered(x)' <=> Covered(x)
      /\ \A x, card : Accurate(x, card)' <=> Accurate(x, card)
  BY <1>1, ServerRests
<1>6. PagePast(c)'  BY <1>1, <1>4 DEF PagePast
<1>7. MailFollowed(c)'  BY <1>1, <1>4, <1>5 DEF MailFollowed
<1>8. ShownCovered(c)'  BY <1>1, <1>3, <1>4, <1>5 DEF ShownCovered, Following, HasMail
<1>9. ListingCovered(c)'  BY <1>1, <1>3, <1>4, <1>5 DEF ListingCovered, HasMail, Newer
<1>10. ForgetsRemoved'  BY <1>1 DEF IInv, Pages, ForgetsRemoved
<1>. QED  BY <1>1, <1>6, <1>7, <1>8, <1>9, <1>10, OnePage

LEMMA RestStep ==
    ASSUME IInv, TypeOK',
           UNCHANGED <<own, base, registry, pending, queue, push, stale, up, inbox, shown, listing,
                       removing, missed, overwritten>>
    PROVE  IInv'
<1>1. \A r : Covered(r) => Covered(r)'  BY DEF Covered, Announced, Built, Accurate
<1>2. CardIsBuilt'  BY DEF IInv, Server, CardIsBuilt, Accurate, Announced
<1>. QED  BY <1>1, <1>2, SameFiguresKeep

-----------------------------------------------------------------------------
LEMMA StepHolds ==
    ASSUME IInv, [Next]_vars
    PROVE  IInv'
<1>0. TypeOK /\ CardIsBuilt  BY DEF IInv, Server
<1>1. CASE RefreshHome  BY <1>0, <1>1, ServerTypes, RefreshHomeStep
<1>2. ASSUME NEW r \in Rids, Reprice(r) PROVE IInv'  BY <1>0, <1>2, ServerTypes, RepriceStep
<1>3. CASE FlushNotifies  BY <1>0, <1>3, ServerTypes, FlushStep
<1>4. CASE Broadcast
  <2>1. TypeOK'  BY <1>0, <1>4, ServerTypes
  <2>. QED  BY <1>4, <2>1, TakeRidStep, BuildStep, PushFailsStep, SendStep DEF Broadcast
<1>5. ASSUME NEW c \in Clients,
             \/ Connect(c) \/ Drop(c) \/ NoticeDrop(c)
             \/ Load(c) \/ ServeListing(c) \/ ReceiveListing(c) \/ ApplyUpdate(c)
             \/ \E r \in Rids : RemoveProperty(c, r) \/ ForgetCard(c, r)
      PROVE  IInv'
  <2>1. TypeOK'  BY <1>0, <1>5, PageTypes
  <2>2. CASE NoticeDrop(c)
    BY <2>1, <2>2, RestStep DEF NoticeDrop, figures, notify, page
  <2>3. CASE \E r \in Rids : RemoveProperty(c, r) \/ ForgetCard(c, r)
    BY <2>1, <2>3, RemoveStep, ForgetStep
  <2>. QED  BY <1>5, <2>1, <2>2, <2>3, ConnectStep, DropStep, LoadStep, ServeStep, ReceiveStep,
               ApplyStep
<1>6. CASE UNCHANGED vars
  <2>1. UNCHANGED <<own, base, registry, pending, debouncing, queue, push, stale, registered, up,
                    inbox, shown, listing, removing, missed, overwritten>>
    BY <1>6 DEF vars, figures, notify, sockets, page
  <2>2. TypeOK'  BY <1>0, <2>1 DEF TypeOK
  <2>. QED  BY <2>1, <2>2, RestStep
<1>. QED  BY <1>1, <1>2, <1>3, <1>4, <1>5, <1>6 DEF Next

\* The invariant that carries the proofs, over every way pages, properties and figures interleave.
THEOREM InductiveInvariant == Spec => []IInv
<1>. QED  BY InitHolds, StepHolds, PTL DEF Spec

\* Cards, queues and sockets hold what they are declared to hold.
THEOREM TypeCorrect == Spec => []TypeOK
<1>1. IInv => TypeOK  BY DEF IInv
<1>. QED  BY <1>1, InductiveInvariant, PTL

\* A following page shows the current figures of a registered property, or their update is
\* announced, on its way or marked as failed (broadcaster.py, useWebSocket.ts).
THEOREM UpdatesAreComing == Spec => []UpdateIsComing
<1>1. ASSUME IInv, NEW c \in Clients, Following(c), NEW r \in registry \ overwritten[c]
      PROVE  Accurate(r, shown[c][r]) \/ Announced(r) \/ Coming(c, r) \/ r \in stale
  <2>1. Covered(r) => Announced(r) \/ r \in stale \/ Coming(c, r)  BY DEF Covered, Built, Coming
  <2>2. HasMail(c, r) => Covered(r) \/ Coming(c, r)
    <3>1. ASSUME HasMail(c, r) PROVE Covered(r) \/ Coming(c, r)
      <4>1. PICK i \in DOMAIN inbox[c] : inbox[c][i].rid = r  BY <3>1 DEF HasMail
      <4>2. \/ Covered(r)
            \/ \E j \in DOMAIN inbox[c] : inbox[c][j].rid = r /\ Accurate(r, inbox[c][j].card)
        BY <1>1, <4>1 DEF IInv, Tracking, MailIsFollowed
      <4>. QED  BY <4>2 DEF Coming
    <3>. QED  BY <3>1
  <2>. QED  BY <1>1, <2>1, <2>2 DEF IInv, Tracking, ShownIsCovered
<1>2. IInv => UpdateIsComing  BY <1>1 DEF UpdateIsComing
<1>. QED  BY <1>2, InductiveInvariant, PTL
=============================================================================
