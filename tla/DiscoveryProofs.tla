-------------------------- MODULE DiscoveryProofs ---------------------------
(***************************************************************************)
(* Proofs about Discovery: the shapes of its state, that no request passes *)
(* a gate GitHub closed, and that a traversal leaves nothing out.          *)
(*                                                                         *)
(* The second rests on one fact that a single answer never shows: what     *)
(* collection backoff holds after any number of concurrent answers, in     *)
(* any order, is the latest of the not-before times they named.  The third *)
(* follows a job up the listings: a task that leads to it has it on its    *)
(* page, or ends with a task that does lead to it in the queue.            *)
(***************************************************************************)
EXTENDS Discovery, TLAPS, SequenceTheorems

\* What is recorded for a gate is what GitHub's answers meant for it.
Recorded == told = until

GateInv == DiscoveryTypeOK /\ Recorded

Slot == [task : Tasks \cup {NoTask}, pc : {"idle", "gate", "path", "asked"},
         left : 0 .. Deliveries - 1]

-----------------------------------------------------------------------------
(***************************************************************************)
(* The queue and the slots.                                                *)
(***************************************************************************)
\* An empty slot is a slot: the state a delivery leaves behind (githubGet's caller
\* returning its answer to Cloud Tasks).
LEMMA NobodyFits == Nobody \in Slot
<1>1. Deliveries \in Nat \ {0}
  BY DiscoveryAssumption
<1>2. 0 \in 0 .. Deliveries - 1
  BY <1>1
<1> QED
  BY <1>2 DEF Nobody, Slot

\* Enqueueing pages keeps the queue a count of deliveries for each task.
LEMMA QueueFits ==
  ASSUME DiscoveryTypeOK, NEW pages
  PROVE  Fresh(pages) \in [Tasks -> 0 .. Deliveries]
<1>1. Deliveries \in Nat \ {0}
  BY DiscoveryAssumption
<1>2. queue \in [Tasks -> 0 .. Deliveries]
  BY DEF DiscoveryTypeOK
<1> QED
  BY <1>1, <1>2 DEF Fresh

\* The names taken in a minute are those of pages.
LEMMA NamesFit ==
  ASSUME DiscoveryTypeOK, NEW pages, Named(pages)
  PROVE  named' \subseteq Tasks
BY DEF DiscoveryTypeOK, Named

\* A delivery that ends leaves every slot of the right shape, and the others as
\* they were.
LEMMA SlotFreed ==
  ASSUME DiscoveryTypeOK, NEW h \in Handlers, EndDelivery(h)
  PROVE  /\ handler' \in [Handlers -> Slot]
         /\ \A k \in Handlers : handler'[k].pc # "idle" => handler'[k] = handler[k]
<1>1. handler \in [Handlers -> Slot]
  BY DEF DiscoveryTypeOK, Slot
<1>2. Nobody.pc = "idle"
  BY DEF Nobody
<1> QED
  BY <1>1, <1>2, NobodyFits DEF EndDelivery

\* A delivery that failed puts its task back with the deliveries it has left.
LEMMA TaskReturned ==
  ASSUME DiscoveryTypeOK, NEW h \in Handlers, NEW pages, RetryAfter(h, pages)
  PROVE  queue' \in [Tasks -> 0 .. Deliveries]
<1>1. Deliveries \in Nat \ {0}
  BY DiscoveryAssumption
<1>2. Fresh(pages) \in [Tasks -> 0 .. Deliveries]
  BY QueueFits
<1>3. handler[h] \in Slot
  BY DEF DiscoveryTypeOK, Slot
<1>4. handler[h].left \in 0 .. Deliveries
  BY <1>1, <1>3 DEF Slot
<1>5. \A n \in 0 .. Deliveries : Later(n, handler[h].left) \in 0 .. Deliveries
  BY <1>4 DEF Later
<1> QED
  BY <1>2, <1>5 DEF RetryAfter

\* A gate that is told to wait waits for the later of two times, and what is
\* recorded stays what was meant.
LEMMA GateClosed ==
  ASSUME GateInv, NEW h \in Handlers, NEW k, NEW wait \in Waits, Refused(h, k, wait)
  PROVE  until' \in [Gates -> Waits] /\ Recorded'
<1>1. Long \in Nat
  BY DiscoveryAssumption
<1>2. until \in [Gates -> Waits] /\ told = until
  BY DEF GateInv, DiscoveryTypeOK, Recorded
<1>3. \A n \in Waits : Later(n, wait) \in Waits
  BY DEF Later
<1>4. until' = [until EXCEPT ![k] = Later(@, wait)]
      /\ told' = [told EXCEPT ![k] = Later(@, wait)]
  BY DEF Refused, Backoff
<1> QED
  BY <1>2, <1>3, <1>4 DEF Recorded

-----------------------------------------------------------------------------
(***************************************************************************)
(* One lemma for each kind of step: what it does to the invariant, and     *)
(* which gate a request passes.                                            *)
(***************************************************************************)
Honoured ==
  \A h \in Handlers :
    /\ handler[h].pc = "gate" /\ handler'[h].pc = "path" => told["github"] = 0
    /\ handler[h].pc = "path" /\ handler'[h].pc = "asked" =>
         told[handler[h].task.of] = 0

\* The scheduled request only queues pages (discover, without a task body).
LEMMA TraversalKeeps ==
  ASSUME GateInv, StartTraversal \/ TraversalFails
  PROVE  GateInv' /\ Honoured
<1>1. DiscoveryTypeOK /\ told = until
  BY DEF GateInv, Recorded
<1>2. queue' \in [Tasks -> 0 .. Deliveries]
  BY <1>1, QueueFits DEF StartTraversal, TraversalFails, Queue
<1>3. UNCHANGED <<handler, until, told, github, known>>
  BY DEF StartTraversal, TraversalFails
<1>5. named' \subseteq Tasks
  BY <1>1, NamesFit DEF StartTraversal, TraversalFails, Queue
<1>4. faults' \in 0 .. MaxFaults
  BY <1>1, DiscoveryAssumption
     DEF StartTraversal, TraversalFails, Fault, DiscoveryTypeOK
<1> QED
  BY <1>1, <1>2, <1>3, <1>4, <1>5
     DEF GateInv, Recorded, DiscoveryTypeOK, Honoured, Waits

\* A delivery is taken into an empty slot, and passes no gate by that.
LEMMA TakeKeeps ==
  ASSUME GateInv, NEW h \in Handlers, NEW t \in Tasks, Take(h, t)
  PROVE  GateInv' /\ Honoured
<1>1. DiscoveryTypeOK /\ told = until
  BY DEF GateInv, Recorded
<1>2. /\ queue \in [Tasks -> 0 .. Deliveries]
      /\ handler \in [Handlers -> Slot]
  BY <1>1 DEF DiscoveryTypeOK, Slot
<1>3. Deliveries \in Nat \ {0}
  BY DiscoveryAssumption
<1>4. queue' \in [Tasks -> 0 .. Deliveries]
  BY <1>2, <1>3 DEF Take
<1> DEFINE fresh == [task |-> t, pc |-> "gate", left |-> queue[t] - 1]
<1>5. queue[t] - 1 \in 0 .. Deliveries - 1
  BY <1>2, <1>3 DEF Take
<1>6. fresh \in Slot
  BY <1>5 DEF Slot
<1>7. handler' = [handler EXCEPT ![h] = fresh]
  BY DEF Take
<1>8. handler' \in [Handlers -> Slot]
  BY <1>2, <1>6, <1>7
<1>9. \A k \in Handlers : handler'[k] = handler[k] \/ handler'[k].pc = "gate"
  BY <1>2, <1>7
<1>10. Honoured
  BY <1>9 DEF Honoured
<1> QED
  BY <1>1, <1>4, <1>8, <1>10 DEF Take, GateInv, Recorded, DiscoveryTypeOK, Slot

\* The two checks of githubGet: a request goes on only where collection backoff
\* shows no wait, and there GitHub meant none either.
LEMMA PassKeeps ==
  ASSUME GateInv, NEW h \in Handlers, PassGate(h) \/ PassPath(h)
  PROVE  GateInv' /\ Honoured
<1>1. DiscoveryTypeOK /\ told = until
  BY DEF GateInv, Recorded
<1>2. handler \in [Handlers -> Slot]
  BY <1>1 DEF DiscoveryTypeOK, Slot
<1>3. PICK pc \in {"path", "asked"} :
        /\ handler' = [handler EXCEPT ![h].pc = pc]
        /\ \/ pc = "path" /\ handler[h].pc = "gate" /\ until["github"] = 0
           \/ pc = "asked" /\ handler[h].pc = "path"
              /\ until[handler[h].task.of] = 0
  BY DEF PassGate, PassPath
<1>4. handler' \in [Handlers -> Slot]
  <2>1. [handler[h] EXCEPT !.pc = pc] \in Slot
    BY <1>2 DEF Slot
  <2> QED
    BY <1>2, <1>3, <2>1
<1>5. \A k \in Handlers \ {h} : handler'[k] = handler[k]
  BY <1>2, <1>3
<1>6. handler'[h].pc = pc
  BY <1>2, <1>3 DEF Slot
<1>7. Honoured
  BY <1>1, <1>3, <1>5, <1>6 DEF Honoured
<1> QED
  BY <1>1, <1>4, <1>7 DEF PassGate, PassPath, GateInv, Recorded, DiscoveryTypeOK, Slot

\* A delivery that ends without an answer about a gate: turned away, done, failed
\* between two items, or lost (discover, handleTask).
LEMMA EndKeeps ==
  ASSUME GateInv, NEW h \in Handlers,
         TurnAway(h) \/ Succeed(h) \/ FailPartway(h) \/ DeliveryFails(h)
  PROVE  GateInv' /\ Honoured
<1>1. DiscoveryTypeOK /\ told = until
  BY DEF GateInv, Recorded
<1>2. EndDelivery(h) /\ UNCHANGED <<until, told, github>>
  BY DEF TurnAway, Succeed, FailPartway, DeliveryFails, RetryAfter
<1>3. /\ handler' \in [Handlers -> Slot]
      /\ \A k \in Handlers : handler'[k].pc # "idle" => handler'[k] = handler[k]
  BY <1>1, <1>2, SlotFreed
<1>4. queue' \in [Tasks -> 0 .. Deliveries]
  <2>1. CASE TurnAway(h)
    BY <1>1, <2>1 DEF TurnAway, DiscoveryTypeOK
  <2>2. CASE Succeed(h)
    BY <1>1, <2>2, QueueFits DEF Succeed, Queue
  <2>3. CASE FailPartway(h)
    <3>1. \E pages : RetryAfter(h, pages)
      BY <2>3 DEF FailPartway
    <3> QED
      BY <1>1, <3>1, TaskReturned
  <2>4. CASE DeliveryFails(h)
    <3>1. RetryAfter(h, {})
      BY <2>4 DEF DeliveryFails
    <3> QED
      BY <1>1, <3>1, TaskReturned
  <2> QED
    BY <2>1, <2>2, <2>3, <2>4
<1>5. faults' \in 0 .. MaxFaults
  BY <1>1, DiscoveryAssumption
     DEF TurnAway, Succeed, FailPartway, DeliveryFails, Fault, DiscoveryTypeOK
<1>6. known' \subseteq Jobs
  <2>1. known \subseteq Jobs
    BY <1>1 DEF DiscoveryTypeOK
  <2>2. known' = known \/ \E found : known' = known \cup (found \cap Jobs)
    BY DEF TurnAway, Succeed, FailPartway, DeliveryFails
  <2> QED
    BY <2>1, <2>2
<1>7. Honoured
  BY <1>3 DEF Honoured
<1>8. named' \subseteq Tasks
  <2>1. UNCHANGED named \/ \E pages : Named(pages)
    BY DEF TurnAway, Succeed, FailPartway, DeliveryFails, RetryAfter, Queue
  <2> QED
    BY <1>1, <2>1, NamesFit DEF DiscoveryTypeOK
<1> QED
  BY <1>1, <1>2, <1>3, <1>4, <1>5, <1>6, <1>7, <1>8
     DEF GateInv, Recorded, DiscoveryTypeOK, Slot, Waits

\* An answer that closes a gate (githubFailure).
LEMMA RefusalKeeps ==
  ASSUME GateInv, NEW h \in Handlers, RateLimited(h) \/ Deny(h)
  PROVE  GateInv' /\ Honoured
<1>1. DiscoveryTypeOK
  BY DEF GateInv
<1>2. PICK k, wait : wait \in Waits /\ Refused(h, k, wait)
  <2>1. /\ Minute \in Nat /\ Long \in Nat
    BY DiscoveryAssumption
  <2>2. Long \in Waits /\ Minute .. Long \subseteq Waits
    BY <2>1 DEF Waits
  <2>3. CASE RateLimited(h)
    BY <2>2, <2>3 DEF RateLimited
  <2>4. CASE Deny(h)
    BY <2>2, <2>4 DEF Deny
  <2> QED
    BY <2>3, <2>4
<1>3. until' \in [Gates -> Waits] /\ Recorded'
  BY <1>2, GateClosed
<1>4. EndDelivery(h) /\ UNCHANGED <<queue, named, github, known>>
  BY <1>2 DEF Refused
<1>5. /\ handler' \in [Handlers -> Slot]
      /\ \A s \in Handlers : handler'[s].pc # "idle" => handler'[s] = handler[s]
  BY <1>1, <1>4, SlotFreed
<1>6. faults' \in 0 .. MaxFaults
  BY <1>1, DiscoveryAssumption DEF RateLimited, Deny, Fault, DiscoveryTypeOK
<1>7. Honoured
  BY <1>5 DEF Honoured
<1> QED
  BY <1>1, <1>3, <1>4, <1>5, <1>6, <1>7
     DEF GateInv, Recorded, DiscoveryTypeOK, Slot

\* A minute that passes counts down what is recorded and what was meant alike.
LEMMA TickKeepsGates ==
  ASSUME GateInv, Tick
  PROVE  GateInv' /\ Honoured
<1>1. DiscoveryTypeOK /\ told = until
  BY DEF GateInv, Recorded
<1>2. Long \in Nat
  BY DiscoveryAssumption
<1>3. \A n \in Waits : Before(n) \in Waits
  BY <1>2 DEF Waits, Before, Later
<1>4. until' \in [Gates -> Waits] /\ told' = until'
  BY <1>1, <1>3 DEF Tick, DiscoveryTypeOK
<1> QED
  BY <1>1, <1>4 DEF Tick, GateInv, Recorded, DiscoveryTypeOK, Honoured

-----------------------------------------------------------------------------
(***************************************************************************)
(* The invariant and what it gives.                                        *)
(***************************************************************************)
LEMMA GateInit == Init => GateInv
<1> SUFFICES ASSUME Init PROVE GateInv
  OBVIOUS
<1>1. /\ Deliveries \in Nat \ {0} /\ Long \in Nat /\ MaxFaults \in Nat
  BY DiscoveryAssumption
<1>2. handler \in [Handlers -> Slot]
  BY NobodyFits DEF Init
<1> QED
  BY <1>1, <1>2 DEF Init, GateInv, Recorded, DiscoveryTypeOK, Slot, Waits

LEMMA GateStep == GateInv /\ [Next]_vars => GateInv' /\ (Honoured \/ UNCHANGED vars)
<1> SUFFICES ASSUME GateInv, [Next]_vars
             PROVE  GateInv' /\ (Honoured \/ UNCHANGED vars)
  OBVIOUS
<1>1. CASE StartTraversal \/ TraversalFails
  BY <1>1, TraversalKeeps
<1>2. CASE \E h \in Handlers, t \in Tasks : Take(h, t)
  BY <1>2, TakeKeeps
<1>3. CASE \E h \in Handlers : Proceed(h)
  <2> PICK h \in Handlers : Proceed(h)
    BY <1>3
  <2>1. CASE PassGate(h) \/ PassPath(h)
    BY <2>1, PassKeeps
  <2>2. CASE TurnAway(h) \/ Succeed(h)
    BY <2>2, EndKeeps
  <2>3. CASE Deny(h)
    BY <2>3, RefusalKeeps
  <2> QED
    BY <2>1, <2>2, <2>3 DEF Proceed
<1>4. CASE \E h \in Handlers : FailPartway(h) \/ DeliveryFails(h)
  BY <1>4, EndKeeps
<1>5. CASE \E h \in Handlers : RateLimited(h)
  BY <1>5, RefusalKeeps
<1>6. CASE \E j \in Jobs : GitHubFinishes(j)
  BY <1>6 DEF GitHubFinishes, GateInv, Recorded, DiscoveryTypeOK, Honoured
<1>7. CASE Tick
  BY <1>7, TickKeepsGates
<1>8. CASE UNCHANGED vars
  BY <1>8 DEF vars, GateInv, Recorded, DiscoveryTypeOK
<1> QED
  BY <1>1, <1>2, <1>3, <1>4, <1>5, <1>6, <1>7, <1>8 DEF Next

\* The inductive invariant of discovery: its types, and that collection backoff
\* holds for every gate the latest not-before GitHub's answers named, however many
\* deliveries were answered at once (Backoff's read and write in one transaction).
THEOREM GateInvariant == Spec => []GateInv
<1>1. Init => GateInv
  BY GateInit
<1>2. GateInv /\ [Next]_vars => GateInv'
  BY GateStep
<1> QED
  BY <1>1, <1>2, PTL DEF Spec

\* Discovery's state keeps its shapes: no page has more deliveries left than the
\* queue allows, no gate is closed for longer than the longest wait an answer named
\* (githubFailure), and only jobs with a label group of the fleet get records.
THEOREM DiscoveryTyped == Spec => []DiscoveryTypeOK
<1>1. GateInv => DiscoveryTypeOK
  BY DEF GateInv
<1> QED
  BY <1>1, GateInvariant, PTL

\* No request of discovery passes a gate before the time GitHub's answers named for
\* it (discover, githubGet).
THEOREM GatesAreHonoured == Spec => GateHonoured
<1>1. GateInv /\ [Next]_vars => [Honoured]_vars
  BY GateStep
<1> QED
  BY <1>1, GateInvariant, PTL DEF Spec, GateHonoured, Honoured

-----------------------------------------------------------------------------
(***************************************************************************)
(* The pages of a listing, and the tasks that lead to a job.               *)
(***************************************************************************)
\* A task is a page of a listing, and a listing is a sequence of items.
LEMMA TaskIsPage ==
  ASSUME NEW t \in Tasks
  PROVE  /\ t.of \in Listings /\ t.page \in Pages(t.of) /\ t = Page(t.of, t.page)
         /\ t.page \in Nat \ {0} /\ (t.page - 1) * PageSize <= Len(Listing[t.of])
         /\ Listing[t.of] \in Seq(ToSet(Listing[t.of])) /\ Len(Listing[t.of]) \in Nat
<1>1. PICK l \in Listings : \E n \in Pages(l) : t = Page(l, n)
  BY DEF Tasks
<1> PICK n \in Pages(l) : t = Page(l, n)
  BY <1>1
<1>2. t.of = l /\ t.page = n
  BY <1>1 DEF Page
<1>3. Listing[l] \in Seq(ToSet(Listing[l]))
  BY DiscoveryAssumption
<1>4. Len(Listing[l]) \in Nat
  BY <1>3, LenProperties
<1>5. n \in 1 .. Len(Listing[l]) + 1 /\ (n - 1) * PageSize <= Len(Listing[l])
  BY DEF Pages
<1>6. n \in Nat \ {0}
  BY <1>4, <1>5
<1> QED
  BY <1>2, <1>3, <1>4, <1>5, <1>6, Zenon

\* Every listing has a first page.
LEMMA FirstPageIsTask ==
  ASSUME NEW items
  PROVE  FirstPages(items) \subseteq Tasks
<1> SUFFICES ASSUME NEW l \in items \cap Listings
             PROVE  Page(l, 1) \in Tasks
  BY DEF FirstPages
<1>1. Listing[l] \in Seq(ToSet(Listing[l])) /\ PageSize \in Nat
  BY DiscoveryAssumption
<1>2. Len(Listing[l]) \in Nat
  BY <1>1, LenProperties
<1>3. (1 - 1) * PageSize <= Len(Listing[l])
  BY <1>1, <1>2
<1>4. 1 \in Pages(l)
  BY <1>2, <1>3 DEF Pages
<1> QED
  BY <1>4 DEF Tasks

\* What GitHub answers for a page is the part of the listing that On names, and a
\* page that another follows is full (per_page=100, len(repos) == 100).
LEMMA PageContents ==
  ASSUME NEW t \in Tasks
  PROVE  /\ ToSet(Items(t)) = On(t)
         /\ Page(t.of, t.page + 1) \in Tasks => Len(Items(t)) = PageSize
<1> DEFINE s == Listing[t.of]
           N == Len(s)
           a == (t.page - 1) * PageSize
           b == t.page * PageSize
           c == IF b < N THEN b ELSE N
<1>1. /\ t.page \in Nat \ {0} /\ a <= N /\ s \in Seq(ToSet(s)) /\ N \in Nat
  BY TaskIsPage
<1>2. PageSize \in Nat \ {0}
  BY DiscoveryAssumption
<1>3. a \in Nat /\ b = a + PageSize
  <2>1. \A p \in Nat \ {0}, q \in Nat : (p - 1) * q \in Nat /\ p * q = (p - 1) * q + q
    OBVIOUS
  <2> QED
    BY <1>1, <1>2, <2>1, Zenon
<1>4. Items(t) = SubSeq(s, a + 1, c)
  BY DEF Items
<1> HIDE DEF s, N, a, b
<1>5. b \in Nat /\ c \in Nat /\ c <= N /\ c <= b /\ a <= c
  BY <1>1, <1>2, <1>3
<1>6. \A i \in a + 1 .. c : i \in 1 .. N /\ s[i] \in ToSet(s)
  <2> TAKE i \in a + 1 .. c
  <2>1. i \in 1 .. N
    BY <1>1, <1>3, <1>5
  <2> QED
    BY <1>1, <2>1, ElementOfSeq DEF N
<1> HIDE DEF c
<1>7. /\ Items(t) \in Seq(ToSet(s))
      /\ Len(Items(t)) = c - a
      /\ \A i \in 1 .. c - a : Items(t)[i] = s[a + i]
  <2>1. /\ SubSeq(s, a + 1, c) \in Seq(ToSet(s))
        /\ Len(SubSeq(s, a + 1, c)) = IF a + 1 <= c THEN c - (a + 1) + 1 ELSE 0
        /\ \A i \in 1 .. c - (a + 1) + 1 : SubSeq(s, a + 1, c)[i] = s[a + 1 + i - 1]
    <3>1. a + 1 \in Int /\ c \in Int
      BY <1>3, <1>5
    <3> QED
      BY <1>6, <3>1, SubSeqProperties
  <2>2. c - (a + 1) + 1 = c - a /\ (~ (a + 1 <= c) => c - a = 0)
    BY <1>3, <1>5
  <2>3. \A i \in 1 .. c - a : a + 1 + i - 1 = a + i
    BY <1>3, <1>5
  <2> QED
    BY <1>4, <2>1, <2>2, <2>3
<1>8. ToSet(Items(t)) = {s[a + i] : i \in 1 .. c - a}
  <2>1. DOMAIN Items(t) = 1 .. c - a
    BY <1>7, LenProperties
  <2> QED
    BY <1>7, <2>1 DEF ToSet
<1>9. On(t) = {s[k] : k \in {i \in 1 .. N : a < i /\ i <= b}}
  BY DEF On, s, N, a, b
<1>10. ToSet(Items(t)) = On(t)
  <2>1. ASSUME NEW i \in 1 .. c - a
        PROVE  a + i \in {k \in 1 .. N : a < k /\ k <= b}
    BY <1>1, <1>3, <1>5
  <2>2. ASSUME NEW k \in {i \in 1 .. N : a < i /\ i <= b}
        PROVE  k - a \in 1 .. c - a /\ a + (k - a) = k
    BY <1>1, <1>3, <1>5 DEF c
  <2>3. ASSUME NEW x \in ToSet(Items(t))
        PROVE  x \in On(t)
    BY <1>8, <1>9, <2>1
  <2>4. ASSUME NEW x \in On(t)
        PROVE  x \in ToSet(Items(t))
    <3>1. PICK k \in {i \in 1 .. N : a < i /\ i <= b} : x = s[k]
      BY <1>9
    <3>2. x = s[a + (k - a)]
      BY <2>2, <3>1
    <3> QED
      BY <1>8, <2>2, <3>2
  <2> QED
    BY <2>3, <2>4
<1>11. ASSUME Page(t.of, t.page + 1) \in Tasks
       PROVE  Len(Items(t)) = PageSize
  <2> DEFINE u == Page(t.of, t.page + 1)
  <2>1. u.of = t.of /\ u.page = t.page + 1
    BY DEF Page
  <2>2. (u.page - 1) * PageSize <= Len(Listing[u.of])
    BY <1>11, TaskIsPage
  <2>3. u.page - 1 = t.page
    BY <1>1, <2>1
  <2>4. b <= N
    BY <2>1, <2>2, <2>3, Zenon DEF b, N, s
  <2>5. c = b
    BY <1>1, <1>5, <2>4 DEF c
  <2> QED
    BY <1>2, <1>3, <1>7, <2>5
<1> QED
  BY <1>10, <1>11

\* A task that leads to a job has it on its page, or is followed by one that does:
\* there is no circle of pages that lead only to each other.
LEMMA LeadingStep ==
  ASSUME NEW j \in Jobs, NEW t \in Leading[j]
  PROVE  t \in Tasks /\ (j \in On(t) \/ FollowUps(t) \cap Leading[j] # {})
<1> DEFINE L == Leading[j]
           T == {u \in Tasks : j \in On(u) \/ FollowUps(u) \cap L # {}}
<1>1. L = {u \in Tasks : \A S \in SUBSET Tasks : Closed(S, j) => u \in S}
  BY DEF Leading
<1> HIDE DEF L
<1>2. ASSUME NEW u \in Tasks, FollowUps(u) \cap T # {}
      PROVE  u \in T
  <2>1. PICK v \in T : v \in FollowUps(u)
    BY <1>2
  <2>2. ASSUME NEW S \in SUBSET Tasks, Closed(S, j)
        PROVE  v \in S
    <3>1. L \subseteq S
      BY <1>1, <2>2
    <3>2. v \in Tasks /\ (j \in On(v) \/ FollowUps(v) \cap S # {})
      BY <3>1
    <3> QED
      BY <2>2, <3>2 DEF Closed
  <2>3. v \in L
    BY <1>1, <2>2
  <2> QED
    BY <2>1, <2>3
<1>3. Closed(T, j)
  BY <1>2 DEF Closed
<1>4. L \subseteq T
  BY <1>1, <1>3
<1> QED
  BY <1>4 DEF L

\* A delivery that ends well queues everything that follows its page: what is skipped
\* is no listing, and a page another follows is full (discoverWithPAT).
LEMMA EndsQueueAll ==
  ASSUME NEW t \in Tasks
  PROVE  FollowUps(t) \subseteq Tasks \cap (FirstPages(Wanted(Items(t))) \cup NextPage(t))
<1>1. ToSet(Items(t)) = On(t)
      /\ (Page(t.of, t.page + 1) \in Tasks => Len(Items(t)) = PageSize)
  BY PageContents
<1>2. On(t) \cap Listings \subseteq Wanted(Items(t))
  BY <1>1 DEF Wanted
<1>3. FirstPages(On(t)) \subseteq FirstPages(Wanted(Items(t)))
  BY <1>2 DEF FirstPages
<1>4. {Page(t.of, t.page + 1)} \cap Tasks \subseteq NextPage(t)
  BY <1>1 DEF NextPage
<1>5. FirstPages(On(t)) \subseteq Tasks
  BY FirstPageIsTask
<1> QED
  BY <1>3, <1>4, <1>5 DEF FollowUps

-----------------------------------------------------------------------------
(***************************************************************************)
(* What happens to a task that is under way.                               *)
(***************************************************************************)
\* Queueing pages takes no task off the queue, and puts on it those that had no task
\* in this minute.
LEMMA QueueOnlyGrows ==
  ASSUME DiscoveryTypeOK, NEW pages, NEW t \in Tasks,
         queue[t] > 0 \/ t \in pages \ named
  PROVE  Fresh(pages)[t] > 0
<1>1. Deliveries \in Nat \ {0}
  BY DiscoveryAssumption
<1>2. Deliveries > 0
  BY <1>1
<1> QED
  BY <1>2 DEF Fresh

\* A task queued stays queued, whatever is queued besides and whichever task returns.
LEMMA QueuedStays ==
  ASSUME DiscoveryTypeOK, NEW t \in Tasks, queue[t] > 0, NEW pages, NEW h \in Handlers,
         UNCHANGED queue \/ Queue(pages) \/ RetryAfter(h, pages)
  PROVE  queue'[t] > 0
<1>1. Fresh(pages)[t] > 0 /\ Fresh(pages) \in [Tasks -> 0 .. Deliveries]
  BY QueueOnlyGrows, QueueFits
<1>2. handler[h].left \in 0 .. Deliveries - 1 /\ Deliveries \in Nat
  BY DiscoveryAssumption DEF DiscoveryTypeOK
<1>3. Fresh(pages)[t] \in Nat /\ handler[h].left \in Nat
  BY <1>1, <1>2
<1>4. Later(Fresh(pages)[t], handler[h].left) > 0
  BY <1>1, <1>3 DEF Later
<1>5. CASE RetryAfter(h, pages)
  BY <1>1, <1>4, <1>5 DEF RetryAfter
<1>6. CASE UNCHANGED queue \/ Queue(pages)
  BY <1>1, <1>6 DEF Queue
<1> QED
  BY <1>5, <1>6

\* A delivery that fails with deliveries left returns its task.
LEMMA FailedReturns ==
  ASSUME DiscoveryTypeOK, NEW h \in Handlers, NEW pages, RetryAfter(h, pages),
         handler[h].task \in Tasks, handler[h].left # 0
  PROVE  queue'[handler[h].task] > 0
<1> DEFINE t == handler[h].task
<1>1. Fresh(pages) \in [Tasks -> 0 .. Deliveries]
  BY QueueFits
<1>2. handler[h].left \in 0 .. Deliveries - 1 /\ Deliveries \in Nat
  BY DiscoveryAssumption DEF DiscoveryTypeOK
<1>3. Fresh(pages)[t] \in Nat /\ handler[h].left \in Nat /\ handler[h].left > 0
  BY <1>1, <1>2
<1>4. Later(Fresh(pages)[t], handler[h].left) > 0
  BY <1>3 DEF Later
<1> QED
  BY <1>1, <1>4 DEF RetryAfter

\* The end of one delivery leaves every other one under way.
LEMMA OthersStay ==
  ASSUME DiscoveryTypeOK, NEW h \in Handlers, NEW t \in Tasks, UnderWay(t),
         EndDelivery(h), NEW pages,
         UNCHANGED queue \/ Queue(pages) \/ RetryAfter(h, pages)
  PROVE  UnderWay(t)' \/ (handler[h].pc # "idle" /\ handler[h].task = t)
<1>1. CASE queue[t] > 0
  BY <1>1, QueuedStays DEF UnderWay
<1>2. CASE \E k \in Handlers : handler[k].pc # "idle" /\ handler[k].task = t
  <2>1. PICK k \in Handlers : handler[k].pc # "idle" /\ handler[k].task = t
    BY <1>2
  <2>2. CASE k = h
    BY <2>1, <2>2
  <2>3. CASE k # h
    <3>1. handler'[k] = handler[k]
      BY <2>3 DEF EndDelivery, DiscoveryTypeOK
    <3> QED
      BY <2>1, <3>1 DEF UnderWay
  <2> QED
    BY <2>2, <2>3
<1> QED
  BY <1>1, <1>2 DEF UnderWay

\* What a step may do with a job that tasks under way lead to.
Led(j) ==
  \/ j \in known' \/ github'[j] = "completed"
  \/ \E t \in Leading[j] : UnderWay(t)'
  \/ \E h \in Handlers :
       LET t == handler[h].task IN
       /\ t \in Leading[j]
       /\ \/ GivenUp(h)
          \/ Succeed(h) /\ FollowUps(t) \cap Leading[j] \cap named # {}

\* Steps that end no delivery leave every task under way: the scheduled request, a
\* task delivered, a check passed, a job that ends, a minute that passes.
LEMMA StaysUnderWay ==
  ASSUME DiscoveryTypeOK, NEW t \in Tasks, UnderWay(t),
         \/ StartTraversal \/ TraversalFails \/ Tick
         \/ \E h \in Handlers : PassGate(h) \/ PassPath(h) \/ \E u \in Tasks : Take(h, u)
         \/ \E j \in Jobs : GitHubFinishes(j)
  PROVE  UnderWay(t)'
<1>1. handler \in [Handlers -> Slot] /\ queue \in [Tasks -> 0 .. Deliveries]
  BY DEF DiscoveryTypeOK, Slot
<1>2. CASE StartTraversal \/ TraversalFails
  <2>1. UNCHANGED handler /\ \E pages : queue' = Fresh(pages)
    BY <1>2 DEF StartTraversal, TraversalFails, Queue
  <2> QED
    BY <2>1, QueueOnlyGrows DEF UnderWay
<1>3. CASE Tick \/ \E j \in Jobs : GitHubFinishes(j)
  BY <1>3 DEF Tick, GitHubFinishes, UnderWay
<1>4. CASE \E h \in Handlers : PassGate(h) \/ PassPath(h)
  <2>1. PICK h \in Handlers : PassGate(h) \/ PassPath(h)
    BY <1>4
  <2>2. PICK pc \in {"path", "asked"} : handler' = [handler EXCEPT ![h].pc = pc]
    BY <2>1 DEF PassGate, PassPath
  <2>3. handler'[h].pc = pc /\ handler'[h].task = handler[h].task
    BY <1>1, <2>2 DEF Slot
  <2>4. \A k \in Handlers \ {h} : handler'[k] = handler[k]
    BY <1>1, <2>2
  <2>5. UNCHANGED queue
    BY <2>1 DEF PassGate, PassPath
  <2> QED
    BY <2>3, <2>4, <2>5 DEF UnderWay
<1>5. CASE \E h \in Handlers, u \in Tasks : Take(h, u)
  <2>1. PICK h \in Handlers, u \in Tasks : Take(h, u)
    BY <1>5
  <2>2. handler[h].pc = "idle"
    BY <2>1 DEF Take, Free
  <2>3. handler'[h].pc = "gate" /\ handler'[h].task = u
    BY <1>1, <2>1 DEF Take
  <2>4. \A k \in Handlers \ {h} : handler'[k] = handler[k]
    BY <1>1, <2>1 DEF Take
  <2>5. \A v \in Tasks \ {u} : queue'[v] = queue[v]
    BY <1>1, <2>1 DEF Take
  <2>6. CASE t = u
    BY <2>3, <2>6 DEF UnderWay
  <2>7. CASE t # u
    BY <2>2, <2>4, <2>5, <2>7 DEF UnderWay
  <2> QED
    BY <2>6, <2>7
<1> QED
  BY <1>2, <1>3, <1>4, <1>5

\* A delivery that ends leaves its job led to, or gives up, or finds it on its page.
LEMMA EndLeads ==
  ASSUME DiscoveryTypeOK, NEW h \in Handlers, NEW j \in Jobs,
         NEW t \in Leading[j], UnderWay(t),
         \/ TurnAway(h) \/ Succeed(h) \/ FailPartway(h) \/ DeliveryFails(h)
         \/ RateLimited(h) \/ Deny(h)
  PROVE  Led(j)
<1>1. t \in Tasks /\ (j \in On(t) \/ FollowUps(t) \cap Leading[j] # {})
  BY LeadingStep
<1>2. PICK pages : /\ UNCHANGED queue \/ Queue(pages) \/ RetryAfter(h, pages)
                   /\ EndDelivery(h)
  BY DEF TurnAway, Succeed, FailPartway, DeliveryFails, RateLimited, Deny, Refused,
         RetryAfter
<1>3. UnderWay(t)' \/ (handler[h].pc # "idle" /\ handler[h].task = t)
  BY <1>1, <1>2, OthersStay
<1>4. CASE UnderWay(t)'
  BY <1>4 DEF Led
<1>5. CASE handler[h].task = t
  <2>1. CASE GivenUp(h)
    BY <1>5, <2>1 DEF Led
  <2>2. CASE (FailPartway(h) \/ DeliveryFails(h)) /\ handler[h].left # 0
    <3>1. \E found : RetryAfter(h, found)
      BY <2>2 DEF FailPartway, DeliveryFails
    <3>2. queue'[t] > 0
      BY <1>1, <1>5, <2>2, <3>1, FailedReturns
    <3> QED
      BY <3>2 DEF Led, UnderWay
  <2>3. CASE Succeed(h)
    <3> DEFINE found == FirstPages(Wanted(Items(t))) \cup NextPage(t)
    <3>1. /\ queue' = Fresh(found) /\ UNCHANGED github
          /\ known' = known \cup (Wanted(Items(t)) \cap Jobs)
      BY <1>5, <2>3 DEF Succeed, Queue
    <3>2. CASE j \in On(t)
      <4>1. j \in ToSet(Items(t))
        BY <1>1, <3>2, PageContents
      <4>2. github[j] \in {"queued", "completed"}
        BY DEF DiscoveryTypeOK
      <4>3. github[j] = "queued" => j \in known'
        BY <3>1, <4>1 DEF Wanted
      <4> QED
        BY <3>1, <4>2, <4>3 DEF Led
    <3>3. CASE FollowUps(t) \cap Leading[j] # {}
      <4>1. PICK u \in FollowUps(t) : u \in Leading[j]
        BY <3>3
      <4>2. u \in Tasks \cap found
        BY <1>1, EndsQueueAll
      <4>3. CASE u \in named
        BY <1>5, <2>3, <4>1, <4>3 DEF Led
      <4>4. CASE u \notin named
        <5>1. queue'[u] > 0
          BY <3>1, <4>2, <4>4, QueueOnlyGrows
        <5> QED
          BY <4>1, <5>1 DEF Led, UnderWay
      <4> QED
        BY <4>3, <4>4
    <3> QED
      BY <1>1, <3>2, <3>3
  <2> QED
    BY <2>1, <2>2, <2>3 DEF GivenUp
<1> QED
  BY <1>3, <1>4, <1>5

\* Every step, whichever job it is about.
LEMMA StepLeads ==
  ASSUME DiscoveryTypeOK, Next, NEW j \in Jobs, NEW t \in Leading[j], UnderWay(t)
  PROVE  Led(j)
<1>1. t \in Tasks
  BY LeadingStep
<1>2. CASE \/ StartTraversal \/ TraversalFails \/ Tick
           \/ \E h \in Handlers : PassGate(h) \/ PassPath(h) \/ \E u \in Tasks : Take(h, u)
           \/ \E i \in Jobs : GitHubFinishes(i)
  BY <1>1, <1>2, StaysUnderWay DEF Led
<1>3. CASE \E h \in Handlers :
             \/ TurnAway(h) \/ Succeed(h) \/ FailPartway(h) \/ DeliveryFails(h)
             \/ RateLimited(h) \/ Deny(h)
  BY <1>3, EndLeads
<1> QED
  BY <1>2, <1>3 DEF Next, Proceed

\* A traversal leaves nothing out: as long as a job is neither on record nor over, a
\* task that leads to it is followed by another, unless it met a gate, a refusal or the
\* end of its deliveries, or what follows it had its task in this minute (discover,
\* discoverWithPAT, queue).
THEOREM NothingIsLeftOut == Spec => NothingLeftOut
<1> DEFINE Kept == \A j \in Jobs : (\E t \in Leading[j] : UnderWay(t)) => Led(j)
<1>1. GateInv /\ [Next]_vars => [Kept]_vars
  BY StepLeads DEF GateInv
<1> QED
  BY <1>1, GateInvariant, PTL DEF Spec, NothingLeftOut, Led
=============================================================================
