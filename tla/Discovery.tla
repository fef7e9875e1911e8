----------------------------- MODULE Discovery ------------------------------
(***************************************************************************)
(* Discovery of queued jobs whose webhook never arrived (discovery.go),    *)
(* and the not-before gates every GitHub request passes                    *)
(* (github_backoff.go, Backoff in capacity_store.go).                      *)
(*                                                                         *)
(* A traversal has no state of its own: each page of a listing is a task   *)
(* of the maintenance queue, which queues tasks for what it finds and for  *)
(* the page after it.  A page that meets a closed gate is acknowledged and *)
(* dropped; the next scheduled traversal starts over.                      *)
(*                                                                         *)
(* Timers count minutes, Tick passes one.                                  *)
(***************************************************************************)
EXTENDS Integers, SequencesExt

CONSTANTS
  Sources,         \* the listings the scheduled request starts with
  Listings,        \* resource paths: repositories, their runs, the jobs of a run
  Jobs,            \* jobs with a label group of this fleet
  Listing,         \* what GitHub lists at each path, items to skip included
  PageSize,        \* per_page
  Denied,          \* listings the PAT is refused for good
  Handlers,        \* max_concurrent_dispatches of the maintenance queue
  Deliveries,      \* max_attempts of the maintenance queue
  Minute, Long,    \* the least rate-limit wait, and 15 minutes
  MaxFaults        \* bound: rate limits and failures in a run

ASSUME DiscoveryAssumption ==
  /\ Sources \subseteq Listings /\ Denied \subseteq Listings
  /\ Listings \cap Jobs = {} /\ "github" \notin Listings
  /\ {PageSize, Deliveries, Minute} \subseteq Nat \ {0}
  /\ Long \in Nat /\ MaxFaults \in Nat /\ Minute <= Long
  /\ \A l \in Listings : Listing[l] \in Seq(ToSet(Listing[l]))

VARIABLES
  queue,    \* maintenance queue: page -> deliveries left to its freshest task
  named,    \* pages a task of the present minute was created for
  handler,  \* the delivery each slot is handling
  until,    \* collection backoff: gate -> time until its not-before
  told,     \* the latest not-before GitHub's answers meant for a gate
  faults,   \* rate limits and failures so far
  github,   \* GitHub: job -> status, "queued" standing for in_progress too
  known     \* jobs with a record; Dispatch says what happens to one from there on

vars == <<queue, named, handler, until, told, faults, github, known>>

Later(a, b) == IF a > b THEN a ELSE b
Before(n) == Later(n - 1, 0)

\* The pages of a listing, the first that is not full being the last.
Pages(l) == {n \in 1 .. Len(Listing[l]) + 1 : (n - 1) * PageSize <= Len(Listing[l])}
Page(l, n) == [of |-> l, page |-> n]
Tasks == UNION {{Page(l, n) : n \in Pages(l)} : l \in Listings}
FirstPages(items) == {Page(l, 1) : l \in items \cap Listings}

\* The PAT-wide gate, and one gate for each resource path: all pages share it.
Gates == Listings \cup {"github"}

NoTask == Page("none", 0)
Nobody == [task |-> NoTask, pc |-> "idle", left |-> 0]

Init ==
  /\ queue = [t \in Tasks |-> 0]
  /\ named = {}
  /\ handler = [h \in Handlers |-> Nobody]
  /\ until = [k \in Gates |-> 0]
  /\ told = until
  /\ faults = 0
  /\ github = [j \in Jobs |-> "queued"]
  /\ known = {}

-----------------------------------------------------------------------------
(***************************************************************************)
(* The maintenance queue.  A task is named after its page and the minute   *)
(* it is created in: a page is not queued twice in a minute, be its first  *)
(* task queued still, done or lost.                                        *)
(***************************************************************************)
Fresh(pages) == [t \in Tasks |-> IF t \in pages \ named THEN Deliveries ELSE queue[t]]

Named(pages) == named' = named \cup (pages \cap Tasks)
Queue(pages) == queue' = Fresh(pages) /\ Named(pages)

EndDelivery(h) == handler' = [handler EXCEPT ![h] = Nobody]

\* 503: the task comes again unless this was its last delivery.
RetryAfter(h, pages) ==
  /\ queue' = [Fresh(pages) EXCEPT ![handler[h].task] = Later(@, handler[h].left)]
  /\ Named(pages)
  /\ EndDelivery(h)

Fault == faults < MaxFaults /\ faults' = faults + 1

\* Slots have no identity: a delivery is given the first one that is free.
Free(h) == handler[h].pc = "idle"

Take(h, t) ==
  /\ Free(h) /\ h = (CHOOSE s \in Handlers : Free(s)) /\ queue[t] > 0
  /\ queue' = [queue EXCEPT ![t] = 0]
  /\ handler' = [handler EXCEPT ![h] = [task |-> t, pc |-> "gate", left |-> queue[t] - 1]]
  /\ UNCHANGED <<named, until, told, faults, github, known>>

-----------------------------------------------------------------------------
(***************************************************************************)
(* discover: the gates, then one page.                                     *)
(***************************************************************************)
\* discover and githubGet read the PAT-wide gate, then githubGet reads the path's.
PassGate(h) ==
  /\ handler[h].pc = "gate" /\ until["github"] = 0
  /\ handler' = [handler EXCEPT ![h].pc = "path"]
  /\ UNCHANGED <<queue, named, until, told, faults, github, known>>

PassPath(h) ==
  /\ handler[h].pc = "path" /\ until[handler[h].task.of] = 0
  /\ handler' = [handler EXCEPT ![h].pc = "asked"]
  /\ UNCHANGED <<queue, named, until, told, faults, github, known>>

\* A closed gate: the task is acknowledged.
TurnAway(h) ==
  /\ \/ handler[h].pc = "gate" /\ until["github"] > 0
     \/ handler[h].pc = "path" /\ until[handler[h].task.of] > 0
  /\ EndDelivery(h)
  /\ UNCHANGED <<queue, named, until, told, faults, github, known>>

Items(t) == LET first == (t.page - 1) * PageSize + 1
                last == t.page * PageSize
                s == Listing[t.of]
            IN SubSeq(s, first, IF last < Len(s) THEN last ELSE Len(s))

\* Archived repositories and finished runs, which are not in Listings, finished jobs
\* and jobs of other labels are skipped.
Wanted(s) == {i \in ToSet(s) : \/ i \in Listings
                               \/ i \in Jobs /\ github[i] = "queued"}

\* Mutant: the next page is asked for only if nothing on this one was skipped.
NextPageOfWanted(t) ==
  IF Cardinality(Wanted(Items(t))) = PageSize THEN {Page(t.of, t.page + 1)} ELSE {}

NextPage(t) == IF Len(Items(t)) = PageSize THEN {Page(t.of, t.page + 1)} ELSE {}

\* The handler works through the items in order: each is queued as a page of its
\* own, or observed and enqueued.  A failure ends the page in between.
Succeed(h) ==
  LET t == handler[h].task IN
  /\ handler[h].pc = "asked" /\ t.of \notin Denied
  /\ Queue(FirstPages(Wanted(Items(t))) \cup NextPage(t))
  /\ known' = known \cup (Wanted(Items(t)) \cap Jobs)
  /\ EndDelivery(h)
  /\ UNCHANGED <<until, told, faults, github>>

FailPartway(h) ==
  LET t == handler[h].task IN
  /\ handler[h].pc = "asked" /\ t.of \notin Denied
  /\ \E n \in 0 .. Len(Items(t)) :
       LET done == Wanted(SubSeq(Items(t), 1, n)) IN
       /\ RetryAfter(h, FirstPages(done))
       /\ known' = known \cup (done \cap Jobs)
  /\ Fault
  /\ UNCHANGED <<until, told, github>>

\* The scheduled request queues the sources, in the random order of a Go map; it
\* asks GitHub nothing, but respects the gate.
StartTraversal ==
  /\ until["github"] = 0
  /\ Queue(FirstPages(Sources))
  /\ UNCHANGED <<handler, until, told, faults, github, known>>

TraversalFails ==
  /\ until["github"] = 0
  /\ \E done \in SUBSET Sources : Queue(FirstPages(done))
  /\ Fault
  /\ UNCHANGED <<handler, until, told, github, known>>

-----------------------------------------------------------------------------
(***************************************************************************)
(* githubFailure: a rate limit closes the gate of the whole PAT, a missing *)
(* permission only that of the path.  A gate never opens earlier than it   *)
(* was told to before.                                                     *)
(***************************************************************************)
\* Mutant: the waits of several answers add up.
BackoffAdds(k, wait) == until' = [until EXCEPT ![k] = @ + wait]

\* Mutant: the last answer decides.
BackoffLast(k, wait) == until' = [until EXCEPT ![k] = wait]

Backoff(k, wait) == until' = [until EXCEPT ![k] = Later(@, wait)]

\* Mutant: every refusal closes the gate of the whole PAT.
GateOfAny(h) == "github"

GateOfDenial(h) == handler[h].task.of

Refused(h, k, wait) ==
  /\ Backoff(k, wait)
  /\ told' = [told EXCEPT ![k] = Later(@, wait)]
  /\ EndDelivery(h)
  /\ UNCHANGED <<queue, named, github, known>>

\* Answers that come in once the gate is closed belong to the fault that closed it.
RateLimited(h) ==
  /\ handler[h].pc = "asked"
  /\ \E wait \in Minute .. Long : Refused(h, "github", wait)
  /\ IF until["github"] > 0 THEN UNCHANGED faults ELSE Fault

Deny(h) ==
  /\ handler[h].pc = "asked" /\ handler[h].task.of \in Denied
  /\ Refused(h, GateOfDenial(h), Long)
  /\ UNCHANGED faults

\* The instance dies, its deadline passes, or GitHub fails some other way.
DeliveryFails(h) ==
  /\ handler[h].pc # "idle"
  /\ RetryAfter(h, {})
  /\ Fault
  /\ UNCHANGED <<until, told, github, known>>

-----------------------------------------------------------------------------
\* The job, queued or running, ends without this fleet.
GitHubFinishes(j) ==
  /\ github[j] = "queued"
  /\ github' = [github EXCEPT ![j] = "completed"]
  /\ UNCHANGED <<queue, named, handler, until, told, faults, known>>

Tick ==
  /\ until' = [k \in Gates |-> Before(until[k])]
  /\ told' = [k \in Gates |-> Before(told[k])]
  /\ named' = {}
  /\ UNCHANGED <<queue, handler, faults, github, known>>

Proceed(h) == PassGate(h) \/ PassPath(h) \/ TurnAway(h) \/ Succeed(h) \/ Deny(h)

Next ==
  \/ StartTraversal \/ TraversalFails
  \/ \E h \in Handlers :
       \/ \E t \in Tasks : Take(h, t)
       \/ Proceed(h) \/ FailPartway(h) \/ RateLimited(h) \/ DeliveryFails(h)
  \/ \E j \in Jobs : GitHubFinishes(j)
  \/ Tick

Spec == Init /\ [][Next]_vars

(***************************************************************************)
(* Fairness.  Time passes, Cloud Scheduler calls every five minutes, a     *)
(* delivery ends, and a task that is queued again and again is delivered.  *)
(* Nothing is assumed of answers: a denial may repeat for ever.            *)
(***************************************************************************)
Fairness ==
  /\ WF_vars(Tick) /\ WF_vars(StartTraversal)
  /\ \A h \in Handlers : WF_vars(Proceed(h))
  /\ \A t \in Tasks : SF_vars(\E h \in Handlers : Take(h, t))

FairSpec == Spec /\ Fairness

-----------------------------------------------------------------------------
(***************************************************************************)
(* Properties.                                                             *)
(***************************************************************************)
Waits == 0 .. Long
DiscoveryTypeOK ==
  /\ queue \in [Tasks -> 0 .. Deliveries] /\ named \subseteq Tasks
  /\ handler \in [Handlers -> [task : Tasks \cup {NoTask}, pc : {"idle", "gate", "path", "asked"},
                                left : 0 .. Deliveries - 1]]
  /\ until \in [Gates -> Waits] /\ told \in [Gates -> Waits]
  /\ faults \in 0 .. MaxFaults
  /\ github \in [Jobs -> {"queued", "completed"}]
  /\ known \subseteq Jobs

\* No request passes a gate before the time that GitHub's answers so far have named
\* for it, whichever of several concurrent answers was recorded last (githubFailure,
\* Backoff; LIFECYCLE.md, "GitHub rate limits and permissions").
GateHonoured ==
  [][\A h \in Handlers :
       /\ handler[h].pc = "gate" /\ handler'[h].pc = "path" => told["github"] = 0
       /\ handler[h].pc = "path" /\ handler'[h].pc = "asked" =>
            told[handler[h].task.of] = 0]_vars

\* What a page holds, and the tasks that must follow it; Leading are the tasks from
\* which these lead to a job.
On(t) == {Listing[t.of][k] : k \in {i \in 1 .. Len(Listing[t.of]) :
            (t.page - 1) * PageSize < i /\ i <= t.page * PageSize}}
FollowUps(t) == FirstPages(On(t)) \cup ({Page(t.of, t.page + 1)} \cap Tasks)
Closed(S, j) == \A t \in Tasks : j \in On(t) \/ FollowUps(t) \cap S # {} => t \in S
Leading ==
  [j \in Jobs |-> {t \in Tasks : \A S \in SUBSET Tasks : Closed(S, j) => t \in S}]

UnderWay(t) ==
  queue[t] > 0 \/ \E h \in Handlers : handler[h].pc # "idle" /\ handler[h].task = t
GivenUp(h) ==
  \/ TurnAway(h) \/ RateLimited(h) \/ Deny(h)
  \/ handler[h].left = 0 /\ (FailPartway(h) \/ DeliveryFails(h))

\* A traversal leaves nothing out: while a task that leads to a job is queued or
\* handled, there is one after the step as well, unless the job is on record or over, or
\* the task met a gate, a refusal or the end of its deliveries, or what follows it had a
\* task in this minute before (discover, discoverPage, queue).
NothingLeftOut ==
  [][\A j \in Jobs : (\E t \in Leading[j] : UnderWay(t)) =>
       \/ j \in known' \/ github'[j] = "completed"
       \/ \E t \in Leading[j] : UnderWay(t)'
       \/ \E h \in Handlers :
            LET t == handler[h].task IN
            /\ t \in Leading[j]
            /\ \/ GivenUp(h)
               \/ Succeed(h) /\ FollowUps(t) \cap Leading[j] \cap named # {}]_vars

\* A job whose webhook was lost gets its record while GitHub still has it queued
\* or running, although pages are dropped at the gate, deliveries fail between two
\* items and a repository listed before it is denied for good.
MissedJobFound ==
  \A j \in Jobs : github[j] = "queued" ~> j \in known \/ github[j] = "completed"
=============================================================================
