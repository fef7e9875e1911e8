---------------------------- MODULE Maintenance -----------------------------
(***************************************************************************)
(* The walks of the periodic requests: sweepOrphans over the zones and     *)
(* reconcileRunners over the detached ledger rows (/sweep), and the pages  *)
(* of due job records (/reconcile).  Each ends early at a limit or an      *)
(* error, and starts over when Cloud Scheduler calls again; what matters   *)
(* is that nothing is left behind for good by what stands before it.       *)
(* What one step does with a runner or a job is Lifecycle's and Dispatch's *)
(* subject.                                                                *)
(***************************************************************************)
EXTENDS Integers, FiniteSets, SequencesExt

CONSTANTS
  VMs, NoVM,           \* VMs of detached runners
  Zones, ZoneOf,       \* the zones, in their order, and the zone of each VM
  Undeletable,         \* VMs that Compute never deletes
  Unknown,             \* runners whose source is no longer configured
  Jobs,
  Refused,             \* jobs whose task Cloud Tasks never accepts
  Skipped,             \* jobs that hold a lease, or of a source not configured
  MaxSweepDeletes, RunnerPageSize, MaxRunnerPages, JobPageSize,
  Soon, Long,          \* one or two minutes; 10 minutes or a dispatch window
  MaxFaults            \* bound: crashes and failed calls in a run

ASSUME MaintenanceAssumption ==
  /\ IsFiniteSet(VMs) /\ IsFiniteSet(Jobs) /\ NoVM \notin VMs
  /\ Zones \in Seq(ToSet(Zones)) /\ ZoneOf \in [VMs -> ToSet(Zones)]
  /\ Undeletable \subseteq VMs /\ Unknown \subseteq VMs
  /\ Refused \subseteq Jobs /\ Skipped \subseteq Jobs
  /\ {MaxSweepDeletes, RunnerPageSize, MaxRunnerPages, JobPageSize, Soon, Long}
       \subseteq Nat \ {0}
  /\ Soon <= Long /\ MaxFaults \in Nat

VARIABLES
  vm,      \* Compute: VM -> status
  rows,    \* the due query over detached ledger rows
  jobs,    \* the due query over job records
  sweep,   \* the sweep under way
  walk,    \* the reconciliation of jobs under way
  faults   \* failures so far

vars == <<vm, rows, jobs, sweep, walk, faults>>

(***************************************************************************)
(* A due query is a sequence of records in the order of NextActionAt; a    *)
(* record is its key and the time left until it is due.                    *)
(***************************************************************************)
Keys(query) == {e.key : e \in ToSet(query)}
Place(query, k) == CHOOSE i \in DOMAIN query : query[i].key = k
Due(query) == {e.key : e \in {f \in ToSet(query) : f.due = 0}}

\* The first n of the due records with these keys, in order: there is one such page.
Pages(query, keys, n) ==
  LET due == Due(query) \cap keys
      upto(k) == {l \in due : Place(query, l) <= Place(query, k)}
  IN {page \in SetToSeqs({k \in due : Cardinality(upto(k)) <= n}) :
        \A i, j \in DOMAIN page : i < j => Place(query, page[i]) < Place(query, page[j])}

Without(query, k) ==
  IF k \in Keys(query) THEN RemoveAt(query, Place(query, k)) ELSE query

PutOff(query, k, d) ==
  LET rest == Without(query, k)
      earlier == Cardinality({i \in DOMAIN rest : rest[i].due <= d})
  IN IF k \in Keys(query) THEN InsertAt(rest, earlier + 1, [key |-> k, due |-> d])
     ELSE query
Sooner(query) == [i \in DOMAIN query |->
                    [query[i] EXCEPT !.due = IF @ > 0 THEN @ - 1 ELSE 0]]
AllDue(s) == [i \in DOMAIN s |-> [key |-> s[i], due |-> 0]]

NoSweep == [pc |-> "idle", zone |-> 0, listed |-> {}, vm |-> NoVM, deleted |-> 0,
            failed |-> FALSE, due |-> {}, page |-> <<>>, full |-> FALSE, pages |-> 0]
NoWalk == [pc |-> "idle", before |-> {}, page |-> <<>>, full |-> FALSE,
           passed |-> {}]

\* The two requests share no record: a behaviour has work for one of them.
Init ==
  /\ \/ /\ vm = [v \in VMs |-> "up"]
        /\ rows \in {AllDue(s) : s \in SetToSeqs(VMs)}
        /\ jobs = <<>>
     \/ /\ vm = [v \in VMs |-> "gone"]
        /\ rows = <<>>
        /\ jobs \in {AllDue(s) : s \in SetToSeqs(Jobs)}
  /\ sweep = NoSweep
  /\ walk = NoWalk
  /\ faults = 0

Fault == faults < MaxFaults /\ faults' = faults + 1

-----------------------------------------------------------------------------
(***************************************************************************)
(* sweepOrphans: the zones in their fixed order, until enough VMs are      *)
(* deleted.  A zone or a VM that fails does not keep it from the next, but *)
(* only a sweep without failures goes on to the rows.                      *)
(***************************************************************************)
StartSweep ==
  /\ sweep.pc = "idle"
  /\ rows # <<>> \/ \E v \in VMs : vm[v] = "stopped"
  /\ sweep' = [NoSweep EXCEPT !.pc = "list", !.zone = 1]
  /\ UNCHANGED <<vm, rows, faults>>

Failed(s) == [s EXCEPT !.failed = TRUE]
EndZones(s) == IF s.failed THEN NoSweep
               ELSE [NoSweep EXCEPT !.pc = "page", !.due = Due(rows)]

\* Mutant: the last zone is not taken for the last.
EndZonePast(s) == IF s.zone <= Len(Zones) THEN [s EXCEPT !.pc = "list", !.zone = @ + 1]
                  ELSE EndZones(s)

EndZone(s) == IF s.zone < Len(Zones) THEN [s EXCEPT !.pc = "list", !.zone = @ + 1]
              ELSE EndZones(s)

ListZone ==
  /\ sweep.pc = "list"
  /\ sweep' = [sweep EXCEPT !.pc = "reclaim", !.listed =
                 {v \in VMs : ZoneOf[v] = Zones[sweep.zone] /\ vm[v] = "stopped"}]
  /\ UNCHANGED <<vm, rows, faults>>

ListingFails ==
  /\ sweep.pc = "list"
  /\ sweep' = EndZone(Failed(sweep))
  /\ Fault
  /\ UNCHANGED <<vm, rows>>

\* Mutant: a deletion that failed counts as well.
NotDeletedCounted(s) == [s EXCEPT !.failed = TRUE, !.deleted = @ + 1]

NotDeleted(s) == Failed(s)

\* Mutant: the error of the deletion is not looked at.
ReclaimBlind ==
  /\ sweep.pc = "reclaim" /\ sweep.deleted < MaxSweepDeletes
  /\ \E v \in sweep.listed :
       /\ vm' = IF v \in Undeletable THEN vm ELSE [vm EXCEPT ![v] = "gone"]
       /\ sweep' = [sweep EXCEPT !.pc = "release", !.listed = @ \ {v}, !.vm = v,
                                 !.deleted = @ + 1]
  /\ UNCHANGED <<rows, faults>>

Reclaim ==
  /\ sweep.pc = "reclaim" /\ sweep.deleted < MaxSweepDeletes
  /\ \E v \in sweep.listed :
       LET rest == [sweep EXCEPT !.listed = @ \ {v}] IN
       IF v \in Undeletable THEN sweep' = NotDeleted(rest) /\ UNCHANGED vm
       ELSE /\ vm' = [vm EXCEPT ![v] = "gone"]
            /\ sweep' = [rest EXCEPT !.pc = "release", !.vm = v, !.deleted = @ + 1]
  /\ UNCHANGED <<rows, faults>>

ReclaimFails ==
  /\ sweep.pc = "reclaim" /\ sweep.deleted < MaxSweepDeletes
  /\ \E v \in sweep.listed : sweep' = NotDeleted([sweep EXCEPT !.listed = @ \ {v}])
  /\ Fault
  /\ UNCHANGED <<vm, rows>>

LeaveZone ==
  /\ sweep.pc = "reclaim"
  /\ \/ /\ sweep.deleted >= MaxSweepDeletes
        /\ sweep' = EndZones(sweep)
     \/ /\ sweep.deleted < MaxSweepDeletes /\ sweep.listed = {}
        /\ sweep' = EndZone(sweep)
  /\ UNCHANGED <<vm, rows, faults>>

ReleaseReclaimed ==
  LET back == [sweep EXCEPT !.pc = "reclaim", !.vm = NoVM] IN
  /\ sweep.pc = "release"
  /\ \/ rows' = Without(rows, sweep.vm) /\ sweep' = back /\ UNCHANGED faults
     \/ sweep' = Failed(back) /\ Fault /\ UNCHANGED rows
  /\ UNCHANGED vm

(***************************************************************************)
(* reconcileRunners: pages of the rows that were due at its start.  Every  *)
(* row it deals with is released or due later than that; the first failure *)
(* ends it.                                                                *)
(***************************************************************************)
ReadRows ==
  /\ sweep.pc = "page"
  /\ \/ sweep.pages = MaxRunnerPages /\ sweep' = NoSweep
     \/ /\ sweep.pages < MaxRunnerPages
        /\ \E page \in Pages(rows, sweep.due, RunnerPageSize) :
             sweep' = [sweep EXCEPT !.pc = "row", !.pages = @ + 1, !.page = page,
                                    !.full = Len(page) = RunnerPageSize]
  /\ UNCHANGED <<vm, rows, faults>>

\* What can become of a row, unless a call fails: the VM is gone by then and the row
\* released, it is put off, or Compute keeps the VM that was to be deleted.
Removal(v) == IF v \in Undeletable THEN "fail" ELSE "release"
RunningRow(v) == {"soon", "long", Removal(v)}

\* Mutant: a source that is not configured fails the sweep.
RowOutcomesKnown(v) ==
  CASE vm[v] = "gone" -> {"release"}
    [] vm[v] = "stopped" -> {Removal(v)}
    [] vm[v] = "up" -> IF v \in Unknown THEN {"fail"} ELSE RunningRow(v)

RowOutcomes(v) ==
  CASE vm[v] = "gone" -> {"release"}
    [] vm[v] = "stopped" -> {Removal(v)}
    [] vm[v] = "up" -> IF v \in Unknown THEN {"long"} ELSE RunningRow(v)

DoRow ==
  LET v == Head(sweep.page)
      rest == [sweep EXCEPT !.page = Tail(@), !.due = @ \ {v}] IN
  /\ sweep.pc = "row" /\ sweep.page # <<>>
  /\ \E o \in RowOutcomes(v) :
       \/ /\ o = "fail" /\ sweep' = NoSweep
          /\ UNCHANGED <<vm, rows>>
       \/ /\ o = "release" /\ sweep' = rest
          /\ vm' = [vm EXCEPT ![v] = "gone"]
          /\ rows' = Without(rows, v)
       \/ /\ o \in {"soon", "long"} /\ sweep' = rest
          /\ rows' = PutOff(rows, v, IF o = "soon" THEN Soon ELSE Long)
          /\ UNCHANGED vm
  /\ UNCHANGED faults

EndPage ==
  /\ sweep.pc = "row" /\ sweep.page = <<>>
  /\ sweep' = IF sweep.full THEN [sweep EXCEPT !.pc = "page"] ELSE NoSweep
  /\ UNCHANGED <<vm, rows, faults>>

\* The store or GitHub fails, the deadline is met or the process ends.
SweepDies ==
  /\ sweep.pc # "idle"
  /\ sweep' = NoSweep
  /\ Fault
  /\ UNCHANGED <<vm, rows>>

SweepStep == \/ StartSweep \/ ListZone \/ Reclaim \/ LeaveZone
             \/ ReleaseReclaimed \/ ReadRows \/ DoRow \/ EndPage
SweepFault == ListingFails \/ ReclaimFails \/ SweepDies
Sweep == (SweepStep \/ SweepFault) /\ UNCHANGED <<jobs, walk>>

-----------------------------------------------------------------------------
(***************************************************************************)
(* reconcile: the due job records, a page at a time.  A full page queues   *)
(* the next one, which starts behind its last record.  A skipped job stays *)
(* where it is; a task moves its job's due time past the dispatch window;  *)
(* one that Cloud Tasks refuses, the undo of enqueueJob puts off.          *)
(***************************************************************************)
StartWalk ==
  /\ walk.pc = "idle" /\ Due(jobs) # {}
  /\ walk' = [NoWalk EXCEPT !.pc = "read"]
  /\ UNCHANGED <<jobs, faults>>

\* Mutant: a full page is taken for the last.
PageFullNever(page) == Len(page) > JobPageSize

PageFull(page) == Len(page) = JobPageSize

ReadJobs ==
  /\ walk.pc = "read"
  /\ \E page \in Pages(jobs, Jobs \ walk.before, JobPageSize) :
       walk' = [walk EXCEPT !.pc = "job", !.page = page, !.full = PageFull(page),
                            !.passed = {}]
  /\ UNCHANGED <<jobs, faults>>

\* Cloud Tasks and Cloud Scheduler retry a page, the last of them in vain.
Retried == {NoWalk, [NoWalk EXCEPT !.pc = "read", !.before = walk.before]}

\* Mutant: the undo gives the job its former due time back.
UndoInPlace(k) == jobs

\* Mutant: the undo clears the due time.
UndoCleared(k) == Without(jobs, k)

Undo(k) == PutOff(jobs, k, Soon)

DoJob ==
  LET k == Head(walk.page)
      rest == [walk EXCEPT !.page = Tail(@)] IN
  /\ walk.pc = "job" /\ walk.page # <<>>
  /\ \/ /\ k \in Skipped
        /\ walk' = [rest EXCEPT !.passed = @ \cup {k}]
        /\ UNCHANGED jobs
     \/ /\ k \in Refused \ Skipped
        /\ walk' \in Retried
        /\ jobs' = Undo(k)
     \/ /\ k \notin Refused \cup Skipped
        /\ walk' = rest
        /\ jobs' = PutOff(jobs, k, Long)
  /\ UNCHANGED faults

\* One call to Cloud Tasks fails, and perhaps the undo as well.
EnqueueFails ==
  /\ walk.pc = "job" /\ walk.page # <<>>
  /\ Head(walk.page) \notin Skipped
  /\ walk' \in Retried
  /\ jobs' \in {Undo(Head(walk.page)), PutOff(jobs, Head(walk.page), Long)}
  /\ Fault

EndJobs ==
  /\ walk.pc = "job" /\ walk.page = <<>>
  /\ walk' = IF walk.full
             THEN [NoWalk EXCEPT !.pc = "read", !.before = walk.before \cup walk.passed]
             ELSE NoWalk
  /\ UNCHANGED <<jobs, faults>>

\* The store fails, the next page cannot be queued or the process ends.
WalkDies ==
  /\ walk.pc # "idle"
  /\ walk' \in Retried
  /\ Fault
  /\ UNCHANGED jobs

WalkStep == StartWalk \/ ReadJobs \/ DoJob \/ EndJobs
Walk == (WalkStep \/ EnqueueFails \/ WalkDies) /\ UNCHANGED <<vm, rows, sweep>>

-----------------------------------------------------------------------------
\* A VM shuts itself down, is preempted, or is deleted by its maximal run time.
VMEnds ==
  /\ \E v \in VMs :
       \/ vm[v] = "up" /\ vm' = [vm EXCEPT ![v] = "stopped"]
       \/ vm[v] # "gone" /\ vm' = [vm EXCEPT ![v] = "gone"]
  /\ UNCHANGED <<rows, jobs, sweep, walk, faults>>

Tick ==
  /\ rows' = Sooner(rows) /\ jobs' = Sooner(jobs)
  /\ UNCHANGED <<vm, sweep, walk, faults>>

Next == Sweep \/ Walk \/ VMEnds \/ Tick

Spec ==
  /\ Init /\ [][Next]_vars
  /\ WF_vars(SweepStep /\ UNCHANGED <<jobs, walk>>)
  /\ WF_vars(WalkStep /\ UNCHANGED <<vm, rows, sweep>>)
  /\ WF_vars(Tick)

-----------------------------------------------------------------------------
\* Every variable keeps its type: no key is twice in a query, a query stays in the
\* order of its due times, a page holds keys that are in it, and a later page of jobs
\* starts behind skipped ones only.
MaintenanceTypeOK ==
  /\ vm \in [VMs -> {"up", "stopped", "gone"}]
  /\ \A q \in {rows, jobs} :
       /\ Len(q) = Cardinality(Keys(q))
       /\ \A i, j \in DOMAIN q : i < j => q[i].due <= q[j].due
       /\ \A i \in DOMAIN q : q[i].due \in 0 .. Long
  /\ sweep.pc \in {"idle", "list", "reclaim", "release", "page", "row"}
  /\ sweep.zone \in 0 .. Len(Zones) /\ sweep.listed \subseteq VMs
  /\ sweep.vm \in VMs \cup {NoVM} /\ sweep.deleted \in 0 .. MaxSweepDeletes
  /\ sweep.pages \in 0 .. MaxRunnerPages
  /\ ToSet(sweep.page) \subseteq Keys(rows)
  /\ walk.pc \in {"idle", "read", "job"}
  /\ walk.before \cup walk.passed \subseteq Skipped
  /\ ToSet(walk.page) \subseteq Keys(jobs)
  /\ faults \in 0 .. MaxFaults

\* What a walk cannot deal with stays for the next one: no ledger row goes before its
\* VM has, whatever call fails and wherever the sweep ends, and no job leaves the due
\* query by being put off (sweepOrphans, reconcileRunnerRows, enqueueJob).
NothingDropped ==
  [][/\ \A v \in Keys(rows) \ Keys(rows') : vm'[v] = "gone"
     /\ Keys(jobs') = Keys(jobs)]_vars

\* A page that is not full leaves nothing behind it: every row that was due when the
\* sweep started and has not been dealt with is on it, and every due job but those the
\* walk skips, wherever a page starts and whatever moved in between (reconcileRunners,
\* reconcile).
NothingPassed ==
  [][/\ sweep.pc = "page" /\ sweep'.pc = "row" =>
          sweep'.full \/ sweep.due \cap Keys(rows) \subseteq ToSet(sweep'.page)
     /\ walk.pc = "read" /\ walk'.pc = "job" =>
          walk'.full \/ Due(jobs) \subseteq Skipped \cup ToSet(walk'.page)]_vars

\* Every stopped VM that Compute lets go of is reclaimed, whatever VMs and zones
\* stand before it in the sweep: the limit counts only deletions that succeed, and a
\* failure does not end the zones (sweepOrphans).
StoppedReclaimed ==
  \A v \in VMs \ Undeletable : vm[v] = "stopped" ~> vm[v] = "gone"

\* The ledger row of a VM that is gone is released, unless Compute keeps another VM
\* that was to be deleted: no row in front of it, of an unknown source or put off
\* again and again, keeps the sweep from it (reconcileRunners).
RowsReleased ==
  LET Deletable == \A u \in Undeletable : vm[u] = "gone" IN
  \A v \in VMs : (Deletable /\ vm[v] = "gone") ~> (v \notin Keys(rows))

\* Every due job is dealt with, skipped ones apart: neither jobs that stay in front
\* of the query nor a task that Cloud Tasks refuses keep the pages from it (reconcile).
JobsWalked ==
  \A k \in Jobs \ Skipped : k \in Due(jobs) ~> k \notin Due(jobs)
=============================================================================
