# A verification project for the GCP GitHub runner autoscaler

The autoscaler turns GitHub workflow jobs into single-use runner VMs. All of its
state lives in Firestore; Cloud Run instances (up to three, scaled to zero) run
short callbacks that are prompted by webhooks, Cloud Tasks and Cloud Scheduler.
"Any of them can be lost, duplicated or reordered without losing a queued job or
leaking a VM" (`LIFECYCLE.md:3`). These modules model that claim: the store's
transactions, the callbacks that interleave over it, the timing that keeps two
workers apart, the plan of zones and machine types with the breaker it asks, and
the periodic requests that pick up what was lost. They are checked with TLC on
small instances; the safety of the store, of the callbacks, of the audit, of the
dispatch, of the backoff gates, of the zone breaker, of the creation plan and of the
periodic walks is proved with TLAPS for every instance.

Source paths below are relative to `src/runner-autoscaler/pkg/` unless they start
with `src/`.

## 1. Inventory

| Component | State | Operations | Code |
| --- | --- | --- | --- |
| Durable store | `jobs/<key>`, `runners/<generation>`, `control/fleet` | `Update`, `UpdateJob`, `Detach`, `Adopt`, `ReleaseRunner`, `DeferRunner`, `Page`, `RunnerPage` | `lifecycle_store.go`, `capacity_store.go` |
| Assignment evidence | `runners/<generation>/assignments/job` | `RecordAssignment`, `checkAssignment`, `capacityRegistration` | `assignment.go` |
| Create worker | the job record and its lease | `claim`, `processJob` | `lifecycle.go` |
| Creation plan | none (recomputed by each pass; the position is in the record) | `creationPlan`, `attemptsAfter` | `srv.go`, `zonehealth.go`, `lifecycle.go` |
| Outbox and dispatch | `NextActionAt`, `EnqueueToken`, `EnqueuedUntil`, `Lease`, `LeaseUntil` | `enqueueJob`, `activeTask`, `finishTask`, `reconcile`, `durableRecreate` | `work_scheduling.go`, `durable_http.go` |
| Delete worker | `PendingDelete` | `deleteRunner` | `durable_http.go` |
| Sweep, row reconciliation | ledger rows without an owner; a page of them while it runs | `sweepOrphans`, `reconcileRunners` | `srv.go`, `fleet_audit.go` |
| Zone health sensor | per process: the cached set of benched zones, when it was checked, a mutex | `benchedZonesCached`, `benchedZones`, `queryZoneReport` | `zonehealth.go` |
| Job reconciliation | a cursor inside its own tasks | `reconcile`, `Page`, `enqueueJob` | `durable_http.go`, `lifecycle_store.go`, `work_scheduling.go` |
| Audit | two ledger snapshots and an inventory while it runs | `auditFleet`, `ledgerDiscrepancy` | `fleet_audit.go` |
| Discovery | a page cursor inside its own tasks | `discover`, `observeDiscoveredJobs` | `discovery.go` |
| GitHub backoff | `backoff/<key>` | `Backoff`, `githubFailure` | `github_backoff.go`, `capacity_store.go` |
| HTTP intake | none | signatures, labels, body bounds | `srv.go`, `durable_http.go`, `main.go` |
| Earlier handlers | none; need `STATE_DATABASE` unset, which `main.go:78` refuses | `handleWebhook`, `handleCreateVm`, ... | `srv.go:1323-1783` |

Interactions. A webhook (or discovery) *observes* a job: one transaction on the
job record, then one on the assignment of the runner it names. It then *enqueues*
the record: a marker in the record, then a Cloud Task. The task runs the create or
the delete worker. The create worker leases the record, asks GitHub for the job's
status, adopts a spare runner or looks at the VM it has, or reserves a generation
(a VM name with a fresh random suffix), registers it with GitHub and inserts the
VM in one zone after another. Jobs do not own the VMs created for them: GitHub
hands any queued job to any online runner with its labels, so generations are
detached, adopted by other jobs, and deleted by the completion of whichever job
ran there. The delete worker, the sweep and row reconciliation work without the
lease, next to the create worker.

Cloud Scheduler calls `/reconcile` and `/sweep` every two minutes, `/discover`
every five and the audit every hour. Reconciliation pages through the due job
records and enqueues them again; the sweep walks zones, then pages of detached
ledger rows; discovery spreads over repositories, runs and pages as tasks of the
maintenance queue. Every one of them may end in the middle, and relies on the next
call. All GitHub requests pass durable not-before gates that any callback may
extend; a create also asks the zone breaker of its process, which other creates
of that process share.

What is hard about it: every callback reads, calls Compute or GitHub for seconds
to minutes, and writes in a later transaction; the outcome of an insert may stay
unknown; four callbacks may end the same reservation; events arrive late or
twice; and each claim of the lease, the outbox marker and the retry chain is about
how long something may take. `PROJECT.json` lists these hazards at the lines where
they bite.

What makes each component correct:

- Store: ledger, records and counters agree; admission stays within its limits;
  completion is never forgotten.
- Assignment evidence: recorded evidence outranks the registration endpoint, and
  only the completion of its job retires it.
- Create worker: no VM outside the ledger and one VM per generation, as far as
  Compute's answers allow (section 5); one worker per record, no job given up that
  GitHub still wants to run.
- Delete worker, sweep, row reconciliation: never decide to delete a VM once its
  live job is on record; end a reservation once.
- Creation plan: SPOT before on-demand, healthy zones before benched ones, nothing
  tried twice or skipped, as long as the plan stays the same.
- Dispatch: one retry chain and one worker at a time, and always another one as
  long as something is outstanding.
- Zone health: a zone is benched on the evidence of several VMs of this fleet, by an
  answer that is shared, recent, and asked for at most once per TTL.
- Page walks (sweep, rows, due jobs): nothing is left behind for good by what stands
  before it, whether it fails every time, is skipped or is put off.
- Audit: no false alarm, although callbacks go on while Compute is listed.
- Discovery and backoff: a missed job is found in the end; no request passes a gate
  before the time GitHub named.

## 2. Modules

| Module | Models |
| --- | --- |
| `Reservations` | what admission promises: bounded, single-use reservations (abstract) |
| `FleetStore` | the Firestore documents and every transaction on them |
| `FleetStoreProofs` | the theorems about `FleetStore` |
| `Lifecycle` | the callbacks over `FleetStore`, with Compute and GitHub as environment |
| `LifecycleInvariant` | what holds between any two steps of the callbacks (the inductive invariant) |
| `LifecycleProofs` | the theorems about `Lifecycle` |
| `Audit` | the invariant audit over `Lifecycle` |
| `AuditProofs` | the theorems about `Audit` |
| `ZoneHealth` | the zone breaker of one process: thresholds, and the cache under its mutex |
| `CreationPlan` | the plan of creation attempts and the passes that walk it, over `ZoneHealth` |
| `ZoneHealthProofs` | the theorems about `ZoneHealth` as `CreationPlan` drives it |
| `CreationPlanProofs` | the theorems about the plan and the passes that walk it |
| `Dispatch` | outbox marker, task retry chain, lease and reconciler of one record, with time |
| `DispatchProofs` | the theorems about `Dispatch` |
| `Maintenance` | the walks of the sweep over zones and rows, and of the reconciliation over due jobs |
| `MaintenanceProofs` | the theorems about `Maintenance` |
| `Discovery` | the discovery traversal as tasks, and the GitHub backoff gates |
| `DiscoveryProofs` | the theorems about `Discovery`: types, gates, the traversal |
| `MC*` | constants and symmetry sets for TLC |

Operators named `...Late`, `...Blind`, `...Short` and so on, each marked `Mutant:`,
are not part of any specification: they are plausible bugs, and replacing the
operator they imitate must make TLC report the property that guards it.

### FleetStore

One operator per transaction, so one atomic step; a Firestore transaction that is
retried after a conflict has the effect of its last run. `jobs[j]` is the
`lifecycleRecord`, `runners[g]` the `runnerRecord` with the part of its copy of
the job record that is read later, `assignments[g]` the observation document,
`fleet` the counters, `names` the names ever drawn (`nonce()` is assumed never to
repeat one). `WriteJob` and `WriteCapacity` are the two ways `update` commits,
including the ledger row it rewrites or deletes. Data that no property tells apart
is abstracted: an attempt is its index in the plan, with 0 for `Zone = ""`;
timestamps that are only tested with `IsZero` are Booleans; labels and repository
are a pool.

`StoreNext` lets any caller run any transaction in any order with any arguments the
callers could pass. It keeps only two obligations of the callers, that `Reserve` is
called for a record without a VM and that events name generations that were once
reserved. `Lifecycle` discharges them: its property `ImplementsStore` says that
every step of every callback is a step of `StoreSpec`.

Not in the model: `RememberRunnerID`, the schema version, TTL deletion (no caller
writes to a record that has been deleted: `activeTask` and `finishTask` reject a
record without their token, and a recreate capability expires long before the
seven days are over), the takeover of a record by another source. `Revision` is in
`Audit`, `Backoff` in `Discovery`, the order of the due queries in `Maintenance`.
`Adopt` inspects at most 8 candidates in the code; the instances have fewer.

### Lifecycle

`wk[w]` is a request a Cloud Run slot is handling, with a program counter that
stops before the calls to Firestore, Compute or GitHub and the local copy of the
record `processJob` keeps; a local variable that the rest of the pass does not read
is reset (`Only`). Calls that belong together are one step in these places only:

- `checkAssignment` reads the assignment, asks GitHub for its job and retires it
  (`CheckAssignment`). The job an assignment names never changes, `completed` is
  final at GitHub and on record, and the write is idempotent, so what others do in
  between changes nothing;
- the PAT, the runner's row with its ID and GitHub's answer (`runnerStateWithPAT`): the
  first two only say where to ask. The assignment read that precedes them is a step
  of its own (`LookAtAssignment`, `RowAssignment`), so an assignment recorded before
  GitHub answers (`LookAtRegistration`, `RowRegistration`) is not seen;
- the lookups of one VM zone by zone (`instanceState`, `DeleteInstance`): a generation
  is in one zone at most unless it is astray (below), and then any may come first;
- the calls of `GenerateRunnerJitConfig`, which deletes the registration a lost call has
  left and registers again: no runner can be online with it before its credential is
  stored.

`ProcessJob` is `processJob` with `finishTask`'s treatment of a
permanent error, `Webhook`/`ObserveAssignment` are `observe`, `StartDelete`...
`DeleteFinish` are `deleteRunner`, `StartSweep` and `StartReconcile`... `RowDefer`
are the maintenance run. `Fail` is any call that returns an error (the deferred
lease release still runs), `Crash` an instance that dies. `LeaseRunsOut` lets a
lease expire once its holder is gone; that it does not expire earlier is
`LeaseOutlastsWorker` of `Dispatch`. Task tokens and due times belong to
`Dispatch`; here a task may be delivered at any time, as often as it likes, and
`FinishPermanent` may find its token obsolete.

Compute: `inst[g][a]` is the insert of generation `g` with attempt `a`: `pending`
until it settles as `up` or `failed`, later `stopped` or `gone`. A repeated insert
attaches to the operation of the same request ID, or starts again after a failure.
It may also be refused for good, as a bad request or by a rate limit, while the operation
of the first is pending (`"refuse"` in `Faults`), and Firestore may refuse the write
of the operation's name with an error that reads like a stockout (`"exhaust"`). With no
operation on record the code cannot tell this from a refusal of something new, and clears
the attempt (`lifecycle.go:466-484`). `astray` is a history variable: the
generations an accepted attempt of which was cleared in this way. Nothing reads it but
the properties that must make an exception of them.
GitHub: `run[g]` is the registration, `ghJob` and `ranOn` what became of each job.
The registration endpoint may show a busy runner as idle; events arrive at any
time after the fact, any number of times; `waiting` and `pending` are treated as
`in_progress`, which the code does too. The age of a credential, of an attempt and
of an offline registration are free choices where the code compares clocks.
Lines 314-318 of `processJob` are unreachable: `completed` has made the local copy
terminal before.

### Audit

`Audit` extends `Lifecycle` with one request that takes a ledger snapshot, lists the
zones one by one (an attempt of the plan stands for its zone) and compares. It holds
no lock, so any step of any callback may come between two of its reads. `Revision`
moves exactly with the counters, so a step that changes `fleet` makes the audit one
that is deferred and forgets what it read (`Follow`); no number is kept. After the
last zone only what it will report is kept (`unmatched`, `missing`, `short`), and an
audit without any discrepancy is over. The code reports a confirmed runner as missing
only if its VM is older than five minutes; here every confirmed runner is, which
asks more of the audit. The difference of the on-demand counter, which the audit
reports too, is real when it occurs: it is the subject of `on_demand_drift`.

### ZoneHealth and CreationPlan

`ZoneHealth` has the cache of one process: `breaker` is the last answer, `checked`
and `sampled` are the time since the cache was filled and since the query of the
logs was started, `asking` says which creates wait for the mutex or query while
holding it. What a query may answer (`Answers`) is computed by `ZoneReport` and
`BenchedZones` from every window of at most two lines per VM. `breaker.stuck` is a
history value: the zones with enough stuck VMs, counted independently of the lines.

The plan is a sequence of (zone, model, machine) computed from the rotation the VM
name hashes to (`start`), the benched zones, the families and the fallback
template. A pass asks the breaker (`AskBreaker`), which makes it wait, query or
reuse an answer, and then takes the plan from the head (`StartPass`), repeats a
saved attempt first (`ResumePass`) or continues after one that has been settled as
a stockout (`SettledPass`). Other creates of the process share the breaker
(`OtherCreate`); `Restart` is a pass that continues in another process, whose cache
is empty. `setup` holds what deployments and jobs differ in and never changes.
`stockouts` is a history variable: what Compute has refused since a pass last took
the whole plan. A template is determined by the model and left out.

`SteadySpec` restricts `Spec` to behaviours in which a pass that goes on with an
attempt finds the zones benched that were benched when the whole plan was taken, and
the VM name it had. `SpotExhaustedFirst`, `HealthyZonesFirst` and
`NoAttemptRepeated` are about those; section 5 says what happens without it.

### Dispatch

One job record with its timers: `due` (`NextActionAt`), `until` (`EnqueuedUntil`),
`lease`; the tasks of Cloud Tasks with their retry counters and age; the requests
that enqueue, between their two transactions. A timer is the time left; `Tick`
advances all of them and waits for what is due: queued tasks are delivered on time
(no backlog), a delivery ends within its deadline and the CreateTask call takes
seconds. `processJob` is the action `Work` with any outcome `finishTask` tells
apart. Durations keep the code's order, scaled down: an attempt outlasts nothing
but its own deadline, the lease one unit more, the window by the formula of
`dispatchWindow`.

### Maintenance

Here one step is what the request does with one zone, VM, row or job; the interleaving
inside such a step is `Lifecycle`'s and `Dispatch`'s subject. `rows` and `jobs` are
the due queries over detached ledger rows and job records: sequences in the order
of `NextActionAt` with the time left until a record is due; `Pages` is what a query with
a limit returns. `sweep` and `walk` are the requests under way. A sweep lists zones in their order, stops at
`MaxSweepDeletes` deletions, collects failures, and only without any goes on to the
rows (`EndZones`), whose pages it reads with the due time of its start, so that a row it
has put off is not read again (`sweep.due`); any failure there ends it. A walk reads a page behind the cursor, leaves skipped jobs where they
are, moves the others past the dispatch window, and ends at the first enqueue that
fails, after `enqueueJob` has put that job off. `Undeletable`, `Unknown`, `Refused` and
`Skipped` are the permanent failures that stand before others. The requests share
no record, so a behaviour has work for only one of them.

### Discovery

`queue` is the maintenance queue: a task per page with the deliveries it has left. A
task is named after its page and the minute (`queue`, `durable_http.go:72-90`), so it is
queued at most once in a minute: `named` are the pages whose name is used up. Tasks of
one page from different minutes are merged, the freshest deciding the deliveries left.
`handler` has one entry per concurrent delivery, which stops between the PAT-wide
gate, the gate of its path, and GitHub's answer. `until` are the gates; `told` is a
history variable, the latest time that GitHub's answers meant for each. What GitHub
lists at a path is the constant `Listing`, in items of which some are to be skipped;
a page is judged full before that. A denial (403, 404, 401) may happen for ever and
closes its path; a rate limit closes the gate of all. What is found is observed and
enqueued, which `Dispatch` follows from there.

## 3. Runs

| Run | Instance | Shows |
| --- | --- | --- |
| `fleet_store` | 2 jobs, 2 generations, 1 lease token, a plan of SPOT then on-demand, limits 1 and 1 | the eight store properties for arbitrary callers |
| `replacement` | 1 job, 2 generations, 2 workers, one SPOT attempt, crashes, rejections, refused repetitions, refused writes and machine overrides, within `MCAstray` | `LeaseHeld`, `NoLeakedVM`, `DemandNotLost`, `DeleteWorkerSparesJobs` |
| `sharing` | 2 jobs, 1 generation, 2 workers, a SPOT and an on-demand attempt, with the audit, within `MCLoad` | `RetiredEvidenceIsTrue`, `EvidenceClosesWindow`, `OneVMPerGeneration`, `ImplementsStore`, `AuditSound` |
| `plan` | 3 zones; sweep over zones or a list of 4 families with a repetition; with and without fallback and on-demand; 2 creates, 7 VMs in the logs | SPOT first, healthy zones first, nothing twice (of `SteadySpec`); `BenchNeedsStuckVMs`, `QueriesApart`, `AnswerIsRecent` |
| `dispatch_chain` | 2 tokens, 2 callers, 2 external requests, deaths and failed sends | the marker outlasts the chain, the lease its worker |
| `dispatch_live` | 2 tokens, 1 caller, 2 external requests, deaths, failed sends and lost replies | `DemandServed`, `DeleteServed` |
| `discovery` | 2 repositories, one denied for good, one with a listing of runs over 2 pages, 2 concurrent deliveries, 2 attempts, 1 fault, within `MCLoad` | `GateHonoured`, `NothingLeftOut`, `MissedJobFound` |
| `maintenance` | 2 zones, 3 detached runners (one never deleted, one of an unknown source), limits of 1 deletion and 2 pages of 1 row; 4 jobs (2 skipped, 1 refused), pages of 1; 2 faults | `NothingDropped`, `NothingPassed`, `StoppedReclaimed`, `RowsReleased`, `JobsWalked` |
| `check_then_delete`, `repeated_insert`, `on_demand_drift`, `plan_zones_bench` | see section 5 | a statement of the documentation the code does not keep |

Bounds, and why they are enough for what the run asks:

- Two jobs and two generations are what it takes for two claims on one generation,
  one claim on two, and a runner that takes the other job. One slot for two jobs
  makes the limit bind.
- Two workers are what it takes for any pair of callbacks to interleave; both
  `Lifecycle` runs have two. Two jobs with two generations and two workers are out
  of TLC's reach, so `sharing` has the second job and `replacement` the second
  generation; the store's transactions are checked with both in `fleet_store`, and
  proved for any number.
- Generation names run out: a run with one generation stops reserving after the
  first. Deadlock checking is off for this reason: with all jobs finished and all
  names used nothing is left to do (`CreationPlan` ends with a VM or a rejection,
  `Dispatch` may use up its tokens while callers wait).
- `Faults` names the faults a run explores, `Auditing` says whether it explores the
  audit (`replacement` does not), `MaxCalls` the external requests,
  `MaxFaults` how many calls fail. There are four state constraints. `Quiet` of
  `MCFleetStore`: no guard of a store transaction reads the fields `op`, `jit` and
  `created`, so that run explores one value of each (the proofs cover all). `MCLoad`
  of `MCAudit`: in `sharing` one job tries both attempts while the audit looks on, or
  two jobs share the VM of the first attempt. The audit compares generations, not the
  jobs they run, and the later attempts are made by the create worker of one job, so
  each half has what its properties need; two jobs around a generation on its second
  attempt, or beside an audit, are not explored. `MCAstray` of `MCAudit`: `replacement`
  follows a generation astray only while no other generation has a VM; a VM that
  nobody counts can stay for ever, next to everything a second generation can do. The
  proofs are without it. `MCLoad` of `MCDiscovery` ends a
  behaviour when the job to be found is on record or over: it is one more item to skip
  from there on, and what `MissedJobFound` promises has happened and stays true. The two
  safety properties are proved without it.
- `plan` needs two stuck VMs to bench a zone and has two in each, and one more of
  another workload in the first; two lines about a VM are as many as `MinVMs`. The TTL
  is two units and a query one, which tells a shared, an expired and a running
  answer apart.
- `discovery` has one listing longer than a page, whose first page has only items
  to skip, and one more listing below the second page. Two deliveries make answers
  overtake each other: a rate limit answered to both counts as one fault. With one fault
  a task is delivered again after a failure, or lost at a gate; a last delivery that
  fails loses it as the gate does. Denials are not counted and may go on for ever.
- In `maintenance` every limit is as small as it can be, so whatever stands before
  something fills the page or the limit on its own; the due query starts in every
  order. No VMs or jobs are added while it runs: with more than 25 new stopped VMs
  in the first zones every two minutes, later zones may indeed wait for ever.
- Symmetry over jobs, generations, workers or tokens is used in safety runs only;
  the fair runs have none.
- In `dispatch_*` durations are 0 to 3 units. In `dispatch_chain` the two spans of
  `dispatchWindow` are equally long, so a task uses up both retry limits at once;
  `dispatch_live` has one attempt and a retry duration, so that its second delivery
  is due to the duration alone. A lost reply leaves a task without its marker, so
  `MarkerOutlastsChain` is not asked of `dispatch_live`. `OneLostReply` of `MCDispatch`
  bounds the tasks without a marker there: a reply is lost only while no other task is
  left.

Fairness (`Dispatch!FairSpec`). Weak fairness: time passes, Cloud Tasks delivers a
due task, a worker that is not killed goes on, the scheduler calls `reconcile` every
two minutes (`src/lifecycle.tf:63-80`), a failed send is taken back. Strong
fairness: a marking, a send and a deletion that are attempted again and again do
not fail or die every time; without it a permanent outage is a counterexample to
any liveness claim. GitHub is not assumed to do anything, and neither are
webhooks: the reconciler alone must serve the demand.

`Discovery!FairSpec` has weak fairness of time, of the scheduled request
(`src/lifecycle.tf:63-80`) and of each delivery once begun, and strong fairness of
delivering a task that is queued again and again: two slots (`src/tasks.tf:58-73`) are
shared by all pages, and a task lost to a closed gate or to its last delivery comes
back only with the next traversal. `Maintenance!Spec` has weak fairness of time and of
each request's own progress, which the scheduler starts every two minutes. In both,
crashes, rate limits and failed calls are limited by `MaxFaults`; what fails for good
(a denied path, a VM that stays, a refused task) is not limited.

## 4. Proofs

All theorems hold for every set of jobs, generations, workers, tokens, callers, VMs
and zones, every plan, limit, threshold and duration; the only assumptions are those
the modules declare. Every inductive invariant was checked with TLC on the instance
of its run before it was proved.

### The store

`FleetStoreProofs` proves of `StoreSpec` (from `StoreAssumption`):

- `StoreInvariant`: `StoreSpec => [](LedgerInv /\ AdmissionExact)`, and from it
  `TypeCorrect`, `OwnershipExclusive`, `LedgerMirrors`, `AdmissionIsExact`,
  `SparesAreUnassigned`, `TerminalCompleted`;
- `CompletionIsForever`: the action property `CompletionSticks`, which takes
  `TerminalCompleted` into its steps;
- `OnDemandStaysBounded`: the counter of on-demand VMs covers every row that is
  charged, and stays within its limit;
- `StoreImplementsReservations`: the store implements `Reservations` under the
  mapping `reserved <- Live, spent <- names`.

None of the invariants is inductive alone. That a counter equals the number of rows
needs that a record's VM has its row (otherwise a release decrements without
deleting one), that needs exclusive ownership, and reserving a name needs that live
generations were reserved before (`LiveWereReserved`), or it could hit an existing
row. `LedgerInv` is their conjunction. The argument classifies what a transaction
does to the set of rows: every transaction is shown to keep the set (`Stays`), to
remove one row while the counter drops by one (`Ends`) or to add one below the
limit (`Begins`); cardinality facts are used only for these three, and the
refinement follows from the same case split, one lemma per transaction.

For the on-demand counter the same is done with charges. It is not exact
(`on_demand_drift`), so the invariant is an inequality between the counter and two
sets, the on-demand rows and the records that kept an on-demand attempt when they
lost their VM. A transaction `Pays` when the counter moves by at least what the two
sets gain together; adopting a spare or losing a VM moves a charge from one set to
the other.

### The callbacks

`LifecycleProofs` proves of `Lifecycle!Spec`:

- `CallbacksImplementStore`: every step of a callback, of Compute or of GitHub is a
  step `StoreSpec` allows or leaves the store alone. The store's theorems therefore
  hold of the whole program, and their invariants may be used in what follows;
- `NoVMLeaks`, `GenerationExistsOnce`, `DemandIsKept`, `RetiredTruly`, `LeaseIsHeld` and
  `CallbacksTyped`: the invariants of the runs `replacement` and `sharing`. The first
  two leave out the generations astray, for which they fail;
- `ResolvedUnlessRefused`: `ResolvedBeforeRelease`, the sentence of LIFECYCLE.md that
  `repeated_insert` refutes, holds if no call for an accepted insert is refused
  (`~Doubtful`, that is, neither `"refuse"` nor `"exhaust"` in `Faults`);
- `WindowOnlyCloses` (`EvidenceClosesWindow`) and `DeleteWorkerIsSafe`: their action
  properties.

The inductive invariant (`CallbackInvariant`) is `LifecycleInvariant`. A callback reads,
waits for Compute or GitHub, and writes in a later transaction, so whether a write is
safe depends on what its local copy still says. `WorkerSound` gives this for every
program counter: with the lease (`LeasedSound`) the record can only have lost its VM
since the copy was taken, and what was learnt from Compute (the VM exists, its insert
failed, nothing of it is left) still holds when the callback acts on it, because only
the lease holder inserts; without it (`UnleasedSound`) the generation had a VM
and its job is over. `JobSound` says that the record which owns a generation names the
only attempt it can exist in, and `GenSound` that without a row there is no VM. Of a
generation astray these say nothing about where its VMs are (`Taken` and `Active` are
empty for it): it may have a VM in a zone nobody remembers, beside or after its row.
What is then left is that it had a VM at all, which is what the delete worker and the
store go by. A pass that is about to clear knows whether Compute had accepted what
it clears (`spare` in `ComputeSound`), so no other generation goes astray.

`EvidenceClosesWindow` is about the window between the read of an assignment and the
deletion (`PastCheck`). That the window is not empty is the finding
`check_then_delete`; the theorem says that evidence once recorded lets nobody into it, so
the VM is safe as soon as those who read before are through. For a running VM, it needs
that whoever reads a live assignment goes on to detach or keep it (`CapacityRegistration`),
that a pass which takes the other ways to a deletion found the VM stopped, and that the
delete worker's runner has finished its only job. The proof has one lemma for each way
in (`ProcessJobEnters`, `MaintainEnters`) and one for the deletions
(`DeletedFromWindow`).

The proof of the invariant has one lemma per step of a callback, over a few that say
which steps of others leave a worker's knowledge alone.

### The audit

`AuditProofs` proves of `AuditSpec` that audits raise no false alarm about a runner
(`AuditsAreSound`: `AuditSound`). The first snapshot, the listing of each zone and the
second snapshot are separate reads, and the only thing the code compares is that the
counters and `Revision` are the same at both ends. So the core is `RowsStay`: a
transaction that leaves the counters alone neither makes nor ends a ledger row, nor
moves one between the models, whichever of the store's transactions it is; it follows
from the classification of the store's proof and holds of the callbacks by
`CallbacksImplementStore`. The other half is `VisibleShrinks`: by `CallbackInv` a
generation that ever had a VM has no insert left to start another, so a confirmed
runner that is not found in a zone behind the listing does not appear there later. About
a generation astray alarms are possible and right: it may have a VM without a row, or
in another model's zone, at an unchanged revision. No generation stops being astray
(`AstrayGrows`), so the exception made at the listing still covers the report.
`AuditInv` adds what the zones listed so far have shown, and that the count equals
the rows read with it (`AdmissionIsExact`).

### The dispatch

`DispatchProofs` proves of `Dispatch!Spec`: `DispatchTyped`, `LeaseHolds`
(`LeaseOutlastsWorker`, both under all faults) and, as long as no reply of `CreateTask`
is lost, `MarkerHolds` (`MarkerOutlastsChain`), for all durations and retry limits.
The last hypothesis is the one of the property's comment: a task whose creation was
reported as a failure has no marker.

The argument is a budget. `Remaining(k)` is the longest that the chain of a task may
still take: the larger of what the attempt limit and what the duration limit lets
through, since Cloud Tasks stops only when both are used up. `dispatchWindow`
is more than the budget of a new task, a delivery spends nothing, a retry
exchanges an attempt for at most one cycle (`RetrySpends`), and a unit of time takes one
from the marker and at least one from the budget (`TimeSpends`); `ChainInv` says that
the marker is always the larger. It also needs that an enqueue under way has a token of
its own without a task (`SendSound`). The lease is simpler: it is longer than a
delivery may still last whenever it is claimed, and both run down together.

The proof needs `MarginAssumption`: the second span of `dispatchWindow` does not count
the backoff before the last delivery (`work_scheduling.go:33-42`), so that it is the
margin of a minute that covers it. As deployed the longest backoff is 30 seconds
(`src/tasks.tf`); without the assumption the property fails, for instance with one
attempt, a duration of 4, a backoff of 4 and a margin of 3.

### The backoff gates

`DiscoveryProofs` proves of `Discovery!Spec` `DiscoveryTyped` and the action property
`GatesAreHonoured` (`GateHonoured`), for any repositories, listings, deliveries and
waits. The property speaks of what GitHub's answers have meant (`told`), the code
reads what the transactions have recorded (`until`); they are equal in every state
(`GateInvariant`), because `Backoff` keeps the later of the two times in the
transaction that read the earlier one.

### The discovery traversal

`NothingIsLeftOut` (`NothingLeftOut`) is the safety behind `MissedJobFound`, for any
tree of listings, also one whose pages lead back to each other. `Leading[j]` are the
tasks from which following the listings leads to job `j`, the least set that holds the
pages with `j` and whatever is followed by a member. While one of them is queued or
handled, one still is after any step, unless `j` is on record or over, or one of them
has met a gate, a refusal or the end of its deliveries, or what follows it used its name
in this minute. The last of these is real: a second task for a page that failed for the
last time in the same minute is answered `AlreadyExists`, and `queue` takes that for
success (`durable_http.go:88`); the next traversal makes up for it.

The proof follows a task through its delivery (`StaysUnderWay`, `EndLeads`). Three facts
carry it. A task that leads to a job has it on its page or is followed by one that
does (`LeadingStep`: the tasks with this property are closed, so the least closed set is
among them). What GitHub returns for a page is its part of the listing, and a page that
another follows is full (`PageContents`). And so the end of a delivery queues all
that follows, whatever was skipped (`EndsQueueAll`): `discoverWithPAT` counts the
page before it filters. The proof needs no invariant but the types.

### The zone breaker

`ZoneHealthProofs` proves of `CreationPlan!Spec` (from `ZoneHealthAssumption` and
`PlanAssumption`) `BenchedOnEvidence`, `QueriesAreApart` and `AnswersAreRecent`. The
two action properties compare clocks at a step, so `CacheInv` says what the clocks
are to each other between steps: no two creates query at once; while one does, the
answer stays expired and the query is within its timeout; and once it is over, the
answer is not older than its query, and the query not older than the answer by more
than the timeout. Without the exclusive mutex a second query could reset `sampled`
under the first. `StepsOfPlan` reduces every step of a pass to a step of the breaker,
a restart included.

### The creation plan

`CreationPlanProofs` proves `PlanTyped` of `CreationPlan!Spec`, and of `SteadySpec`, for
any zones, families and answers of the breaker, `SpotIsExhaustedFirst`,
`HealthyZonesAreFirst` and `NoAttemptIsRepeated` (`SpotExhaustedFirst`,
`HealthyZonesFirst`, `NoAttemptRepeated`). `SteadySpec` cannot be weakened to `Spec`:
`plan_zones_bench` is the counterexample for the first, and section 5 describes those
for the others.

The first half is about the plan alone. The code's loops collect zones, or families,
in order; the model says so by position (`Collect`: the `k`-th element taken is the one
with `k` chosen positions up to it) rather than by a fold, so that what they collect
follows from facts about finite sets: `Collected` says that every chosen position
comes exactly once. With it the rotation goes round all zones once
(`Rotated`), benching a zone moves it behind the healthy ones and loses none
(`BenchedLast`), and families lose only their repetitions (`Deduped`). `PlanIsSound` puts
this together for both shapes: no two attempts of a plan share their model and their
zone or family; before an attempt in a benched zone it comes in every healthy
one; before one on demand SPOT comes for every zone or family.

The second half is the walk. The code keeps no position, it finds the place again by
comparing the saved attempt with a plan it computes anew, so the invariant has to
say that there is one place (`PassInv`): what Compute has refused is
the allowed part of the plan up to place `n`, and nothing else; a saved attempt is
the one at `n`; and what is left of the pass's plan starts at `n`, or right after it
while the insert is out. Each pass that resumes or settles keeps this, since in a
plan without repetitions `attemptsAfter` finds exactly that place (`AfterPlace`).

### The periodic walks

`MaintenanceProofs` proves of `Maintenance!Spec`, for any zones, VMs, jobs, limits, page
sizes and waits, `MaintenanceTyped`, `NothingIsDropped` and `NothingIsPassed`
(`MaintenanceTypeOK`, `NothingDropped`, `NothingPassed`): the safety behind the
liveness properties of the run. What a walk cannot deal with stays in its query, and
only a page that is full has anything behind it.

The first half is about due queries. `QueueOK` says that a query holds no key twice and
is in the order of its due times. `WithoutQueue`, `PutOffQueue` and `SoonerQueue` show
what releasing, putting off and time do to such a query: which keys it has then, and
that whatever else was due still is. A record that is put off goes behind those due no
later, whose number is their last position (`EarlierInFront`). `PageOfQuery` says what
a page is: due keys that are asked for, none twice, no more than the limit, and all of
them if there are fewer. Sizes are compared by cardinality, so the code's test for a
full page means what it should.

In the second half `MaintenanceInv` adds what a page read earlier is worth later. A page
holds keys that are still in the query, since only its own sweep takes one out. The
rows the sweep has yet to deal with stay due through ticks, releases and the rows it
puts off itself (`sweep.due`), so the next page cannot miss one. A walk starts behind
skipped jobs only: the others it has met are due after the page that moved them. The VM
whose row `ReleaseReclaimed` takes away is gone, since nothing brings a VM back.

### Model-checked only

The four violated properties of section 5, and liveness under fairness, which is out of
the prover's reach (`DemandServed`, `DeleteServed`, `MissedJobFound`, `StoppedReclaimed`,
`RowsReleased`, `JobsWalked`). Every invariant and every action property that a run
checks and finds true is a theorem.

## 5. Where the code differs from its documentation

- `check_then_delete`: a VM can be deleted after its live assignment was recorded,
  because the check and the deletion are separate calls (`lifecycle.go:202-207`,
  `fleet_audit.go:64-75`). The check is itself several calls: `capacityRegistration`
  reads the assignment (`assignment.go:153`) and then, if there is none, asks GitHub
  (`work_scheduling.go:185-240`), so an assignment recorded in between is missed as
  well. What holds is that the window closes: `EvidenceClosesWindow`.
- `repeated_insert`: an insert that Compute accepted and whose operation's name was not
  stored can be repeated and refused; the attempt is then cleared and the generation
  released, or inserted in another zone, while the first insert is pending
  (`lifecycle.go:466-484`). The VM that appears has no reservation, or is the second of
  its generation. The audit reports it; the sweep deletes it once it has stopped.
- `on_demand_drift`: `finishTask` of a permanent error works without the lease; a
  duplicate delivery can then charge an on-demand slot to a record that has lost its
  VM, and the charge is never given back. `OnDemandBounded` holds all the same: the
  counter errs on the high side, so the limit is kept but shrinks.
- `plan_zones_bench`: a resumed pass continues by position in a plan that has been
  reordered by the zones benched now, or rotated by a new VM name; SPOT zones may be
  skipped before on-demand. The run drops the assumption of `SteadySpec`, which the code
  does not guarantee. Without it the other two properties of the plan fail as well. An
  attempt is repeated: A is refused, then benched, and a pass that resumes at B in the
  plan B, C, A comes to A again. A benched zone is tried before healthy ones: the saved
  attempt comes first in the next pass, also if its zone has been benched since.

Two more differences have no run. An accepted recreate request may leave no pass
scheduled, although `LIFECYCLE.md:36` says that it schedules one: `durableRecreate` pulls
the due time forward and enqueues in separate transactions (`durable_http.go:274-292`), a
worker that finishes in between puts it out again (`work_scheduling.go:121-123`), and
the gate of `enqueueJob` drops the replacement. Both steps are in `Dispatch` (`Recreate`,
`FinishTask`), and `DemandServed` says that the reconciler picks the record up later.

The other: the comment of `sweepOrphans` calls it best-effort
and says that errors are logged, not returned (`srv.go:1058`), but it returns them
(`srv.go:1110`) and `durableSweep` then answers 503 before `reconcileRunners`
(`durable_http.go:360-364`). A VM or zone that fails in every sweep therefore keeps
detached rows from being reconciled; `RowsReleased` promises its release only while
no VM is left that Compute refuses to delete.

## 6. Plan

Done: `Reservations`, `FleetStore`, `Lifecycle`, `ZoneHealth` and `Dispatch` with their
proofs, `Audit`, `Discovery`, `CreationPlan` and `Maintenance` with theirs.

Not modelled: HTTP intake (stateless checks before the handlers), the parsing of
labels, headers and log lines, TTL deletion and the schema version (section 2), the
window of three days that bounds discovery (a re-run of an older run, whose
webhook is lost, is not discovered), the handlers of
the release without a state database (not installed in the deployed program), API
client construction, the Terraform module beyond the constants it supplies, and the
runner VM's scripts beyond their visible effects.

## 7. Running

    tlc -workers 4 -config MCReplacement.cfg MCAudit
    tlapm FleetStoreProofs.tla
    tlapm LifecycleProofs.tla      # about eight minutes
    tlapm AuditProofs.tla
    tlapm DispatchProofs.tla
    tlapm DiscoveryProofs.tla
    tlapm MaintenanceProofs.tla
    tlapm ZoneHealthProofs.tla
    tlapm CreationPlanProofs.tla   # about two minutes
