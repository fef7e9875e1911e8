----------------------------- MODULE FleetStore -----------------------------
(***************************************************************************)
(* The durable state of the autoscaler and every Firestore transaction     *)
(* that changes it: the job records (lifecycle_store.go), the capacity     *)
(* ledger (capacity_store.go), the assignment observations (assignment.go) *)
(* and the global counters of control/fleet.                               *)
(*                                                                         *)
(* Each operator below is one transaction, so one atomic step.  StoreNext  *)
(* lets any caller run any of them in any order, with the lease as the     *)
(* only discipline the transactions themselves enforce.  Lifecycle runs    *)
(* the same transactions in the order the HTTP handlers do.                *)
(***************************************************************************)
EXTENDS Integers, Sequences, FiniteSets

CONSTANTS
  Jobs, NoJob,         \* demand: one record per GitHub job
  Gens, NoGen,         \* runner generations, each a fresh VM name
  Workers, NoWorker,   \* lease tokens, one per callback being processed
  Pools, NoPool,       \* source:repository:labels
  PoolOf,              \* the pool each job asks for
  Plan,                \* provisioning models of the creation attempts, in order
  MaxRunners,          \* max_runners
  MaxOnDemand          \* max_on_demand_runners

ASSUME StoreAssumption ==
  /\ NoJob \notin Jobs /\ NoGen \notin Gens /\ NoWorker \notin Workers
  /\ NoPool \notin Pools
  /\ IsFiniteSet(Jobs) /\ IsFiniteSet(Gens)
  /\ PoolOf \in [Jobs -> Pools]
  /\ Plan \in Seq({"spot", "standard"})
  /\ MaxRunners \in Nat /\ MaxOnDemand \in Nat

VARIABLES
  jobs,         \* collection jobs: job -> lifecycleRecord
  runners,      \* collection runners: generation -> runnerRecord
  fleet,        \* document control/fleet
  assignments,  \* runners/<generation>/assignments/job
  names         \* generations ever reserved: nonce() never repeats one

storeVars == <<jobs, runners, fleet, assignments, names>>

(***************************************************************************)
(* Records.  An attempt is its index in the plan and 0 is no attempt: Zone *)
(* and Model are set and cleared together, so att = 0 is Zone = "".  A     *)
(* timestamp that the code only tests with IsZero is a BOOLEAN.            *)
(***************************************************************************)
Attempts == 1 .. Len(Plan)
Standard(a) == a # 0 /\ Plan[a] = "standard"
Statuses == {"queued", "in_progress", "completed"}

JobRec == [seen : BOOLEAN,               \* the document exists (Job.Id # 0)
           status : Statuses,            \* Job.Status
           terminal : BOOLEAN,
           failure : BOOLEAN,            \* Failure # ""
           lease : Workers \cup {NoWorker},
           vm : Gens \cup {NoGen},       \* VMName
           att : Attempts \cup {0},      \* Zone, Model, Machine, Template
           op : BOOLEAN,                 \* Operation # ""
           jit : BOOLEAN,                \* JIT # "", JITIssuedAt set
           created : BOOLEAN,            \* CreatedAt set
           pd : Gens \cup {NoGen}]       \* PendingDelete

NoRecord == [seen |-> FALSE, status |-> "queued", terminal |-> FALSE,
             failure |-> FALSE, lease |-> NoWorker, vm |-> NoGen, att |-> 0,
             op |-> FALSE, jit |-> FALSE, created |-> FALSE, pd |-> NoGen]

\* The part of a job record that a ledger row's copy of it is later read for.
SnapshotRec == [att : Attempts \cup {0}, op : BOOLEAN, jit : BOOLEAN,
                created : BOOLEAN, terminal : BOOLEAN]
Snapshot(r) == [att |-> r.att, op |-> r.op, jit |-> r.jit,
                created |-> r.created, terminal |-> r.terminal]

RunnerRec == [live : BOOLEAN,            \* the row exists
              owner : Jobs \cup {NoJob},
              pool : Pools \cup {NoPool},
              available : BOOLEAN,
              rec : SnapshotRec]
NoRow == [live |-> FALSE, owner |-> NoJob, pool |-> NoPool,
          available |-> FALSE, rec |-> Snapshot(NoRecord)]
OwnedRow(j, r) == [live |-> TRUE, owner |-> j, pool |-> PoolOf[j],
                   available |-> FALSE, rec |-> Snapshot(r)]

AssignmentRec == [job : Jobs \cup {NoJob}, done : BOOLEAN]
NoAssignment == [job |-> NoJob, done |-> FALSE]
Assigned(g) == assignments[g].job # NoJob          \* hasAssignment

Live == {g \in Gens : runners[g].live}

StoreInit ==
  /\ jobs = [j \in Jobs |-> NoRecord]
  /\ runners = [g \in Gens |-> NoRow]
  /\ fleet = [Runners |-> 0, Standard |-> 0]
  /\ assignments = [g \in Gens |-> NoAssignment]
  /\ names = {}

-----------------------------------------------------------------------------
(***************************************************************************)
(* How a job transaction commits.  UpdateJob stores the record and         *)
(* rewrites the row of the generation it owns; Update also stores the      *)
(* counters and deletes the row of a generation the record gave up.        *)
(***************************************************************************)
\* Mutant: the ledger row is not rewritten with the record.
WriteJobOnly(j, r) == jobs' = [jobs EXCEPT ![j] = r] /\ UNCHANGED runners

WriteJob(j, r) ==
  /\ jobs' = [jobs EXCEPT ![j] = r]
  /\ runners' = IF r.vm = NoGen THEN runners
                ELSE [runners EXCEPT ![r.vm] = OwnedRow(j, r)]

WriteCapacity(j, r, counts) ==
  /\ jobs' = [jobs EXCEPT ![j] = r]
  /\ runners' = [g \in Gens |->
                   CASE g = r.vm -> OwnedRow(j, r)
                     [] g # r.vm /\ g = jobs[j].vm -> NoRow
                     [] OTHER -> runners[g]]
  /\ fleet' = counts

\* The record releaseReservation leaves, and the counters with it.
Unreserved(r) == [r EXCEPT !.vm = NoGen, !.att = 0, !.op = FALSE,
                           !.jit = FALSE, !.created = FALSE]
\* Mutant: the counters drop whether or not the record has a VM.
CountsWithoutCheck(r) ==
  [Runners |-> fleet.Runners - 1,
   Standard |-> fleet.Standard - (IF Standard(r.att) THEN 1 ELSE 0)]

CountsWithout(r) ==
  [Runners |-> fleet.Runners - (IF r.vm # NoGen THEN 1 ELSE 0),
   Standard |-> fleet.Standard
                  - (IF r.vm # NoGen /\ Standard(r.att) THEN 1 ELSE 0)]

ReleaseReservation(j, r) == WriteCapacity(j, Unreserved(r), CountsWithout(r))

\* The guard of mutate and mutateJob: the caller still holds the lease.
Holds(j, w) == jobs[j].lease = w

-----------------------------------------------------------------------------
(***************************************************************************)
(* Observations: what webhooks and discovery write.                        *)
(***************************************************************************)

\* Mutant: a late observation overwrites the status of a finished record.
ObserveJobLate(j, status, terminal, g) ==
  /\ WriteJob(j, [jobs[j] EXCEPT
       !.seen = TRUE, !.status = status, !.terminal = @ \/ terminal,
       !.pd = IF terminal /\ g # NoGen THEN g ELSE @])
  /\ UNCHANGED <<fleet, assignments, names>>

\* Mutant: any observation that names a runner asks for its deletion.
ObserveJobEager(j, status, terminal, g) ==
  /\ LET r == jobs[j] IN
     WriteJob(j, [r EXCEPT
       !.seen = TRUE, !.status = IF ~r.terminal \/ terminal THEN status ELSE @,
       !.terminal = @ \/ terminal, !.pd = IF g # NoGen THEN g ELSE @])
  /\ UNCHANGED <<fleet, assignments, names>>

\* The first transaction of observe.  A finished record keeps its status
\* unless the new observation is terminal too.
ObserveJob(j, status, terminal, g) ==
  /\ LET r == jobs[j] IN
     WriteJob(j, [r EXCEPT
       !.seen = TRUE,
       !.status = IF ~r.terminal \/ terminal THEN status ELSE @,
       !.terminal = @ \/ terminal,
       !.pd = IF terminal /\ g # NoGen THEN g ELSE @])
  /\ UNCHANGED <<fleet, assignments, names>>

\* Mutant: the new observation alone decides whether the assignment is done.
RecordAssignmentAfresh(j, g, status) ==
  /\ jobs[j].seen
  /\ assignments[g].job \in {j, NoJob}
  /\ assignments' = [assignments EXCEPT ![g] =
                       [job |-> j, done |-> status = "completed"]]
  /\ runners' = [runners EXCEPT ![g].available = FALSE]
  /\ UNCHANGED <<jobs, fleet, names>>

\* Mutant: an observation that the job runs already retires the assignment.
RecordAssignmentDone(j, g, status) ==
  /\ jobs[j].seen
  /\ assignments[g].job \in {j, NoJob}
  /\ assignments' = [assignments EXCEPT ![g] =
                       [job |-> j, done |-> @.done \/ status # "queued"]]
  /\ runners' = [runners EXCEPT ![g].available = FALSE]
  /\ UNCHANGED <<jobs, fleet, names>>

\* The second one.  A generation belongs to the first job recorded on it: a
\* completed observation of another job is ignored, a live one is an error.
RecordAssignment(j, g, status) ==
  LET done == \/ status = "completed" \/ jobs[j].terminal
              \/ assignments[g].done
  IN /\ jobs[j].seen
     /\ assignments[g].job \in {j, NoJob}
     /\ assignments' = [assignments EXCEPT ![g] = [job |-> j, done |-> done]]
     /\ runners' = [runners EXCEPT ![g].available = FALSE]
     /\ UNCHANGED <<jobs, fleet, names>>

-----------------------------------------------------------------------------
(***************************************************************************)
(* Lease and status.                                                       *)
(***************************************************************************)
\* Mutant: a lease somebody holds is taken over.
ClaimAnyway(j, w) ==
  /\ jobs[j].seen
  /\ WriteJob(j, [jobs[j] EXCEPT !.lease = w])
  /\ UNCHANGED <<fleet, assignments, names>>

Claim(j, w) ==
  /\ jobs[j].seen
  /\ jobs[j].lease = NoWorker
  /\ WriteJob(j, [jobs[j] EXCEPT !.lease = w])
  /\ UNCHANGED <<fleet, assignments, names>>

ReleaseLease(j, w) ==
  /\ Holds(j, w)
  /\ WriteJob(j, [jobs[j] EXCEPT !.lease = NoWorker])
  /\ UNCHANGED <<fleet, assignments, names>>

\* LeaseUntil passes: claim takes the lease over and the old token's mutate
\* calls fail from here on, exactly as if the field were empty.
ExpireLease(j) ==
  /\ jobs[j].lease # NoWorker
  /\ jobs' = [jobs EXCEPT ![j].lease = NoWorker]
  /\ UNCHANGED <<runners, fleet, assignments, names>>

\* Mutant: the status of a failed lookup is written too.
NoteStatusUnchecked(j, w, status) ==
  /\ Holds(j, w)
  /\ LET r == jobs[j] IN
     WriteJob(j, IF r.terminal THEN r
                 ELSE [r EXCEPT !.status = status,
                                !.terminal = (status = "completed")])
  /\ UNCHANGED <<fleet, assignments, names>>

\* Mutant: a job GitHub has handed out counts as finished.
NoteStatusHasty(j, w, status) ==
  /\ Holds(j, w)
  /\ LET r == jobs[j] IN
     WriteJob(j, IF r.terminal \/ status = "error" THEN r
                 ELSE [r EXCEPT !.status = status,
                                !.terminal = (status # "queued")])
  /\ UNCHANGED <<fleet, assignments, names>>

\* processJob's first write: the status GitHub reported, unless a webhook
\* finished the job meanwhile.
NoteStatus(j, w, status) ==
  /\ Holds(j, w)
  /\ LET r == jobs[j] IN
     WriteJob(j, IF r.terminal \/ status = "error" THEN r
                 ELSE [r EXCEPT !.status = status,
                                !.terminal = (status = "completed")])
  /\ UNCHANGED <<fleet, assignments, names>>

\* Reschedule; the status is written again, under the same guard.
SetDue(j, w, status) ==
  /\ Holds(j, w)
  /\ LET r == jobs[j] IN
     WriteJob(j, IF r.terminal THEN r ELSE [r EXCEPT !.status = status])
  /\ UNCHANGED <<fleet, assignments, names>>

-----------------------------------------------------------------------------
(***************************************************************************)
(* Reservation, credential and creation attempt of the leased record.      *)
(***************************************************************************)
\* Mutant: one runner too many.
FleetFullLate == fleet.Runners > MaxRunners

FleetFull == fleet.Runners >= MaxRunners

Reserve(j, w, g) ==
  /\ Holds(j, w)
  /\ ~jobs[j].terminal
  /\ ~FleetFull
  /\ g \notin names
  /\ WriteCapacity(j, [jobs[j] EXCEPT !.vm = g],
                   [fleet EXCEPT !.Runners = @ + 1])
  /\ names' = names \cup {g}
  /\ UNCHANGED assignments

SaveJIT(j, w) ==
  /\ Holds(j, w)
  /\ WriteJob(j, [jobs[j] EXCEPT !.jit = TRUE])
  /\ UNCHANGED <<fleet, assignments, names>>

\* changeAttempt refuses a terminal record, and a move to the on-demand model
\* once its limit is reached.
\* Mutant: one on-demand runner too many.
OnDemandFullLate(j, a) ==
  Standard(a) /\ ~Standard(jobs[j].att) /\ fleet.Standard > MaxOnDemand

OnDemandFull(j, a) ==
  Standard(a) /\ ~Standard(jobs[j].att) /\ fleet.Standard >= MaxOnDemand
AttemptRefused(j, a) == jobs[j].terminal \/ OnDemandFull(j, a)

SaveAttempt(j, w, a) ==
  /\ Holds(j, w)
  /\ ~AttemptRefused(j, a)
  /\ LET was == Standard(jobs[j].att)
         now == Standard(a)
     IN WriteCapacity(j, [jobs[j] EXCEPT !.att = a],
                      [fleet EXCEPT !.Standard =
                         @ + (IF now /\ ~was THEN 1 ELSE 0)
                           - (IF was /\ ~now THEN 1 ELSE 0)])
  /\ UNCHANGED <<assignments, names>>

SaveOperation(j, w) ==
  /\ Holds(j, w)
  /\ WriteJob(j, [jobs[j] EXCEPT !.op = TRUE])
  /\ UNCHANGED <<fleet, assignments, names>>

SaveCreated(j, w) ==
  /\ Holds(j, w)
  /\ WriteJob(j, [jobs[j] EXCEPT !.created = TRUE])
  /\ UNCHANGED <<fleet, assignments, names>>

\* clearAttempt: the generation and its credential stay, the attempt goes.
ClearAttempt(j, w) ==
  /\ Holds(j, w)
  /\ WriteCapacity(j, [jobs[j] EXCEPT !.att = 0, !.op = FALSE],
                   [fleet EXCEPT !.Standard =
                      @ - (IF Standard(jobs[j].att) THEN 1 ELSE 0)])
  /\ UNCHANGED <<assignments, names>>

\* mutate(releaseReservation), the last word on a generation under a lease.
ReleaseOwned(j, w) ==
  /\ Holds(j, w)
  /\ ReleaseReservation(j, jobs[j])
  /\ UNCHANGED <<assignments, names>>

-----------------------------------------------------------------------------
(***************************************************************************)
(* Capacity passes from one job to another.                                *)
(***************************************************************************)

\* The VM stays counted in the ledger; the job gives up its claim on it.
Detach(j, w, available) ==
  /\ Holds(j, w)
  /\ LET r == jobs[j] IN
     IF r.vm = NoGen THEN UNCHANGED <<jobs, runners>>
     ELSE /\ runners' = [runners EXCEPT ![r.vm] =
                [live |-> TRUE, owner |-> NoJob, pool |-> PoolOf[j],
                 available |-> available /\ ~Assigned(r.vm),
                 rec |-> Snapshot(r)]]
          /\ jobs' = [jobs EXCEPT ![j] = Unreserved(r)]
  /\ UNCHANGED <<fleet, assignments, names>>

Spares(j) == {g \in Live : runners[g].available /\ runners[g].pool = PoolOf[j]}

\* Any spare no observation names may be chosen; the named ones leave the pool.
\* Nothing happens to a record that is terminal or owns a generation already.
Adopt(j, w) ==
  /\ Holds(j, w)
  /\ IF jobs[j].terminal \/ jobs[j].vm # NoGen
     THEN UNCHANGED <<jobs, runners>>
     ELSE LET known == {g \in Spares(j) : Assigned(g)}
              pruned == [g \in Gens |-> IF g \in known
                           THEN [runners[g] EXCEPT !.available = FALSE]
                           ELSE runners[g]]
          IN \/ /\ Spares(j) = known
                /\ runners' = pruned
                /\ UNCHANGED jobs
             \/ \E g \in Spares(j) \ known :
                  LET s == runners[g].rec
                      r == [jobs[j] EXCEPT !.vm = g, !.att = s.att, !.op = s.op,
                              !.jit = s.jit, !.created = s.created,
                              !.terminal = FALSE, !.failure = FALSE,
                              !.pd = NoGen]
                  IN /\ jobs' = [jobs EXCEPT ![j] = r]
                     /\ runners' = [pruned EXCEPT ![g] =
                          [pruned[g] EXCEPT !.owner = j, !.available = FALSE,
                                            !.rec = Snapshot(r)]]
  /\ UNCHANGED <<fleet, assignments, names>>

\* Mutant: the row is deleted although a job adopted it meanwhile.
ReleaseRunnerOwned(g) ==
  /\ IF runners[g].live
     THEN /\ runners' = [runners EXCEPT ![g] = NoRow]
          /\ fleet' = [Runners |-> fleet.Runners - 1,
                       Standard |-> fleet.Standard -
                         (IF Standard(runners[g].rec.att) THEN 1 ELSE 0)]
     ELSE UNCHANGED <<runners, fleet>>
  /\ UNCHANGED <<jobs, assignments, names>>

\* Called after confirmed deletion or absence of the VM.  A missing row and a
\* row some job owns are left alone.
ReleaseRunner(g) ==
  /\ IF runners[g].live /\ runners[g].owner = NoJob
     THEN /\ runners' = [runners EXCEPT ![g] = NoRow]
          /\ fleet' = [Runners |-> fleet.Runners - 1,
                       Standard |-> fleet.Standard -
                         (IF Standard(runners[g].rec.att) THEN 1 ELSE 0)]
     ELSE UNCHANGED <<runners, fleet>>
  /\ UNCHANGED <<jobs, assignments, names>>

\* Mutant: availability is not checked against the recorded assignment.
DeferRunnerBlind(g, available) ==
  /\ runners' = IF runners[g].live /\ runners[g].owner = NoJob
                THEN [runners EXCEPT ![g].available =
                        available /\ ~runners[g].rec.terminal]
                ELSE runners
  /\ UNCHANGED <<jobs, fleet, assignments, names>>

DeferRunner(g, available) ==
  /\ runners' = IF runners[g].live /\ runners[g].owner = NoJob
                THEN [runners EXCEPT ![g].available =
                        available /\ ~runners[g].rec.terminal /\ ~Assigned(g)]
                ELSE runners
  /\ UNCHANGED <<jobs, fleet, assignments, names>>

-----------------------------------------------------------------------------
(***************************************************************************)
(* The two capacity writes made without a lease.                           *)
(***************************************************************************)

\* deleteRunner's record update, once VM g is gone.
DeleteUpdate(j, g) ==
  /\ LET r == [jobs[j] EXCEPT !.pd = IF @ = g THEN NoGen ELSE @]
     IN IF r.vm = g THEN ReleaseReservation(j, r) ELSE WriteCapacity(j, r, fleet)
  /\ UNCHANGED <<assignments, names>>

\* finishTask after a permanent error: park the record, and give back a
\* reservation that no insert was submitted for.
Park(j) ==
  /\ LET r == [jobs[j] EXCEPT !.failure = TRUE]
     IN IF r.att = 0 /\ r.vm # NoGen THEN ReleaseReservation(j, r)
        ELSE WriteCapacity(j, r, fleet)
  /\ UNCHANGED <<assignments, names>>

-----------------------------------------------------------------------------
\* What callers may ask for.  Reserve is called for a record without a VM, and
\* a runner name in an event belongs to a generation that was once reserved.
Observation(j) ==
  \/ ObserveJob(j, "completed", TRUE, NoGen)
  \/ \E s \in {"queued", "in_progress"} : ObserveJob(j, s, FALSE, NoGen)
  \/ \E g \in names : \/ ObserveJob(j, "completed", TRUE, g)
                      \/ \E s \in Statuses : RecordAssignment(j, g, s)

LeasedStep(j, w) ==
  \/ Claim(j, w) \/ ReleaseLease(j, w)
  \/ \E s \in Statuses \cup {"error"} : NoteStatus(j, w, s)
  \/ \E s \in {"queued", "in_progress"} : SetDue(j, w, s)
  \/ SaveJIT(j, w) \/ SaveOperation(j, w) \/ SaveCreated(j, w)
  \/ \E g \in Gens : jobs[j].vm = NoGen /\ Reserve(j, w, g)
  \/ \E a \in Attempts : SaveAttempt(j, w, a)
  \/ ClearAttempt(j, w)
  \/ ReleaseOwned(j, w)
  \/ \E b \in BOOLEAN : Detach(j, w, b)
  \/ Adopt(j, w)

UnleasedStep ==
  \/ \E j \in Jobs : Observation(j) \/ ExpireLease(j) \/ Park(j)
  \/ \E j \in Jobs, g \in names : DeleteUpdate(j, g)
  \/ \E g \in names : ReleaseRunner(g) \/ \E b \in BOOLEAN : DeferRunner(g, b)

StoreNext == UnleasedStep \/ \E j \in Jobs, w \in Workers : LeasedStep(j, w)

StoreSpec == StoreInit /\ [][StoreNext]_storeVars

-----------------------------------------------------------------------------
(***************************************************************************)
(* Properties.                                                             *)
(***************************************************************************)

\* Every variable holds a value of the shape its document has; the counters
\* may be any integer, that they are not negative is part of AdmissionExact.
StoreTypeOK ==
  /\ jobs \in [Jobs -> JobRec]
  /\ runners \in [Gens -> RunnerRec]
  /\ fleet \in [Runners : Int, Standard : Int]
  /\ assignments \in [Gens -> AssignmentRec]
  /\ names \subseteq Gens

\* A job's VMName and a ledger row's Owner are two documents that name each
\* other: no generation is claimed by two jobs, no claim lacks its row, no row
\* keeps an owner that forgot it.  Adopt, Detach and the two releases made
\* without the lease must all keep this.
OwnershipIsExclusive ==
  /\ \A j \in Jobs : jobs[j].vm # NoGen =>
       runners[jobs[j].vm].live /\ runners[jobs[j].vm].owner = j
  /\ \A g \in Gens : runners[g].owner # NoJob =>
       runners[g].live /\ jobs[runners[g].owner].vm = g

\* The snapshot in an owned row is its owner's current attempt and status, so a
\* later detach, adoption or audit reads what the job last did.
LedgerMirrorsOwner ==
  \A g \in Gens : runners[g].owner # NoJob =>
     runners[g].rec = Snapshot(jobs[runners[g].owner])

\* control/fleet.Runners counts exactly the ledger rows, and admission never
\* lets them exceed max_runners: every reservation is counted once when it is
\* made and given back once, by whichever of sweep, delete worker, owner or
\* reconciliation gets there first.
AdmissionExact ==
  /\ fleet.Runners = Cardinality(Live)
  /\ fleet.Runners <= MaxRunners

\* Rows charged as on-demand, and records that were charged for an on-demand
\* attempt while another callback took their generation away.
StandardRows == {g \in Live : Standard(runners[g].rec.att)}
ChargedWithoutVM == {j \in Jobs : jobs[j].vm = NoGen /\ Standard(jobs[j].att)}

\* The on-demand counter never under-counts, so the number of on-demand VMs
\* stays within max_on_demand_runners whatever the callbacks do.
OnDemandBounded ==
  /\ Cardinality(StandardRows) + Cardinality(ChargedWithoutVM) <= fleet.Standard
  /\ fleet.Standard <= MaxOnDemand

\* A generation that some recorded observation names is never advertised as a
\* spare, and a spare has no owner: RecordAssignment races Detach, DeferRunner
\* and Adopt for it.
SparesUnassigned ==
  \A g \in Gens : runners[g].available =>
     runners[g].live /\ runners[g].owner = NoJob /\ ~Assigned(g)

\* A finished record says it is completed: no late status write and no delayed
\* webhook turns it back into demand.
TerminalIsCompleted ==
  \A j \in Jobs : jobs[j].terminal => jobs[j].status = "completed"

\* Completion is never forgotten, however late and in whichever order webhooks and
\* workers write: not a job's, nor the status that says so, and not an assignment's,
\* and a generation's first recorded job is its job for good.
CompletionSticks ==
  [][/\ TerminalIsCompleted'
     /\ \A j \in Jobs : jobs[j].terminal => jobs'[j].terminal
     /\ \A g \in Gens :
          /\ assignments[g].done => assignments'[g].done
          /\ Assigned(g) => assignments'[g].job = assignments[g].job]_storeVars

\* The ledger is an implementation of bounded single-use reservations.
Abstract == INSTANCE Reservations WITH reserved <- Live, spent <- names
ImplementsReservations == Abstract!Spec
=============================================================================
