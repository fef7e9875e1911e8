----------------------------- MODULE Lifecycle ------------------------------
(***************************************************************************)
(* The callbacks that drive the store: the create worker (processJob), the *)
(* delete worker (deleteRunner), the webhook (observe), the orphan sweep   *)
(* and the reconciliation of detached runners, interleaved at every call   *)
(* they make to Firestore, Compute or GitHub, and crashing at any of them. *)
(*                                                                         *)
(* Compute and GitHub are the environment: an insert is accepted and       *)
(* settles later, VMs stop on their own, GitHub gives a queued job to any  *)
(* online runner, and webhooks arrive late, repeatedly, in any order or    *)
(* never.                                                                  *)
(***************************************************************************)
EXTENDS FleetStore

\* Bound: the faults a run explores, among "crash" (an instance dies between any
\* two calls), "reject" (Compute refuses an insert as a bad request), "refuse" (it
\* refuses the repetition of an insert it had accepted), "exhaust" (Firestore
\* refuses to record the operation with ResourceExhausted) and "override" (the
\* machine a job asks for is not among the allowed ones).
CONSTANT Faults

ASSUME LifecycleAssumption ==
  Faults \subseteq {"crash", "reject", "refuse", "exhaust", "override"}

VARIABLES
  inst,   \* Compute: generation -> attempt -> insert operation and VM
  run,    \* GitHub: generation -> runner registration
  ghJob,  \* GitHub: job -> status
  ranOn,  \* GitHub: job -> runner_name
  astray, \* history: generations an accepted attempt of which was cleared as refused
  wk      \* the callback each Cloud Run worker slot is executing

world == <<inst, run, ghJob, ranOn, astray>>
vars == <<storeVars, world, wk>>

(***************************************************************************)
(* Compute.  Inserts of one generation differ by attempt (zone, model,     *)
(* machine), and so does their request ID; a second insert with the same   *)
(* request ID attaches to the first one's operation.                       *)
(***************************************************************************)
InstStates == {"none", "pending", "failed", "up", "stopped", "gone"}
UpIn(g) == {a \in Attempts : inst[g][a] = "up"}
Visible(g) == {a \in Attempts : inst[g][a] \in {"up", "stopped"}}
Existing(g) == {a \in Attempts : inst[g][a] \in {"pending", "up", "stopped"}}
Accepted(g, a) == inst[g][a] \in {"pending", "up", "stopped", "gone"}

\* DeleteInstance: the VM is deleted in the first of the zones that has it, and it
\* is a success when none does.  The runner on it goes offline.  (Where a generation
\* has two VMs any may come first, and the runner of the other one is back online
\* with its next connection.)
DeleteInstance(g, zones) ==
  /\ IF Visible(g) \cap zones = {} THEN UNCHANGED <<inst, run>>
     ELSE \E a \in Visible(g) \cap zones :
            /\ inst' = [inst EXCEPT ![g][a] = "gone"]
            /\ run' = [run EXCEPT ![g] =
                         IF @ \in {"online", "busy"} THEN "offline" ELSE @]
  /\ UNCHANGED <<ghJob, ranOn, astray>>

(***************************************************************************)
(* Worker slots.  r is processJob's local copy of the record, st the       *)
(* status it read, last the attempt the plan resumes after.                *)
(***************************************************************************)
LocalRec == [vm : Gens \cup {NoGen}, att : Attempts \cup {0}, op : BOOLEAN,
             jit : BOOLEAN, created : BOOLEAN, terminal : BOOLEAN,
             failure : BOOLEAN]
Local(r) == [vm |-> r.vm, att |-> r.att, op |-> r.op, jit |-> r.jit,
             created |-> r.created, terminal |-> r.terminal,
             failure |-> r.failure]
Idle == [pc |-> "idle", job |-> NoJob, gen |-> NoGen, r |-> Local(NoRecord),
         st |-> "none", last |-> 0, spare |-> FALSE, perm |-> FALSE]

Leased == {"ask", "note", "adopt", "reread", "look", "reg", "rest", "del",
           "rel", "detach", "keep", "delstop", "resolve", "recheck", "settle",
           "relgone", "due", "plan", "reljit", "reserve", "jit", "savejit",
           "attempt", "insert", "recop", "wait", "created", "clear", "unlease"}
Unleased == {"park", "oasg", "dasg", "ddel", "drel", "dupd",
             "rlook", "rreg", "rrest", "rdel", "rrel", "rdefer"}

At(w, pc) == wk[w].pc = pc
Goto(w, pc) == wk' = [wk EXCEPT ![w].pc = pc]
Become(w, v) == wk' = [wk EXCEPT ![w] = v]
Done(w) == wk' = [wk EXCEPT ![w] = Idle]

\* A local variable that the rest of the pass does not read is forgotten.
Only(v, pc) == [Idle EXCEPT !.pc = pc, !.job = v.job]
Gone(v) == [Only(v, "relgone") EXCEPT !.st = v.st]
Return(w) == Become(w, Only(wk[w], "unlease"))
Permanent(w) == Become(w, [Only(wk[w], "unlease") EXCEPT !.perm = TRUE])

Init ==
  /\ StoreInit
  /\ inst = [g \in Gens |-> [a \in Attempts |-> "none"]]
  /\ run = [g \in Gens |-> "none"]
  /\ ghJob = [j \in Jobs |-> "none"]
  /\ ranOn = [j \in Jobs |-> NoGen]
  /\ astray = {}
  /\ wk = [w \in Workers |-> Idle]

-----------------------------------------------------------------------------
(***************************************************************************)
(* Is generation g serving a job?  The recorded assignment outranks the    *)
(* registration, and only GitHub's confirmation of its job's completion,   *)
(* recorded here, retires it.  The registration endpoint may lag and show  *)
(* a busy runner as idle.                                                  *)
(***************************************************************************)
RestSays(g) ==
  CASE run[g] = "none" -> {"gone"}
    [] run[g] = "online" -> {"idle"}
    [] run[g] = "busy" -> {"busy", "idle"}
    [] OTHER -> {run[g]}

\* checkAssignment: active says the assigned job is not known to be completed.  The
\* read, GitHub's answer and the write are one step: the job an assignment names
\* never changes, "completed" is final at both ends and the write is idempotent, so
\* what others do between them makes no difference.
CheckAssignment(g, active) ==
  LET a == assignments[g] IN
  IF a.job = NoJob \/ a.done
  THEN ~active /\ UNCHANGED storeVars
  ELSE IF ghJob[a.job] = "completed"
       THEN ~active /\ RecordAssignment(a.job, g, "completed")
       ELSE active /\ UNCHANGED storeVars

\* Mutant: the registration endpoint is asked whatever was recorded.
CapacityRegistrationRest(g, reg) == reg = "unassigned" /\ UNCHANGED storeVars

\* capacityRegistration.  A recorded assignment decides.  Without one the PAT, the
\* runner's ID and the registration are read, in later calls (RestSays): an
\* assignment recorded meanwhile is not seen.
CapacityRegistration(g, reg) ==
  IF Assigned(g)
  THEN \E active \in BOOLEAN : /\ CheckAssignment(g, active)
                               /\ reg = IF active THEN "busy" ELSE "gone"
  ELSE reg = "unassigned" /\ UNCHANGED storeVars

Evidence == {"busy", "gone", "unassigned"}

\* offlineExpired depends on the clock, so an offline runner may or may not
\* have used up its registration grace.
Reclaimable(reg, terminal, expired) ==
  \/ reg = "gone"
  \/ terminal /\ reg # "busy"
  \/ reg = "offline" /\ expired

-----------------------------------------------------------------------------
(***************************************************************************)
(* processJob, part 1: lease, status, adoption.                            *)
(***************************************************************************)
StartJob(w, j) ==
  /\ At(w, "idle")
  /\ Claim(j, w)
  /\ Become(w, [Idle EXCEPT !.pc = IF jobs[j].terminal THEN "note" ELSE "ask",
                            !.job = j, !.st = "completed"])
  /\ UNCHANGED world

AskStatus(w) ==
  /\ At(w, "ask")
  /\ \E s \in {ghJob[wk[w].job], "error"} :
       Become(w, [wk[w] EXCEPT !.st = s, !.pc = "note"])
  /\ UNCHANGED <<storeVars, world>>

\* Where processJob goes once nothing is left to find out about the VM.
Gate(r, st) ==
  CASE st = "error" -> "unlease"
    [] st # "error" /\ r.terminal -> IF r.vm # NoGen /\ r.att = 0 THEN "rel"
                                     ELSE "unlease"
    [] OTHER -> IF r.failure THEN "unlease" ELSE "due"
GateOf(r, v) ==
  LET pc == Gate(r, v.st) IN
  IF pc = "due" THEN [v EXCEPT !.r = r, !.pc = pc]
  ELSE [Only(v, pc) EXCEPT !.perm = v.st # "error" /\ ~r.terminal /\ r.failure]
Examine(r, v) == IF r.vm # NoGen THEN [v EXCEPT !.r = r, !.pc = "look"]
                 ELSE GateOf(r, v)

NoteStatusRead(w) ==
  LET v == wk[w] IN
  /\ At(w, "note")
  /\ NoteStatus(v.job, w, v.st)
  /\ LET r == Local(jobs'[v.job]) IN
     Become(w, IF v.st = "queued" /\ r.vm = NoGen
               THEN [v EXCEPT !.r = r, !.pc = "adopt"] ELSE Examine(r, v))
  /\ UNCHANGED world

TryAdopt(w) ==
  LET v == wk[w] IN
  /\ At(w, "adopt")
  /\ Adopt(v.job, w)
  /\ Become(w, IF jobs' # jobs THEN [v EXCEPT !.pc = "reread"]
               ELSE Examine(v.r, v))
  /\ UNCHANGED world

Reread(w) ==
  LET v == wk[w] IN
  /\ At(w, "reread")
  /\ Holds(v.job, w)
  /\ Become(w, Examine(Local(jobs[v.job]), v))
  /\ UNCHANGED <<storeVars, world>>

-----------------------------------------------------------------------------
(***************************************************************************)
(* processJob, part 2: what became of the VM the record names.             *)
(***************************************************************************)
LookAtInstance(w) ==
  LET v == wk[w]
      r == v.r IN
  /\ At(w, "look")
  /\ \/ /\ UpIn(r.vm) # {}
        /\ IF v.st = "error" THEN Return(w) ELSE Goto(w, "reg")
     \/ /\ Visible(r.vm) \ UpIn(r.vm) # {}
        /\ Goto(w, "delstop")
     \/ /\ Visible(r.vm) = {}
        /\ CASE r.created -> Become(w, Gone(v))
             [] ~r.created /\ r.att # 0 -> Goto(w, "resolve")
             [] OTHER -> Become(w, GateOf(r, v))
  /\ UNCHANGED <<storeVars, world>>

\* A running VM is deleted, detached or kept by what its registration says.
DecideRunning(w, reg) ==
  LET v == wk[w] IN
  \E expired \in BOOLEAN :
    CASE Reclaimable(reg, v.r.terminal, expired) -> Goto(w, "del")
      [] ~Reclaimable(reg, v.r.terminal, expired)
         /\ (v.st # "queued" \/ reg = "busy") ->
           Become(w, [Only(v, "detach") EXCEPT
                        !.spare = reg = "idle" /\ ~v.r.terminal])
      [] OTHER -> Become(w, Only(v, "keep"))

LookAtAssignment(w) ==
  /\ At(w, "reg")
  /\ \E reg \in Evidence :
       /\ CapacityRegistration(wk[w].r.vm, reg)
       /\ IF reg = "unassigned" THEN Goto(w, "rest") ELSE DecideRunning(w, reg)
  /\ UNCHANGED world

LookAtRegistration(w) ==
  /\ At(w, "rest")
  /\ \E reg \in RestSays(wk[w].r.vm) : DecideRunning(w, reg)
  /\ UNCHANGED <<storeVars, world>>

DeleteOwned(w) ==
  /\ At(w, "del") \/ At(w, "delstop")
  /\ DeleteInstance(wk[w].r.vm, Attempts)
  /\ Become(w, IF At(w, "del") THEN Only(wk[w], "rel") ELSE Gone(wk[w]))
  /\ UNCHANGED storeVars

\* releaseReservation as the last write of the pass.
ReleaseAndReturn(w) ==
  /\ At(w, "rel")
  /\ ReleaseOwned(wk[w].job, w)
  /\ Return(w)
  /\ UNCHANGED world

DetachVM(w) ==
  /\ At(w, "detach")
  /\ Detach(wk[w].job, w, wk[w].spare)
  /\ Return(w)
  /\ UNCHANGED world

KeepVM(w) ==
  /\ At(w, "keep") \/ At(w, "created")
  /\ SaveCreated(wk[w].job, w)
  /\ Return(w)
  /\ UNCHANGED world

\* Mutant: an operation that has not finished ends the attempt as well.
ResolveAttemptEagerly(w) ==
  /\ At(w, "resolve")
  /\ \E stockout \in BOOLEAN :
       /\ stockout => inst[wk[w].r.vm][wk[w].r.att] = "failed"
       /\ Become(w, [wk[w] EXCEPT !.pc = "recheck", !.spare = stockout])
  /\ UNCHANGED <<storeVars, world>>

\* resolveAttempt.  An unfinished operation keeps the attempt; a missing one
\* ends it only if its name had been recorded or the worker that could have
\* sent it is long past its deadline.
ResolveAttempt(w) ==
  LET v == wk[w]
      o == inst[v.r.vm][v.r.att] IN
  /\ At(w, "resolve")
  /\ \/ o = "pending" /\ Become(w, GateOf(v.r, v))
     \/ o = "none" /\ ~v.r.op /\ Become(w, GateOf(v.r, v))
     \/ o # "pending" /\ \E stockout \in BOOLEAN :
          /\ stockout => o = "failed"
          /\ Become(w, [v EXCEPT !.pc = "recheck", !.spare = stockout])
  /\ UNCHANGED <<storeVars, world>>

\* The operation may finish after the first lookup of the instance.
RecheckInstance(w) ==
  LET v == wk[w] IN
  /\ At(w, "recheck")
  /\ CASE Visible(v.r.vm) # {} -> Return(w)
       [] Visible(v.r.vm) = {} /\ v.spare ->
            Become(w, [v EXCEPT !.spare = FALSE, !.pc = "settle"])
       [] OTHER -> Become(w, Gone(v))
  /\ UNCHANGED <<storeVars, world>>

SettleStockout(w) ==
  LET v == wk[w] IN
  /\ At(w, "settle")
  /\ ClearAttempt(v.job, w)
  /\ Become(w, GateOf(Local(jobs'[v.job]), [v EXCEPT !.last = v.r.att]))
  /\ UNCHANGED world

ReleaseAndContinue(w) ==
  LET v == wk[w] IN
  /\ At(w, "relgone")
  /\ ReleaseOwned(v.job, w)
  /\ Become(w, GateOf(Local(jobs'[v.job]), v))
  /\ UNCHANGED world

-----------------------------------------------------------------------------
(***************************************************************************)
(* processJob, part 3: admission, credential and the creation attempts.    *)
(***************************************************************************)
Reschedule(w) ==
  LET v == wk[w] IN
  /\ At(w, "due")
  /\ SetDue(v.job, w, v.st)
  /\ CASE v.st = "queued" -> Goto(w, "plan")
       [] v.st # "queued" /\ v.r.vm # NoGen /\ v.r.att = 0 ->
            Become(w, Only(v, "rel"))
       [] OTHER -> Return(w)
  /\ UNCHANGED world

\* The credential of a generation that no insert was submitted for may have
\* outlived its 45 minutes.  Then a machine override that the configuration does
\* not allow (an operator may change it between passes) is a permanent error.
Credentialed(r, v) ==
  [Only(v, IF r.jit THEN "attempt" ELSE "jit") EXCEPT !.r = r, !.last = v.last]
Prepare(w, r, v) ==
  \/ "override" \in Faults /\ Permanent(w)
  \/ r.vm = NoGen /\ Become(w, [Only(v, "reserve") EXCEPT !.last = v.last])
  \/ r.vm # NoGen /\ Become(w, Credentialed(r, v))

CheckCredential(w) ==
  LET v == wk[w] IN
  /\ At(w, "plan")
  /\ \/ Prepare(w, v.r, v)
     \/ v.r.vm # NoGen /\ v.r.att = 0 /\ v.r.jit /\ Goto(w, "reljit")
  /\ UNCHANGED <<storeVars, world>>

ReleaseStaleCredential(w) ==
  LET v == wk[w] IN
  /\ At(w, "reljit")
  /\ ReleaseOwned(v.job, w)
  /\ Prepare(w, Local(jobs'[v.job]), v)
  /\ UNCHANGED world

ReserveSlot(w) ==
  LET v == wk[w] IN
  /\ At(w, "reserve")
  /\ \/ /\ \E g \in Gens : Reserve(v.job, w, g)
        /\ Become(w, Credentialed(Local(jobs'[v.job]), v))
     \/ /\ jobs[v.job].terminal \/ FleetFull
        /\ Return(w)
        /\ UNCHANGED storeVars
  /\ UNCHANGED world

\* GenerateRunnerJitConfig registers the runner; a registration left by a lost
\* call is deleted and replaced.
GenerateJIT(w) ==
  /\ At(w, "jit")
  /\ run' = [run EXCEPT ![wk[w].r.vm] = "offline"]
  /\ Become(w, [wk[w] EXCEPT !.r = Local(NoRecord), !.pc = "savejit"])
  /\ UNCHANGED <<storeVars, inst, ghJob, ranOn, astray>>

StoreJIT(w) ==
  LET v == wk[w] IN
  /\ At(w, "savejit")
  /\ SaveJIT(v.job, w)
  /\ Become(w, Credentialed(Local(jobs'[v.job]), v))
  /\ UNCHANGED world

\* The attempt to make now: the saved one first, then those after it.  The
\* write includes the counters only if the local copy says the model changes;
\* a job-only write that turns out to change them is refused, like a failure.
NextAttempt(v) == IF v.r.att # 0 THEN v.r.att ELSE v.last + 1

ChangeAttempt(w) ==
  LET v == wk[w]
      a == NextAttempt(v) IN
  /\ At(w, "attempt")
  /\ \/ /\ a \in Attempts
        /\ Standard(v.r.att) = Standard(a) => Standard(jobs[v.job].att) = Standard(a)
        /\ SaveAttempt(v.job, w, a)
        /\ Become(w, [v EXCEPT !.r = Local(jobs'[v.job]), !.last = a,
                               !.pc = "insert"])
     \/ /\ a \in Attempts => AttemptRefused(v.job, a)
        /\ Return(w)
        /\ UNCHANGED storeVars
  /\ UNCHANGED world

\* Compute answers an insert: it accepts it, attaches it to the operation of
\* the same request ID, reports the VM exists, or rejects it for good with a
\* stockout, a rate limit or (perm) as a bad request.  An empty name is a bad
\* request.  An operation on record keeps a rejection from settling the attempt;
\* without one, the worker cannot tell that Compute had accepted it before.
Insert(w) ==
  LET v == wk[w]
      g == v.r.vm
      a == v.last
      go(pc) == [Only(v, pc) EXCEPT !.gen = g, !.last = a] IN
  /\ At(w, "insert")
  /\ \/ /\ g # NoGen /\ inst[g][a] \in {"none", "failed"}
        /\ inst' = [inst EXCEPT ![g][a] = "pending"]
        /\ Become(w, [go("recop") EXCEPT !.r.op = v.r.op])
     \/ /\ g # NoGen /\ inst[g][a] \in {"pending", "failed", "gone"}
        /\ Become(w, [go("recop") EXCEPT !.r.op = v.r.op])
        /\ UNCHANGED inst
     \/ /\ g # NoGen /\ a \in Visible(g)
        /\ Become(w, Only(v, "created"))
        /\ UNCHANGED inst
     \/ /\ ~v.r.op
        /\ \E perm \in BOOLEAN :
             /\ perm => g = NoGen \/ "reject" \in Faults
             /\ g = NoGen => perm
             /\ g # NoGen => \/ inst[g][a] \in {"none", "failed"}
                             \/ "refuse" \in Faults
             /\ Become(w, [go("clear") EXCEPT !.perm = perm,
                              !.spare = g # NoGen /\ Accepted(g, a)])
        /\ UNCHANGED inst
  /\ UNCHANGED <<storeVars, run, ghJob, ranOn, astray>>

\* Firestore refusing the write before the record is read (a ResourceExhausted)
\* reads like a stockout of Compute, and no operation is known yet.
RecordOperation(w) ==
  LET v == wk[w] IN
  /\ At(w, "recop")
  /\ \/ /\ SaveOperation(v.job, w)
        /\ Become(w, [v EXCEPT !.pc = "wait", !.r.op = FALSE])
     \/ /\ "exhaust" \in Faults /\ ~v.r.op
        /\ Become(w, [v EXCEPT !.pc = "clear", !.spare = Accepted(v.gen, v.last)])
        /\ UNCHANGED storeVars
  /\ UNCHANGED world

\* Mutant: a wait that times out counts as a stockout.
WaitForOperationImpatient(w) ==
  /\ At(w, "wait")
  /\ \/ /\ inst[wk[w].gen][wk[w].last] \in {"up", "stopped", "gone"}
        /\ Become(w, Only(wk[w], "created"))
     \/ /\ inst[wk[w].gen][wk[w].last] \in {"pending", "failed"}
        /\ Goto(w, "clear")
  /\ UNCHANGED <<storeVars, world>>

\* op.Wait.  Only a settled operation may clear the attempt; a wait that times
\* out is the Fail step, which keeps it.
WaitForOperation(w) ==
  LET v == wk[w]
      o == inst[v.gen][v.last] IN
  /\ At(w, "wait")
  /\ \/ /\ o \in {"up", "stopped", "gone"}
        /\ Become(w, Only(v, "created"))
     \/ /\ o = "failed"
        /\ \E perm \in BOOLEAN :
             /\ perm => "reject" \in Faults
             /\ Become(w, [v EXCEPT !.perm = perm, !.pc = "clear"])
  /\ UNCHANGED <<storeVars, world>>

\* A stockout goes on with the next attempt; a rate limit clears too and then
\* returns, which is the Fail step after this one.  The generation is astray when
\* Compute had accepted the insert that was refused (spare).
ClearFailedAttempt(w) ==
  LET v == wk[w] IN
  /\ At(w, "clear")
  /\ ClearAttempt(v.job, w)
  /\ astray' = IF v.spare /\ Accepted(v.gen, v.last)
               THEN astray \cup {v.gen} ELSE astray
  /\ IF v.perm THEN Permanent(w)
     ELSE Become(w, [Only(v, "attempt") EXCEPT !.r = Local(jobs'[v.job]),
                                               !.last = v.last])
  /\ UNCHANGED <<inst, run, ghJob, ranOn>>

\* processJob's deferred lease release, then finishTask: only a permanent error
\* touches the record's capacity, and only while the task's token is current.
FinishJob(w) ==
  LET v == wk[w] IN
  /\ At(w, "unlease")
  /\ ReleaseLease(v.job, w)
  /\ IF v.perm THEN Become(w, [Idle EXCEPT !.pc = "park", !.job = v.job])
     ELSE Done(w)
  /\ UNCHANGED world

FinishPermanent(w) ==
  /\ At(w, "park")
  /\ Park(wk[w].job) \/ UNCHANGED storeVars
  /\ Done(w)
  /\ UNCHANGED world

ProcessJob(w) ==
  \/ \E j \in Jobs : StartJob(w, j)
  \/ AskStatus(w) \/ NoteStatusRead(w) \/ TryAdopt(w) \/ Reread(w)
  \/ LookAtInstance(w) \/ LookAtAssignment(w) \/ LookAtRegistration(w)
  \/ DeleteOwned(w)
  \/ ReleaseAndReturn(w) \/ DetachVM(w) \/ KeepVM(w) \/ ResolveAttempt(w)
  \/ RecheckInstance(w) \/ SettleStockout(w) \/ ReleaseAndContinue(w)
  \/ Reschedule(w) \/ CheckCredential(w) \/ ReleaseStaleCredential(w)
  \/ ReserveSlot(w) \/ GenerateJIT(w) \/ StoreJIT(w) \/ ChangeAttempt(w)
  \/ Insert(w) \/ RecordOperation(w) \/ WaitForOperation(w)
  \/ ClearFailedAttempt(w) \/ FinishJob(w) \/ FinishPermanent(w)

-----------------------------------------------------------------------------
(***************************************************************************)
(* observe, from a webhook or from discovery: two transactions.            *)
(***************************************************************************)
Webhook(w, j, status) ==
  LET g == IF status = "queued" THEN NoGen ELSE ranOn[j] IN
  /\ At(w, "idle")
  /\ CASE status = "queued" -> ghJob[j] # "none"
       [] status = "in_progress" -> ranOn[j] # NoGen
       [] status = "completed" -> ghJob[j] = "completed"
  /\ ObserveJob(j, status, status = "completed", g)
  /\ IF g = NoGen THEN UNCHANGED wk
     ELSE Become(w, [Idle EXCEPT !.pc = "oasg", !.job = j, !.gen = g,
                                 !.st = status])
  /\ UNCHANGED world

ObserveAssignment(w) ==
  LET v == wk[w] IN
  /\ At(w, "oasg")
  /\ \/ RecordAssignment(v.job, v.gen, v.st)
     \/ assignments[v.gen].job \notin {v.job, NoJob} /\ UNCHANGED storeVars
  /\ Done(w)
  /\ UNCHANGED world

(***************************************************************************)
(* deleteRunner: no lease, only the assignment protects the VM.            *)
(***************************************************************************)
StartDelete(w, j) ==
  /\ At(w, "idle")
  /\ jobs[j].pd # NoGen
  /\ Become(w, [Idle EXCEPT !.pc = "dasg", !.job = j, !.gen = jobs[j].pd])
  /\ UNCHANGED <<storeVars, world>>

DeleteCheck(w) ==
  /\ At(w, "dasg")
  /\ \E active \in BOOLEAN :
       /\ CheckAssignment(wk[w].gen, active)
       /\ IF active THEN Done(w) ELSE Goto(w, "ddel")
  /\ UNCHANGED world

\* The sweep deletes in the zone that it listed (last), the others wherever it is.
DeleteVM(w) ==
  LET v == wk[w] IN
  /\ At(w, "ddel") \/ At(w, "rdel")
  /\ DeleteInstance(v.gen, IF v.last = 0 THEN Attempts ELSE {v.last})
  /\ Become(w, [v EXCEPT !.pc = IF At(w, "ddel") THEN "drel" ELSE "rrel", !.last = 0])
  /\ UNCHANGED storeVars

DeleteRelease(w) ==
  /\ At(w, "drel")
  /\ ReleaseRunner(wk[w].gen)
  /\ Goto(w, "dupd")
  /\ UNCHANGED world

DeleteFinish(w) ==
  /\ At(w, "dupd")
  /\ DeleteUpdate(wk[w].job, wk[w].gen)
  /\ Done(w)
  /\ UNCHANGED world

(***************************************************************************)
(* sweepOrphans reclaims stopped VMs; reconcileRunners then walks the rows *)
(* that had no owner when the page was read.                               *)
(***************************************************************************)
StartSweep(w, g) ==
  /\ At(w, "idle")
  /\ \E a \in Visible(g) \ UpIn(g) :
       Become(w, [Idle EXCEPT !.pc = "rdel", !.gen = g, !.last = a])
  /\ UNCHANGED <<storeVars, world>>

StartReconcile(w, g) ==
  /\ At(w, "idle")
  /\ runners[g].live /\ runners[g].owner = NoJob
  /\ Become(w, [Idle EXCEPT !.pc = "rlook", !.gen = g,
                            !.r.terminal = runners[g].rec.terminal])
  /\ UNCHANGED <<storeVars, world>>

RowLook(w) ==
  LET g == wk[w].gen IN
  /\ At(w, "rlook")
  /\ \/ UpIn(g) # {} /\ Goto(w, "rreg")
     \/ Visible(g) \ UpIn(g) # {} /\ Goto(w, "rdel")
     \/ Visible(g) = {} /\ Goto(w, "rrel")
  /\ UNCHANGED <<storeVars, world>>

DecideRow(w, reg) ==
  LET v == wk[w] IN
  \E expired \in BOOLEAN :
    Become(w, IF Reclaimable(reg, v.r.terminal, expired)
              THEN [v EXCEPT !.pc = "rdel"]
              ELSE [v EXCEPT !.pc = "rdefer", !.spare = reg = "idle"])

RowAssignment(w) ==
  /\ At(w, "rreg")
  /\ \E reg \in Evidence :
       /\ CapacityRegistration(wk[w].gen, reg)
       /\ IF reg = "unassigned" THEN Goto(w, "rrest") ELSE DecideRow(w, reg)
  /\ UNCHANGED world

RowRegistration(w) ==
  /\ At(w, "rrest")
  /\ \E reg \in RestSays(wk[w].gen) : DecideRow(w, reg)
  /\ UNCHANGED <<storeVars, world>>

RowRelease(w) ==
  /\ At(w, "rrel")
  /\ ReleaseRunner(wk[w].gen)
  /\ Done(w)
  /\ UNCHANGED world

\* Mutant: availability is written as it was read, whatever was recorded since.
RowDeferBlind(w) ==
  /\ At(w, "rdefer")
  /\ DeferRunnerBlind(wk[w].gen, wk[w].spare)
  /\ Done(w)
  /\ UNCHANGED world

RowDefer(w) ==
  /\ At(w, "rdefer")
  /\ DeferRunner(wk[w].gen, wk[w].spare)
  /\ Done(w)
  /\ UNCHANGED world

Maintain(w) ==
  \/ \E j \in Jobs, s \in Statuses : Webhook(w, j, s)
  \/ ObserveAssignment(w)
  \/ \E j \in Jobs : StartDelete(w, j)
  \/ DeleteCheck(w) \/ DeleteVM(w) \/ DeleteRelease(w) \/ DeleteFinish(w)
  \/ \E g \in Gens : StartSweep(w, g) \/ StartReconcile(w, g)
  \/ RowLook(w) \/ RowAssignment(w) \/ RowRegistration(w) \/ RowRelease(w)
  \/ RowDefer(w)

-----------------------------------------------------------------------------
(***************************************************************************)
(* Failures.  A failed call returns an error: processJob still releases    *)
(* its lease and the task is retried later.  A crash leaves the lease      *)
(* behind until it expires; it outlasts every worker that took it.         *)
(***************************************************************************)
Fail(w) ==
  /\ wk[w].pc \in Leased \ {"unlease"}
  /\ Return(w)
  /\ UNCHANGED <<storeVars, world>>

Crash(w) ==
  /\ "crash" \in Faults
  /\ wk[w].pc # "idle"
  /\ Done(w)
  /\ UNCHANGED <<storeVars, world>>

LeaseRunsOut(j) ==
  /\ ~ \E w \in Workers : wk[w].job = j /\ wk[w].pc \in Leased
  /\ ExpireLease(j)
  /\ UNCHANGED <<world, wk>>

-----------------------------------------------------------------------------
(***************************************************************************)
(* The environment.                                                        *)
(***************************************************************************)
GitHubQueues(j) ==
  /\ ghJob[j] = "none"
  /\ ghJob' = [ghJob EXCEPT ![j] = "queued"]
  /\ UNCHANGED <<inst, run, ranOn, astray>>

GitHubAssigns(j, g) ==
  /\ ghJob[j] = "queued" /\ run[g] = "online"
  /\ ghJob' = [ghJob EXCEPT ![j] = "in_progress"]
  /\ ranOn' = [ranOn EXCEPT ![j] = g]
  /\ run' = [run EXCEPT ![g] = "busy"]
  /\ UNCHANGED <<inst, astray>>

\* Cancelled in the queue, or finished (a lost runner's job is failed); a JIT
\* runner deregisters after its one job.
GitHubFinishes(j) ==
  /\ ghJob[j] \in {"queued", "in_progress"}
  /\ ghJob' = [ghJob EXCEPT ![j] = "completed"]
  /\ run' = IF ranOn[j] = NoGen THEN run ELSE [run EXCEPT ![ranOn[j]] = "gone"]
  /\ UNCHANGED <<inst, ranOn, astray>>

\* A re-run attempt replays a completed job under a new ID with the runner name
\* of the earlier attempt.
GitHubReplays(j, k) ==
  /\ ghJob[j] = "none" /\ ghJob[k] = "completed" /\ ranOn[k] # NoGen
  /\ ghJob' = [ghJob EXCEPT ![j] = "completed"]
  /\ ranOn' = [ranOn EXCEPT ![j] = ranOn[k]]
  /\ UNCHANGED <<inst, run, astray>>

OperationSettles(g, a) ==
  /\ inst[g][a] = "pending"
  /\ \E s \in {"up", "failed"} : inst' = [inst EXCEPT ![g][a] = s]
  /\ UNCHANGED <<run, ghJob, ranOn, astray>>

RunnerComesOnline(g) ==
  /\ run[g] = "offline" /\ UpIn(g) # {}
  /\ run' = [run EXCEPT ![g] = "online"]
  /\ UNCHANGED <<inst, ghJob, ranOn, astray>>

\* Preemption, self-shutdown after the job or after waiting for one.
VMStops(g, a) ==
  /\ inst[g][a] = "up"
  /\ inst' = [inst EXCEPT ![g][a] = "stopped"]
  /\ run' = [run EXCEPT ![g] = IF @ \in {"online", "busy"} THEN "offline" ELSE @]
  /\ UNCHANGED <<ghJob, ranOn, astray>>

Environment ==
  /\ \/ \E j \in Jobs : GitHubQueues(j) \/ GitHubFinishes(j)
     \/ \E j, k \in Jobs : GitHubReplays(j, k)
     \/ \E j \in Jobs, g \in Gens : GitHubAssigns(j, g)
     \/ \E g \in Gens, a \in Attempts : OperationSettles(g, a) \/ VMStops(g, a)
     \/ \E g \in Gens : RunnerComesOnline(g)
  /\ UNCHANGED <<storeVars, wk>>

Next ==
  \/ \E w \in Workers : ProcessJob(w) \/ Maintain(w) \/ Fail(w) \/ Crash(w)
  \/ \E j \in Jobs : LeaseRunsOut(j)
  \/ Environment

Spec == Init /\ [][Next]_vars

-----------------------------------------------------------------------------
(***************************************************************************)
(* Properties.                                                             *)
(***************************************************************************)

\* The local state of every callback and the environment have their shapes.
TypeOK ==
  /\ StoreTypeOK
  /\ inst \in [Gens -> [Attempts -> InstStates]]
  /\ run \in [Gens -> {"none", "offline", "online", "busy", "gone"}]
  /\ ghJob \in [Jobs -> Statuses \cup {"none"}]
  /\ ranOn \in [Jobs -> Gens \cup {NoGen}]
  /\ astray \subseteq Gens
  /\ wk \in [Workers ->
       [pc : Leased \cup Unleased \cup {"idle"}, job : Jobs \cup {NoJob},
        gen : Gens \cup {NoGen}, r : LocalRec,
        st : Statuses \cup {"none", "error"}, last : Attempts \cup {0},
        spare : BOOLEAN, perm : BOOLEAN]]

\* Every VM and every insert Compute may still complete is covered by a
\* reservation: a crash, an ambiguous insert, a duplicate callback or a delete
\* racing the create worker never leaves a VM the fleet limit does not count.  The
\* one exception is a generation whose accepted insert was refused when repeated
\* (ResolvedBeforeRelease).
NoLeakedVM == \A g \in Gens : Existing(g) # {} => g \in Live \cup astray

\* A generation exists at most once: an insert whose outcome is unknown is
\* settled before another zone is tried, unless Compute refuses its repetition.
OneVMPerGeneration == \A g \in Gens \ astray : Cardinality(Existing(g)) <= 1

\* As LIFECYCLE.md puts it: a zonal insert with an uncertain outcome is resolved
\* through its Compute operation before its reservation is released.
ResolvedBeforeRelease ==
  \A g \in Gens, a \in Attempts : inst[g][a] = "pending" => g \in Live

\* A callback inside processJob holds its job's lease, so two deliveries of one
\* task never run the pass together.
LeaseHeld ==
  \A w \in Workers : wk[w].pc \in Leased => jobs[wk[w].job].lease = w

\* Only GitHub's completion ends demand: no webhook order, stale read or
\* adoption makes a job terminal that GitHub still wants to run.
DemandNotLost ==
  \A j \in Jobs : jobs[j].terminal => ghJob[j] = "completed"

\* An assignment is retired only when its job has finished: from then on neither
\* the registration endpoint nor the delete worker is held back by it.
RetiredEvidenceIsTrue ==
  \A g \in Gens : assignments[g].done => ghJob[assignments[g].job] = "completed"

\* The recorded assignment of generation g names a job GitHub has not finished.
AssignmentLive(g) ==
  Assigned(g) /\ ~assignments[g].done /\ ghJob[assignments[g].job] # "completed"

\* Callbacks that may delete the VM of generation g without another look at its
\* assignment: they have read that it has none, or that it is over.
PastCheck(g) ==
  {w \in Workers : \/ wk[w].pc \in {"rest", "del", "delstop"} /\ wk[w].r.vm = g
                   \/ wk[w].pc \in {"ddel", "rrest", "rdel"} /\ wk[w].gen = g}

\* From the moment a live assignment is on record no further callback gets past its
\* check of a running VM, whatever the registration endpoint says, and only one that
\* had read before can still delete it: the window only closes.
EvidenceClosesWindow ==
  [][\A g \in Gens \ astray :
       AssignmentLive(g) /\ UpIn(g) # {} =>
         /\ PastCheck(g)' \subseteq PastCheck(g)
         /\ PastCheck(g) = {} => \A a \in UpIn(g) : inst'[g][a] # "gone"]_vars

\* The delete worker follows a completed event for the name it reports; since a
\* JIT runner serves one job, the runner of that name is not executing anything.
DeleteWorkerSparesJobs ==
  [][\A w \in Workers :
       At(w, "ddel") /\ wk'[w].pc = "drel" => run[wk[w].gen] # "busy"]_vars

\* Every step the callbacks take changes the store the way FleetStore allows, so
\* what holds of it for any callers holds here: no pass reserves twice, uses a
\* lease it lost or names a generation that was never reserved.
ImplementsStore == StoreSpec

\* As LIFECYCLE.md puts it: while completion is unconfirmed the generation is
\* protected from lifecycle deletion.
AssignedVMSurvives ==
  [][\A g \in Gens, a \in Attempts :
       inst[g][a] = "up" /\ inst'[g][a] = "gone" => ~AssignmentLive(g)]_vars

\* The audit's condition on the on-demand counter, whenever no callback is
\* between two steps: it equals the number of on-demand rows.
StandardExact ==
  (\A w \in Workers : wk[w].pc = "idle") =>
     fleet.Standard = Cardinality(StandardRows)
=============================================================================
