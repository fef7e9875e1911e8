---------------------------- MODULE AuditProofs -----------------------------
(***************************************************************************)
(* The audit raises no false alarm about a runner, for any number of jobs, *)
(* generations and workers, any plan and any faults.                       *)
(*                                                                         *)
(* The audit reads the ledger once and Compute zone by zone, while every   *)
(* callback goes on.  What makes the comparison sound is that a step which *)
(* leaves the counters alone neither makes nor ends a row, nor moves one   *)
(* between the models (RowsStay), and that a VM that was confirmed can     *)
(* only go (VisibleShrinks).                                               *)
(***************************************************************************)
EXTENDS Audit, LifecycleProofs

Models == {"", "spot", "standard"}
RowRec == [name : Gens, model : Models, created : BOOLEAN]
VMRec == [name : Gens, model : Models]
AuditRec == [on : BOOLEAN, counts : [Runners : Int, Standard : Int],
             rows : SUBSET RowRec, actual : SUBSET VMRec, zone : 0 .. Len(Plan),
             unmatched : SUBSET Gens, missing : SUBSET Gens, short : BOOLEAN]

\* The rows read are still the ledger's, up to attempts that cost nothing, and
\* the count read with them is theirs; a row confirmed to have a VM had one.
RowsCurrent(rows) ==
  /\ {r.name : r \in rows} = Live
  /\ Cardinality(rows) = fleet.Runners
  /\ \A r \in rows : /\ r.model = "standard" <=> Standard(runners[r.name].rec.att)
                     /\ r.created => EverUp(r.name)

\* What was listed is in the ledger with its model, and nothing of a confirmed
\* row that is there now was overlooked in the zones that are done, unless its
\* generation is astray.
ListingSound(a) ==
  /\ Unmatched(a.rows, a.actual) \subseteq astray
  /\ \A r \in a.rows : r.created /\ r.name \notin astray =>
       \A z \in Visible(r.name) : z <= a.zone => \E vm \in a.actual : vm.name = r.name

\* A runner reported as missing had a VM once and has none.
Lost(g) == g \in Live /\ EverUp(g) /\ Visible(g) = {}

AuditInv ==
  /\ audit \in AuditRec
  /\ audit.on => audit.counts = fleet
  /\ audit.on /\ audit.zone < Len(Plan) => RowsCurrent(audit.rows) /\ ListingSound(audit)
  /\ audit.unmatched \subseteq astray /\ ~audit.short
  /\ \A g \in audit.missing \ astray : Lost(g)

-----------------------------------------------------------------------------
(***************************************************************************)
(* The ledger while the counters stand still.                              *)
(***************************************************************************)
\* Rows that stay keep their model, on demand or not.
SameModels ==
  \A g \in Gens : runners[g].live /\ runners'[g].live =>
     (Standard(runners'[g].rec.att) <=> Standard(runners[g].rec.att))

\* A record that keeps its claim and pays the same keeps the model of its row.
LEMMA WriteJobModels ==
  ASSUME LedgerInv, NEW j \in Jobs, NEW r, SameClaim(j, r), WriteJob(j, r),
         Standard(r.att) <=> Standard(jobs[j].att)
  PROVE  SameModels
<1>1. r.vm \in Gens \cup {NoGen} /\ NoGen \notin Gens /\ runners \in [Gens -> RunnerRec]
  BY StoreAssumption DEF SameClaim, JobRec, LedgerInv, StoreTypeOK
<1>2. CASE r.vm = NoGen
  BY <1>2 DEF WriteJob, SameModels
<1>3. CASE r.vm # NoGen
  <2>1. runners' = [runners EXCEPT ![r.vm] = OwnedRow(j, r)]
    BY <1>3 DEF WriteJob
  <2>2. runners'[r.vm].rec.att = r.att /\ \A g \in Gens \ {r.vm} : runners'[g] = runners[g]
    BY <1>1, <1>3, <2>1 DEF OwnedRow, Snapshot
  <2>3. runners[r.vm].rec.att = jobs[j].att
    BY <1>3, OwnedRowSays DEF SameClaim
  <2>. QED BY <2>2, <2>3 DEF SameModels
<1>. QED BY <1>2, <1>3

\* Rows that are only advertised, or no longer, keep what they say.
LEMMA SameRowsModels ==
  ASSUME \A g \in Gens : runners'[g].rec = runners[g].rec
  PROVE  SameModels
  BY DEF SameModels

\* A claim passed on: the row says what it said, whoever owns it.
LEMMA PassingModels ==
  ASSUME LedgerInv, NEW j \in Jobs, NEW w,
         (\E b : Detach(j, w, b)) \/ Adopt(j, w)
  PROVE  SameModels
<1>1. /\ runners \in [Gens -> RunnerRec] /\ jobs[j] \in JobRec
      /\ jobs[j].vm \in Gens \cup {NoGen}
  BY DEF LedgerInv, StoreTypeOK, JobRec
<1>2. ASSUME NEW b, Detach(j, w, b) PROVE SameModels
  <2>1. CASE jobs[j].vm = NoGen
    BY <1>2, <2>1 DEF Detach, SameModels
  <2>2. CASE jobs[j].vm # NoGen
    <3>1. PICK row : /\ runners' = [runners EXCEPT ![jobs[j].vm] = row]
                     /\ row.rec = Snapshot(jobs[j])
      BY <1>2, <2>2 DEF Detach
    <3>2. /\ runners'[jobs[j].vm].rec.att = jobs[j].att
          /\ \A g \in Gens \ {jobs[j].vm} : runners'[g] = runners[g]
      BY <1>1, <2>2, <3>1 DEF Snapshot
    <3>3. runners[jobs[j].vm].rec.att = jobs[j].att
      BY <2>2, OwnedRowSays
    <3>. QED BY <3>2, <3>3 DEF SameModels
  <2>. QED BY <2>1, <2>2
<1>3. CASE Adopt(j, w)
  <2> DEFINE known == {g \in Spares(j) : Assigned(g)}
             pruned == [g \in Gens |-> IF g \in known
                           THEN [runners[g] EXCEPT !.available = FALSE]
                           ELSE runners[g]]
  <2>1. /\ \A g \in Gens : pruned[g].rec = runners[g].rec /\ pruned[g] \in RunnerRec
        /\ pruned \in [Gens -> RunnerRec]
    BY <1>1 DEF RunnerRec
  <2>2. \/ runners' \in {runners, pruned}
        \/ \E g \in Spares(j) : \E q :
             /\ q = [jobs[j] EXCEPT !.vm = g, !.att = runners[g].rec.att,
                       !.op = runners[g].rec.op, !.jit = runners[g].rec.jit,
                       !.created = runners[g].rec.created, !.terminal = FALSE,
                       !.failure = FALSE, !.pd = NoGen]
             /\ runners' = [pruned EXCEPT ![g] =
                  [pruned[g] EXCEPT !.owner = j, !.available = FALSE,
                                    !.rec = Snapshot(q)]]
    BY <1>3 DEF Adopt
  <2> HIDE DEF pruned
  <2>3. CASE runners' \in {runners, pruned}
    BY <2>1, <2>3, SameRowsModels
  <2>4. ASSUME NEW g \in Spares(j), NEW q,
               q = [jobs[j] EXCEPT !.vm = g, !.att = runners[g].rec.att,
                      !.op = runners[g].rec.op, !.jit = runners[g].rec.jit,
                      !.created = runners[g].rec.created, !.terminal = FALSE,
                      !.failure = FALSE, !.pd = NoGen],
               runners' = [pruned EXCEPT ![g] =
                 [pruned[g] EXCEPT !.owner = j, !.available = FALSE, !.rec = Snapshot(q)]]
        PROVE  SameModels
    <3>1. g \in Gens
      BY DEF Spares, Live
    <3>2. q.att = runners[g].rec.att
      BY <1>1, <2>4 DEF JobRec
    <3>3. runners'[g].rec = Snapshot(q)
      <4>1. pruned[g] \in RunnerRec
        BY <2>1, <3>1
      <4>. QED BY <2>1, <2>4, <3>1, <4>1 DEF RunnerRec
    <3>4. \A h \in Gens \ {g} : runners'[h] = pruned[h]
      BY <2>1, <2>4, <3>1
    <3>. QED BY <2>1, <3>2, <3>3, <3>4 DEF Snapshot, SameModels
  <2>. QED BY <2>2, <2>3, <2>4
<1>. QED BY <1>2, <1>3

\* Any transaction that leaves the counters alone leaves the rows and their models.
LEMMA RowsStay ==
  ASSUME LedgerInv, [StoreNext]_storeVars, UNCHANGED fleet
  PROVE  Live' = Live /\ SameModels
<1>1. /\ fleet \in [Runners : Int, Standard : Int] /\ fleet.Runners \in Int
      /\ fleet.Standard \in Int /\ runners \in [Gens -> RunnerRec] /\ names \subseteq Gens
  BY DEF LedgerInv, StoreTypeOK
<1>2. Live' = Live
  <2>1. Moves
    BY StepKeeps DEF Kept
  <2>. QED BY <1>1, <2>1 DEF Moves, Stays, Ends, Begins
<1>3. CASE UNCHANGED storeVars
  <2>1. runners' = runners
    BY <1>3 DEF storeVars
  <2>. QED BY <1>2, <2>1, SameRowsModels
<1>4. ASSUME NEW j \in Jobs, RecordWrite(j) PROVE SameModels
  BY <1>4, WriteJobModels DEF RecordWrite
<1>5. ASSUME NEW j \in Jobs, ReleaseWrite(j) PROVE SameModels
  <2>1. PICK r : /\ SameClaim(j, r) /\ r.att = jobs[j].att
                 /\ ReleaseReservation(j, r) \/ WriteCapacity(j, r, fleet)
    BY <1>5 DEF ReleaseWrite
  <2>2. CASE WriteCapacity(j, r, fleet)
    BY <2>1, <2>2, SameClaimIsJobWrite, WriteJobModels
  <2>3. CASE ReleaseReservation(j, r)
    <3>1. PICK q : q = Unreserved(r) /\ WriteCapacity(j, q, CountsWithout(r))
      BY <2>3 DEF ReleaseReservation
    <3>2. fleet'.Runners = fleet.Runners - (IF r.vm # NoGen THEN 1 ELSE 0)
      BY <3>1 DEF WriteCapacity, CountsWithout
    <3>3. r.vm = NoGen
      BY <1>1, <3>2
    <3>4. /\ q \in JobRec /\ q.vm = NoGen /\ q.terminal = r.terminal
          /\ q.status = r.status
      BY <2>1, <3>1 DEF Unreserved, SameClaim, JobRec
    <3>5. SameClaim(j, q)
      BY <2>1, <3>3, <3>4 DEF SameClaim
    <3>6. runners' = runners
      BY <3>1, <3>4, <3>5, SameClaimIsJobWrite DEF WriteJob
    <3>. QED BY <3>6, SameRowsModels
  <2>. QED BY <2>1, <2>2, <2>3
<1>6. ASSUME NEW j \in Jobs, NEW w \in Workers, LeasedStep(j, w) PROVE SameModels
  <2>1. CASE (\E a \in Attempts : SaveAttempt(j, w, a)) \/ ClearAttempt(j, w)
    <3>1. PICK r, c : /\ WriteCapacity(j, r, c) /\ SameClaim(j, r)
                      /\ c.Standard = fleet.Standard + Bit(Standard(r.att))
                                        - Bit(Standard(jobs[j].att))
      BY <2>1, AttemptWrites DEF AttemptWrite
    <3>2. c = fleet
      BY <3>1 DEF WriteCapacity
    <3>3. Standard(r.att) <=> Standard(jobs[j].att)
      BY <1>1, <3>1, <3>2 DEF Bit
    <3>. QED BY <3>1, <3>3, SameClaimIsJobWrite, WriteJobModels
  <2>2. ASSUME NEW g \in Gens, Reserve(j, w, g) PROVE FALSE
    <3>1. fleet' = [fleet EXCEPT !.Runners = @ + 1]
      BY <2>2 DEF Reserve, WriteCapacity
    <3>2. fleet'.Runners = fleet.Runners + 1
      BY <1>1, <3>1
    <3>. QED BY <1>1, <3>2
  <2>3. CASE (\E b \in BOOLEAN : Detach(j, w, b)) \/ Adopt(j, w)
    BY <2>3, PassingModels
  <2>4. CASE ReleaseOwned(j, w)
    BY <1>5, <2>4, ReleaseWrites
  <2>. QED BY <1>4, <1>6, <2>1, <2>2, <2>3, <2>4, RecordWrites DEF LeasedStep
<1>7. ASSUME NEW g \in names,
             \/ \E j \in Jobs, s \in Statuses : RecordAssignment(j, g, s)
             \/ ReleaseRunner(g)
             \/ \E b \in BOOLEAN : DeferRunner(g, b)
      PROVE  SameModels
  <2>1. (\E a : runners' = [runners EXCEPT ![g].available = a]) \/ runners' = runners
    <3>1. CASE ReleaseRunner(g)
      <4>1. runners' = runners \/ fleet'.Runners = fleet.Runners - 1
        BY <3>1 DEF ReleaseRunner
      <4>. QED BY <1>1, <4>1
    <3>. QED BY <1>7, <3>1 DEF RecordAssignment, DeferRunner
  <2>2. \A h \in Gens : runners'[h].rec = runners[h].rec
    BY <1>1, <2>1 DEF RunnerRec
  <2>. QED BY <2>2, SameRowsModels
<1>8. CASE UnleasedStep
  <2>1. ASSUME NEW j \in Jobs, Observation(j) PROVE SameModels
    <3>1. CASE \E s \in Statuses, g \in Gens \cup {NoGen} :
                  ObserveJob(j, s, s = "completed", g)
      BY <1>4, <3>1, RecordWrites
    <3>. QED BY <1>7, <2>1, <3>1, ObservationCases
  <2>2. ASSUME NEW j \in Jobs, ExpireLease(j) PROVE SameModels
    BY <2>2, SameRowsModels DEF ExpireLease
  <2>3. ASSUME NEW j \in Jobs, Park(j) \/ \E g \in names : DeleteUpdate(j, g)
        PROVE  SameModels
    BY <1>5, <2>3, ReleaseWrites
  <2>4. ASSUME NEW g \in names,
               ReleaseRunner(g) \/ \E b \in BOOLEAN : DeferRunner(g, b)
        PROVE  SameModels
    BY <1>7, <2>4
  <2>. QED BY <1>2, <1>8, <2>1, <2>2, <2>3, <2>4 DEF UnleasedStep
<1>. QED BY <1>2, <1>3, <1>6, <1>8 DEF StoreNext

-----------------------------------------------------------------------------
(***************************************************************************)
(* Compute while the audit lists it.                                       *)
(***************************************************************************)
\* What any step may do to an insert and its VM.
Proceeds(g) == \A a \in Attempts :
  \/ inst'[g][a] = inst[g][a]
  \/ inst[g][a] \in {"none", "failed"} /\ inst'[g][a] = "pending"
  \/ inst[g][a] = "pending" /\ inst'[g][a] \in {"up", "failed"}
  \/ inst[g][a] \in {"up", "stopped"} /\ inst'[g][a] \in {"stopped", "gone"}

\* A step that changes one entry in one of these ways.
LEMMA OneProceeds ==
  ASSUME TypeOK, NEW h \in Gens, NEW b \in Attempts, NEW s,
         inst' = [inst EXCEPT ![h][b] = s],
         \/ inst[h][b] \in {"none", "failed"} /\ s = "pending"
         \/ inst[h][b] = "pending" /\ s \in {"up", "failed"}
         \/ inst[h][b] \in {"up", "stopped"} /\ s \in {"stopped", "gone"}
  PROVE  \A g \in Gens : Proceeds(g)
  BY DEF TypeOK, Proceeds

\* Deletions, inserts, operations that settle and VMs that stop are all there is.
LEMMA ComputeProceeds ==
  ASSUME CallbackInv, [Next]_vars, NEW g \in Gens
  PROVE  Proceeds(g)
<1>1. TypeOK /\ names \subseteq Gens
  BY DEF CallbackInv, LedgerInv, StoreTypeOK
<1>2. CASE UNCHANGED inst
  BY <1>2 DEF Proceeds
<1>3. ASSUME NEW h \in Gens, NEW zones, DeleteInstance(h, zones) PROVE Proceeds(g)
  <2>1. CASE Visible(h) \cap zones # {}
    <3>1. PICK b \in Visible(h) : inst' = [inst EXCEPT ![h][b] = "gone"]
      BY <1>3, <2>1 DEF DeleteInstance
    <3>2. b \in Attempts /\ inst[h][b] \in {"up", "stopped"}
      BY DEF Visible
    <3>. QED BY <1>1, <3>1, <3>2, OneProceeds
  <2>2. CASE Visible(h) \cap zones = {}
    BY <1>2, <1>3, <2>2 DEF DeleteInstance
  <2>. QED BY <2>1, <2>2
<1>4. ASSUME NEW w \in Workers, DeleteOwned(w) \/ DeleteVM(w) PROVE Proceeds(g)
  <2>1. CASE DeleteOwned(w)
    <3>1. /\ wk[w].pc \in {"del", "delstop"} /\ wk[w].pc \in Leased
          /\ \E zones : DeleteInstance(wk[w].r.vm, zones)
      BY <2>1 DEF DeleteOwned, At, Leased
    <3>2. wk[w].r.vm \in names
      <4>1. LeasedSound(w, wk[w], jobs[wk[w].job])
        BY <3>1, Acting
      <4>. QED BY <3>1, <4>1 DEF LeasedSound, CopySound, FreshCopy, Fresh, WithVM
    <3>. QED BY <1>1, <1>3, <3>1, <3>2
  <2>2. CASE DeleteVM(w)
    <3>1. /\ wk[w].pc \in {"ddel", "rdel"} /\ wk[w].pc \in Unleased
          /\ \E zones : DeleteInstance(wk[w].gen, zones)
      BY <2>2 DEF DeleteVM, At, Unleased
    <3>2. wk[w].gen \in names
      BY <3>1, Unheld DEF UnleasedSound
    <3>. QED BY <1>1, <1>3, <3>1, <3>2
  <2>. QED BY <1>4, <2>1, <2>2
<1>5. ASSUME NEW w \in Workers, Insert(w) PROVE Proceeds(g)
  <2>1. \/ UNCHANGED inst
        \/ /\ wk[w].r.vm # NoGen
           /\ inst[wk[w].r.vm][wk[w].last] \in {"none", "failed"}
           /\ inst' = [inst EXCEPT ![wk[w].r.vm][wk[w].last] = "pending"]
    BY <1>5, Zenon DEF Insert
  <2>2. wk[w].pc = "insert" /\ wk[w].pc \in Leased
    BY <1>5 DEF Insert, At, Leased
  <2>3. wk[w].last \in Attempts /\ wk[w].r.vm \in Gens \cup {NoGen}
    BY <2>2, Acting DEF LeasedSound, ComputeSound, WorkerRec, LocalRec
  <2>. QED BY <1>1, <1>2, <2>1, <2>3, OneProceeds
<1>6. CASE Environment
  <2>1. \/ UNCHANGED inst
        \/ \E h \in Gens, b \in Attempts : OperationSettles(h, b) \/ VMStops(h, b)
    BY <1>6 DEF Environment, GitHubQueues, GitHubFinishes, GitHubReplays,
       GitHubAssigns, RunnerComesOnline
  <2>2. ASSUME NEW h \in Gens, NEW b \in Attempts,
               OperationSettles(h, b) \/ VMStops(h, b)
        PROVE  Proceeds(g)
    BY <1>1, <2>2, OneProceeds DEF OperationSettles, VMStops
  <2>. QED BY <1>2, <2>1, <2>2
<1>7. ASSUME NEW w \in Workers, ProcessJob(w), ~DeleteOwned(w), ~Insert(w)
      PROVE  UNCHANGED inst
  <2>1. CASE GenerateJIT(w)
    BY <2>1 DEF GenerateJIT
  <2>2. CASE ClearFailedAttempt(w)
    BY <2>2 DEF ClearFailedAttempt
  <2>3. CASE ~GenerateJIT(w) /\ ~ClearFailedAttempt(w)
    <3>1. UNCHANGED world
      BY <1>7, <2>3, Zenon DEF ProcessJob, StartJob, AskStatus, NoteStatusRead, TryAdopt,
         Reread, LookAtInstance, LookAtAssignment, LookAtRegistration, ReleaseAndReturn,
         DetachVM, KeepVM,
         ResolveAttempt, RecheckInstance, SettleStockout, ReleaseAndContinue, Reschedule,
         CheckCredential, ReleaseStaleCredential, ReserveSlot, StoreJIT, ChangeAttempt,
         RecordOperation, WaitForOperation, FinishJob, FinishPermanent
    <3>. QED BY <3>1 DEF world
  <2>. QED BY <2>1, <2>2, <2>3
<1>8. ASSUME NEW w \in Workers, Maintain(w), ~DeleteVM(w) PROVE UNCHANGED inst
  <2>1. UNCHANGED world
    BY <1>8, Zenon DEF Maintain, Webhook, ObserveAssignment, StartDelete, DeleteCheck,
       DeleteRelease, DeleteFinish, StartSweep, StartReconcile, RowLook, RowAssignment,
       RowRegistration, RowRelease, RowDefer
  <2>. QED BY <2>1 DEF world
<1>9. ASSUME NEW w \in Workers, Fail(w) \/ Crash(w) PROVE UNCHANGED inst
  BY <1>9 DEF Fail, Crash, world
<1>10. ASSUME NEW j \in Jobs, LeaseRunsOut(j) PROVE UNCHANGED inst
  BY <1>10 DEF LeaseRunsOut, world
<1>11. UNCHANGED vars => UNCHANGED inst
  BY DEF vars, world
<1>12. ASSUME NEW w \in Workers, ProcessJob(w) \/ Maintain(w) \/ Fail(w) \/ Crash(w)
       PROVE  Proceeds(g)
  BY <1>2, <1>4, <1>5, <1>7, <1>8, <1>9, <1>12
<1>. QED BY <1>2, <1>6, <1>10, <1>11, <1>12 DEF Next

\* What went astray stays so.
LEMMA AstrayGrows ==
  ASSUME [Next]_vars
  PROVE  astray \subseteq astray'
<1>1. ASSUME NEW w \in Workers, ProcessJob(w) PROVE astray \subseteq astray'
  <2>1. CASE ClearFailedAttempt(w)
    BY <2>1 DEF ClearFailedAttempt
  <2>2. CASE Insert(w) \/ GenerateJIT(w) \/ DeleteOwned(w)
    BY <2>2, Zenon DEF Insert, GenerateJIT, DeleteOwned, DeleteInstance
  <2>3. CASE ~ClearFailedAttempt(w) /\ ~Insert(w) /\ ~GenerateJIT(w) /\ ~DeleteOwned(w)
    <3>1. UNCHANGED world
      BY <1>1, <2>3, Zenon DEF ProcessJob, StartJob, AskStatus, NoteStatusRead, TryAdopt,
         Reread, LookAtInstance, LookAtAssignment, LookAtRegistration, ReleaseAndReturn,
         DetachVM, KeepVM,
         ResolveAttempt, RecheckInstance, SettleStockout, ReleaseAndContinue, Reschedule,
         CheckCredential, ReleaseStaleCredential, ReserveSlot, StoreJIT, ChangeAttempt,
         RecordOperation, WaitForOperation, FinishJob, FinishPermanent
    <3>. QED BY <3>1 DEF world
  <2>. QED BY <2>1, <2>2, <2>3
<1>2. ASSUME NEW w \in Workers, Maintain(w) PROVE astray \subseteq astray'
  <2>1. CASE DeleteVM(w)
    BY <2>1 DEF DeleteVM, DeleteInstance
  <2>2. CASE ~DeleteVM(w)
    <3>1. UNCHANGED world
      BY <1>2, <2>2, Zenon DEF Maintain, Webhook, ObserveAssignment, StartDelete,
         DeleteCheck, DeleteRelease, DeleteFinish, StartSweep, StartReconcile, RowLook,
         RowAssignment, RowRegistration, RowRelease, RowDefer
    <3>. QED BY <3>1 DEF world
  <2>. QED BY <2>1, <2>2
<1>3. CASE Environment
  BY <1>3 DEF Environment, GitHubQueues, GitHubFinishes, GitHubReplays, GitHubAssigns,
     OperationSettles, VMStops, RunnerComesOnline
<1>4. CASE \/ \E w \in Workers : Fail(w) \/ Crash(w)
           \/ \E j \in Jobs : LeaseRunsOut(j)
           \/ UNCHANGED vars
  BY <1>4 DEF Fail, Crash, LeaseRunsOut, vars, world
<1>. QED BY <1>1, <1>2, <1>3, <1>4 DEF Next

\* Once a generation of the ledger had its VM, nothing of it can appear any more,
\* unless it is astray.
LEMMA VisibleShrinks ==
  ASSUME CallbackInv, [Next]_vars, NEW g \in Gens, EverUp(g)
  PROVE  /\ EverUp(g)'
         /\ g \in Live \ astray => Visible(g)' \subseteq Visible(g)
<1>1. Proceeds(g)
  BY ComputeProceeds
<1>2. EverUp(g)'
  <2>1. PICK b \in Attempts : inst[g][b] \in {"up", "stopped", "gone"}
    BY DEF EverUp
  <2>. QED BY <1>1, <2>1 DEF Proceeds, EverUp
<1>3. ASSUME g \in Live \ astray, NEW z \in Visible(g)' PROVE z \in Visible(g)
  <2>1. z \in Attempts /\ inst'[g][z] \in {"up", "stopped"}
    BY <1>3 DEF Visible
  <2>2. PICK a : Taken(g) \subseteq {a}
    BY <1>3, LiveOnce
  <2>3. inst[g][z] # "pending"
    BY <1>3, <2>1, <2>2 DEF EverUp, Taken, Begun, Accepted
  <2>. QED BY <1>1, <2>1, <2>3 DEF Proceeds, Visible
<1>. QED BY <1>2, <1>3

\* A VM of a generation is where its row says, and of that model.
LEMMA VisibleIsRecorded ==
  ASSUME CallbackInv, NEW g \in Gens \ astray, NEW z \in Visible(g)
  PROVE  /\ g \in Live
         /\ Standard(runners[g].rec.att) <=> Plan[z] = "standard"
<1>1. z \in Attempts /\ z \in Taken(g) /\ z \in Active(g) /\ z # 0
  BY DEF Visible, Taken, Begun, Accepted, Active, Existing, Attempts
<1>2. g \in Live
  BY <1>1 DEF CallbackInv, CallbacksSound, GenSound
<1>3. runners[g].rec.att = z
  BY <1>1, <1>2, RowNamesAttempt
<1>. QED BY <1>1, <1>2, <1>3 DEF Standard

-----------------------------------------------------------------------------
(***************************************************************************)
(* The audit.                                                              *)
(***************************************************************************)
\* The record of an audit, field by field.
LEMMA AuditFields ==
  ASSUME audit \in AuditRec
  PROVE  /\ audit.on \in BOOLEAN /\ audit.counts \in [Runners : Int, Standard : Int]
         /\ audit.rows \subseteq RowRec /\ audit.actual \subseteq VMRec
         /\ audit.zone \in 0 .. Len(Plan) /\ Len(Plan) \in Nat
         /\ audit.unmatched \subseteq Gens /\ audit.missing \subseteq Gens
         /\ audit.short \in BOOLEAN
  BY StoreAssumption DEF AuditRec

\* No audit is under way.
LEMMA NoAuditHolds ==
  ASSUME audit' = NoAudit
  PROVE  AuditInv'
<1>1. Len(Plan) \in Nat
  BY StoreAssumption
<1>2. NoAudit \in AuditRec
  BY <1>1 DEF NoAudit, AuditRec
<1>. QED BY <1>2 DEF AuditInv, NoAudit

\* The names of the models.
LEMMA ModelOf ==
  ASSUME NEW a \in Attempts \cup {0}
  PROVE  Model(a) \in Models /\ (Model(a) = "standard" <=> Standard(a))
<1>1. a # 0 => Plan[a] \in {"spot", "standard"}
  BY StoreAssumption DEF Attempts
<1>. QED BY <1>1 DEF Model, Models, Standard

\* The first snapshot: one row for each live generation, as many as are counted
\* (AuditSnapshot reads both in one transaction).
LEMMA SnapshotKeeps ==
  ASSUME CallbackInv, AdmissionExact, TakeSnapshot
  PROVE  AuditInv'
<1> DEFINE row(g) == [name |-> g, model |-> Model(runners[g].rec.att),
                      created |-> runners[g].rec.created]
<1>1. PICK rows : rows = {row(g) : g \in Live}
  OBVIOUS
<1>2. /\ audit' = [NoAudit EXCEPT !.on = TRUE, !.counts = fleet, !.rows = rows]
      /\ UNCHANGED <<fleet, runners, inst>>
  BY <1>1 DEF TakeSnapshot, vars, storeVars, world
<1>3. /\ fleet \in [Runners : Int, Standard : Int] /\ Len(Plan) \in Nat
      /\ runners \in [Gens -> RunnerRec] /\ IsFiniteSet(Live)
  BY StoreAssumption, FS_Subset DEF CallbackInv, LedgerInv, StoreTypeOK, Live
<1>4. ASSUME NEW g \in Live
      PROVE  /\ row(g) \in RowRec /\ row(g).name = g
             /\ row(g).model = "standard" <=> Standard(runners[g].rec.att)
             /\ row(g).created => EverUp(g)
  <2>1. g \in Gens /\ runners[g].rec \in SnapshotRec
    BY <1>3 DEF Live, RunnerRec
  <2>2. runners[g].rec.att \in Attempts \cup {0} /\ runners[g].rec.created \in BOOLEAN
    BY <2>1 DEF SnapshotRec
  <2>3. runners[g].rec.created => EverUp(g)
    BY <2>1, RowNamesAttempt
  <2>. QED BY <2>1, <2>2, <2>3, ModelOf DEF RowRec
<1> HIDE DEF row
<1>5. Cardinality(rows) = Cardinality(Live)
  <2>1. PICK f : f = [g \in Live |-> row(g)]
    OBVIOUS
  <2>2. f \in [Live -> rows] /\ \A r \in rows : \E g \in Live : f[g] = r
    BY <1>1, <2>1
  <2>3. \A g, h \in Live : f[g] = f[h] => g = h
    BY <1>4, <2>1
  <2>4. f \in Bijection(Live, rows)
    BY <2>2, <2>3 DEF Bijection, Injection, IsInjective, Surjection
  <2>. QED BY <1>3, <2>4, FS_Bijection DEF ExistsBijection
<1>6. /\ rows \subseteq RowRec /\ {r.name : r \in rows} = Live
      /\ \A r \in rows : /\ r.model = "standard" <=> Standard(runners[r.name].rec.att)
                         /\ r.created => EverUp(r.name)
  <2>1. \A r \in rows : \E g \in Live : r = row(g)
    BY <1>1
  <2>2. \A g \in Live : row(g) \in rows
    BY <1>1
  <2>3. \A r \in rows : r \in RowRec /\ r.name \in Live
    BY <1>4, <2>1
  <2>4. \A r \in rows : /\ r.model = "standard" <=> Standard(runners[r.name].rec.att)
                        /\ r.created => EverUp(r.name)
    BY <1>4, <2>1
  <2>5. \A g \in Live : \E r \in rows : g = r.name
    BY <1>4, <2>2
  <2>. QED BY <2>3, <2>4, <2>5
<1>7. audit' = [on |-> TRUE, counts |-> fleet, rows |-> rows, actual |-> {}, zone |-> 0,
                unmatched |-> {}, missing |-> {}, short |-> FALSE]
  BY <1>2 DEF NoAudit
<1>8. audit' \in AuditRec
  BY <1>3, <1>6, <1>7 DEF AuditRec
<1>9. RowsCurrent(rows)'
  <2>1. RowsCurrent(rows)
    BY <1>5, <1>6 DEF RowsCurrent, AdmissionExact
  <2>2. Live' = Live
    BY <1>2 DEF Live
  <2>. QED BY <1>2, <2>1, <2>2 DEF RowsCurrent, EverUp
<1>10. ListingSound(audit)'
  BY <1>7 DEF ListingSound, Unmatched, Visible, Attempts
<1>11. /\ audit'.counts = fleet /\ audit'.rows = rows /\ ~audit'.short
       /\ audit'.missing = {} /\ audit'.unmatched = {}
  BY <1>7
<1>. QED BY <1>2, <1>8, <1>9, <1>10, <1>11 DEF AuditInv

\* While the counters stand still, what an audit read stays true.
LEMMA StillKeeps ==
  ASSUME CallbackInv, AuditInv, [Next]_vars, UNCHANGED fleet, UNCHANGED audit
  PROVE  AuditInv'
<1>1. Live' = Live /\ SameModels /\ astray \subseteq astray'
  BY StepWrites, RowsStay, AstrayGrows DEF CallbackInv
<1>2. /\ audit.rows \subseteq RowRec /\ audit.missing \subseteq Gens
      /\ \A r \in audit.rows : r.name \in Gens
  <2>1. audit.rows \subseteq RowRec /\ audit.missing \subseteq Gens
    BY AuditFields DEF AuditInv
  <2>. QED BY <2>1 DEF RowRec
<1>3. ASSUME NEW g \in audit.missing \ astray' PROVE Lost(g)'
  <2>1. g \in Gens \ astray /\ Lost(g)
    BY <1>1, <1>2 DEF AuditInv
  <2>2. EverUp(g)' /\ Visible(g)' \subseteq Visible(g)
    BY <2>1, VisibleShrinks DEF Lost
  <2>. QED BY <1>1, <2>1, <2>2 DEF Lost
<1>4. ASSUME RowsCurrent(audit.rows) PROVE RowsCurrent(audit.rows)'
  <2>1. ASSUME NEW r \in audit.rows
        PROVE  /\ r.model = "standard" <=> Standard(runners'[r.name].rec.att)
               /\ r.created => EverUp(r.name)'
    <3>1. r.name \in Gens /\ r.name \in Live /\ r.name \in Live'
      BY <1>1, <1>2, <1>4 DEF RowsCurrent
    <3>2. Standard(runners'[r.name].rec.att) <=> Standard(runners[r.name].rec.att)
      BY <1>1, <3>1 DEF SameModels, Live
    <3>3. r.created => EverUp(r.name)'
      BY <1>4, <3>1, VisibleShrinks DEF RowsCurrent
    <3>. QED BY <1>4, <3>2, <3>3 DEF RowsCurrent
  <2>2. {r.name : r \in audit.rows} = Live' /\ Cardinality(audit.rows) = fleet'.Runners
    BY <1>1, <1>4 DEF RowsCurrent
  <2>. QED BY <2>1, <2>2 DEF RowsCurrent
<1>5. ASSUME RowsCurrent(audit.rows), ListingSound(audit) PROVE ListingSound(audit)'
  <2>1. ASSUME NEW r \in audit.rows, r.created, r.name \notin astray',
               NEW z \in Visible(r.name)', z <= audit.zone
        PROVE  \E vm \in audit.actual : vm.name = r.name
    <3>1. r.name \in Live \ astray /\ r.name \in Gens /\ EverUp(r.name)
      BY <1>1, <1>2, <1>5, <2>1 DEF RowsCurrent
    <3>2. z \in Visible(r.name)
      BY <2>1, <3>1, VisibleShrinks
    <3>3. \A x \in Visible(r.name) : x <= audit.zone => \E vm \in audit.actual : vm.name = r.name
      BY <1>5, <2>1, <3>1 DEF ListingSound
    <3>. QED BY <2>1, <3>2, <3>3
  <2>. QED BY <1>1, <1>5, <2>1 DEF ListingSound
<1>. QED BY <1>1, <1>3, <1>4, <1>5 DEF AuditInv

\* A step of anybody else: the audit goes on, or is deferred.
LEMMA FollowKeeps ==
  ASSUME CallbackInv, AuditInv, Next, Follow
  PROVE  AuditInv'
<1>1. CASE fleet' = fleet
  BY <1>1, StillKeeps DEF Follow
<1>2. CASE fleet' # fleet
  BY <1>2, NoAuditHolds DEF Follow
<1>. QED BY <1>1, <1>2

\* One zone more is listed: what it shows is in the ledger, with the model of its
\* reservation, and a confirmed row without a VM in any zone has lost it, unless it
\* is astray.
LEMMA ListKeeps ==
  ASSUME CallbackInv, AuditInv, ListZone
  PROVE  AuditInv'
<1>1. PICK a, actual :
        /\ a = audit.zone + 1
        /\ actual = audit.actual \cup [name : {g \in Gens : a \in Visible(g)}, model : {Model(a)}]
  OBVIOUS
<1> DEFINE unmatched == Unmatched(audit.rows, actual)
           short == audit.counts.Runners # Cardinality(audit.rows)
           missing == Missing(audit.rows, actual)
<1>2. /\ audit.on /\ a \in Attempts /\ UNCHANGED <<vars, fleet, runners, inst, astray>>
      /\ audit' = IF a < Len(Plan) THEN [audit EXCEPT !.zone = a, !.actual = actual]
                  ELSE IF unmatched \cup missing = {} /\ ~short THEN NoAudit
                  ELSE [NoAudit EXCEPT !.on = TRUE, !.zone = a, !.counts = audit.counts,
                                       !.unmatched = unmatched, !.missing = missing,
                                       !.short = short]
  <2>1. UNCHANGED vars /\ UNCHANGED <<fleet, runners, inst, astray>>
    BY DEF ListZone, vars, storeVars, world
  <2>. QED BY <1>1, <2>1 DEF ListZone
<1>3. /\ audit \in AuditRec /\ audit.zone < Len(Plan) /\ audit.counts = fleet
      /\ RowsCurrent(audit.rows) /\ ListingSound(audit) /\ a \in 0 .. Len(Plan)
      /\ audit.unmatched \subseteq astray /\ ~audit.short
      /\ \A g \in audit.missing \ astray : Lost(g)
  <2>1. audit \in AuditRec
    BY DEF AuditInv
  <2>2. audit.zone < Len(Plan) /\ a \in 0 .. Len(Plan)
    BY <1>1, <1>2, <2>1, AuditFields DEF Attempts
  <2>. QED BY <1>2, <2>1, <2>2 DEF AuditInv
<1>4. /\ audit.rows \subseteq RowRec /\ audit.actual \subseteq VMRec
      /\ audit.zone \in 0 .. Len(Plan) /\ Len(Plan) \in Nat
      /\ audit.counts \in [Runners : Int, Standard : Int]
  BY <1>3, AuditFields
<1>5. ASSUME NEW r \in audit.rows
      PROVE  /\ r.name \in Gens /\ r.name \in Live /\ r.model \in Models
             /\ r.model = "standard" <=> Standard(runners[r.name].rec.att)
             /\ r.created => EverUp(r.name)
  BY <1>3, <1>4 DEF RowsCurrent, RowRec
\* What the zone shows, against the rows.
<1>6. ASSUME NEW vm \in [name : {g \in Gens : a \in Visible(g)}, model : {Model(a)}]
      PROVE  /\ vm \in VMRec
             /\ vm.name \notin astray =>
                  \E r \in audit.rows : r.name = vm.name /\ r.model \in {"", vm.model}
  <2>1. vm.name \in Gens /\ a \in Visible(vm.name) /\ vm.model = Model(a)
    OBVIOUS
  <2>2. /\ Model(a) \in {"spot", "standard"} /\ Model(a) \in Models
        /\ Model(a) = "standard" <=> Plan[a] = "standard"
    <3>1. a # 0 /\ Plan[a] \in {"spot", "standard"}
      BY <1>2, StoreAssumption DEF Attempts
    <3>. QED BY <3>1 DEF Model, Models
  <2>3. ASSUME vm.name \notin astray
        PROVE  \E r \in audit.rows : r.name = vm.name /\ r.model \in {"", vm.model}
    <3>1. vm.name \in Live /\ (Standard(runners[vm.name].rec.att) <=> Plan[a] = "standard")
      BY <2>1, <2>3, VisibleIsRecorded
    <3>2. PICK r \in audit.rows : r.name = vm.name
      BY <1>3, <3>1 DEF RowsCurrent
    <3>3. r.model \in {"", vm.model}
      BY <1>5, <2>1, <2>2, <3>1, <3>2 DEF Models
    <3>. QED BY <3>2, <3>3
  <2>4. vm \in VMRec
    BY <2>1, <2>2 DEF VMRec
  <2>. QED BY <2>3, <2>4
<1>7. actual \subseteq VMRec
  BY <1>1, <1>4, <1>6
<1>8. unmatched \subseteq astray /\ unmatched \subseteq Gens
  <2>1. ASSUME NEW vm \in actual, \A r \in audit.rows :
                                    r.name = vm.name => r.model \notin {"", vm.model}
        PROVE  vm.name \in astray
    <3>1. CASE vm \in audit.actual
      BY <1>3, <2>1, <3>1 DEF ListingSound, Unmatched
    <3>2. CASE vm \notin audit.actual
      BY <1>1, <1>6, <2>1, <3>2
    <3>. QED BY <3>1, <3>2
  <2>2. \A vm \in actual : vm.name \in Gens
    BY <1>7 DEF VMRec
  <2>. QED BY <2>1, <2>2 DEF Unmatched
<1>9. ASSUME NEW r \in audit.rows, r.created, r.name \notin astray, NEW z \in Visible(r.name), z <= a
      PROVE  \E vm \in actual : vm.name = r.name
  <2>1. CASE z <= audit.zone
    BY <1>1, <1>3, <1>9, <2>1 DEF ListingSound
  <2>2. CASE ~(z <= audit.zone)
    <3>1. z = a
      BY <1>1, <1>4, <1>9, <2>2 DEF Visible, Attempts
    <3>2. [name |-> r.name, model |-> Model(a)] \in actual
      BY <1>1, <1>5, <3>1
    <3>. QED BY <3>2
  <2>. QED BY <2>1, <2>2
<1>10. /\ ~short /\ missing \subseteq Gens
       /\ a < Len(Plan) \/ \A g \in missing \ astray : Lost(g)
  <2>1. audit.counts.Runners = Cardinality(audit.rows)
    BY <1>3 DEF RowsCurrent
  <2>2. ASSUME NEW g \in missing \ astray, ~(a < Len(Plan)) PROVE Lost(g)
    <3>1. PICK r \in audit.rows : /\ r.created /\ r.name = g
                                  /\ \A vm \in actual : vm.name # g
      BY <2>2 DEF Missing
    <3>2. \A z \in Visible(g) : z <= a
      BY <1>4, <1>2, <2>2 DEF Visible, Attempts
    <3>. QED BY <1>5, <1>9, <2>2, <3>1, <3>2 DEF Lost
  <2>3. missing \subseteq Gens
    BY <1>5 DEF Missing
  <2>. QED BY <2>1, <2>2, <2>3
<1>11. CASE a < Len(Plan)
  <2>1. audit' = [audit EXCEPT !.zone = a, !.actual = actual]
    BY <1>2, <1>11
  <2>2. /\ audit' \in AuditRec /\ audit'.counts = audit.counts /\ audit'.rows = audit.rows
        /\ audit'.unmatched = audit.unmatched /\ audit'.missing = audit.missing
        /\ audit'.short = audit.short
        /\ audit'.zone = a /\ audit'.actual = actual
    BY <1>3, <1>7, <2>1 DEF AuditRec
  <2>3. RowsCurrent(audit.rows)'
    <3>1. fleet' = fleet /\ runners' = runners /\ inst' = inst /\ Live' = Live
      BY <1>2 DEF Live
    <3>2. {r.name : r \in audit'.rows} = Live /\ Cardinality(audit'.rows) = fleet.Runners
      BY <1>3, <2>2 DEF RowsCurrent
    <3>3. \A r \in audit'.rows : /\ r.model = "standard" <=> Standard(runners[r.name].rec.att)
                                 /\ r.created => EverUp(r.name)
      BY <1>5, <2>2
    <3>. QED BY <3>1, <3>2, <3>3 DEF RowsCurrent, EverUp
  <2>4. ListingSound(audit)'
    BY <1>2, <1>8, <1>9, <2>2 DEF ListingSound, Visible
  <2>5. \A g \in audit'.missing \ astray' : Lost(g)'
    BY <1>2, <1>3, <2>2 DEF Lost, Live, EverUp, Visible
  <2>. QED BY <1>2, <1>3, <2>2, <2>3, <2>4, <2>5 DEF AuditInv
<1>12. CASE ~(a < Len(Plan))
  <2>1. CASE unmatched \cup missing = {}
    BY <1>2, <1>10, <1>12, <2>1, NoAuditHolds
  <2>2. CASE unmatched \cup missing # {}
    <3>1. audit' = [on |-> TRUE, counts |-> audit.counts, rows |-> {}, actual |-> {},
                    zone |-> a, unmatched |-> unmatched, missing |-> missing,
                    short |-> FALSE]
      BY <1>2, <1>10, <1>12, <2>2 DEF NoAudit
    <3>2. /\ unmatched \subseteq astray /\ unmatched \subseteq Gens
          /\ missing \subseteq Gens /\ \A g \in missing \ astray : Lost(g)
      BY <1>8, <1>10, <1>12
    <3> HIDE DEF missing, unmatched, short
    <3>3. audit' \in AuditRec
      BY <1>3, <1>4, <3>1, <3>2 DEF AuditRec
    <3>4. /\ audit'.counts = fleet /\ ~audit'.short /\ audit'.missing = missing
          /\ audit'.zone = a /\ audit'.unmatched = unmatched
      BY <1>3, <3>1
    <3>5. \A g \in missing \ astray : Lost(g)'
      BY <1>2, <3>2 DEF Lost, Live, EverUp, Visible
    <3>. QED BY <1>2, <1>12, <3>2, <3>3, <3>4, <3>5 DEF AuditInv
  <2>. QED BY <2>1, <2>2
<1>. QED BY <1>11, <1>12

-----------------------------------------------------------------------------
(***************************************************************************)
(* The theorems of the audit.                                              *)
(***************************************************************************)
\* Every step of the audit, and of the callbacks it runs beside.
LEMMA AuditStep ==
  ASSUME CallbackInv, AdmissionExact, AuditInv, [AuditNext]_auditVars
  PROVE  AuditInv'
<1>1. CASE TakeSnapshot
  BY <1>1, SnapshotKeeps
<1>2. CASE ListZone
  BY <1>2, ListKeeps
<1>3. CASE EndAudit
  BY <1>3, NoAuditHolds DEF EndAudit
<1>4. CASE Next /\ Follow
  BY <1>4, FollowKeeps
<1>5. CASE UNCHANGED auditVars
  BY <1>5, StillKeeps DEF auditVars, vars, storeVars
<1>. QED BY <1>1, <1>2, <1>3, <1>4, <1>5 DEF AuditNext

\* The callbacks beside an audit are those of Lifecycle.
LEMMA AuditLeavesCallbacks == AuditSpec => Spec
<1>1. AuditInit => Init
  BY DEF AuditInit
<1>2. [AuditNext]_auditVars => [Next]_vars
  BY DEF AuditNext, auditVars, TakeSnapshot, ListZone, EndAudit
<1>. QED BY <1>1, <1>2, PTL DEF AuditSpec, Spec

\* What an audit has read is still true of the ledger and of Compute, or deferred.
THEOREM AuditInvariant == AuditSpec => []AuditInv
<1>1. AuditInit => AuditInv
  <2>1. ASSUME audit = NoAudit PROVE AuditInv
    <3>1. Len(Plan) \in Nat
      BY StoreAssumption
    <3>2. NoAudit \in AuditRec
      BY <3>1 DEF NoAudit, AuditRec
    <3>. QED BY <2>1, <3>2 DEF AuditInv, NoAudit
  <2>. QED BY <2>1 DEF AuditInit
<1>2. AuditSpec => [](CallbackInv /\ AdmissionExact)
  BY AuditLeavesCallbacks, CallbackInvariant, CallbacksImplementStore, AdmissionIsExact,
     PTL DEF ImplementsStore
<1>3. CallbackInv /\ AdmissionExact /\ AuditInv /\ [AuditNext]_auditVars => AuditInv'
  BY AuditStep
<1>. QED BY <1>1, <1>2, <1>3, PTL DEF AuditSpec

\* An audit that is not deferred raises no false alarm about a runner, however its
\* three reads interleave with the callbacks (auditFleet, ledgerDiscrepancy).  What
\* it says of a generation whose accepted insert was refused (astray) is not false.
THEOREM AuditsAreSound == AuditSpec => []AuditSound
<1>1. AuditInv => AuditSound
  BY DEF AuditInv, AuditSound, Lost
<1>. QED BY <1>1, AuditInvariant, PTL
=============================================================================
