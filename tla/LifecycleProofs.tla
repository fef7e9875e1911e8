-------------------------- MODULE LifecycleProofs ---------------------------
(***************************************************************************)
(* The safety of the callbacks for any number of jobs, generations and     *)
(* workers, any creation plan, any limits and any faults.                  *)
(***************************************************************************)
EXTENDS LifecycleInvariant, FleetStoreProofs

CallbackInv == LedgerInv /\ TypeOK /\ CallbacksSound

WorldTyped ==
  /\ inst \in [Gens -> [Attempts -> InstStates]]
  /\ run \in [Gens -> {"none", "offline", "online", "busy", "gone"}]
  /\ ghJob \in [Jobs -> Statuses \cup {"none"}]
  /\ ranOn \in [Jobs -> Gens \cup {NoGen}]
  /\ astray \subseteq Gens

Points == Leased \cup Unleased \cup {"idle"}
WorkerRec == [pc : Points, job : Jobs \cup {NoJob}, gen : Gens \cup {NoGen},
              r : LocalRec, st : Statuses \cup {"none", "error"},
              last : Attempts \cup {0}, spare : BOOLEAN, perm : BOOLEAN]

\* What no step takes back: a VM that ran did run, a finished job is finished,
\* a runner that served its job does not return, a name is not forgotten.
Ages ==
  /\ \A g \in Gens : EverUp(g) =>
       EverUp(g)' /\ (run[g] = "gone" => run'[g] = "gone")
  /\ \A j \in Jobs : /\ ghJob[j] # "none" => ghJob'[j] # "none"
                     /\ ghJob[j] = "completed" => ghJob'[j] = "completed"
                     /\ jobs[j].terminal => jobs'[j].terminal
  /\ names \subseteq names'
  /\ \A g \in names : g \in Live' => g \in Live
  /\ astray' \subseteq astray \/ Doubtful

\* What may happen to a record while somebody else holds its lease.
Calm(j) ==
  /\ jobs'[j].lease = jobs[j].lease
  /\ jobs[j].terminal => jobs'[j].terminal
  /\ jobs[j].failure => jobs'[j].failure
  /\ \/ /\ jobs'[j].vm = jobs[j].vm /\ jobs'[j].att = jobs[j].att
        /\ jobs'[j].jit = jobs[j].jit /\ jobs'[j].created = jobs[j].created
     \/ /\ jobs[j].vm # NoGen /\ jobs'[j].vm = NoGen /\ Closed(jobs'[j])
        /\ jobs[j].vm \notin Live'
        /\ jobs[j].att # 0 => EverUp(jobs[j].vm)

\* Compute without a new insert: operations settle, VMs stop and go.
Settles(g) ==
  /\ g \in astray => g \in astray'
  /\ g \in astray' => g \in astray \/ Begun(g) # {}
  /\ \A a \in Attempts :
       \/ inst'[g][a] = inst[g][a]
       \/ inst[g][a] = "pending" /\ inst'[g][a] \in {"up", "failed"}
       \/ inst[g][a] = "up" /\ inst'[g][a] \in {"stopped", "gone"}
       \/ inst[g][a] = "stopped" /\ inst'[g][a] = "gone"

\* A new insert: the first one of a generation with a row, or of one astray.
Starts(g) == \/ Begun(g) = {} /\ g \in Live
             \/ g \in astray /\ g \in astray'

-----------------------------------------------------------------------------
\* Nothing is started where nothing is inserted.
LEMMA SettledStates ==
  ASSUME NEW g \in Gens, Settles(g)
  PROVE  /\ Taken(g)' \subseteq Taken(g) /\ Active(g)' \subseteq Active(g)
         /\ Unused(g) => Unused(g)'
         /\ EverUp(g) => EverUp(g)'
         /\ \A a \in Attempts : /\ inst[g][a] # "pending" => inst'[g][a] # "pending"
                                /\ inst[g][a] = "failed" => inst'[g][a] = "failed"
                                /\ inst[g][a] = "none" => inst'[g][a] = "none"
  BY DEF Settles, Taken, Begun, Unused, Accepted, Active, Existing, EverUp

\* What a callback knows survives the steps of everybody else.
LEMMA OthersKeep ==
  ASSUME CallbackInv, NEW u \in Workers, NEW v \in WorkerRec, WorkerSound(u, v),
         Ages, v.pc \in Leased => Calm(v.job),
         \A g \in Gens : \/ Settles(g)
                         \/ Starts(g) /\ (v.pc \in Leased => jobs[v.job].vm # g)
  PROVE  WorkerSound(u, v)'
<1> USE StoreAssumption
<1>1. /\ names \subseteq Gens
      /\ \A g \in Gens : EverUp(g) => Begun(g) # {}
  BY DEF CallbackInv, LedgerInv, StoreTypeOK, EverUp, Begun, Accepted
<1>2. ASSUME v.pc \in Leased PROVE LeasedSound(u, v, jobs[v.job])'
  <2>1. /\ LeasedSound(u, v, jobs[v.job]) /\ Calm(v.job) /\ v.job \in Jobs
        /\ jobs[v.job] \in JobRec
    BY <1>2 DEF WorkerSound, LeasedSound, CallbackInv, LedgerInv, StoreTypeOK
  <2>2. /\ jobs[v.job].vm \in Gens \cup {NoGen}
        /\ v.r \in LocalRec /\ v.r.vm \in Gens \cup {NoGen}
        /\ v.r.att \in Attempts \cup {0} /\ jobs[v.job].att \in Attempts \cup {0}
        /\ NoGen \notin Live'
    BY <2>1 DEF JobRec, WorkerRec, LocalRec, Live
  <2>3. \A g \in Gens : jobs[v.job].vm = g \/ g \notin Live => 
           /\ Taken(g)' \subseteq Taken(g)
           /\ jobs[v.job].vm = g => Settles(g)
           /\ Unused(g) => Unused(g)'
    BY <1>1, <1>2, SettledStates DEF Starts, Taken, Unused
  <2>4. CopySound(v, jobs[v.job])'
    <3>1. CopySound(v, jobs[v.job])
      BY <2>1 DEF LeasedSound
    <3>2. /\ Closed(jobs[v.job]) => Closed(jobs'[v.job])
          /\ jobs[v.job].vm = NoGen => jobs'[v.job].vm = NoGen
          /\ jobs[v.job].vm # NoGen /\ jobs'[v.job].vm = NoGen => 
               Closed(jobs'[v.job]) /\ jobs[v.job].vm \notin Live'
          /\ jobs'[v.job].vm # NoGen \/ jobs[v.job].vm = NoGen =>
               /\ jobs'[v.job].vm = jobs[v.job].vm
               /\ jobs'[v.job].att = jobs[v.job].att
               /\ jobs'[v.job].jit = jobs[v.job].jit
               /\ jobs'[v.job].created = jobs[v.job].created
      BY <2>1 DEF Calm, Closed
    <3>3. /\ v.r.vm \in names => v.r.vm \in names'
          /\ v.r.vm \in names /\ v.r.vm \in Live' => v.r.vm \in Live
      BY DEF Ages
    <3>4. v.pc \in Fresh => FreshCopy(v.r, jobs[v.job])'
      <4>. SUFFICES ASSUME v.pc \in Fresh PROVE FreshCopy(v.r, jobs[v.job])'
        OBVIOUS
      <4>1. FreshCopy(v.r, jobs[v.job])
        BY <3>1 DEF CopySound
      <4>2. v.r.vm # NoGen /\ Unused(v.r.vm) => Unused(v.r.vm)'
        BY <2>2, <2>3, <4>1 DEF FreshCopy
      <4>. QED BY <2>2, <3>2, <3>3, <4>1, <4>2 DEF FreshCopy
    <3>. QED BY <3>1, <3>2, <3>4 DEF CopySound, FreshCopy, Closed, Fresh
  <2>5. StatusSound(v, jobs[v.job])'
    BY <2>1 DEF LeasedSound, StatusSound, Calm, Ages
  <2>6. ComputeSound(v, jobs[v.job])'
    <3>1. CopySound(v, jobs[v.job]) /\ ComputeSound(v, jobs[v.job])
      BY <2>1 DEF LeasedSound
    <3>2. /\ jobs'[v.job].vm # NoGen =>
               /\ jobs[v.job].vm = jobs'[v.job].vm /\ jobs[v.job].vm \in Gens
               /\ jobs'[v.job].att = jobs[v.job].att
               /\ jobs'[v.job].jit = jobs[v.job].jit
          /\ /\ jobs[v.job].vm # NoGen /\ jobs'[v.job].vm = NoGen
             /\ jobs[v.job].att # 0
             => EverUp(jobs[v.job].vm)
      BY <2>1, <2>2 DEF Calm
    <3>3. \A g \in Gens : EverUp(g) => EverUp(g)'
      BY DEF Ages
    <3>4. \A g \in Gens : jobs'[v.job].vm = g =>
            /\ Active(g)' \subseteq Active(g)
            /\ \A a \in Attempts : /\ inst[g][a] # "pending" => inst'[g][a] # "pending"
                                   /\ inst[g][a] = "failed" => inst'[g][a] = "failed"
                                   /\ inst[g][a] = "none" => inst'[g][a] = "none"
                                   /\ Accepted(g, a)' => Accepted(g, a)
      <4>. SUFFICES ASSUME NEW g \in Gens, jobs'[v.job].vm = g
                    PROVE  /\ Active(g)' \subseteq Active(g)
                           /\ \A a \in Attempts :
                                /\ inst[g][a] # "pending" => inst'[g][a] # "pending"
                                /\ inst[g][a] = "failed" => inst'[g][a] = "failed"
                                /\ inst[g][a] = "none" => inst'[g][a] = "none"
                                /\ Accepted(g, a)' => Accepted(g, a)
        OBVIOUS
      <4>1. Settles(g)
        BY <2>3, <3>2
      <4>. QED BY <4>1, SettledStates DEF Settles, Accepted
    <3>5. \/ v.pc \in {"look", "reg", "rest", "del", "delstop", "jit"}
          \/ v.pc \in {"resolve", "recheck", "settle", "reljit"}
          \/ v.pc \in {"keep", "created", "detach", "rel", "relgone"}
          \/ v.pc \in {"insert", "attempt", "recop", "wait", "clear"}
          \/ v.pc \in {"ask", "note", "adopt", "reread", "due", "plan", "reserve",
                       "savejit", "unlease"}
      BY <1>2 DEF Leased
    <3>6. CASE v.pc \in {"look", "reg", "rest", "del", "delstop", "jit"}
      <4>1. v.r.vm \in Gens
        BY <2>2, <3>1, <3>6 DEF CopySound, WithVM
      <4>. QED BY <2>3, <3>1, <3>3, <3>6, <4>1 DEF ComputeSound
    <3>7. CASE v.pc \in {"resolve", "recheck", "settle", "reljit"}
      <4>1. jobs'[v.job].vm # NoGen => jobs'[v.job].vm \in Gens
        BY <2>2, <3>2
      <4>. QED BY <2>2, <3>1, <3>2, <3>4, <3>7, <4>1 DEF ComputeSound, CopySound,
                                                         FreshCopy, Fresh
    <3>8. CASE v.pc \in {"keep", "created", "detach", "rel", "relgone"}
      BY <3>1, <3>2, <3>3, <3>4, <3>8 DEF ComputeSound
    <3>9. CASE v.pc \in {"insert", "attempt", "recop", "wait", "clear"}
      <4>1. ASSUME v.pc = "insert", v.r.vm # NoGen
            PROVE  Taken(v.r.vm)' \subseteq Taken(v.r.vm)
        BY <2>2, <2>3, <3>1, <4>1 DEF CopySound, FreshCopy, Fresh
      <4>2. ASSUME v.pc = "insert", v.r.vm # NoGen, jobs'[v.job].vm = NoGen
            PROVE  EverUp(v.r.vm)'
        <5>1. CASE jobs[v.job].vm = NoGen
          BY <2>2, <3>1, <3>3, <4>2, <5>1 DEF ComputeSound
        <5>2. CASE jobs[v.job].vm # NoGen
          <6>1. jobs[v.job].vm = v.r.vm /\ jobs[v.job].att # 0
            BY <3>1, <4>2, <5>2 DEF CopySound, FreshCopy, ComputeSound, Fresh, Attempts
          <6>. QED BY <2>2, <3>2, <3>3, <4>2, <6>1
        <5>. QED BY <5>1, <5>2
      <4>. QED BY <2>1, <2>2, <3>1, <3>2, <3>4, <3>9, <4>1, <4>2 
             DEF ComputeSound, Ages, Accepted, Doubtful
    <3>10. CASE v.pc \in {"ask", "note", "adopt", "reread", "due", "plan", "reserve",
                          "savejit", "unlease"}
      BY <3>10 DEF ComputeSound
    <3>. QED BY <3>5, <3>6, <3>7, <3>8, <3>9, <3>10
  <2>7. (v.job \in Jobs /\ jobs[v.job].lease = u /\ ghJob[v.job] # "none")'
    BY <2>1 DEF LeasedSound, Calm, Ages
  <2>. QED BY <2>4, <2>5, <2>6, <2>7 DEF LeasedSound
<1>3. ASSUME v.pc \in Unleased PROVE UnleasedSound(v)'
  <2>1. UnleasedSound(v) /\ names \subseteq Gens
    BY <1>1, <1>3 DEF WorkerSound
  <2>2. ASSUME v.pc # "park" 
        PROVE  /\ v.gen \in names' /\ EverUp(v.gen)'
               /\ run[v.gen] = "gone" => run'[v.gen] = "gone"
               /\ Active(v.gen)' \subseteq Active(v.gen)
               /\ v.gen \in Live' => v.gen \in Live
               /\ v.last # 0 /\ v.gen \notin astray' =>
                    inst'[v.gen][v.last] \in {"stopped", "gone"}
    <3>1. v.gen \in names /\ v.gen \in Gens /\ EverUp(v.gen)
      BY <1>1, <2>1, <2>2 DEF UnleasedSound
    <3>2. Settles(v.gen) \/ v.gen \in astray'
      BY <1>1, <3>1 DEF Starts
    <3>3. Active(v.gen)' \subseteq Active(v.gen)
      BY <3>1, <3>2, SettledStates DEF Active
    <3>4. ASSUME v.last # 0, v.gen \notin astray'
          PROVE  inst'[v.gen][v.last] \in {"stopped", "gone"}
      <4>1. v.last \in Attempts /\ Settles(v.gen) /\ v.gen \notin astray
        BY <3>1, <3>2, <3>4 DEF WorkerRec, Settles
      <4>2. inst[v.gen][v.last] \in {"stopped", "gone"}
        BY <2>1, <2>2, <3>4, <4>1 DEF UnleasedSound
      <4>. QED BY <3>1, <4>1, <4>2 DEF Settles
    <3>. QED BY <3>1, <3>3, <3>4 DEF Ages
  <2>. QED BY <2>1, <2>2 DEF UnleasedSound, Deleting, Ages
<1>. QED BY <1>2, <1>3 DEF WorkerSound

\* What everybody but the actor sees of a step.
Undisturbed(u) ==
  /\ wk'[u] = wk[u]
  /\ wk[u].pc \in Leased => Calm(wk[u].job)
  /\ \A g \in Gens : \/ Settles(g)
                     \/ Starts(g) /\ (wk[u].pc \in Leased => jobs[wk[u].job].vm # g)

\* A step keeps the invariant if it is one of the store's and what it changes
\* is sound, for the actors on their own account.
LEMMA StepHolds ==
  ASSUME CallbackInv, [StoreNext]_storeVars, WorldTyped', Ages,
         wk' \in [Workers -> WorkerRec],
         \A j \in Jobs : JobSound(j)', \A g \in Gens : GenSound(g)',
         NEW A \in SUBSET Workers,
         \A u \in A : WorkerSound(u, wk[u])',
         \A u \in Workers \ A : Undisturbed(u)
  PROVE  CallbackInv'
<1>1. LedgerInv'
  BY StepKeeps DEF CallbackInv, Kept
<1>2. TypeOK'
  BY <1>1 DEF LedgerInv, TypeOK, WorldTyped, WorkerRec, Points
<1>3. ASSUME NEW u \in Workers \ A PROVE WorkerSound(u, wk[u])'
  <2>1. /\ WorkerSound(u, wk[u]) /\ wk[u] \in WorkerRec
        /\ Undisturbed(u)
    BY <1>3 DEF CallbackInv, CallbacksSound, TypeOK, WorkerRec, Points
  <2>2. PICK v \in WorkerRec : v = wk[u]
    BY <2>1
  <2>3. WorkerSound(u, v)'
    BY <2>1, <2>2, OthersKeep DEF Undisturbed
  <2>4. wk'[u] = v
    BY <2>1, <2>2 DEF Undisturbed
  <2>. QED BY <2>3, <2>4 DEF WorkerSound, LeasedSound, UnleasedSound
<1>4. (astray # {} => Doubtful)'
  BY DEF Ages, CallbackInv, CallbacksSound, Doubtful
<1>. QED BY <1>1, <1>2, <1>3, <1>4 DEF CallbackInv, CallbacksSound

\* What the invariant says of one record or one generation.
LEMMA EachSound ==
  ASSUME CallbackInv
  PROVE  (\A j \in Jobs : JobSound(j)) /\ \A g \in Gens : GenSound(g)
  BY DEF CallbackInv, CallbacksSound

\* The same for a step of one callback.
LEMMA ActorStep ==
  ASSUME CallbackInv, [StoreNext]_storeVars, WorldTyped', Ages,
         \A j \in Jobs : JobSound(j)', \A g \in Gens : GenSound(g)',
         NEW w \in Workers, NEW v \in WorkerRec, wk' = [wk EXCEPT ![w] = v],
         WorkerSound(w, v)',
         \A u \in Workers \ {w} : wk'[u] = wk[u] => Undisturbed(u)
  PROVE  CallbackInv'
<1>1. /\ wk' \in [Workers -> WorkerRec] /\ wk'[w] = v
      /\ \A u \in Workers \ {w} : wk'[u] = wk[u]
  BY DEF CallbackInv, TypeOK, WorkerRec, Points
<1>2. WorkerSound(w, wk[w])'
  BY <1>1 DEF WorkerSound, LeasedSound, UnleasedSound
<1>3. {w} \in SUBSET Workers /\ \A u \in {w} : WorkerSound(u, wk[u])'
  BY <1>2
<1>4. \A u \in Workers \ {w} : Undisturbed(u)
  BY <1>1
<1>. QED BY <1>1, <1>3, <1>4, StepHolds

\* Nothing but a callback's own state changes.
LEMMA LocalStep ==
  ASSUME CallbackInv, UNCHANGED <<storeVars, world>>,
         NEW w \in Workers, NEW v \in WorkerRec, wk' = [wk EXCEPT ![w] = v],
         WorkerSound(w, v)
  PROVE  CallbackInv'
<1>1. UNCHANGED <<jobs, runners, fleet, assignments, names, inst, run, ghJob, ranOn,
                  astray>>
  BY DEF storeVars, world
<1>2. WorldTyped' /\ Ages /\ [StoreNext]_storeVars
  BY <1>1 DEF CallbackInv, TypeOK, WorldTyped, Ages, EverUp, Live, storeVars
<1>3. \A j \in Jobs : JobSound(j)'
  BY <1>1 DEF CallbackInv, CallbacksSound, JobSound, RecordSound, Taken, Begun, Unused, Accepted,
              EverUp, Closed
<1>4. \A g \in Gens : GenSound(g)'
  BY <1>1 DEF CallbackInv, CallbacksSound, GenSound, Taken, Begun, Unused, Accepted, Active,
              Existing, EverUp, Live
<1>5. WorkerSound(w, v)'
  BY <1>1, <1>2 DEF WorkerSound, LeasedSound, UnleasedSound, CopySound, FreshCopy,
                    StatusSound, ComputeSound, Taken, Begun, Unused, Accepted, Active, Existing,
                    EverUp, Live, Closed
<1>6. ASSUME NEW u \in Workers \ {w}, wk'[u] = wk[u] PROVE Undisturbed(u)
  <2>1. wk[u].pc \in Leased => Calm(wk[u].job)
    BY <1>1 DEF Calm
  <2>2. \A g \in Gens : Settles(g)
    BY <1>1 DEF Settles
  <2>. QED BY <1>6, <2>1, <2>2 DEF Undisturbed
<1>. QED BY <1>2, <1>3, <1>4, <1>5, <1>6, ActorStep

-----------------------------------------------------------------------------
(***************************************************************************)
(* Where a pass goes next is sound for the record R it holds the lease of. *)
(***************************************************************************)
\* A pass that goes on without a VM has nothing to resume.
Clean(r, R) == r.vm = NoGen /\ ~Closed(r) => R.att = 0 /\ ~R.created

\* The pass of v holds the lease of R, and what it read of GitHub is recorded.
Holding(w, v, R) ==
  /\ v \in WorkerRec /\ R \in JobRec /\ RecordSound(R)
  /\ v.job \in Jobs /\ R.lease = w /\ ghJob[v.job] # "none"
Informed(v, r, R) ==
  /\ v.st \in Statuses \cup {"error"}
  /\ v.st = "completed" => R.terminal /\ r.terminal

\* What a record and a callback forget keeps its type.
LEMMA LocalType == 
  /\ \A r \in JobRec : Local(r) \in LocalRec
  /\ Local(NoRecord) \in LocalRec /\ Idle \in WorkerRec
  BY DEF JobRec, Local, LocalRec, NoRecord, Idle, WorkerRec, Points, Statuses

\* Only keeps the job and where the pass is.
LEMMA OnlyFields ==
  ASSUME NEW v \in WorkerRec, NEW pc \in Points
  PROVE  /\ Only(v, pc) \in WorkerRec
         /\ Only(v, pc).pc = pc /\ Only(v, pc).job = v.job
         /\ Only(v, pc).r = Local(NoRecord) /\ Only(v, pc).st = "none"
         /\ Only(v, pc).gen = NoGen /\ Only(v, pc).spare = FALSE
         /\ Only(v, pc).last = 0 /\ Only(v, pc).perm = FALSE
  BY LocalType DEF Only, Idle, WorkerRec

\* So does Gone, which also keeps the status.
LEMMA GoneFields ==
  ASSUME NEW v \in WorkerRec
  PROVE  /\ Gone(v) \in WorkerRec
         /\ Gone(v).pc = "relgone" /\ Gone(v).job = v.job /\ Gone(v).st = v.st
<1>1. "relgone" \in Points
  BY DEF Points, Leased
<1>2. Only(v, "relgone") \in WorkerRec /\ Only(v, "relgone").pc = "relgone"
      /\ Only(v, "relgone").job = v.job
  BY <1>1, OnlyFields
<1>. QED BY <1>2 DEF Gone, WorkerRec

\* The end of a pass asks for nothing but the lease.
LEMMA UnleaseSound ==
  ASSUME NEW w \in Workers, NEW R, NEW v, v.pc = "unlease", v.job \in Jobs,
         R.lease = w, ghJob[v.job] # "none"
  PROVE  v.pc \in Leased /\ LeasedSound(w, v, R)
  BY DEF LeasedSound, CopySound, StatusSound, ComputeSound, Leased, Fresh, WithVM,
         Judged

\* Gate.
LEMMA GateSound ==
  ASSUME NEW w \in Workers, NEW R, NEW v, NEW r \in LocalRec, Holding(w, v, R),
         Informed(v, r, R), FreshCopy(r, R), Clean(r, R)
  PROVE  /\ GateOf(r, v) \in WorkerRec /\ GateOf(r, v).job = v.job
         /\ GateOf(r, v).pc \in Leased /\ LeasedSound(w, GateOf(r, v), R)
<1>. SUFFICES ASSUME NEW u, u = GateOf(r, v)
              PROVE  u \in WorkerRec /\ u.job = v.job /\ u.pc \in Leased
                     /\ LeasedSound(w, u, R)
  OBVIOUS
<1>1. Gate(r, v.st) \in {"unlease", "rel", "due"}
  BY DEF Gate
<1>2. CASE Gate(r, v.st) = "due"
  <2>1. u = [v EXCEPT !.r = r, !.pc = "due"]
    BY <1>2 DEF GateOf
  <2>2. v.st \in {"queued", "in_progress"} /\ ~Closed(r)
    BY <1>2 DEF Gate, Informed, Statuses, Closed
  <2>3. /\ u \in WorkerRec /\ u.pc = "due" /\ u.r = r /\ u.job = v.job /\ u.st = v.st
    BY <2>1 DEF Holding, WorkerRec, Points, Leased
  <2>4. CopySound(u, R)
    BY <2>2, <2>3 DEF CopySound, Clean, Fresh, WithVM
  <2>5. StatusSound(u, R) /\ ComputeSound(u, R)
    BY <2>2, <2>3 DEF StatusSound, ComputeSound, Statuses
  <2>. QED BY <2>3, <2>4, <2>5 DEF LeasedSound, Leased, Holding
<1>3. CASE Gate(r, v.st) \in {"unlease", "rel"}
  <2>1. PICK pc \in {"unlease", "rel"}, p \in BOOLEAN :
           pc = Gate(r, v.st) /\ u = [Only(v, pc) EXCEPT !.perm = p]
    <3>1. (v.st # "error" /\ ~r.terminal /\ r.failure) \in BOOLEAN
      OBVIOUS
    <3>. QED BY <1>3, <3>1 DEF GateOf
  <2>2. Only(v, pc) \in WorkerRec /\ Only(v, pc).pc = pc /\ Only(v, pc).job = v.job
    BY OnlyFields DEF Holding, Points, Leased
  <2>3. u \in WorkerRec /\ u.pc = pc /\ u.job = v.job
    BY <2>1, <2>2 DEF WorkerRec
  <2>4. ASSUME pc = "rel", R.vm # NoGen PROVE Active(R.vm) = {}
    <3>1. r.att = 0 
      BY <1>3, <2>1, <2>4 DEF Gate
    <3>2. Taken(R.vm) \subseteq {0}
      BY <2>4, <3>1 DEF Holding, RecordSound, FreshCopy
    <3>. QED BY <3>2 DEF Taken, Begun, Unused, Accepted, Active, Existing, Attempts
  <2>5. CASE pc = "unlease"
    BY <2>3, <2>5, UnleaseSound DEF Holding
  <2>6. CASE pc = "rel"
    BY <2>3, <2>4, <2>6 DEF Holding, LeasedSound, CopySound, StatusSound, ComputeSound,
                            Leased, Fresh, WithVM, Judged
  <2>. QED BY <2>3, <2>5, <2>6
<1>. QED BY <1>1, <1>2, <1>3

\* A record with a VM is looked up, any other passes the gate.
LEMMA ExamineSound ==
  ASSUME NEW w \in Workers, NEW R, NEW v, NEW r \in LocalRec, Holding(w, v, R),
         Informed(v, r, R), FreshCopy(r, R), Clean(r, R),
         r.vm # NoGen /\ r.created => EverUp(r.vm)
  PROVE  /\ Examine(r, v) \in WorkerRec /\ Examine(r, v).job = v.job
         /\ Examine(r, v).pc \in Leased /\ LeasedSound(w, Examine(r, v), R)
<1>1. CASE r.vm = NoGen
  BY <1>1, GateSound DEF Examine
<1>2. CASE r.vm # NoGen
  <2> DEFINE u == [v EXCEPT !.r = r, !.pc = "look"]
  <2>1. Examine(r, v) = u
    BY <1>2 DEF Examine
  <2>2. u \in WorkerRec /\ u.pc = "look" /\ u.r = r /\ u.job = v.job /\ u.st = v.st
    BY DEF Holding, WorkerRec, Points, Leased
  <2> HIDE DEF u
  <2>3. CopySound(u, R)
    BY <1>2, <2>2 DEF CopySound, Fresh, WithVM
  <2>4. StatusSound(u, R) /\ ComputeSound(u, R)
    BY <1>2, <2>2 DEF StatusSound, ComputeSound, Informed, Judged
  <2>. QED BY <2>1, <2>2, <2>3, <2>4 DEF LeasedSound, Leased, Holding
<1>. QED BY <1>1, <1>2

\* A copy just made is fresh.
LEMMA CopyIsFresh ==
  ASSUME NEW R \in JobRec, RecordSound(R), R.vm \in names \cup {NoGen}
  PROVE  /\ Local(R) \in LocalRec /\ Local(R).vm = R.vm /\ Local(R).att = R.att
         /\ Local(R).jit = R.jit /\ Local(R).terminal = R.terminal
         /\ Local(R).failure = R.failure /\ Local(R).created = R.created
         /\ FreshCopy(Local(R), R) /\ Clean(Local(R), R)
<1>1. /\ Local(R).vm = R.vm /\ Local(R).att = R.att
      /\ Local(R).jit = R.jit /\ Local(R).terminal = R.terminal
      /\ Local(R).failure = R.failure /\ Local(R).created = R.created
  BY DEF Local
<1>. QED BY <1>1, LocalType DEF FreshCopy, Clean, RecordSound, Closed

-----------------------------------------------------------------------------
(***************************************************************************)
(* The state a callback acts in.                                           *)
(***************************************************************************)
\* A row names the only attempt its generation can exist in, whoever owns it.
LEMMA RowNamesAttempt ==
  ASSUME CallbackInv, NEW g \in Gens, g \in Live
  PROVE  /\ Taken(g) \subseteq {runners[g].rec.att}
         /\ runners[g].rec.created => EverUp(g)
<1>1. CASE runners[g].owner # NoJob
  <2>1. runners[g].owner \in Jobs /\ jobs[runners[g].owner].vm = g
    BY <1>1 DEF CallbackInv, LedgerInv, OwnershipIsExclusive, StoreTypeOK, RunnerRec
  <2>2. /\ runners[g].rec.att = jobs[runners[g].owner].att
        /\ runners[g].rec.created = jobs[runners[g].owner].created
    <3>1. runners[g].rec = Snapshot(jobs[runners[g].owner])
      BY <1>1 DEF CallbackInv, LedgerInv, LedgerMirrorsOwner
    <3>. QED BY <3>1 DEF Snapshot
  <2>3. RecordSound(jobs[runners[g].owner]) /\ g # NoGen
    BY <2>1, StoreAssumption DEF CallbackInv, CallbacksSound, JobSound
  <2>. QED BY <2>1, <2>2, <2>3 DEF RecordSound
<1>2. CASE runners[g].owner = NoJob
  BY <1>2 DEF CallbackInv, CallbacksSound, GenSound
<1>. QED BY <1>1, <1>2

\* A generation exists in one attempt at most.
LEMMA LiveOnce ==
  ASSUME CallbackInv, NEW g \in Gens
  PROVE  /\ g \in Live => \E a : Taken(g) \subseteq {a}
         /\ g \notin Live => Active(g) = {}
         /\ EverUp(g) => g \in names
<1>1. g \in Live => Taken(g) \subseteq {runners[g].rec.att}
  BY RowNamesAttempt
<1>2. GenSound(g)
  BY DEF CallbackInv, CallbacksSound
<1>. QED BY <1>1, <1>2 DEF GenSound, EverUp

\* A VM that ran and is not to be seen is gone, with everything it could be.
LEMMA GoneForGood ==
  ASSUME NEW g, NEW a, Taken(g) \subseteq {a}, Visible(g) = {},
         EverUp(g) \/ (a \in Attempts => inst[g][a] # "pending")
  PROVE  Active(g) = {}
  BY DEF Taken, Begun, Unused, Accepted, Visible, EverUp, Active, Existing

\* The holder of a lease.
LEMMA Acting ==
  ASSUME CallbackInv, NEW w \in Workers
  PROVE  /\ wk[w] \in WorkerRec /\ wk[w].r \in LocalRec
         /\ names \subseteq Gens /\ NoGen \notin Live
         /\ \A j \in Jobs : /\ jobs[j] \in JobRec /\ RecordSound(jobs[j])
                            /\ jobs[j].vm \in names \cup {NoGen}
         /\ wk[w].pc \in Leased => /\ wk[w].job \in Jobs
                                   /\ Holding(w, wk[w], jobs[wk[w].job])
                                   /\ LeasedSound(w, wk[w], jobs[wk[w].job])
<1>1. /\ wk[w] \in WorkerRec /\ WorkerSound(w, wk[w])
      /\ \A j \in Jobs : JobSound(j) /\ jobs[j] \in JobRec
      /\ names \subseteq Gens /\ LiveWereReserved /\ OwnershipIsExclusive
  BY DEF CallbackInv, CallbacksSound, TypeOK, WorkerRec, Points, LedgerInv, StoreTypeOK
<1>2. ASSUME NEW j \in Jobs PROVE jobs[j].vm \in names \cup {NoGen}
  BY <1>1 DEF OwnershipIsExclusive, LiveWereReserved, Live, JobRec
<1>. QED BY <1>1, <1>2, StoreAssumption
         DEF Live, WorkerRec, JobSound, WorkerSound, Holding, LeasedSound

\* A pass may end anywhere.
LEMMA ReturnSound ==
  ASSUME CallbackInv, NEW w \in Workers, wk[w].pc \in Leased,
         NEW v, v = Only(wk[w], "unlease") \/ v = [Only(wk[w], "unlease") EXCEPT !.perm = TRUE]
  PROVE  v \in WorkerRec /\ WorkerSound(w, v)
<1>1. v \in WorkerRec /\ v.pc = "unlease" /\ v.job = wk[w].job
  <2>1. wk[w] \in WorkerRec /\ "unlease" \in Points
    BY Acting DEF Points, Leased
  <2>2. /\ Only(wk[w], "unlease") \in WorkerRec
        /\ Only(wk[w], "unlease").pc = "unlease" /\ Only(wk[w], "unlease").job = wk[w].job
    BY <2>1, OnlyFields
  <2>. QED BY <2>2 DEF WorkerRec
<1>2. LeasedSound(w, v, jobs[wk[w].job])
  BY <1>1, Acting, UnleaseSound DEF Holding
<1>. QED BY <1>1, <1>2 DEF WorkerSound, Unleased

-----------------------------------------------------------------------------
(***************************************************************************)
(* Steps of processJob that only read.                                     *)
(***************************************************************************)
\* A pass that read something goes on from where that leads.
LEMMA ReadStep ==
  ASSUME CallbackInv, UNCHANGED <<storeVars, world>>, NEW w \in Workers,
         NEW v \in WorkerRec, wk' = [wk EXCEPT ![w] = v],
         v.pc \in Leased /\ LeasedSound(w, v, jobs[v.job])
  PROVE  CallbackInv'
<1>1. v.pc \notin Unleased
  BY DEF Leased, Unleased
<1>. QED BY <1>1, LocalStep DEF WorkerSound

\* The end of a pass.
LEMMA ReturnStep ==
  ASSUME CallbackInv, UNCHANGED <<storeVars, world>>, NEW w \in Workers,
         wk[w].pc \in Leased, Return(w) \/ Permanent(w)
  PROVE  CallbackInv'
<1>1. PICK v : /\ wk' = [wk EXCEPT ![w] = v]
               /\ \/ v = Only(wk[w], "unlease")
                  \/ v = [Only(wk[w], "unlease") EXCEPT !.perm = TRUE]
  BY DEF Return, Permanent, Become
<1>. QED BY <1>1, ReturnSound, LocalStep

\* AskStatus.
LEMMA AskStatusStep ==
  ASSUME CallbackInv, NEW w \in Workers, AskStatus(w)
  PROVE  CallbackInv'
<1>1. wk[w].pc = "ask" /\ wk[w].pc \in Leased /\ UNCHANGED <<storeVars, world>>
  BY DEF AskStatus, At, Leased
<1>2. PICK s \in {ghJob[wk[w].job], "error"} :
         wk' = [wk EXCEPT ![w] = [wk[w] EXCEPT !.st = s, !.pc = "note"]]
  BY DEF AskStatus, Become
<1> DEFINE v == [wk[w] EXCEPT !.st = s, !.pc = "note"]
<1>3. Holding(w, wk[w], jobs[wk[w].job])
  BY <1>1, Acting
<1>4. s \in Statuses \cup {"error"}
  BY <1>2, <1>3 DEF Holding, CallbackInv, TypeOK
<1>5. v \in WorkerRec /\ v.pc = "note" /\ v.job = wk[w].job /\ v.st = s
  <2>1. "note" \in Points
    BY DEF Points, Leased
  <2>. QED BY <1>3, <1>4, <2>1 DEF Holding, WorkerRec
<1> HIDE DEF v
<1>6. LeasedSound(w, v, jobs[v.job]) /\ v.pc \in Leased
  BY <1>2, <1>3, <1>4, <1>5
     DEF Holding, LeasedSound, CopySound, StatusSound, ComputeSound, Fresh, WithVM,
         Judged, Leased
<1>7. wk' = [wk EXCEPT ![w] = v]
  BY <1>2 DEF v
<1>. QED BY <1>1, <1>5, <1>6, <1>7, ReadStep

\* Reread.
LEMMA RereadStep ==
  ASSUME CallbackInv, NEW w \in Workers, Reread(w)
  PROVE  CallbackInv'
<1> DEFINE j == wk[w].job
           v == Examine(Local(jobs[j]), wk[w])
<1>1. /\ wk[w].pc = "reread" /\ wk[w].pc \in Leased /\ UNCHANGED <<storeVars, world>>
      /\ wk' = [wk EXCEPT ![w] = v]
  BY DEF Reread, At, Leased, Become
<1>2. /\ Holding(w, wk[w], jobs[j]) /\ LeasedSound(w, wk[w], jobs[j])
      /\ jobs[j].vm \in names \cup {NoGen}
  BY <1>1, Acting
<1>3. wk[w].st = "queued"
  BY <1>1, <1>2 DEF LeasedSound, StatusSound
<1>4. Informed(wk[w], Local(jobs[j]), jobs[j])
  BY <1>3 DEF Informed, Statuses
<1>5. /\ Local(jobs[j]) \in LocalRec /\ FreshCopy(Local(jobs[j]), jobs[j])
      /\ Clean(Local(jobs[j]), jobs[j]) /\ Local(jobs[j]).vm = jobs[j].vm
      /\ Local(jobs[j]).created = jobs[j].created
  BY <1>2, CopyIsFresh DEF Holding
<1>6. Local(jobs[j]).vm # NoGen /\ Local(jobs[j]).created => EverUp(Local(jobs[j]).vm)
  BY <1>2, <1>5 DEF Holding, RecordSound
<1>7. /\ v \in WorkerRec /\ v.job = j /\ v.pc \in Leased
      /\ LeasedSound(w, v, jobs[j])
  BY <1>2, <1>4, <1>5, <1>6, ExamineSound
<1> HIDE DEF v
<1>. QED BY <1>1, <1>7, ReadStep

\* LookAtInstance.
LEMMA LookAtInstanceStep ==
  ASSUME CallbackInv, NEW w \in Workers, LookAtInstance(w)
  PROVE  CallbackInv'
<1> DEFINE R == jobs[wk[w].job]
           r == wk[w].r
<1>1. /\ wk[w].pc = "look" /\ wk[w].pc \in Leased /\ UNCHANGED <<storeVars, world>>
  BY DEF LookAtInstance, At, Leased
<1>2. /\ Holding(w, wk[w], R) /\ LeasedSound(w, wk[w], R) /\ names \subseteq Gens
      /\ r \in LocalRec /\ wk[w] \in WorkerRec
  BY <1>1, Acting
<1>3. /\ FreshCopy(r, R) /\ r.vm # NoGen /\ Informed(wk[w], r, R)
      /\ r.created => EverUp(r.vm)
  BY <1>1, <1>2 DEF LeasedSound, CopySound, StatusSound, ComputeSound, Informed,
                    Fresh, WithVM, Judged
<1>4. SUFFICES ASSUME NEW v \in WorkerRec, wk' = [wk EXCEPT ![w] = v], v.job = wk[w].job,
                      \/ v = [wk[w] EXCEPT !.pc = "reg"] /\ EverUp(r.vm)
                      \/ v = [wk[w] EXCEPT !.pc = "delstop"] /\ EverUp(r.vm)
                      \/ v = [wk[w] EXCEPT !.pc = "resolve"] /\ r.att # 0
                      \/ v = Gone(wk[w]) /\ Visible(r.vm) = {} /\ EverUp(r.vm)
               PROVE  v.pc \in Leased /\ LeasedSound(w, v, R)
  <2>0. \/ UpIn(r.vm) # {} /\ (Return(w) \/ Goto(w, "reg"))
        \/ Visible(r.vm) # {} /\ Goto(w, "delstop")
        \/ Visible(r.vm) = {} /\ r.created /\ Become(w, Gone(wk[w]))
        \/ Visible(r.vm) = {} /\ r.att # 0 /\ Goto(w, "resolve")
        \/ Become(w, GateOf(r, wk[w]))
    BY DEF LookAtInstance
  <2>1. CASE Return(w)
    BY <1>1, <2>1, ReturnStep
  <2>2. CASE Become(w, GateOf(r, wk[w]))
    <3>1. Clean(r, R)
      BY <1>3 DEF Clean
    <3>2. /\ GateOf(r, wk[w]) \in WorkerRec /\ GateOf(r, wk[w]).job = wk[w].job
          /\ GateOf(r, wk[w]).pc \in Leased /\ LeasedSound(w, GateOf(r, wk[w]), R)
      BY <1>2, <1>3, <3>1, GateSound
    <3>. QED BY <1>1, <2>2, <3>2, ReadStep DEF Become
  <2>3. CASE \/ UpIn(r.vm) # {} /\ Goto(w, "reg")
             \/ Visible(r.vm) # {} /\ Goto(w, "delstop")
             \/ Visible(r.vm) = {} /\ r.att # 0 /\ Goto(w, "resolve")
    <3>1. \A pc \in {"reg", "delstop", "resolve"} :
             [wk[w] EXCEPT !.pc = pc] \in WorkerRec /\ [wk[w] EXCEPT !.pc = pc].job = wk[w].job
      BY <1>2 DEF WorkerRec, Points, Leased
    <3>2. UpIn(r.vm) # {} \/ Visible(r.vm) # {} => EverUp(r.vm)
      BY DEF UpIn, Visible, EverUp
    <3>. QED BY <1>1, <1>4, <2>3, <3>1, <3>2, ReadStep DEF Goto
  <2>4. CASE Visible(r.vm) = {} /\ r.created /\ Become(w, Gone(wk[w]))
    <3>1. Gone(wk[w]) \in WorkerRec /\ Gone(wk[w]).job = wk[w].job
      BY <1>2, GoneFields
    <3>. QED BY <1>1, <1>3, <1>4, <2>4, <3>1, ReadStep DEF Become
  <2>. QED BY <2>0, <2>1, <2>2, <2>3, <2>4
<1>5. CASE v = Gone(wk[w]) /\ Visible(r.vm) = {} /\ EverUp(r.vm)
  <2>1. v.pc = "relgone" /\ v.st = wk[w].st
    BY <1>2, <1>5, GoneFields
  <2>2. R.vm # NoGen => Active(R.vm) = {}
    <3>1. R.vm # NoGen => R.vm = r.vm /\ Taken(R.vm) \subseteq {R.att}
      BY <1>2, <1>3 DEF FreshCopy, Holding, RecordSound
    <3>. QED BY <1>5, <3>1, GoneForGood
  <2>. QED BY <1>2, <1>3, <1>4, <2>1, <2>2
           DEF LeasedSound, CopySound, StatusSound, ComputeSound, Informed, Fresh,
               WithVM, Judged, Leased
<1>6. CASE ~(v = Gone(wk[w]) /\ Visible(r.vm) = {} /\ EverUp(r.vm))
  <2>1. /\ v.pc \in {"reg", "delstop", "resolve"} /\ v.r = r /\ v.st = wk[w].st
        /\ v.pc \in {"reg", "delstop"} => EverUp(r.vm)
        /\ v.pc = "resolve" => r.att \in Attempts
    <3>1. r.att \in Attempts \cup {0} /\ wk[w] \in WorkerRec
      BY <1>2 DEF LocalRec
    <3>. QED BY <1>4, <1>6, <3>1 DEF WorkerRec
  <2>. QED BY <1>2, <1>3, <1>4, <2>1
           DEF LeasedSound, CopySound, StatusSound, ComputeSound, Informed, Fresh,
               WithVM, Judged, Leased
<1>. QED BY <1>4, <1>5, <1>6

\* ResolveAttempt: an attempt that may be pending is kept.
LEMMA ResolveAttemptStep ==
  ASSUME CallbackInv, NEW w \in Workers, ResolveAttempt(w)
  PROVE  CallbackInv'
<1> DEFINE R == jobs[wk[w].job]
           r == wk[w].r
<1>1. /\ wk[w].pc = "resolve" /\ wk[w].pc \in Leased /\ UNCHANGED <<storeVars, world>>
  BY Zenon DEF ResolveAttempt, At, Leased
<1>2. /\ Holding(w, wk[w], R) /\ LeasedSound(w, wk[w], R)
      /\ r \in LocalRec /\ wk[w] \in WorkerRec
  BY <1>1, Acting
<1>3. /\ FreshCopy(r, R) /\ r.vm # NoGen /\ Informed(wk[w], r, R) /\ r.att \in Attempts
      /\ R.vm # NoGen => R.vm = r.vm /\ R.att = r.att
  BY <1>1, <1>2 DEF LeasedSound, CopySound, StatusSound, ComputeSound, Informed,
                    Fresh, FreshCopy, WithVM, Judged
<1>4. CASE Become(w, GateOf(r, wk[w]))
  <2>1. Clean(r, R)
    BY <1>3 DEF Clean
  <2>2. /\ GateOf(r, wk[w]) \in WorkerRec /\ GateOf(r, wk[w]).job = wk[w].job
        /\ GateOf(r, wk[w]).pc \in Leased /\ LeasedSound(w, GateOf(r, wk[w]), R)
    BY <1>2, <1>3, <2>1, GateSound
  <2>. QED BY <1>1, <1>4, <2>2, ReadStep DEF Become
<1>5. ASSUME NEW stockout \in BOOLEAN, inst[r.vm][r.att] # "pending",
             stockout => inst[r.vm][r.att] = "failed",
             Become(w, [wk[w] EXCEPT !.pc = "recheck", !.spare = stockout])
      PROVE  CallbackInv'
  <2> DEFINE v == [wk[w] EXCEPT !.pc = "recheck", !.spare = stockout]
  <2>1. /\ v \in WorkerRec /\ v.pc = "recheck" /\ v.r = r /\ v.st = wk[w].st
        /\ v.spare = stockout /\ v.job = wk[w].job
    <3>1. "recheck" \in Points
      BY DEF Points, Leased
    <3>. QED BY <1>2, <3>1 DEF WorkerRec
  <2>2. wk' = [wk EXCEPT ![w] = v]
    BY <1>5 DEF Become
  <2> HIDE DEF v
  <2>3. v.pc \in Leased /\ LeasedSound(w, v, R)
    BY <1>2, <1>3, <1>5, <2>1
       DEF LeasedSound, CopySound, StatusSound, ComputeSound, Informed, Fresh,
           WithVM, Judged, Leased
  <2>. QED BY <1>1, <2>1, <2>2, <2>3, ReadStep
<1>6. \/ Become(w, GateOf(r, wk[w]))
      \/ /\ inst[r.vm][r.att] # "pending"
         /\ \E stockout \in BOOLEAN :
              /\ stockout => inst[r.vm][r.att] = "failed"
              /\ Become(w, [wk[w] EXCEPT !.pc = "recheck", !.spare = stockout])
  BY Zenon DEF ResolveAttempt
<1>7. CASE \E stockout \in BOOLEAN :
               /\ inst[r.vm][r.att] # "pending"
               /\ stockout => inst[r.vm][r.att] = "failed"
               /\ Become(w, [wk[w] EXCEPT !.pc = "recheck", !.spare = stockout])
  BY <1>5, <1>7, Zenon
<1>. QED BY <1>4, <1>6, <1>7, Zenon

\* RecheckInstance: released only once nothing of the attempt is left.
LEMMA RecheckInstanceStep ==
  ASSUME CallbackInv, NEW w \in Workers, RecheckInstance(w)
  PROVE  CallbackInv'
<1> DEFINE R == jobs[wk[w].job]
           r == wk[w].r
<1>1. /\ wk[w].pc = "recheck" /\ wk[w].pc \in Leased /\ UNCHANGED <<storeVars, world>>
  BY DEF RecheckInstance, At, Leased
<1>2. /\ Holding(w, wk[w], R) /\ LeasedSound(w, wk[w], R)
      /\ r \in LocalRec /\ wk[w] \in WorkerRec
  BY <1>1, Acting
<1>3. /\ FreshCopy(r, R) /\ r.vm # NoGen /\ Informed(wk[w], r, R) /\ r.att \in Attempts
      /\ R.vm # NoGen => /\ R.vm = r.vm /\ Taken(R.vm) \subseteq {R.att}
                         /\ inst[R.vm][R.att] # "pending"
                         /\ wk[w].spare => inst[R.vm][R.att] = "failed"
  BY <1>1, <1>2 DEF LeasedSound, CopySound, StatusSound, ComputeSound, Informed,
                    Fresh, FreshCopy, WithVM, Judged, Holding, RecordSound
<1>4. CASE Return(w)
  BY <1>1, <1>4, ReturnStep
<1>5. CASE wk[w].spare /\ Become(w, [wk[w] EXCEPT !.spare = FALSE, !.pc = "settle"])
  <2> DEFINE v == [wk[w] EXCEPT !.spare = FALSE, !.pc = "settle"]
  <2>1. /\ v \in WorkerRec /\ v.pc = "settle" /\ v.r = r /\ v.st = wk[w].st
        /\ v.job = wk[w].job
    <3>1. "settle" \in Points
      BY DEF Points, Leased
    <3>. QED BY <1>2, <3>1 DEF WorkerRec
  <2>2. wk' = [wk EXCEPT ![w] = v]
    BY <1>5 DEF Become
  <2> HIDE DEF v
  <2>3. v.pc \in Leased /\ LeasedSound(w, v, R)
    BY Zenon, <1>2, <1>3, <1>5, <2>1
       DEF LeasedSound, CopySound, StatusSound, ComputeSound, Informed, Fresh,
           WithVM, Judged, Leased
  <2>. QED BY <1>1, <2>1, <2>2, <2>3, ReadStep
<1>6. CASE Visible(r.vm) = {} /\ Become(w, Gone(wk[w]))
  <2> DEFINE v == Gone(wk[w])
  <2>1. v \in WorkerRec /\ v.pc = "relgone" /\ v.st = wk[w].st /\ v.job = wk[w].job
    BY <1>2, GoneFields
  <2>2. R.vm # NoGen => Active(R.vm) = {}
    BY <1>3, <1>6, GoneForGood
  <2>3. wk' = [wk EXCEPT ![w] = v]
    BY <1>6, Zenon DEF Become
  <2> HIDE DEF v
  <2>4. v.pc \in Leased /\ LeasedSound(w, v, R)
    BY <1>2, <1>3, <2>1, <2>2
       DEF LeasedSound, CopySound, StatusSound, ComputeSound, Informed, Fresh,
           WithVM, Judged, Leased
  <2>. QED BY <1>1, <2>1, <2>3, <2>4, ReadStep
<1>. QED BY <1>4, <1>5, <1>6 DEF RecheckInstance

\* A reserved generation gets its credential before an attempt.
LEMMA CredentialedSound ==
  ASSUME NEW w \in Workers, NEW R, NEW v, NEW r \in LocalRec, Holding(w, v, R),
         FreshCopy(r, R), r.jit \/ r.vm # NoGen, R.vm = NoGen => Closed(R)
  PROVE  /\ Credentialed(r, v) \in WorkerRec /\ Credentialed(r, v).job = v.job
         /\ Credentialed(r, v).pc \in Leased /\ LeasedSound(w, Credentialed(r, v), R)
<1>. SUFFICES ASSUME NEW u, u = Credentialed(r, v)
              PROVE  u \in WorkerRec /\ u.job = v.job /\ u.pc \in Leased
                     /\ LeasedSound(w, u, R)
  OBVIOUS
<1>1. PICK pc \in {"attempt", "jit"} :
         /\ pc = IF r.jit THEN "attempt" ELSE "jit"
         /\ u = [Only(v, pc) EXCEPT !.r = r, !.last = v.last]
  BY DEF Credentialed
<1>2. /\ Only(v, pc) \in WorkerRec /\ Only(v, pc).pc = pc /\ Only(v, pc).job = v.job
      /\ Only(v, pc).st = "none" /\ v.last \in Attempts \cup {0}
  <2>1. pc \in Points /\ v \in WorkerRec
    BY DEF Holding, Points, Leased
  <2>2. v.last \in Attempts \cup {0}
    BY <2>1 DEF WorkerRec
  <2>. QED BY <2>1, <2>2, OnlyFields
<1>3. /\ u \in WorkerRec /\ u.pc = pc /\ u.job = v.job /\ u.r = r
  BY <1>1, <1>2 DEF WorkerRec
<1>4. R.vm # NoGen => R.jit = r.jit
  BY DEF FreshCopy
<1>. QED BY <1>1, <1>3, <1>4
         DEF Holding, LeasedSound, CopySound, StatusSound, ComputeSound, Fresh, WithVM,
             Judged, Leased

\* Prepare: from the plan to a reservation, a credential or an attempt.
LEMMA PrepareSound ==
  ASSUME NEW w \in Workers, NEW R, NEW v, NEW r \in LocalRec, Holding(w, v, R),
         FreshCopy(r, R), r.vm = NoGen => R.att = 0 /\ ~R.created, v = wk[w],
         Prepare(w, r, v)
  PROVE  \E u \in WorkerRec : /\ wk' = [wk EXCEPT ![w] = u] /\ u.job = v.job
                              /\ u.pc \in Leased /\ LeasedSound(w, u, R)
<1>1. CASE Permanent(w)
  <2> DEFINE u == [Only(v, "unlease") EXCEPT !.perm = TRUE]
  <2>1. /\ Only(v, "unlease") \in WorkerRec /\ Only(v, "unlease").pc = "unlease"
        /\ Only(v, "unlease").job = v.job
    BY OnlyFields DEF Holding, Points, Leased
  <2>2. u \in WorkerRec /\ u.pc = "unlease" /\ u.job = v.job
    BY <2>1 DEF WorkerRec
  <2>3. wk' = [wk EXCEPT ![w] = u]
    BY <1>1 DEF Permanent, Become
  <2> HIDE DEF u
  <2>. QED BY <2>2, <2>3, UnleaseSound DEF Holding
<1>2. CASE r.vm = NoGen /\ Become(w, [Only(v, "reserve") EXCEPT !.last = v.last])
  <2> DEFINE u == [Only(v, "reserve") EXCEPT !.last = v.last]
  <2>1. /\ Only(v, "reserve") \in WorkerRec /\ Only(v, "reserve").pc = "reserve"
        /\ Only(v, "reserve").job = v.job
        /\ Only(v, "reserve").r = Local(NoRecord)
        /\ v.last \in Attempts \cup {0}
    <3>1. v \in WorkerRec /\ "reserve" \in Points
      BY DEF Holding, Points, Leased
    <3>. QED BY <3>1, OnlyFields DEF WorkerRec
  <2>2. /\ u \in WorkerRec /\ u.pc = "reserve" /\ u.job = v.job
        /\ u.r = Local(NoRecord)
    BY <2>1 DEF WorkerRec
  <2>3. wk' = [wk EXCEPT ![w] = u]
    BY <1>2 DEF Become
  <2> HIDE DEF u
  <2>4. R.vm = NoGen /\ u.r.vm = NoGen /\ R.att = 0 /\ ~R.created
    BY <1>2, <2>2 DEF FreshCopy, Local, NoRecord
  <2>5. CopySound(u, R)
    BY <2>2, <2>4, StoreAssumption
       DEF CopySound, FreshCopy, Fresh, WithVM, Closed, Local, NoRecord
  <2>6. StatusSound(u, R) /\ ComputeSound(u, R)
    BY <2>2 DEF StatusSound, ComputeSound, Judged
  <2>. QED BY <2>2, <2>3, <2>5, <2>6 DEF Holding, LeasedSound, Leased
<1>3. CASE r.vm # NoGen /\ Become(w, Credentialed(r, v))
  <2>1. R.vm = NoGen => Closed(R)
    BY <1>3 DEF FreshCopy
  <2>. QED BY <1>3, <2>1, CredentialedSound DEF Become
<1>. QED BY <1>1, <1>2, <1>3 DEF Prepare

\* CheckCredential.
LEMMA CheckCredentialStep ==
  ASSUME CallbackInv, NEW w \in Workers, CheckCredential(w)
  PROVE  CallbackInv'
<1> DEFINE R == jobs[wk[w].job]
           r == wk[w].r
<1>1. /\ wk[w].pc = "plan" /\ wk[w].pc \in Leased /\ UNCHANGED <<storeVars, world>>
  BY DEF CheckCredential, At, Leased
<1>2. /\ Holding(w, wk[w], R) /\ LeasedSound(w, wk[w], R)
      /\ r \in LocalRec /\ wk[w] \in WorkerRec
  BY <1>1, Acting
<1>3. /\ FreshCopy(r, R) /\ ~Closed(r)
      /\ r.vm = NoGen => R.att = 0 /\ ~R.created
      /\ wk[w].st \in {"queued", "in_progress"}
  BY <1>1, <1>2 DEF LeasedSound, CopySound, StatusSound, Fresh
<1>4. CASE Prepare(w, r, wk[w])
  <2>1. PICK u \in WorkerRec : /\ wk' = [wk EXCEPT ![w] = u] /\ u.job = wk[w].job
                               /\ u.pc \in Leased /\ LeasedSound(w, u, R)
    BY <1>2, <1>3, <1>4, PrepareSound
  <2>. QED BY <1>1, <2>1, ReadStep
<1>5. CASE r.vm # NoGen /\ r.att = 0 /\ Goto(w, "reljit")
  <2> DEFINE v == [wk[w] EXCEPT !.pc = "reljit"]
  <2>1. /\ v \in WorkerRec /\ v.pc = "reljit" /\ v.r = r /\ v.st = wk[w].st
        /\ v.job = wk[w].job
    BY <1>2 DEF WorkerRec, Points, Leased
  <2>2. wk' = [wk EXCEPT ![w] = v]
    BY <1>5 DEF Goto
  <2> HIDE DEF v
  <2>3. v.pc \in Leased /\ LeasedSound(w, v, R)
    BY <1>2, <1>3, <1>5, <2>1
       DEF LeasedSound, CopySound, StatusSound, ComputeSound, Fresh, WithVM, Judged,
           Leased, Statuses
  <2>. QED BY <1>1, <2>1, <2>2, <2>3, ReadStep
<1>. QED BY <1>4, <1>5 DEF CheckCredential

\* WaitForOperation: only a settled operation ends the attempt.
LEMMA WaitForOperationStep ==
  ASSUME CallbackInv, NEW w \in Workers, WaitForOperation(w)
  PROVE  CallbackInv'
<1> DEFINE R == jobs[wk[w].job]
           g == wk[w].gen
           a == wk[w].last
<1>1. /\ wk[w].pc = "wait" /\ wk[w].pc \in Leased /\ UNCHANGED <<storeVars, world>>
  BY DEF WaitForOperation, At, Leased
<1>2. /\ Holding(w, wk[w], R) /\ LeasedSound(w, wk[w], R) /\ wk[w] \in WorkerRec
  BY <1>1, Acting
<1>3. /\ R.vm = NoGen => Closed(R)
      /\ R.vm # NoGen => R.vm = g /\ R.att = a /\ R.jit
      /\ a \in Attempts
  BY <1>1, <1>2 DEF LeasedSound, CopySound, ComputeSound
<1>4. CASE inst[g][a] \in {"up", "stopped", "gone"} /\ Become(w, Only(wk[w], "created"))
  <2> DEFINE v == Only(wk[w], "created")
  <2>1. v \in WorkerRec /\ v.pc = "created" /\ v.job = wk[w].job
    BY <1>2, OnlyFields DEF Points, Leased
  <2>2. wk' = [wk EXCEPT ![w] = v]
    BY <1>4 DEF Become
  <2>3. R.vm # NoGen => EverUp(R.vm)
    BY <1>3, <1>4 DEF EverUp
  <2> HIDE DEF v
  <2>4. v.pc \in Leased /\ LeasedSound(w, v, R)
    BY <1>2, <1>3, <2>1, <2>3
       DEF LeasedSound, CopySound, StatusSound, ComputeSound, Fresh, WithVM, Judged, Leased
  <2>. QED BY <1>1, <2>1, <2>2, <2>4, ReadStep
<1>5. ASSUME inst[g][a] = "failed", NEW p \in BOOLEAN,
             Become(w, [wk[w] EXCEPT !.perm = p, !.pc = "clear"])
      PROVE  CallbackInv'
  <2> DEFINE v == [wk[w] EXCEPT !.perm = p, !.pc = "clear"]
  <2>1. /\ v \in WorkerRec /\ v.pc = "clear" /\ v.job = wk[w].job
        /\ v.gen = g /\ v.last = a /\ ~v.spare
    <3>1. "clear" \in Points /\ ~wk[w].spare
      BY <1>1, <1>2 DEF Points, Leased, LeasedSound, ComputeSound
    <3>. QED BY <1>2, <3>1 DEF WorkerRec
  <2>2. wk' = [wk EXCEPT ![w] = v]
    BY <1>5 DEF Become
  <2> HIDE DEF v
  <2>3. CopySound(v, R)
    BY <1>2, <1>3, <2>1 DEF CopySound, Fresh, WithVM
  <2>4. StatusSound(v, R)
    BY <2>1 DEF StatusSound, Judged
  <2>5. v.pc = "clear" => ~Accepted(g, a)
    BY <1>5 DEF Accepted
  <2>6. ComputeSound(v, R)
    BY <1>2, <1>3, <2>1, <2>5 DEF ComputeSound
  <2>7. v.pc \in Leased /\ LeasedSound(w, v, R)
    BY <1>2, <2>1, <2>3, <2>4, <2>6 DEF LeasedSound, Leased
  <2>. QED BY <1>1, <2>1, <2>2, <2>7, ReadStep
<1>. QED BY <1>4, <1>5 DEF WaitForOperation

-----------------------------------------------------------------------------
(***************************************************************************)
(* Steps without a lease that only read, and failures.                     *)
(***************************************************************************)
\* A callback without a lease goes on from what it read.
LEMMA LookStep ==
  ASSUME CallbackInv, UNCHANGED <<storeVars, world>>, NEW w \in Workers,
         NEW v \in WorkerRec, wk' = [wk EXCEPT ![w] = v],
         v.pc \notin Leased, v.pc \in Unleased => UnleasedSound(v)
  PROVE  CallbackInv'
  BY LocalStep DEF WorkerSound

\* StartDelete, StartSweep, StartReconcile and RowLook name a generation that had
\* a VM; the last one releases it only if that is gone.
LEMMA LookSteps ==
  ASSUME CallbackInv, NEW w \in Workers,
         \/ \E j \in Jobs : StartDelete(w, j)
         \/ \E g \in Gens : StartSweep(w, g) \/ StartReconcile(w, g)
         \/ RowLook(w)
  PROVE  CallbackInv'
<1>1. UNCHANGED <<storeVars, world>>
  BY DEF StartDelete, StartSweep, StartReconcile, RowLook
<1>2. Idle \in WorkerRec /\ wk[w] \in WorkerRec /\ names \subseteq Gens
  BY LocalType, Acting
<1>3. ASSUME NEW j \in Jobs, StartDelete(w, j) PROVE CallbackInv'
  <2> DEFINE v == [Idle EXCEPT !.pc = "dasg", !.job = j, !.gen = jobs[j].pd]
  <2>1. /\ jobs[j].pd \in Gens /\ jobs[j].terminal
        /\ EverUp(jobs[j].pd) /\ run[jobs[j].pd] = "gone"
    <3>1. jobs[j] \in JobRec /\ JobSound(j) /\ jobs[j].pd # NoGen
      BY <1>3 DEF StartDelete, CallbackInv, CallbacksSound, LedgerInv, StoreTypeOK
    <3>. QED BY <3>1 DEF JobSound, JobRec
  <2>2. jobs[j].pd \in names
    BY <2>1, LiveOnce
  <2>3. /\ v \in WorkerRec /\ v.pc = "dasg" /\ v.job = j /\ v.gen = jobs[j].pd
        /\ v.last = 0
    BY <1>2, <2>1 DEF WorkerRec, Points, Unleased, Idle
  <2>4. wk' = [wk EXCEPT ![w] = v]
    BY <1>3 DEF StartDelete, Become
  <2> HIDE DEF v
  <2>5. UnleasedSound(v) /\ v.pc \notin Leased
    BY <2>1, <2>2, <2>3 DEF UnleasedSound, Deleting, Leased
  <2>. QED BY <1>1, <2>3, <2>4, <2>5, LookStep
<1>4. ASSUME NEW g \in Gens, NEW v \in WorkerRec, EverUp(g), v.gen = g,
             v.pc \in {"rdel", "rlook"}, wk' = [wk EXCEPT ![w] = v],
             v.last # 0 => inst[g][v.last] \in {"stopped", "gone"}
      PROVE  CallbackInv'
  <2>1. g \in names
    BY <1>4, LiveOnce
  <2>2. UnleasedSound(v) /\ v.pc \notin Leased
    BY <1>4, <2>1 DEF UnleasedSound, Deleting, Leased
  <2>. QED BY <1>1, <1>4, <2>2, LookStep
<1>5. ASSUME NEW g \in Gens, StartSweep(w, g) PROVE CallbackInv'
  <2>1. PICK a \in Visible(g) \ UpIn(g) :
          wk' = [wk EXCEPT ![w] = [Idle EXCEPT !.pc = "rdel", !.gen = g, !.last = a]]
    BY <1>5 DEF StartSweep, Become
  <2>2. a \in Attempts /\ inst[g][a] = "stopped" /\ EverUp(g)
    BY DEF Visible, UpIn, EverUp
  <2> DEFINE v == [Idle EXCEPT !.pc = "rdel", !.gen = g, !.last = a]
  <2>3. v \in WorkerRec /\ v.pc = "rdel" /\ v.gen = g /\ v.last = a
    BY <1>2, <2>2 DEF WorkerRec, Points, Unleased
  <2>4. wk' = [wk EXCEPT ![w] = v]
    BY <2>1
  <2> HIDE DEF v
  <2>. QED BY <1>4, <2>2, <2>3, <2>4
<1>6. ASSUME NEW g \in Gens, StartReconcile(w, g) PROVE CallbackInv'
  <2> DEFINE v == [Idle EXCEPT !.pc = "rlook", !.gen = g,
                               !.r.terminal = runners[g].rec.terminal]
  <2>1. EverUp(g)
    BY <1>6 DEF StartReconcile, CallbackInv, CallbacksSound, GenSound, Live
  <2>2. runners[g].rec.terminal \in BOOLEAN
    BY DEF CallbackInv, LedgerInv, StoreTypeOK, RunnerRec, SnapshotRec
  <2>3. v \in WorkerRec /\ v.pc = "rlook" /\ v.gen = g /\ v.last = Idle.last
    BY <1>2, <2>2 DEF WorkerRec, LocalRec, Points, Unleased
  <2>4. v.last = 0
    BY <2>3 DEF Idle
  <2>. QED BY <1>4, <1>6, <2>1, <2>3, <2>4 DEF StartReconcile, Become
<1>7. CASE RowLook(w)
  <2> DEFINE g == wk[w].gen
  <2>1. wk[w].pc = "rlook"
    BY <1>7 DEF RowLook, At
  <2>2. /\ g \in names /\ EverUp(g) /\ g \in Gens
        /\ wk[w].last # 0 /\ g \notin astray =>
             inst[g][wk[w].last] \in {"stopped", "gone"}
    BY <1>2, <2>1 DEF CallbackInv, CallbacksSound, WorkerSound, Unleased, UnleasedSound
  <2>3. PICK pc \in {"rreg", "rdel", "rrel"} :
           /\ wk' = [wk EXCEPT ![w] = [wk[w] EXCEPT !.pc = pc]]
           /\ pc = "rrel" => Visible(g) = {}
    <3>1. UpIn(g) # {} => Visible(g) # {}
      BY DEF UpIn, Visible
    <3>. QED BY <1>7, <3>1 DEF RowLook, Goto
  <2>4. pc = "rrel" /\ g \in Live => Active(g) = {}
    BY <2>2, <2>3, LiveOnce, GoneForGood
  <2> DEFINE v == [wk[w] EXCEPT !.pc = pc]
  <2>5. v \in WorkerRec /\ v.pc = pc /\ v.gen = g /\ v.last = wk[w].last
    BY <1>2 DEF WorkerRec, Points, Unleased
  <2>6. wk' = [wk EXCEPT ![w] = v]
    BY <2>3
  <2> HIDE DEF v
  <2>7. UnleasedSound(v) /\ v.pc \notin Leased
    BY <2>2, <2>4, <2>5 DEF UnleasedSound, Deleting, Leased
  <2>. QED BY <1>1, <2>5, <2>6, <2>7, LookStep
<1>. QED BY <1>3, <1>5, <1>6, <1>7

\* Fail and Crash.
LEMMA FailureSteps ==
  ASSUME CallbackInv, NEW w \in Workers, Fail(w) \/ Crash(w)
  PROVE  CallbackInv'
<1>1. CASE Fail(w)
  BY <1>1, ReturnStep DEF Fail
<1>2. CASE Crash(w)
  <2>1. /\ UNCHANGED <<storeVars, world>> /\ wk' = [wk EXCEPT ![w] = Idle]
        /\ Idle.pc = "idle"
    BY <1>2 DEF Crash, Done, Idle
  <2>2. "idle" \notin Leased /\ "idle" \notin Unleased
    BY DEF Leased, Unleased
  <2>. QED BY <2>1, <2>2, LocalType, LookStep
<1>. QED BY <1>1, <1>2

-----------------------------------------------------------------------------
(***************************************************************************)
(* Steps that write the store.                                             *)
(***************************************************************************)
\* Compute and GitHub are left alone; a generation with an accepted insert may be
\* marked as astray.
Marks ==
  /\ UNCHANGED <<inst, run, ghJob, ranOn>>
  /\ astray \subseteq astray' /\ astray' \subseteq Gens
  /\ \A g \in astray' \ astray : Begun(g) # {} /\ Doubtful

LEMMA MarkedWorld ==
  ASSUME CallbackInv, UNCHANGED world \/ Marks
  PROVE  /\ Marks
         /\ \A g \in Gens : /\ Taken(g)' \subseteq Taken(g)
                            /\ Active(g)' \subseteq Active(g)
                            /\ EverUp(g)' = EverUp(g) /\ Unused(g)' = Unused(g)
                            /\ \A a \in Attempts : Accepted(g, a)' = Accepted(g, a)
                            /\ Settles(g)
<1>1. Marks
  <2>1. astray \subseteq Gens
    BY DEF CallbackInv, TypeOK
  <2>. QED BY <2>1 DEF Marks, world
<1>2. ASSUME NEW g \in Gens
      PROVE  /\ Taken(g)' \subseteq Taken(g)
             /\ Active(g)' \subseteq Active(g)
             /\ EverUp(g)' = EverUp(g) /\ Unused(g)' = Unused(g)
             /\ \A a \in Attempts : Accepted(g, a)' = Accepted(g, a)
             /\ Settles(g)
  <2>1. /\ inst' = inst /\ (g \in astray => g \in astray')
        /\ g \in astray' => g \in astray \/ Begun(g) # {}
    BY <1>1 DEF Marks
  <2>. QED BY <2>1 DEF Taken, Begun, Unused, Accepted, Active, Existing, EverUp, Settles
<1>. QED BY <1>1, <1>2

\* A transaction of w disturbs only records that nobody else holds the lease of.
LEMMA StoreStep ==
  ASSUME CallbackInv, UNCHANGED world \/ Marks, [StoreNext]_storeVars,
         \A j \in Jobs : JobSound(j)', \A g \in Gens : GenSound(g)',
         NEW w \in Workers, NEW v \in WorkerRec, wk' = [wk EXCEPT ![w] = v],
         WorkerSound(w, v)',
         \A j \in Jobs : jobs[j].lease \in Workers \ {w} => Calm(j),
         names \subseteq names', \A g \in names : g \in Live' => g \in Live
  PROVE  CallbackInv'
<1>1. UNCHANGED <<inst, run, ghJob, ranOn>> /\ astray' \subseteq Gens
  BY MarkedWorld DEF Marks
<1>2. WorldTyped'
  BY <1>1 DEF CallbackInv, TypeOK, WorldTyped
<1>3. Ages
  <2>1. Sticks
    BY StepKeeps DEF CallbackInv, Kept
  <2>2. astray' \subseteq astray \/ Doubtful
    BY MarkedWorld DEF Marks
  <2>. QED BY <1>1, <2>1, <2>2 DEF Ages, EverUp, Sticks
<1>4. ASSUME NEW u \in Workers \ {w}, wk'[u] = wk[u] PROVE Undisturbed(u)
  <2>1. wk[u].pc \in Leased => wk[u].job \in Jobs /\ jobs[wk[u].job].lease = u
    BY Acting DEF Holding
  <2>2. \A g \in Gens : Settles(g)
    BY MarkedWorld
  <2>. QED BY <1>4, <2>1, <2>2 DEF Undisturbed
<1>. QED BY <1>2, <1>3, <1>4, ActorStep

\* What holds of Compute and GitHub at a step that leaves them alone, in the two
\* states.
LEMMA SameWorld ==
  ASSUME UNCHANGED world
  PROVE  /\ \A g : /\ Taken(g)' = Taken(g) /\ Active(g)' = Active(g)
                   /\ EverUp(g)' = EverUp(g) /\ Unused(g)' = Unused(g)
                   /\ \A a : Accepted(g, a)' = Accepted(g, a)
         /\ \A q : RecordSound(q)' = RecordSound(q)
  BY DEF world, Taken, Begun, Unused, Accepted, Active, Existing, EverUp, RecordSound, Closed

\* A write of the record that keeps its claim, and of its row.
LEMMA RecordWriteStep ==
  ASSUME CallbackInv, UNCHANGED world \/ Marks, UNCHANGED <<assignments, names>>,
         [StoreNext]_storeVars,
         NEW w \in Workers, NEW j \in Jobs, NEW q, SameClaim(j, q), WriteJob(j, q),
         RecordSound(q) \/ RecordSound(q)', q.seen => ghJob[j] # "none",
         q.terminal => ghJob[j] = "completed",
         q.pd # NoGen => q.terminal /\ EverUp(q.pd) /\ run[q.pd] = "gone",
         jobs[j].lease \in Workers \ {w} =>
           /\ q.lease = jobs[j].lease /\ (jobs[j].failure => q.failure)
           /\ q.att = jobs[j].att /\ q.jit = jobs[j].jit /\ q.created = jobs[j].created,
         NEW v \in WorkerRec, wk' = [wk EXCEPT ![w] = v],
         IF v.pc \in Leased THEN v.job = j /\ LeasedSound(w, v, q)
         ELSE v.pc \in Unleased => UnleasedSound(v)
  PROVE  CallbackInv'
<1>1. UNCHANGED <<inst, run, ghJob, ranOn>> /\ Marks
  BY MarkedWorld DEF Marks
<1>2. /\ jobs'[j] = q
      /\ \A k \in Jobs \ {j} : jobs'[k] = jobs[k]
      /\ runners \in [Gens -> RunnerRec]
      /\ q \in JobRec /\ q.vm = jobs[j].vm /\ q.vm \in Gens \cup {NoGen}
      /\ jobs[j].terminal => q.terminal
  BY DEF WriteJob, CallbackInv, LedgerInv, StoreTypeOK, SameClaim, JobRec
<1>3. /\ q.vm # NoGen => runners'[q.vm] = OwnedRow(j, q) /\ q.vm \in Live
      /\ \A g \in Gens \ {q.vm} : runners'[g] = runners[g]
  BY <1>2 DEF WriteJob, CallbackInv, LedgerInv, OwnershipIsExclusive, Live
<1>4. Live' = Live /\ \A g \in Gens : g = q.vm => runners'[g].owner = j
  <2>1. NoGen \notin Gens
    BY StoreAssumption
  <2>2. \A g \in Gens : /\ runners'[g].live = runners[g].live
                        /\ g = q.vm => runners'[g].owner = j
    <3>. SUFFICES ASSUME NEW g \in Gens
                  PROVE  /\ runners'[g].live = runners[g].live
                         /\ g = q.vm => runners'[g].owner = j
      OBVIOUS
    <3>1. CASE g = q.vm
      <4>1. runners'[g] = OwnedRow(j, q) /\ g \in Live
        BY <1>3, <2>1, <3>1
      <4>2. runners[g].live \in BOOLEAN /\ runners[g].live
        BY <1>2, <4>1 DEF Live, RunnerRec
      <4>. QED BY <4>1, <4>2 DEF OwnedRow
    <3>2. CASE g # q.vm
      BY <1>3, <3>2
    <3>. QED BY <3>1, <3>2
  <2>. QED BY <2>2 DEF Live
<1>5. ASSUME NEW k \in Jobs PROVE JobSound(k)'
  <2>1. JobSound(k)
    BY EachSound
  <2>2. /\ jobs[k].pd \in Gens \cup {NoGen} /\ jobs[k].vm \in Gens \cup {NoGen}
        /\ q.pd \in Gens \cup {NoGen} /\ ranOn[k] \in Gens \cup {NoGen}
    BY <1>2 DEF CallbackInv, LedgerInv, StoreTypeOK, TypeOK, JobRec
  <2>3. CASE k = j
    <3>1. RecordSound(q)'
      <4>1. CASE RecordSound(q)
        <5>1. q.vm # NoGen => 
                /\ Taken(q.vm)' \subseteq Taken(q.vm) /\ EverUp(q.vm)' = EverUp(q.vm)
                /\ Unused(q.vm)' = Unused(q.vm)
          BY <1>2, MarkedWorld
        <5>. QED BY <4>1, <5>1 DEF RecordSound, Closed
      <4>. QED BY <4>1
    <3>. QED BY <1>1, <1>2, <2>1, <2>2, <2>3, <3>1, MarkedWorld DEF JobSound
  <2>4. CASE k # j
    <3>1. RecordSound(jobs[k])'
      <4>1. PICK R : R = jobs[k]
        OBVIOUS
      <4>2. R.vm # NoGen => 
              /\ Taken(R.vm)' \subseteq Taken(R.vm)
              /\ EverUp(R.vm)' = EverUp(R.vm)
              /\ Unused(R.vm)' = Unused(R.vm)
        BY <2>2, <4>1, MarkedWorld
      <4>. QED BY <1>2, <2>1, <2>4, <4>1, <4>2 DEF RecordSound, Closed, JobSound
    <3>. QED BY <1>1, <1>2, <2>1, <2>2, <2>4, <3>1, MarkedWorld DEF JobSound
  <2>. QED BY <2>3, <2>4
<1>6. ASSUME NEW g \in Gens PROVE GenSound(g)'
  <2>1. GenSound(g)
    BY EachSound
  <2>2. g \notin names => Begun(g) = {}
    BY <2>1 DEF GenSound, Begun, Accepted
  <2>3. g \notin names => g \notin astray'
    BY <1>1, <2>1, <2>2 DEF GenSound, Marks
  <2>. QED BY <1>1, <1>3, <1>4, <2>1, <2>3, MarkedWorld, StoreAssumption DEF GenSound
<1>7. WorkerSound(w, v)'
  <2>1. CASE v.pc \in Leased
    <3>1. v.pc \notin Unleased
      BY <2>1 DEF Leased, Unleased
    <3>2. jobs'[v.job] = q /\ LeasedSound(w, v, q)
      BY <1>2, <2>1
    <3>3. v.r.vm \in Gens \cup {NoGen} /\ v.last \in Attempts \cup {0}
      BY DEF WorkerRec, LocalRec
    <3>4. CopySound(v, q)' /\ StatusSound(v, q)'
      BY <1>1, <1>4, <3>2, <3>3, MarkedWorld
         DEF LeasedSound, CopySound, FreshCopy, StatusSound, Closed
    <3>5. ComputeSound(v, q)'
      <4>1. ComputeSound(v, q) /\ CopySound(v, q)
        BY <3>2 DEF LeasedSound
      <4>2. \A g \in Gens : /\ Taken(g)' \subseteq Taken(g)
                           /\ Active(g)' \subseteq Active(g)
                           /\ EverUp(g)' = EverUp(g)
                           /\ \A a \in Attempts : Accepted(g, a)' = Accepted(g, a)
        BY MarkedWorld
      <4>3. v.pc \in WithVM => v.r.vm \in Gens
        BY <3>3, <4>1 DEF CopySound
      <4>. QED BY <1>1, <1>2, <3>3, <4>1, <4>2, <4>3 DEF ComputeSound, WithVM, Doubtful
    <3>6. LeasedSound(w, v, jobs[v.job])'
      BY <1>1, <3>2, <3>4, <3>5 DEF LeasedSound, CopySound, FreshCopy, StatusSound,
                                    ComputeSound
    <3>. QED BY <3>1, <3>6 DEF WorkerSound
  <2>2. CASE v.pc \notin Leased
    <3>1. \A k \in Jobs : jobs[k].terminal => jobs'[k].terminal
      BY <1>2
    <3>2. v.pc \in Unleased => UnleasedSound(v)'
      <4>1. names \subseteq Gens /\ (\A g \in astray : g \in astray')
        BY <1>1 DEF CallbackInv, LedgerInv, StoreTypeOK, Marks
      <4>. QED BY <1>1, <1>4, <2>2, <3>1, <4>1, MarkedWorld DEF UnleasedSound, Deleting
    <3>. QED BY <2>2, <3>2 DEF WorkerSound
  <2>. QED BY <2>1, <2>2
<1>8. \A k \in Jobs : jobs[k].lease \in Workers \ {w} => Calm(k)
  BY <1>2 DEF Calm
<1>. QED BY <1>4, <1>5, <1>6, <1>7, <1>8, StoreStep

\* The same under the lease.
LEMMA JobWriteStep ==
  ASSUME CallbackInv, UNCHANGED world \/ Marks, UNCHANGED <<assignments, names>>,
         [StoreNext]_storeVars,
         NEW w \in Workers, NEW j \in Jobs, NEW q, SameClaim(j, q), WriteJob(j, q),
         jobs[j].lease \in {w, NoWorker}, RecordSound(q) \/ RecordSound(q)',
         q.seen = jobs[j].seen, q.pd = jobs[j].pd,
         q.terminal => ghJob[j] = "completed",
         NEW v \in WorkerRec, wk' = [wk EXCEPT ![w] = v],
         IF v.pc \in Leased THEN v.job = j /\ LeasedSound(w, v, q)
         ELSE v.pc = "idle" \/ (v.pc = "park" /\ v.job \in Jobs)
  PROVE  CallbackInv'
<1>1. jobs[j].lease \notin Workers \ {w}
  BY StoreAssumption
<1>2. /\ q.seen => ghJob[j] # "none"
      /\ q.pd # NoGen => q.terminal /\ EverUp(q.pd) /\ run[q.pd] = "gone"
  BY DEF CallbackInv, CallbacksSound, JobSound, SameClaim
<1>3. v.pc \notin Leased => (v.pc \in Unleased => UnleasedSound(v))
  BY DEF Unleased, UnleasedSound, Deleting
<1>. QED BY <1>1, <1>2, <1>3, RecordWriteStep

\* A record that differs in what no VM depends on is as sound.
LEMMA RecordStaysSound ==
  ASSUME NEW p, NEW q, RecordSound(p), q.vm = p.vm, q.att = p.att, q.jit = p.jit,
         q.created = p.created, Closed(p) => Closed(q)
  PROVE  RecordSound(q)
  BY DEF RecordSound

\* What a callback knows of the record it leased.
LEMMA LeasedRecord ==
  ASSUME CallbackInv, NEW j \in Jobs
  PROVE  /\ jobs[j] \in JobRec /\ RecordSound(jobs[j])
         /\ jobs[j].terminal => jobs[j].status = "completed" /\ ghJob[j] = "completed"
         /\ jobs[j].seen => ghJob[j] # "none"
         /\ jobs[j].vm \in names \cup {NoGen}
<1>1. /\ jobs[j] \in JobRec /\ JobSound(j)
      /\ jobs[j].terminal => jobs[j].status = "completed"
  BY DEF CallbackInv, CallbacksSound, LedgerInv, StoreTypeOK, TerminalIsCompleted
<1>2. jobs[j].vm # NoGen => jobs[j].vm \in names
  BY <1>1 DEF CallbackInv, LedgerInv, OwnershipIsExclusive, LiveWereReserved, Live, JobRec
<1>. QED BY <1>1, <1>2 DEF JobSound

\* StartJob.
LEMMA StartJobStep ==
  ASSUME CallbackInv, NEW w \in Workers, NEW j \in Jobs, StartJob(w, j)
  PROVE  CallbackInv'
<1> DEFINE q == [jobs[j] EXCEPT !.lease = w]
           pc == IF jobs[j].terminal THEN "note" ELSE "ask"
           v == [Idle EXCEPT !.pc = pc, !.job = j, !.st = "completed"]
<1>1. /\ Claim(j, w) /\ wk' = [wk EXCEPT ![w] = v] /\ UNCHANGED world
      /\ WriteJob(j, q) /\ UNCHANGED <<fleet, assignments, names>>
      /\ jobs[j].seen /\ jobs[j].lease = NoWorker
  BY DEF StartJob, Become, Claim
<1>2. [StoreNext]_storeVars
  BY <1>1 DEF StoreNext, LeasedStep
<1>3. /\ q \in JobRec /\ q.lease = w /\ q.vm = jobs[j].vm /\ q.att = jobs[j].att
      /\ q.jit = jobs[j].jit /\ q.created = jobs[j].created /\ q.seen = jobs[j].seen
      /\ q.pd = jobs[j].pd /\ q.terminal = jobs[j].terminal
      /\ q.failure = jobs[j].failure /\ q.status = jobs[j].status
  BY LeasedRecord DEF JobRec
<1>4. /\ v \in WorkerRec /\ v.pc = pc /\ v.job = j /\ v.st = "completed"
  <2>1. pc \in Points /\ "completed" \in Statuses
    BY DEF Points, Leased, Statuses
  <2> HIDE DEF pc
  <2>. QED BY <2>1, LocalType DEF WorkerRec
<1> HIDE DEF q, v
<1>5. RecordSound(q)
  BY <1>3, LeasedRecord, RecordStaysSound DEF Closed
<1>6. SameClaim(j, q) /\ (q.terminal => ghJob[j] = "completed")
  BY <1>3, LeasedRecord DEF SameClaim
<1>7. v.pc \in Leased /\ LeasedSound(w, v, q)
  BY <1>1, <1>3, <1>4, LeasedRecord
     DEF LeasedSound, CopySound, StatusSound, ComputeSound, Fresh, WithVM, Judged,
         Leased, Statuses
<1>. QED BY <1>1, <1>2, <1>3, <1>4, <1>5, <1>6, <1>7, JobWriteStep

\* NoteStatusRead.
LEMMA NoteStatusReadStep ==
  ASSUME CallbackInv, NEW w \in Workers, NoteStatusRead(w)
  PROVE  CallbackInv'
<1> DEFINE j == wk[w].job
           s == wk[w].st
           p == jobs[j]
           q == IF p.terminal \/ s = "error" THEN p
                ELSE [p EXCEPT !.status = s, !.terminal = (s = "completed")]
           r == Local(q)
           v == IF s = "queued" /\ r.vm = NoGen
                THEN [wk[w] EXCEPT !.r = r, !.pc = "adopt"] ELSE Examine(r, wk[w])
<1>1. /\ wk[w].pc = "note" /\ wk[w].pc \in Leased /\ UNCHANGED world
      /\ NoteStatus(j, w, s) /\ WriteJob(j, q) /\ UNCHANGED <<fleet, assignments, names>>
  BY DEF NoteStatusRead, At, Leased, NoteStatus
<1>2. /\ j \in Jobs /\ Holding(w, wk[w], p) /\ LeasedSound(w, wk[w], p)
  BY <1>1, Acting
<1>3. s \in Statuses \cup {"error"} /\ (s = "completed" => ghJob[j] = "completed")
  BY <1>1, <1>2 DEF LeasedSound, StatusSound
<1>4. [StoreNext]_storeVars
  BY <1>1, <1>2, <1>3 DEF StoreNext, LeasedStep
<1>5. jobs'[j] = q
  BY <1>1, <1>2 DEF WriteJob, CallbackInv, LedgerInv, StoreTypeOK
<1>6. wk' = [wk EXCEPT ![w] = v]
  BY <1>5 DEF NoteStatusRead, Become
<1>7. /\ q \in JobRec /\ q.lease = w /\ q.vm = p.vm /\ q.att = p.att
      /\ q.jit = p.jit /\ q.created = p.created /\ q.seen = p.seen
      /\ q.pd = p.pd /\ (p.terminal => q.terminal) /\ q.failure = p.failure
      /\ s = "completed" => q.terminal
      /\ q.terminal => q.status = "completed" /\ ghJob[j] = "completed"
  <2>1. p \in JobRec /\ p.lease = w /\ j \in Jobs
    BY <1>2 DEF Holding
  <2>2. CASE p.terminal \/ s = "error"
    <3>1. q = p
      BY <2>2
    <3> HIDE DEF q
    <3>. QED BY <1>3, <2>1, <2>2, <3>1, LeasedRecord DEF Statuses
  <2>3. CASE ~(p.terminal \/ s = "error")
    <3>1. q = [p EXCEPT !.status = s, !.terminal = (s = "completed")] /\ s \in Statuses
      BY <1>3, <2>3
    <3> HIDE DEF q
    <3>. QED BY <1>3, <2>1, <2>3, <3>1 DEF JobRec
  <2>. QED BY <2>2, <2>3
<1> HIDE DEF q
<1>8. RecordSound(q)
  BY <1>2, <1>7, RecordStaysSound DEF Closed, Holding
<1>9. Holding(w, wk[w], q)
  BY <1>2, <1>7, <1>8 DEF Holding
<1>10. q.vm \in names \cup {NoGen}
  BY <1>2, <1>7, LeasedRecord
<1>11. /\ r \in LocalRec /\ FreshCopy(r, q) /\ Clean(r, q) /\ r.vm = q.vm
       /\ r.created = q.created /\ r.terminal = q.terminal
  BY <1>7, <1>8, <1>10, CopyIsFresh
<1>12. Informed(wk[w], r, q)
  BY <1>3, <1>7, <1>11 DEF Informed
<1>13. r.vm # NoGen /\ r.created => EverUp(r.vm)
  BY <1>8, <1>11 DEF RecordSound
<1> HIDE DEF r, v
<1>14. v \in WorkerRec /\ v.job = j /\ v.pc \in Leased /\ LeasedSound(w, v, q)
  <2>1. CASE s = "queued" /\ r.vm = NoGen
    <3> DEFINE u == [wk[w] EXCEPT !.r = r, !.pc = "adopt"]
    <3>1. u \in WorkerRec /\ u.pc = "adopt" /\ u.r = r /\ u.job = j /\ u.st = s
      BY <1>9, <1>11 DEF Holding, WorkerRec, Points, Leased
    <3>2. v = u
      BY <2>1 DEF v
    <3> HIDE DEF u
    <3>3. LeasedSound(w, u, q) /\ u.pc \in Leased
      BY <1>9, <1>11, <2>1, <3>1
         DEF Holding, Clean, LeasedSound, CopySound, StatusSound, ComputeSound, Fresh,
             WithVM,
             Judged, Leased, Statuses
    <3>. QED BY <3>1, <3>2, <3>3
  <2>2. CASE ~(s = "queued" /\ r.vm = NoGen)
    <3>1. v = Examine(r, wk[w])
      BY <2>2 DEF v
    <3>2. /\ Examine(r, wk[w]) \in WorkerRec /\ Examine(r, wk[w]).job = j
          /\ Examine(r, wk[w]).pc \in Leased /\ LeasedSound(w, Examine(r, wk[w]), q)
      BY <1>9, <1>11, <1>12, <1>13, ExamineSound
    <3>. QED BY <3>1, <3>2
  <2>. QED BY <2>1, <2>2
<1>15. SameClaim(j, q)
  BY <1>7 DEF SameClaim
<1>. QED BY <1>1, <1>2, <1>4, <1>6, <1>7, <1>8, <1>14, <1>15, JobWriteStep DEF Holding

\* KeepVM.
LEMMA KeepVMStep ==
  ASSUME CallbackInv, NEW w \in Workers, KeepVM(w)
  PROVE  CallbackInv'
<1> DEFINE j == wk[w].job
           p == jobs[j]
           q == [p EXCEPT !.created = TRUE]
           v == Only(wk[w], "unlease")
<1>1. /\ wk[w].pc \in {"keep", "created"} /\ wk[w].pc \in Leased /\ UNCHANGED world
      /\ SaveCreated(j, w) /\ WriteJob(j, q) /\ UNCHANGED <<fleet, assignments, names>>
      /\ wk' = [wk EXCEPT ![w] = v]
  BY DEF KeepVM, At, Leased, SaveCreated, Return, Become
<1>2. /\ j \in Jobs /\ Holding(w, wk[w], p) /\ LeasedSound(w, wk[w], p)
  BY <1>1, Acting
<1>3. [StoreNext]_storeVars
  BY <1>1, <1>2 DEF StoreNext, LeasedStep
<1>4. /\ q \in JobRec /\ q.lease = w /\ q.vm = p.vm /\ q.att = p.att
      /\ q.jit = p.jit /\ q.created /\ q.seen = p.seen /\ q.status = p.status
      /\ q.pd = p.pd /\ q.terminal = p.terminal /\ q.failure = p.failure
  BY <1>2 DEF JobRec, Holding
<1>5. v \in WorkerRec /\ v.pc = "unlease" /\ v.job = j
  BY <1>2, OnlyFields DEF Holding, Points, Leased
<1> HIDE DEF q, v
<1>6. RecordSound(q)
  <2>1. p.vm = NoGen => Closed(p)
    BY <1>1, <1>2 DEF LeasedSound, CopySound
  <2>2. p.vm # NoGen => EverUp(p.vm)
    BY <1>1, <1>2 DEF LeasedSound, ComputeSound
  <2>. QED BY <1>2, <1>4, <2>1, <2>2 DEF RecordSound, Closed, Holding
<1>7. SameClaim(j, q) /\ (q.terminal => ghJob[j] = "completed")
  BY <1>2, <1>4, LeasedRecord DEF SameClaim
<1>8. v.pc \in Leased /\ LeasedSound(w, v, q)
  BY <1>2, <1>4, <1>5, UnleaseSound DEF Holding
<1>. QED BY <1>1, <1>2, <1>3, <1>4, <1>5, <1>6, <1>7, <1>8, JobWriteStep DEF Holding

\* RecordOperation.
LEMMA RecordOperationStep ==
  ASSUME CallbackInv, NEW w \in Workers, RecordOperation(w)
  PROVE  CallbackInv'
<1> DEFINE j == wk[w].job
           p == jobs[j]
<1>1. wk[w].pc = "recop" /\ wk[w].pc \in Leased /\ UNCHANGED world
  BY DEF RecordOperation, At, Leased
<1>2. /\ j \in Jobs /\ Holding(w, wk[w], p) /\ LeasedSound(w, wk[w], p)
      /\ wk[w] \in WorkerRec /\ wk[w].r \in LocalRec
  BY <1>1, Acting
<1>3. CASE SaveOperation(j, w) /\ Become(w, [wk[w] EXCEPT !.pc = "wait", !.r.op = FALSE])
  <2> DEFINE q == [p EXCEPT !.op = TRUE]
             v == [wk[w] EXCEPT !.pc = "wait", !.r.op = FALSE]
  <2>1. /\ WriteJob(j, q) /\ UNCHANGED <<fleet, assignments, names>>
        /\ wk' = [wk EXCEPT ![w] = v]
    BY <1>3 DEF SaveOperation, Become
  <2>2. [StoreNext]_storeVars
    BY <1>2, <1>3 DEF StoreNext, LeasedStep
  <2>3. /\ q \in JobRec /\ q.lease = w /\ q.vm = p.vm /\ q.att = p.att
        /\ q.jit = p.jit /\ q.created = p.created /\ q.seen = p.seen
        /\ q.status = p.status /\ q.pd = p.pd /\ q.terminal = p.terminal
        /\ q.failure = p.failure
    BY <1>2 DEF JobRec, Holding
  <2>4. /\ v \in WorkerRec /\ v.pc = "wait" /\ v.job = j
        /\ v.gen = wk[w].gen /\ v.last = wk[w].last /\ v.spare = wk[w].spare
    BY <1>2 DEF Holding, WorkerRec, LocalRec, Points, Leased
  <2> HIDE DEF q, v
  <2>5. RecordSound(q)
    BY <1>2, <2>3, RecordStaysSound DEF Closed, Holding
  <2>6. SameClaim(j, q) /\ (q.terminal => ghJob[j] = "completed")
    BY <1>2, <2>3, LeasedRecord DEF SameClaim
  <2>7. v.pc \in Leased /\ LeasedSound(w, v, q)
    BY <1>1, <1>2, <2>3, <2>4
       DEF LeasedSound, CopySound, StatusSound, ComputeSound, Closed, Fresh, WithVM,
           Judged, Leased
  <2>. QED BY <1>1, <1>2, <2>1, <2>2, <2>3, <2>4, <2>5, <2>6, <2>7, JobWriteStep
           DEF Holding
<1>4. ASSUME "exhaust" \in Faults, UNCHANGED storeVars,
             Become(w, [wk[w] EXCEPT !.pc = "clear",
                                     !.spare = Accepted(wk[w].gen, wk[w].last)])
      PROVE  CallbackInv'
  <2> DEFINE b == Accepted(wk[w].gen, wk[w].last)
             v == [wk[w] EXCEPT !.pc = "clear", !.spare = b]
  <2>1. b \in BOOLEAN
    BY DEF Accepted
  <2> HIDE DEF b
  <2>2. /\ v \in WorkerRec /\ v.pc = "clear" /\ v.job = j /\ v.spare = b
        /\ v.gen = wk[w].gen /\ v.last = wk[w].last
    BY <1>2, <2>1 DEF WorkerRec, Points, Leased
  <2>3. wk' = [wk EXCEPT ![w] = v]
    BY <1>4 DEF Become, b
  <2> HIDE DEF v
  <2>4. b = Accepted(v.gen, v.last)
    BY <2>2 DEF b
  <2>5. v.pc \in Leased /\ LeasedSound(w, v, p)
    BY <1>1, <1>2, <1>4, <2>2, <2>4
       DEF LeasedSound, CopySound, StatusSound, ComputeSound, Closed, Fresh, WithVM,
           Judged, Leased, Doubtful
  <2>. QED BY <1>1, <1>4, <2>2, <2>3, <2>5, ReadStep
<1>. QED BY <1>3, <1>4 DEF RecordOperation

\* FinishJob.
LEMMA FinishJobStep ==
  ASSUME CallbackInv, NEW w \in Workers, FinishJob(w)
  PROVE  CallbackInv'
<1> DEFINE j == wk[w].job
           p == jobs[j]
           q == [p EXCEPT !.lease = NoWorker]
<1>1. /\ wk[w].pc = "unlease" /\ wk[w].pc \in Leased /\ UNCHANGED world
      /\ ReleaseLease(j, w) /\ WriteJob(j, q) /\ UNCHANGED <<fleet, assignments, names>>
  BY DEF FinishJob, At, Leased, ReleaseLease
<1>2. /\ j \in Jobs /\ Holding(w, wk[w], p)
  BY <1>1, Acting
<1>3. [StoreNext]_storeVars
  BY <1>1, <1>2 DEF StoreNext, LeasedStep
<1>4. /\ q \in JobRec /\ q.vm = p.vm /\ q.att = p.att
      /\ q.jit = p.jit /\ q.created = p.created /\ q.seen = p.seen /\ q.status = p.status
      /\ q.pd = p.pd /\ q.terminal = p.terminal /\ q.failure = p.failure
  BY <1>2 DEF JobRec, Holding
<1>5. PICK v \in WorkerRec : /\ wk' = [wk EXCEPT ![w] = v]
                             /\ v.pc = "idle" \/ (v.pc = "park" /\ v.job \in Jobs)
  <2>1. Idle \in WorkerRec /\ Idle.pc = "idle"
    BY LocalType DEF Idle
  <2> DEFINE u == [Idle EXCEPT !.pc = "park", !.job = j]
  <2>2. u \in WorkerRec /\ u.pc = "park" /\ u.job = j
    BY <1>2, <2>1 DEF WorkerRec, Points, Unleased
  <2>3. wk' = [wk EXCEPT ![w] = u] \/ wk' = [wk EXCEPT ![w] = Idle]
    BY DEF FinishJob, Become, Done
  <2> HIDE DEF u
  <2>. QED BY <1>2, <2>1, <2>2, <2>3
<1> HIDE DEF q
<1>6. RecordSound(q)
  BY <1>2, <1>4, RecordStaysSound DEF Closed, Holding
<1>7. SameClaim(j, q) /\ (q.terminal => ghJob[j] = "completed")
  BY <1>2, <1>4, LeasedRecord DEF SameClaim
<1>8. v.pc \notin Leased
  BY <1>5 DEF Leased
<1>. QED BY <1>1, <1>2, <1>3, <1>4, <1>5, <1>6, <1>7, <1>8, JobWriteStep DEF Holding

\* Reschedule.
LEMMA RescheduleStep ==
  ASSUME CallbackInv, NEW w \in Workers, Reschedule(w)
  PROVE  CallbackInv'
<1> DEFINE j == wk[w].job
           p == jobs[j]
           r == wk[w].r
           q == IF p.terminal THEN p ELSE [p EXCEPT !.status = wk[w].st]
<1>1. /\ wk[w].pc = "due" /\ wk[w].pc \in Leased /\ UNCHANGED world
      /\ SetDue(j, w, wk[w].st) /\ WriteJob(j, q) /\ UNCHANGED <<fleet, assignments, names>>
  BY DEF Reschedule, At, Leased, SetDue
<1>2. /\ j \in Jobs /\ Holding(w, wk[w], p) /\ LeasedSound(w, wk[w], p) /\ r \in LocalRec
  BY <1>1, Acting
<1>3. /\ wk[w].st \in {"queued", "in_progress"} /\ FreshCopy(r, p) /\ ~Closed(r)
      /\ r.vm = NoGen => p.att = 0 /\ ~p.created
  BY <1>1, <1>2 DEF LeasedSound, StatusSound, CopySound, Fresh
<1>4. [StoreNext]_storeVars
  BY <1>1, <1>2, <1>3 DEF StoreNext, LeasedStep
<1>5. /\ q \in JobRec /\ q.lease = w /\ q.vm = p.vm /\ q.att = p.att
      /\ q.jit = p.jit /\ q.created = p.created /\ q.seen = p.seen
      /\ q.terminal => q.status = p.status
      /\ q.pd = p.pd /\ q.terminal = p.terminal /\ q.failure = p.failure
  BY <1>2, <1>3 DEF JobRec, Holding, Statuses
<1> HIDE DEF q
<1>6. RecordSound(q)
  BY <1>2, <1>5, RecordStaysSound DEF Closed, Holding
<1>7. SameClaim(j, q) /\ (q.terminal => ghJob[j] = "completed")
  BY <1>2, <1>5, LeasedRecord DEF SameClaim
<1>8. SUFFICES ASSUME NEW v \in WorkerRec, wk' = [wk EXCEPT ![w] = v], v.job = j,
                      \/ v.pc = "unlease"
                      \/ v.pc = "rel" /\ r.att = 0
                      \/ v = [wk[w] EXCEPT !.pc = "plan"]
               PROVE  v.pc \in Leased /\ LeasedSound(w, v, q)
  <2>1. \/ wk' = [wk EXCEPT ![w] = [wk[w] EXCEPT !.pc = "plan"]]
        \/ wk' = [wk EXCEPT ![w] = Only(wk[w], "rel")] /\ r.att = 0
        \/ wk' = [wk EXCEPT ![w] = Only(wk[w], "unlease")]
    BY DEF Reschedule, Goto, Become, Return
  <2>2. \A pc \in {"rel", "unlease"} : /\ Only(wk[w], pc) \in WorkerRec
                                       /\ Only(wk[w], pc).pc = pc /\ Only(wk[w], pc).job = j
    BY <1>2, OnlyFields DEF Holding, Points, Leased
  <2>3. [wk[w] EXCEPT !.pc = "plan"] \in WorkerRec /\ [wk[w] EXCEPT !.pc = "plan"].job = j
    BY <1>2 DEF Holding, WorkerRec, Points, Leased
  <2>4. PICK v \in WorkerRec : /\ wk' = [wk EXCEPT ![w] = v] /\ v.job = j
                               /\ \/ v.pc = "unlease"
                                  \/ v.pc = "rel" /\ r.att = 0
                                  \/ v = [wk[w] EXCEPT !.pc = "plan"]
    BY <2>1, <2>2, <2>3
  <2>5. v.pc \in Leased /\ LeasedSound(w, v, q)
    BY <1>8, <2>4
  <2>. QED
    BY <1>1, <1>2, <1>4, <1>5, <1>6, <1>7, <2>4, <2>5, JobWriteStep DEF Holding
<1>9. CASE v.pc = "unlease"
  BY <1>2, <1>5, <1>8, <1>9, UnleaseSound DEF Holding
<1>10. CASE v.pc = "rel" /\ r.att = 0
  <2>1. q.vm # NoGen => Active(q.vm) = {}
    <3>1. q.vm # NoGen => Taken(q.vm) \subseteq {0}
      BY Zenon, <1>3, <1>5, <1>6, <1>10 DEF FreshCopy, RecordSound
    <3>. QED BY <3>1 DEF Taken, Begun, Unused, Accepted, Active, Existing, Attempts
  <2>. QED BY <1>2, <1>5, <1>8, <1>10, <2>1
           DEF Holding, LeasedSound, CopySound, StatusSound, ComputeSound, Fresh, WithVM,
               Judged, Leased
<1>11. CASE v = [wk[w] EXCEPT !.pc = "plan"]
  <2>1. v.pc = "plan" /\ v.r = r /\ v.st = wk[w].st
    BY <1>2, <1>11 DEF Holding, WorkerRec
  <2>2. FreshCopy(r, q)
    BY <1>3, <1>5 DEF FreshCopy, Closed
  <2>. QED BY <1>2, <1>3, <1>5, <1>8, <2>1, <2>2
           DEF Holding, LeasedSound, CopySound, StatusSound, ComputeSound, Fresh, WithVM,
               Judged, Leased, Statuses
<1>. QED BY <1>8, <1>9, <1>10, <1>11

\* StoreJIT.
LEMMA StoreJITStep ==
  ASSUME CallbackInv, NEW w \in Workers, StoreJIT(w)
  PROVE  CallbackInv'
<1> DEFINE j == wk[w].job
           p == jobs[j]
           q == [p EXCEPT !.jit = TRUE]
           r == Local(q)
           v == Credentialed(r, wk[w])
<1>1. /\ wk[w].pc = "savejit" /\ wk[w].pc \in Leased /\ UNCHANGED world
      /\ SaveJIT(j, w) /\ WriteJob(j, q) /\ UNCHANGED <<fleet, assignments, names>>
  BY DEF StoreJIT, At, Leased, SaveJIT
<1>2. /\ j \in Jobs /\ Holding(w, wk[w], p) /\ LeasedSound(w, wk[w], p)
  BY <1>1, Acting
<1>3. [StoreNext]_storeVars
  BY <1>1, <1>2 DEF StoreNext, LeasedStep
<1>4. jobs'[j] = q
  BY <1>1, <1>2 DEF WriteJob, CallbackInv, LedgerInv, StoreTypeOK
<1>5. wk' = [wk EXCEPT ![w] = v]
  BY <1>4 DEF StoreJIT, Become
<1>6. /\ q \in JobRec /\ q.lease = w /\ q.vm = p.vm /\ q.att = p.att
      /\ q.jit = TRUE /\ q.created = p.created /\ q.seen = p.seen /\ q.status = p.status
      /\ q.pd = p.pd /\ q.terminal = p.terminal /\ q.failure = p.failure
  BY <1>2 DEF JobRec, Holding
<1> HIDE DEF q
<1>7. RecordSound(q)
  BY <1>2, <1>6 DEF RecordSound, Closed, Holding
<1>8. /\ r \in LocalRec /\ FreshCopy(r, q) /\ r.jit = TRUE
  BY <1>2, <1>6, <1>7, LeasedRecord, CopyIsFresh
<1>9. q.vm = NoGen => Closed(q)
  BY <1>1, <1>2, <1>6 DEF LeasedSound, CopySound, Closed
<1> HIDE DEF r
<1>10. v \in WorkerRec /\ v.job = j /\ v.pc \in Leased /\ LeasedSound(w, v, q)
  BY <1>2, <1>6, <1>7, <1>8, <1>9, CredentialedSound DEF Holding
<1>11. SameClaim(j, q) /\ (q.terminal => ghJob[j] = "completed")
  BY <1>2, <1>6, LeasedRecord DEF SameClaim
<1> HIDE DEF v
<1>. QED BY <1>1, <1>2, <1>3, <1>5, <1>6, <1>7, <1>10, <1>11, JobWriteStep DEF Holding

\* An attempt is given up only when Compute has nothing of it.
LEMMA Cleared ==
  ASSUME CallbackInv, NEW w \in Workers, wk[w].pc \in {"settle", "clear"},
         ClearAttempt(wk[w].job, w), UNCHANGED world \/ Marks,
         wk[w].pc = "clear" /\ wk[w].spare /\ Accepted(wk[w].gen, wk[w].last) =>
           wk[w].gen \in astray'
  PROVE  \E q \in JobRec :
           /\ WriteJob(wk[w].job, q) /\ jobs'[wk[w].job] = q
           /\ [StoreNext]_storeVars /\ UNCHANGED <<assignments, names>>
           /\ q.lease = w /\ q.vm = jobs[wk[w].job].vm /\ q.att = 0
           /\ q.jit = jobs[wk[w].job].jit /\ q.created = jobs[wk[w].job].created
           /\ q.terminal = jobs[wk[w].job].terminal
           /\ q.failure = jobs[wk[w].job].failure
           /\ q.seen = jobs[wk[w].job].seen /\ q.pd = jobs[wk[w].job].pd
           /\ RecordSound(q)' /\ SameClaim(wk[w].job, q)
           /\ q.terminal => ghJob[wk[w].job] = "completed"
<1> DEFINE j == wk[w].job
           p == jobs[j]
           c == [p EXCEPT !.att = 0, !.op = FALSE]
<1>1. /\ wk[w].pc \in Leased /\ Holds(j, w) /\ UNCHANGED <<assignments, names>>
      /\ WriteCapacity(j, c, [fleet EXCEPT !.Standard =
                                @ - (IF Standard(p.att) THEN 1 ELSE 0)])
  BY DEF ClearAttempt, Leased
<1>2. /\ j \in Jobs /\ Holding(w, wk[w], p) /\ LeasedSound(w, wk[w], p)
  BY <1>1, Acting
<1>3. [StoreNext]_storeVars
  BY <1>2 DEF StoreNext, LeasedStep
<1>4. PICK q :
      /\ q = c
      /\ q \in JobRec /\ q.lease = w /\ q.vm = p.vm /\ q.att = 0
      /\ q.jit = p.jit /\ q.created = p.created /\ q.seen = p.seen /\ q.status = p.status
      /\ q.pd = p.pd /\ q.terminal = p.terminal /\ q.failure = p.failure
  <2>1. /\ c \in JobRec /\ c.lease = w /\ c.vm = p.vm /\ c.att = 0
        /\ c.jit = p.jit /\ c.created = p.created /\ c.seen = p.seen
        /\ c.status = p.status /\ c.pd = p.pd /\ c.terminal = p.terminal
        /\ c.failure = p.failure
    BY <1>2 DEF JobRec, Holding
  <2>. QED BY <2>1
<1> HIDE DEF c
<1>5. RecordSound(q)'
  <2>1. p.vm \in Gens \cup {NoGen}
    BY <1>2 DEF Holding, JobRec
  <2>2. PICK g \in Gens \cup {NoGen} : g = p.vm
    BY <2>1
  <2>3. ASSUME g # NoGen
        PROVE  /\ Taken(g)' = {} /\ EverUp(g)' = EverUp(g)
               /\ (q.jit \/ Unused(g)') /\ Marks
    <3>1. /\ Taken(g)' \subseteq Taken(g) /\ EverUp(g)' = EverUp(g)
          /\ Unused(g)' = Unused(g) /\ Marks
      BY <2>3, MarkedWorld
    <3>2. Taken(g) \subseteq {p.att} /\ (p.jit \/ Unused(g))
      BY <1>2, <2>2, <2>3 DEF Holding, RecordSound
    <3>3. ~Accepted(g, p.att) \/ g \in astray'
      <4>1. CASE wk[w].pc = "settle"
        <5>1. wk[w].r.att \in Attempts /\ inst[g][p.att] = "failed"
          BY <1>2, <2>2, <2>3, <4>1 DEF LeasedSound, ComputeSound
        <5>. QED BY <5>1 DEF Accepted
      <4>2. CASE wk[w].pc = "clear"
        <5>1. /\ p.att = wk[w].last /\ wk[w].gen = g
              /\ Accepted(g, wk[w].last) => wk[w].spare
          BY <1>2, <2>2, <2>3, <4>2 DEF LeasedSound, ComputeSound
        <5>. QED BY <4>2, <5>1
      <4>. QED BY <4>1, <4>2
    <3>4. CASE g \in astray'
      BY <1>4, <3>1, <3>2, <3>4 DEF Taken
    <3>5. CASE ~Accepted(g, p.att) /\ g \notin astray'
      <4>1. Taken(g) = {}
        BY <3>2, <3>5 DEF Taken, Begun
      <4>. QED BY <1>4, <3>1, <3>2, <4>1
    <3>. QED BY <3>3, <3>4, <3>5
  <2>. QED BY <1>2, <1>4, <2>2, <2>3 DEF RecordSound, Closed, Holding
<1>6. SameClaim(j, q) /\ (q.terminal => ghJob[j] = "completed")
  BY <1>2, <1>4, LeasedRecord DEF SameClaim
<1>7. WriteJob(j, q)
  BY <1>1, <1>2, <1>4, <1>6, SameClaimIsJobWrite DEF CallbackInv
<1>8. jobs'[j] = q
  BY <1>1, <1>2, <1>4 DEF WriteCapacity, CallbackInv, LedgerInv, StoreTypeOK
<1>. QED BY <1>1, <1>3, <1>4, <1>5, <1>6, <1>7, <1>8

\* SettleStockout.
LEMMA SettleStockoutStep ==
  ASSUME CallbackInv, NEW w \in Workers, SettleStockout(w)
  PROVE  CallbackInv'
<1> DEFINE j == wk[w].job
           p == jobs[j]
           o == [wk[w] EXCEPT !.last = wk[w].r.att]
<1>1. /\ wk[w].pc = "settle" /\ wk[w].pc \in Leased /\ UNCHANGED world
      /\ ClearAttempt(j, w)
  BY DEF SettleStockout, At, Leased
<1>2. /\ j \in Jobs /\ Holding(w, wk[w], p) /\ LeasedSound(w, wk[w], p)
  BY <1>1, Acting
<1>3. PICK q \in JobRec :
         /\ WriteJob(j, q) /\ jobs'[j] = q
         /\ [StoreNext]_storeVars /\ UNCHANGED <<assignments, names>>
         /\ q.lease = w /\ q.vm = p.vm /\ q.att = 0
         /\ q.jit = p.jit /\ q.created = p.created
         /\ q.terminal = p.terminal /\ q.failure = p.failure
         /\ q.seen = p.seen /\ q.pd = p.pd
         /\ RecordSound(q) /\ SameClaim(j, q)
         /\ q.terminal => ghJob[j] = "completed"
  BY <1>1, Cleared, SameWorld
<1> DEFINE r == Local(q)
           v == GateOf(r, o)
<1>4. wk' = [wk EXCEPT ![w] = v]
  BY <1>3 DEF SettleStockout, Become
<1>5. /\ r \in LocalRec /\ FreshCopy(r, q) /\ Clean(r, q) /\ r.terminal = q.terminal
  BY <1>2, <1>3, LeasedRecord, CopyIsFresh
<1>6. /\ o \in WorkerRec /\ o.job = j /\ o.st = wk[w].st
  <2>1. wk[w] \in WorkerRec /\ wk[w].r.att \in Attempts \cup {0}
    BY <1>2 DEF Holding, WorkerRec, LocalRec
  <2>. QED BY <2>1 DEF WorkerRec
<1> HIDE DEF o, r
<1>7. Holding(w, o, q)
  BY <1>2, <1>3, <1>6 DEF Holding
<1>8. Informed(o, r, q)
  BY <1>1, <1>2, <1>3, <1>5, <1>6 DEF Informed, LeasedSound, StatusSound, Judged
<1>9. v \in WorkerRec /\ v.job = j /\ v.pc \in Leased /\ LeasedSound(w, v, q)
  BY <1>5, <1>6, <1>7, <1>8, GateSound
<1> HIDE DEF v
<1>. QED BY <1>1, <1>2, <1>3, <1>4, <1>9, JobWriteStep DEF Holding

\* ClearFailedAttempt.
LEMMA ClearFailedAttemptStep ==
  ASSUME CallbackInv, NEW w \in Workers, ClearFailedAttempt(w)
  PROVE  CallbackInv'
<1> DEFINE j == wk[w].job
           p == jobs[j]
           b == wk[w].spare /\ Accepted(wk[w].gen, wk[w].last)
<1>1. /\ wk[w].pc = "clear" /\ wk[w].pc \in Leased /\ ClearAttempt(j, w)
      /\ UNCHANGED <<inst, run, ghJob, ranOn>>
      /\ astray' = IF b THEN astray \cup {wk[w].gen} ELSE astray
  BY DEF ClearFailedAttempt, At, Leased
<1>2. /\ j \in Jobs /\ Holding(w, wk[w], p) /\ LeasedSound(w, wk[w], p)
      /\ wk[w] \in WorkerRec /\ names \subseteq Gens /\ astray \subseteq Gens
  BY <1>1, Acting DEF CallbackInv, TypeOK
<1>12. Marks
  <2>1. b => wk[w].gen \in Gens /\ wk[w].last \in Attempts /\ Doubtful
    BY <1>1, <1>2 DEF LeasedSound, ComputeSound
  <2>2. b => Begun(wk[w].gen) # {}
    BY <2>1 DEF Begun
  <2>. QED BY <1>1, <1>2, <2>1, <2>2 DEF Marks
<1>3. PICK q \in JobRec :
         /\ WriteJob(j, q) /\ jobs'[j] = q
         /\ [StoreNext]_storeVars /\ UNCHANGED <<assignments, names>>
         /\ q.lease = w /\ q.vm = p.vm /\ q.att = 0
         /\ q.jit = p.jit /\ q.created = p.created
         /\ q.terminal = p.terminal /\ q.failure = p.failure
         /\ q.seen = p.seen /\ q.pd = p.pd
         /\ RecordSound(q)' /\ SameClaim(j, q)
         /\ q.terminal => ghJob[j] = "completed"
  BY <1>1, <1>12, Cleared
<1> DEFINE r == Local(q)
           u == [Only(wk[w], "unlease") EXCEPT !.perm = TRUE]
           v == [Only(wk[w], "attempt") EXCEPT !.r = r, !.last = wk[w].last]
<1>4. wk' = [wk EXCEPT ![w] = u] \/ wk' = [wk EXCEPT ![w] = v]
  BY <1>3 DEF ClearFailedAttempt, Become, Permanent
<1>5. /\ r \in LocalRec /\ FreshCopy(r, q)
  <2>1. r \in LocalRec /\ r.vm = q.vm /\ r.att = q.att /\ r.jit = q.jit
    BY LocalType DEF Local
  <2>2. q.vm # NoGen => q.vm \in names /\ (q.jit \/ Unused(q.vm))
    BY <1>2, <1>3, LeasedRecord DEF RecordSound
  <2>. QED BY <2>1, <2>2 DEF FreshCopy
<1>6. \A pc \in {"unlease", "attempt"} : /\ Only(wk[w], pc) \in WorkerRec
                                         /\ Only(wk[w], pc).pc = pc
                                         /\ Only(wk[w], pc).job = j
  BY <1>2, OnlyFields DEF Points, Leased
<1> HIDE DEF r
<1>7. u \in WorkerRec /\ u.pc = "unlease" /\ u.job = j
  BY <1>6 DEF WorkerRec
<1>8. v \in WorkerRec /\ v.pc = "attempt" /\ v.job = j /\ v.r = r
  BY <1>2, <1>5, <1>6 DEF WorkerRec
<1> HIDE DEF u, v
<1>9. u.pc \in Leased /\ LeasedSound(w, u, q)
  BY <1>2, <1>3, <1>7, UnleaseSound DEF Holding
<1>10. v.pc \in Leased /\ LeasedSound(w, v, q)
  <2>1. /\ p.vm = NoGen => Closed(q)
        /\ p.vm # NoGen => p.jit
    BY <1>1, <1>2, <1>3 DEF LeasedSound, CopySound, ComputeSound, Closed
  <2>. QED BY <1>2, <1>3, <1>5, <1>8, <2>1
           DEF Holding, LeasedSound, CopySound, StatusSound, ComputeSound, Fresh, WithVM,
               Judged, Leased
<1>11. PICK x \in WorkerRec : /\ wk' = [wk EXCEPT ![w] = x] /\ x.job = j
                              /\ x.pc \in Leased /\ LeasedSound(w, x, q)
  BY <1>4, <1>7, <1>8, <1>9, <1>10
<1>. QED BY <1>1, <1>2, <1>12, <1>3, <1>11, JobWriteStep DEF Holding

\* ChangeAttempt.
LEMMA ChangeAttemptStep ==
  ASSUME CallbackInv, NEW w \in Workers, ChangeAttempt(w)
  PROVE  CallbackInv'
<1> DEFINE j == wk[w].job
           p == jobs[j]
           a == NextAttempt(wk[w])
           q == [p EXCEPT !.att = a]
           r == Local(q)
           v == [wk[w] EXCEPT !.r = r, !.last = a, !.pc = "insert"]
<1>1. wk[w].pc = "attempt" /\ wk[w].pc \in Leased /\ UNCHANGED world
  BY DEF ChangeAttempt, At, Leased
<1>2. /\ j \in Jobs /\ Holding(w, wk[w], p) /\ LeasedSound(w, wk[w], p)
      /\ wk[w] \in WorkerRec
  BY <1>1, Acting
<1>3. CASE Return(w) /\ UNCHANGED storeVars
  BY <1>1, <1>3, ReturnStep
<1>4. CASE a \in Attempts /\ SaveAttempt(j, w, a)
           /\ Become(w, [wk[w] EXCEPT !.r = Local(jobs'[j]), !.last = a, !.pc = "insert"])
  <2>1. PICK c : WriteCapacity(j, q, c) /\ UNCHANGED <<assignments, names>>
    BY <1>4 DEF SaveAttempt
  <2>2. [StoreNext]_storeVars
    BY <1>2, <1>4 DEF StoreNext, LeasedStep
  <2>3. jobs'[j] = q
    BY <1>2, <2>1 DEF WriteCapacity, CallbackInv, LedgerInv, StoreTypeOK
  <2>4. wk' = [wk EXCEPT ![w] = v]
    BY <1>4, <2>3 DEF Become
  <2>5. /\ q \in JobRec /\ q.lease = w /\ q.vm = p.vm /\ q.att = a
        /\ q.jit = p.jit /\ q.created = p.created /\ q.seen = p.seen /\ q.status = p.status
        /\ q.pd = p.pd /\ q.terminal = p.terminal /\ q.failure = p.failure
    BY <1>2, <1>4 DEF JobRec, Holding
  <2>6. /\ p.vm = NoGen => Closed(p)
        /\ p.vm # NoGen => p.jit /\ p.att = wk[w].r.att /\ Taken(p.vm) \subseteq {p.att}
    BY <1>1, <1>2 DEF LeasedSound, CopySound, ComputeSound, FreshCopy, Fresh,
                      Holding, RecordSound
  <2>7. p.vm # NoGen => Taken(p.vm) \subseteq {a}
    BY <2>6 DEF NextAttempt, Taken, Begun, Unused, Accepted, Attempts
  <2> HIDE DEF q, a
  <2>8. RecordSound(q)
    BY <1>2, <2>5, <2>6, <2>7 DEF RecordSound, Closed, Holding
  <2>9. SameClaim(j, q) /\ (q.terminal => ghJob[j] = "completed")
    BY <1>2, <2>5, LeasedRecord DEF SameClaim
  <2>10. WriteJob(j, q)
    BY <1>2, <2>1, <2>9, SameClaimIsJobWrite DEF CallbackInv
  <2>11. r \in LocalRec /\ FreshCopy(r, q) /\ r.vm = q.vm
    BY <1>2, <2>5, <2>8, LeasedRecord, CopyIsFresh
  <2> HIDE DEF r
  <2>12. /\ v \in WorkerRec /\ v.pc = "insert" /\ v.job = j /\ v.r = r /\ v.last = a
    BY <1>2, <1>4, <2>11 DEF WorkerRec, Points, Leased
  <2> HIDE DEF v
  <2>13. v.pc \in Leased /\ LeasedSound(w, v, q)
    <3>1. CopySound(v, q)
      BY <2>5, <2>6, <2>11, <2>12 DEF CopySound, Closed, Fresh, WithVM
    <3>2. StatusSound(v, q)
      BY <2>12 DEF StatusSound, Judged
    <3>3. a \in Attempts /\ q.att = a
      BY <1>4, <2>5
    <3>4. ComputeSound(v, q)
      BY <2>5, <2>6, <2>7, <2>11, <2>12, <3>3 DEF ComputeSound
    <3>. QED BY <1>2, <2>5, <2>12, <3>1, <3>2, <3>4 DEF Holding, LeasedSound, Leased
  <2>. QED BY <1>1, <1>2, <2>1, <2>2, <2>4, <2>5, <2>8, <2>9, <2>10, <2>12, <2>13,
              JobWriteStep DEF Holding
<1>. QED BY <1>3, <1>4 DEF ChangeAttempt

\* What releaseReservation leaves of a record.
LEMMA UnreservedFields ==
  ASSUME NEW r \in JobRec
  PROVE  /\ Unreserved(r) \in JobRec /\ Unreserved(r).vm = NoGen
         /\ Unreserved(r).att = 0 /\ ~Unreserved(r).jit /\ ~Unreserved(r).created
         /\ Unreserved(r).lease = r.lease /\ Unreserved(r).failure = r.failure
         /\ Unreserved(r).terminal = r.terminal /\ Unreserved(r).pd = r.pd
         /\ Unreserved(r).seen = r.seen
  BY DEF Unreserved, JobRec

\* A write that gives up the claim of the record, and deletes its row.
LEMMA DropStep ==
  ASSUME CallbackInv, UNCHANGED world, UNCHANGED <<assignments, names>>,
         [StoreNext]_storeVars,
         NEW w \in Workers, NEW j \in Jobs, NEW q \in JobRec, NEW c,
         WriteCapacity(j, q, c), q.vm = NoGen,
         jobs[j].vm # NoGen => Active(jobs[j].vm) = {},
         RecordSound(q), q.seen => ghJob[j] # "none",
         q.terminal <=> jobs[j].terminal, q.pd \in {jobs[j].pd, NoGen},
         jobs[j].lease \in Workers \ {w} =>
           /\ q.lease = jobs[j].lease /\ (jobs[j].failure => q.failure) /\ Closed(q)
           /\ jobs[j].vm # NoGen
           /\ jobs[j].att # 0 => EverUp(jobs[j].vm),
         NEW v \in WorkerRec, wk' = [wk EXCEPT ![w] = v],
         IF v.pc \in Leased THEN v.job = j /\ LeasedSound(w, v, q)
         ELSE v.pc \in Unleased => UnleasedSound(v)
  PROVE  CallbackInv'
<1> DEFINE p == jobs[j]
<1>1. UNCHANGED <<inst, run, ghJob, ranOn, astray>> /\ NoGen \notin Gens
  BY StoreAssumption DEF world
<1>2. /\ jobs'[j] = q
      /\ \A k \in Jobs \ {j} : jobs'[k] = jobs[k]
      /\ p \in JobRec
  BY DEF WriteCapacity, CallbackInv, LedgerInv, StoreTypeOK
<1>3. \A g \in Gens : runners'[g] = IF g = p.vm THEN NoRow ELSE runners[g]
  BY <1>1 DEF WriteCapacity
<1>4. Live' = Live \ {p.vm}
  BY <1>3 DEF Live, NoRow
<1> HIDE DEF p
<1>5. ASSUME NEW k \in Jobs PROVE JobSound(k)'
  <2>1. JobSound(k)
    BY EachSound
  <2>2. CASE k = j
    BY <1>1, <1>2, <2>1, <2>2, SameWorld DEF JobSound, p
  <2>3. CASE k # j
    BY <1>1, <1>2, <2>1, <2>3, SameWorld DEF JobSound
  <2>. QED BY <2>2, <2>3
<1>6. ASSUME NEW g \in Gens PROVE GenSound(g)'
  <2>1. GenSound(g)
    BY EachSound
  <2>2. CASE g = p.vm
    <3>1. Active(g) = {} /\ g \notin Live'
      BY <1>1, <1>4, <2>2 DEF p
    <3>. QED BY <1>1, <2>1, <3>1, SameWorld DEF GenSound
  <2>3. CASE g # p.vm
    BY <1>1, <1>3, <1>4, <2>1, <2>3, SameWorld DEF GenSound
  <2>. QED BY <2>2, <2>3
<1>7. WorkerSound(w, v)'
  <2>1. CASE v.pc \in Leased
    <3>1. v.pc \notin Unleased
      BY <2>1 DEF Leased, Unleased
    <3>2. jobs'[v.job] = q /\ LeasedSound(w, v, q)
      BY <1>2, <2>1
    <3>3. LeasedSound(w, v, jobs[v.job])'
      BY <1>1, <1>4, <3>2, SameWorld
         DEF LeasedSound, CopySound, FreshCopy, StatusSound, ComputeSound, Closed
    <3>. QED BY <3>1, <3>3 DEF WorkerSound
  <2>2. CASE v.pc \notin Leased
    <3>1. \A k \in Jobs : jobs[k].terminal => jobs'[k].terminal
      BY <1>2 DEF p
    <3>2. v.pc \in Unleased => UnleasedSound(v)'
      BY <1>1, <1>4, <2>2, <3>1, SameWorld DEF UnleasedSound, Deleting
    <3>. QED BY <2>2, <3>2 DEF WorkerSound
  <2>. QED BY <2>1, <2>2
<1>8. \A k \in Jobs : jobs[k].lease \in Workers \ {w} => Calm(k)
  BY <1>2, <1>4 DEF Calm, p
<1>. QED BY <1>4, <1>5, <1>6, <1>7, <1>8, StoreStep

\* ReleaseAndReturn, ReleaseAndContinue and ReleaseStaleCredential.
LEMMA ReleaseOwnedSteps ==
  ASSUME CallbackInv, NEW w \in Workers,
         ReleaseAndReturn(w) \/ ReleaseAndContinue(w) \/ ReleaseStaleCredential(w)
  PROVE  CallbackInv'
<1> DEFINE j == wk[w].job
           p == jobs[j]
           q == Unreserved(p)
           r == Local(q)
<1>1. /\ wk[w].pc \in {"rel", "relgone", "reljit"} /\ wk[w].pc \in Leased
      /\ UNCHANGED world /\ ReleaseOwned(j, w)
  BY DEF ReleaseAndReturn, ReleaseAndContinue, ReleaseStaleCredential, At, Leased
<1>2. /\ j \in Jobs /\ Holding(w, wk[w], p) /\ LeasedSound(w, wk[w], p)
      /\ wk[w] \in WorkerRec
  BY <1>1, Acting
<1>3. PICK c : WriteCapacity(j, q, c) /\ UNCHANGED <<assignments, names>>
  BY <1>1 DEF ReleaseOwned, ReleaseReservation
<1>4. [StoreNext]_storeVars
  BY <1>1, <1>2 DEF StoreNext, LeasedStep
<1>5. jobs'[j] = q
  BY <1>2, <1>3 DEF WriteCapacity, CallbackInv, LedgerInv, StoreTypeOK
<1>6. /\ q \in JobRec /\ q.lease = w /\ q.vm = NoGen /\ q.att = 0 /\ ~q.jit /\ ~q.created
      /\ q.seen = p.seen /\ q.pd = p.pd /\ q.terminal = p.terminal
      /\ q.failure = p.failure
  BY <1>2, UnreservedFields DEF Holding
<1>7. p.vm # NoGen => Active(p.vm) = {}
  <2>1. CASE wk[w].pc \in {"rel", "relgone"}
    BY <1>2, <2>1 DEF LeasedSound, ComputeSound
  <2>2. CASE wk[w].pc = "reljit"
    <3>1. p.vm # NoGen => Taken(p.vm) \subseteq {0}
      BY <1>2, <2>2 DEF LeasedSound, ComputeSound, CopySound, FreshCopy, Fresh,
                        Holding, RecordSound
    <3>. QED BY <3>1 DEF Taken, Begun, Unused, Accepted, Active, Existing, Attempts
  <2>. QED BY <1>1, <2>1, <2>2
<1> HIDE DEF q
<1>8. RecordSound(q)
  BY <1>6, StoreAssumption DEF RecordSound
<1>9. Holding(w, wk[w], q)
  BY <1>2, <1>6, <1>8 DEF Holding
<1>10. /\ r \in LocalRec /\ FreshCopy(r, q) /\ Clean(r, q) /\ r.terminal = q.terminal
       /\ r.vm = NoGen
  BY <1>6, <1>8, CopyIsFresh
<1>11. PICK v \in WorkerRec : /\ wk' = [wk EXCEPT ![w] = v] /\ v.job = j
                              /\ v.pc \in Leased /\ LeasedSound(w, v, q)
  <2>1. CASE ReleaseAndReturn(w)
    <3>1. wk' = [wk EXCEPT ![w] = Only(wk[w], "unlease")]
      BY <2>1 DEF ReleaseAndReturn, Return, Become
    <3>2. /\ Only(wk[w], "unlease") \in WorkerRec
          /\ Only(wk[w], "unlease").pc = "unlease" /\ Only(wk[w], "unlease").job = j
      BY <1>2, OnlyFields DEF Points, Leased
    <3>. QED BY <1>9, <3>1, <3>2, UnleaseSound DEF Holding
  <2>2. CASE ReleaseAndContinue(w)
    <3>1. wk' = [wk EXCEPT ![w] = GateOf(r, wk[w])]
      BY <1>5, <2>2 DEF ReleaseAndContinue, Become
    <3>2. Informed(wk[w], r, q)
      <4>1. wk[w].pc = "relgone"
        BY <2>2 DEF ReleaseAndContinue, At
      <4>. QED BY <1>2, <1>6, <1>10, <4>1 DEF Informed, LeasedSound, StatusSound, Judged
    <3>. QED BY <1>9, <1>10, <3>1, <3>2, GateSound
  <2>3. CASE ReleaseStaleCredential(w)
    <3>1. Prepare(w, r, wk[w])
      BY <1>5, <2>3 DEF ReleaseStaleCredential
    <3>. QED BY <1>6, <1>9, <1>10, <3>1, PrepareSound
  <2>. QED BY <2>1, <2>2, <2>3
<1>12. /\ q.seen => ghJob[j] # "none"
       /\ jobs[j].lease \notin Workers \ {w}
  BY <1>2, <1>6, LeasedRecord DEF Holding
<1>. QED BY <1>1, <1>2, <1>3, <1>4, <1>6, <1>7, <1>8, <1>11, <1>12, DropStep

\* DetachVM: the row stays behind, for a VM that was seen running.
LEMMA DetachVMStep ==
  ASSUME CallbackInv, NEW w \in Workers, DetachVM(w)
  PROVE  CallbackInv'
<1> PICK j, p : j = wk[w].job /\ p = jobs[j]
  OBVIOUS
<1> PICK h, q, v : h = p.vm /\ q = Unreserved(p) /\ v = Only(wk[w], "unlease")
  OBVIOUS
<1>1. /\ wk[w].pc = "detach" /\ wk[w].pc \in Leased /\ UNCHANGED world
      /\ Detach(j, w, wk[w].spare) /\ UNCHANGED <<fleet, assignments, names>>
      /\ wk' = [wk EXCEPT ![w] = v]
  BY DEF DetachVM, At, Leased, Detach, Return, Become
<1>2. /\ j \in Jobs /\ Holding(w, wk[w], p) /\ LeasedSound(w, wk[w], p)
      /\ wk[w] \in WorkerRec /\ wk[w].spare \in BOOLEAN
  BY <1>1, Acting DEF WorkerRec
<1>3. [StoreNext]_storeVars
  BY <1>1, <1>2 DEF StoreNext, LeasedStep
<1>4. CASE h = NoGen
  <2>1. UNCHANGED <<storeVars, world>>
    BY <1>1, <1>4 DEF Detach, storeVars
  <2>. QED BY <1>1, <2>1, ReturnStep DEF DetachVM
<1>5. CASE h # NoGen
  <2> DEFINE row == [live |-> TRUE, owner |-> NoJob, pool |-> PoolOf[j],
                     available |-> wk[w].spare /\ ~Assigned(h), rec |-> Snapshot(p)]
  <2>1. runners' = [runners EXCEPT ![h] = row] /\ jobs' = [jobs EXCEPT ![j] = q]
    BY <1>1, <1>5 DEF Detach
  <2>2. /\ row.live /\ row.owner = NoJob /\ row.rec.att = p.att /\ row.rec.jit = p.jit
    BY DEF Snapshot
  <2>3. /\ q \in JobRec /\ q.lease = w /\ q.vm = NoGen /\ q.att = 0 /\ ~q.jit /\ ~q.created
        /\ q.seen = p.seen /\ q.pd = p.pd /\ q.terminal = p.terminal
        /\ q.failure = p.failure
    BY <1>2, UnreservedFields DEF Holding
  <2>4. /\ h \in Gens /\ h \in names /\ h \in Live
        /\ runners \in [Gens -> RunnerRec] /\ jobs \in [Jobs -> JobRec]
    BY <1>2, <1>5, LeasedRecord
       DEF CallbackInv, LedgerInv, StoreTypeOK, OwnershipIsExclusive, Live
  <2> HIDE DEF row
  <2>5. /\ jobs'[j] = q
        /\ \A k \in Jobs \ {j} : jobs'[k] = jobs[k]
        /\ runners'[h] = row
        /\ \A g \in Gens \ {h} : runners'[g] = runners[g]
    BY <1>2, <2>1, <2>4
  <2>6. Live' = Live
    BY <2>2, <2>4, <2>5 DEF Live
  <2>7. EverUp(h) /\ Taken(h) \subseteq {p.att} /\ p.jit
    <3>1. EverUp(h) /\ RecordSound(p)
      BY <1>1, <1>2, <1>5 DEF LeasedSound, ComputeSound, Holding
    <3>2. EverUp(h) => ~Unused(h)
      BY DEF EverUp, Begun, Unused, Accepted
    <3>. QED BY <1>5, <3>1, <3>2 DEF RecordSound
  <2>8. UNCHANGED <<inst, run, ghJob, ranOn, astray>>
    BY <1>1 DEF world
  <2>9. ASSUME NEW k \in Jobs PROVE JobSound(k)'
    <3>1. JobSound(k)
      BY EachSound
    <3>2. CASE k = j
      <4>1. RecordSound(q)
        BY <2>3, StoreAssumption DEF RecordSound
      <4>. QED BY <1>1, <2>3, <2>5, <2>8, <3>1, <3>2, <4>1, SameWorld DEF JobSound
    <3>3. CASE k # j
      BY <2>5, <2>8, <1>1, <3>1, <3>3, SameWorld DEF JobSound
    <3>. QED BY <3>2, <3>3
  <2>10. ASSUME NEW g \in Gens PROVE GenSound(g)'
    <3>1. GenSound(g)
      BY Zenon, EachSound
    <3>2. CASE g = h
      <4>1. /\ h \in Live /\ h \in Live' /\ h \in names /\ h \in names'
            /\ runners'[h].rec.att = p.att /\ runners'[h].rec.jit
        BY <1>1, <2>2, <2>4, <2>5, <2>6, <2>7
      <4>2. EverUp(h)' /\ Taken(h)' \subseteq {p.att}
        BY <1>1, <2>7, SameWorld
      <4>. QED BY Zenon, <1>1, <2>8, <3>1, <3>2, <4>1, <4>2 DEF GenSound
    <3>3. CASE g # h
      BY <1>1, <2>5, <2>6, <2>8, <3>1, <3>3, SameWorld DEF GenSound
    <3>. QED BY <3>2, <3>3
  <2>11. v \in WorkerRec /\ v.pc = "unlease" /\ v.job = j
    BY <1>2, OnlyFields DEF Points, Leased
  <2>12. WorkerSound(w, v)'
    <3>1. v.pc \in Leased /\ v.pc \notin Unleased
      BY <2>11 DEF Leased, Unleased
    <3>2. jobs'[j].lease = w /\ ghJob'[j] # "none"
      BY <1>2, <2>3, <2>5, <2>8 DEF Holding
    <3>3. LeasedSound(w, v, jobs[v.job])'
      BY <1>2, <2>11, <3>2
         DEF LeasedSound, CopySound, StatusSound, ComputeSound, Leased, Fresh, WithVM,
             Judged
    <3>. QED BY <3>1, <3>3 DEF WorkerSound
  <2>13. \A k \in Jobs : jobs[k].lease \in Workers \ {w} => Calm(k)
    BY <1>2, <2>5 DEF Calm, Holding
  <2>. QED BY <1>1, <1>3, <2>6, <2>9, <2>10, <2>11, <2>12, <2>13, StoreStep
<1>. QED BY <1>4, <1>5

\* A write of the ledger and of the evidence that leaves the records alone: rows
\* keep what they say of their VM, or are deleted when nothing of it is left.
LEMMA RowStep ==
  ASSUME CallbackInv, UNCHANGED world, UNCHANGED <<jobs, names>>,
         [StoreNext]_storeVars,
         \A g \in Gens :
           \/ /\ runners'[g].live = runners[g].live
              /\ runners'[g].owner = runners[g].owner
              /\ runners'[g].rec = runners[g].rec
           \/ /\ runners'[g] = NoRow /\ Active(g) = {},
         \A g \in Gens : assignments'[g].done =>
           assignments'[g].job \in Jobs /\ ghJob[assignments'[g].job] = "completed",
         NEW w \in Workers, NEW v \in WorkerRec, wk' = [wk EXCEPT ![w] = v],
         WorkerSound(w, v)
  PROVE  CallbackInv'
<1>1. UNCHANGED <<inst, run, ghJob, ranOn, astray, jobs, names>>
  BY DEF world
<1>2. Live' \subseteq Live /\ \A g \in Gens : g \in Live \ Live' => Active(g) = {}
  BY DEF Live, NoRow
<1>3. ASSUME NEW k \in Jobs PROVE JobSound(k)'
  BY <1>1, SameWorld DEF JobSound, CallbackInv, CallbacksSound
<1>4. ASSUME NEW g \in Gens PROVE GenSound(g)'
  <2>1. GenSound(g)
    BY EachSound
  <2>2. g \notin Live' => Active(g) = {}
    BY <1>2, <2>1 DEF GenSound
  <2>3. g \in Live' /\ runners'[g].owner = NoJob =>
          EverUp(g) /\ Taken(g) \subseteq {runners'[g].rec.att} /\ runners'[g].rec.jit
    BY <2>1 DEF GenSound, Live, NoRow
  <2>. QED BY <1>1, <2>1, <2>2, <2>3, SameWorld DEF GenSound
<1>5. WorkerSound(w, v)'
  <2>1. CASE v.pc \in Leased
    <3>1. v.pc \notin Unleased /\ LeasedSound(w, v, jobs[v.job])
      BY <2>1 DEF Leased, Unleased, WorkerSound
    <3>2. CopySound(v, jobs[v.job])' /\ StatusSound(v, jobs[v.job])'
      BY <1>1, <1>2, <3>1, SameWorld DEF LeasedSound, CopySound, FreshCopy, StatusSound, Closed
    <3>3. ComputeSound(v, jobs[v.job])'
      BY <1>1, <3>1 DEF LeasedSound, ComputeSound, Doubtful, Taken, Begun, Accepted, Active,
                        Existing, EverUp
    <3>. QED BY <1>1, <3>1, <3>2, <3>3 DEF WorkerSound, LeasedSound
  <2>2. CASE v.pc \notin Leased
    BY <1>1, <1>2, <2>2, SameWorld DEF WorkerSound, UnleasedSound, Deleting
  <2>. QED BY <2>1, <2>2
<1>6. \A k \in Jobs : jobs[k].lease \in Workers \ {w} => Calm(k)
  BY <1>1 DEF Calm
<1>. QED BY <1>1, <1>2, <1>3, <1>4, <1>5, <1>6, StoreStep

\* Evidence already recorded stays true.
LEMMA EvidenceIsTrue ==
  ASSUME CallbackInv
  PROVE  \A g \in Gens : assignments[g].done =>
           assignments[g].job \in Jobs /\ ghJob[assignments[g].job] = "completed"
  BY DEF CallbackInv, CallbacksSound, GenSound

\* TryAdopt: the spare brings its attempt and its credential with it.
LEMMA TryAdoptStep ==
  ASSUME CallbackInv, NEW w \in Workers, TryAdopt(w)
  PROVE  CallbackInv'
<1> DEFINE j == wk[w].job
           p == jobs[j]
           known == {g \in Spares(j) : Assigned(g)}
           pruned == [g \in Gens |-> IF g \in known
                        THEN [runners[g] EXCEPT !.available = FALSE] ELSE runners[g]]
<1>1. /\ wk[w].pc = "adopt" /\ wk[w].pc \in Leased /\ UNCHANGED world
      /\ Adopt(j, w) /\ UNCHANGED <<fleet, assignments, names>>
      /\ wk' = [wk EXCEPT ![w] = IF jobs' # jobs THEN [wk[w] EXCEPT !.pc = "reread"]
                                 ELSE Examine(wk[w].r, wk[w])]
  BY Zenon DEF TryAdopt, At, Leased, Adopt, Become
<1>2. /\ j \in Jobs /\ Holding(w, wk[w], p) /\ LeasedSound(w, wk[w], p)
      /\ wk[w] \in WorkerRec /\ wk[w].r \in LocalRec
      /\ runners \in [Gens -> RunnerRec] /\ jobs \in [Jobs -> JobRec]
  BY <1>1, Acting DEF CallbackInv, LedgerInv, StoreTypeOK
<1>3. [StoreNext]_storeVars
  BY <1>1, <1>2 DEF StoreNext, LeasedStep
<1>4. /\ FreshCopy(wk[w].r, p) /\ wk[w].r.vm = NoGen /\ wk[w].st = "queued"
      /\ Clean(wk[w].r, p)
  BY <1>1, <1>2 DEF LeasedSound, CopySound, StatusSound, Fresh, Clean
<1>5. CASE jobs' = jobs
  <2>1. \A g \in Gens : /\ runners'[g].live = runners[g].live
                        /\ runners'[g].owner = runners[g].owner
                        /\ runners'[g].rec = runners[g].rec
    <3>1. CASE runners' = runners
      BY <3>1
    <3>2. CASE runners' = pruned
      BY <1>2, <3>2 DEF RunnerRec
    <3>3. ASSUME NEW g \in Spares(j),
                 jobs' = [jobs EXCEPT ![j] = [p EXCEPT !.vm = g,
                   !.att = runners[g].rec.att, !.op = runners[g].rec.op,
                   !.jit = runners[g].rec.jit, !.created = runners[g].rec.created,
                   !.terminal = FALSE, !.failure = FALSE, !.pd = NoGen]],
                 p.vm = NoGen
          PROVE  FALSE
      <4>1. g \in Gens /\ jobs'[j].vm = g
        BY <1>2, <3>3 DEF Spares, Live, JobRec
      <4>. QED BY <1>5, <3>3, <4>1, StoreAssumption
    <3>. QED BY Zenon, <1>1, <3>1, <3>2, <3>3 DEF Adopt
  <2>2. PICK v : v = Examine(wk[w].r, wk[w])
    OBVIOUS
  <2>3. wk' = [wk EXCEPT ![w] = v]
    BY <1>1, <1>5, <2>2
  <2>4. Informed(wk[w], wk[w].r, p)
    BY <1>4 DEF Informed, Statuses
  <2>5. v \in WorkerRec /\ v.job = j /\ v.pc \in Leased /\ LeasedSound(w, v, p)
    BY <1>2, <1>4, <2>2, <2>4, ExamineSound
  <2>6. WorkerSound(w, v)
    BY <2>5 DEF WorkerSound, Leased, Unleased
  <2>. QED BY Zenon, <1>1, <1>3, <1>5, <2>1, <2>3, <2>5, <2>6, EvidenceIsTrue, RowStep
<1>6. CASE jobs' # jobs
  <2>1. PICK v : v = [wk[w] EXCEPT !.pc = "reread"]
    BY Zenon
  <2>2. PICK g \in Spares(j) \ known, q \in JobRec :
          /\ q = [p EXCEPT !.vm = g,
                   !.att = runners[g].rec.att, !.op = runners[g].rec.op,
                   !.jit = runners[g].rec.jit, !.created = runners[g].rec.created,
                   !.terminal = FALSE, !.failure = FALSE, !.pd = NoGen]
          /\ jobs' = [jobs EXCEPT ![j] = q] /\ p.vm = NoGen
          /\ runners' = [pruned EXCEPT ![g] =
                [pruned[g] EXCEPT !.owner = j, !.available = FALSE, !.rec = Snapshot(q)]]
    <3>1. ASSUME NEW g \in Spares(j) 
          PROVE  [p EXCEPT !.vm = g,
                   !.att = runners[g].rec.att, !.op = runners[g].rec.op,
                   !.jit = runners[g].rec.jit, !.created = runners[g].rec.created,
                   !.terminal = FALSE, !.failure = FALSE, !.pd = NoGen] \in JobRec
      <4>1. g \in Gens /\ runners[g].rec \in SnapshotRec /\ p \in JobRec
        BY <1>2 DEF Spares, Live, RunnerRec
      <4>2. /\ runners[g].rec.att \in Attempts \cup {0} /\ runners[g].rec.op \in BOOLEAN
            /\ runners[g].rec.jit \in BOOLEAN /\ runners[g].rec.created \in BOOLEAN
        BY <4>1 DEF SnapshotRec
      <4>. QED BY <4>1, <4>2 DEF JobRec
    <3>. QED BY Zenon, <1>1, <1>6, <3>1 DEF Adopt
  <2>3. /\ g \in Gens /\ g \in Live /\ runners[g].owner = NoJob /\ g \in names
        /\ runners[g].live
    BY <2>2 DEF Spares, Live, CallbackInv, LedgerInv, SparesUnassigned, LiveWereReserved
  <2>4. /\ EverUp(g) /\ Taken(g) \subseteq {runners[g].rec.att} /\ runners[g].rec.jit
    BY <2>3 DEF CallbackInv, CallbacksSound, GenSound
  <2>5. /\ q.vm = g /\ q.att = runners[g].rec.att /\ q.jit = runners[g].rec.jit
        /\ q.created = runners[g].rec.created /\ ~q.terminal /\ ~q.failure
        /\ q.pd = NoGen /\ q.lease = w /\ q.seen = p.seen
    BY <1>2, <2>2 DEF Holding, JobRec
  <2>6. /\ jobs'[j] = q
        /\ \A k \in Jobs \ {j} : jobs'[k] = jobs[k]
        /\ runners'[g].live = runners[g].live /\ runners'[g].owner = j
        /\ \A h \in Gens \ {g} : /\ runners'[h].live = runners[h].live
                                 /\ runners'[h].owner = runners[h].owner
                                 /\ runners'[h].rec = runners[h].rec
    <3>1. pruned \in [Gens -> RunnerRec]
      BY <1>2 DEF RunnerRec
    <3>2. \A h \in Gens : /\ pruned[h].live = runners[h].live
                          /\ pruned[h].owner = runners[h].owner
                          /\ pruned[h].rec = runners[h].rec
      BY <1>2 DEF RunnerRec
    <3> HIDE DEF pruned
    <3>3. /\ runners'[g] = [pruned[g] EXCEPT !.owner = j, !.available = FALSE,
                                             !.rec = Snapshot(q)]
          /\ \A h \in Gens \ {g} : runners'[h] = pruned[h]
      BY <2>2, <2>3, <3>1
    <3>4. runners'[g].live = pruned[g].live /\ runners'[g].owner = j
      BY <2>3, <3>1, <3>3 DEF RunnerRec
    <3>5. /\ jobs'[j] = q
          /\ \A k \in Jobs \ {j} : jobs'[k] = jobs[k]
      BY <1>2, <2>2
    <3>. QED BY <2>3, <3>2, <3>3, <3>4, <3>5
  <2>7. Live' = Live
    BY <2>3, <2>6 DEF Live
  <2>8. UNCHANGED <<inst, run, ghJob, ranOn, astray>>
    BY <1>1 DEF world
  <2>9. ASSUME NEW k \in Jobs PROVE JobSound(k)'
    <3>1. JobSound(k)
      BY EachSound
    <3>2. CASE k = j
      <4>1. RecordSound(q)
        BY <2>3, <2>4, <2>5, StoreAssumption DEF RecordSound
      <4>. QED BY <1>1, <2>5, <2>6, <2>8, <3>1, <3>2, <4>1, SameWorld DEF JobSound
    <3>3. CASE k # j
      BY <1>1, <2>6, <2>8, <3>1, <3>3, SameWorld DEF JobSound
    <3>. QED BY <3>2, <3>3
  <2>10. ASSUME NEW h \in Gens PROVE GenSound(h)'
    <3>1. GenSound(h)
      BY EachSound
    <3>2. CASE h = g
      <4>1. runners'[h].owner # NoJob /\ h \in Live' /\ h \in names'
        BY <1>1, <1>2, <2>3, <2>6, <2>7, <3>2, StoreAssumption
      <4>. QED BY <1>1, <2>8, <3>1, <4>1, SameWorld DEF GenSound
    <3>3. CASE h # g
      BY <1>1, <2>6, <2>7, <2>8, <3>1, <3>3, SameWorld DEF GenSound
    <3>. QED BY <3>2, <3>3
  <2>11. /\ v \in WorkerRec /\ v.pc = "reread" /\ v.job = j /\ v.st = "queued"
    BY <1>2, <1>4, <2>1 DEF WorkerRec, Points, Leased
  <2>12. WorkerSound(w, v)'
    <3>1. v.pc \in Leased /\ v.pc \notin Unleased
      BY <2>11 DEF Leased, Unleased
    <3>2. jobs'[j].lease = w /\ ghJob'[j] # "none"
      BY <1>2, <2>5, <2>6, <2>8 DEF Holding
    <3>3. LeasedSound(w, v, jobs[v.job])'
      BY <1>2, <2>11, <3>2
         DEF LeasedSound, CopySound, StatusSound, ComputeSound, Leased, Fresh, WithVM,
             Judged, Statuses
    <3>. QED BY <3>1, <3>3 DEF WorkerSound
  <2>13. \A k \in Jobs : jobs[k].lease \in Workers \ {w} => Calm(k)
    BY <1>2, <2>6 DEF Calm, Holding
  <2>14. wk' = [wk EXCEPT ![w] = v]
    BY <1>1, <1>6, <2>1
  <2>. QED BY <1>1, <1>3, <2>7, <2>9, <2>10, <2>11, <2>12, <2>13, <2>14, StoreStep
<1>. QED BY Zenon, <1>5, <1>6

\* ReserveSlot: a name never used before has no VM.
LEMMA ReserveSlotStep ==
  ASSUME CallbackInv, NEW w \in Workers, ReserveSlot(w)
  PROVE  CallbackInv'
<1> DEFINE j == wk[w].job
           p == jobs[j]
<1>1. wk[w].pc = "reserve" /\ wk[w].pc \in Leased /\ UNCHANGED world
  BY DEF ReserveSlot, At, Leased
<1>2. /\ j \in Jobs /\ Holding(w, wk[w], p) /\ LeasedSound(w, wk[w], p)
      /\ wk[w] \in WorkerRec
      /\ runners \in [Gens -> RunnerRec] /\ jobs \in [Jobs -> JobRec]
  BY <1>1, Acting DEF CallbackInv, LedgerInv, StoreTypeOK
<1>3. p.vm = NoGen /\ p.att = 0 /\ ~p.created
  BY <1>1, <1>2 DEF LeasedSound, CopySound, FreshCopy, Fresh
<1>4. CASE Return(w) /\ UNCHANGED storeVars
  BY <1>1, <1>4, ReturnStep
<1>5. ASSUME NEW g \in Gens, Reserve(j, w, g),
             Become(w, Credentialed(Local(jobs'[j]), wk[w]))
      PROVE  CallbackInv'
  <2>19. PICK q, r : q = [p EXCEPT !.vm = g] /\ r = Local(q)
    OBVIOUS
  <2>20. PICK pc \in {"attempt", "jit"} : pc = IF r.jit THEN "attempt" ELSE "jit"
    OBVIOUS
  <2>21. PICK v : v = Credentialed(r, wk[w])
    OBVIOUS
  <2>22. PICK c : WriteCapacity(j, q, c)
    BY <1>5, <2>19 DEF Reserve
  <2>1. /\ q = [p EXCEPT !.vm = g] /\ r = Local(q)
        /\ v = [Only(wk[w], pc) EXCEPT !.r = r, !.last = wk[w].last]
        /\ pc = IF r.jit THEN "attempt" ELSE "jit"
        /\ v = Credentialed(r, wk[w]) /\ WriteCapacity(j, q, c)
    BY <2>19, <2>20, <2>21, <2>22 DEF Credentialed
  <2>2. g \notin names /\ names' = names \cup {g} /\ UNCHANGED assignments
    BY <1>5 DEF Reserve
  <2>3. [StoreNext]_storeVars
    BY <1>2, <1>3, <1>5 DEF StoreNext, LeasedStep
  <2>4. /\ q \in JobRec /\ q.lease = w /\ q.vm = g /\ q.att = 0 /\ q.jit = p.jit /\ ~q.created
        /\ q.seen = p.seen /\ q.pd = p.pd /\ q.terminal = p.terminal
        /\ q.failure = p.failure
    BY <1>2, <1>3, <2>1 DEF JobRec, Holding
  <2>5. /\ jobs'[j] = q
        /\ \A k \in Jobs \ {j} : jobs'[k] = jobs[k]
        /\ runners'[g] = OwnedRow(j, q)
        /\ \A h \in Gens \ {g} : runners'[h] = runners[h]
    BY <1>2, <1>3, <2>1, <2>4, StoreAssumption DEF WriteCapacity
  <2>6. Live' = Live \cup {g} /\ runners'[g].owner = j
    BY <2>5 DEF Live, OwnedRow
  <2>7. UNCHANGED <<inst, run, ghJob, ranOn, astray>> /\ NoGen \notin Gens
    BY <1>1, StoreAssumption DEF world
  <2>8. Taken(g) = {} /\ Active(g) = {} /\ Unused(g)
    BY <2>2 DEF CallbackInv, CallbacksSound, GenSound, Taken, Begun, Unused, Accepted, Active,
                Existing
  <2>9. RecordSound(q)
    BY <2>4, <2>7, <2>8 DEF RecordSound
  <2>10. ASSUME NEW k \in Jobs PROVE JobSound(k)'
    <3>1. JobSound(k)
      BY EachSound
    <3>2. CASE k = j
      BY <1>1, <2>4, <2>5, <2>7, <2>9, <3>1, <3>2, SameWorld DEF JobSound
    <3>3. CASE k # j
      BY <1>1, <2>5, <2>7, <3>1, <3>3, SameWorld DEF JobSound
    <3>. QED BY <3>2, <3>3
  <2>11. ASSUME NEW h \in Gens PROVE GenSound(h)'
    <3>1. GenSound(h)
      BY EachSound
    <3>2. CASE h = g
      <4>1. runners'[h].owner # NoJob /\ h \in Live' /\ h \in names'
        BY <1>2, <2>2, <2>6, <3>2, StoreAssumption
      <4>. QED BY <1>1, <2>2, <2>7, <3>1, <4>1, SameWorld DEF GenSound
    <3>3. CASE h # g
      BY <1>1, <2>2, <2>5, <2>6, <2>7, <3>1, <3>3, SameWorld DEF GenSound
    <3>. QED BY <3>2, <3>3
  <2>12. /\ r \in LocalRec /\ r.vm = g /\ r.att = q.att /\ r.jit = q.jit
    <3>1. r = Local(q)
      BY <2>1
    <3>. QED BY <2>4, <3>1, LocalType DEF Local
  <2>13. v \in WorkerRec /\ v.pc = pc /\ v.job = j /\ v.r = r
    <3>0. wk[w].last \in Attempts \cup {0} /\ pc \in Points
      BY <1>2 DEF Points, Leased, WorkerRec
    <3>1. /\ Only(wk[w], pc) \in WorkerRec /\ Only(wk[w], pc).pc = pc
          /\ Only(wk[w], pc).job = j
      BY <1>2, <3>0, OnlyFields
    <3>2. v = [Only(wk[w], pc) EXCEPT !.r = r, !.last = wk[w].last]
      BY <2>1
    <3>. QED BY <2>12, <3>0, <3>1, <3>2 DEF WorkerRec
  <2>14. wk' = [wk EXCEPT ![w] = v]
    BY <1>5, <2>1, <2>5 DEF Become
  <2>15. WorkerSound(w, v)'
    <3>1. v.pc \in Leased /\ v.pc \notin Unleased
      BY <2>13 DEF Leased, Unleased
    <3>2. /\ jobs'[v.job] = q /\ ghJob'[j] # "none" /\ g \in names'
          /\ Taken(g)' = {} /\ Unused(g)'
      BY <1>1, <1>2, <2>2, <2>5, <2>7, <2>8, <2>13, SameWorld DEF Holding
    <3>3. pc = IF q.jit THEN "attempt" ELSE "jit"
      BY <2>1, <2>12
    <3>4. FreshCopy(v.r, jobs[v.job])'
      BY <2>4, <2>7, <2>12, <2>13, <3>2 DEF FreshCopy
    <3>5. CopySound(v, jobs[v.job])'
      BY <2>4, <2>7, <2>12, <2>13, <3>2, <3>4 DEF CopySound, Fresh, WithVM
    <3>6. StatusSound(v, jobs[v.job])' /\ ComputeSound(v, jobs[v.job])'
      BY <2>4, <2>12, <2>13, <3>2, <3>3 DEF StatusSound, ComputeSound, Judged
    <3>. QED BY <1>2, <2>4, <2>13, <3>1, <3>2, <3>5, <3>6 DEF WorkerSound, LeasedSound
  <2>16. \A k \in Jobs : jobs[k].lease \in Workers \ {w} => Calm(k)
    BY <1>2, <2>5 DEF Calm, Holding
  <2>17. names \subseteq names' /\ \A h \in names : h \in Live' => h \in Live
    BY <2>2, <2>6
  <2>. QED BY <1>1, <2>3, <2>10, <2>11, <2>13, <2>14, <2>15, <2>16, <2>17, StoreStep
<1>. QED BY <1>4, <1>5 DEF ReserveSlot

-----------------------------------------------------------------------------
(***************************************************************************)
(* Steps that change Compute or GitHub.                                    *)
(***************************************************************************)
\* The store is left alone and nothing is inserted.
LEMMA WorldStep ==
  ASSUME CallbackInv, UNCHANGED <<storeVars, astray>>, WorldTyped',
         \A g \in Gens : Settles(g),
         \A j \in Jobs : /\ ghJob[j] # "none" => ghJob'[j] # "none"
                         /\ ghJob[j] = "completed" => ghJob'[j] = "completed",
         \A g \in Gens : EverUp(g) /\ run[g] = "gone" => run'[g] = "gone",
         \A g \in Gens : run'[g] \in {"online", "busy"} => EverUp(g)',
         \A j \in Jobs : ranOn'[j] # NoGen =>
            /\ EverUp(ranOn'[j]) /\ ghJob'[j] \in {"in_progress", "completed"}
            /\ ghJob'[j] = "completed" => run'[ranOn'[j]] = "gone",
         NEW A \in SUBSET Workers, wk' \in [Workers -> WorkerRec],
         \A u \in A : WorkerSound(u, wk[u])',
         \A u \in Workers \ A : wk'[u] = wk[u]
  PROVE  CallbackInv'
<1>1. /\ UNCHANGED <<jobs, runners, fleet, assignments, names, astray>>
      /\ [StoreNext]_storeVars /\ NoGen \notin Gens
  BY StoreAssumption DEF storeVars
<1>2. \A g \in Gens : /\ Taken(g)' \subseteq Taken(g) /\ Active(g)' \subseteq Active(g)
                      /\ (EverUp(g) => EverUp(g)') /\ (Unused(g) => Unused(g)')
                      /\ \A a \in Attempts : inst[g][a] = "none" => inst'[g][a] = "none"
  BY SettledStates
<1>3. Ages
  BY <1>1, <1>2 DEF Ages, Live
<1>4. ASSUME NEW j \in Jobs PROVE JobSound(j)'
  <2>1. /\ JobSound(j) /\ jobs[j].vm \in Gens \cup {NoGen} /\ jobs[j].pd \in Gens \cup {NoGen}
        /\ ranOn'[j] \in Gens \cup {NoGen}
    BY DEF CallbackInv, CallbacksSound, LedgerInv, StoreTypeOK, JobRec, WorldTyped
  <2>2. RecordSound(jobs[j])'
    <3>1. PICK R : R = jobs[j] /\ R = jobs'[j]
      BY <1>1
    <3>2. R.vm # NoGen => 
            /\ Taken(R.vm)' \subseteq Taken(R.vm) /\ (EverUp(R.vm) => EverUp(R.vm)')
            /\ Unused(R.vm) => Unused(R.vm)'
      BY <1>2, <2>1, <3>1
    <3>. QED BY <2>1, <3>1, <3>2 DEF JobSound, RecordSound, Closed
  <2>3. ranOn'[j] # NoGen => EverUp(ranOn[j])'
    <3>1. \A g \in Gens : g = ranOn'[j] /\ EverUp(g) =>
             \E a \in Attempts : inst'[ranOn'[j]][a] \in {"up", "stopped", "gone"}
      BY <1>2 DEF EverUp
    <3>. QED BY <2>1, <3>1 DEF EverUp
  <2>. QED BY <1>1, <1>2, <2>1, <2>2, <2>3 DEF JobSound
<1>5. ASSUME NEW g \in Gens PROVE GenSound(g)'
  <2>1. GenSound(g)
    BY EachSound
  <2>2. Live' = Live
    BY <1>1 DEF Live
  <2>. QED BY <1>1, <1>2, <2>1, <2>2 DEF GenSound
<1>6. ASSUME NEW u \in Workers \ A PROVE Undisturbed(u)
  BY <1>1 DEF Undisturbed, Calm
<1>. QED BY <1>1, <1>3, <1>4, <1>5, <1>6, StepHolds

\* The environment.
LEMMA EnvironmentStep ==
  ASSUME CallbackInv, Environment
  PROVE  CallbackInv'
<1>1. /\ UNCHANGED storeVars /\ wk' = wk /\ wk \in [Workers -> WorkerRec] /\ WorldTyped
      /\ NoGen \notin Gens /\ astray' = astray
  BY StoreAssumption
     DEF Environment, CallbackInv, TypeOK, WorldTyped, WorkerRec, Points, GitHubQueues,
         GitHubFinishes, GitHubReplays, GitHubAssigns, OperationSettles, VMStops,
         RunnerComesOnline
<1>2. \A u \in Workers \ {} : wk'[u] = wk[u]
  BY <1>1
<1>3. /\ \A g \in Gens : run[g] \in {"online", "busy"} => EverUp(g)
      /\ \A j \in Jobs : ranOn[j] # NoGen =>
            /\ EverUp(ranOn[j]) /\ ghJob[j] \in {"in_progress", "completed"}
            /\ ghJob[j] = "completed" => run[ranOn[j]] = "gone"
  BY DEF CallbackInv, CallbacksSound, GenSound, JobSound
<1>4. CASE UNCHANGED inst
  <2> DEFINE GitHubSound ==
        /\ WorldTyped'
        /\ \A j \in Jobs : /\ ghJob[j] # "none" => ghJob'[j] # "none"
                           /\ ghJob[j] = "completed" => ghJob'[j] = "completed"
        /\ \A g \in Gens : /\ run[g] = "gone" => run'[g] = "gone"
                           /\ run'[g] \in {"online", "busy"} => EverUp(g)
        /\ \A j \in Jobs : ranOn'[j] # NoGen =>
             /\ EverUp(ranOn'[j]) /\ ghJob'[j] \in {"in_progress", "completed"}
             /\ ghJob'[j] = "completed" => run'[ranOn'[j]] = "gone"
  <2>1. /\ \A g \in Gens : Settles(g)
        /\ \A g \in Gens : EverUp(g)' = EverUp(g)
    BY <1>1, <1>4 DEF Settles, EverUp
  <2>2. ASSUME GitHubSound PROVE CallbackInv'
    <3>1. {} \in SUBSET Workers /\ \A u \in {} : WorkerSound(u, wk[u])'
      OBVIOUS
    <3>2. \A g \in Gens : run'[g] \in {"online", "busy"} => EverUp(g)'
      BY <2>1, <2>2
    <3>. QED BY <1>1, <1>2, <2>1, <2>2, <3>1, <3>2, WorldStep
  <2>3. ASSUME NEW j \in Jobs, GitHubQueues(j) PROVE GitHubSound
    BY <1>1, <1>3, <2>3 DEF GitHubQueues, WorldTyped, Statuses
  <2>4. ASSUME NEW j \in Jobs, GitHubFinishes(j) PROVE GitHubSound
    BY <1>1, <1>3, <2>4 DEF GitHubFinishes, WorldTyped, Statuses
  <2>5. ASSUME NEW j \in Jobs, NEW k \in Jobs, GitHubReplays(j, k) PROVE GitHubSound
    BY <1>1, <1>3, <2>5 DEF GitHubReplays, WorldTyped, Statuses
  <2>6. ASSUME NEW j \in Jobs, NEW g \in Gens, GitHubAssigns(j, g) PROVE GitHubSound
    BY <1>1, <1>3, <2>6 DEF GitHubAssigns, WorldTyped, Statuses
  <2>7. ASSUME NEW g \in Gens, RunnerComesOnline(g) PROVE GitHubSound
    <3>1. EverUp(g)
      BY <2>7 DEF RunnerComesOnline, UpIn, EverUp
    <3>. QED BY <1>1, <1>3, <2>7, <3>1 DEF RunnerComesOnline, WorldTyped
  <2>8. \/ \E j \in Jobs : GitHubQueues(j) \/ GitHubFinishes(j)
        \/ \E j, k \in Jobs : GitHubReplays(j, k)
        \/ \E j \in Jobs, g \in Gens : GitHubAssigns(j, g)
        \/ \E g \in Gens : RunnerComesOnline(g)
    BY <1>1, <1>4 DEF Environment, OperationSettles, VMStops, WorldTyped
  <2>. QED BY <2>2, <2>3, <2>4, <2>5, <2>6, <2>7, <2>8
<1>5. ASSUME NEW g \in Gens, NEW a \in Attempts, NEW s \in InstStates,
             inst' = [inst EXCEPT ![g][a] = s],
             \/ inst[g][a] = "pending" /\ s \in {"up", "failed"}
             \/ inst[g][a] = "up" /\ s = "stopped",
             run' \in [Gens -> {"none", "offline", "online", "busy", "gone"}],
             \A h \in Gens : \/ run'[h] = run[h]
                             \/ run[h] # "gone" /\ run'[h] = "offline",
             UNCHANGED <<ghJob, ranOn, astray>>
      PROVE  CallbackInv'
  <2>1. WorldTyped' /\ \A h \in Gens : Settles(h)
    BY <1>1, <1>5 DEF WorldTyped, Settles
  <2>2. \A h \in Gens : run'[h] \in {"online", "busy"} => EverUp(h)'
    BY <1>3, <1>5, <2>1, SettledStates
  <2>3. \A h \in Gens : run[h] = "gone" => run'[h] = "gone"
    BY <1>5
  <2>4. \A j \in Jobs : ranOn'[j] # NoGen =>
            /\ EverUp(ranOn'[j]) /\ ghJob'[j] \in {"in_progress", "completed"}
            /\ ghJob'[j] = "completed" => run'[ranOn'[j]] = "gone"
    BY <1>1, <1>3, <1>5, <2>3 DEF WorldTyped
  <2>5. {} \in SUBSET Workers /\ \A u \in {} : WorkerSound(u, wk[u])'
    OBVIOUS
  <2>. QED BY <1>1, <1>2, <1>5, <2>1, <2>2, <2>3, <2>4, <2>5, WorldStep
<1>6. ASSUME NEW g \in Gens, NEW a \in Attempts, OperationSettles(g, a) PROVE CallbackInv'
  <2>1. PICK s \in {"up", "failed"} : inst' = [inst EXCEPT ![g][a] = s]
    BY <1>6 DEF OperationSettles
  <2>2. /\ inst[g][a] = "pending" /\ run' = run /\ UNCHANGED <<ghJob, ranOn, astray>>
        /\ s \in InstStates
    BY <1>6 DEF OperationSettles, InstStates
  <2>3. run' \in [Gens -> {"none", "offline", "online", "busy", "gone"}]
    BY <1>1, <2>2 DEF WorldTyped
  <2>. QED BY <1>5, <2>1, <2>2, <2>3
<1>7. ASSUME NEW g \in Gens, NEW a \in Attempts, VMStops(g, a) PROVE CallbackInv'
  <2>1. /\ run' \in [Gens -> {"none", "offline", "online", "busy", "gone"}]
        /\ \A h \in Gens : \/ run'[h] = run[h]
                           \/ run[h] # "gone" /\ run'[h] = "offline"
    BY <1>1, <1>7 DEF VMStops, WorldTyped
  <2>2. /\ inst' = [inst EXCEPT ![g][a] = "stopped"] /\ inst[g][a] = "up"
        /\ UNCHANGED <<ghJob, ranOn, astray>> /\ "stopped" \in InstStates
    BY <1>7 DEF VMStops, InstStates
  <2>. QED BY <1>5, <2>1, <2>2
<1>. QED BY <1>4, <1>6, <1>7
     DEF Environment, GitHubQueues, GitHubFinishes, GitHubReplays, GitHubAssigns,
         RunnerComesOnline

\* The deletion leaves nothing of a generation that can exist in one attempt.
LEMMA Deleted ==
  ASSUME CallbackInv, NEW g \in Gens, NEW zones,
         DeleteInstance(g, zones)
  PROVE  /\ WorldTyped' /\ \A h \in Gens : Settles(h)
         /\ \A h \in Gens : EverUp(h) /\ run[h] = "gone" => run'[h] = "gone"
         /\ \A h \in Gens : run'[h] \in {"online", "busy"} => EverUp(h)'
         /\ \A j \in Jobs : ranOn'[j] # NoGen =>
              /\ EverUp(ranOn'[j]) /\ ghJob'[j] \in {"in_progress", "completed"}
              /\ ghJob'[j] = "completed" => run'[ranOn'[j]] = "gone"
         /\ UNCHANGED <<ghJob, ranOn, astray>>
         /\ \A a : /\ EverUp(g) /\ Taken(g) \subseteq {a}
                   /\ g \in astray \/ Visible(g) \subseteq zones
                => Active(g)' = {}
<1>1. WorldTyped /\ UNCHANGED <<ghJob, ranOn, astray>> /\ NoGen \notin Gens
  BY StoreAssumption DEF CallbackInv, TypeOK, WorldTyped, DeleteInstance
<1>2. /\ \A h \in Gens : run[h] \in {"online", "busy"} => EverUp(h)
      /\ \A j \in Jobs : ranOn[j] # NoGen =>
            /\ EverUp(ranOn[j]) /\ ghJob[j] \in {"in_progress", "completed"}
            /\ ghJob[j] = "completed" => run[ranOn[j]] = "gone"
  BY DEF CallbackInv, CallbacksSound, GenSound, JobSound
<1>3. CASE Visible(g) \cap zones = {}
  <2>1. inst' = inst /\ run' = run
    BY <1>3 DEF DeleteInstance
  <2>2. \A a : /\ EverUp(g) /\ Taken(g) \subseteq {a}
               /\ g \in astray \/ Visible(g) \subseteq zones
            => Active(g)' = {}
    <3>1. Active(g)' = Active(g)
      BY <1>1, <2>1 DEF Active, Existing
    <3>2. g \in astray => Active(g) = {}
      BY DEF Active
    <3>3. \A a : EverUp(g) /\ Taken(g) \subseteq {a} /\ Visible(g) \subseteq zones =>
                Active(g) = {}
      BY <1>3, GoneForGood
    <3>. QED BY <3>1, <3>2, <3>3
  <2>3. \A h \in Gens : run'[h] \in {"online", "busy"} => EverUp(h)'
    BY <1>2, <2>1 DEF EverUp
  <2>. QED BY <1>1, <1>2, <2>1, <2>2, <2>3 DEF WorldTyped, Settles
<1>4. CASE Visible(g) \cap zones # {}
  <2>1. PICK b \in Visible(g) \cap zones :
          /\ inst' = [inst EXCEPT ![g][b] = "gone"]
          /\ run' = [run EXCEPT ![g] = IF @ \in {"online", "busy"} THEN "offline" ELSE @]
    BY <1>4 DEF DeleteInstance
  <2>2. b \in Attempts /\ inst[g][b] \in {"up", "stopped"}
    BY DEF Visible
  <2>3. WorldTyped' /\ \A h \in Gens : Settles(h)
    BY <1>1, <2>1, <2>2 DEF WorldTyped, InstStates, Settles
  <2>4. \A h \in Gens : \/ run'[h] = run[h]
                        \/ run[h] # "gone" /\ run'[h] = "offline"
    BY <1>1, <2>1 DEF WorldTyped
  <2>5. \A h \in Gens : EverUp(h) => EverUp(h)'
    BY <2>3, SettledStates
  <2>6. \A a : EverUp(g) /\ Taken(g) \subseteq {a} => Active(g)' = {}
    <3>1. inst'[g][b] = "gone" /\ \A a \in Attempts \ {b} : inst'[g][a] = inst[g][a]
      BY <1>1, <2>1, <2>2 DEF WorldTyped
    <3>. QED BY <1>1, <2>2, <3>1 DEF Taken, Begun, Unused, Accepted, Active, Existing
  <2>7. \A j \in Jobs : ranOn[j] \in Gens \cup {NoGen}
    BY <1>1 DEF WorldTyped
  <2>8. \A j \in Jobs : ranOn'[j] # NoGen =>
              /\ EverUp(ranOn'[j]) /\ ghJob'[j] \in {"in_progress", "completed"}
              /\ ghJob'[j] = "completed" => run'[ranOn'[j]] = "gone"
    BY <1>1, <1>2, <2>4, <2>7
  <2>9. \A h \in Gens : run'[h] \in {"online", "busy"} => EverUp(h)'
    BY <1>2, <2>4, <2>5
  <2>10. \A h \in Gens : EverUp(h) /\ run[h] = "gone" => run'[h] = "gone"
    BY <2>4
  <2>. QED BY Zenon, <1>1, <2>3, <2>6, <2>8, <2>9, <2>10
<1>. QED BY <1>3, <1>4

\* DeleteOwned and DeleteVM.
LEMMA DeleteSteps ==
  ASSUME CallbackInv, NEW w \in Workers, DeleteOwned(w) \/ DeleteVM(w)
  PROVE  CallbackInv'
<1>1. UNCHANGED storeVars /\ UNCHANGED <<jobs, runners, names>>
  BY DEF DeleteOwned, DeleteVM, storeVars
<1>2. wk \in [Workers -> WorkerRec] /\ wk[w] \in WorkerRec /\ NoGen \notin Gens
  BY StoreAssumption DEF CallbackInv, TypeOK, WorkerRec, Points
<1>3. SUFFICES ASSUME NEW g \in Gens, NEW zones, NEW v \in WorkerRec,
                      DeleteInstance(g, zones), wk' = [wk EXCEPT ![w] = v]
               PROVE  WorkerSound(w, v)'
  <2>1. \E g \in Gens, v \in WorkerRec, zones \in SUBSET Attempts :
          DeleteInstance(g, zones) /\ wk' = [wk EXCEPT ![w] = v]
    <3>1. CASE DeleteOwned(w)
      <4>1. /\ wk[w].pc \in {"del", "delstop"} /\ wk[w].pc \in Leased
            /\ DeleteInstance(wk[w].r.vm, Attempts)
            /\ \/ wk' = [wk EXCEPT ![w] = Only(wk[w], "rel")]
               \/ wk' = [wk EXCEPT ![w] = Gone(wk[w])]
        BY <3>1 DEF DeleteOwned, At, Leased, Become
      <4>2. wk[w].r.vm \in Gens
        BY <4>1, Acting DEF LeasedSound, CopySound, WithVM, LocalRec
      <4>3. Only(wk[w], "rel") \in WorkerRec /\ Gone(wk[w]) \in WorkerRec
        BY <1>2, OnlyFields, GoneFields DEF Points, Leased
      <4>. QED BY <4>1, <4>2, <4>3
    <3>2. CASE DeleteVM(w)
      <4>1. /\ wk[w].pc \in {"ddel", "rdel"} /\ wk[w].pc \in Unleased
            /\ DeleteInstance(wk[w].gen, IF wk[w].last = 0 THEN Attempts ELSE {wk[w].last})
            /\ \E pc \in {"drel", "rrel"} :
                 wk' = [wk EXCEPT ![w] = [wk[w] EXCEPT !.pc = pc, !.last = 0]]
        BY <3>2 DEF DeleteVM, At, Unleased, Become
      <4>2. wk[w].gen \in Gens
        BY <1>2, <4>1 DEF CallbackInv, CallbacksSound, WorkerSound, UnleasedSound,
                          LedgerInv, StoreTypeOK
      <4>3. \A pc \in {"drel", "rrel"} : [wk[w] EXCEPT !.pc = pc, !.last = 0] \in WorkerRec
        BY <1>2 DEF WorkerRec, Points, Unleased
      <4>4. (IF wk[w].last = 0 THEN Attempts ELSE {wk[w].last}) \in SUBSET Attempts
        BY <1>2 DEF WorkerRec
      <4>. QED BY <4>1, <4>2, <4>3, <4>4
    <3>. QED BY <3>1, <3>2
  <2>2. PICK g \in Gens, v \in WorkerRec, zones \in SUBSET Attempts :
          DeleteInstance(g, zones) /\ wk' = [wk EXCEPT ![w] = v]
    BY <2>1
  <2>3. WorkerSound(w, v)'
    BY <1>3, <2>2
  <2>4. /\ wk' \in [Workers -> WorkerRec] /\ wk'[w] = v
        /\ \A u \in Workers \ {w} : wk'[u] = wk[u]
    BY <1>2, <2>2
  <2>5. {w} \in SUBSET Workers /\ \A u \in {w} : WorkerSound(u, wk[u])'
    BY <2>3, <2>4 DEF WorkerSound, LeasedSound, UnleasedSound
  <2>6. /\ WorldTyped' /\ (\A h \in Gens : Settles(h)) /\ astray' = astray
        /\ \A h \in Gens : EverUp(h) /\ run[h] = "gone" => run'[h] = "gone"
        /\ \A h \in Gens : run'[h] \in {"online", "busy"} => EverUp(h)'
        /\ \A j \in Jobs : ranOn'[j] # NoGen =>
             /\ EverUp(ranOn'[j]) /\ ghJob'[j] \in {"in_progress", "completed"}
             /\ ghJob'[j] = "completed" => run'[ranOn'[j]] = "gone"
        /\ ghJob' = ghJob
    BY <2>2, Deleted
  <2>. QED BY <1>1, <2>4, <2>5, <2>6, WorldStep
<1>4. CASE DeleteOwned(w)
  <2> PICK R, h : R = jobs[wk[w].job] /\ h = wk[w].r.vm
    OBVIOUS
  <2>1. /\ wk[w].pc \in {"del", "delstop"} /\ wk[w].pc \in Leased /\ DeleteInstance(h, Attempts)
        /\ v = IF wk[w].pc = "del" THEN Only(wk[w], "rel") ELSE Gone(wk[w])
    <3>1. /\ wk[w].pc \in {"del", "delstop"} /\ wk[w].pc \in Leased /\ DeleteInstance(h, Attempts)
          /\ wk' = [wk EXCEPT ![w] = IF wk[w].pc = "del" THEN Only(wk[w], "rel")
                                     ELSE Gone(wk[w])]
      BY <1>4 DEF DeleteOwned, At, Leased, Become
    <3>. QED BY <1>2, <1>3, <3>1
  <2>2. Holding(w, wk[w], R) /\ LeasedSound(w, wk[w], R) /\ wk[w].r \in LocalRec
    BY <2>1, Acting
  <2>3. /\ EverUp(h) /\ h \in Gens /\ FreshCopy(wk[w].r, R) /\ Informed(wk[w], wk[w].r, R)
    BY <2>1, <2>2 DEF LeasedSound, CopySound, StatusSound, ComputeSound, Informed, Fresh,
                      WithVM, Judged, LocalRec
  <2>4. R.vm # NoGen => Active(R.vm)' = {}
    <3>1. R.vm # NoGen => R.vm = h /\ Taken(h) \subseteq {R.att}
      BY <2>2, <2>3 DEF FreshCopy, Holding, RecordSound
    <3>2. Taken(h) \subseteq {R.att} => Active(h)' = {}
      BY <2>1, <2>3, Deleted DEF Visible
    <3>. QED BY <3>1, <3>2
  <2>5. /\ v.pc \in {"rel", "relgone"} /\ v.job = wk[w].job
        /\ v.pc = "relgone" => v.st = wk[w].st
    <3>1. "rel" \in Points
      BY DEF Points, Leased
    <3>2. Only(wk[w], "rel").pc = "rel" /\ Only(wk[w], "rel").job = wk[w].job
      BY <1>2, <3>1, OnlyFields
    <3>. QED BY <1>2, <2>1, <3>2, GoneFields
  <2>6. /\ jobs'[v.job] = R /\ ghJob'[v.job] # "none"
    BY <1>1, <2>1, <2>2, <2>3, <2>5, Deleted DEF Holding
  <2>7. LeasedSound(w, v, jobs[v.job])'
    BY <2>2, <2>3, <2>4, <2>5, <2>6
       DEF Holding, Informed, LeasedSound, CopySound, StatusSound, ComputeSound, Leased,
           Fresh, WithVM, Judged
  <2>. QED BY <2>5, <2>7 DEF WorkerSound, Leased, Unleased
<1>5. CASE DeleteVM(w)
  <2> PICK h, z : h = wk[w].gen /\ z = IF wk[w].last = 0 THEN Attempts ELSE {wk[w].last}
    OBVIOUS
  <2>1. /\ wk[w].pc \in {"ddel", "rdel"} /\ wk[w].pc \in Unleased /\ DeleteInstance(h, z)
        /\ v = [wk[w] EXCEPT !.pc = IF wk[w].pc = "ddel" THEN "drel" ELSE "rrel",
                             !.last = 0]
    <3>1. /\ wk[w].pc \in {"ddel", "rdel"} /\ wk[w].pc \in Unleased /\ DeleteInstance(h, z)
          /\ wk' = [wk EXCEPT ![w] = [wk[w] EXCEPT
                      !.pc = IF wk[w].pc = "ddel" THEN "drel" ELSE "rrel", !.last = 0]]
      BY <1>2, <1>5 DEF DeleteVM, At, Unleased, Become
    <3>. QED BY <1>2, <1>3, <3>1
  <2>2. UnleasedSound(wk[w])
    BY <2>1 DEF CallbackInv, CallbacksSound, WorkerSound
  <2>3. h \in names /\ h \in Gens /\ EverUp(h)
    BY <2>1, <2>2 DEF UnleasedSound, CallbackInv, LedgerInv, StoreTypeOK
  <2>4. /\ v.pc = IF wk[w].pc = "ddel" THEN "drel" ELSE "rrel"
        /\ v.gen = h /\ v.job = wk[w].job /\ v.last = 0
    BY <1>2, <2>1 DEF WorkerRec
  <2>5. ASSUME h \in Live PROVE Active(h)' = {}
    <3>1. PICK a : Taken(h) \subseteq {a}
      BY <2>3, <2>5, LiveOnce
    <3>2. h \in astray \/ Visible(h) \subseteq z
      <4>1. CASE wk[w].last = 0
        BY <4>1 DEF Visible
      <4>2. CASE wk[w].last # 0 /\ h \notin astray
        <5>1. /\ inst[h][wk[w].last] \in {"stopped", "gone"} /\ wk[w].last \in Attempts
              /\ z = {wk[w].last}
          BY <1>2, <2>1, <2>2, <4>2 DEF UnleasedSound, WorkerRec
        <5>2. wk[w].last = a
          BY <3>1, <4>2, <5>1 DEF Taken, Begun, Accepted
        <5>. QED BY <3>1, <4>2, <5>1, <5>2 DEF Visible, Taken, Begun, Accepted
      <4>. QED BY <4>1, <4>2
    <3>. QED BY <2>1, <2>3, <3>1, <3>2, Deleted
  <2>6. EverUp(h)' /\ (run[h] = "gone" => run'[h] = "gone")
    BY <2>1, <2>3, Deleted, SettledStates
  <2>7. UnleasedSound(v)'
    <3>1. Live' = Live
      BY <1>1 DEF Live
    <3>2. v.gen \in names' /\ EverUp(v.gen)' /\ (v.gen \in Live' => Active(v.gen)' = {})
      BY <1>1, <2>3, <2>4, <2>5, <2>6, <3>1
    <3>3. CASE wk[w].pc = "ddel"
      <4>1. /\ wk[w].job \in Jobs /\ jobs[wk[w].job].terminal /\ run[h] = "gone"
            /\ v.pc = "drel"
        BY <2>1, <2>2, <2>4, <3>3 DEF UnleasedSound, Deleting
      <4>2. v.job \in Jobs /\ jobs'[v.job].terminal /\ run'[v.gen] = "gone"
        BY <1>1, <2>4, <2>6, <4>1
      <4>. QED BY <2>4, <3>2, <4>1, <4>2 DEF UnleasedSound
    <3>4. CASE wk[w].pc = "rdel"
      <4>1. v.pc = "rrel"
        BY <2>4, <3>4
      <4>. QED BY <2>4, <3>2, <4>1 DEF UnleasedSound, Deleting
    <3>. QED BY <2>1, <3>3, <3>4
  <2>8. v.pc \notin Leased
    BY <2>4 DEF Leased
  <2>. QED BY <2>7, <2>8 DEF WorkerSound
<1>. QED BY <1>4, <1>5

\* GenerateJIT: a registration is replaced only where no VM ever ran.
LEMMA GenerateJITStep ==
  ASSUME CallbackInv, NEW w \in Workers, GenerateJIT(w)
  PROVE  CallbackInv'
<1> PICK R, h, v : /\ R = jobs[wk[w].job] /\ h = wk[w].r.vm
                   /\ v = [wk[w] EXCEPT !.r = Local(NoRecord), !.pc = "savejit"]
  OBVIOUS
<1>1. /\ wk[w].pc = "jit" /\ wk[w].pc \in Leased
      /\ UNCHANGED <<storeVars, inst, ghJob, ranOn, astray>> /\ UNCHANGED jobs
      /\ run' = [run EXCEPT ![h] = "offline"] /\ wk' = [wk EXCEPT ![w] = v]
  BY DEF GenerateJIT, At, Leased, Become, storeVars
<1>2. /\ wk \in [Workers -> WorkerRec] /\ wk[w] \in WorkerRec /\ WorldTyped
      /\ NoGen \notin Gens
  BY StoreAssumption DEF CallbackInv, TypeOK, WorldTyped, WorkerRec, Points
<1>3. /\ Holding(w, wk[w], R) /\ LeasedSound(w, wk[w], R) /\ wk[w].r \in LocalRec
  BY <1>1, Acting
<1>4. h \in Gens /\ Unused(h) /\ (R.vm = NoGen => Closed(R))
  BY <1>1, <1>3 DEF LeasedSound, CopySound, ComputeSound, FreshCopy, Fresh, WithVM, LocalRec
<1>5. ~EverUp(h)
  BY <1>4 DEF EverUp, Taken, Begun, Unused, Accepted
<1>6. /\ WorldTyped' /\ (\A g \in Gens : Settles(g))
      /\ \A g \in Gens : EverUp(g)' = EverUp(g)
      /\ \A g \in Gens \ {h} : run'[g] = run[g]
      /\ run'[h] = "offline"
  BY <1>1, <1>2, <1>4 DEF WorldTyped, Settles, EverUp
<1>7. \A g \in Gens : run'[g] \in {"online", "busy"} => EverUp(g)'
  BY <1>6 DEF CallbackInv, CallbacksSound, GenSound
<1>8. \A j \in Jobs : ranOn'[j] # NoGen =>
         /\ EverUp(ranOn'[j]) /\ ghJob'[j] \in {"in_progress", "completed"}
         /\ ghJob'[j] = "completed" => run'[ranOn'[j]] = "gone"
  BY <1>1, <1>2, <1>5, <1>6 DEF CallbackInv, CallbacksSound, JobSound, WorldTyped
<1>9. \A g \in Gens : EverUp(g) /\ run[g] = "gone" => run'[g] = "gone"
  BY <1>5, <1>6
<1>10. v \in WorkerRec /\ v.pc = "savejit" /\ v.job = wk[w].job
  BY <1>2, LocalType DEF WorkerRec, Points, Leased
<1>11. WorkerSound(w, v)'
  <2>1. jobs'[v.job] = R /\ ghJob'[v.job] # "none"
    BY <1>1, <1>3, <1>10 DEF Holding
  <2>2. LeasedSound(w, v, jobs[v.job])'
    BY <1>3, <1>4, <1>10, <2>1
       DEF Holding, LeasedSound, CopySound, StatusSound, ComputeSound, Closed, Fresh,
           WithVM, Judged
  <2>. QED BY <1>10, <2>2 DEF WorkerSound, Leased, Unleased
<1>12. /\ wk' \in [Workers -> WorkerRec] /\ wk'[w] = v
       /\ \A u \in Workers \ {w} : wk'[u] = wk[u]
  BY <1>1, <1>2, <1>10
<1>13. {w} \in SUBSET Workers /\ \A u \in {w} : WorkerSound(u, wk[u])'
  BY <1>11, <1>12 DEF WorkerSound, LeasedSound, UnleasedSound
<1>. QED BY <1>1, <1>6, <1>7, <1>8, <1>9, <1>12, <1>13, WorldStep

\* Where Insert leaves a pass whose insert was answered.
Answered(v, pc, s, u) ==
  \E x : /\ x = [Only(v, pc) EXCEPT !.gen = v.r.vm, !.last = v.last]
         /\ \/ ~s /\ u = [x EXCEPT !.r.op = v.r.op]
            \/ \E p \in BOOLEAN : u = [x EXCEPT !.perm = p, !.spare = s]

\* They are those of Only, the generation and the attempt.
LEMMA AnsweredFields ==
  ASSUME NEW v \in WorkerRec, NEW pc \in Points, NEW s \in BOOLEAN, NEW u,
         Answered(v, pc, s, u)
  PROVE  /\ u \in WorkerRec /\ u.pc = pc /\ u.job = v.job
         /\ u.gen = v.r.vm /\ u.last = v.last /\ u.spare = s
<1>1. /\ v.r.vm \in Gens \cup {NoGen} /\ v.last \in Attempts \cup {0}
      /\ v.r.op \in BOOLEAN
  BY DEF WorkerRec, LocalRec
<1>2. /\ Only(v, pc) \in WorkerRec /\ Only(v, pc).pc = pc /\ Only(v, pc).job = v.job
      /\ Only(v, pc).spare = FALSE
  BY OnlyFields
<1>3. PICK x : /\ x = [Only(v, pc) EXCEPT !.gen = v.r.vm, !.last = v.last]
               /\ \/ ~s /\ u = [x EXCEPT !.r.op = v.r.op]
                  \/ \E p \in BOOLEAN : u = [x EXCEPT !.perm = p, !.spare = s]
  BY DEF Answered
<1>4. /\ x \in WorkerRec /\ x.pc = pc /\ x.job = v.job /\ x.gen = v.r.vm /\ x.last = v.last
      /\ x.spare = FALSE
  BY Zenon, <1>1, <1>2, <1>3 DEF WorkerRec
<1>5. CASE ~s /\ u = [x EXCEPT !.r.op = v.r.op]
  BY <1>1, <1>4, <1>5 DEF WorkerRec, LocalRec
<1>6. CASE \E p \in BOOLEAN : u = [x EXCEPT !.perm = p, !.spare = s]
  BY <1>4, <1>6 DEF WorkerRec
<1>. QED BY <1>3, <1>5, <1>6

\* Insert: a pass starts an operation only in the attempt on record, for a VM the
\* ledger has and Compute does not, or for a generation that went astray.
LEMMA InsertStep ==
  ASSUME CallbackInv, NEW w \in Workers, Insert(w)
  PROVE  CallbackInv'
<1> PICK R, g, a, op : /\ R = jobs[wk[w].job] /\ g = wk[w].r.vm /\ a = wk[w].last
                       /\ op = wk[w].r.op
  BY Zenon
<1>1. /\ wk[w].pc = "insert" /\ wk[w].pc \in Leased
      /\ UNCHANGED <<storeVars, run, ghJob, ranOn, astray>>
      /\ UNCHANGED <<jobs, runners, fleet, assignments, names>>
  BY Zenon DEF Insert, At, Leased, storeVars
<1>2. /\ wk \in [Workers -> WorkerRec] /\ wk[w] \in WorkerRec /\ WorldTyped
      /\ NoGen \notin Gens /\ wk[w].job \in Jobs
      /\ Holding(w, wk[w], R) /\ LeasedSound(w, wk[w], R) /\ wk[w].r \in LocalRec
  BY <1>1, Acting, StoreAssumption DEF CallbackInv, TypeOK, WorldTyped, WorkerRec, Points
<1>3. /\ a \in Attempts /\ R.vm \in {g, NoGen} /\ (R.vm = NoGen => Closed(R))
      /\ R.vm # NoGen => R.att = a /\ R.jit
      /\ g # NoGen => /\ g \in names /\ g \in Gens /\ Taken(g) \subseteq {a}
                      /\ R.vm = NoGen => EverUp(g) /\ g \notin Live
  BY <1>1, <1>2 DEF LeasedSound, CopySound, ComputeSound, FreshCopy, Fresh, LocalRec
<1>4. ASSUME NEW pc \in {"recop", "clear"}, NEW s \in BOOLEAN, NEW u,
             Answered(wk[w], pc, s, u)
      PROVE  /\ u \in WorkerRec /\ u.pc = pc /\ u.job = wk[w].job
             /\ u.gen = g /\ u.last = a /\ u.spare = s
  <2>1. pc \in Points
    BY DEF Points, Leased
  <2>. QED BY <1>2, <1>4, <2>1, AnsweredFields
<1>5. ASSUME UNCHANGED inst, NEW pc \in {"recop", "clear"}, NEW s \in BOOLEAN, NEW v,
             wk' = [wk EXCEPT ![w] = v], Answered(wk[w], pc, s, v),
             pc = "recop" => g # NoGen,
             s <=> pc = "clear" /\ g # NoGen /\ Accepted(g, a), s => Doubtful
      PROVE  CallbackInv'
  <2>1. /\ v \in WorkerRec /\ v.pc = pc /\ v.job = wk[w].job
        /\ v.gen = g /\ v.last = a /\ v.spare = s
    BY <1>4, <1>5
  <2>2. v.pc \in Leased /\ LeasedSound(w, v, R)
    BY <1>2, <1>3, <1>5, <2>1
       DEF Holding, LeasedSound, CopySound, StatusSound, ComputeSound, Fresh, WithVM,
           Judged, Leased
  <2>3. UNCHANGED <<storeVars, world>>
    BY <1>1, <1>5 DEF world
  <2>. QED BY <1>5, <2>1, <2>2, <2>3, ReadStep
<1>6. CASE UNCHANGED inst /\ a \in Visible(g) /\ Become(w, Only(wk[w], "created"))
  <2>1. PICK v : v = Only(wk[w], "created")
    OBVIOUS
  <2>2. v \in WorkerRec /\ v.pc = "created" /\ v.job = wk[w].job
    BY <1>2, <2>1, OnlyFields DEF Points, Leased
  <2>3. EverUp(g)
    BY <1>6 DEF Visible, EverUp
  <2>4. v.pc \in Leased /\ LeasedSound(w, v, R)
    BY <1>2, <1>3, <2>2, <2>3
       DEF Holding, LeasedSound, CopySound, StatusSound, ComputeSound, Fresh, WithVM,
           Judged, Leased
  <2>5. UNCHANGED <<storeVars, world>> /\ wk' = [wk EXCEPT ![w] = v]
    BY <1>1, <1>6, <2>1 DEF world, Become
  <2>. QED BY <2>2, <2>4, <2>5, ReadStep
<1>7. CASE /\ g # NoGen /\ inst[g][a] \in {"none", "failed"}
           /\ inst' = [inst EXCEPT ![g][a] = "pending"]
           /\ \E u : wk' = [wk EXCEPT ![w] = u] /\ Answered(wk[w], "recop", FALSE, u)
  <2>1. PICK v \in WorkerRec : /\ wk' = [wk EXCEPT ![w] = v] /\ v.job = wk[w].job
                               /\ v.gen = g /\ v.last = a /\ v.pc = "recop" /\ ~v.spare
    BY <1>4, <1>7
  <2>2. /\ (Begun(g) = {} /\ ~EverUp(g) /\ R.vm = g) \/ g \in astray
        /\ g \notin astray => Begun(g) = {} /\ ~EverUp(g) /\ R.vm = g
    BY <1>3, <1>7 DEF Taken, Begun, Accepted, EverUp
  <2>3. /\ R.vm = g => /\ g \in Live /\ runners[g].owner = wk[w].job
                       /\ runners[g].owner # NoJob
        /\ \A j \in Jobs \ {wk[w].job} : jobs[j].vm # g
    <3>1. /\ g \in Gens /\ R = jobs[wk[w].job] /\ wk[w].job \in Jobs
          /\ g # NoGen /\ wk[w].job # NoJob /\ (R.vm = g \/ g \notin Live)
      BY <1>2, <1>3, <1>7, StoreAssumption
    <3>2. OwnershipIsExclusive
      BY DEF CallbackInv, LedgerInv
    <3>3. R.vm = g => runners[g].live /\ runners[g].owner = wk[w].job
      BY <3>1, <3>2 DEF OwnershipIsExclusive
    <3>4. \A j \in Jobs : jobs[j].vm = g => runners[g].live /\ runners[g].owner = j
      BY <3>1, <3>2 DEF OwnershipIsExclusive
    <3>. QED BY <3>1, <3>3, <3>4 DEF Live
  <2>4. /\ WorldTyped' /\ inst'[g][a] = "pending"
        /\ \A b \in Attempts \ {a} : inst'[g][b] = inst[g][b]
        /\ \A h \in Gens \ {g} : inst'[h] = inst[h]
    BY <1>1, <1>2, <1>3, <1>7 DEF WorldTyped, InstStates
  <2>5. /\ Taken(g)' \subseteq {a} /\ (g \in astray => Active(g)' = {})
        /\ \A h \in Gens \ {g} : /\ Taken(h)' = Taken(h) /\ Active(h)' = Active(h)
                                 /\ Unused(h)' = Unused(h)
        /\ \A h \in Gens : EverUp(h)' = EverUp(h)
        /\ g \in astray => ~Unused(g)
    <3>1. Taken(g)' \subseteq {a} /\ (g \in astray => Active(g)' = {})
      BY <1>1, <1>3, <2>2, <2>4 DEF Taken, Begun, Accepted, Active
    <3>2. \A h \in Gens \ {g} : /\ Taken(h)' = Taken(h) /\ Active(h)' = Active(h)
                                /\ EverUp(h)' = EverUp(h) /\ Unused(h)' = Unused(h)
      BY <1>1, <2>4 DEF Taken, Begun, Unused, Accepted, Active, Existing, EverUp
    <3>3. EverUp(g)' = EverUp(g)
      BY <1>3, <1>7, <2>4 DEF EverUp
    <3>. QED BY <3>1, <3>2, <3>3 DEF Unused
  <2>6. ASSUME NEW j \in Jobs PROVE JobSound(j)'
    <3>1. /\ JobSound(j) /\ jobs[j].vm \in Gens \cup {NoGen}
          /\ jobs[j].pd \in Gens \cup {NoGen} /\ ranOn[j] \in Gens \cup {NoGen}
      BY <1>2 DEF CallbackInv, CallbacksSound, LedgerInv, StoreTypeOK, JobRec, WorldTyped
    <3>2. RecordSound(jobs[j])'
      <4>1. CASE jobs[j].vm = g
        <5>1. j = wk[w].job /\ R.vm = g /\ R.att = a /\ R.jit
          BY <1>3, <1>7, <2>3, <4>1
        <5>. QED BY <1>1, <1>2, <1>3, <1>7, <2>5, <3>1, <4>1, <5>1
                 DEF JobSound, RecordSound, Closed
      <4>2. CASE jobs[j].vm # g
        BY <1>1, <2>5, <3>1, <4>2 DEF JobSound, RecordSound, Closed
      <4>. QED BY <4>1, <4>2
    <3>. QED BY <1>1, <2>5, <3>1, <3>2 DEF JobSound
  <2>7. ASSUME NEW h \in Gens PROVE GenSound(h)'
    <3>0. GenSound(h)
      BY Zenon, EachSound
    <3>1. GenSound(h) /\ Live' = Live
      BY <1>1, <3>0 DEF Live
    <3>2. CASE h = g
      <4>1. g \in names /\ (g \notin astray => R.vm = g /\ g \in Live)
        BY <1>3, <1>7, <2>2, <2>3
      <4>2. g \notin Live' => Active(g)' = {}
        BY <2>5, <3>1, <4>1
      <4>3. g \in Live' /\ runners'[g].owner = NoJob =>
              EverUp(g)' /\ Taken(g)' \subseteq {runners'[g].rec.att} /\ runners'[g].rec.jit
        <5>1. CASE g \notin astray
          BY <1>1, <2>3, <4>1, <5>1
        <5>2. CASE g \in astray
          BY <1>1, <1>3, <2>5, <3>1, <3>2, <5>2 DEF GenSound, Taken
        <5>. QED BY <5>1, <5>2
      <4>. QED BY <1>1, <1>3, <2>5, <3>1, <3>2, <4>1, <4>2, <4>3 DEF GenSound
    <3>3. CASE h # g
      BY <1>1, <2>4, <2>5, <3>1, <3>3 DEF GenSound
    <3>. QED BY <3>2, <3>3
  <2>8. WorkerSound(w, v)'
    <3>1. jobs'[v.job] = R /\ ghJob'[v.job] # "none" /\ names' = names
      BY Zenon, <1>1, <1>2, <2>1 DEF Holding
    <3>2. LeasedSound(w, v, jobs[v.job])'
      BY <1>2, <1>3, <1>7, <2>1, <3>1
         DEF Holding, LeasedSound, CopySound, StatusSound, ComputeSound, Closed, Fresh,
             WithVM, Judged
    <3>. QED BY <2>1, <3>2 DEF WorkerSound, Leased, Unleased
  <2>9. Ages
    BY <1>1, <2>5 DEF Ages, Live
  <2>10. ASSUME NEW u \in Workers \ {w}, wk'[u] = wk[u] PROVE Undisturbed(u)
    <3>1. \A h \in Gens : Settles(h) \/ h = g
      BY <1>1, <2>4 DEF Settles
    <3>2. wk[u].pc \in Leased => wk[u].job \in Jobs /\ jobs[wk[u].job].vm # g
      BY <1>2, <2>3, Acting DEF Holding
    <3>3. Starts(g)
      BY <1>1, <2>2, <2>3 DEF Starts
    <3>. QED BY <1>1, <2>10, <3>1, <3>2, <3>3 DEF Undisturbed, Calm
  <2>11. [StoreNext]_storeVars
    BY <1>1
  <2>. QED BY <2>1, <2>4, <2>6, <2>7, <2>8, <2>9, <2>10, <2>11, ActorStep
<1>8. \A u : u = [Only(wk[w], "recop") EXCEPT !.gen = g, !.last = a, !.r.op = op] =>
              Answered(wk[w], "recop", FALSE, u)
  <2>1. ASSUME NEW u,
               u = [Only(wk[w], "recop") EXCEPT !.gen = g, !.last = a, !.r.op = op]
        PROVE  u = [[Only(wk[w], "recop") EXCEPT !.gen = g, !.last = a] EXCEPT !.r.op = op]
    BY <2>1
  <2>. QED BY <2>1 DEF Answered
<1>9. ASSUME ~op, NEW p \in BOOLEAN,
             g # NoGen => inst[g][a] \in {"none", "failed"} \/ "refuse" \in Faults,
             UNCHANGED inst,
             Become(w, [[Only(wk[w], "clear") EXCEPT !.gen = g, !.last = a] EXCEPT
                          !.perm = p, !.spare = g # NoGen /\ Accepted(g, a)])
      PROVE  CallbackInv'
  <2>1. PICK s \in BOOLEAN : s = (g # NoGen /\ Accepted(g, a))
    BY DEF Accepted
  <2>2. s => Doubtful
    BY <1>9, <2>1 DEF Doubtful, Accepted
  <2>3. \E v : wk' = [wk EXCEPT ![w] = v] /\ Answered(wk[w], "clear", s, v)
    BY <1>9, <2>1 DEF Become, Answered
  <2>. QED BY <1>5, <1>9, <2>1, <2>2, <2>3
<1>. QED BY Zenon, <1>5, <1>6, <1>7, <1>8, <1>9 DEF Insert, Become

-----------------------------------------------------------------------------
(***************************************************************************)
(* Evidence: the recorded assignments and the registrations.               *)
(***************************************************************************)
\* RecordAssignment retires an assignment only when GitHub has finished its job.
LEMMA EvidenceStep ==
  ASSUME CallbackInv, UNCHANGED world, NEW j \in Jobs, NEW g \in names,
         NEW s \in Statuses, RecordAssignment(j, g, s),
         s = "completed" => ghJob[j] = "completed",
         NEW w \in Workers, NEW v \in WorkerRec, wk' = [wk EXCEPT ![w] = v],
         WorkerSound(w, v)
  PROVE  CallbackInv'
<1>1. /\ UNCHANGED <<jobs, fleet, names>>
      /\ runners' = [runners EXCEPT ![g].available = FALSE]
      /\ assignments[g].job \in {j, NoJob}
  BY DEF RecordAssignment
<1>2. [StoreNext]_storeVars
  BY DEF StoreNext, UnleasedStep, Observation
<1>3. /\ runners \in [Gens -> RunnerRec] /\ assignments \in [Gens -> AssignmentRec]
      /\ g \in Gens /\ NoJob \notin Jobs
  BY StoreAssumption DEF CallbackInv, LedgerInv, StoreTypeOK
<1>4. \A h \in Gens : /\ runners'[h].live = runners[h].live
                      /\ runners'[h].owner = runners[h].owner
                      /\ runners'[h].rec = runners[h].rec
  BY <1>1, <1>3 DEF RunnerRec
<1>5. jobs[j].terminal \/ assignments[g].done => ghJob[j] = "completed"
  BY <1>1, <1>3, LeasedRecord, EvidenceIsTrue
<1>6. \A h \in Gens : assignments'[h].done =>
        assignments'[h].job \in Jobs /\ ghJob[assignments'[h].job] = "completed"
  <2>1. PICK d : /\ assignments' = [assignments EXCEPT ![g] = [job |-> j, done |-> d]]
                 /\ d => ghJob[j] = "completed"
    BY <1>5 DEF RecordAssignment
  <2>. QED BY <1>3, <2>1, EvidenceIsTrue
<1>. QED BY <1>1, <1>2, <1>4, <1>6, RowStep

\* So does checkAssignment, which asks GitHub first.
LEMMA CheckAssignmentStep ==
  ASSUME CallbackInv, UNCHANGED world, NEW g \in names, NEW active,
         CheckAssignment(g, active),
         NEW w \in Workers, NEW v \in WorkerRec, wk' = [wk EXCEPT ![w] = v],
         WorkerSound(w, v)
  PROVE  CallbackInv'
<1>1. CASE UNCHANGED storeVars
  BY <1>1, LocalStep
<1>2. CASE ~UNCHANGED storeVars
  <2>1. PICK j : j = assignments[g].job
    OBVIOUS
  <2>2. /\ RecordAssignment(j, g, "completed") /\ ghJob[j] = "completed" /\ j # NoJob
    BY <1>2, <2>1 DEF CheckAssignment
  <2>3. j \in Jobs /\ "completed" \in Statuses
    BY <2>1, <2>2 DEF CallbackInv, LedgerInv, StoreTypeOK, AssignmentRec, Statuses
  <2>. QED BY <2>2, <2>3, EvidenceStep
<1>. QED BY <1>1, <1>2

\* And capacityRegistration.
LEMMA CapacityRegistrationStep ==
  ASSUME CallbackInv, UNCHANGED world, NEW g \in names, NEW reg,
         CapacityRegistration(g, reg),
         NEW w \in Workers, NEW v \in WorkerRec, wk' = [wk EXCEPT ![w] = v],
         WorkerSound(w, v)
  PROVE  CallbackInv'
<1>1. CASE Assigned(g)
  BY <1>1, CheckAssignmentStep DEF CapacityRegistration
<1>2. CASE ~Assigned(g)
  BY <1>2, LocalStep DEF CapacityRegistration
<1>. QED BY <1>1, <1>2

\* What the registration of a running VM leads to.
LEMMA DecisionSound ==
  ASSUME CallbackInv, NEW w \in Workers, wk[w].pc \in {"reg", "rest"}, NEW reg,
         DecideRunning(w, reg) \/ (reg = "unassigned" /\ Goto(w, "rest"))
  PROVE  \E v \in WorkerRec : wk' = [wk EXCEPT ![w] = v] /\ WorkerSound(w, v)
<1> PICK R : R = jobs[wk[w].job]
  OBVIOUS
<1>1. wk[w].pc \in Leased
  BY DEF Leased
<1>2. /\ Holding(w, wk[w], R) /\ LeasedSound(w, wk[w], R) /\ wk[w] \in WorkerRec
      /\ wk[w].job \in Jobs
  BY <1>1, Acting
<1>3. /\ wk[w].r.vm \in names /\ EverUp(wk[w].r.vm)
      /\ R.vm \in {wk[w].r.vm, NoGen} /\ (R.vm = NoGen => Closed(R))
  BY <1>2 DEF LeasedSound, CopySound, ComputeSound, FreshCopy, Fresh, WithVM
<1>4. \E v : /\ wk' = [wk EXCEPT ![w] = v]
            /\ \/ \E pc \in {"del", "rest"} : v = [wk[w] EXCEPT !.pc = pc]
               \/ \E b \in BOOLEAN : v = [Only(wk[w], "detach") EXCEPT !.spare = b]
               \/ v = Only(wk[w], "keep")
  <2>1. wk \in [Workers -> WorkerRec]
    BY DEF CallbackInv, TypeOK, WorkerRec, Points
  <2>2. \/ \E pc \in {"del", "rest"} : wk' = [wk EXCEPT ![w].pc = pc]
        \/ \E b \in BOOLEAN :
             wk' = [wk EXCEPT ![w] = [Only(wk[w], "detach") EXCEPT !.spare = b]]
        \/ wk' = [wk EXCEPT ![w] = Only(wk[w], "keep")]
    BY DEF DecideRunning, Goto, Become
  <2>3. \A pc \in {"del", "rest"} :
          [wk EXCEPT ![w].pc = pc] = [wk EXCEPT ![w] = [wk[w] EXCEPT !.pc = pc]]
    BY <2>1
  <2>. QED BY <2>2, <2>3
<1>5. PICK v : /\ wk' = [wk EXCEPT ![w] = v]
               /\ \/ \E pc \in {"del", "rest"} : v = [wk[w] EXCEPT !.pc = pc]
                  \/ \E b \in BOOLEAN : v = [Only(wk[w], "detach") EXCEPT !.spare = b]
                  \/ v = Only(wk[w], "keep")
  BY <1>4
<1>6. v \in WorkerRec /\ WorkerSound(w, v)
  <2>1. {"del", "rest", "detach", "keep"} \subseteq Points
    BY DEF Points, Leased
  <2>2. CASE \E pc \in {"del", "rest"} : v = [wk[w] EXCEPT !.pc = pc]
    <3>1. /\ v \in WorkerRec /\ v.pc \in {"del", "rest"} /\ v.job = wk[w].job
          /\ v.r = wk[w].r /\ v.st = wk[w].st
      BY <1>2, <2>1, <2>2 DEF WorkerRec
    <3>2. LeasedSound(w, v, R)
      BY <1>2, <3>1
         DEF LeasedSound, CopySound, StatusSound, ComputeSound, Fresh, WithVM, Judged
    <3>. QED BY <3>1, <3>2 DEF WorkerSound, Unleased
  <2>3. CASE ~ \E pc \in {"del", "rest"} : v = [wk[w] EXCEPT !.pc = pc]
    <3>1. v \in WorkerRec /\ v.pc \in {"detach", "keep"} /\ v.job = wk[w].job
      <4>1. CASE v = Only(wk[w], "keep")
        BY <1>2, <2>1, <4>1, OnlyFields
      <4>2. CASE v # Only(wk[w], "keep")
        <5>1. /\ Only(wk[w], "detach") \in WorkerRec /\ Only(wk[w], "detach").pc = "detach"
              /\ Only(wk[w], "detach").job = wk[w].job
          BY <1>2, <2>1, OnlyFields
        <5>. QED BY <1>5, <2>3, <4>2, <5>1 DEF WorkerRec
      <4>. QED BY <4>1, <4>2
    <3>2. LeasedSound(w, v, R)
      BY <1>2, <1>3, <3>1
         DEF LeasedSound, CopySound, StatusSound, ComputeSound, Fresh, WithVM, Judged
    <3>. QED BY <3>1, <3>2 DEF WorkerSound, Unleased
  <2>. QED BY <2>2, <2>3
<1>. QED BY <1>5, <1>6

\* LookAtAssignment and LookAtRegistration.
LEMMA RunningSteps ==
  ASSUME CallbackInv, NEW w \in Workers, LookAtAssignment(w) \/ LookAtRegistration(w)
  PROVE  CallbackInv'
<1>1. CASE LookAtAssignment(w)
  <2>1. /\ wk[w].pc = "reg" /\ wk[w].pc \in Leased /\ UNCHANGED world
    BY <1>1 DEF LookAtAssignment, At, Leased
  <2>2. wk[w].r.vm \in names
    BY <2>1, Acting DEF LeasedSound, CopySound, FreshCopy, Fresh, WithVM
  <2>3. PICK reg : /\ CapacityRegistration(wk[w].r.vm, reg)
                   /\ DecideRunning(w, reg) \/ (reg = "unassigned" /\ Goto(w, "rest"))
    BY <1>1 DEF LookAtAssignment
  <2>4. PICK v \in WorkerRec : wk' = [wk EXCEPT ![w] = v] /\ WorkerSound(w, v)
    BY <2>1, <2>3, DecisionSound
  <2>. QED BY <2>1, <2>2, <2>3, <2>4, CapacityRegistrationStep
<1>2. CASE LookAtRegistration(w)
  <2>1. wk[w].pc = "rest" /\ UNCHANGED <<storeVars, world>>
    BY <1>2 DEF LookAtRegistration, At
  <2>2. PICK reg : DecideRunning(w, reg)
    BY <1>2 DEF LookAtRegistration
  <2>3. PICK v \in WorkerRec : wk' = [wk EXCEPT ![w] = v] /\ WorkerSound(w, v)
    BY <2>1, <2>2, DecisionSound
  <2>. QED BY <2>1, <2>3, LocalStep
<1>. QED BY <1>1, <1>2

\* A callback without a lease knows what UnleasedSound says.
LEMMA Unheld ==
  ASSUME CallbackInv, NEW w \in Workers, wk[w].pc \in Unleased
  PROVE  /\ UnleasedSound(wk[w]) /\ wk[w] \in WorkerRec
         /\ wk \in [Workers -> WorkerRec]
         /\ Idle \in WorkerRec /\ WorkerSound(w, Idle)
<1>1. WorkerSound(w, Idle)
  BY DEF WorkerSound, Idle, Leased, Unleased
<1>. QED BY <1>1, LocalType DEF CallbackInv, CallbacksSound, TypeOK, WorkerSound,
                                WorkerRec, Points

\* ObserveAssignment and DeleteCheck.
LEMMA AssignmentSteps ==
  ASSUME CallbackInv, NEW w \in Workers, ObserveAssignment(w) \/ DeleteCheck(w)
  PROVE  CallbackInv'
<1>1. CASE ObserveAssignment(w)
  <2>1. /\ wk[w].pc = "oasg" /\ wk[w].pc \in Unleased /\ UNCHANGED world
        /\ wk' = [wk EXCEPT ![w] = Idle]
        /\ RecordAssignment(wk[w].job, wk[w].gen, wk[w].st) \/ UNCHANGED storeVars
    BY <1>1 DEF ObserveAssignment, At, Unleased, Done
  <2>2. UnleasedSound(wk[w]) /\ Idle \in WorkerRec /\ WorkerSound(w, Idle)
    BY <2>1, Unheld
  <2>3. /\ wk[w].job \in Jobs /\ wk[w].gen \in names /\ wk[w].st \in Statuses
        /\ wk[w].st = "completed" => ghJob[wk[w].job] = "completed"
    BY <2>1, <2>2 DEF UnleasedSound
  <2>. QED BY <2>1, <2>2, <2>3, EvidenceStep, LocalStep
<1>2. CASE DeleteCheck(w)
  <2>1. /\ wk[w].pc = "dasg" /\ wk[w].pc \in Unleased /\ UNCHANGED world
    BY <1>2 DEF DeleteCheck, At, Unleased
  <2>2. /\ UnleasedSound(wk[w]) /\ Idle \in WorkerRec /\ WorkerSound(w, Idle)
        /\ wk[w] \in WorkerRec /\ wk \in [Workers -> WorkerRec]
    BY <2>1, Unheld
  <2>3. wk[w].gen \in names
    BY <2>1, <2>2 DEF UnleasedSound
  <2>4. PICK u : u = [wk[w] EXCEPT !.pc = "ddel"]
    OBVIOUS
  <2>5. u \in WorkerRec /\ WorkerSound(w, u)
    <3>1. /\ u \in WorkerRec /\ u.pc = "ddel" /\ u.job = wk[w].job /\ u.gen = wk[w].gen
         /\ u.last = wk[w].last
      BY <2>2, <2>4 DEF WorkerRec, Points, Unleased
    <3>2. UnleasedSound(u)
      BY <2>1, <2>2, <3>1 DEF UnleasedSound, Deleting
    <3>. QED BY <3>1, <3>2 DEF WorkerSound, Leased
  <2>6. PICK active \in BOOLEAN : /\ CheckAssignment(wk[w].gen, active)
                                  /\ \/ wk' = [wk EXCEPT ![w] = Idle]
                                     \/ wk' = [wk EXCEPT ![w] = u]
    BY <1>2, <2>2, <2>4 DEF DeleteCheck, Done, Goto
  <2>. QED BY <2>1, <2>2, <2>3, <2>5, <2>6, CheckAssignmentStep
<1>. QED BY <1>1, <1>2

\* RowAssignment and RowRegistration.
LEMMA RowRegistrationSteps ==
  ASSUME CallbackInv, NEW w \in Workers, RowAssignment(w) \/ RowRegistration(w)
  PROVE  CallbackInv'
<1>1. wk[w].pc \in {"rreg", "rrest"} /\ wk[w].pc \in Unleased /\ UNCHANGED world
  BY DEF RowAssignment, RowRegistration, At, Unleased
<1>2. /\ UnleasedSound(wk[w]) /\ wk[w] \in WorkerRec
      /\ wk \in [Workers -> WorkerRec]
  BY <1>1, Unheld
<1>3. /\ wk[w].gen \in names /\ EverUp(wk[w].gen)
      /\ wk[w].last # 0 /\ wk[w].gen \notin astray
           => inst[wk[w].gen][wk[w].last] \in {"stopped", "gone"}
  BY <1>1, <1>2 DEF UnleasedSound
<1>4. ASSUME NEW reg, DecideRow(w, reg) \/ Goto(w, "rrest")
      PROVE  \E v \in WorkerRec : wk' = [wk EXCEPT ![w] = v] /\ WorkerSound(w, v)
  <2>1. \E v : /\ wk' = [wk EXCEPT ![w] = v]
              /\ \/ \E pc \in {"rdel", "rrest"} : v = [wk[w] EXCEPT !.pc = pc]
                 \/ \E b \in BOOLEAN : v = [wk[w] EXCEPT !.pc = "rdefer", !.spare = b]
    BY <1>2, <1>4 DEF DecideRow, Become, Goto
  <2>2. PICK v : /\ wk' = [wk EXCEPT ![w] = v]
                 /\ \/ \E pc \in {"rdel", "rrest"} : v = [wk[w] EXCEPT !.pc = pc]
                    \/ \E b \in BOOLEAN : v = [wk[w] EXCEPT !.pc = "rdefer", !.spare = b]
    BY <2>1
  <2>3. /\ v \in WorkerRec /\ v.pc \in {"rdel", "rrest", "rdefer"} /\ v.gen = wk[w].gen
        /\ v.last = wk[w].last
    BY <1>2, <2>2 DEF WorkerRec, Points, Unleased
  <2>4. WorkerSound(w, v)
    BY <1>3, <2>3 DEF WorkerSound, UnleasedSound, Deleting, Leased
  <2>. QED BY <2>2, <2>3, <2>4
<1>5. CASE RowAssignment(w)
  <2>1. PICK reg : /\ CapacityRegistration(wk[w].gen, reg)
                   /\ DecideRow(w, reg) \/ Goto(w, "rrest")
    BY <1>5 DEF RowAssignment
  <2>. QED BY <1>1, <1>3, <1>4, <2>1, CapacityRegistrationStep
<1>6. CASE RowRegistration(w)
  BY <1>1, <1>4, <1>6, LocalStep DEF RowRegistration
<1>. QED BY <1>5, <1>6

\* RowDefer.
LEMMA RowDeferStep ==
  ASSUME CallbackInv, NEW w \in Workers, RowDefer(w)
  PROVE  CallbackInv'
<1> PICK g, b : g = wk[w].gen /\ b = wk[w].spare
  OBVIOUS
<1>1. /\ wk[w].pc = "rdefer" /\ wk[w].pc \in Unleased /\ UNCHANGED world
      /\ DeferRunner(g, b) /\ wk' = [wk EXCEPT ![w] = Idle]
  BY DEF RowDefer, At, Unleased, Done
<1>2. /\ g \in names /\ g \in Gens /\ b \in BOOLEAN
      /\ Idle \in WorkerRec /\ WorkerSound(w, Idle)
  BY <1>1, Unheld DEF UnleasedSound, WorkerRec, CallbackInv, LedgerInv, StoreTypeOK
<1>3. [StoreNext]_storeVars
  BY <1>1, <1>2 DEF StoreNext, UnleasedStep
<1>4. \A h \in Gens : /\ runners'[h].live = runners[h].live
                      /\ runners'[h].owner = runners[h].owner
                      /\ runners'[h].rec = runners[h].rec
  BY <1>1, <1>2 DEF DeferRunner, CallbackInv, LedgerInv, StoreTypeOK, RunnerRec
<1>5. UNCHANGED <<jobs, names, assignments>>
  BY <1>1 DEF DeferRunner
<1>. QED BY <1>1, <1>2, <1>3, <1>4, <1>5, EvidenceIsTrue, RowStep

\* RowRelease and DeleteRelease.
LEMMA RowReleaseSteps ==
  ASSUME CallbackInv, NEW w \in Workers, RowRelease(w) \/ DeleteRelease(w)
  PROVE  CallbackInv'
<1> PICK g : g = wk[w].gen
  OBVIOUS
<1>1. /\ wk[w].pc \in {"rrel", "drel"} /\ wk[w].pc \in Unleased /\ UNCHANGED world
      /\ ReleaseRunner(g)
  BY DEF RowRelease, DeleteRelease, At, Unleased
<1>2. /\ UnleasedSound(wk[w]) /\ wk[w] \in WorkerRec /\ wk \in [Workers -> WorkerRec]
      /\ Idle \in WorkerRec /\ WorkerSound(w, Idle)
  BY <1>1, Unheld
<1>3. /\ g \in names /\ g \in Gens /\ (g \in Live => Active(g) = {})
  BY <1>1, <1>2 DEF UnleasedSound, CallbackInv, LedgerInv, StoreTypeOK
<1>4. [StoreNext]_storeVars
  BY <1>1, <1>3 DEF StoreNext, UnleasedStep
<1>5. \A h \in Gens : \/ runners'[h] = runners[h]
                      \/ runners'[h] = NoRow /\ Active(h) = {}
  BY <1>1, <1>3 DEF ReleaseRunner, CallbackInv, LedgerInv, StoreTypeOK, Live
<1>6. UNCHANGED <<jobs, names, assignments>>
  BY <1>1 DEF ReleaseRunner
<1>7. \E v \in WorkerRec : wk' = [wk EXCEPT ![w] = v] /\ WorkerSound(w, v)
  <2>1. CASE RowRelease(w)
    BY <1>2, <2>1 DEF RowRelease, Done
  <2>2. CASE DeleteRelease(w)
    <3>1. PICK v : v = [wk[w] EXCEPT !.pc = "dupd"]
      OBVIOUS
    <3>2. wk' = [wk EXCEPT ![w] = v] /\ wk[w].pc = "drel"
      BY <1>2, <2>2, <3>1 DEF DeleteRelease, Goto, At
    <3>3. v \in WorkerRec /\ v.pc = "dupd" /\ v.gen = wk[w].gen /\ v.job = wk[w].job
          /\ v.last = wk[w].last
      BY <1>2, <3>1 DEF WorkerRec, Points, Unleased
    <3>4. UnleasedSound(v)
      BY <1>2, <3>2, <3>3 DEF UnleasedSound, Deleting
    <3>. QED BY <3>2, <3>3, <3>4 DEF WorkerSound, Leased
  <2>. QED BY <2>1, <2>2
<1>. QED BY <1>1, <1>4, <1>5, <1>6, <1>7, EvidenceIsTrue, RowStep

\* Webhook: a completed event names a runner that has served its one job.
LEMMA WebhookStep ==
  ASSUME CallbackInv, NEW w \in Workers, NEW j \in Jobs, NEW s \in Statuses,
         Webhook(w, j, s)
  PROVE  CallbackInv' /\ [StoreNext]_storeVars
<1> PICK p, g : p = jobs[j] /\ g = (IF s = "queued" THEN NoGen ELSE ranOn[j])
  OBVIOUS
<1>0. PICK q : q = [p EXCEPT
                      !.seen = TRUE,
                      !.status = IF ~p.terminal \/ s = "completed" THEN s ELSE @,
                      !.terminal = @ \/ s = "completed",
                      !.pd = IF s = "completed" /\ g # NoGen THEN g ELSE @]
  OBVIOUS
<1>1. /\ wk[w].pc = "idle" /\ UNCHANGED world
      /\ ObserveJob(j, s, s = "completed", g)
      /\ WriteJob(j, q) /\ UNCHANGED <<fleet, assignments, names>>
  BY <1>0 DEF Webhook, At, ObserveJob
<1>2. /\ p \in JobRec /\ RecordSound(p) /\ JobSound(j)
      /\ p.terminal => p.status = "completed" /\ ghJob[j] = "completed"
      /\ p.seen => ghJob[j] # "none"
      /\ g \in Gens \cup {NoGen}
  BY LeasedRecord DEF CallbackInv, CallbacksSound, TypeOK
<1>3. /\ ghJob[j] # "none" /\ (s = "completed" => ghJob[j] = "completed")
      /\ s = "in_progress" => g # NoGen
      /\ g # NoGen => /\ g \in names /\ EverUp(g)
                      /\ s = "completed" => run[g] = "gone"
  <2>1. CASE s = "queued"
    BY <2>1 DEF Webhook
  <2>2. CASE s = "in_progress"
    BY <1>2, <2>2, LiveOnce DEF Webhook, JobSound
  <2>3. CASE s = "completed"
    BY <1>2, <2>3, LiveOnce DEF Webhook, JobSound
  <2>. QED BY <2>1, <2>2, <2>3 DEF Statuses
<1>4. /\ q \in JobRec /\ q.lease = p.lease /\ q.vm = p.vm /\ q.att = p.att
      /\ q.jit = p.jit /\ q.created = p.created /\ q.failure = p.failure
      /\ q.terminal = (p.terminal \/ s = "completed")
      /\ q.pd = (IF s = "completed" /\ g # NoGen THEN g ELSE p.pd)
      /\ q.status = (IF ~p.terminal \/ s = "completed" THEN s ELSE p.status)
  <2>1. PICK st, tm, pd :
          /\ st = (IF ~p.terminal \/ s = "completed" THEN s ELSE p.status)
          /\ tm = (p.terminal \/ s = "completed")
          /\ pd = (IF s = "completed" /\ g # NoGen THEN g ELSE p.pd)
    OBVIOUS
  <2>2. st \in Statuses /\ tm \in BOOLEAN /\ pd \in Gens \cup {NoGen}
    BY <1>2, <2>1 DEF JobRec
  <2>3. q = [p EXCEPT !.seen = TRUE, !.status = st, !.terminal = tm, !.pd = pd]
    BY <1>0, <1>2, <2>1 DEF JobRec
  <2>4. /\ q \in JobRec /\ q.lease = p.lease /\ q.vm = p.vm /\ q.att = p.att
        /\ q.jit = p.jit /\ q.created = p.created /\ q.failure = p.failure
        /\ q.terminal = tm /\ q.pd = pd /\ q.status = st
    BY <1>2, <2>2, <2>3 DEF JobRec
  <2>. QED BY <2>1, <2>4
<1>5. [StoreNext]_storeVars
  <2>1. CASE s = "completed"
    BY <1>1, <1>3, <2>1 DEF StoreNext, UnleasedStep, Observation
  <2>2. CASE s # "completed"
    <3>1. ObserveJob(j, s, FALSE, NoGen) /\ s \in {"queued", "in_progress"}
      BY <1>1, <2>2 DEF ObserveJob, Statuses
    <3>. QED BY <3>1 DEF StoreNext, UnleasedStep, Observation
  <2>. QED BY <2>1, <2>2
<1>6. RecordSound(q) /\ SameClaim(j, q)
  <2>1. RecordSound(q)
    <3>1. Closed(p) => Closed(q)
      BY <1>4 DEF Closed
    <3>. QED BY <1>2, <1>4, <3>1, RecordStaysSound
  <2>2. q.terminal => q.status = "completed"
    BY <1>2, <1>4
  <2>. QED BY <1>4, <2>1, <2>2 DEF SameClaim
<1>7. /\ q.terminal => ghJob[j] = "completed"
      /\ q.pd # NoGen => q.terminal /\ EverUp(q.pd) /\ run[q.pd] = "gone"
  BY <1>2, <1>3, <1>4 DEF JobSound
<1>8. PICK v \in WorkerRec : /\ wk' = [wk EXCEPT ![w] = v] /\ v.pc \notin Leased
                             /\ v.pc \in Unleased => UnleasedSound(v)
  <2>1. CASE g = NoGen
    <3>1. wk[w] \in WorkerRec /\ wk' = wk /\ wk = [wk EXCEPT ![w] = wk[w]]
      BY <1>1, <2>1, Acting DEF Webhook, CallbackInv, TypeOK
    <3>. QED BY <1>1, <3>1 DEF Leased, Unleased
  <2>2. CASE g # NoGen
    <3>1. PICK v : v = [Idle EXCEPT !.pc = "oasg", !.job = j, !.gen = g, !.st = s]
      OBVIOUS
    <3>2. wk' = [wk EXCEPT ![w] = v]
      BY <2>2, <3>1 DEF Webhook, Become
    <3>3. v \in WorkerRec /\ v.pc = "oasg" /\ v.job = j /\ v.gen = g /\ v.st = s
      BY <1>2, <3>1, LocalType DEF WorkerRec, Points, Unleased
    <3>4. v.last = Idle.last
      BY <3>1, LocalType DEF WorkerRec
    <3>5. v.last = 0
      BY <3>4 DEF Idle
    <3>. QED BY <1>3, <2>2, <3>2, <3>3, <3>5 DEF Leased, Unleased, UnleasedSound, Deleting
  <2>. QED BY <2>1, <2>2
<1>. QED BY <1>1, <1>3, <1>4, <1>5, <1>6, <1>7, <1>8, RecordWriteStep

\* DeleteFinish: the record that names the deleted VM gives it up, whoever holds
\* its lease.
LEMMA DeleteFinishStep ==
  ASSUME CallbackInv, NEW w \in Workers, DeleteFinish(w)
  PROVE  CallbackInv'
<1> PICK j, g, p : j = wk[w].job /\ g = wk[w].gen /\ p = jobs[j]
  OBVIOUS
<1>0. PICK r : r = [p EXCEPT !.pd = IF @ = g THEN NoGen ELSE @]
  OBVIOUS
<1>1. /\ wk[w].pc = "dupd" /\ wk[w].pc \in Unleased /\ UNCHANGED world
      /\ DeleteUpdate(j, g) /\ UNCHANGED <<assignments, names>>
      /\ wk' = [wk EXCEPT ![w] = Idle]
  BY DEF DeleteFinish, At, Unleased, Done, DeleteUpdate
<1>2. UnleasedSound(wk[w]) /\ Idle \in WorkerRec
      /\ Idle.pc \notin Leased /\ Idle.pc \notin Unleased
  BY <1>1, Unheld DEF Idle, Leased, Unleased
<1>3. /\ j \in Jobs /\ g \in names /\ g \in Gens /\ EverUp(g) /\ p.terminal
      /\ g \in Live => Active(g) = {}
  BY <1>1, <1>2 DEF UnleasedSound, Deleting, CallbackInv, LedgerInv, StoreTypeOK
<1>4. /\ p \in JobRec /\ RecordSound(p) /\ JobSound(j) /\ p.status = "completed"
      /\ ghJob[j] = "completed" /\ NoGen \notin Gens
  BY <1>3, LeasedRecord, StoreAssumption DEF CallbackInv, CallbacksSound
<1>5. [StoreNext]_storeVars
  BY <1>1, <1>3 DEF StoreNext, UnleasedStep
<1>6. /\ r \in JobRec /\ r.lease = p.lease /\ r.vm = p.vm /\ r.att = p.att
      /\ r.jit = p.jit /\ r.created = p.created /\ r.failure = p.failure
      /\ r.terminal = p.terminal /\ r.pd \in {p.pd, NoGen} /\ r.status = p.status
      /\ r.seen = p.seen
  BY <1>0, <1>4 DEF JobRec
<1>7. CASE r.vm = g
  <2>1. PICK q : q = Unreserved(r)
    OBVIOUS
  <2>2. PICK c : WriteCapacity(j, q, c)
    BY <1>0, <1>1, <1>7, <2>1 DEF DeleteUpdate, ReleaseReservation
  <2>3. /\ q \in JobRec /\ q.vm = NoGen /\ q.att = 0 /\ ~q.created
        /\ q.lease = p.lease /\ q.failure = p.failure /\ q.terminal /\ q.pd \in {p.pd, NoGen}
    BY <1>3, <1>6, <2>1, UnreservedFields
  <2>4. RecordSound(q) /\ Closed(q)
    BY <2>3 DEF RecordSound, Closed
  <2>5. g \in Live
    <3>1. jobs[j].vm = g /\ g # NoGen /\ OwnershipIsExclusive
      BY <1>3, <1>4, <1>6, <1>7 DEF CallbackInv, LedgerInv
    <3>. QED BY <1>3, <3>1 DEF OwnershipIsExclusive, Live
  <2>6. /\ jobs[j].vm = g /\ Active(jobs[j].vm) = {} /\ EverUp(jobs[j].vm) /\ g # NoGen
    BY <1>3, <1>4, <1>6, <1>7, <2>5
  <2>7. q.terminal <=> jobs[j].terminal
    BY <1>3, <2>3
  <2>. QED BY <1>1, <1>2, <1>3, <1>4, <1>5, <2>2, <2>3, <2>4, <2>6, <2>7, DropStep
<1>8. CASE r.vm # g
  <2>1. WriteCapacity(j, r, fleet)
    BY <1>0, <1>1, <1>8 DEF DeleteUpdate
  <2>2. SameClaim(j, r)
    BY <1>4, <1>6 DEF SameClaim
  <2>3. WriteJob(j, r)
    BY <1>3, <2>1, <2>2, SameClaimIsJobWrite DEF CallbackInv
  <2>4. RecordSound(r)
    <3>1. Closed(p) => Closed(r)
      BY <1>6 DEF Closed
    <3>. QED BY <1>4, <1>6, <3>1, RecordStaysSound
  <2>5. r.pd # NoGen => r.terminal /\ EverUp(r.pd) /\ run[r.pd] = "gone"
    BY <1>4, <1>6 DEF JobSound
  <2>. QED BY <1>1, <1>2, <1>3, <1>4, <1>5, <1>6, <2>2, <2>3, <2>4, <2>5, RecordWriteStep
<1>. QED BY <1>7, <1>8

\* FinishPermanent: the record is parked; a reservation is given back only when no
\* attempt is on record, so no VM can exist.
LEMMA FinishPermanentStep ==
  ASSUME CallbackInv, NEW w \in Workers, FinishPermanent(w)
  PROVE  CallbackInv'
<1> PICK j, p, r : j = wk[w].job /\ p = jobs[j] /\ r = [p EXCEPT !.failure = TRUE]
  OBVIOUS
<1>1. /\ wk[w].pc = "park" /\ wk[w].pc \in Unleased /\ UNCHANGED world
      /\ Park(j) \/ UNCHANGED storeVars
      /\ wk' = [wk EXCEPT ![w] = Idle]
  BY DEF FinishPermanent, At, Unleased, Done
<1>2. /\ UnleasedSound(wk[w]) /\ Idle \in WorkerRec
      /\ Idle.pc \notin Leased /\ Idle.pc \notin Unleased
  BY <1>1, Unheld DEF Idle, Leased, Unleased
<1>3. CASE UNCHANGED storeVars
  BY <1>1, <1>2, <1>3, LookStep
<1>4. CASE Park(j)
  <2>1. j \in Jobs
    BY <1>1, <1>2 DEF UnleasedSound
  <2>2. /\ p \in JobRec /\ RecordSound(p) /\ JobSound(j)
        /\ p.terminal => p.status = "completed" /\ ghJob[j] = "completed"
        /\ p.seen => ghJob[j] # "none"
    BY <2>1, LeasedRecord DEF CallbackInv, CallbacksSound
  <2>3. [StoreNext]_storeVars
    BY <1>4, <2>1 DEF StoreNext, UnleasedStep
  <2>4. /\ r \in JobRec /\ r.lease = p.lease /\ r.vm = p.vm /\ r.att = p.att
        /\ r.jit = p.jit /\ r.created = p.created /\ r.failure /\ r.seen = p.seen
        /\ r.terminal = p.terminal /\ r.pd = p.pd /\ r.status = p.status
    BY <2>2 DEF JobRec
  <2>5. UNCHANGED <<assignments, names>>
    BY <1>4 DEF Park
  <2>6. CASE r.att = 0 /\ r.vm # NoGen
    <3>1. PICK q : q = Unreserved(r)
      OBVIOUS
    <3>2. PICK c : WriteCapacity(j, q, c)
      BY <1>4, <2>6, <3>1 DEF Park, ReleaseReservation
    <3>3. /\ q \in JobRec /\ q.vm = NoGen /\ q.att = 0 /\ ~q.created /\ q.seen = p.seen
          /\ q.lease = p.lease /\ q.failure /\ q.terminal = p.terminal /\ q.pd = p.pd
      BY <2>4, <3>1, UnreservedFields
    <3>4. RecordSound(q) /\ Closed(q)
      BY <3>3 DEF RecordSound, Closed
    <3>5. Active(p.vm) = {}
      <4>1. Taken(p.vm) \subseteq {0}
        BY <2>2, <2>4, <2>6 DEF RecordSound
      <4>. QED BY <4>1 DEF Taken, Begun, Unused, Accepted, Active, Existing, Attempts
    <3>. QED BY <1>1, <1>2, <2>1, <2>2, <2>3, <2>4, <2>5, <2>6, <3>2, <3>3, <3>4, <3>5,
                DropStep
  <2>7. CASE ~(r.att = 0 /\ r.vm # NoGen)
    <3>1. WriteCapacity(j, r, fleet)
      BY <1>4, <2>7 DEF Park
    <3>2. SameClaim(j, r)
      BY <2>2, <2>4 DEF SameClaim
    <3>3. WriteJob(j, r)
      BY <2>1, <3>1, <3>2, SameClaimIsJobWrite DEF CallbackInv
    <3>4. RecordSound(r)
      BY <2>2, <2>4, RecordStaysSound DEF Closed
    <3>5. r.pd # NoGen => r.terminal /\ EverUp(r.pd) /\ run[r.pd] = "gone"
      BY <2>2, <2>4 DEF JobSound
    <3>. QED BY <1>1, <1>2, <2>1, <2>2, <2>3, <2>4, <2>5, <3>2, <3>3, <3>4, <3>5,
                RecordWriteStep
  <2>. QED BY <2>6, <2>7
<1>. QED BY <1>1, <1>3, <1>4

\* LeaseRunsOut: nobody acts, and nobody held that lease.
LEMMA LeaseRunsOutStep ==
  ASSUME CallbackInv, NEW j \in Jobs, LeaseRunsOut(j)
  PROVE  CallbackInv'
<1>1. /\ UNCHANGED <<runners, fleet, assignments, names>>
      /\ UNCHANGED <<inst, run, ghJob, ranOn, astray>> /\ UNCHANGED wk
      /\ jobs' = [jobs EXCEPT ![j].lease = NoWorker]
      /\ \A u \in Workers : wk[u].pc \in Leased => wk[u].job # j
  BY DEF LeaseRunsOut, ExpireLease, world
<1>2. [StoreNext]_storeVars
  BY DEF LeaseRunsOut, StoreNext, UnleasedStep
<1>3. \A k \in Jobs :
         /\ jobs'[k].vm = jobs[k].vm /\ jobs'[k].att = jobs[k].att
         /\ jobs'[k].jit = jobs[k].jit /\ jobs'[k].created = jobs[k].created
         /\ jobs'[k].failure = jobs[k].failure /\ jobs'[k].terminal = jobs[k].terminal
         /\ jobs'[k].seen = jobs[k].seen /\ jobs'[k].pd = jobs[k].pd
         /\ k # j => jobs'[k] = jobs[k]
  BY <1>1 DEF CallbackInv, LedgerInv, StoreTypeOK, JobRec
<1>4. \A g \in Gens : /\ Taken(g)' = Taken(g) /\ Active(g)' = Active(g)
                      /\ EverUp(g)' = EverUp(g) /\ Settles(g)
                      /\ Unused(g)' = Unused(g)
  BY <1>1 DEF Taken, Begun, Unused, Accepted, Active, Existing, EverUp, Settles
<1>5. ASSUME NEW k \in Jobs PROVE JobSound(k)'
  <2>1. JobSound(k) /\ jobs[k] \in JobRec /\ ranOn[k] \in Gens \cup {NoGen}
    BY LeasedRecord DEF CallbackInv, CallbacksSound, TypeOK
  <2>2. RecordSound(jobs[k])'
    BY <1>3, <1>4, <2>1 DEF JobSound, RecordSound, Closed, JobRec
  <2>. QED BY <1>1, <1>3, <1>4, <2>1, <2>2 DEF JobSound, JobRec
<1>6. \A g \in Gens : GenSound(g)'
  BY <1>1, <1>4 DEF CallbackInv, CallbacksSound, GenSound, Live
<1>7. WorldTyped' /\ wk' \in [Workers -> WorkerRec]
  BY <1>1 DEF CallbackInv, TypeOK, WorldTyped, WorkerRec, Points
<1>8. Ages
  BY <1>1, <1>3, <1>4 DEF Ages, Live
<1>9. ASSUME NEW u \in Workers PROVE Undisturbed(u)
  <2>1. wk[u].pc \in Leased => wk[u].job \in Jobs /\ wk[u].job # j
    BY <1>1, Acting
  <2>. QED BY <1>1, <1>3, <1>4, <2>1 DEF Undisturbed, Calm
<1>10. {} \in SUBSET Workers /\ \A u \in {} : WorkerSound(u, wk[u])'
  OBVIOUS
<1>. QED BY <1>2, <1>5, <1>6, <1>7, <1>8, <1>9, <1>10, StepHolds

-----------------------------------------------------------------------------
(***************************************************************************)
(* Every step, and what follows.                                           *)
(***************************************************************************)
\* The initial states.
LEMMA CallbackInit == Init => CallbackInv
<1> SUFFICES ASSUME Init PROVE CallbackInv
  OBVIOUS
<1>1. LedgerInv /\ WorldTyped
  BY InitHolds DEF Init, WorldTyped, InstStates
<1>2. wk \in [Workers -> WorkerRec] /\ \A w \in Workers : wk[w].pc = "idle"
  BY LocalType DEF Init, Idle
<1>3. TypeOK
  BY <1>1, <1>2 DEF TypeOK, WorldTyped, LedgerInv, WorkerRec, Points
<1>4. \A g \in Gens : Taken(g) = {} /\ Active(g) = {} /\ ~EverUp(g)
  BY DEF Init, Taken, Begun, Unused, Accepted, Active, Existing, EverUp
<1>5. \A j \in Jobs : JobSound(j)
  BY DEF Init, StoreInit, NoRecord, JobSound, RecordSound
<1>6. \A g \in Gens : GenSound(g)
  BY <1>4 DEF Init, StoreInit, NoRow, NoAssignment, GenSound, Live
<1>7. \A w \in Workers : WorkerSound(w, wk[w])
  BY <1>2 DEF WorkerSound, Leased, Unleased
<1>8. astray = {}
  BY DEF Init
<1>. QED BY <1>1, <1>3, <1>5, <1>6, <1>7, <1>8 DEF CallbackInv, CallbacksSound

\* One lemma per action.
LEMMA CallbackNext == CallbackInv /\ [Next]_vars => CallbackInv'
<1> SUFFICES ASSUME CallbackInv, [Next]_vars PROVE CallbackInv'
  OBVIOUS
<1>1. ASSUME NEW w \in Workers, ProcessJob(w) PROVE CallbackInv'
  <2>1. CASE \/ \E j \in Jobs : StartJob(w, j)
             \/ AskStatus(w) \/ NoteStatusRead(w) \/ TryAdopt(w) \/ Reread(w)
             \/ LookAtInstance(w) \/ LookAtAssignment(w) \/ LookAtRegistration(w)
             \/ DeleteOwned(w) \/ ReleaseAndReturn(w) \/ DetachVM(w) \/ KeepVM(w)
    BY <2>1, StartJobStep, AskStatusStep, NoteStatusReadStep, TryAdoptStep, RereadStep,
       LookAtInstanceStep, RunningSteps, DeleteSteps, ReleaseOwnedSteps,
       DetachVMStep, KeepVMStep
  <2>2. CASE \/ ResolveAttempt(w) \/ RecheckInstance(w) \/ SettleStockout(w)
             \/ ReleaseAndContinue(w) \/ Reschedule(w) \/ CheckCredential(w)
             \/ ReleaseStaleCredential(w) \/ ReserveSlot(w) \/ GenerateJIT(w)
    BY <2>2, ResolveAttemptStep, RecheckInstanceStep, SettleStockoutStep,
       ReleaseOwnedSteps, RescheduleStep, CheckCredentialStep, ReserveSlotStep,
       GenerateJITStep
  <2>3. CASE \/ StoreJIT(w) \/ ChangeAttempt(w) \/ Insert(w) \/ RecordOperation(w)
             \/ WaitForOperation(w) \/ ClearFailedAttempt(w) \/ FinishJob(w)
             \/ FinishPermanent(w)
    BY <2>3, StoreJITStep, ChangeAttemptStep, InsertStep, RecordOperationStep,
       WaitForOperationStep, ClearFailedAttemptStep, FinishJobStep, FinishPermanentStep
  <2>. QED BY <1>1, <2>1, <2>2, <2>3 DEF ProcessJob
<1>2. ASSUME NEW w \in Workers, Maintain(w) PROVE CallbackInv'
  BY <1>2, WebhookStep, AssignmentSteps, LookSteps, DeleteSteps, RowReleaseSteps,
     DeleteFinishStep, RowRegistrationSteps, RowDeferStep DEF Maintain
<1>3. ASSUME NEW w \in Workers, Fail(w) \/ Crash(w) PROVE CallbackInv'
  BY <1>3, FailureSteps
<1>4. ASSUME NEW j \in Jobs, LeaseRunsOut(j) PROVE CallbackInv'
  BY <1>4, LeaseRunsOutStep
<1>5. CASE Environment
  BY <1>5, EnvironmentStep
<1>6. CASE UNCHANGED vars
  <2>1. UNCHANGED <<storeVars, world>> /\ UNCHANGED wk
    BY <1>6 DEF vars
  <2>2. UNCHANGED <<jobs, runners, fleet, assignments, names, inst, run, ghJob, ranOn, astray, wk>>
    BY <2>1 DEF storeVars, world
  <2>3. WorldTyped' /\ Ages /\ [StoreNext]_storeVars /\ wk' \in [Workers -> WorkerRec]
    BY <2>2 DEF CallbackInv, TypeOK, WorldTyped, WorkerRec, Points, Ages, EverUp, Live,
                storeVars
  <2>4. (\A j \in Jobs : JobSound(j)') /\ \A g \in Gens : GenSound(g)'
    BY <2>2 DEF CallbackInv, CallbacksSound, JobSound, GenSound, RecordSound, Taken,
                Begun, Unused, Accepted,
                Active, Existing, EverUp, Live, Closed
  <2>5. \A u \in Workers : Undisturbed(u)
    BY <2>2 DEF Undisturbed, Calm, Settles
  <2>6. {} \in SUBSET Workers /\ \A u \in {} : WorkerSound(u, wk[u])'
    OBVIOUS
  <2>. QED BY <2>3, <2>4, <2>5, <2>6, StepHolds
<1>. QED BY <1>1, <1>2, <1>3, <1>4, <1>5, <1>6 DEF Next

\* The inductive invariant of the callbacks.
THEOREM CallbackInvariant == Spec => []CallbackInv
  BY CallbackInit, CallbackNext, PTL DEF Spec

\* The shape of what the callbacks and the environment keep.
THEOREM CallbacksTyped == Spec => []TypeOK
  BY CallbackInvariant, PTL DEF CallbackInv

\* Where the invariant follows a generation, it is in one zone.
LEMMA OneZone ==
  ASSUME CallbackInv, NEW g \in Gens \ astray
  PROVE  \E a : Existing(g) \subseteq {a}
<1>1. Existing(g) = Active(g) /\ Existing(g) \subseteq Taken(g)
  BY DEF Active, Existing, Taken, Begun, Accepted
<1>2. CASE g \in Live
  BY <1>1, <1>2, LiveOnce
<1>3. CASE g \notin Live
  BY <1>1, <1>3, LiveOnce
<1>. QED BY <1>2, <1>3

\* processJob never runs without its job's lease, whatever fails, crashes or is
\* delivered twice.
THEOREM LeaseIsHeld == Spec => []LeaseHeld
<1>1. CallbackInv => LeaseHeld
  BY Acting DEF LeaseHeld, Holding
<1>. QED BY <1>1, CallbackInvariant, PTL

\* What Compute runs or may still start, the ledger counts; the generations of
\* refused repetitions (lifecycle.go:466-484) are all that may be left out.
THEOREM NoVMLeaks == Spec => []NoLeakedVM
<1>1. CallbackInv => NoLeakedVM
  BY EachSound DEF NoLeakedVM, GenSound, Active
<1>. QED BY <1>1, CallbackInvariant, PTL

\* A generation exists in one zone at most, but for the same exception.
THEOREM GenerationExistsOnce == Spec => []OneVMPerGeneration
<1>1. ASSUME CallbackInv, NEW g \in Gens \ astray
      PROVE  Cardinality(Existing(g)) <= 1
  <2>1. \E a : Existing(g) \subseteq {a}
    BY <1>1, OneZone
  <2>2. PICK a : Existing(g) \subseteq {a}
    BY <2>1
  <2>3. Existing(g) = {} \/ Existing(g) = {a}
    BY <2>2
  <2>4. Cardinality(Existing(g)) \in {0, 1}
    BY <2>3, FS_EmptySet, FS_Singleton
  <2>. QED BY <2>4
<1>2. CallbackInv => OneVMPerGeneration
  BY <1>1 DEF OneVMPerGeneration
<1>. QED BY <1>2, CallbackInvariant, PTL

\* If no call that hits an accepted insert is refused, LIFECYCLE.md's promise holds:
\* no reservation ends while an insert of its generation is unresolved.
THEOREM ResolvedUnlessRefused ==
  ASSUME ~Doubtful
  PROVE  Spec => []ResolvedBeforeRelease
<1>1. CallbackInv => ResolvedBeforeRelease
  <2> SUFFICES ASSUME CallbackInv, NEW g \in Gens, NEW a \in Attempts,
                      inst[g][a] = "pending"
               PROVE  g \in Live
    BY DEF ResolvedBeforeRelease
  <2>1. astray = {}
    BY DEF CallbackInv, CallbacksSound
  <2>2. a \in Existing(g)
    BY DEF Existing
  <2>. QED BY <2>1, <2>2, EachSound DEF GenSound, Active
<1>. QED BY <1>1, CallbackInvariant, PTL

\* No webhook order, stale read or adoption makes a job terminal that GitHub has
\* not finished.
THEOREM DemandIsKept == Spec => []DemandNotLost
<1>1. CallbackInv => DemandNotLost
  BY EachSound DEF DemandNotLost, JobSound
<1>. QED BY <1>1, CallbackInvariant, PTL

\* An assignment is retired only when its job has finished.
THEOREM RetiredTruly == Spec => []RetiredEvidenceIsTrue
<1>1. CallbackInv => RetiredEvidenceIsTrue
  BY EvidenceIsTrue DEF RetiredEvidenceIsTrue
<1>. QED BY <1>1, CallbackInvariant, PTL

-----------------------------------------------------------------------------
\* The transactions the callbacks run are FleetStore's, with arguments it allows.
\* First what reads evidence.
LEMMA EvidenceWrites ==
  ASSUME CallbackInv, NEW g \in names, NEW x,
         CheckAssignment(g, x) \/ CapacityRegistration(g, x)
  PROVE  [StoreNext]_storeVars
<1>1. \/ UNCHANGED storeVars
      \/ assignments[g].job # NoJob /\ RecordAssignment(assignments[g].job, g, "completed")
  BY DEF CheckAssignment, CapacityRegistration
<1>2. g \in Gens /\ "completed" \in Statuses
  BY DEF CallbackInv, LedgerInv, StoreTypeOK, Statuses
<1>3. assignments[g].job # NoJob => assignments[g].job \in Jobs
  BY <1>2 DEF CallbackInv, LedgerInv, StoreTypeOK, AssignmentRec
<1>. QED BY <1>1, <1>2, <1>3 DEF StoreNext, UnleasedStep, Observation

\* processJob.
LEMMA ProcessJobWrites ==
  ASSUME CallbackInv, NEW w \in Workers, ProcessJob(w)
  PROVE  [StoreNext]_storeVars
<1> PICK j : j = wk[w].job
  OBVIOUS
<1>1. /\ wk[w] \in WorkerRec
      /\ wk[w].pc \in Leased => j \in Jobs /\ LeasedSound(w, wk[w], jobs[j])
  BY Acting
<1>2. CASE \/ AskStatus(w) \/ Reread(w) \/ LookAtInstance(w) \/ DeleteOwned(w)
           \/ ResolveAttempt(w) \/ RecheckInstance(w) \/ CheckCredential(w)
           \/ GenerateJIT(w) \/ Insert(w) \/ WaitForOperation(w)
           \/ LookAtRegistration(w)
  BY <1>2, Zenon DEF AskStatus, Reread, LookAtInstance, LookAtRegistration, DeleteOwned,
     ResolveAttempt, RecheckInstance, CheckCredential, GenerateJIT, Insert,
     WaitForOperation
<1>3. CASE \E i \in Jobs : StartJob(w, i)
  BY <1>3 DEF StartJob, StoreNext, LeasedStep
<1>4. CASE \/ TryAdopt(w) \/ ReleaseAndReturn(w) \/ DetachVM(w) \/ KeepVM(w)
           \/ SettleStockout(w) \/ ReleaseAndContinue(w) \/ ReleaseStaleCredential(w)
  <2>1. wk[w].pc \in Leased /\ wk[w].spare \in BOOLEAN
    BY <1>1, <1>4 DEF TryAdopt, ReleaseAndReturn, DetachVM, KeepVM, SettleStockout,
       ReleaseAndContinue, ReleaseStaleCredential, At, Leased, WorkerRec
  <2>2. \/ Adopt(j, w) \/ ReleaseOwned(j, w) \/ Detach(j, w, wk[w].spare)
        \/ SaveCreated(j, w) \/ ClearAttempt(j, w)
    BY <1>4, Zenon DEF TryAdopt, ReleaseAndReturn, DetachVM, KeepVM, SettleStockout,
       ReleaseAndContinue, ReleaseStaleCredential
  <2>. QED BY <1>1, <2>1, <2>2 DEF StoreNext, LeasedStep
<1>5. CASE \/ StoreJIT(w) \/ RecordOperation(w) \/ ClearFailedAttempt(w) \/ FinishJob(w)
  <2>1. wk[w].pc \in Leased
    BY <1>5 DEF StoreJIT, RecordOperation, ClearFailedAttempt, FinishJob, At, Leased
  <2>2. \/ SaveJIT(j, w) \/ SaveOperation(j, w) \/ ClearAttempt(j, w)
        \/ ReleaseLease(j, w) \/ UNCHANGED storeVars
    BY <1>5, Zenon DEF StoreJIT, RecordOperation, ClearFailedAttempt, FinishJob
  <2>. QED BY <1>1, <2>1, <2>2 DEF StoreNext, LeasedStep
<1>6. CASE NoteStatusRead(w)
  <2>1. wk[w].pc = "note" /\ wk[w].pc \in Leased /\ NoteStatus(j, w, wk[w].st)
    BY <1>6 DEF NoteStatusRead, At, Leased
  <2>2. wk[w].st \in Statuses \cup {"error"}
    BY <1>1, <2>1 DEF LeasedSound, StatusSound
  <2>. QED BY <1>1, <2>1, <2>2 DEF StoreNext, LeasedStep
<1>7. CASE Reschedule(w)
  <2>1. wk[w].pc = "due" /\ wk[w].pc \in Leased /\ SetDue(j, w, wk[w].st)
    BY <1>7 DEF Reschedule, At, Leased
  <2>2. wk[w].st \in {"queued", "in_progress"}
    BY <1>1, <2>1 DEF LeasedSound, StatusSound
  <2>. QED BY <1>1, <2>1, <2>2 DEF StoreNext, LeasedStep
<1>8. CASE ReserveSlot(w)
  <2>1. wk[w].pc = "reserve" /\ wk[w].pc \in Leased
    BY <1>8 DEF ReserveSlot, At, Leased
  <2>2. jobs[j].vm = NoGen
    BY <1>1, <2>1 DEF LeasedSound, CopySound, FreshCopy, Fresh
  <2>3. UNCHANGED storeVars \/ \E g \in Gens : Reserve(j, w, g)
    BY <1>8 DEF ReserveSlot
  <2>. QED BY <1>1, <2>1, <2>2, <2>3 DEF StoreNext, LeasedStep
<1>9. CASE ChangeAttempt(w)
  <2>1. wk[w].pc \in Leased
    BY <1>9 DEF ChangeAttempt, At, Leased
  <2>2. UNCHANGED storeVars \/ \E a \in Attempts : SaveAttempt(j, w, a)
    BY <1>9, Zenon DEF ChangeAttempt
  <2>. QED BY <1>1, <2>1, <2>2 DEF StoreNext, LeasedStep
<1>10. CASE LookAtAssignment(w)
  <2>1. wk[w].pc = "reg" /\ wk[w].pc \in Leased
    BY <1>10 DEF LookAtAssignment, At, Leased
  <2>2. wk[w].r.vm \in names
    BY <1>1, <2>1 DEF LeasedSound, CopySound, FreshCopy, Fresh, WithVM
  <2>3. \E reg : CapacityRegistration(wk[w].r.vm, reg)
    BY <1>10 DEF LookAtAssignment
  <2>. QED BY <2>2, <2>3, EvidenceWrites
<1>11. CASE FinishPermanent(w)
  <2>1. wk[w].pc = "park" /\ wk[w].pc \in Unleased /\ (Park(j) \/ UNCHANGED storeVars)
    BY <1>11 DEF FinishPermanent, At, Unleased
  <2>2. j \in Jobs
    BY <2>1, Unheld DEF UnleasedSound
  <2>. QED BY <2>1, <2>2 DEF StoreNext, UnleasedStep
<1>. QED BY <1>2, <1>3, <1>4, <1>5, <1>6, <1>7, <1>8, <1>9, <1>10, <1>11 DEF ProcessJob

\* The callbacks without a lease.
LEMMA MaintainWrites ==
  ASSUME CallbackInv, NEW w \in Workers, Maintain(w)
  PROVE  [StoreNext]_storeVars
<1> PICK j, g : j = wk[w].job /\ g = wk[w].gen
  OBVIOUS
<1>1. wk[w].pc \in Unleased =>
        /\ UnleasedSound(wk[w]) /\ wk[w].spare \in BOOLEAN
        /\ wk[w].pc # "park" => g \in names
  BY Unheld DEF UnleasedSound, WorkerRec
<1>2. CASE \E i \in Jobs, s \in Statuses : Webhook(w, i, s)
  BY <1>2, WebhookStep
<1>3. CASE \/ \E i \in Jobs : StartDelete(w, i)
           \/ \E h \in Gens : StartSweep(w, h) \/ StartReconcile(w, h)
           \/ RowLook(w) \/ RowRegistration(w) \/ DeleteVM(w)
  BY <1>3, Zenon DEF StartDelete, StartSweep, StartReconcile, RowLook, RowRegistration,
     DeleteVM
<1>4. CASE ObserveAssignment(w)
  <2>1. /\ wk[w].pc = "oasg" /\ wk[w].pc \in Unleased
        /\ RecordAssignment(j, g, wk[w].st) \/ UNCHANGED storeVars
    BY <1>4 DEF ObserveAssignment, At, Unleased
  <2>2. j \in Jobs /\ g \in names /\ wk[w].st \in Statuses
    BY <1>1, <2>1 DEF UnleasedSound
  <2>. QED BY <2>1, <2>2 DEF StoreNext, UnleasedStep, Observation
<1>5. CASE DeleteCheck(w) \/ RowAssignment(w)
  <2>1. /\ wk[w].pc \in {"dasg", "rreg"} /\ wk[w].pc \in Unleased
        /\ \E x : CheckAssignment(g, x) \/ CapacityRegistration(g, x)
    BY <1>5 DEF DeleteCheck, RowAssignment, At, Unleased
  <2>. QED BY <1>1, <2>1, EvidenceWrites
<1>6. CASE DeleteRelease(w) \/ RowRelease(w) \/ RowDefer(w)
  <2>1. /\ wk[w].pc \in {"drel", "rrel", "rdefer"} /\ wk[w].pc \in Unleased
        /\ ReleaseRunner(g) \/ DeferRunner(g, wk[w].spare)
    BY <1>6 DEF DeleteRelease, RowRelease, RowDefer, At, Unleased
  <2>. QED BY <1>1, <2>1 DEF StoreNext, UnleasedStep
<1>7. CASE DeleteFinish(w)
  <2>1. wk[w].pc = "dupd" /\ wk[w].pc \in Unleased /\ DeleteUpdate(j, g)
    BY <1>7 DEF DeleteFinish, At, Unleased
  <2>2. j \in Jobs /\ g \in names
    BY <1>1, <2>1 DEF UnleasedSound, Deleting
  <2>. QED BY <2>1, <2>2 DEF StoreNext, UnleasedStep
<1>. QED BY <1>2, <1>3, <1>4, <1>5, <1>6, <1>7 DEF Maintain

\* So every step is one the store allows, or none of it.
LEMMA StepWrites ==
  ASSUME CallbackInv, [Next]_vars
  PROVE  [StoreNext]_storeVars
<1>1. ASSUME NEW j \in Jobs, LeaseRunsOut(j) PROVE [StoreNext]_storeVars
  BY <1>1 DEF LeaseRunsOut, StoreNext, UnleasedStep
<1>2. ASSUME NEW w \in Workers, Fail(w) \/ Crash(w) PROVE [StoreNext]_storeVars
  BY <1>2 DEF Fail, Crash
<1>. QED BY <1>1, <1>2, ProcessJobWrites, MaintainWrites DEF Next, Environment, vars

\* Step by step, the callbacks implement the store: what its callers may ask for
\* is all they ask for.
THEOREM CallbacksImplementStore == Spec => ImplementsStore
<1>1. Init => StoreInit
  BY DEF Init
<1>2. CallbackInv /\ [Next]_vars => [StoreNext]_storeVars
  BY StepWrites
<1>. QED BY <1>1, <1>2, CallbackInvariant, PTL DEF Spec, ImplementsStore, StoreSpec

-----------------------------------------------------------------------------
\* A callback changes its own state only.
LEMMA OthersStay ==
  ASSUME CallbackInv, NEW u \in Workers, NEW w \in Workers, w # u,
         ProcessJob(u) \/ Maintain(u) \/ Fail(u) \/ Crash(u)
  PROVE  wk'[w] = wk[w]
<1>1. \A v : wk' = [wk EXCEPT ![u] = v] => wk'[w] = wk[w]
  BY DEF CallbackInv, TypeOK
<1>2. /\ \A pc : Goto(u, pc) => wk'[w] = wk[w]
      /\ Return(u) \/ Permanent(u) \/ Done(u) => wk'[w] = wk[w]
  BY <1>1 DEF CallbackInv, TypeOK, Goto, Return, Permanent, Become, Done
<1>3. \A v : Become(u, v) => wk'[w] = wk[w]
  BY <1>1 DEF Become
<1>4. \A v, r : Prepare(u, r, v) => wk'[w] = wk[w]
  BY <1>2, <1>3 DEF Prepare
<1>5. \A reg : DecideRunning(u, reg) \/ DecideRow(u, reg) => wk'[w] = wk[w]
  BY Zenon, <1>2, <1>3 DEF DecideRunning, DecideRow
<1>6. CASE Fail(u) \/ Crash(u)
  BY <1>2, <1>6 DEF Fail, Crash
<1>7. CASE Maintain(u)
  <2>1. CASE \/ \E j \in Jobs, s \in Statuses : Webhook(u, j, s)
             \/ ObserveAssignment(u)
             \/ \E j \in Jobs : StartDelete(u, j)
    BY <1>2, <1>3, <2>1 DEF Webhook, ObserveAssignment, StartDelete
  <2>2. CASE DeleteCheck(u) \/ DeleteVM(u) \/ DeleteRelease(u) \/ DeleteFinish(u)
    BY Zenon, <1>2, <1>3, <2>2 DEF DeleteCheck, DeleteVM, DeleteRelease, DeleteFinish
  <2>3. CASE \/ \E g \in Gens : StartSweep(u, g) \/ StartReconcile(u, g)
             \/ RowLook(u) \/ RowAssignment(u) \/ RowRegistration(u)
             \/ RowRelease(u) \/ RowDefer(u)
    BY <1>2, <1>3, <1>5, <2>3 DEF StartSweep, StartReconcile, RowLook, RowAssignment,
       RowRegistration, RowRelease, RowDefer
  <2>. QED BY <1>7, <2>1, <2>2, <2>3 DEF Maintain
<1>8. CASE ProcessJob(u)
  <2>1. CASE (\E j \in Jobs : StartJob(u, j)) \/ AskStatus(u) \/ NoteStatusRead(u)
    BY <1>3, <2>1, Zenon DEF StartJob, AskStatus, NoteStatusRead
  <2>2. CASE TryAdopt(u) \/ Reread(u)
    BY <1>3, <2>2, Zenon DEF TryAdopt, Reread
  <2>3. CASE LookAtInstance(u) \/ LookAtAssignment(u) \/ LookAtRegistration(u)
    BY Zenon, <1>2, <1>3, <1>5, <2>3
       DEF LookAtInstance, LookAtAssignment, LookAtRegistration
  <2>4. CASE \/ DeleteOwned(u) \/ ReleaseAndReturn(u) \/ DetachVM(u) \/ KeepVM(u)
             \/ ResolveAttempt(u) \/ RecheckInstance(u)
    BY Zenon, <1>2, <1>3, <2>4 DEF DeleteOwned, ReleaseAndReturn, DetachVM, KeepVM,
                            ResolveAttempt, RecheckInstance
  <2>5. CASE SettleStockout(u) \/ ReleaseAndContinue(u) \/ Reschedule(u)
    BY Zenon, <1>2, <1>3, <2>5 DEF SettleStockout, ReleaseAndContinue, Reschedule
  <2>6. CASE CheckCredential(u) \/ ReleaseStaleCredential(u) \/ ReserveSlot(u)
    BY Zenon, <1>2, <1>3, <1>4, <2>6 DEF CheckCredential, ReleaseStaleCredential,
                                         ReserveSlot
  <2>7. CASE GenerateJIT(u) \/ StoreJIT(u) \/ ChangeAttempt(u)
    BY Zenon, <1>2, <1>3, <2>7 DEF GenerateJIT, StoreJIT, ChangeAttempt
  <2>8. CASE Insert(u) \/ RecordOperation(u) \/ WaitForOperation(u)
    BY Zenon, <1>2, <1>3, <2>8 DEF Insert, RecordOperation, WaitForOperation
  <2>9. CASE ClearFailedAttempt(u) \/ FinishJob(u) \/ FinishPermanent(u)
    BY Zenon, <1>2, <1>3, <2>9 DEF ClearFailedAttempt, FinishJob, FinishPermanent
  <2>. QED BY <1>8, <2>1, <2>2, <2>3, <2>4, <2>5, <2>6, <2>7, <2>8, <2>9,
                                                                                    Zenon DEF ProcessJob
<1>. QED BY <1>6, <1>7, <1>8

\* The delete worker deletes no VM whose runner is executing a job.
THEOREM DeleteWorkerIsSafe == Spec => DeleteWorkerSparesJobs
<1>1. CallbackInv => \A w \in Workers : At(w, "ddel") => run[wk[w].gen] # "busy"
  BY Unheld DEF At, Unleased, UnleasedSound, Deleting
<1>2. CallbackInv /\ [Next]_vars =>
        [\A w \in Workers :
           At(w, "ddel") /\ wk'[w].pc = "drel" => run[wk[w].gen] # "busy"]_vars
  BY <1>1
<1>. QED BY <1>2, CallbackInvariant, PTL DEF Spec, DeleteWorkerSparesJobs
-----------------------------------------------------------------------------
\* The window between a callback's check of a running VM and its deletion.
Window == {"rest", "del", "delstop", "ddel", "rrest", "rdel"}
InWindow(v, g) == \/ v.pc \in {"rest", "del", "delstop"} /\ v.r.vm = g
                  \/ v.pc \in {"ddel", "rrest", "rdel"} /\ v.gen = g

\* A live assignment is answered with busy, whatever the registration says.
LEMMA LiveIsBusy ==
  ASSUME NEW g, AssignmentLive(g)
  PROVE  /\ \A active \in BOOLEAN : CheckAssignment(g, active) => active
         /\ \A reg : CapacityRegistration(g, reg) => reg = "busy"
<1>1. \A active \in BOOLEAN : CheckAssignment(g, active) => active
  BY DEF AssignmentLive, Assigned, CheckAssignment
<1>2. \A reg : CapacityRegistration(g, reg) => reg = "busy"
  BY <1>1 DEF AssignmentLive, CapacityRegistration
<1>. QED BY <1>1, <1>2

\* Where the local states lead that a callback takes next.
LEMMA PointsTaken ==
  ASSUME NEW v \in WorkerRec
  PROVE  /\ \A pc : Only(v, pc).pc = pc
         /\ \A pc, x : /\ [Only(v, pc) EXCEPT !.spare = x].pc = pc
                       /\ [Only(v, pc) EXCEPT !.last = x].pc = pc
                       /\ [Only(v, pc) EXCEPT !.perm = x].pc = pc
         /\ \A pc, r, x : [Only(v, pc) EXCEPT !.r = r, !.last = x].pc = pc
         /\ Gone(v).pc = "relgone"
         /\ \A r : /\ GateOf(r, v).pc \in {"unlease", "rel", "due"}
                   /\ Examine(r, v).pc \in {"unlease", "rel", "due", "look"}
                   /\ Credentialed(r, v).pc \in {"attempt", "jit"}
<1>1. /\ DOMAIN Idle = {"pc", "job", "gen", "r", "st", "last", "spare", "perm"}
      /\ DOMAIN v = {"pc", "job", "gen", "r", "st", "last", "spare", "perm"}
  BY DEF Idle, WorkerRec
<1>2. \A pc : /\ Only(v, pc).pc = pc
              /\ DOMAIN Only(v, pc) = DOMAIN Idle
  BY DEF Only, Idle
<1>3. /\ \A pc, x : /\ [Only(v, pc) EXCEPT !.spare = x].pc = pc
                    /\ [Only(v, pc) EXCEPT !.last = x].pc = pc
                    /\ [Only(v, pc) EXCEPT !.perm = x].pc = pc
      /\ \A pc, r, x : [Only(v, pc) EXCEPT !.r = r, !.last = x].pc = pc
  BY DEF Only, Idle
<1>4. Gone(v).pc = "relgone"
  BY DEF Gone, Only, Idle
<1>5. ASSUME NEW r
      PROVE  /\ GateOf(r, v).pc \in {"unlease", "rel", "due"}
             /\ Examine(r, v).pc \in {"unlease", "rel", "due", "look"}
             /\ Credentialed(r, v).pc \in {"attempt", "jit"}
  <2>1. Gate(r, v.st) \in {"unlease", "rel", "due"}
    BY DEF Gate
  <2>2. \A pc : [v EXCEPT !.r = r, !.pc = pc].pc = pc
    BY DEF WorkerRec
  <2>3. GateOf(r, v).pc = Gate(r, v.st)
    BY <1>3, <2>2 DEF GateOf
  <2>4. Credentialed(r, v).pc \in {"attempt", "jit"}
    BY <1>3 DEF Credentialed
  <2>. QED BY <2>1, <2>2, <2>3, <2>4 DEF Examine
<1>. QED BY <1>2, <1>3, <1>4, <1>5

\* Compute's answers to an insert.
LEMMA InsertAnswers ==
  ASSUME NEW w \in Workers, wk[w] \in WorkerRec, Insert(w)
  PROVE  \/ Become(w, Only(wk[w], "created"))
         \/ \E pc \in {"recop", "clear"}, s \in BOOLEAN : \E u :
              Answered(wk[w], pc, s, u) /\ Become(w, u)
<1> PICK g, a, op : g = wk[w].r.vm /\ a = wk[w].last /\ op = wk[w].r.op
  OBVIOUS
<1>1. CASE Become(w, Only(wk[w], "created"))
  BY <1>1
<1>2. CASE Become(w, [Only(wk[w], "recop") EXCEPT !.gen = g, !.last = a, !.r.op = op])
  <2>1. [Only(wk[w], "recop") EXCEPT !.gen = g, !.last = a, !.r.op = op]
          = [[Only(wk[w], "recop") EXCEPT !.gen = g, !.last = a] EXCEPT !.r.op = op]
    OBVIOUS
  <2>. QED BY <1>2, <2>1 DEF Answered
<1>3. ASSUME NEW p \in BOOLEAN,
             Become(w, [[Only(wk[w], "clear") EXCEPT !.gen = g, !.last = a] EXCEPT
                          !.perm = p, !.spare = g # NoGen /\ Accepted(g, a)])
      PROVE  \E s \in BOOLEAN : \E u : Answered(wk[w], "clear", s, u) /\ Become(w, u)
  <2>1. PICK s \in BOOLEAN : s = (g # NoGen /\ Accepted(g, a))
    BY DEF Accepted
  <2>. QED BY <1>3, <2>1 DEF Answered
<1>. QED BY Zenon, <1>1, <1>2, <1>3 DEF Insert

\* processJob enters the window by what it reads of the assignment, or to delete a
\* VM that stopped.
LEMMA ProcessJobEnters ==
  ASSUME CallbackInv, NEW w \in Workers, ProcessJob(w), wk'[w].pc \in Window
  PROVE  \/ LookAtInstance(w) /\ wk'[w] = [wk[w] EXCEPT !.pc = "delstop"]
            /\ Visible(wk[w].r.vm) \ UpIn(wk[w].r.vm) # {}
         \/ LookAtRegistration(w) /\ wk'[w] = [wk[w] EXCEPT !.pc = "del"]
         \/ \E reg : /\ CapacityRegistration(wk[w].r.vm, reg)
                     /\ reg # "busy"
                     /\ \E pc \in {"rest", "del"} : wk'[w] = [wk[w] EXCEPT !.pc = pc]
<1> DEFINE v == wk[w]
<1>1. v \in WorkerRec /\ wk \in [Workers -> WorkerRec]
  BY Acting DEF CallbackInv, TypeOK
<1>2. \A r : /\ GateOf(r, v).pc \in {"unlease", "rel", "due"}
             /\ Examine(r, v).pc \in {"unlease", "rel", "due", "look"}
             /\ Credentialed(r, v).pc \in {"attempt", "jit"}
  BY <1>1, PointsTaken
<1>3. /\ \A u : Become(w, u) => wk'[w] = u
      /\ \A pc : Goto(w, pc) => wk'[w] = [v EXCEPT !.pc = pc] /\ wk'[w].pc = pc
  BY <1>1 DEF Become, Goto, WorkerRec
<1>4. /\ Return(w) \/ Permanent(w) => wk'[w].pc = "unlease"
      /\ Done(w) => wk'[w].pc = "idle"
  <2>1. /\ Return(w) => wk'[w] = Only(v, "unlease")
        /\ Permanent(w) => wk'[w] = [Only(v, "unlease") EXCEPT !.perm = TRUE]
    BY Zenon, <1>3 DEF Return, Permanent
  <2>2. Done(w) => wk'[w] = Idle
    BY <1>1 DEF Done
  <2>3. /\ Only(v, "unlease").pc = "unlease" /\ Idle.pc = "idle"
        /\ [Only(v, "unlease") EXCEPT !.perm = TRUE].pc = "unlease"
    BY DEF Only, Idle
  <2>. QED BY <2>1, <2>2, <2>3
<1>5. \A pc : Become(w, Only(v, pc)) => wk'[w].pc = pc
  BY <1>3 DEF Only, Idle
<1>6. \A pc : Goto(w, pc) => wk'[w].pc = pc
  BY <1>3
<1>7. Become(w, Gone(v)) => wk'[w].pc = "relgone"
  <2>1. Gone(v).pc = "relgone"
    BY <1>1, PointsTaken
  <2>. QED BY Zenon, <1>3, <2>1
<1>8. \A r : /\ Become(w, GateOf(r, v)) => wk'[w].pc \in {"unlease", "rel", "due"}
             /\ Become(w, Examine(r, v)) => wk'[w].pc \in {"unlease", "rel", "due", "look"}
             /\ Become(w, Credentialed(r, v)) => wk'[w].pc \in {"attempt", "jit"}
  BY Zenon, <1>3, <1>2
<1>9. \A r : Prepare(w, r, v) => wk'[w].pc \in {"unlease", "reserve", "attempt", "jit"}
  BY <1>3, <1>4, <1>2 DEF Prepare, Only, Idle
<1>10. \A pc : [v EXCEPT !.pc = pc].pc = pc
  BY <1>1 DEF WorkerRec
<1>11. \A reg : DecideRunning(w, reg) /\ wk'[w].pc \in Window =>
        /\ wk'[w] = [v EXCEPT !.pc = "del"]
        /\ reg # "busy"
  <2> SUFFICES ASSUME NEW reg, DecideRunning(w, reg), wk'[w].pc \in Window
               PROVE  wk'[w] = [v EXCEPT !.pc = "del"] /\ reg # "busy"
    OBVIOUS
  <2>1. PICK expired \in BOOLEAN :
          \/ Reclaimable(reg, v.r.terminal, expired) /\ Goto(w, "del")
          \/ \E b : Become(w, [Only(v, "detach") EXCEPT !.spare = b])
          \/ Become(w, Only(v, "keep"))
    BY DEF DecideRunning
  <2>2. Reclaimable(reg, v.r.terminal, expired) /\ Goto(w, "del")
    BY <1>3, <2>1, <1>2 DEF Only, Idle, Window
  <2>. QED BY <1>3, <2>2 DEF Reclaimable
<1>12. CASE LookAtInstance(w)
  <2>1. \/ Return(w) \/ Goto(w, "reg") \/ Become(w, Gone(v)) \/ Goto(w, "resolve")
        \/ Become(w, GateOf(v.r, v))
        \/ Goto(w, "delstop") /\ Visible(v.r.vm) \ UpIn(v.r.vm) # {}
    BY <1>12 DEF LookAtInstance
  <2>2. Goto(w, "delstop") /\ Visible(v.r.vm) \ UpIn(v.r.vm) # {}
    BY <1>4, <2>1, <1>7, <1>8, <1>6 DEF Window
  <2>. QED BY <1>3, <1>12, <2>2
<1>13. CASE LookAtAssignment(w)
  <2>1. PICK reg : /\ CapacityRegistration(v.r.vm, reg)
                   /\ IF reg = "unassigned" THEN Goto(w, "rest") ELSE DecideRunning(w, reg)
    BY <1>13 DEF LookAtAssignment
  <2>. QED BY <1>3, <1>11, <2>1
<1>14. CASE LookAtRegistration(w)
  BY <1>11, <1>14 DEF LookAtRegistration
<1>15. CASE \/ \E j \in Jobs : StartJob(w, j)
           \/ AskStatus(w) \/ NoteStatusRead(w) \/ TryAdopt(w) \/ Reread(w)
  <2>1. CASE \E j \in Jobs : StartJob(w, j)
    <3>1. PICK j, pc : /\ pc \in {"note", "ask"}
                       /\ Become(w, [Idle EXCEPT !.pc = pc, !.job = j, !.st = "completed"])
      BY <2>1 DEF StartJob
    <3>. QED BY <1>3, <3>1 DEF Window, Idle
  <2>2. CASE AskStatus(w)
    BY <1>1, <1>3, <2>2 DEF AskStatus, Window, WorkerRec
  <2>3. CASE NoteStatusRead(w)
    <3>1. \E r : \/ Become(w, [v EXCEPT !.r = r, !.pc = "adopt"])
                 \/ Become(w, Examine(r, v))
      BY <2>3 DEF NoteStatusRead
    <3>2. \A r : [v EXCEPT !.r = r, !.pc = "adopt"].pc = "adopt"
      BY <1>1 DEF WorkerRec
    <3>. QED BY <1>1, <1>3, <3>1, <3>2, <1>2 DEF Only, Idle, Gone, Window
  <2>4. CASE TryAdopt(w)
    BY <1>1, <1>3, <1>10, <2>4, <1>2 DEF Only, Idle, Gone, TryAdopt, Window
  <2>5. CASE Reread(w)
    BY <1>1, <1>3, <2>5, <1>2 DEF Only, Idle, Gone, Reread, Window
  <2>. QED BY <1>15, <2>1, <2>2, <2>3, <2>4, <2>5
<1>16. CASE \/ DeleteOwned(w) \/ ReleaseAndReturn(w) \/ DetachVM(w) \/ KeepVM(w)
            \/ ResolveAttempt(w) \/ RecheckInstance(w) \/ SettleStockout(w)
            \/ ReleaseAndContinue(w)
  <2>1. CASE DeleteOwned(w) \/ ReleaseAndReturn(w) \/ DetachVM(w) \/ KeepVM(w)
    BY <1>4, <2>1, <1>5, <1>7, Zenon
       DEF DeleteOwned, ReleaseAndReturn, DetachVM, KeepVM, Window
  <2>2. CASE ResolveAttempt(w)
    <3>1. \/ Become(w, GateOf(v.r, v))
          \/ \E b : Become(w, [v EXCEPT !.pc = "recheck", !.spare = b])
      BY <2>2 DEF ResolveAttempt
    <3>2. \A b : [v EXCEPT !.pc = "recheck", !.spare = b].pc = "recheck"
      BY <1>1 DEF WorkerRec
    <3>. QED BY <1>1, <1>3, <3>1, <3>2, <1>2 DEF Only, Idle, Gone, Window
  <2>3. CASE RecheckInstance(w)
    <3>1. [v EXCEPT !.spare = FALSE, !.pc = "settle"].pc = "settle"
      BY <1>1 DEF WorkerRec
    <3>2. \/ Return(w) \/ Become(w, [v EXCEPT !.spare = FALSE, !.pc = "settle"])
          \/ Become(w, Gone(v))
      BY <2>3, Zenon DEF RecheckInstance
    <3>3. Become(w, [v EXCEPT !.spare = FALSE, !.pc = "settle"]) => wk'[w].pc = "settle"
      BY Zenon, <1>3, <3>1
    <3>. QED BY <1>4, <3>2, <3>3, <1>7 DEF Window
  <2>4. CASE SettleStockout(w) \/ ReleaseAndContinue(w)
    <3>1. v.r.att \in Attempts \cup {0}
      BY <1>1 DEF WorkerRec, LocalRec
    <3>2. [v EXCEPT !.last = v.r.att] \in WorkerRec
      BY <1>1, <3>1 DEF WorkerRec
    <3>3. \E r : \/ Become(w, GateOf(r, [v EXCEPT !.last = v.r.att]))
                 \/ Become(w, GateOf(r, v))
      BY <2>4 DEF SettleStockout, ReleaseAndContinue
    <3>4. \A r : GateOf(r, [v EXCEPT !.last = v.r.att]).pc \in {"unlease", "rel", "due"}
      BY <3>2, PointsTaken
    <3>5. \A r : Become(w, GateOf(r, [v EXCEPT !.last = v.r.att])) =>
                   wk'[w].pc \in {"unlease", "rel", "due"}
      BY Zenon, <1>3, <3>4
    <3>. QED BY <1>8, <3>3, <3>5 DEF Window
  <2>. QED BY <1>16, <2>1, <2>2, <2>3, <2>4
<1>17. CASE \/ Reschedule(w) \/ CheckCredential(w) \/ ReleaseStaleCredential(w)
            \/ ReserveSlot(w) \/ GenerateJIT(w) \/ StoreJIT(w) \/ ChangeAttempt(w)
  <2>1. CASE Reschedule(w)
    <3>1. Goto(w, "plan") \/ Become(w, Only(v, "rel")) \/ Return(w)
      BY <2>1, Zenon DEF Reschedule
    <3>. QED BY <1>6, <1>4, <1>5, <3>1 DEF Window
  <2>2. CASE CheckCredential(w) \/ ReleaseStaleCredential(w)
    <3>1. (\E r : Prepare(w, r, v)) \/ Goto(w, "reljit")
      BY <2>2, Zenon DEF CheckCredential, ReleaseStaleCredential
    <3>. QED BY <1>6, <1>9, <3>1 DEF Window
  <2>3. CASE ReserveSlot(w) \/ StoreJIT(w)
    BY <1>1, <1>3, <1>4, <2>3, <1>2 DEF Only, Idle, Gone, ReserveSlot, StoreJIT, Window
  <2>4. CASE GenerateJIT(w)
    BY <1>1, <1>3, <2>4 DEF GenerateJIT, WorkerRec, Window
  <2>5. CASE ChangeAttempt(w)
    <3>1. \/ Return(w)
          \/ \E r, a : Become(w, [v EXCEPT !.r = r, !.last = a, !.pc = "insert"])
      BY <2>5 DEF ChangeAttempt
    <3>2. \A r, a : [v EXCEPT !.r = r, !.last = a, !.pc = "insert"].pc = "insert"
      BY <1>1 DEF WorkerRec
    <3>. QED BY <1>3, <1>4, <3>1, <3>2 DEF Window
  <2>. QED BY <1>17, <2>1, <2>2, <2>3, <2>4, <2>5
<1>18. CASE \/ Insert(w) \/ RecordOperation(w) \/ WaitForOperation(w)
            \/ ClearFailedAttempt(w) \/ FinishJob(w) \/ FinishPermanent(w)
  <2>1. CASE Insert(w)
    <3>1. \/ Become(w, Only(v, "created"))
          \/ \E pc \in {"recop", "clear"}, s \in BOOLEAN : \E u :
               Answered(v, pc, s, u) /\ Become(w, u)
      BY <1>1, <2>1, InsertAnswers
    <3>2. \A pc \in {"recop", "clear"}, s \in BOOLEAN : \A u :
            Answered(v, pc, s, u) => u.pc = pc
      BY <1>1, AnsweredFields DEF Points, Leased
    <3>. QED BY <1>3, <1>5, <3>1, <3>2 DEF Window
  <2>2. CASE RecordOperation(w)
    <3>1. \/ Become(w, [v EXCEPT !.pc = "wait", !.r.op = FALSE])
          \/ \E b : Become(w, [v EXCEPT !.pc = "clear", !.spare = b])
      BY <2>2, Zenon DEF RecordOperation
    <3>2. /\ [v EXCEPT !.pc = "wait", !.r.op = FALSE].pc = "wait"
          /\ \A b : [v EXCEPT !.pc = "clear", !.spare = b].pc = "clear"
      BY <1>1 DEF WorkerRec, LocalRec
    <3>3. \A b : Become(w, [v EXCEPT !.pc = "clear", !.spare = b]) => wk'[w].pc = "clear"
      BY <1>3, <3>2, Zenon
    <3>4. Become(w, [v EXCEPT !.pc = "wait", !.r.op = FALSE]) => wk'[w].pc = "wait"
      BY <1>3, <3>2, Zenon
    <3>. QED BY <3>1, <3>3, <3>4 DEF Window
  <2>3. CASE WaitForOperation(w)
    <3>1. \/ Become(w, Only(v, "created"))
          \/ \E b : Become(w, [v EXCEPT !.perm = b, !.pc = "clear"])
      BY <2>3, Zenon DEF WaitForOperation
    <3>2. \A b : [v EXCEPT !.perm = b, !.pc = "clear"].pc = "clear"
      BY <1>1 DEF WorkerRec
    <3>3. \A b : Become(w, [v EXCEPT !.perm = b, !.pc = "clear"]) => wk'[w].pc = "clear"
      BY <1>3, <3>2, Zenon
    <3>. QED BY <1>5, <3>1, <3>3 DEF Window
  <2>4. CASE ClearFailedAttempt(w)
    <3>1. \/ Permanent(w)
          \/ \E r, a : Become(w, [Only(v, "attempt") EXCEPT !.r = r, !.last = a])
      BY <2>4, Zenon DEF ClearFailedAttempt
    <3>2. \A r, a : [Only(v, "attempt") EXCEPT !.r = r, !.last = a].pc = "attempt"
      BY <1>1, PointsTaken
    <3>3. ASSUME NEW r, NEW a, Become(w, [Only(v, "attempt") EXCEPT !.r = r, !.last = a])
          PROVE  wk'[w].pc = "attempt"
      <4>1. PICK u : u = [Only(v, "attempt") EXCEPT !.r = r, !.last = a]
        OBVIOUS
      <4>2. u.pc = "attempt"
        BY <3>2, <4>1
      <4>3. Become(w, u)
        BY Zenon, <3>3, <4>1
      <4>. QED BY Zenon, <1>3, <4>2, <4>3
    <3>. QED BY <1>4, <3>1, <3>3 DEF Window
  <2>5. CASE FinishJob(w) \/ FinishPermanent(w)
    <3>1. \A j : [Idle EXCEPT !.pc = "park", !.job = j].pc = "park"
      BY DEF Idle
    <3>. QED BY <1>3, <1>4, <2>5, <3>1 DEF FinishJob, FinishPermanent, Window
  <2>. QED BY <1>18, <2>1, <2>2, <2>3, <2>4, <2>5
<1>. QED BY Zenon, <1>12, <1>13, <1>14, <1>15, <1>16, <1>17, <1>18 DEF ProcessJob

\* The delete worker enters it by what it reads of the assignment; the sweep and the
\* reconciliation also to delete a VM that stopped.
LEMMA MaintainEnters ==
  ASSUME CallbackInv, NEW w \in Workers, Maintain(w), wk'[w].pc \in Window
  PROVE  \/ /\ CheckAssignment(wk[w].gen, FALSE)
            /\ wk'[w] = [wk[w] EXCEPT !.pc = "ddel"]
         \/ /\ Visible(wk[w].gen) \ UpIn(wk[w].gen) # {}
            /\ wk'[w] = [wk[w] EXCEPT !.pc = "rdel"]
         \/ /\ RowRegistration(w)
            /\ wk'[w] = [wk[w] EXCEPT !.pc = "rdel"]
         \/ \E reg : /\ CapacityRegistration(wk[w].gen, reg)
                     /\ reg # "busy"
                     /\ \E pc \in {"rrest", "rdel"} : wk'[w] = [wk[w] EXCEPT !.pc = pc]
         \/ \E g \in Gens, a \in Attempts :
              /\ Visible(g) \ UpIn(g) # {}
              /\ wk'[w] = [Idle EXCEPT !.pc = "rdel", !.gen = g, !.last = a]
<1> DEFINE v == wk[w]
<1>0. v \in WorkerRec /\ wk \in [Workers -> WorkerRec]
  BY Acting DEF CallbackInv, TypeOK
<1>1. /\ \A u : Become(w, u) => wk'[w] = u
      /\ \A pc : Goto(w, pc) => wk'[w] = [v EXCEPT !.pc = pc]
  BY <1>0 DEF Become, Goto
<1>2. \A pc : Goto(w, pc) => wk'[w].pc = pc
  BY <1>0 DEF Goto, WorkerRec
<1>3. Done(w) => wk'[w].pc = "idle"
  BY <1>0 DEF Done, Idle
<1>4. \A reg : DecideRow(w, reg) /\ wk'[w].pc \in Window =>
        wk'[w] = [v EXCEPT !.pc = "rdel"] /\ reg # "busy"
  <2> SUFFICES ASSUME NEW reg, DecideRow(w, reg), wk'[w].pc \in Window
               PROVE  wk'[w] = [v EXCEPT !.pc = "rdel"] /\ reg # "busy"
    OBVIOUS
  <2>1. PICK expired \in BOOLEAN :
          \/ Reclaimable(reg, v.r.terminal, expired) /\ Become(w, [v EXCEPT !.pc = "rdel"])
          \/ \E b : Become(w, [v EXCEPT !.pc = "rdefer", !.spare = b])
    BY DEF DecideRow
  <2>2. \A b : [v EXCEPT !.pc = "rdefer", !.spare = b].pc = "rdefer"
    BY <1>0 DEF WorkerRec
  <2>3. \A b : Become(w, [v EXCEPT !.pc = "rdefer", !.spare = b]) => wk'[w].pc = "rdefer"
    BY <1>1, <2>2, Zenon
  <2>4. Reclaimable(reg, v.r.terminal, expired) /\ Become(w, [v EXCEPT !.pc = "rdel"])
    BY <2>1, <2>3 DEF Window
  <2>. QED BY <1>1, <2>4 DEF Reclaimable
<1>5. CASE \/ \E j \in Jobs, s \in Statuses : Webhook(w, j, s)
           \/ ObserveAssignment(w) \/ \E j \in Jobs : StartDelete(w, j)
  <2>1. CASE \E j \in Jobs, s \in Statuses : Webhook(w, j, s)
    <3>1. CASE v.pc = "idle" /\ wk' = wk
      BY <3>1 DEF Window
    <3>2. CASE \E j, g, s : wk' = [wk EXCEPT ![w] = [Idle EXCEPT !.pc = "oasg", !.job = j,
                                                     !.gen = g, !.st = s]]
      <4>1. PICK j, g, s : wk' = [wk EXCEPT ![w] = [Idle EXCEPT !.pc = "oasg", !.job = j,
                                                     !.gen = g, !.st = s]]
        BY <3>2
      <4>2. PICK u : u = [Idle EXCEPT !.pc = "oasg", !.job = j, !.gen = g, !.st = s]
        OBVIOUS
      <4>3. u.pc = "oasg"
        BY <4>2 DEF Idle
      <4>4. wk' = [wk EXCEPT ![w] = u]
        BY Zenon, <4>1, <4>2
      <4>. QED BY <1>0, <4>3, <4>4 DEF Window
    <3>3. \/ v.pc = "idle" /\ wk' = wk
          \/ \E j, g, s : Become(w, [Idle EXCEPT !.pc = "oasg", !.job = j, !.gen = g,
                                                 !.st = s])
      BY <2>1 DEF Webhook, At
    <3>. QED BY Zenon, <3>1, <3>2, <3>3 DEF Become
  <2>2. CASE ObserveAssignment(w)
    BY <1>3, <2>2 DEF ObserveAssignment, Window
  <2>3. CASE \E j \in Jobs : StartDelete(w, j)
    <3>1. \E j, g, u : /\ u = [Idle EXCEPT !.pc = "dasg", !.job = j, !.gen = g]
                       /\ Become(w, u)
      BY <2>3 DEF StartDelete
    <3>2. \A j, g, u : u = [Idle EXCEPT !.pc = "dasg", !.job = j, !.gen = g] => u.pc = "dasg"
      BY DEF Idle
    <3>3. \E u : u.pc = "dasg" /\ Become(w, u)
      BY <3>1, <3>2, Zenon
    <3>. QED BY <1>1, <3>3 DEF Window
  <2>. QED BY <1>5, <2>1, <2>2, <2>3
<1>6. CASE DeleteCheck(w)
  <2>1. PICK active \in BOOLEAN : /\ CheckAssignment(v.gen, active)
                                  /\ IF active THEN Done(w) ELSE Goto(w, "ddel")
    BY <1>6 DEF DeleteCheck
  <2>2. active = FALSE /\ Goto(w, "ddel")
    BY <1>3, <2>1 DEF Window
  <2>. QED BY <1>1, <2>1, <2>2
<1>7. CASE DeleteVM(w) \/ DeleteRelease(w) \/ DeleteFinish(w) \/ RowRelease(w) \/ RowDefer(w)
  <2>1. \/ \E pc \in {"drel", "rrel"} : Become(w, [v EXCEPT !.pc = pc, !.last = 0])
        \/ Goto(w, "dupd") \/ Done(w)
    BY <1>7, Zenon DEF DeleteVM, DeleteRelease, DeleteFinish, RowRelease, RowDefer
  <2>2. \A pc : [v EXCEPT !.pc = pc, !.last = 0].pc = pc
    BY <1>0 DEF WorkerRec
  <2>3. \A pc : Become(w, [v EXCEPT !.pc = pc, !.last = 0]) => wk'[w].pc = pc
    BY <1>1, <2>2, Zenon
  <2>. QED BY <1>2, <1>3, <2>1, <2>3 DEF Window
<1>8. CASE \E g \in Gens : StartSweep(w, g)
  <2>1. PICK g \in Gens : \E a \in Visible(g) \ UpIn(g) :
          Become(w, [Idle EXCEPT !.pc = "rdel", !.gen = g, !.last = a])
    BY <1>8 DEF StartSweep
  <2>2. Visible(g) \subseteq Attempts
    BY DEF Visible
  <2>. QED BY <1>1, <2>1, <2>2, Zenon
<1>9. CASE \E g \in Gens : StartReconcile(w, g)
  <2>1. \E g, b, u : /\ u = [Idle EXCEPT !.pc = "rlook", !.gen = g, !.r.terminal = b]
                     /\ Become(w, u)
    BY <1>9 DEF StartReconcile
  <2>2. \A g, b, u :
          u = [Idle EXCEPT !.pc = "rlook", !.gen = g, !.r.terminal = b] => u.pc = "rlook"
    BY DEF Idle
  <2>3. \E u : u.pc = "rlook" /\ Become(w, u)
    BY <2>1, <2>2, Zenon
  <2>. QED BY <1>1, <2>3 DEF Window
<1>10. CASE RowLook(w)
  <2>1. \/ Goto(w, "rreg") \/ Goto(w, "rrel")
        \/ Goto(w, "rdel") /\ Visible(v.gen) \ UpIn(v.gen) # {}
    BY <1>10 DEF RowLook
  <2>2. Goto(w, "rdel") /\ Visible(v.gen) \ UpIn(v.gen) # {}
    BY <1>2, <2>1 DEF Window
  <2>. QED BY <1>1, <2>2
<1>11. CASE RowAssignment(w)
  <2>1. PICK reg : /\ CapacityRegistration(v.gen, reg)
                   /\ IF reg = "unassigned" THEN Goto(w, "rrest") ELSE DecideRow(w, reg)
    BY <1>11 DEF RowAssignment
  <2>. QED BY <1>1, <1>4, <2>1
<1>12. CASE RowRegistration(w)
  BY <1>4, <1>12 DEF RowRegistration
<1>. QED BY Zenon, <1>5, <1>6, <1>7, <1>8, <1>9, <1>10, <1>11, <1>12 DEF Maintain

\* While a live assignment is on record of a running VM nobody enters its window.
LEMMA WindowCloses ==
  ASSUME CallbackInv, NEW u \in Workers, ProcessJob(u) \/ Maintain(u) \/ Fail(u) \/ Crash(u),
         NEW g \in Gens \ astray, AssignmentLive(g), UpIn(g) # {}, InWindow(wk'[u], g)
  PROVE  InWindow(wk[u], g)
<1> DEFINE v == wk[u]
<1>1. v \in WorkerRec /\ wk \in [Workers -> WorkerRec]
  BY Acting DEF CallbackInv, TypeOK
<1>2. wk'[u].pc \in Window
  BY DEF InWindow, Window
<1>3. Visible(g) \ UpIn(g) = {}
  BY OneZone DEF Existing, Visible, UpIn
<1>4. ~ CheckAssignment(g, FALSE) /\ \A reg : CapacityRegistration(g, reg) => reg = "busy"
  BY LiveIsBusy
<1>5. \A pc : wk'[u] = [v EXCEPT !.pc = pc] => /\ wk'[u].r = v.r /\ wk'[u].gen = v.gen
                                               /\ wk'[u].pc = pc
  BY <1>1 DEF WorkerRec
<1>6. CASE ProcessJob(u)
  <2>1. ASSUME NEW pc \in {"rest", "del", "delstop"}, wk'[u] = [v EXCEPT !.pc = pc]
        PROVE  v.r.vm = g
    BY <1>5, <2>1 DEF InWindow
  <2>2. CASE LookAtRegistration(u) /\ wk'[u] = [v EXCEPT !.pc = "del"]
    BY <2>1, <2>2 DEF LookAtRegistration, At, InWindow
  <2>3. ~ (Visible(v.r.vm) \ UpIn(v.r.vm) # {} /\ wk'[u] = [v EXCEPT !.pc = "delstop"])
    BY <1>3, <2>1
  <2>4. ~ \E reg : /\ CapacityRegistration(v.r.vm, reg) /\ reg # "busy"
                   /\ \E pc \in {"rest", "del"} : wk'[u] = [v EXCEPT !.pc = pc]
    BY <1>4, <2>1
  <2>. QED BY <1>2, <1>6, <2>2, <2>3, <2>4, ProcessJobEnters
<1>7. CASE Maintain(u)
  <2>1. ASSUME NEW pc \in {"ddel", "rrest", "rdel"}, wk'[u] = [v EXCEPT !.pc = pc]
        PROVE  v.gen = g
    BY <1>5, <2>1 DEF InWindow
  <2>2. CASE RowRegistration(u) /\ wk'[u] = [v EXCEPT !.pc = "rdel"]
    BY <2>1, <2>2 DEF RowRegistration, At, InWindow
  <2>3. ~ (Visible(v.gen) \ UpIn(v.gen) # {} /\ wk'[u] = [v EXCEPT !.pc = "rdel"])
    BY <1>3, <2>1
  <2>4. ~ \E reg : /\ CapacityRegistration(v.gen, reg) /\ reg # "busy"
                   /\ \E pc \in {"rrest", "rdel"} : wk'[u] = [v EXCEPT !.pc = pc]
    BY <1>4, <2>1
  <2>5. ~ (CheckAssignment(v.gen, FALSE) /\ wk'[u] = [v EXCEPT !.pc = "ddel"])
    BY <1>4, <2>1
  <2>6. ~ \E h \in Gens, a \in Attempts :
            /\ Visible(h) \ UpIn(h) # {}
            /\ wk'[u] = [Idle EXCEPT !.pc = "rdel", !.gen = h, !.last = a]
    <3>1. \A h, a : /\ [Idle EXCEPT !.pc = "rdel", !.gen = h, !.last = a].gen = h
                    /\ [Idle EXCEPT !.pc = "rdel", !.gen = h, !.last = a].pc = "rdel"
      BY DEF Idle
    <3>. QED BY <1>3, <3>1 DEF InWindow
  <2>. QED BY <1>2, <1>7, <2>2, <2>3, <2>4, <2>5, <2>6, MaintainEnters
<1>8. ~ Fail(u) /\ ~ Crash(u)
  <2>1. Crash(u) => wk'[u].pc = "idle"
    BY <1>1 DEF Crash, Done, Idle
  <2>2. Fail(u) => wk'[u].pc = "unlease"
    <3>1. Only(v, "unlease").pc = "unlease"
      BY DEF Only, Idle
    <3>. QED BY <1>1, <3>1 DEF Fail, Return, Become
  <2>. QED BY <1>2, <2>1, <2>2 DEF Window
<1>. QED BY <1>6, <1>7, <1>8

\* A running VM is deleted from inside its window only.
LEMMA DeletedFromWindow ==
  ASSUME CallbackInv, Next, NEW g \in Gens, NEW a \in UpIn(g), inst'[g][a] = "gone"
  PROVE  \E w \in Workers : InWindow(wk[w], g)
<1>1. /\ inst \in [Gens -> [Attempts -> InstStates]] /\ a \in Attempts
      /\ inst[g][a] = "up" /\ inst' # inst
  BY DEF CallbackInv, TypeOK, UpIn
<1>2. ASSUME NEW h, NEW zones, DeleteInstance(h, zones)
      PROVE  h = g
  <2>1. PICK b : inst' = [inst EXCEPT ![h][b] = "gone"]
    BY <1>1, <1>2 DEF DeleteInstance
  <2>. QED BY <1>1, <2>1
<1>3. ~ Environment
  <2> SUFFICES ASSUME Environment PROVE FALSE
    OBVIOUS
  <2>1. PICK h, b, s : /\ inst' = [inst EXCEPT ![h][b] = s] /\ s # "gone"
    BY <1>1 DEF Environment, GitHubQueues, GitHubFinishes, GitHubReplays, GitHubAssigns,
       OperationSettles, VMStops, RunnerComesOnline
  <2>. QED BY <1>1, <2>1
<1>4. PICK w \in Workers : ProcessJob(w) \/ Maintain(w)
  BY <1>1, <1>3 DEF Next, Fail, Crash, LeaseRunsOut, world
<1>5. CASE DeleteOwned(w)
  BY <1>2, <1>5 DEF DeleteOwned, At, InWindow
<1>6. CASE DeleteVM(w)
  BY <1>2, <1>6 DEF DeleteVM, At, InWindow
<1>7. CASE Insert(w)
  <2>1. \E h, b : inst' = [inst EXCEPT ![h][b] = "pending"]
    BY <1>1, <1>7, Zenon DEF Insert
  <2>. QED BY <1>1, <2>1
<1>8. CASE ProcessJob(w) /\ ~ DeleteOwned(w) /\ ~ Insert(w)
  BY Zenon, <1>1, <1>8 DEF ProcessJob, StartJob, AskStatus, NoteStatusRead, TryAdopt,
     Reread, LookAtInstance, LookAtAssignment, LookAtRegistration, ReleaseAndReturn,
     DetachVM, KeepVM, ResolveAttempt, RecheckInstance, SettleStockout,
     ReleaseAndContinue, Reschedule, CheckCredential, ReleaseStaleCredential,
     ReserveSlot, GenerateJIT, StoreJIT, ChangeAttempt, RecordOperation,
     WaitForOperation, ClearFailedAttempt, FinishJob, FinishPermanent, world
<1>9. CASE Maintain(w) /\ ~ DeleteVM(w)
  BY Zenon, <1>1, <1>9 DEF Maintain, Webhook, ObserveAssignment, StartDelete, DeleteCheck,
     DeleteRelease, DeleteFinish, StartSweep, StartReconcile, RowLook, RowAssignment,
     RowRegistration, RowRelease, RowDefer, world
<1>. QED BY <1>4, <1>5, <1>6, <1>7, <1>8, <1>9

\* Once a live assignment is on record of a running VM, no further callback gets to
\* where it may delete that VM, and only one that had read before can still do it.
THEOREM WindowOnlyCloses == Spec => EvidenceClosesWindow
<1>1. ASSUME CallbackInv, Next, NEW g \in Gens \ astray, AssignmentLive(g), UpIn(g) # {}
      PROVE  /\ PastCheck(g)' \subseteq PastCheck(g)
             /\ PastCheck(g) = {} => \A a \in UpIn(g) : inst'[g][a] # "gone"
  <2>1. ASSUME NEW w \in Workers, InWindow(wk'[w], g)
        PROVE  InWindow(wk[w], g)
    <3>1. CASE wk'[w] = wk[w]
      BY <2>1, <3>1
    <3>2. CASE wk'[w] # wk[w]
      <4>1. PICK u \in Workers : ProcessJob(u) \/ Maintain(u) \/ Fail(u) \/ Crash(u)
        BY <1>1, <3>2 DEF Next, Environment, LeaseRunsOut
      <4>2. u = w
        BY <1>1, <3>2, <4>1, OthersStay
      <4>. QED BY <1>1, <2>1, <4>1, <4>2, WindowCloses
    <3>. QED BY <3>1, <3>2
  <2>2. /\ PastCheck(g) = {w \in Workers : InWindow(wk[w], g)}
        /\ PastCheck(g)' = {w \in Workers : InWindow(wk'[w], g)}
    BY DEF PastCheck, InWindow
  <2>3. ASSUME NEW a \in UpIn(g), inst'[g][a] = "gone" PROVE PastCheck(g) # {}
    <3>1. \E w \in Workers : InWindow(wk[w], g)
      BY <1>1, <2>3, DeletedFromWindow
    <3>. QED BY <2>2, <3>1
  <2>. QED BY <2>1, <2>2, <2>3
<1>2. CallbackInv /\ [Next]_vars =>
        [\A g \in Gens \ astray :
           AssignmentLive(g) /\ UpIn(g) # {} =>
             /\ PastCheck(g)' \subseteq PastCheck(g)
             /\ PastCheck(g) = {} => \A a \in UpIn(g) : inst'[g][a] # "gone"]_vars
  BY <1>1
<1>. QED BY <1>2, CallbackInvariant, PTL DEF Spec, EvidenceClosesWindow
=============================================================================
