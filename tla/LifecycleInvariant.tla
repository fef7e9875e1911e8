------------------------- MODULE LifecycleInvariant -------------------------
(***************************************************************************)
(* What is true between any two steps of the callbacks of Lifecycle: the   *)
(* inductive invariant from which LifecycleProofs derives its safety.      *)
(*                                                                         *)
(* A callback decides from what it read and acts several calls later.  The *)
(* invariant says, for each point of a pass, what its local copy still     *)
(* tells about the record, the ledger and Compute.                         *)
(***************************************************************************)
EXTENDS Lifecycle

\* Inserts of g that took effect or still may, those that may still run a VM, and
\* whether g ever had one.  Of a generation astray the invariant says nothing about
\* where its VMs are.  No insert of an unused generation has been accepted, but for
\* those that failed.
Begun(g) == {a \in Attempts : Accepted(g, a)}
Unused(g) == Begun(g) = {} /\ g \notin astray
Taken(g) == IF g \in astray THEN {} ELSE Begun(g)
Active(g) == IF g \in astray THEN {} ELSE Existing(g)
EverUp(g) == \E a \in Attempts : inst[g][a] \in {"up", "stopped", "gone"}

\* A record that lost its VM to a callback without the lease is out of play.
Closed(r) == r.failure \/ r.terminal

\* The record that owns a generation names the only attempt it can exist in,
\* and one that owns none has no attempt to resume, unless it is out of play.
RecordSound(r) ==
  /\ r.vm # NoGen => /\ Taken(r.vm) \subseteq {r.att}
                     /\ r.jit \/ Unused(r.vm)
                     /\ r.created => EverUp(r.vm)
  /\ r.vm = NoGen /\ (r.att # 0 \/ r.created) => Closed(r)

\* A pending delete names the runner of a finished job; GitHub's runner names
\* belong to generations that had a VM, and its JIT runners serve one job.
JobSound(j) ==
  /\ RecordSound(jobs[j])
  /\ jobs[j].seen => ghJob[j] # "none"
  /\ jobs[j].terminal => ghJob[j] = "completed"
  /\ jobs[j].pd # NoGen => /\ jobs[j].terminal
                           /\ EverUp(jobs[j].pd) /\ run[jobs[j].pd] = "gone"
  /\ ranOn[j] # NoGen => /\ EverUp(ranOn[j])
                         /\ ghJob[j] \in {"in_progress", "completed"}
                         /\ ghJob[j] = "completed" => run[ranOn[j]] = "gone"

\* A detached row is one whose VM was seen running; without a row there is no VM.
GenSound(g) ==
  /\ g \notin names => g \notin astray /\ \A a \in Attempts : inst[g][a] = "none"
  /\ g \notin Live => Active(g) = {}
  /\ g \in Live /\ runners[g].owner = NoJob =>
       EverUp(g) /\ Taken(g) \subseteq {runners[g].rec.att} /\ runners[g].rec.jit
  /\ run[g] \in {"online", "busy"} => EverUp(g)
  /\ assignments[g].done => /\ assignments[g].job \in Jobs
                            /\ ghJob[assignments[g].job] = "completed"

\* A refusal can hit an insert that Compute had accepted.
Doubtful == Faults \cap {"refuse", "exhaust"} # {}

-----------------------------------------------------------------------------
\* While the lease is held, the record loses its VM at most; it never gains one,
\* and the attempt and the credential change only under the lease.
FreshCopy(r, R) ==
  /\ R.vm \in {r.vm, NoGen}
  /\ R.vm # NoGen => R.att = r.att /\ R.jit = r.jit
  /\ r.vm # NoGen => /\ r.vm \in names
                     /\ R.vm = NoGen => Closed(R)
                     /\ r.vm \in Live => R.vm = r.vm
                     /\ r.jit \/ Unused(r.vm)

\* Where processJob's local copy r is as fresh as the lease makes it, and where
\* that copy names a VM.
Fresh == {"adopt", "look", "reg", "rest", "del", "delstop", "resolve", "recheck",
          "settle", "due", "plan", "reljit", "reserve", "jit", "attempt", "insert"}
WithVM == {"look", "reg", "rest", "del", "delstop", "resolve", "recheck",
           "settle", "reljit", "jit"}
\* Where the status read at the start still decides.
Judged == {"adopt", "reread", "look", "reg", "rest", "del", "delstop",
           "resolve", "recheck", "settle", "relgone", "due", "plan", "reljit"}

CopySound(v, R) ==
  /\ v.pc \in Fresh => FreshCopy(v.r, R)
  /\ v.pc \in WithVM => v.r.vm # NoGen
  /\ v.pc \in {"due", "plan", "reserve"} => ~Closed(v.r)
  /\ v.pc \in {"adopt", "reserve"} => v.r.vm = NoGen
  /\ v.pc \in {"adopt", "due", "plan", "reserve"} /\ v.r.vm = NoGen /\ ~Closed(v.r)
       => R.att = 0 /\ ~R.created
  /\ v.pc \in {"keep", "created", "recop", "wait", "clear", "savejit", "attempt",
               "insert"} /\ R.vm = NoGen => Closed(R)

\* The status a pass acts on: completed is what GitHub said.
StatusSound(v, R) ==
  /\ v.pc \in Judged \cup {"note"} => v.st \in Statuses \cup {"error"}
  /\ v.pc = "note" /\ v.st = "completed" => ghJob[v.job] = "completed"
  /\ v.pc \in {"adopt", "reread"} => v.st = "queued"
  /\ v.pc \in Judged /\ v.st = "completed" =>
       R.terminal /\ (v.pc \in Fresh => v.r.terminal)
  /\ v.pc \in {"due", "plan"} => v.st \in {"queued", "in_progress"}

\* What a pass knows of Compute when it deletes, releases, clears or inserts.
ComputeSound(v, R) ==
  /\ v.pc = "look" /\ v.r.created => EverUp(v.r.vm)
  /\ v.pc \in {"reg", "rest", "del", "delstop"} => EverUp(v.r.vm)
  /\ v.pc \in {"resolve", "recheck", "settle"} => v.r.att \in Attempts
  /\ v.pc = "reljit" => v.r.att = 0
  /\ v.pc \in {"recheck", "settle"} /\ R.vm # NoGen =>
       /\ inst[R.vm][R.att] # "pending"
       /\ v.spare \/ v.pc = "settle" => inst[R.vm][R.att] = "failed"
  /\ v.pc \in {"keep", "created", "detach"} /\ R.vm # NoGen => EverUp(R.vm)
  /\ v.pc \in {"rel", "relgone"} /\ R.vm # NoGen => Active(R.vm) = {}
  /\ v.pc = "jit" => ~v.r.jit
  /\ v.pc = "attempt" /\ R.vm # NoGen => R.jit
  /\ v.pc = "insert" =>
       /\ v.last \in Attempts
       /\ R.vm # NoGen => R.att = v.last /\ R.jit
       /\ v.r.vm # NoGen => /\ Taken(v.r.vm) \subseteq {v.last}
                            /\ R.vm = NoGen => EverUp(v.r.vm)
  /\ v.pc \in {"recop", "wait"} => v.gen \in names /\ v.last \in Attempts /\ ~v.spare
  /\ v.pc \in {"recop", "wait", "clear"} => 
       /\ R.vm \in {v.gen, NoGen}
       /\ R.vm # NoGen => R.att = v.last /\ R.jit
  /\ v.pc = "clear" =>
       /\ v.spare => v.gen \in names /\ v.last \in Attempts /\ Doubtful
       /\ R.vm # NoGen => v.last \in Attempts
       /\ R.vm # NoGen /\ Accepted(R.vm, v.last) => v.spare

LeasedSound(w, v, R) ==
  /\ v.job \in Jobs /\ R.lease = w /\ ghJob[v.job] # "none"
  /\ CopySound(v, R) /\ StatusSound(v, R) /\ ComputeSound(v, R)

\* Without a lease: the callback's generation had a VM, the delete worker's job
\* is over, the zone the sweep listed has a VM that stopped, and once the VM is
\* deleted the generation has no other.
Deleting == {"dasg", "ddel", "drel", "dupd"}
UnleasedSound(v) ==
  /\ v.pc \in Deleting \cup {"park", "oasg"} => v.job \in Jobs
  /\ v.pc # "park" =>
       /\ v.gen \in names /\ EverUp(v.gen)
       /\ v.last # 0 /\ v.gen \notin astray =>
            inst[v.gen][v.last] \in {"stopped", "gone"}
  /\ v.pc \in Deleting => jobs[v.job].terminal /\ run[v.gen] = "gone"
  /\ v.pc = "oasg" => /\ v.st \in Statuses
                      /\ v.st = "completed" => ghJob[v.job] = "completed"
  /\ v.pc \in {"drel", "dupd", "rrel"} /\ v.gen \in Live => Active(v.gen) = {}

WorkerSound(w, v) == /\ v.pc \in Leased => LeasedSound(w, v, jobs[v.job])
                     /\ v.pc \in Unleased => UnleasedSound(v)

\* No VM outside the ledger, none in two places, no lease, copy or evidence that
\* does not say what the next call takes it to say.
CallbacksSound ==
  /\ astray # {} => Doubtful
  /\ \A j \in Jobs : JobSound(j)
  /\ \A g \in Gens : GenSound(g)
  /\ \A w \in Workers : WorkerSound(w, wk[w])
=============================================================================
