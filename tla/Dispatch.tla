------------------------------ MODULE Dispatch -------------------------------
(***************************************************************************)
(* How one job record gets a worker: the outbox marker on the record, the  *)
(* Cloud Tasks retry chain it stands for, the lease, and the reconciler    *)
(* that starts again whatever was lost (work_scheduling.go,                *)
(* durable_http.go).  What the worker does with the job is Lifecycle's     *)
(* subject; here a pass has an outcome and may change what is still due.   *)
(*                                                                         *)
(* Times are what matters, so every timestamp is a timer: the time left    *)
(* until it is reached, 0 when it lies in the past.  Tick lets one unit    *)
(* pass on all of them.  Names of durations are those of the code, their   *)
(* values are scaled down.                                                 *)
(***************************************************************************)
EXTENDS Integers, FiniteSets

CONSTANTS
  Tokens, NoToken,  \* dispatch tokens; one that nothing refers to is fresh again
  Callers,          \* requests that are enqueueing: webhooks, recreate, reconcile
  Attempt,          \* TaskTimeout + 5: how long one delivery may take
  RetryAttempts, RetryMaxBackoff, RetryMaxDuration,   \* TASK_RETRY_*
  Margin,           \* the margin of dispatchWindow
  CreateVmDelay, RecreateVmDelay,
  Soon, Long,       \* 2 minutes (also 1 minute) and 10 minutes (also 1 hour)
  MaxCalls,         \* bound: webhooks and recreate requests in a run
  Faults            \* bound: which of "crash", "send", "lost reply" a run explores

ASSUME DispatchAssumption ==
  /\ NoToken \notin Tokens
  /\ {Attempt, RetryAttempts, RetryMaxBackoff} \subseteq Nat \ {0}
  /\ {RetryMaxDuration, Margin, CreateVmDelay, RecreateVmDelay, Soon, Long,
      MaxCalls} \subseteq Nat
  /\ Faults \subseteq {"crash", "send", "lost reply"}

\* The margin covers a wait that the duration limit still lets through, which
\* dispatchWindow does not count (30 seconds within 60 as deployed).
ASSUME MarginAssumption == RetryMaxBackoff <= Margin

VARIABLES
  rec,     \* the job record
  task,    \* Cloud Tasks: token -> its task, and the delivery being handled
  call,    \* the request each caller slot is handling
  github,  \* what GitHub says of the job
  calls    \* external requests so far

vars == <<rec, task, call, github, calls>>

Max2(a, b) == IF a > b THEN a ELSE b
Before(n) == Max2(n - 1, 0)
Statuses == {"none", "queued", "in_progress", "completed"}

\* Mutant: the last attempt is not part of the chain.
DispatchWindowShort ==
  Max2(RetryAttempts * Attempt + (RetryAttempts - 1) * RetryMaxBackoff,
       RetryMaxDuration + Attempt) + Margin - Attempt

DispatchWindow ==
  Max2(RetryAttempts * Attempt + (RetryAttempts - 1) * RetryMaxBackoff,
       RetryMaxDuration + Attempt) + Margin

\* Mutant: the lease ends with the worker's deadline.
LeaseTimeShort == Attempt

\* TaskTimeout + 60, more than an attempt may take.
LeaseTime == Attempt + 1

(***************************************************************************)
(* The record.  until and token are the outbox marker, due is              *)
(* NextActionAt, lease and holder the lease.  prepareRecord runs on every  *)
(* write: NeedsReconcile, and no action before the marker ends.            *)
(***************************************************************************)
NewRecord == [status |-> "none", terminal |-> FALSE, failure |-> FALSE,
              vm |-> FALSE, pd |-> FALSE, due |-> 0, until |-> 0,
              token |-> NoToken, lease |-> 0, holder |-> NoToken]

\* Mutant: only demand keeps a record in the due query.
NeedsReconcileDemand(r) == r.status # "none" /\ ~r.failure /\ ~r.terminal

NeedsReconcile(r) ==
  /\ r.status # "none"
  /\ (~r.failure /\ ~r.terminal) \/ r.vm \/ r.pd

\* Mutant: the next action is put off by the marker, again on every write.
WriteLater(r) ==
  rec' = IF NeedsReconcile(r) THEN [r EXCEPT !.due = r.due + r.until] ELSE r

Write(r) ==
  rec' = IF NeedsReconcile(r) THEN [r EXCEPT !.due = Max2(r.due, r.until)] ELSE r

NoTask == [st |-> "gone", route |-> "create", wait |-> 0, tries |-> 0, age |-> 0,
           left |-> 0, out |-> "none"]
Handling == {"active", "working", "unlease", "finish"}
Running(t) == task[t].st \in Handling

NoCall == [pc |-> "idle", token |-> NoToken, route |-> "create", delay |-> 0]
Enqueue(c, delay) ==
  call' = [call EXCEPT ![c] = [NoCall EXCEPT !.pc = "mark", !.delay = delay]]
EndCall(c) == call' = [call EXCEPT ![c] = NoCall]

Init ==
  /\ rec = NewRecord
  /\ task = [t \in Tokens |-> NoTask]
  /\ call = [c \in Callers |-> NoCall]
  /\ github = "none"
  /\ calls = 0

-----------------------------------------------------------------------------
(***************************************************************************)
(* Requests that enqueue.  Each writes the record first and enqueues in a  *)
(* second transaction.                                                     *)
(***************************************************************************)

\* durableWebhook and observe.  A changed status ends the current dispatch.
Webhook(c, status, named) ==
  LET done == status = "completed"
      changed == rec.status # status \/ (~rec.terminal /\ done)
      r == [rec EXCEPT !.status = IF ~rec.terminal \/ done THEN status ELSE @,
                       !.terminal = @ \/ done,
                       !.pd = @ \/ (done /\ named)]
  IN /\ call[c].pc = "idle" /\ calls < MaxCalls
     /\ IF done THEN github = status ELSE github # "none"
     /\ status = "in_progress" => github # "queued"
     /\ Write(IF changed THEN [r EXCEPT !.due = 0, !.until = 0, !.token = NoToken]
              ELSE r)
     /\ Enqueue(c, IF status = "queued" THEN CreateVmDelay ELSE 0)
     /\ calls' = calls + 1
     /\ UNCHANGED <<task, github>>

\* durableRecreate, from the shutdown script of the VM the record owns.
Recreate(c) ==
  LET valid == ~rec.terminal /\ rec.vm IN
  /\ call[c].pc = "idle" /\ calls < MaxCalls
  /\ rec.status # "none"
  /\ Write(IF valid /\ rec.due > RecreateVmDelay
           THEN [rec EXCEPT !.due = RecreateVmDelay] ELSE rec)
  /\ IF valid THEN Enqueue(c, RecreateVmDelay) ELSE UNCHANGED call
  /\ calls' = calls + 1
  /\ UNCHANGED <<task, github>>

\* Mutant: a record whose dispatch was never answered is left alone.
ReconcileUnmarked(c) ==
  /\ call[c].pc = "idle"
  /\ NeedsReconcile(rec) /\ rec.due = 0 /\ rec.lease = 0 /\ rec.token = NoToken
  /\ Enqueue(c, 0)
  /\ UNCHANGED <<rec, task, github, calls>>

\* reconcile: the row was due when its page was read.
Reconcile(c) ==
  /\ call[c].pc = "idle"
  /\ NeedsReconcile(rec) /\ rec.due = 0 /\ rec.lease = 0
  /\ Enqueue(c, 0)
  /\ UNCHANGED <<rec, task, github, calls>>

(***************************************************************************)
(* enqueueJob.                                                             *)
(***************************************************************************)
Fresh(t) ==
  /\ task[t].st = "gone" /\ t \notin {rec.token, rec.holder}
  /\ \A c \in Callers : call[c].token # t

Dispatchable(delay) ==
  NeedsReconcile(rec) /\ rec.until = 0 /\ rec.lease = 0 /\ rec.due <= delay

MarkOutbox(c) ==
  LET delay == call[c].delay IN
  /\ call[c].pc = "mark"
  /\ IF Dispatchable(delay)
     THEN \E t \in Tokens :
            /\ Fresh(t)
            /\ Write([rec EXCEPT !.token = t, !.until = delay + DispatchWindow])
            /\ call' = [call EXCEPT ![c] =
                 [pc |-> "send", token |-> t, delay |-> delay,
                  route |-> IF rec.pd THEN "delete" ELSE "create"]]
     ELSE EndCall(c) /\ UNCHANGED rec
  /\ UNCHANGED <<task, github, calls>>

Created(c) ==
  task' = [task EXCEPT ![call[c].token] =
             [NoTask EXCEPT !.st = "queued", !.route = call[c].route,
                            !.wait = call[c].delay]]

Send(c) ==
  /\ call[c].pc = "send"
  /\ Created(c)
  /\ EndCall(c)
  /\ UNCHANGED <<rec, github, calls>>

\* CreateTask reports an error, and may have created the task nevertheless.
SendFails(c) ==
  /\ call[c].pc = "send"
  /\ \/ "send" \in Faults /\ UNCHANGED task
     \/ "lost reply" \in Faults /\ Created(c)
  /\ call' = [call EXCEPT ![c].pc = "undo"]
  /\ UNCHANGED <<rec, github, calls>>

Unmark(c) ==
  /\ call[c].pc = "undo"
  /\ Write(IF rec.token = call[c].token THEN [rec EXCEPT !.until = 0, !.due = Soon]
           ELSE rec)
  /\ EndCall(c)
  /\ UNCHANGED <<task, github, calls>>

CallerDies(c) ==
  /\ call[c].pc # "idle" /\ "crash" \in Faults
  /\ EndCall(c)
  /\ UNCHANGED <<rec, task, github, calls>>

-----------------------------------------------------------------------------
(***************************************************************************)
(* A delivery of task t: durableCreate or durableDelete.                   *)
(***************************************************************************)
Step(t, st) == task' = [task EXCEPT ![t].st = st]
Result(t, out) == task' = [task EXCEPT ![t].st = "finish", ![t].out = out]

\* Cloud Tasks retries until both of its limits are used up.
Retry(t) ==
  IF task[t].tries < RetryAttempts \/ task[t].age < RetryMaxDuration
  THEN \E wait \in 1 .. RetryMaxBackoff :
         task' = [task EXCEPT ![t].st = "queued", ![t].wait = wait,
                              ![t].left = 0, ![t].out = "none"]
  ELSE task' = [task EXCEPT ![t] = NoTask]

\* activeTask: an obsolete dispatch is acknowledged and dropped.
Deliver(t) ==
  /\ task[t].st = "queued" /\ task[t].wait = 0
  /\ task' = [task EXCEPT ![t] =
       IF rec.token # t THEN NoTask
       ELSE [task[t] EXCEPT !.st = "active", !.left = Attempt,
                            !.tries = IF @ < RetryAttempts THEN @ + 1 ELSE @]]
  /\ UNCHANGED <<rec, call, github, calls>>

Claim(t) ==
  /\ task[t].st = "active" /\ task[t].route = "create"
  /\ IF rec.lease > 0 THEN Result(t, "busy") /\ UNCHANGED rec
     ELSE Step(t, "working") /\ Write([rec EXCEPT !.lease = LeaseTime, !.holder = t])
  /\ UNCHANGED <<call, github, calls>>

\* processJob as a whole: the status GitHub reports is noted, unless asking for it
\* failed, the job may gain or lose a VM, the next action is put off, and the pass
\* ends in one of the ways finishTask tells apart.
Noted == IF rec.terminal THEN rec
         ELSE [rec EXCEPT !.status = github, !.terminal = github = "completed"]
Work(t) ==
  /\ task[t].st = "working" /\ rec.holder = t
  /\ \E out \in {"ok", "full", "later", "permanent", "transient"}, r \in {rec, Noted},
        vm \in BOOLEAN, due \in {rec.due, Soon, Long} :
       /\ r = Noted \/ out \in {"later", "transient"}
       /\ vm => rec.vm \/ r.status = "queued"
       /\ out \in {"full", "permanent"} => ~r.terminal
       /\ Write([r EXCEPT !.vm = vm, !.due = due])
       /\ task' = [task EXCEPT ![t].st = "unlease", ![t].out = out]
  /\ UNCHANGED <<call, github, calls>>

\* The lease is given back even if the pass ran into its deadline.
Unlease(t) ==
  /\ task[t].st = "unlease"
  /\ Write(IF rec.holder = t THEN [rec EXCEPT !.lease = 0, !.holder = NoToken]
           ELSE rec)
  /\ Step(t, "finish")
  /\ UNCHANGED <<call, github, calls>>

\* deleteRunner: still assigned, or the VM is gone with the reservation.
DeleteDone(t) ==
  /\ task[t].st = "active" /\ task[t].route = "delete"
  /\ \E vm \in BOOLEAN : (vm => rec.vm) /\ Write([rec EXCEPT !.pd = FALSE, !.vm = vm])
  /\ Result(t, "ok")
  /\ UNCHANGED <<call, github, calls>>

DeleteHeldBack(t) ==
  /\ task[t].st = "active" /\ task[t].route = "delete"
  /\ Result(t, "ok") \/ Retry(t)
  /\ UNCHANGED <<rec, call, github, calls>>

\* finishTask.  A transient error keeps the marker, since the task comes again; a
\* permanent one may give the reservation back.
FinishTask(t) ==
  LET o == task[t].out
      long == \/ o \in {"permanent", "later"}
              \/ o = "ok" /\ rec.status = "in_progress"
  IN /\ task[t].st = "finish"
     /\ IF o \in {"busy", "transient"} \/ rec.token # t THEN UNCHANGED rec
        ELSE \E vm \in {rec.vm} \cup {FALSE : x \in {o} \cap {"permanent"}} :
               Write([rec EXCEPT !.until = 0, !.token = NoToken, !.vm = vm,
                                 !.due = IF long THEN Long ELSE Soon,
                                 !.failure = @ \/ o = "permanent"])
     /\ IF o = "transient" THEN Retry(t) ELSE task' = [task EXCEPT ![t] = NoTask]
     /\ UNCHANGED <<call, github, calls>>

\* The instance dies, or its deadline passes, before it answers.
DeliveryDies(t) ==
  /\ Running(t) /\ "crash" \in Faults
  /\ Retry(t)
  /\ UNCHANGED <<rec, call, github, calls>>

Handle(t) ==
  Claim(t) \/ Work(t) \/ Unlease(t) \/ DeleteDone(t) \/ DeleteHeldBack(t) \/ FinishTask(t)

-----------------------------------------------------------------------------
GitHubProceeds ==
  /\ \/ github = "none" /\ github' = "queued"
     \/ github = "queued" /\ github' \in {"in_progress", "completed"}
     \/ github = "in_progress" /\ github' = "completed"
  /\ UNCHANGED <<rec, task, call, calls>>

\* Time passes.  A task that may be delivered is, a delivery ends within its
\* deadline, and an enqueue is a matter of seconds.
Tick ==
  /\ \A t \in Tokens : /\ task[t].st = "queued" => task[t].wait > 0
                       /\ Running(t) => task[t].left > 0
  /\ \A c \in Callers : call[c].pc \notin {"send", "undo"}
  /\ rec' = [rec EXCEPT !.due = Before(@), !.until = Before(@), !.lease = Before(@),
                        !.holder = IF rec.lease > 1 THEN @ ELSE NoToken]
  /\ task' = [t \in Tokens |->
       IF task[t].st = "gone" THEN task[t]
       ELSE [task[t] EXCEPT !.wait = Before(@), !.left = Before(@),
               !.age = IF task[t].tries > 0 /\ @ < RetryMaxDuration THEN @ + 1 ELSE @]]
  /\ UNCHANGED <<call, github, calls>>

Next ==
  \/ \E c \in Callers :
       \/ \E s \in Statuses \ {"none"}, named \in BOOLEAN : Webhook(c, s, named)
       \/ Recreate(c) \/ Reconcile(c)
       \/ MarkOutbox(c) \/ Send(c) \/ SendFails(c) \/ Unmark(c) \/ CallerDies(c)
  \/ \E t \in Tokens : Deliver(t) \/ Handle(t) \/ DeliveryDies(t)
  \/ GitHubProceeds
  \/ Tick

Spec == Init /\ [][Next]_vars

(***************************************************************************)
(* Fairness.  Cloud Scheduler calls reconcile every two minutes and Cloud  *)
(* Tasks delivers what is due; a request or delivery that is made again    *)
(* and again does not die, fail to send or fail to delete every time.      *)
(***************************************************************************)
Fairness ==
  /\ WF_vars(Tick)
  /\ \A t \in Tokens : WF_vars(Deliver(t)) /\ WF_vars(Handle(t)) /\ SF_vars(DeleteDone(t))
  /\ \A c \in Callers : /\ WF_vars(Reconcile(c)) /\ WF_vars(Unmark(c))
                        /\ SF_vars(MarkOutbox(c)) /\ SF_vars(Send(c))

FairSpec == Spec /\ Fairness

-----------------------------------------------------------------------------
(***************************************************************************)
(* Properties.                                                             *)
(***************************************************************************)
Timers == 0 .. Max2(CreateVmDelay, RecreateVmDelay) + DispatchWindow + Max2(Soon, Long)
Outcomes == {"none", "ok", "busy", "full", "later", "permanent", "transient"}

\* Every timer is bounded and every reference names a task.
DispatchTypeOK ==
  /\ rec \in [status : Statuses, terminal : BOOLEAN, failure : BOOLEAN, vm : BOOLEAN,
              pd : BOOLEAN, due : Timers, until : Timers, token : Tokens \cup {NoToken},
              lease : 0 .. LeaseTime, holder : Tokens \cup {NoToken}]
  /\ task \in [Tokens -> [st : {"gone", "queued"} \cup Handling,
                           route : {"create", "delete"}, wait : Timers,
                           tries : 0 .. RetryAttempts, age : 0 .. RetryMaxDuration,
                           left : 0 .. Attempt, out : Outcomes]]
  /\ call \in [Callers -> [pc : {"idle", "mark", "send", "undo"},
                            token : Tokens \cup {NoToken},
                            route : {"create", "delete"}, delay : Timers]]
  /\ github \in Statuses
  /\ calls \in 0 .. MaxCalls

\* The marker covers the whole retry chain of its task, the last delivery
\* included, so the reconciler cannot start a second chain beside it, as long as
\* a failed CreateTask means that there is no task (work_scheduling.go,
\* dispatchWindow).
MarkerOutlastsChain ==
  \A t \in Tokens : rec.token = t /\ task[t].st # "gone" => rec.until > 0

\* A worker that claimed the lease has it until it gives it back or dies; Lifecycle
\* lets a lease expire only when its holder is gone on the strength of this.
LeaseOutlastsWorker ==
  \A t \in Tokens : task[t].st \in {"working", "unlease"} => rec.holder = t

\* Unfinished demand, a VM or a pending deletion is on the record.
Outstanding ==
  /\ rec.status # "none"
  /\ (~rec.failure /\ ~rec.terminal) \/ rec.vm \/ rec.pd

\* As long as something is outstanding a worker comes back to it, whichever
\* marker, send, reply, delivery or lease was lost on the way.
DemandServed == Outstanding ~> (\E t \in Tokens : Running(t)) \/ ~Outstanding

\* The reported runner of a completed job is deleted in the end.
DeleteServed == rec.pd ~> ~rec.pd
=============================================================================
