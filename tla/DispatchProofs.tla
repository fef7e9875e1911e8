--------------------------- MODULE DispatchProofs ---------------------------
(***************************************************************************)
(* The safety of the dispatch of one job for any number of tokens and      *)
(* callers, any retry policy and any faults.                               *)
(*                                                                         *)
(* The timing argument is a budget: Remaining says how long the retry      *)
(* chain of a task may still take, every step of the chain spends from it, *)
(* and the marker on the record never has less.                            *)
(***************************************************************************)
EXTENDS Dispatch, TLAPS

\* The longest delay an enqueue is asked for, the longest a marker lasts, and the
\* longest time between the starts of two deliveries.
LongestDelay == Max2(CreateVmDelay, RecreateVmDelay)
LongestMarker == LongestDelay + DispatchWindow
Cycle == Attempt + RetryMaxBackoff

\* What the attempt limit allows after the n-th delivery, and what the duration
\* limit allows at an age.
ByAttempts(n) == (RetryAttempts - n) * Cycle
ByDuration(age) == IF age < RetryMaxDuration
                   THEN (RetryMaxDuration - age - 1) + Cycle ELSE 0

\* The longest the chain of a task may still take.
Coming(k) == IF k.tries < RetryAttempts THEN k.tries + 1 ELSE k.tries
Remaining(k) ==
  CASE k.st = "queued" /\ k.tries = 0 ->
         k.wait + Max2(Attempt + ByAttempts(1), ByDuration(0))
    [] k.st = "queued" /\ k.tries # 0 ->
         Max2(k.wait + Attempt + ByAttempts(Coming(k)), ByDuration(k.age))
    [] OTHER -> Max2(k.left + ByAttempts(k.tries), ByDuration(k.age))

RecType == [status : Statuses, terminal : BOOLEAN, failure : BOOLEAN, vm : BOOLEAN,
            pd : BOOLEAN, due : Timers, until : Timers, token : Tokens \cup {NoToken},
            lease : 0 .. LeaseTime, holder : Tokens \cup {NoToken}]
TaskType == [st : {"gone", "queued"} \cup Handling, route : {"create", "delete"},
             wait : Timers, tries : 0 .. RetryAttempts, age : 0 .. RetryMaxDuration,
             left : 0 .. Attempt, out : Outcomes]
CallType == [pc : {"idle", "mark", "send", "undo"}, token : Tokens \cup {NoToken},
             route : {"create", "delete"}, delay : Timers]

\* The age runs from the first delivery; a request that does not send has no token.
Sending == {"send", "undo"}
TaskSound(k) == /\ k.tries = 0 => k.age = 0
                /\ k.st \in Handling => k.tries > 0
CallSound(k) == /\ k.delay <= LongestDelay
                /\ k.pc \in Sending <=> k.token \in Tokens

\* What holds of types and lease whatever goes wrong.
LeaseInv ==
  /\ DispatchTypeOK
  /\ rec.until <= LongestMarker
  /\ \A t \in Tokens : TaskSound(task[t])
  /\ \A c \in Callers : CallSound(call[c])
  /\ \A t \in Tokens : task[t].st \in {"working", "unlease"} =>
       rec.holder = t /\ task[t].left < rec.lease

\* An enqueue that is not over has a token of its own and no task yet, and the
\* marker of that token is new.
SendSound(c) ==
  call[c].pc \in Sending =>
    /\ task[call[c].token].st = "gone"
    /\ \A d \in Callers \ {c} : call[d].token # call[c].token
    /\ call[c].pc = "send" /\ rec.token = call[c].token =>
         rec.until >= call[c].delay + DispatchWindow

\* The marker has more time than the chain of its task.
MarkerSuffices(t) ==
  rec.token = t /\ task[t].st # "gone" => Remaining(task[t]) < rec.until

ChainInv ==
  /\ LeaseInv
  /\ \A c \in Callers : SendSound(c)
  /\ \A t \in Tokens : MarkerSuffices(t)

-----------------------------------------------------------------------------
(***************************************************************************)
(* The durations.                                                          *)
(***************************************************************************)
\* What is left of the attempts shrinks by a cycle a delivery.
LEMMA AttemptBudget ==
  /\ \A n \in 0 .. RetryAttempts : ByAttempts(n) \in Nat
  /\ \A n \in 0 .. RetryAttempts - 1 : ByAttempts(n) = ByAttempts(n + 1) + Cycle
  /\ ByAttempts(RetryAttempts) = 0
<1>1. Cycle \in Nat /\ RetryAttempts \in Nat
  <2>1. Attempt \in Nat /\ RetryMaxBackoff \in Nat /\ RetryAttempts \in Nat
    BY DispatchAssumption
  <2>. QED BY <2>1 DEF Cycle
<1>2. \A m, c \in Nat : m * c \in Nat
  OBVIOUS
<1>3. \A m, c \in Int : m * c = (m - 1) * c + c
  OBVIOUS
<1>4. ASSUME NEW n \in 0 .. RetryAttempts PROVE ByAttempts(n) \in Nat
  <2>1. RetryAttempts - n \in Nat
    BY <1>1
  <2>. QED BY <1>1, <1>2, <2>1 DEF ByAttempts
<1>5. ASSUME NEW n \in 0 .. RetryAttempts - 1
      PROVE  ByAttempts(n) = ByAttempts(n + 1) + Cycle
  <2>1. /\ RetryAttempts - n \in Int /\ Cycle \in Int
        /\ RetryAttempts - (n + 1) = (RetryAttempts - n) - 1
    BY <1>1
  <2>2. (RetryAttempts - n) * Cycle = ((RetryAttempts - n) - 1) * Cycle + Cycle
    BY <1>3, <2>1
  <2>. QED BY <2>1, <2>2 DEF ByAttempts
<1>6. ByAttempts(RetryAttempts) = 0
  BY <1>1 DEF ByAttempts
<1>. QED BY <1>4, <1>5, <1>6

\* What is left of the duration shrinks with the age.
LEMMA DurationBudget ==
  /\ \A age \in 0 .. RetryMaxDuration : ByDuration(age) \in Nat
  /\ \A age \in 0 .. RetryMaxDuration - 1 :
       Cycle <= ByDuration(age) /\ ByDuration(age + 1) < ByDuration(age)
  /\ ByDuration(RetryMaxDuration) = 0
<1>1. /\ Attempt \in Nat \ {0} /\ RetryMaxBackoff \in Nat /\ RetryMaxDuration \in Nat
  BY DispatchAssumption
<1>. QED BY <1>1 DEF ByDuration, Cycle

\* dispatchWindow covers a whole chain with time to spare.
LEMMA WindowSuffices ==
  /\ DispatchWindow \in Nat /\ RetryMaxBackoff <= DispatchWindow
  /\ Attempt + ByAttempts(1) < DispatchWindow /\ ByDuration(0) < DispatchWindow
<1>1. /\ Attempt \in Nat \ {0} /\ RetryAttempts \in Nat \ {0}
      /\ RetryMaxBackoff \in Nat \ {0} /\ RetryMaxDuration \in Nat /\ Margin \in Nat
      /\ RetryMaxBackoff <= Margin
  BY DispatchAssumption, MarginAssumption
<1>2. PICK n, m \in Int : n = RetryAttempts * Attempt
                          /\ m = (RetryAttempts - 1) * RetryMaxBackoff
  BY <1>1
<1>3. Attempt + ByAttempts(1) = n + m
  <2>1. \A r, a, b \in Int : a + (r - 1) * (a + b) = r * a + (r - 1) * b
    OBVIOUS
  <2>. QED BY <1>1, <1>2, <2>1 DEF ByAttempts, Cycle
<1>4. n + m \in Nat
  <2>1. ByAttempts(1) \in Nat
    BY <1>1, AttemptBudget
  <2>. QED BY <1>1, <1>3, <2>1
<1>5. DispatchWindow = Max2(n + m, RetryMaxDuration + Attempt) + Margin
  BY <1>2 DEF DispatchWindow
<1>6. /\ DispatchWindow \in Nat /\ n + m + Margin <= DispatchWindow
      /\ RetryMaxDuration + Attempt + Margin <= DispatchWindow
  BY <1>1, <1>2, <1>4, <1>5 DEF Max2
<1>. QED BY <1>1, <1>2, <1>3, <1>4, <1>6 DEF ByDuration, Cycle

\* The bounds of the timers.
LEMMA Durations ==
  /\ LongestDelay \in Nat /\ LongestMarker \in Nat /\ Max2(Soon, Long) \in Nat
  /\ Timers = 0 .. LongestMarker + Max2(Soon, Long)
  /\ {0, CreateVmDelay, RecreateVmDelay} \subseteq 0 .. LongestDelay
  /\ 0 .. LongestMarker \subseteq Timers /\ 0 .. LongestDelay \subseteq Timers
  /\ 1 .. RetryMaxBackoff \subseteq Timers /\ {Soon, Long} \subseteq Timers
  /\ LeaseTime \in Nat /\ Attempt < LeaseTime
<1>1. /\ CreateVmDelay \in Nat /\ RecreateVmDelay \in Nat /\ Attempt \in Nat
      /\ Soon \in Nat /\ Long \in Nat /\ RetryMaxBackoff \in Nat
  BY DispatchAssumption
<1>2. LongestDelay \in Nat /\ Max2(Soon, Long) \in Nat
  BY <1>1 DEF LongestDelay, Max2
<1>3. LongestMarker \in Nat /\ Timers = 0 .. LongestMarker + Max2(Soon, Long)
  BY <1>2, WindowSuffices DEF LongestMarker, LongestDelay, Timers
<1>4. {0, CreateVmDelay, RecreateVmDelay} \subseteq 0 .. LongestDelay
  BY <1>1, <1>2 DEF LongestDelay, Max2
<1>5. LongestDelay <= LongestMarker /\ RetryMaxBackoff <= LongestMarker
  BY <1>1, <1>2, WindowSuffices DEF LongestMarker
<1>6. Soon <= Max2(Soon, Long) /\ Long <= Max2(Soon, Long)
  BY <1>1 DEF Max2
<1>. QED BY <1>1, <1>2, <1>3, <1>4, <1>5, <1>6 DEF LeaseTime

-----------------------------------------------------------------------------
(***************************************************************************)
(* Types and lease.                                                        *)
(***************************************************************************)
\* The types of the variables, and the constants a step puts into them.
LEMMA Typed ==
  ASSUME LeaseInv
  PROVE  /\ rec \in RecType /\ task \in [Tokens -> TaskType]
         /\ call \in [Callers -> CallType] /\ github \in Statuses /\ calls \in 0 .. MaxCalls
         /\ \A t \in Tokens : task[t] \in TaskType /\ TaskSound(task[t])
         /\ \A c \in Callers : call[c] \in CallType /\ CallSound(call[c])
  BY DEF LeaseInv, DispatchTypeOK, RecType, TaskType, CallType

\* A task that is gone and a call that is over.
LEMMA Nothing ==
  /\ NoTask \in TaskType /\ TaskSound(NoTask) /\ NoTask.st = "gone"
  /\ NoCall \in CallType /\ CallSound(NoCall) /\ NoCall.pc = "idle"
  /\ NoCall.token = NoToken
<1>1. 0 \in Timers /\ 0 <= LongestDelay
  BY Durations
<1>2. /\ 0 \in 0 .. RetryAttempts /\ 0 \in 0 .. RetryMaxDuration /\ 0 \in 0 .. Attempt
      /\ NoToken \notin Tokens
  <2>1. /\ RetryAttempts \in Nat /\ RetryMaxDuration \in Nat /\ Attempt \in Nat
        /\ NoToken \notin Tokens
    BY DispatchAssumption
  <2>. QED BY <2>1
<1>. QED BY <1>1, <1>2 DEF NoTask, TaskType, TaskSound, NoCall, CallType, CallSound,
            Sending, Handling, Outcomes

\* prepareRecord moves nothing but the next action, and keeps it in range.
LEMMA Written ==
  ASSUME NEW r \in RecType, Write(r)
  PROVE  /\ rec' \in RecType
         /\ rec'.until = r.until /\ rec'.token = r.token
         /\ rec'.lease = r.lease /\ rec'.holder = r.holder
<1>1. /\ r.due \in Timers /\ r.until \in Timers
  BY DEF RecType
<1>2. Max2(r.due, r.until) \in Timers
  BY <1>1 DEF Max2
<1>3. rec' = [r EXCEPT !.due = Max2(r.due, r.until)] \/ rec' = r
  BY DEF Write
<1>. QED BY <1>1, <1>2, <1>3 DEF RecType

\* A step that changes tasks and calls into sound ones keeps types and lease, when a
\* worker that goes on still holds a lease longer than its deadline.
LEMMA KeepsLease ==
  ASSUME LeaseInv, rec' \in RecType, rec'.until <= LongestMarker,
         task' \in [Tokens -> TaskType], call' \in [Callers -> CallType],
         github' \in Statuses, calls' \in 0 .. MaxCalls,
         \A t \in Tokens : task'[t] = task[t] \/ TaskSound(task'[t]),
         \A c \in Callers : call'[c] = call[c] \/ CallSound(call'[c]),
         \A t \in Tokens :
           \/ task'[t].st \notin {"working", "unlease"}
           \/ rec'.holder = t /\ task'[t].left < rec'.lease
           \/ task'[t] = task[t] /\ rec'.holder = rec.holder /\ rec'.lease = rec.lease
  PROVE  LeaseInv'
<1>1. DispatchTypeOK'
  BY DEF DispatchTypeOK, RecType, TaskType, CallType
<1>2. \A t \in Tokens : TaskSound(task'[t])
  BY DEF LeaseInv
<1>3. \A c \in Callers : CallSound(call'[c])
  BY DEF LeaseInv
<1>4. \A t \in Tokens : task'[t].st \in {"working", "unlease"} =>
        rec'.holder = t /\ task'[t].left < rec'.lease
  BY DEF LeaseInv
<1>. QED BY <1>1, <1>2, <1>3, <1>4 DEF LeaseInv

\* A step that neither gives a call a token nor a task more time, and leaves the
\* marker as it is for whoever has it, keeps the chain within its marker.
LEMMA KeepsChain ==
  ASSUME ChainInv, LeaseInv',
         \A c \in Callers :
           \/ call'[c].pc \notin Sending
           \/ /\ call[c].pc \in Sending
              /\ call'[c].token = call[c].token /\ call'[c].delay = call[c].delay
              /\ call'[c].pc = "send" => call[c].pc = "send"
              /\ task'[call[c].token].st = "gone"
              /\ rec'.token = call[c].token =>
                   rec'.token = rec.token /\ rec'.until = rec.until,
         \A t \in Tokens :
           \/ rec'.token # t \/ task'[t].st = "gone"
           \/ Remaining(task'[t]) < rec'.until
           \/ /\ rec'.token = rec.token /\ rec'.until = rec.until /\ task[t].st # "gone"
              /\ Remaining(task'[t]) <= Remaining(task[t])
              /\ Remaining(task[t]) \in Nat /\ Remaining(task'[t]) \in Nat
  PROVE  ChainInv'
<1>1. ASSUME NEW c \in Callers, call'[c].pc \in Sending
      PROVE  /\ task'[call'[c].token].st = "gone"
             /\ \A d \in Callers \ {c} : call'[d].token # call'[c].token
             /\ call'[c].pc = "send" /\ rec'.token = call'[c].token =>
                  rec'.until >= call'[c].delay + DispatchWindow
  <2>1. SendSound(c) /\ call[c].pc \in Sending
    BY <1>1 DEF ChainInv
  <2>2. call'[c].token \in Tokens
    BY <1>1 DEF LeaseInv, CallSound
  <2>3. ASSUME NEW d \in Callers \ {c}, call'[d].token = call'[c].token PROVE FALSE
    <3>1. call'[d].pc \in Sending
      BY <2>2, <2>3 DEF LeaseInv, CallSound
    <3>. QED BY <1>1, <2>1, <2>3, <3>1 DEF SendSound
  <2>. QED BY <1>1, <2>1, <2>3 DEF SendSound
<1>2. ASSUME NEW t \in Tokens, rec'.token = t, task'[t].st # "gone"
      PROVE  Remaining(task'[t]) < rec'.until
  <2>1. CASE Remaining(task'[t]) < rec'.until
    BY <2>1
  <2>2. CASE /\ rec'.token = rec.token /\ rec'.until = rec.until /\ task[t].st # "gone"
             /\ Remaining(task'[t]) <= Remaining(task[t])
             /\ Remaining(task[t]) \in Nat /\ Remaining(task'[t]) \in Nat
    <3>1. Remaining(task[t]) < rec.until
      BY <1>2, <2>2 DEF ChainInv, MarkerSuffices
    <3>2. rec.until \in Int
      BY Durations DEF ChainInv, LeaseInv, DispatchTypeOK
    <3>. QED BY <2>2, <3>1, <3>2
  <2>. QED BY <1>2, <2>1, <2>2
<1>. QED BY <1>1, <1>2 DEF ChainInv, SendSound, MarkerSuffices

-----------------------------------------------------------------------------
(***************************************************************************)
(* What each step of a chain spends.                                       *)
(***************************************************************************)
\* The policy's numbers, for the arithmetic below.
LEMMA Policy ==
  /\ Attempt \in Nat \ {0} /\ RetryAttempts \in Nat \ {0}
  /\ RetryMaxBackoff \in Nat \ {0} /\ RetryMaxDuration \in Nat
  /\ NoToken \notin Tokens
  BY DispatchAssumption

\* What a task may still take is a number.
LEMMA RemainingIsNat ==
  ASSUME NEW k \in TaskType
  PROVE  Remaining(k) \in Nat
<1>1. /\ k.tries \in 0 .. RetryAttempts /\ k.age \in 0 .. RetryMaxDuration
      /\ k.wait \in Nat /\ k.left \in Nat
  BY Durations, Policy DEF TaskType
<1>2. Coming(k) \in 0 .. RetryAttempts /\ 1 \in 0 .. RetryAttempts
  BY <1>1, Policy DEF Coming
<1>3. /\ ByAttempts(1) \in Nat /\ ByAttempts(Coming(k)) \in Nat /\ ByAttempts(k.tries) \in Nat
      /\ ByDuration(0) \in Nat /\ ByDuration(k.age) \in Nat
  BY <1>1, <1>2, Policy, AttemptBudget, DurationBudget
<1>. QED BY <1>1, <1>3, Policy DEF Remaining, Max2

\* A delivery spends nothing: the attempt was reckoned with.
LEMMA DeliverySpends ==
  ASSUME NEW k \in TaskType, TaskSound(k), k.st = "queued", k.wait = 0
  PROVE  \E j \in TaskType :
           /\ j = [k EXCEPT !.st = "active", !.left = Attempt,
                            !.tries = IF @ < RetryAttempts THEN @ + 1 ELSE @]
           /\ TaskSound(j) /\ j.st = "active" /\ Remaining(j) = Remaining(k)
<1>1. /\ k.tries \in 0 .. RetryAttempts /\ k.age \in 0 .. RetryMaxDuration
  BY DEF TaskType
<1>2. Coming(k) \in 1 .. RetryAttempts /\ Coming(k) \in 0 .. RetryAttempts
  BY <1>1, Policy DEF Coming
<1>3. PICK j : j = [k EXCEPT !.st = "active", !.left = Attempt,
                             !.tries = IF @ < RetryAttempts THEN @ + 1 ELSE @]
  OBVIOUS
<1>4. /\ j.st = "active" /\ j.left = Attempt /\ j.tries = Coming(k) /\ j.age = k.age
  BY <1>3 DEF TaskType, Coming
<1>5. j \in TaskType
  <2>1. Attempt \in 0 .. Attempt /\ j.tries \in 0 .. RetryAttempts
    BY <1>2, <1>4, Policy
  <2>2. j = [k EXCEPT !.st = "active", !.left = Attempt, !.tries = j.tries]
    BY <1>3, <1>4 DEF TaskType, Coming
  <2>. QED BY <2>1, <2>2 DEF TaskType, Handling
<1>6. TaskSound(j)
  BY <1>2, <1>4 DEF TaskSound
<1>7. Remaining(j) = Max2(Attempt + ByAttempts(Coming(k)), ByDuration(k.age))
  BY <1>4 DEF Remaining
<1>8. Remaining(k) = Max2(Attempt + ByAttempts(Coming(k)), ByDuration(k.age))
  <2>1. ByAttempts(Coming(k)) \in Nat
    BY <1>2, AttemptBudget
  <2>2. CASE k.tries = 0
    <3>1. k.age = 0 /\ Coming(k) = 1
      BY <2>2, Policy DEF TaskSound, Coming
    <3>2. ByAttempts(1) \in Nat /\ ByDuration(0) \in Nat
      BY <2>1, <3>1, Policy, DurationBudget
    <3>3. Remaining(k) = 0 + Max2(Attempt + ByAttempts(1), ByDuration(0))
      BY <2>2 DEF Remaining
    <3>. QED BY <3>1, <3>2, <3>3, Policy DEF Max2
  <2>3. CASE k.tries # 0
    <3>1. Remaining(k) = Max2(0 + Attempt + ByAttempts(Coming(k)), ByDuration(k.age))
      BY <2>3 DEF Remaining
    <3>. QED BY <2>1, <3>1, Policy
  <2>. QED BY <2>2, <2>3
<1>. QED BY <1>3, <1>4, <1>5, <1>6, <1>7, <1>8

\* A retry spends an attempt, or it is within the duration.
LEMMA RetrySpends ==
  ASSUME LeaseInv, NEW t \in Tokens, Running(t), Retry(t)
  PROVE  \E j \in TaskType :
           /\ task' = [task EXCEPT ![t] = j]
           /\ TaskSound(j) /\ j.st \in {"gone", "queued"}
           /\ j.st = "gone" \/ Remaining(j) <= Remaining(task[t])
<1>1. PICK k \in TaskType : k = task[t] /\ TaskSound(k) /\ k.st \in Handling
  BY Typed DEF Running
<1>2. /\ k.tries \in 1 .. RetryAttempts /\ k.age \in 0 .. RetryMaxDuration
      /\ k.left \in Nat
  BY <1>1, Policy DEF TaskType, TaskSound
<1>3. CASE k.tries < RetryAttempts \/ k.age < RetryMaxDuration
  <2>1. PICK wait \in 1 .. RetryMaxBackoff :
          task' = [task EXCEPT ![t].st = "queued", ![t].wait = wait,
                               ![t].left = 0, ![t].out = "none"]
    BY <1>1, <1>3 DEF Retry
  <2>2. PICK j : j = [k EXCEPT !.st = "queued", !.wait = wait, !.left = 0, !.out = "none"]
    OBVIOUS
  <2>3. task' = [task EXCEPT ![t] = j]
    BY <1>1, <2>1, <2>2
  <2>4. wait \in Timers /\ 0 \in 0 .. Attempt
    BY Durations, Policy
  <2>5. /\ j.st = "queued" /\ j.wait = wait /\ j.tries = k.tries /\ j.age = k.age
        /\ j \in TaskType
    BY <2>2, <2>4 DEF TaskType, Outcomes
  <2>6. TaskSound(j)
    BY <1>2, <2>5 DEF TaskSound, Handling
  <2>7. Remaining(j) = Max2(wait + Attempt + ByAttempts(Coming(j)), ByDuration(k.age))
    BY <1>2, <2>5 DEF Remaining
  <2>8. Remaining(k) = Max2(k.left + ByAttempts(k.tries), ByDuration(k.age))
    BY <1>1 DEF Remaining, Handling
  <2>9. wait + Attempt \in Nat /\ wait + Attempt <= Cycle /\ Cycle \in Nat
    BY Policy DEF Cycle
  <2>10. /\ ByAttempts(k.tries) \in Nat /\ ByDuration(k.age) \in Nat
         /\ Coming(j) \in 0 .. RetryAttempts /\ ByAttempts(Coming(j)) \in Nat
    BY <1>2, <2>5, Policy, AttemptBudget, DurationBudget DEF Coming
  <2>11. CASE k.tries < RetryAttempts
    <3>1. Coming(j) = k.tries + 1 /\ k.tries \in 0 .. RetryAttempts - 1
      BY <1>2, <2>5, <2>11, Policy DEF Coming
    <3>2. ByAttempts(k.tries) = ByAttempts(Coming(j)) + Cycle
      BY <3>1, AttemptBudget
    <3>3. wait + Attempt + ByAttempts(Coming(j)) <= k.left + ByAttempts(k.tries)
      BY <1>2, <2>9, <2>10, <3>2, Policy
    <3>4. Remaining(j) <= Remaining(k)
      BY <1>2, <2>7, <2>8, <2>9, <2>10, <3>3, Policy DEF Max2
    <3>. QED BY <1>1, <2>3, <2>5, <2>6, <3>4
  <2>12. CASE k.tries = RetryAttempts /\ k.age < RetryMaxDuration
    <3>1. Coming(j) = RetryAttempts /\ k.age \in 0 .. RetryMaxDuration - 1
      BY <1>2, <2>5, <2>12, Policy DEF Coming
    <3>2. ByAttempts(Coming(j)) = 0 /\ Cycle <= ByDuration(k.age)
      BY <3>1, AttemptBudget, DurationBudget
    <3>3. Remaining(j) <= Remaining(k)
      BY <1>2, <2>7, <2>8, <2>9, <2>10, <3>2, Policy DEF Max2
    <3>. QED BY <1>1, <2>3, <2>5, <2>6, <3>3
  <2>. QED BY <1>2, <1>3, <2>11, <2>12, Policy
<1>4. CASE ~(k.tries < RetryAttempts \/ k.age < RetryMaxDuration)
  <2>1. task' = [task EXCEPT ![t] = NoTask]
    BY <1>1, <1>4 DEF Retry
  <2>. QED BY <2>1, Nothing
<1>. QED BY <1>3, <1>4

\* A unit of time is spent: whatever a task waits for is a unit nearer.
LEMMA TimeSpends ==
  ASSUME NEW k \in TaskType, TaskSound(k), k.st # "gone",
         k.st = "queued" => k.wait > 0, k.st \in Handling => k.left > 0
  PROVE  \E j \in TaskType :
           /\ j = [k EXCEPT !.wait = Before(@), !.left = Before(@),
                     !.age = IF k.tries > 0 /\ @ < RetryMaxDuration THEN @ + 1 ELSE @]
           /\ TaskSound(j) /\ j.st = k.st /\ j.left = Before(k.left)
           /\ Remaining(j) < Remaining(k)
<1>1. /\ k.tries \in 0 .. RetryAttempts /\ k.age \in 0 .. RetryMaxDuration
      /\ k.wait \in Timers /\ k.left \in 0 .. Attempt /\ k.wait \in Nat /\ k.left \in Nat
      /\ k.st \in {"queued"} \cup Handling
  BY Durations, Policy DEF TaskType
<1>2. PICK j : j = [k EXCEPT !.wait = Before(@), !.left = Before(@),
                      !.age = IF k.tries > 0 /\ @ < RetryMaxDuration THEN @ + 1 ELSE @]
  OBVIOUS
<1>3. /\ j.st = k.st /\ j.wait = Before(k.wait) /\ j.left = Before(k.left)
      /\ j.tries = k.tries
      /\ j.age = IF k.tries > 0 /\ k.age < RetryMaxDuration THEN k.age + 1 ELSE k.age
  BY <1>2 DEF TaskType
<1>4. /\ j.wait \in Timers /\ j.left \in 0 .. Attempt /\ j.age \in 0 .. RetryMaxDuration
  <2>1. \A top \in Nat : \A n \in 0 .. top : Before(n) \in 0 .. top
    BY DEF Before, Max2
  <2>2. PICK top \in Nat : Timers = 0 .. top
    BY Durations
  <2>3. j.wait \in Timers /\ j.left \in 0 .. Attempt
    BY <1>1, <1>3, <2>1, <2>2, Policy
  <2>4. j.age \in 0 .. RetryMaxDuration
    BY <1>1, <1>3, Policy
  <2>. QED BY <2>3, <2>4
<1>5. j \in TaskType
  BY <1>2, <1>3, <1>4 DEF TaskType
<1>6. TaskSound(j)
  BY <1>3, <1>1 DEF TaskSound
<1>7. Coming(j) = Coming(k) /\ Coming(k) \in 0 .. RetryAttempts /\ 1 \in 0 .. RetryAttempts
  BY <1>1, <1>3, Policy DEF Coming
<1>8. /\ ByAttempts(k.tries) \in Nat /\ ByAttempts(Coming(k)) \in Nat
      /\ ByAttempts(1) \in Nat /\ ByDuration(0) \in Nat
      /\ ByDuration(k.age) \in Nat /\ ByDuration(j.age) \in Nat
  BY <1>1, <1>4, <1>7, Policy, AttemptBudget, DurationBudget
<1>9. k.tries > 0 => \/ ByDuration(j.age) < ByDuration(k.age)
                     \/ ByDuration(j.age) = 0 /\ ByDuration(k.age) = 0
  <2>1. CASE k.tries > 0 /\ k.age < RetryMaxDuration
    <3>1. k.age \in 0 .. RetryMaxDuration - 1 /\ j.age = k.age + 1
      BY <1>1, <1>3, <2>1, Policy
    <3>. QED BY <3>1, DurationBudget
  <2>2. CASE k.tries > 0 /\ k.age = RetryMaxDuration
    <3>1. j.age = k.age
      BY <1>1, <1>3, <2>2, Policy
    <3>. QED BY <2>2, <3>1, DurationBudget
  <2>. QED BY <1>1, <2>1, <2>2, Policy
<1>10. CASE k.st = "queued" /\ k.tries = 0
  <2>1. j.wait = k.wait - 1
    BY <1>1, <1>3, <1>10 DEF Before, Max2
  <2>2. /\ Remaining(k) = k.wait + Max2(Attempt + ByAttempts(1), ByDuration(0))
        /\ Remaining(j) = j.wait + Max2(Attempt + ByAttempts(1), ByDuration(0))
    BY <1>3, <1>10 DEF Remaining
  <2>3. Remaining(j) < Remaining(k)
    BY <1>1, <1>8, <2>1, <2>2, Policy DEF Max2
  <2>. QED BY <1>2, <1>3, <1>5, <1>6, <2>3
<1>11. CASE k.st = "queued" /\ k.tries # 0
  <2>1. j.wait = k.wait - 1
    BY <1>1, <1>3, <1>11 DEF Before, Max2
  <2>2. /\ Remaining(k) = Max2(k.wait + Attempt + ByAttempts(Coming(k)), ByDuration(k.age))
        /\ Remaining(j) = Max2(j.wait + Attempt + ByAttempts(Coming(k)), ByDuration(j.age))
    BY <1>3, <1>7, <1>11 DEF Remaining
  <2>3. Remaining(j) < Remaining(k)
    BY <1>1, <1>8, <1>9, <1>11, <2>1, <2>2, Policy DEF Max2
  <2>. QED BY <1>2, <1>3, <1>5, <1>6, <2>3
<1>12. CASE k.st \in Handling
  <2>1. k.tries > 0 /\ j.left = k.left - 1
    BY <1>1, <1>3, <1>12 DEF Before, Max2, TaskSound
  <2>2. /\ Remaining(k) = Max2(k.left + ByAttempts(k.tries), ByDuration(k.age))
        /\ Remaining(j) = Max2(j.left + ByAttempts(k.tries), ByDuration(j.age))
    BY <1>3, <1>12 DEF Remaining, Handling
  <2>3. Remaining(j) < Remaining(k)
    BY <1>1, <1>8, <1>9, <1>12, <2>1, <2>2, Policy DEF Max2
  <2>. QED BY <1>2, <1>3, <1>5, <1>6, <2>3
<1>. QED BY <1>1, <1>10, <1>11, <1>12

-----------------------------------------------------------------------------
(***************************************************************************)
(* Requests that only write the record, and what all calls have in common. *)
(***************************************************************************)
\* Ending a call or starting an enqueue leaves no token with it.
LEMMA CallsMove ==
  ASSUME LeaseInv, NEW c \in Callers, NEW delay \in 0 .. LongestDelay,
         UNCHANGED call \/ EndCall(c) \/ Enqueue(c, delay)
  PROVE  /\ call' \in [Callers -> CallType]
         /\ \A d \in Callers :
              \/ call'[d] = call[d]
              \/ CallSound(call'[d]) /\ call'[d].pc \notin Sending
<1>1. call \in [Callers -> CallType]
  BY Typed
<1>2. CASE UNCHANGED call
  BY <1>1, <1>2
<1>3. CASE EndCall(c)
  <2>1. call' = [call EXCEPT ![c] = NoCall]
    BY <1>3 DEF EndCall
  <2>. QED BY <1>1, <2>1, Nothing DEF Sending
<1>4. CASE Enqueue(c, delay)
  <2>1. PICK k : k = [NoCall EXCEPT !.pc = "mark", !.delay = delay]
    OBVIOUS
  <2>2. delay \in Timers /\ delay <= LongestDelay /\ NoToken \notin Tokens
    BY Durations, Policy
  <2>3. k.pc = "mark" /\ k.delay = delay /\ k.token = NoToken /\ k \in CallType
    BY <2>1, <2>2 DEF NoCall, CallType
  <2>4. CallSound(k) /\ k.pc \notin Sending
    BY <2>2, <2>3 DEF CallSound, Sending
  <2>5. call' = [call EXCEPT ![c] = k]
    BY <1>4, <2>1 DEF Enqueue
  <2>. QED BY <1>1, <2>3, <2>4, <2>5
<1>. QED BY <1>2, <1>3, <1>4

\* A request that leaves the tasks and the lease alone, and the marker too unless
\* it clears it together with its token.
LEMMA RequestKeeps ==
  ASSUME LeaseInv, NEW c \in Callers, NEW delay \in 0 .. LongestDelay,
         UNCHANGED call \/ EndCall(c) \/ Enqueue(c, delay),
         UNCHANGED task, rec' \in RecType,
         rec'.holder = rec.holder, rec'.lease = rec.lease,
         \/ rec'.token = NoToken /\ rec'.until = 0
         \/ rec'.token = rec.token /\ rec'.until = rec.until,
         github' \in Statuses, calls' \in 0 .. MaxCalls
  PROVE  LeaseInv' /\ (ChainInv => ChainInv')
<1>1. /\ call' \in [Callers -> CallType]
      /\ \A d \in Callers :
           \/ call'[d] = call[d]
           \/ CallSound(call'[d]) /\ call'[d].pc \notin Sending
  BY CallsMove
<1>2. rec'.until <= LongestMarker
  BY Durations DEF LeaseInv
<1>3. LeaseInv'
  <2>1. task' \in [Tokens -> TaskType] /\ \A t \in Tokens : task'[t] = task[t]
    BY Typed
  <2>2. \A d \in Callers : call'[d] = call[d] \/ CallSound(call'[d])
    BY <1>1
  <2>. QED BY <1>1, <1>2, <2>1, <2>2, KeepsLease
<1>4. ASSUME ChainInv PROVE ChainInv'
  <2>1. ASSUME NEW d \in Callers, call'[d].pc \in Sending
        PROVE  /\ call[d].pc \in Sending
               /\ call'[d].token = call[d].token /\ call'[d].delay = call[d].delay
               /\ call'[d].pc = "send" => call[d].pc = "send"
               /\ task'[call[d].token].st = "gone"
               /\ rec'.token = call[d].token =>
                    rec'.token = rec.token /\ rec'.until = rec.until
    <3>1. call'[d] = call[d] /\ SendSound(d) /\ CallSound(call[d])
      BY <1>1, <1>4, <2>1, Typed DEF ChainInv
    <3>2. call[d].token \in Tokens /\ call[d].token # NoToken
      BY <2>1, <3>1, Policy DEF CallSound
    <3>. QED BY <2>1, <3>1, <3>2 DEF SendSound
  <2>2. ASSUME NEW t \in Tokens, rec'.token = t, task'[t].st # "gone"
        PROVE  /\ rec'.token = rec.token /\ rec'.until = rec.until /\ task[t].st # "gone"
               /\ Remaining(task'[t]) <= Remaining(task[t])
               /\ Remaining(task[t]) \in Nat /\ Remaining(task'[t]) \in Nat
    <3>1. rec'.token = rec.token /\ rec'.until = rec.until
      BY <2>2, Policy
    <3>2. Remaining(task[t]) \in Nat
      BY Typed, RemainingIsNat
    <3>. QED BY <2>2, <3>1, <3>2
  <2>. QED BY <1>3, <1>4, <2>1, <2>2, KeepsChain
<1>. QED BY <1>3, <1>4

\* A webhook's status change and its marker.
LEMMA WebhookStep ==
  ASSUME LeaseInv, NEW c \in Callers, NEW s \in Statuses \ {"none"},
         NEW named \in BOOLEAN, Webhook(c, s, named)
  PROVE  LeaseInv' /\ (ChainInv => ChainInv')
<1>1. /\ rec \in RecType /\ calls \in 0 .. MaxCalls /\ github \in Statuses
  BY Typed
<1>2. PICK r : r = [rec EXCEPT !.status = IF ~rec.terminal \/ s = "completed" THEN s ELSE @,
                               !.terminal = @ \/ s = "completed",
                               !.pd = @ \/ (s = "completed" /\ named)]
  OBVIOUS
<1>3. /\ r \in RecType /\ r.until = rec.until /\ r.token = rec.token
      /\ r.lease = rec.lease /\ r.holder = rec.holder
  BY <1>1, <1>2 DEF RecType
<1>4. PICK q : q = IF rec.status # s \/ (~rec.terminal /\ s = "completed")
                   THEN [r EXCEPT !.due = 0, !.until = 0, !.token = NoToken] ELSE r
  OBVIOUS
<1>5. /\ q \in RecType /\ q.lease = rec.lease /\ q.holder = rec.holder
      /\ \/ q.token = NoToken /\ q.until = 0
         \/ q.token = rec.token /\ q.until = rec.until
  <2>1. 0 \in Timers
    BY Durations
  <2>. QED BY <1>3, <1>4, <2>1 DEF RecType
<1>6. Write(q)
  BY <1>2, <1>4 DEF Webhook
<1>7. /\ rec' \in RecType /\ rec'.until = q.until /\ rec'.token = q.token
      /\ rec'.lease = q.lease /\ rec'.holder = q.holder
  BY <1>5, <1>6, Written
<1>8. PICK delay \in 0 .. LongestDelay : Enqueue(c, delay)
  BY Durations DEF Webhook
<1>9. /\ UNCHANGED task /\ github' \in Statuses /\ calls' \in 0 .. MaxCalls
  <2>1. MaxCalls \in Nat /\ calls < MaxCalls /\ calls' = calls + 1
    BY DispatchAssumption DEF Webhook
  <2>. QED BY <1>1, <2>1 DEF Webhook
<1>. QED BY <1>5, <1>7, <1>8, <1>9, RequestKeeps

\* A recreate request brings the next action forward.
LEMMA RecreateStep ==
  ASSUME LeaseInv, NEW c \in Callers, Recreate(c)
  PROVE  LeaseInv' /\ (ChainInv => ChainInv')
<1>1. /\ rec \in RecType /\ calls \in 0 .. MaxCalls /\ github \in Statuses
  BY Typed
<1>2. RecreateVmDelay \in 0 .. LongestDelay /\ RecreateVmDelay \in Timers
  BY Durations
<1>3. PICK q \in {rec, [rec EXCEPT !.due = RecreateVmDelay]} : Write(q)
  BY DEF Recreate
<1>4. /\ q \in RecType /\ q.until = rec.until /\ q.token = rec.token
      /\ q.lease = rec.lease /\ q.holder = rec.holder
  BY <1>1, <1>2 DEF RecType
<1>5. /\ rec' \in RecType /\ rec'.until = q.until /\ rec'.token = q.token
      /\ rec'.lease = q.lease /\ rec'.holder = q.holder
  BY <1>3, <1>4, Written
<1>6. UNCHANGED call \/ Enqueue(c, RecreateVmDelay)
  BY DEF Recreate
<1>7. /\ UNCHANGED task /\ github' \in Statuses /\ calls' \in 0 .. MaxCalls
  <2>1. MaxCalls \in Nat /\ calls < MaxCalls /\ calls' = calls + 1
    BY DispatchAssumption DEF Recreate
  <2>. QED BY <1>1, <2>1 DEF Recreate
<1>. QED BY <1>2, <1>4, <1>5, <1>6, <1>7, RequestKeeps

\* Reconcile starts an enqueue, a dying request ends one, and GitHub's status is
\* nothing to the record yet.
LEMMA OtherRequestSteps ==
  ASSUME LeaseInv, NEW c \in Callers,
         Reconcile(c) \/ CallerDies(c) \/ (GitHubProceeds /\ UNCHANGED call)
  PROVE  LeaseInv' /\ (ChainInv => ChainInv')
<1>1. /\ rec \in RecType /\ calls \in 0 .. MaxCalls /\ github \in Statuses
      /\ 0 \in 0 .. LongestDelay
  BY Typed, Durations
<1>2. UNCHANGED call \/ EndCall(c) \/ Enqueue(c, 0)
  BY DEF Reconcile, CallerDies
<1>3. UNCHANGED <<rec, task, calls>> /\ github' \in Statuses
  BY <1>1 DEF Reconcile, CallerDies, GitHubProceeds, Statuses
<1>. QED BY <1>1, <1>2, <1>3, RequestKeeps

-----------------------------------------------------------------------------
(***************************************************************************)
(* enqueueJob.                                                             *)
(***************************************************************************)
\* The marker is written with a token of its own.
LEMMA MarkOutboxStep ==
  ASSUME LeaseInv, NEW c \in Callers, MarkOutbox(c)
  PROVE  LeaseInv' /\ (ChainInv => ChainInv')
<1>1. /\ rec \in RecType /\ calls \in 0 .. MaxCalls /\ github \in Statuses
      /\ task \in [Tokens -> TaskType] /\ call \in [Callers -> CallType]
      /\ \A d \in Callers : call[d] \in CallType /\ CallSound(call[d])
  BY Typed
<1>2. UNCHANGED <<task, github, calls>> /\ call[c].pc = "mark"
  BY DEF MarkOutbox
<1>3. CASE ~Dispatchable(call[c].delay)
  <2>1. EndCall(c) /\ UNCHANGED rec
    BY <1>3 DEF MarkOutbox
  <2>2. 0 \in 0 .. LongestDelay
    BY Durations
  <2>. QED BY <1>1, <1>2, <2>1, <2>2, RequestKeeps
<1>4. CASE Dispatchable(call[c].delay)
  <2>1. PICK delay : delay = call[c].delay
    OBVIOUS
  <2>2. PICK t \in Tokens :
          /\ Fresh(t)
          /\ Write([rec EXCEPT !.token = t, !.until = delay + DispatchWindow])
          /\ call' = [call EXCEPT ![c] =
               [pc |-> "send", token |-> t, delay |-> delay,
                route |-> IF rec.pd THEN "delete" ELSE "create"]]
    BY <1>4, <2>1 DEF MarkOutbox
  <2>3. PICK q : q = [rec EXCEPT !.token = t, !.until = delay + DispatchWindow]
    OBVIOUS
  <2>4. PICK k : k = [pc |-> "send", token |-> t, delay |-> delay,
                      route |-> IF rec.pd THEN "delete" ELSE "create"]
    OBVIOUS
  <2>5. delay \in Timers /\ delay \in Nat /\ delay <= LongestDelay
    BY <1>1, <2>1, Durations DEF CallType, CallSound
  <2>6. /\ delay + DispatchWindow \in 0 .. LongestMarker
        /\ delay + DispatchWindow \in Timers
    BY <2>5, Durations, WindowSuffices DEF LongestMarker
  <2>7. /\ q \in RecType /\ q.token = t /\ q.until = delay + DispatchWindow
        /\ q.lease = rec.lease /\ q.holder = rec.holder
    BY <1>1, <2>3, <2>6 DEF RecType
  <2>8. /\ k \in CallType /\ CallSound(k) /\ k.token = t /\ k.delay = delay
    BY <1>1, <2>4, <2>5 DEF CallType, CallSound, Sending
  <2>9. /\ rec' \in RecType /\ rec'.token = t /\ rec'.until = delay + DispatchWindow
        /\ rec'.lease = rec.lease /\ rec'.holder = rec.holder
    BY <2>2, <2>3, <2>7, Written
  <2>10. /\ call' \in [Callers -> CallType] /\ call'[c] = k
         /\ \A d \in Callers \ {c} : call'[d] = call[d]
    BY <1>1, <2>2, <2>4, <2>8
  <2>11. LeaseInv'
    <3>1. rec'.until <= LongestMarker
      BY <2>6, <2>9
    <3>2. \A d \in Callers : call'[d] = call[d] \/ CallSound(call'[d])
      BY <2>8, <2>10
    <3>. QED BY <1>1, <1>2, <2>9, <2>10, <3>1, <3>2, KeepsLease
  <2>12. ASSUME ChainInv, NEW d \in Callers PROVE SendSound(d)'
    <3>1. \A e \in Callers : call[e].token # t
      BY <2>2 DEF Fresh
    <3>2. CASE d = c
      <4>1. task[t].st = "gone" /\ \A e \in Callers \ {c} : call'[e].token # t
        BY <2>2, <2>10, <3>1 DEF Fresh
      <4>2. rec'.until >= k.delay + DispatchWindow
        BY <2>5, <2>8, <2>9, WindowSuffices
      <4>. QED BY <1>2, <2>8, <2>10, <3>2, <4>1, <4>2 DEF SendSound
    <3>3. CASE d # c
      <4>1. SendSound(d) /\ call'[d] = call[d]
        BY <2>10, <2>12, <3>3 DEF ChainInv
      <4>. QED BY <1>2, <2>8, <2>9, <2>10, <3>1, <4>1 DEF SendSound
    <3>. QED BY <3>2, <3>3
  <2>13. ASSUME ChainInv, NEW u \in Tokens PROVE MarkerSuffices(u)'
    <3>1. rec'.token = u => task'[u].st = "gone"
      BY <1>2, <2>2, <2>9 DEF Fresh
    <3>. QED BY <3>1 DEF MarkerSuffices
  <2>. QED BY <2>11, <2>12, <2>13 DEF ChainInv
<1>. QED BY <1>3, <1>4

\* The task of a call is new: it waits out the delay and has all its attempts.
LEMMA NewTask ==
  ASSUME LeaseInv, NEW c \in Callers, call[c].pc = "send", Created(c)
  PROVE  /\ call[c].token \in Tokens
         /\ \E j \in TaskType :
              /\ task' = [task EXCEPT ![call[c].token] = j]
              /\ TaskSound(j) /\ j.st = "queued"
              /\ Remaining(j) = call[c].delay
                   + Max2(Attempt + ByAttempts(1), ByDuration(0))
<1>1. call[c] \in CallType /\ CallSound(call[c])
  BY Typed
<1>2. call[c].token \in Tokens
  BY <1>1 DEF CallSound, Sending
<1>3. PICK j : j = [NoTask EXCEPT !.st = "queued", !.route = call[c].route,
                                  !.wait = call[c].delay]
  OBVIOUS
<1>4. /\ j.st = "queued" /\ j.tries = 0 /\ j.age = 0 /\ j.wait = call[c].delay
  BY <1>3 DEF NoTask
<1>5. j \in TaskType
  <2>1. /\ call[c].route \in {"create", "delete"} /\ call[c].delay \in Timers
    BY <1>1 DEF CallType
  <2>. QED BY <1>3, <2>1, Nothing DEF TaskType
<1>6. TaskSound(j)
  BY <1>4 DEF TaskSound, Handling
<1>7. Remaining(j) = call[c].delay + Max2(Attempt + ByAttempts(1), ByDuration(0))
  BY <1>4 DEF Remaining
<1>8. task' = [task EXCEPT ![call[c].token] = j]
  BY <1>3 DEF Created
<1>. QED BY <1>2, <1>5, <1>4, <1>6, <1>7, <1>8

\* CreateTask: the task starts with the whole window before it.
LEMMA SendStep ==
  ASSUME LeaseInv, NEW c \in Callers, Send(c)
  PROVE  LeaseInv' /\ (ChainInv => ChainInv')
<1>1. /\ rec \in RecType /\ calls \in 0 .. MaxCalls /\ github \in Statuses
      /\ task \in [Tokens -> TaskType] /\ call \in [Callers -> CallType]
      /\ \A d \in Callers : call[d] \in CallType /\ CallSound(call[d])
  BY Typed
<1>2. UNCHANGED <<rec, github, calls>> /\ call[c].pc = "send"
      /\ Created(c) /\ EndCall(c)
  BY DEF Send
<1>3. PICK x \in Tokens : x = call[c].token
  BY <1>2, NewTask
<1>4. PICK j \in TaskType :
        /\ task' = [task EXCEPT ![x] = j]
        /\ TaskSound(j) /\ j.st = "queued"
        /\ Remaining(j) = call[c].delay + Max2(Attempt + ByAttempts(1), ByDuration(0))
  BY <1>2, <1>3, NewTask
<1>5. /\ task' \in [Tokens -> TaskType] /\ task'[x] = j
      /\ \A t \in Tokens \ {x} : task'[t] = task[t]
  BY <1>1, <1>4
<1>6. /\ call' \in [Callers -> CallType]
      /\ \A d \in Callers :
           \/ call'[d] = call[d]
           \/ CallSound(call'[d]) /\ call'[d].pc \notin Sending
  <2>1. 0 \in 0 .. LongestDelay
    BY Durations
  <2>. QED BY <1>2, <2>1, CallsMove
<1>7. LeaseInv'
  <2>1. rec'.until <= LongestMarker /\ rec' \in RecType
    BY <1>1, <1>2 DEF LeaseInv
  <2>2. \A t \in Tokens : task'[t] = task[t] \/ TaskSound(task'[t])
    BY <1>4, <1>5
  <2>3. \A d \in Callers : call'[d] = call[d] \/ CallSound(call'[d])
    BY <1>6
  <2>4. \A t \in Tokens : \/ task'[t].st \notin {"working", "unlease"}
                          \/ task'[t] = task[t] /\ rec' = rec
    BY <1>2, <1>4, <1>5
  <2>5. github' \in Statuses /\ calls' \in 0 .. MaxCalls
    BY <1>1, <1>2
  <2>. QED BY <1>5, <1>6, <2>1, <2>2, <2>3, <2>4, <2>5, KeepsLease
<1>8. ASSUME ChainInv PROVE ChainInv'
  <2>1. SendSound(c)
    BY <1>8 DEF ChainInv
  <2>2. ASSUME NEW d \in Callers, call'[d].pc \in Sending
        PROVE  /\ call[d].pc \in Sending
               /\ call'[d].token = call[d].token /\ call'[d].delay = call[d].delay
               /\ call'[d].pc = "send" => call[d].pc = "send"
               /\ task'[call[d].token].st = "gone"
               /\ rec'.token = call[d].token =>
                    rec'.token = rec.token /\ rec'.until = rec.until
    <3>1. call'[d] = call[d] /\ SendSound(d) /\ CallSound(call[d])
      BY <1>1, <1>6, <1>8, <2>2 DEF ChainInv
    <3>2. d # c
      BY <1>1, <1>2, <2>2, Nothing DEF EndCall, Sending
    <3>3. call[d].token \in Tokens \ {x}
      BY <1>2, <1>3, <2>1, <2>2, <3>1, <3>2 DEF SendSound, CallSound, Sending
    <3>. QED BY <1>2, <1>5, <2>2, <3>1, <3>3 DEF SendSound
  <2>3. ASSUME NEW t \in Tokens, rec'.token = t, task'[t].st # "gone"
        PROVE  \/ Remaining(task'[t]) < rec'.until
               \/ /\ rec'.token = rec.token /\ rec'.until = rec.until /\ task[t].st # "gone"
                  /\ Remaining(task'[t]) <= Remaining(task[t])
                  /\ Remaining(task[t]) \in Nat /\ Remaining(task'[t]) \in Nat
    <3>1. CASE t = x
      <4>1. rec.until >= call[c].delay + DispatchWindow
        BY <1>2, <1>3, <2>1, <2>3, <3>1 DEF SendSound, Sending
      <4>2. /\ call[c].delay \in Nat /\ rec.until \in Nat
        BY <1>1, Durations DEF CallType, RecType
      <4>3. ByAttempts(1) \in Nat /\ ByDuration(0) \in Nat
        BY Policy, AttemptBudget, DurationBudget
      <4>4. Remaining(j) < rec.until
        BY <1>4, <4>1, <4>2, <4>3, WindowSuffices, Policy DEF Max2
      <4>. QED BY <1>2, <1>5, <3>1, <4>4
    <3>2. CASE t # x
      <4>1. Remaining(task[t]) \in Nat
        BY Typed, RemainingIsNat
      <4>. QED BY <1>2, <1>5, <2>3, <3>2, <4>1
    <3>. QED BY <3>1, <3>2
  <2>. QED BY <1>7, <1>8, <2>2, <2>3, KeepsChain
<1>. QED BY <1>7, <1>8

\* A failed send: the call goes on to take the marker off.  Only an answer that was
\* lost leaves a task behind.
LEMMA SendFailsStep ==
  ASSUME LeaseInv, NEW c \in Callers, SendFails(c)
  PROVE  LeaseInv' /\ (ChainInv /\ "lost reply" \notin Faults => ChainInv')
<1>1. /\ rec \in RecType /\ calls \in 0 .. MaxCalls /\ github \in Statuses
      /\ task \in [Tokens -> TaskType] /\ call \in [Callers -> CallType]
      /\ \A d \in Callers : call[d] \in CallType /\ CallSound(call[d])
  BY Typed
<1>2. /\ UNCHANGED <<rec, github, calls>> /\ call[c].pc = "send"
      /\ call' = [call EXCEPT ![c].pc = "undo"]
  BY DEF SendFails
<1>3. PICK k : k = [call[c] EXCEPT !.pc = "undo"]
  OBVIOUS
<1>4. /\ k.pc = "undo" /\ k.token = call[c].token /\ k.delay = call[c].delay
      /\ k \in CallType
  BY <1>1, <1>3 DEF CallType
<1>5. CallSound(k)
  BY <1>1, <1>2, <1>4 DEF CallSound, Sending
<1>6. /\ call' \in [Callers -> CallType] /\ call'[c] = k
      /\ \A d \in Callers \ {c} : call'[d] = call[d]
  BY <1>1, <1>2, <1>3, <1>4
<1>7. /\ task' \in [Tokens -> TaskType]
      /\ \A t \in Tokens :
           \/ task'[t] = task[t]
           \/ TaskSound(task'[t]) /\ task'[t].st = "queued"
  <2>1. CASE UNCHANGED task
    BY <1>1, <2>1
  <2>2. CASE Created(c)
    BY <1>1, <1>2, <2>2, NewTask
  <2>. QED BY <2>1, <2>2 DEF SendFails
<1>8. LeaseInv'
  <2>1. rec'.until <= LongestMarker /\ rec' \in RecType
    BY <1>1, <1>2 DEF LeaseInv
  <2>2. \A t \in Tokens : task'[t] = task[t] \/ TaskSound(task'[t])
    BY <1>7
  <2>3. \A d \in Callers : call'[d] = call[d] \/ CallSound(call'[d])
    BY <1>5, <1>6
  <2>4. \A t \in Tokens : \/ task'[t].st \notin {"working", "unlease"}
                          \/ task'[t] = task[t] /\ rec' = rec
    BY <1>2, <1>7
  <2>5. github' \in Statuses /\ calls' \in 0 .. MaxCalls
    BY <1>1, <1>2
  <2>. QED BY <1>6, <1>7, <2>1, <2>2, <2>3, <2>4, <2>5, KeepsLease
<1>9. ASSUME ChainInv, "lost reply" \notin Faults PROVE ChainInv'
  <2>1. UNCHANGED task
    BY <1>9 DEF SendFails
  <2>2. ASSUME NEW d \in Callers, call'[d].pc \in Sending
        PROVE  /\ call[d].pc \in Sending
               /\ call'[d].token = call[d].token /\ call'[d].delay = call[d].delay
               /\ call'[d].pc = "send" => call[d].pc = "send"
               /\ task'[call[d].token].st = "gone"
               /\ rec'.token = call[d].token =>
                    rec'.token = rec.token /\ rec'.until = rec.until
    <3>1. SendSound(d)
      BY <1>9 DEF ChainInv
    <3>2. CASE d = c
      BY <1>2, <1>4, <1>6, <2>1, <3>1, <3>2 DEF SendSound, Sending
    <3>3. CASE d # c
      BY <1>2, <1>6, <2>1, <2>2, <3>1, <3>3 DEF SendSound
    <3>. QED BY <3>2, <3>3
  <2>3. ASSUME NEW t \in Tokens, task'[t].st # "gone"
        PROVE  /\ rec'.token = rec.token /\ rec'.until = rec.until /\ task[t].st # "gone"
               /\ Remaining(task'[t]) <= Remaining(task[t])
               /\ Remaining(task[t]) \in Nat /\ Remaining(task'[t]) \in Nat
    <3>1. Remaining(task[t]) \in Nat
      BY Typed, RemainingIsNat
    <3>. QED BY <1>2, <2>1, <2>3, <3>1
  <2>. QED BY <1>8, <1>9, <2>2, <2>3, KeepsChain
<1>. QED BY <1>8, <1>9

\* The marker of a task that was never created is taken off.
LEMMA UnmarkStep ==
  ASSUME LeaseInv, NEW c \in Callers, Unmark(c)
  PROVE  LeaseInv' /\ (ChainInv => ChainInv')
<1>1. /\ rec \in RecType /\ calls \in 0 .. MaxCalls /\ github \in Statuses
      /\ task \in [Tokens -> TaskType]
      /\ \A d \in Callers : call[d] \in CallType /\ CallSound(call[d])
      /\ 0 \in 0 .. LongestDelay
  BY Typed, Durations
<1>2. /\ UNCHANGED <<task, github, calls>> /\ call[c].pc = "undo" /\ EndCall(c)
  BY DEF Unmark
<1>3. CASE rec.token # call[c].token
  <2>1. Write(rec)
    BY <1>3 DEF Unmark
  <2>2. /\ rec' \in RecType /\ rec'.until = rec.until /\ rec'.token = rec.token
        /\ rec'.lease = rec.lease /\ rec'.holder = rec.holder
    BY <1>1, <2>1, Written
  <2>. QED BY <1>1, <1>2, <2>2, RequestKeeps
<1>4. CASE rec.token = call[c].token
  <2>1. PICK q : q = [rec EXCEPT !.until = 0, !.due = Soon]
    OBVIOUS
  <2>2. q \in RecType /\ q.until = 0 /\ q.token = rec.token
        /\ q.lease = rec.lease /\ q.holder = rec.holder
    <3>1. 0 \in Timers /\ Soon \in Timers
      BY Durations
    <3>. QED BY <1>1, <2>1, <3>1 DEF RecType
  <2>3. Write(q)
    BY <1>4, <2>1 DEF Unmark
  <2>4. /\ rec' \in RecType /\ rec'.until = 0 /\ rec'.token = rec.token
        /\ rec'.lease = rec.lease /\ rec'.holder = rec.holder
    BY <2>2, <2>3, Written
  <2>5. /\ call' \in [Callers -> CallType]
        /\ \A d \in Callers :
             \/ call'[d] = call[d]
             \/ CallSound(call'[d]) /\ call'[d].pc \notin Sending
    BY <1>1, <1>2, CallsMove
  <2>6. LeaseInv'
    <3>1. rec'.until <= LongestMarker
      BY <2>4, Durations
    <3>2. \A d \in Callers : call'[d] = call[d] \/ CallSound(call'[d])
      BY <2>5
    <3>. QED BY <1>1, <1>2, <2>4, <2>5, <3>1, <3>2, KeepsLease
  <2>7. ASSUME ChainInv PROVE ChainInv'
    <3>1. SendSound(c)
      BY <2>7 DEF ChainInv
    <3>2. ASSUME NEW d \in Callers, call'[d].pc \in Sending
          PROVE  /\ call[d].pc \in Sending
                 /\ call'[d].token = call[d].token /\ call'[d].delay = call[d].delay
                 /\ call'[d].pc = "send" => call[d].pc = "send"
                 /\ task'[call[d].token].st = "gone"
                 /\ rec'.token = call[d].token =>
                      rec'.token = rec.token /\ rec'.until = rec.until
      <4>1. call'[d] = call[d] /\ SendSound(d)
        BY <2>5, <2>7, <3>2 DEF ChainInv
      <4>2. d # c
        BY <1>2, <3>2, Nothing, Typed DEF EndCall, Sending
      <4>3. call[d].token # call[c].token
        BY <1>2, <3>1, <4>2 DEF SendSound, Sending
      <4>. QED BY <1>2, <1>4, <2>4, <3>2, <4>1, <4>3 DEF SendSound
    <3>3. ASSUME NEW t \in Tokens, rec'.token = t PROVE task'[t].st = "gone"
      BY <1>2, <1>4, <2>4, <3>1, <3>3 DEF SendSound, Sending
    <3>. QED BY <2>6, <2>7, <3>2, <3>3, KeepsChain
  <2>. QED BY <2>6, <2>7
<1>. QED BY <1>3, <1>4

-----------------------------------------------------------------------------
(***************************************************************************)
(* The deliveries.                                                         *)
(***************************************************************************)
\* A delivery moves one task, within what its chain may still take, and leaves the
\* lease alone unless nobody else works under it.
LEMMA DeliveryKeeps ==
  ASSUME LeaseInv, NEW t \in Tokens, task[t].st # "gone",
         NEW j \in TaskType, TaskSound(j), task' = [task EXCEPT ![t] = j],
         j.st = "gone" \/ Remaining(j) <= Remaining(task[t]),
         UNCHANGED <<call, github, calls>>, rec' \in RecType,
         \/ j.st \notin {"working", "unlease"}
         \/ rec'.holder = t /\ j.left < rec'.lease,
         \/ rec'.holder = rec.holder /\ rec'.lease = rec.lease
         \/ \A u \in Tokens \ {t} : task[u].st \notin {"working", "unlease"},
         \/ rec'.token = NoToken /\ rec'.until = 0
         \/ rec'.token = rec.token /\ rec'.until = rec.until
  PROVE  LeaseInv' /\ (ChainInv => ChainInv')
<1>1. /\ rec \in RecType /\ calls \in 0 .. MaxCalls /\ github \in Statuses
      /\ task \in [Tokens -> TaskType] /\ call \in [Callers -> CallType]
      /\ \A d \in Callers : CallSound(call[d])
  BY Typed
<1>2. /\ task' \in [Tokens -> TaskType] /\ task'[t] = j
      /\ \A u \in Tokens \ {t} : task'[u] = task[u]
  BY <1>1
<1>3. LeaseInv'
  <2>1. rec'.until <= LongestMarker
    BY Durations DEF LeaseInv
  <2>2. \A u \in Tokens : task'[u] = task[u] \/ TaskSound(task'[u])
    BY <1>2
  <2>3. \A u \in Tokens :
          \/ task'[u].st \notin {"working", "unlease"}
          \/ rec'.holder = u /\ task'[u].left < rec'.lease
          \/ task'[u] = task[u] /\ rec'.holder = rec.holder /\ rec'.lease = rec.lease
    BY <1>2
  <2>4. github' \in Statuses /\ calls' \in 0 .. MaxCalls /\ call' \in [Callers -> CallType]
    BY <1>1
  <2>5. \A d \in Callers : call'[d] = call[d]
    OBVIOUS
  <2>. QED BY <1>2, <2>1, <2>2, <2>3, <2>4, <2>5, KeepsLease
<1>4. ASSUME ChainInv PROVE ChainInv'
  <2>1. ASSUME NEW d \in Callers, call'[d].pc \in Sending
        PROVE  /\ call[d].pc \in Sending
               /\ call'[d].token = call[d].token /\ call'[d].delay = call[d].delay
               /\ call'[d].pc = "send" => call[d].pc = "send"
               /\ task'[call[d].token].st = "gone"
               /\ rec'.token = call[d].token =>
                    rec'.token = rec.token /\ rec'.until = rec.until
    <3>1. SendSound(d) /\ CallSound(call[d]) /\ call[d].pc \in Sending
      BY <1>1, <1>4, <2>1 DEF ChainInv
    <3>2. call[d].token \in Tokens \ {t} /\ call[d].token # NoToken
      BY <3>1, Policy DEF SendSound, CallSound
    <3>. QED BY <1>2, <3>1, <3>2 DEF SendSound
  <2>2. ASSUME NEW u \in Tokens, rec'.token = u, task'[u].st # "gone"
        PROVE  /\ rec'.token = rec.token /\ rec'.until = rec.until /\ task[u].st # "gone"
               /\ Remaining(task'[u]) <= Remaining(task[u])
               /\ Remaining(task[u]) \in Nat /\ Remaining(task'[u]) \in Nat
    <3>1. Remaining(task[u]) \in Nat /\ Remaining(j) \in Nat
      BY Typed, RemainingIsNat
    <3>2. rec'.token = rec.token /\ rec'.until = rec.until
      BY <2>2, Policy
    <3>3. CASE u = t
      BY <1>2, <2>2, <3>1, <3>2, <3>3
    <3>4. CASE u # t
      BY <1>2, <2>2, <3>1, <3>2, <3>4
    <3>. QED BY <3>3, <3>4
  <2>. QED BY <1>3, <1>4, <2>1, <2>2, KeepsChain
<1>. QED BY <1>3, <1>4

\* A delivery that goes from one stage to the next has spent nothing.
LEMMA StageKeeps ==
  ASSUME LeaseInv, NEW t \in Tokens, Running(t),
         NEW st \in Handling, NEW out \in Outcomes,
         \/ Step(t, st)
         \/ task' = [task EXCEPT ![t].st = st, ![t].out = out]
  PROVE  \E j \in TaskType :
           /\ task' = [task EXCEPT ![t] = j] /\ TaskSound(j)
           /\ j.st = st /\ j.left = task[t].left
           /\ Remaining(j) <= Remaining(task[t])
<1>1. PICK k \in TaskType : k = task[t] /\ TaskSound(k) /\ k.st \in Handling
  BY Typed DEF Running
<1>2. PICK j \in {[k EXCEPT !.st = st], [k EXCEPT !.st = st, !.out = out]} :
        task' = [task EXCEPT ![t] = j]
  BY <1>1 DEF Step
<1>3. /\ j \in TaskType /\ j.st = st /\ j.left = k.left /\ j.tries = k.tries
      /\ j.age = k.age
  BY <1>2 DEF TaskType
<1>4. TaskSound(j)
  BY <1>1, <1>3 DEF TaskSound
<1>5. /\ Remaining(k) = Max2(k.left + ByAttempts(k.tries), ByDuration(k.age))
      /\ Remaining(j) = Max2(k.left + ByAttempts(k.tries), ByDuration(k.age))
  BY <1>1, <1>3 DEF Remaining, Handling
<1>6. Remaining(j) <= Remaining(task[t])
  <2>1. Remaining(j) \in Nat /\ Remaining(j) = Remaining(task[t])
    BY <1>1, <1>3, <1>5, RemainingIsNat
  <2>. QED BY <2>1
<1>. QED BY <1>1, <1>2, <1>3, <1>4, <1>6

\* activeTask: the delivery starts, or it is obsolete and dropped.
LEMMA DeliverStep ==
  ASSUME LeaseInv, NEW t \in Tokens, Deliver(t)
  PROVE  LeaseInv' /\ (ChainInv => ChainInv')
<1>1. rec \in RecType /\ task[t] \in TaskType /\ TaskSound(task[t])
  BY Typed
<1>2. /\ task[t].st = "queued" /\ task[t].wait = 0 /\ UNCHANGED <<rec, call, github, calls>>
  BY DEF Deliver
<1>3. PICK j \in TaskType :
        /\ task' = [task EXCEPT ![t] = j] /\ TaskSound(j)
        /\ j.st \in {"gone", "active"}
        /\ j.st = "gone" \/ Remaining(j) <= Remaining(task[t])
  <2>1. CASE rec.token # t
    <3>1. task' = [task EXCEPT ![t] = NoTask]
      BY <2>1 DEF Deliver
    <3>. QED BY <3>1, Nothing
  <2>2. CASE rec.token = t
    <3>1. PICK j \in TaskType :
            /\ j = [task[t] EXCEPT !.st = "active", !.left = Attempt,
                      !.tries = IF @ < RetryAttempts THEN @ + 1 ELSE @]
            /\ TaskSound(j) /\ j.st = "active" /\ Remaining(j) = Remaining(task[t])
      BY <1>1, <1>2, DeliverySpends
    <3>2. task' = [task EXCEPT ![t] = j]
      <4>1. task' = [task EXCEPT ![t] =
              [task[t] EXCEPT !.st = "active", !.left = Attempt,
                 !.tries = IF @ < RetryAttempts THEN @ + 1 ELSE @]]
        BY <2>2, Zenon DEF Deliver
      <4>. QED BY <3>1, <4>1, Zenon
    <3>3. Remaining(j) <= Remaining(task[t])
      <4>1. Remaining(j) \in Nat
        BY RemainingIsNat
      <4>. QED BY <3>1, <4>1
    <3>. QED BY <3>1, <3>2, <3>3
  <2>. QED BY <2>1, <2>2
<1>. QED BY <1>1, <1>2, <1>3, DeliveryKeeps

\* acquireJob: the lease is taken only when it is free, for longer than the delivery
\* may still last; nobody who works holds a lease that is over.
LEMMA ClaimStep ==
  ASSUME LeaseInv, NEW t \in Tokens, Claim(t)
  PROVE  LeaseInv' /\ (ChainInv => ChainInv')
<1>1. rec \in RecType /\ task[t] \in TaskType
  BY Typed
<1>2. UNCHANGED <<call, github, calls>> /\ Running(t) /\ task[t].st # "gone"
  BY DEF Claim, Running, Handling
<1>3. CASE rec.lease > 0
  <2>1. Result(t, "busy") /\ UNCHANGED rec
    BY <1>3 DEF Claim
  <2>2. PICK j \in TaskType :
          /\ task' = [task EXCEPT ![t] = j] /\ TaskSound(j) /\ j.st = "finish"
          /\ Remaining(j) <= Remaining(task[t])
    BY <1>2, <2>1, StageKeeps DEF Result, Handling, Outcomes
  <2>. QED BY <1>1, <1>2, <2>1, <2>2, DeliveryKeeps
<1>4. CASE ~(rec.lease > 0)
  <2>1. Step(t, "working") /\ Write([rec EXCEPT !.lease = LeaseTime, !.holder = t])
    BY <1>4 DEF Claim
  <2>2. PICK j \in TaskType :
          /\ task' = [task EXCEPT ![t] = j] /\ TaskSound(j) /\ j.st = "working"
          /\ j.left = task[t].left /\ Remaining(j) <= Remaining(task[t])
    BY <1>2, <2>1, StageKeeps DEF Handling, Outcomes
  <2>3. PICK q : q = [rec EXCEPT !.lease = LeaseTime, !.holder = t]
    OBVIOUS
  <2>4. LeaseTime \in 0 .. LeaseTime
    BY Durations
  <2>5. /\ q \in RecType /\ q.until = rec.until /\ q.token = rec.token
        /\ q.lease = LeaseTime /\ q.holder = t
    BY <1>1, <2>3, <2>4 DEF RecType
  <2>6. /\ rec' \in RecType /\ rec'.until = rec.until /\ rec'.token = rec.token
        /\ rec'.lease = LeaseTime /\ rec'.holder = t
    BY <2>1, <2>3, <2>5, Written
  <2>7. j.left < LeaseTime
    <3>1. task[t].left \in 0 .. Attempt /\ Attempt \in Nat
      BY <1>1, Policy DEF TaskType
    <3>2. LeaseTime \in Nat /\ Attempt < LeaseTime
      BY Durations
    <3>. QED BY <2>2, <3>1, <3>2
  <2>8. \A u \in Tokens : task[u].st \notin {"working", "unlease"}
    <3>1. ASSUME NEW u \in Tokens, task[u].st \in {"working", "unlease"} PROVE FALSE
      <4>1. task[u].left < rec.lease
        BY <3>1 DEF LeaseInv
      <4>2. task[u].left \in Nat /\ rec.lease \in Nat
        BY Typed, Durations, Policy DEF TaskType, RecType
      <4>. QED BY <1>4, <4>1, <4>2
    <3>. QED BY <3>1
  <2>. QED BY <1>1, <1>2, <2>2, <2>6, <2>7, <2>8, DeliveryKeeps
<1>. QED BY <1>3, <1>4

\* processJob: a pass keeps the lease and the marker.
LEMMA WorkStep ==
  ASSUME LeaseInv, NEW t \in Tokens, Work(t)
  PROVE  LeaseInv' /\ (ChainInv => ChainInv')
<1>1. rec \in RecType /\ task[t] \in TaskType /\ github \in Statuses
  BY Typed
<1>2. /\ UNCHANGED <<call, github, calls>> /\ Running(t) /\ task[t].st = "working"
  BY DEF Work, Running, Handling
<1>3. PICK out \in {"ok", "full", "later", "permanent", "transient"}, r \in {rec, Noted},
           vm \in BOOLEAN, due \in {rec.due, Soon, Long} :
        /\ Write([r EXCEPT !.vm = vm, !.due = due])
        /\ task' = [task EXCEPT ![t].st = "unlease", ![t].out = out]
  BY DEF Work
<1>4. PICK j \in TaskType :
        /\ task' = [task EXCEPT ![t] = j] /\ TaskSound(j) /\ j.st = "unlease"
        /\ j.left = task[t].left /\ Remaining(j) <= Remaining(task[t])
  <2>1. "unlease" \in Handling /\ out \in Outcomes
    BY DEF Handling, Outcomes
  <2>. QED BY <1>2, <1>3, <2>1, StageKeeps
<1>5. /\ r \in RecType /\ r.until = rec.until /\ r.token = rec.token
      /\ r.lease = rec.lease /\ r.holder = rec.holder
  BY <1>1 DEF RecType, Noted
<1>6. PICK q : q = [r EXCEPT !.vm = vm, !.due = due]
  OBVIOUS
<1>7. due \in Timers
  BY <1>1, Durations DEF RecType
<1>8. /\ q \in RecType /\ q.until = rec.until /\ q.token = rec.token
      /\ q.lease = rec.lease /\ q.holder = rec.holder
  BY <1>5, <1>6, <1>7 DEF RecType
<1>9. /\ rec' \in RecType /\ rec'.until = rec.until /\ rec'.token = rec.token
      /\ rec'.lease = rec.lease /\ rec'.holder = rec.holder
  BY <1>3, <1>6, <1>8, Written
<1>10. rec.holder = t /\ task[t].left < rec.lease
  BY <1>2 DEF LeaseInv
<1>. QED BY <1>1, <1>2, <1>4, <1>9, <1>10, DeliveryKeeps

\* releaseJob gives back one's own lease and nobody else's.
LEMMA UnleaseStep ==
  ASSUME LeaseInv, NEW t \in Tokens, Unlease(t)
  PROVE  LeaseInv' /\ (ChainInv => ChainInv')
<1>1. rec \in RecType /\ task[t] \in TaskType
  BY Typed
<1>2. /\ UNCHANGED <<call, github, calls>> /\ Running(t) /\ task[t].st = "unlease"
      /\ Step(t, "finish")
  BY DEF Unlease, Running, Handling
<1>3. PICK j \in TaskType :
        /\ task' = [task EXCEPT ![t] = j] /\ TaskSound(j) /\ j.st = "finish"
        /\ Remaining(j) <= Remaining(task[t])
  BY <1>2, StageKeeps DEF Handling, Outcomes
<1>4. rec.holder = t /\ \A u \in Tokens \ {t} : task[u].st \notin {"working", "unlease"}
  BY <1>2 DEF LeaseInv
<1>5. PICK q : q = [rec EXCEPT !.lease = 0, !.holder = NoToken]
  OBVIOUS
<1>6. 0 \in 0 .. LeaseTime
  BY Durations
<1>7. q \in RecType /\ q.until = rec.until /\ q.token = rec.token
  BY <1>1, <1>5, <1>6 DEF RecType
<1>8. Write(q)
  BY <1>4, <1>5 DEF Unlease
<1>9. rec' \in RecType /\ rec'.until = rec.until /\ rec'.token = rec.token
  BY <1>7, <1>8, Written
<1>. QED BY <1>1, <1>2, <1>3, <1>4, <1>9, DeliveryKeeps

\* deleteRunner, whether it got its way or not.
LEMMA DeleteSteps ==
  ASSUME LeaseInv, NEW t \in Tokens, DeleteDone(t) \/ DeleteHeldBack(t)
  PROVE  LeaseInv' /\ (ChainInv => ChainInv')
<1>1. rec \in RecType /\ task[t] \in TaskType
  BY Typed
<1>2. /\ UNCHANGED <<call, github, calls>> /\ Running(t) /\ task[t].st = "active"
  BY DEF DeleteDone, DeleteHeldBack, Running, Handling
<1>3. /\ rec' \in RecType /\ rec'.until = rec.until /\ rec'.token = rec.token
      /\ rec'.lease = rec.lease /\ rec'.holder = rec.holder
  <2>1. CASE UNCHANGED rec
    BY <1>1, <2>1
  <2>2. CASE DeleteDone(t)
    <3>1. PICK vm \in BOOLEAN : Write([rec EXCEPT !.pd = FALSE, !.vm = vm])
      BY <2>2 DEF DeleteDone
    <3>2. PICK q : q = [rec EXCEPT !.pd = FALSE, !.vm = vm]
      OBVIOUS
    <3>3. /\ q \in RecType /\ q.until = rec.until /\ q.token = rec.token
          /\ q.lease = rec.lease /\ q.holder = rec.holder
      BY <1>1, <3>2 DEF RecType
    <3>. QED BY <3>1, <3>2, <3>3, Written
  <2>. QED BY <2>1, <2>2 DEF DeleteHeldBack
<1>4. PICK j \in TaskType :
        /\ task' = [task EXCEPT ![t] = j] /\ TaskSound(j)
        /\ j.st \in {"gone", "queued", "finish"}
        /\ j.st = "gone" \/ Remaining(j) <= Remaining(task[t])
  <2>1. CASE Result(t, "ok")
    BY <1>2, <2>1, StageKeeps DEF Result, Handling, Outcomes
  <2>2. CASE Retry(t)
    BY <1>2, <2>2, RetrySpends
  <2>. QED BY <2>1, <2>2 DEF DeleteDone, DeleteHeldBack
<1>. QED BY <1>1, <1>2, <1>3, <1>4, DeliveryKeeps

\* finishTask: the marker goes together with its token, or both stay.
LEMMA FinishTaskStep ==
  ASSUME LeaseInv, NEW t \in Tokens, FinishTask(t)
  PROVE  LeaseInv' /\ (ChainInv => ChainInv')
<1>1. rec \in RecType /\ task[t] \in TaskType
  BY Typed
<1>2. /\ UNCHANGED <<call, github, calls>> /\ Running(t) /\ task[t].st = "finish"
  BY DEF FinishTask, Running, Handling
<1>3. /\ rec' \in RecType /\ rec'.lease = rec.lease /\ rec'.holder = rec.holder
      /\ \/ rec'.token = NoToken /\ rec'.until = 0
         \/ rec'.token = rec.token /\ rec'.until = rec.until
  <2>1. CASE UNCHANGED rec
    BY <1>1, <2>1
  <2>2. CASE ~UNCHANGED rec
    <3>1. PICK vm \in {rec.vm, FALSE}, due \in {Soon, Long}, failure \in BOOLEAN :
            Write([rec EXCEPT !.until = 0, !.token = NoToken, !.vm = vm, !.due = due,
                              !.failure = failure])
      <4>1. PICK vm \in {rec.vm, FALSE} :
              Write([rec EXCEPT !.until = 0, !.token = NoToken, !.vm = vm,
                       !.due = IF \/ task[t].out \in {"permanent", "later"}
                                  \/ task[t].out = "ok" /\ rec.status = "in_progress"
                               THEN Long ELSE Soon,
                       !.failure = @ \/ task[t].out = "permanent"])
        BY <2>2 DEF FinishTask
      <4>2. (rec.failure \/ task[t].out = "permanent") \in BOOLEAN
        OBVIOUS
      <4>. QED BY <4>1, <4>2
    <3>2. PICK q : q = [rec EXCEPT !.until = 0, !.token = NoToken, !.vm = vm, !.due = due,
                                   !.failure = failure]
      OBVIOUS
    <3>3. 0 \in Timers /\ due \in Timers
      BY Durations
    <3>4. /\ q \in RecType /\ q.until = 0 /\ q.token = NoToken
          /\ q.lease = rec.lease /\ q.holder = rec.holder
      BY <1>1, <3>2, <3>3 DEF RecType
    <3>. QED BY <3>1, <3>2, <3>4, Written
  <2>. QED BY <2>1, <2>2
<1>4. PICK j \in TaskType :
        /\ task' = [task EXCEPT ![t] = j] /\ TaskSound(j)
        /\ j.st \in {"gone", "queued"}
        /\ j.st = "gone" \/ Remaining(j) <= Remaining(task[t])
  <2>1. CASE Retry(t)
    BY <1>2, <2>1, RetrySpends
  <2>2. CASE task' = [task EXCEPT ![t] = NoTask]
    BY <2>2, Nothing
  <2>. QED BY <2>1, <2>2 DEF FinishTask
<1>. QED BY <1>1, <1>2, <1>3, <1>4, DeliveryKeeps

\* A delivery that dies is retried, whatever it held.
LEMMA DeliveryDiesStep ==
  ASSUME LeaseInv, NEW t \in Tokens, DeliveryDies(t)
  PROVE  LeaseInv' /\ (ChainInv => ChainInv')
<1>1. rec \in RecType /\ UNCHANGED <<rec, call, github, calls>>
  BY Typed DEF DeliveryDies
<1>2. Running(t) /\ Retry(t) /\ task[t].st # "gone"
  BY DEF DeliveryDies, Running, Handling
<1>3. PICK j \in TaskType :
        /\ task' = [task EXCEPT ![t] = j] /\ TaskSound(j)
        /\ j.st \in {"gone", "queued"}
        /\ j.st = "gone" \/ Remaining(j) <= Remaining(task[t])
  BY <1>2, RetrySpends
<1>. QED BY <1>1, <1>2, <1>3, DeliveryKeeps

-----------------------------------------------------------------------------
(***************************************************************************)
(* Time.                                                                   *)
(***************************************************************************)
\* A unit of time takes one from the marker and at least one from its chain; it
\* takes one from the lease and one from the delivery that works under it.
LEMMA TickStep ==
  ASSUME LeaseInv, Tick
  PROVE  LeaseInv' /\ (ChainInv => ChainInv')
<1>1. /\ rec \in RecType /\ calls \in 0 .. MaxCalls /\ github \in Statuses
      /\ call \in [Callers -> CallType]
      /\ \A t \in Tokens : task[t] \in TaskType /\ TaskSound(task[t])
  BY Typed
<1>2. /\ UNCHANGED <<call, github, calls>>
      /\ \A c \in Callers : call[c].pc \notin Sending
  BY DEF Tick, Sending
<1>3. PICK q : q = [rec EXCEPT !.due = Before(@), !.until = Before(@), !.lease = Before(@),
                               !.holder = IF rec.lease > 1 THEN @ ELSE NoToken]
  OBVIOUS
<1>4. /\ q.until = Before(rec.until) /\ q.lease = Before(rec.lease) /\ q.token = rec.token
      /\ q.holder = IF rec.lease > 1 THEN rec.holder ELSE NoToken
      /\ q.due = Before(rec.due)
  BY <1>1, <1>3 DEF RecType
<1>5. \A top \in Nat : \A n \in 0 .. top : Before(n) \in 0 .. top /\ Before(n) <= n
  BY DEF Before, Max2
<1>6. /\ q.due \in Timers /\ q.until \in Timers /\ q.lease \in 0 .. LeaseTime
      /\ q.until <= LongestMarker
  <2>1. PICK top \in Nat : Timers = 0 .. top
    BY Durations
  <2>2. /\ rec.due \in 0 .. top /\ rec.until \in 0 .. top /\ rec.lease \in 0 .. LeaseTime
    BY <1>1, <2>1 DEF RecType
  <2>3. rec.until <= LongestMarker /\ LongestMarker \in Nat /\ LeaseTime \in Nat
    BY Durations DEF LeaseInv
  <2>4. q.until \in 0 .. top /\ q.until <= rec.until
    BY <1>4, <1>5, <2>2
  <2>5. q.until <= LongestMarker
    BY <2>2, <2>3, <2>4
  <2>. QED BY <1>4, <1>5, <2>1, <2>2, <2>3, <2>4, <2>5
<1>7. q \in RecType
  <2>1. q.holder \in Tokens \cup {NoToken}
    BY <1>1, <1>4 DEF RecType
  <2>. QED BY <1>1, <1>3, <1>4, <1>6, <2>1 DEF RecType
<1>8. rec' = q
  BY <1>3 DEF Tick
<1>9. ASSUME NEW t \in Tokens, task[t].st = "gone"
      PROVE  task'[t] = task[t]
  BY <1>9 DEF Tick
<1>10. ASSUME NEW t \in Tokens, task[t].st # "gone"
       PROVE  /\ task'[t] \in TaskType /\ TaskSound(task'[t]) /\ task'[t].st = task[t].st
              /\ task'[t].left = Before(task[t].left)
              /\ Remaining(task'[t]) < Remaining(task[t])
  <2>1. /\ task[t].st = "queued" => task[t].wait > 0
        /\ task[t].st \in Handling => task[t].left > 0
    BY DEF Tick, Running
  <2>2. PICK j \in TaskType :
          /\ j = [task[t] EXCEPT !.wait = Before(@), !.left = Before(@),
                    !.age = IF task[t].tries > 0 /\ @ < RetryMaxDuration THEN @ + 1 ELSE @]
          /\ TaskSound(j) /\ j.st = task[t].st /\ j.left = Before(task[t].left)
          /\ Remaining(j) < Remaining(task[t])
    BY <1>1, <1>10, <2>1, TimeSpends
  <2>3. task'[t] =
          [task[t] EXCEPT !.wait = Before(@), !.left = Before(@),
             !.age = IF task[t].tries > 0 /\ @ < RetryMaxDuration THEN @ + 1 ELSE @]
    BY <1>10, Zenon DEF Tick
  <2>. QED BY <2>2, <2>3, Zenon
<1>11. task' \in [Tokens -> TaskType]
  <2>1. \A t \in Tokens : task'[t] \in TaskType
    BY <1>1, <1>9, <1>10
  <2>2. task' = [t \in Tokens |-> task'[t]]
    BY DEF Tick
  <2>. QED BY <2>1, <2>2
<1>12. ASSUME NEW t \in Tokens, task'[t].st \in {"working", "unlease"}
       PROVE  rec'.holder = t /\ task'[t].left < rec'.lease
  <2>1. task[t].st \in {"working", "unlease"}
    BY <1>9, <1>10, <1>12
  <2>2. rec.holder = t /\ task[t].left < rec.lease
    BY <2>1 DEF LeaseInv
  <2>3. task[t].left > 0 /\ task[t].left \in Nat /\ rec.lease \in Nat
    <3>1. Running(t) /\ task[t].left > 0
      BY <2>1 DEF Tick, Running, Handling
    <3>2. task[t].left \in 0 .. Attempt /\ rec.lease \in 0 .. LeaseTime
      BY <1>1 DEF TaskType, RecType
    <3>. QED BY <3>1, <3>2, Durations, Policy
  <2>4. task'[t].left = Before(task[t].left)
    BY <1>10, <2>1
  <2>. QED BY <1>4, <1>8, <2>2, <2>3, <2>4 DEF Before, Max2
<1>13. LeaseInv'
  <2>1. \A t \in Tokens : task'[t] = task[t] \/ TaskSound(task'[t])
    BY <1>9, <1>10
  <2>2. rec' \in RecType /\ rec'.until <= LongestMarker
    BY <1>6, <1>7, <1>8
  <2>3. \A c \in Callers : call'[c] = call[c]
    BY <1>2
  <2>4. github' \in Statuses /\ calls' \in 0 .. MaxCalls /\ call' \in [Callers -> CallType]
    BY <1>1, <1>2
  <2>. QED BY <1>11, <1>12, <2>1, <2>2, <2>3, <2>4, KeepsLease
<1>14. ASSUME ChainInv PROVE ChainInv'
  <2>1. ASSUME NEW t \in Tokens, rec'.token = t, task'[t].st # "gone"
        PROVE  Remaining(task'[t]) < rec'.until
    <3>1. task[t].st # "gone" /\ rec.token = t
      BY <1>4, <1>8, <1>9, <2>1
    <3>2. Remaining(task[t]) < rec.until /\ Remaining(task'[t]) < Remaining(task[t])
      BY <1>10, <1>14, <3>1 DEF ChainInv, MarkerSuffices
    <3>3. /\ Remaining(task[t]) \in Nat /\ Remaining(task'[t]) \in Nat
          /\ rec.until \in Nat
      BY <1>1, <1>10, <3>1, RemainingIsNat, Durations DEF RecType
    <3>. QED BY <1>4, <1>8, <3>2, <3>3 DEF Before, Max2
  <2>2. \A c \in Callers : call'[c].pc \notin Sending
    BY <1>2
  <2>. QED BY <1>13, <1>14, <2>1, <2>2, KeepsChain
<1>. QED BY <1>13, <1>14

-----------------------------------------------------------------------------
(***************************************************************************)
(* The invariants.                                                         *)
(***************************************************************************)
LeaseSteps == LeaseInv' /\ (ChainInv /\ "lost reply" \notin Faults => ChainInv')

\* Nothing is marked, queued or asked for at first.
LEMMA DispatchInit == Init => LeaseInv /\ ChainInv
<1>. SUFFICES ASSUME Init PROVE LeaseInv /\ ChainInv
  OBVIOUS
<1>1. /\ \A t \in Tokens : task[t] = NoTask
      /\ \A c \in Callers : call[c] = NoCall
      /\ rec = NewRecord /\ github = "none" /\ calls = 0
  BY DEF Init
<1>2. NewRecord \in RecType /\ NewRecord.until = 0 /\ NewRecord.token = NoToken
  <2>1. 0 \in Timers /\ 0 \in 0 .. LeaseTime
    BY Durations
  <2>. QED BY <2>1 DEF NewRecord, RecType, Statuses
<1>3. DispatchTypeOK
  <2>1. task \in [Tokens -> TaskType] /\ call \in [Callers -> CallType]
    BY Nothing DEF Init
  <2>2. MaxCalls \in Nat
    BY DispatchAssumption
  <2>3. github \in Statuses /\ calls \in 0 .. MaxCalls /\ rec \in RecType
    BY <1>1, <1>2, <2>2 DEF Statuses
  <2>. QED BY <2>1, <2>3 DEF DispatchTypeOK, RecType, TaskType, CallType
<1>4. LeaseInv
  <2>1. rec.until <= LongestMarker
    BY <1>1, <1>2, Durations
  <2>. QED BY <1>1, <1>3, <2>1, Nothing DEF LeaseInv
<1>5. (\A c \in Callers : SendSound(c)) /\ (\A t \in Tokens : MarkerSuffices(t))
  BY <1>1, Nothing DEF SendSound, Sending, MarkerSuffices
<1>. QED BY <1>4, <1>5 DEF ChainInv

\* Every step keeps types and lease; it keeps the chain within its marker unless a
\* reply of CreateTask is lost.
LEMMA DispatchStep == LeaseInv /\ [Next]_vars => LeaseSteps
<1>. SUFFICES ASSUME LeaseInv, [Next]_vars PROVE LeaseSteps
  OBVIOUS
<1>1. ASSUME NEW c \in Callers, NEW s \in Statuses \ {"none"}, NEW named \in BOOLEAN,
             Webhook(c, s, named)
      PROVE  LeaseSteps
  BY <1>1, WebhookStep DEF LeaseSteps
<1>2. ASSUME NEW c \in Callers, Recreate(c) PROVE LeaseSteps
  BY <1>2, RecreateStep DEF LeaseSteps
<1>3. ASSUME NEW c \in Callers, Reconcile(c) \/ CallerDies(c) PROVE LeaseSteps
  BY <1>3, OtherRequestSteps DEF LeaseSteps
<1>4. ASSUME NEW c \in Callers, MarkOutbox(c) PROVE LeaseSteps
  BY <1>4, MarkOutboxStep DEF LeaseSteps
<1>5. ASSUME NEW c \in Callers, Send(c) PROVE LeaseSteps
  BY <1>5, SendStep DEF LeaseSteps
<1>6. ASSUME NEW c \in Callers, SendFails(c) PROVE LeaseSteps
  BY <1>6, SendFailsStep DEF LeaseSteps
<1>7. ASSUME NEW c \in Callers, Unmark(c) PROVE LeaseSteps
  BY <1>7, UnmarkStep DEF LeaseSteps
<1>8. ASSUME NEW t \in Tokens, Deliver(t) PROVE LeaseSteps
  BY <1>8, DeliverStep DEF LeaseSteps
<1>9. ASSUME NEW t \in Tokens, Handle(t) PROVE LeaseSteps
  BY <1>9, ClaimStep, WorkStep, UnleaseStep, DeleteSteps, FinishTaskStep
     DEF Handle, LeaseSteps
<1>10. ASSUME NEW t \in Tokens, DeliveryDies(t) PROVE LeaseSteps
  BY <1>10, DeliveryDiesStep DEF LeaseSteps
<1>11. CASE GitHubProceeds
  <2>1. CASE Callers = {}
    <3>1. /\ UNCHANGED <<rec, task, call, calls>> /\ github' \in Statuses
      BY <1>11 DEF GitHubProceeds, Statuses
    <3>2. LeaseInv'
      BY <3>1 DEF LeaseInv, DispatchTypeOK
    <3>3. ChainInv => ChainInv'
      BY <3>1, <3>2 DEF ChainInv, SendSound, MarkerSuffices
    <3>. QED BY <3>2, <3>3 DEF LeaseSteps
  <2>2. CASE Callers # {}
    <3>1. PICK c \in Callers : TRUE
      BY <2>2
    <3>2. UNCHANGED call
      BY <1>11 DEF GitHubProceeds
    <3>. QED BY <1>11, <3>1, <3>2, OtherRequestSteps DEF LeaseSteps
  <2>. QED BY <2>1, <2>2
<1>12. CASE Tick
  BY <1>12, TickStep DEF LeaseSteps
<1>13. CASE UNCHANGED vars
  <2>1. UNCHANGED <<rec, task, call, github, calls>>
    BY <1>13 DEF vars
  <2>2. LeaseInv'
    BY <2>1 DEF LeaseInv, DispatchTypeOK
  <2>3. ChainInv => ChainInv'
    BY <2>1, <2>2 DEF ChainInv, SendSound, MarkerSuffices
  <2>. QED BY <2>2, <2>3 DEF LeaseSteps
<1>. QED BY <1>1, <1>2, <1>3, <1>4, <1>5, <1>6, <1>7, <1>8, <1>9, <1>10, <1>11, <1>12,
            <1>13, Zenon DEF Next

\* What the types, the lease and the marker rest on.
THEOREM DispatchInvariant ==
  /\ Spec => []LeaseInv
  /\ "lost reply" \notin Faults => (Spec => []ChainInv)
<1>1. Init => LeaseInv /\ ChainInv
  BY DispatchInit
<1>2. LeaseInv /\ [Next]_vars => LeaseInv'
  BY DispatchStep DEF LeaseSteps
<1>3. Spec => []LeaseInv
  BY <1>1, <1>2, PTL DEF Spec
<1>4. ASSUME "lost reply" \notin Faults PROVE Spec => []ChainInv
  <2>1. ChainInv /\ [Next]_vars => ChainInv'
    BY <1>4, DispatchStep DEF LeaseSteps, ChainInv
  <2>. QED BY <1>1, <2>1, PTL DEF Spec
<1>. QED BY <1>3, <1>4

\* Every timer of a record and of a task is bounded and every reference names a task,
\* whichever faults strike.
THEOREM DispatchTyped == Spec => []DispatchTypeOK
<1>1. LeaseInv => DispatchTypeOK
  BY DEF LeaseInv
<1>. QED BY <1>1, DispatchInvariant, PTL

\* acquireJob's lease is longer than any delivery: whoever works still holds it,
\* whichever faults strike.
THEOREM LeaseHolds == Spec => []LeaseOutlastsWorker
<1>1. LeaseInv => LeaseOutlastsWorker
  BY DEF LeaseInv, LeaseOutlastsWorker
<1>. QED BY <1>1, DispatchInvariant, PTL

\* dispatchWindow's promise, for every retry policy: as long as a failed CreateTask
\* means that there is no task, a task that may still run has a marker that is not
\* over, so that no second chain is started beside it.
THEOREM MarkerHolds ==
  "lost reply" \notin Faults => (Spec => []MarkerOutlastsChain)
<1>1. ChainInv => MarkerOutlastsChain
  <2>. SUFFICES ASSUME ChainInv, NEW t \in Tokens, rec.token = t, task[t].st # "gone"
                PROVE  rec.until > 0
    BY DEF MarkerOutlastsChain
  <2>1. Remaining(task[t]) < rec.until
    BY DEF ChainInv, MarkerSuffices
  <2>2. Remaining(task[t]) \in Nat /\ rec.until \in Nat
    BY Typed, RemainingIsNat, Durations DEF ChainInv, RecType
  <2>. QED BY <2>1, <2>2
<1>2. ASSUME "lost reply" \notin Faults PROVE Spec => []MarkerOutlastsChain
  <2>1. Spec => []ChainInv
    BY <1>2, DispatchInvariant
  <2>. QED BY <1>1, <2>1, PTL
<1>. QED BY <1>2
=============================================================================
