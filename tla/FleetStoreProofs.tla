-------------------------- MODULE FleetStoreProofs --------------------------
(***************************************************************************)
(* The safety of FleetStore for any number of jobs, generations, workers   *)
(* and pools, any creation plan and any limits.                            *)
(*                                                                         *)
(* LedgerInv is the inductive invariant.  Every transaction is shown to    *)
(* keep it, to move the reservation counter and the ledger together        *)
(* (Moves) and to forget no completion (Sticks); the theorems follow.      *)
(***************************************************************************)
EXTENDS FleetStore, FiniteSetTheorems, TLAPS

\* A name that was never handed out has no ledger row, so a new reservation
\* cannot collide with an old one.
LiveWereReserved == Live \subseteq names

LedgerInv ==
  /\ StoreTypeOK
  /\ LiveWereReserved
  /\ OwnershipIsExclusive
  /\ LedgerMirrorsOwner
  /\ SparesUnassigned
  /\ TerminalIsCompleted

\* What a step may do to the ledger and the counter: nothing, end one
\* reservation, or make a new one below the limit.
Stays == Live' = Live /\ fleet'.Runners = fleet.Runners /\ names' = names
Ends == \E g \in Live : /\ Live' = Live \ {g}
                        /\ fleet'.Runners = fleet.Runners - 1
                        /\ names' = names
Begins == \E g \in Gens \ names : /\ ~FleetFull
                                  /\ Live' = Live \cup {g}
                                  /\ fleet'.Runners = fleet.Runners + 1
                                  /\ names' = names \cup {g}
Moves == Stays \/ Ends \/ Begins

\* What a step does to what is completed (CompletionSticks).
Sticks ==
  /\ \A j \in Jobs : jobs[j].terminal => jobs'[j].terminal
  /\ \A g \in Gens :
       /\ assignments[g].done => assignments'[g].done
       /\ Assigned(g) => assignments'[g].job = assignments[g].job

-----------------------------------------------------------------------------
\* The record of job j may be replaced by r without touching who owns what.
SameClaim(j, r) ==
  /\ r \in JobRec
  /\ r.vm = jobs[j].vm
  /\ r.terminal => r.status = "completed"
  /\ jobs[j].terminal => r.terminal

\* The counters after a step that neither makes nor ends a reservation.
SameRunners == /\ fleet' \in [Runners : Int, Standard : Int]
               /\ fleet'.Runners = fleet.Runners

\* A write that keeps the claim rewrites the row of the generation the job owns
\* and changes nothing else in the ledger.
LEMMA WriteJobKeeps ==
  ASSUME LedgerInv, NEW j \in Jobs, NEW r, SameClaim(j, r), WriteJob(j, r),
         SameRunners, UNCHANGED <<assignments, names>>
  PROVE  LedgerInv' /\ Stays /\ Sticks
<1> USE StoreAssumption
<1>1. r.vm \in Gens \cup {NoGen} /\ Snapshot(r) \in SnapshotRec
  BY DEF SameClaim, JobRec, SnapshotRec, Snapshot
<1>2. OwnedRow(j, r) \in RunnerRec
  BY <1>1 DEF OwnedRow, RunnerRec
<1>3. jobs' \in [Jobs -> JobRec] /\ runners' \in [Gens -> RunnerRec]
  BY <1>1, <1>2 DEF SameClaim, WriteJob, LedgerInv, StoreTypeOK
<1>4. /\ jobs'[j] = r
      /\ \A k \in Jobs \ {j} : jobs'[k] = jobs[k]
  BY DEF WriteJob, LedgerInv, StoreTypeOK
<1>5. /\ r.vm # NoGen => runners'[r.vm] = OwnedRow(j, r)
      /\ \A g \in Gens : g # r.vm => runners'[g] = runners[g]
  BY <1>1 DEF WriteJob, LedgerInv, StoreTypeOK
<1>6. r.vm # NoGen => runners[r.vm].live /\ runners[r.vm].owner = j
  BY DEF SameClaim, LedgerInv, OwnershipIsExclusive
<1>7. Live' = Live
  BY <1>1, <1>5, <1>6 DEF Live, OwnedRow
<1>8. OwnershipIsExclusive'
  <2>1. ASSUME NEW k \in Jobs, jobs'[k].vm # NoGen
        PROVE  runners'[jobs'[k].vm].live /\ runners'[jobs'[k].vm].owner = k
    <3>1. CASE k = j
      BY <1>4, <1>5, <2>1, <3>1 DEF OwnedRow
    <3>2. CASE k # j
      <4>1. jobs[k].vm \in Gens /\ runners[jobs[k].vm].owner = k /\ runners[jobs[k].vm].live
        BY <1>4, <2>1, <3>2 DEF LedgerInv, OwnershipIsExclusive, StoreTypeOK, JobRec
      <4>2. jobs[k].vm # r.vm
        BY <1>6, <4>1, <3>2
      <4>. QED BY <1>4, <1>5, <3>2, <4>1, <4>2
    <3>. QED BY <3>1, <3>2
  <2>2. ASSUME NEW g \in Gens, runners'[g].owner # NoJob
        PROVE  runners'[g].live /\ jobs'[runners'[g].owner].vm = g
    <3>1. CASE g = r.vm
      BY <1>4, <1>5, <3>1 DEF OwnedRow
    <3>2. CASE g # r.vm
      <4>1. /\ runners[g].live /\ runners[g].owner \in Jobs
            /\ jobs[runners[g].owner].vm = g
        BY <1>5, <2>2, <3>2 DEF LedgerInv, OwnershipIsExclusive, StoreTypeOK, RunnerRec
      <4>2. runners[g].owner # j
        BY <3>2, <4>1 DEF SameClaim
      <4>. QED BY <1>4, <1>5, <3>2, <4>1, <4>2
    <3>. QED BY <3>1, <3>2
  <2>. QED BY <2>1, <2>2 DEF OwnershipIsExclusive
<1>9. LedgerMirrorsOwner'
  <2>. SUFFICES ASSUME NEW g \in Gens, runners'[g].owner # NoJob
                PROVE  runners'[g].rec = Snapshot(jobs'[runners'[g].owner])
    BY DEF LedgerMirrorsOwner, Snapshot
  <2>1. CASE g = r.vm
    BY <1>4, <1>5, <2>1 DEF OwnedRow
  <2>2. CASE g # r.vm
    <3>1. runners[g].owner \in Jobs \ {j}
      BY <1>5, <2>2 DEF LedgerInv, OwnershipIsExclusive, StoreTypeOK, RunnerRec, SameClaim
    <3>. QED BY <1>4, <1>5, <2>2, <3>1 DEF LedgerInv, LedgerMirrorsOwner
  <2>. QED BY <2>1, <2>2
<1>10. SparesUnassigned'
  BY <1>1, <1>5 DEF LedgerInv, SparesUnassigned, OwnedRow, Assigned
<1>11. TerminalIsCompleted' /\ Sticks
  BY <1>4 DEF LedgerInv, TerminalIsCompleted, SameClaim, Sticks, Assigned
<1>12. StoreTypeOK' /\ LiveWereReserved'
  BY <1>3, <1>7 DEF LedgerInv, StoreTypeOK, LiveWereReserved, SameRunners
<1>. QED
  BY <1>7, <1>8, <1>9, <1>10, <1>11, <1>12 DEF LedgerInv, Stays, SameRunners

\* With the claim kept, a capacity transaction writes the same documents as a
\* job-only one, and the counters.
LEMMA SameClaimIsJobWrite ==
  ASSUME LedgerInv, NEW j \in Jobs, NEW r, NEW c, SameClaim(j, r),
         WriteCapacity(j, r, c)
  PROVE  WriteJob(j, r)
<1>1. runners = [g \in Gens |-> runners[g]] /\ NoGen \notin Gens
  BY StoreAssumption DEF LedgerInv, StoreTypeOK
<1>2. CASE r.vm = NoGen
  BY <1>1, <1>2 DEF WriteCapacity, WriteJob, SameClaim
<1>3. CASE r.vm # NoGen
  <2>1. r.vm \in Gens /\ r.vm = jobs[j].vm
    BY <1>3 DEF SameClaim, JobRec
  <2>2. runners' = [g \in Gens |-> IF g = r.vm THEN OwnedRow(j, r) ELSE runners[g]]
    BY <2>1 DEF WriteCapacity
  <2>. QED BY <1>1, <1>3, <2>1, <2>2 DEF WriteCapacity, WriteJob
<1>. QED BY <1>2, <1>3

\* Giving up a claim: the row is deleted, or stays behind without an owner.
LEMMA DropKeeps ==
  ASSUME LedgerInv, NEW j \in Jobs, jobs[j].vm # NoGen,
         NEW q \in JobRec, NEW row \in RunnerRec,
         q.vm = NoGen, q.terminal => q.status = "completed",
         jobs[j].terminal => q.terminal,
         row.owner = NoJob,
         row.available => row.live /\ ~Assigned(jobs[j].vm),
         jobs' = [jobs EXCEPT ![j] = q],
         runners' = [runners EXCEPT ![jobs[j].vm] = row],
         fleet' \in [Runners : Int, Standard : Int],
         UNCHANGED <<assignments, names>>
  PROVE  /\ LedgerInv' /\ Sticks
         /\ jobs[j].vm \in Live
         /\ Live' = IF row.live THEN Live ELSE Live \ {jobs[j].vm}
<1> DEFINE h == jobs[j].vm
<1>1. h \in Gens /\ runners[h].live /\ runners[h].owner = j
  BY DEF LedgerInv, StoreTypeOK, JobRec, OwnershipIsExclusive
<1>2. jobs' \in [Jobs -> JobRec] /\ runners' \in [Gens -> RunnerRec]
  BY DEF LedgerInv, StoreTypeOK
<1>3. /\ jobs'[j] = q
      /\ \A k \in Jobs \ {j} : jobs'[k] = jobs[k]
  BY DEF LedgerInv, StoreTypeOK
<1>4. /\ runners'[h] = row
      /\ \A g \in Gens \ {h} : runners'[g] = runners[g]
  BY <1>1 DEF LedgerInv, StoreTypeOK
<1> HIDE DEF h
<1>5. h \in Live /\ Live' = IF row.live THEN Live ELSE Live \ {h}
  BY <1>1, <1>4 DEF Live
<1>6. OwnershipIsExclusive'
  <2>1. ASSUME NEW k \in Jobs, jobs'[k].vm # NoGen
        PROVE  runners'[jobs'[k].vm].live /\ runners'[jobs'[k].vm].owner = k
    <3>1. k # j /\ jobs'[k] = jobs[k]
      BY <1>3, <2>1
    <3>2. /\ jobs[k].vm \in Gens /\ runners[jobs[k].vm].live
          /\ runners[jobs[k].vm].owner = k
      BY <2>1, <3>1 DEF LedgerInv, StoreTypeOK, JobRec, OwnershipIsExclusive
    <3>. QED BY <1>1, <1>4, <3>1, <3>2
  <2>2. ASSUME NEW g \in Gens, runners'[g].owner # NoJob
        PROVE  runners'[g].live /\ jobs'[runners'[g].owner].vm = g
    <3>1. g # h /\ runners'[g] = runners[g]
      BY <1>4, <2>2
    <3>2. /\ runners[g].live /\ runners[g].owner \in Jobs
          /\ jobs[runners[g].owner].vm = g
      BY <2>2, <3>1 DEF LedgerInv, StoreTypeOK, RunnerRec, OwnershipIsExclusive
    <3>. QED BY <1>3, <3>1, <3>2 DEF h
  <2>. QED BY <2>1, <2>2 DEF OwnershipIsExclusive
<1>7. LedgerMirrorsOwner'
  <2>. SUFFICES ASSUME NEW g \in Gens, runners'[g].owner # NoJob
                PROVE  runners'[g].rec = Snapshot(jobs'[runners'[g].owner])
    BY DEF LedgerMirrorsOwner, Snapshot
  <2>1. g # h /\ runners'[g] = runners[g]
    BY <1>4
  <2>2. runners[g].owner \in Jobs \ {j}
    BY <2>1 DEF h, LedgerInv, StoreTypeOK, RunnerRec, OwnershipIsExclusive
  <2>. QED BY <1>3, <2>1, <2>2 DEF LedgerInv, LedgerMirrorsOwner
<1>8. SparesUnassigned'
  BY <1>1, <1>4 DEF LedgerInv, SparesUnassigned, Assigned, h
<1>9. TerminalIsCompleted' /\ Sticks
  BY <1>3 DEF LedgerInv, TerminalIsCompleted, Sticks, Assigned
<1>10. StoreTypeOK' /\ LiveWereReserved'
  BY <1>2, <1>5 DEF LedgerInv, StoreTypeOK, LiveWereReserved
<1>. QED
  BY <1>5, <1>6, <1>7, <1>8, <1>9, <1>10 DEF LedgerInv, h

\* Taking a claim on a generation nobody owns: its row names the job and carries
\* the job's record, other rows at most stop being available.
LEMMA TakeKeeps ==
  ASSUME LedgerInv, NEW j \in Jobs, jobs[j].vm = NoGen,
         NEW g \in Gens, runners[g].owner = NoJob,
         NEW q \in JobRec,
         q.vm = g, q.terminal => q.status = "completed",
         jobs[j].terminal => q.terminal,
         jobs' = [jobs EXCEPT ![j] = q],
         runners' \in [Gens -> RunnerRec],
         /\ runners'[g].live /\ runners'[g].owner = j
         /\ runners'[g].rec = Snapshot(q) /\ ~runners'[g].available,
         \A h \in Gens \ {g} :
            /\ runners'[h].live = runners[h].live
            /\ runners'[h].owner = runners[h].owner
            /\ runners'[h].rec = runners[h].rec
            /\ runners'[h].available => runners[h].available,
         fleet' \in [Runners : Int, Standard : Int],
         names' = names \cup {g}, UNCHANGED assignments
  PROVE  LedgerInv' /\ Sticks /\ Live' = Live \cup {g}
<1>1. /\ jobs'[j] = q
      /\ \A k \in Jobs \ {j} : jobs'[k] = jobs[k]
  BY DEF LedgerInv, StoreTypeOK
<1>2. Live' = Live \cup {g}
  BY DEF Live
<1>3. OwnershipIsExclusive'
  <2>1. ASSUME NEW k \in Jobs, jobs'[k].vm # NoGen
        PROVE  runners'[jobs'[k].vm].live /\ runners'[jobs'[k].vm].owner = k
    <3>1. CASE k = j
      BY <1>1, <3>1
    <3>2. CASE k # j
      <4>1. /\ jobs[k].vm \in Gens /\ runners[jobs[k].vm].live
            /\ runners[jobs[k].vm].owner = k
        BY <1>1, <2>1, <3>2 DEF LedgerInv, StoreTypeOK, JobRec, OwnershipIsExclusive
      <4>2. jobs[k].vm # g
        BY <4>1, StoreAssumption
      <4>. QED BY <1>1, <3>2, <4>1, <4>2
    <3>. QED BY <3>1, <3>2
  <2>2. ASSUME NEW h \in Gens, runners'[h].owner # NoJob
        PROVE  runners'[h].live /\ jobs'[runners'[h].owner].vm = h
    <3>1. CASE h = g
      BY <1>1, <3>1
    <3>2. CASE h # g
      <4>1. /\ runners[h].live /\ runners[h].owner \in Jobs
            /\ jobs[runners[h].owner].vm = h
        BY <2>2, <3>2 DEF LedgerInv, StoreTypeOK, RunnerRec, OwnershipIsExclusive
      <4>2. runners[h].owner # j
        BY <4>1, StoreAssumption
      <4>. QED BY <1>1, <3>2, <4>1, <4>2
    <3>. QED BY <3>1, <3>2
  <2>. QED BY <2>1, <2>2 DEF OwnershipIsExclusive
<1>4. LedgerMirrorsOwner'
  <2>. SUFFICES ASSUME NEW h \in Gens, runners'[h].owner # NoJob
                PROVE  runners'[h].rec = Snapshot(jobs'[runners'[h].owner])
    BY DEF LedgerMirrorsOwner, Snapshot
  <2>1. CASE h = g
    BY <1>1, <2>1
  <2>2. CASE h # g
    <3>1. runners[h].owner \in Jobs \ {j}
      BY <2>2, StoreAssumption DEF LedgerInv, StoreTypeOK, RunnerRec, OwnershipIsExclusive
    <3>. QED BY <1>1, <2>2, <3>1 DEF LedgerInv, LedgerMirrorsOwner
  <2>. QED BY <2>1, <2>2
<1>5. SparesUnassigned'
  BY DEF LedgerInv, SparesUnassigned, Assigned
<1>6. TerminalIsCompleted' /\ Sticks
  BY <1>1 DEF LedgerInv, TerminalIsCompleted, Sticks, Assigned
<1>7. StoreTypeOK' /\ LiveWereReserved'
  BY <1>2 DEF LedgerInv, StoreTypeOK, LiveWereReserved
<1>. QED
  BY <1>2, <1>3, <1>4, <1>5, <1>6, <1>7 DEF LedgerInv

\* A step on the ledger alone leaves owned rows as they are.
LEMMA RowsKeep ==
  ASSUME LedgerInv, UNCHANGED <<jobs, names>>,
         runners' \in [Gens -> RunnerRec],
         assignments' \in [Gens -> AssignmentRec],
         fleet' \in [Runners : Int, Standard : Int],
         \A g \in Gens : runners'[g].owner = runners[g].owner,
         \A g \in Gens : runners[g].owner # NoJob =>
            runners'[g].live /\ runners'[g].rec = runners[g].rec,
         \A g \in Gens : runners'[g].live => runners[g].live,
         \A g \in Gens : runners'[g].available =>
            /\ runners'[g].live /\ runners'[g].owner = NoJob
            /\ assignments'[g].job = NoJob,
         \A g \in Gens :
            /\ assignments[g].done => assignments'[g].done
            /\ Assigned(g) => assignments'[g].job = assignments[g].job
  PROVE  LedgerInv' /\ Sticks
<1>1. OwnershipIsExclusive'
  <2>1. \A k \in Jobs : jobs[k].vm # NoGen => jobs[k].vm \in Gens
    BY DEF LedgerInv, StoreTypeOK, JobRec
  <2>. QED BY <2>1, StoreAssumption DEF LedgerInv, OwnershipIsExclusive
<1>2. LedgerMirrorsOwner'
  BY DEF LedgerInv, LedgerMirrorsOwner, Snapshot
<1>3. SparesUnassigned'
  BY DEF SparesUnassigned, Assigned
<1>4. StoreTypeOK' /\ LiveWereReserved' /\ TerminalIsCompleted' /\ Sticks
  BY DEF LedgerInv, StoreTypeOK, LiveWereReserved, Live, TerminalIsCompleted,
         Sticks
<1>. QED
  BY <1>1, <1>2, <1>3, <1>4 DEF LedgerInv

-----------------------------------------------------------------------------
(***************************************************************************)
(* One lemma per group of transactions.                                    *)
(***************************************************************************)
Kept == LedgerInv' /\ Moves /\ Sticks

\* Webhooks and discovery: a record write that keeps the claim, or an assignment
\* document with the advertisement of its generation taken back.
LEMMA Observes ==
  ASSUME LedgerInv, NEW j \in Jobs, NEW s \in Statuses, NEW g \in Gens \cup {NoGen},
         ObserveJob(j, s, s = "completed", g)
  PROVE  Kept
<1> DEFINE r == [jobs[j] EXCEPT
       !.seen = TRUE,
       !.status = IF ~jobs[j].terminal \/ s = "completed" THEN s ELSE @,
       !.terminal = @ \/ s = "completed",
       !.pd = IF s = "completed" /\ g # NoGen THEN g ELSE @]
<1>1. jobs[j] \in JobRec /\ (jobs[j].terminal => jobs[j].status = "completed")
  BY DEF LedgerInv, StoreTypeOK, TerminalIsCompleted
<1>2. SameClaim(j, r)
  BY <1>1 DEF SameClaim, JobRec, Statuses
<1>3. WriteJob(j, r) /\ UNCHANGED <<fleet, assignments, names>>
  BY DEF ObserveJob
<1>4. SameRunners
  BY <1>3 DEF SameRunners, LedgerInv, StoreTypeOK
<1> HIDE DEF r
<1>. QED BY <1>2, <1>3, <1>4, WriteJobKeeps DEF Kept, Moves

\* The leased transactions that write the record and its row only.
LEMMA JobWrites ==
  ASSUME LedgerInv, NEW j \in Jobs, NEW w \in Workers,
         \/ Claim(j, w) \/ ReleaseLease(j, w)
         \/ \E s \in Statuses \cup {"error"} : NoteStatus(j, w, s)
         \/ \E s \in {"queued", "in_progress"} : SetDue(j, w, s)
         \/ SaveJIT(j, w) \/ SaveOperation(j, w) \/ SaveCreated(j, w)
  PROVE  Kept
<1>1. jobs[j] \in JobRec /\ (jobs[j].terminal => jobs[j].status = "completed")
  BY DEF LedgerInv, StoreTypeOK, TerminalIsCompleted
<1>2. SUFFICES ASSUME NEW r, WriteJob(j, r), UNCHANGED <<fleet, assignments, names>>,
                      SameClaim(j, r)
               PROVE  Kept
  <2>2. CASE Claim(j, w) \/ ReleaseLease(j, w)
    BY <1>1, <1>2, <2>2 DEF Claim, ReleaseLease, SameClaim, JobRec
  <2>3. ASSUME NEW s \in Statuses \cup {"error"}, NoteStatus(j, w, s)
        PROVE  Kept
    BY <1>1, <1>2, <2>3 DEF NoteStatus, SameClaim, JobRec, Statuses
  <2>4. ASSUME NEW s \in {"queued", "in_progress"}, SetDue(j, w, s)
        PROVE  Kept
    BY <1>1, <1>2, <2>4 DEF SetDue, SameClaim, JobRec, Statuses
  <2>5. CASE SaveJIT(j, w) \/ SaveOperation(j, w) \/ SaveCreated(j, w)
    BY <1>1, <1>2, <2>5 DEF SaveJIT, SaveOperation, SaveCreated, SameClaim, JobRec
  <2>. QED BY <2>2, <2>3, <2>4, <2>5
<1>3. SameRunners
  BY <1>2 DEF SameRunners, LedgerInv, StoreTypeOK
<1>. QED BY <1>2, <1>3, WriteJobKeeps DEF Kept, Moves

\* Releasing a reservation: once if the record has one, never otherwise.
LEMMA ReleaseKeeps ==
  ASSUME LedgerInv, NEW j \in Jobs, NEW r, SameClaim(j, r),
         ReleaseReservation(j, r), UNCHANGED <<assignments, names>>
  PROVE  Kept
<1> DEFINE q == Unreserved(r)
<1>1. /\ q \in JobRec /\ q.vm = NoGen
      /\ q.terminal = r.terminal /\ q.status = r.status
  BY DEF Unreserved, SameClaim, JobRec
<1>2. fleet' = CountsWithout(r) /\ fleet' \in [Runners : Int, Standard : Int]
  BY DEF ReleaseReservation, WriteCapacity, CountsWithout, LedgerInv, StoreTypeOK
<1>3. WriteCapacity(j, q, CountsWithout(r))
  BY DEF ReleaseReservation
<1> HIDE DEF q
<1>4. CASE r.vm = NoGen
  <2>1. SameClaim(j, q)
    BY <1>1, <1>4 DEF SameClaim
  <2>2. WriteJob(j, q)
    BY <2>1, <1>3, SameClaimIsJobWrite
  <2>3. SameRunners
    BY <1>2, <1>4 DEF SameRunners, CountsWithout, LedgerInv, StoreTypeOK
  <2>. QED BY <2>1, <2>2, <2>3, WriteJobKeeps DEF Kept, Moves
<1>5. CASE r.vm # NoGen
  <2>1. jobs[j].vm = r.vm /\ r.vm \in Gens /\ NoGen \notin Gens
    BY <1>5, StoreAssumption DEF SameClaim, JobRec
  <2>2. jobs' = [jobs EXCEPT ![j] = q]
    BY <1>3 DEF WriteCapacity
  <2>3. runners' = [runners EXCEPT ![jobs[j].vm] = NoRow]
    <3>1. runners' = [g \in Gens |-> IF g = r.vm THEN NoRow ELSE runners[g]]
      BY <1>1, <1>3, <2>1 DEF WriteCapacity
    <3>. QED BY <3>1, <2>1 DEF LedgerInv, StoreTypeOK
  <2>4. NoRow \in RunnerRec /\ ~NoRow.live /\ NoRow.owner = NoJob /\ ~NoRow.available
    BY DEF NoRow, RunnerRec, Snapshot, SnapshotRec, NoRecord
  <2>5. /\ LedgerInv' /\ Sticks /\ jobs[j].vm \in Live
        /\ Live' = Live \ {jobs[j].vm}
    BY <1>1, <1>2, <1>5, <2>1, <2>2, <2>3, <2>4, DropKeeps DEF SameClaim
  <2>6. fleet'.Runners = fleet.Runners - 1
    BY <1>2, <1>5 DEF CountsWithout
  <2>. QED BY <2>5, <2>6 DEF Kept, Moves, Ends
<1>. QED BY <1>4, <1>5

\* The other capacity transactions that keep the claim.
LEMMA CapacityWrites ==
  ASSUME LedgerInv, NEW j \in Jobs, NEW w,
         \/ \E a \in Attempts : SaveAttempt(j, w, a)
         \/ ClearAttempt(j, w)
         \/ \E r, c : /\ WriteCapacity(j, r, c) /\ SameClaim(j, r)
                      /\ c = fleet /\ UNCHANGED <<assignments, names>>
  PROVE  Kept
<1>1. SUFFICES ASSUME NEW r, NEW c, WriteCapacity(j, r, c), SameClaim(j, r),
                      c \in [Runners : Int, Standard : Int],
                      c.Runners = fleet.Runners, UNCHANGED <<assignments, names>>
               PROVE  Kept
  <2>1. jobs[j] \in JobRec /\ (jobs[j].terminal => jobs[j].status = "completed")
    BY DEF LedgerInv, StoreTypeOK, TerminalIsCompleted
  <2>2. fleet \in [Runners : Int, Standard : Int]
    BY DEF LedgerInv, StoreTypeOK
  <2>3. ASSUME NEW a \in Attempts, SaveAttempt(j, w, a) PROVE Kept
    <3>1. SameClaim(j, [jobs[j] EXCEPT !.att = a])
      BY <2>1, <2>3 DEF SameClaim, JobRec
    <3>. QED BY <1>1, <2>2, <2>3, <3>1 DEF SaveAttempt
  <2>4. CASE ClearAttempt(j, w)
    <3>1. SameClaim(j, [jobs[j] EXCEPT !.att = 0, !.op = FALSE])
      BY <2>1 DEF SameClaim, JobRec
    <3>. QED BY <1>1, <2>2, <2>4, <3>1 DEF ClearAttempt
  <2>5. ASSUME NEW r, NEW c, WriteCapacity(j, r, c), SameClaim(j, r), c = fleet,
               UNCHANGED <<assignments, names>>
        PROVE  Kept
    BY <1>1, <2>2, <2>5
  <2>. QED BY <2>3, <2>4, <2>5
<1>2. WriteJob(j, r)
  BY <1>1, SameClaimIsJobWrite
<1>3. SameRunners
  BY <1>1 DEF WriteCapacity, SameRunners
<1>. QED BY <1>1, <1>2, <1>3, WriteJobKeeps DEF Kept, Moves

\* Every transaction that may release a reservation, with or without a lease.
LEMMA Releases ==
  ASSUME LedgerInv, NEW j \in Jobs, NEW w,
         \/ ReleaseOwned(j, w)
         \/ \E g \in Gens : DeleteUpdate(j, g)
         \/ Park(j)
  PROVE  Kept
<1>1. jobs[j] \in JobRec /\ (jobs[j].terminal => jobs[j].status = "completed")
  BY DEF LedgerInv, StoreTypeOK, TerminalIsCompleted
<1>2. CASE ReleaseOwned(j, w)
  <2>1. SameClaim(j, jobs[j])
    BY <1>1 DEF SameClaim
  <2>. QED BY <1>2, <2>1, ReleaseKeeps DEF ReleaseOwned
<1>3. ASSUME NEW g \in Gens, DeleteUpdate(j, g) PROVE Kept
  <2> DEFINE r == [jobs[j] EXCEPT !.pd = IF @ = g THEN NoGen ELSE @]
  <2>1. SameClaim(j, r)
    BY <1>1 DEF SameClaim, JobRec
  <2>2. /\ ReleaseReservation(j, r) \/ WriteCapacity(j, r, fleet)
        /\ UNCHANGED <<assignments, names>>
    BY <1>3 DEF DeleteUpdate
  <2> HIDE DEF r
  <2>. QED BY <2>1, <2>2, ReleaseKeeps, CapacityWrites
<1>4. CASE Park(j)
  <2> DEFINE r == [jobs[j] EXCEPT !.failure = TRUE]
  <2>1. SameClaim(j, r)
    BY <1>1 DEF SameClaim, JobRec
  <2>2. /\ ReleaseReservation(j, r) \/ WriteCapacity(j, r, fleet)
        /\ UNCHANGED <<assignments, names>>
    BY <1>4 DEF Park
  <2> HIDE DEF r
  <2>. QED BY <2>1, <2>2, ReleaseKeeps, CapacityWrites
<1>. QED BY <1>2, <1>3, <1>4

\* A reservation begins: a generation never seen before, below the limit.
LEMMA Reserves ==
  ASSUME LedgerInv, NEW j \in Jobs, NEW w \in Workers, NEW g \in Gens,
         jobs[j].vm = NoGen, Reserve(j, w, g)
  PROVE  Kept
<1> DEFINE q == [jobs[j] EXCEPT !.vm = g]
<1>1. /\ q \in JobRec /\ q.vm = g
      /\ q.terminal = jobs[j].terminal /\ q.status = jobs[j].status
      /\ jobs[j].terminal => jobs[j].status = "completed"
  BY DEF LedgerInv, StoreTypeOK, JobRec, TerminalIsCompleted
<1>2. /\ WriteCapacity(j, q, [fleet EXCEPT !.Runners = @ + 1])
      /\ g \notin names /\ names' = names \cup {g} /\ ~FleetFull
      /\ UNCHANGED assignments
  BY DEF Reserve
<1> HIDE DEF q
<1>3. ~runners[g].live /\ runners[g].owner = NoJob
  BY <1>2 DEF LedgerInv, LiveWereReserved, Live, OwnershipIsExclusive
<1>4. OwnedRow(j, q) \in RunnerRec
  BY <1>1, StoreAssumption DEF OwnedRow, RunnerRec, Snapshot, SnapshotRec, JobRec
<1>5. runners' = [h \in Gens |-> IF h = g THEN OwnedRow(j, q) ELSE runners[h]]
  BY <1>1, <1>2, StoreAssumption DEF WriteCapacity
<1>6. /\ runners' \in [Gens -> RunnerRec] /\ runners'[g] = OwnedRow(j, q)
      /\ \A h \in Gens \ {g} : runners'[h] = runners[h]
  BY <1>4, <1>5 DEF LedgerInv, StoreTypeOK
<1>7. /\ fleet' \in [Runners : Int, Standard : Int]
      /\ fleet'.Runners = fleet.Runners + 1
  BY <1>2 DEF WriteCapacity, LedgerInv, StoreTypeOK
<1>8. jobs' = [jobs EXCEPT ![j] = q]
  BY <1>2 DEF WriteCapacity
<1>9. LedgerInv' /\ Sticks /\ Live' = Live \cup {g}
  <2>1. /\ runners'[g].live /\ runners'[g].owner = j
        /\ runners'[g].rec = Snapshot(q) /\ ~runners'[g].available
    BY <1>6 DEF OwnedRow
  <2>2. \A h \in Gens \ {g} :
           /\ runners'[h].live = runners[h].live
           /\ runners'[h].owner = runners[h].owner
           /\ runners'[h].rec = runners[h].rec
           /\ runners'[h].available => runners[h].available
    BY <1>6
  <2>3. /\ q \in JobRec /\ q.vm = g
        /\ q.terminal => q.status = "completed"
        /\ jobs[j].terminal => q.terminal
    BY <1>1
  <2>. QED BY <1>2, <1>3, <1>6, <1>7, <1>8, <2>1, <2>2, <2>3, TakeKeeps
<1>. QED BY <1>2, <1>7, <1>9 DEF Kept, Moves, Begins

\* The job gives the claim up and the row stays, unowned.
LEMMA Detaches ==
  ASSUME LedgerInv, NEW j \in Jobs, NEW w \in Workers, NEW b \in BOOLEAN,
         Detach(j, w, b)
  PROVE  Kept
<1>1. CASE jobs[j].vm = NoGen
  BY <1>1, RowsKeep
     DEF Detach, LedgerInv, StoreTypeOK, SparesUnassigned, Assigned, Kept, Moves,
         Stays, Live, OwnershipIsExclusive
<1>2. CASE jobs[j].vm # NoGen
  <2> DEFINE q == Unreserved(jobs[j])
             row == [live |-> TRUE, owner |-> NoJob, pool |-> PoolOf[j],
                     available |-> b /\ ~Assigned(jobs[j].vm),
                     rec |-> Snapshot(jobs[j])]
  <2>1. jobs[j] \in JobRec /\ (jobs[j].terminal => jobs[j].status = "completed")
    BY DEF LedgerInv, StoreTypeOK, TerminalIsCompleted
  <2>2. /\ q \in JobRec /\ q.vm = NoGen
        /\ q.terminal => q.status = "completed"
        /\ jobs[j].terminal => q.terminal
    BY <2>1 DEF Unreserved, JobRec
  <2>3. row \in RunnerRec
    <3>1. Snapshot(jobs[j]) \in SnapshotRec
      BY <2>1 DEF Snapshot, SnapshotRec, JobRec
    <3>2. (b /\ ~Assigned(jobs[j].vm)) \in BOOLEAN
      OBVIOUS
    <3>. QED BY <3>1, <3>2, StoreAssumption DEF RunnerRec
  <2>4. /\ row.owner = NoJob /\ row.live
        /\ row.available => row.live /\ ~Assigned(jobs[j].vm)
    OBVIOUS
  <2>5. /\ jobs' = [jobs EXCEPT ![j] = q]
        /\ runners' = [runners EXCEPT ![jobs[j].vm] = row]
        /\ UNCHANGED <<fleet, assignments, names>>
    BY <1>2 DEF Detach
  <2>6. fleet' \in [Runners : Int, Standard : Int]
    BY <2>5 DEF LedgerInv, StoreTypeOK
  <2> HIDE DEF q, row
  <2>7. LedgerInv' /\ Sticks /\ Live' = Live
    BY <1>2, <2>2, <2>3, <2>4, <2>5, <2>6, DropKeeps
  <2>. QED BY <2>5, <2>7 DEF Kept, Moves, Stays
<1>. QED BY <1>1, <1>2

\* The claim passes to the job from a row nobody owned; other named spares only
\* leave the pool.
LEMMA Adopts ==
  ASSUME LedgerInv, NEW j \in Jobs, NEW w \in Workers, Adopt(j, w)
  PROVE  Kept
<1> DEFINE known == {g \in Spares(j) : Assigned(g)}
           pruned == [g \in Gens |-> IF g \in known
                         THEN [runners[g] EXCEPT !.available = FALSE]
                         ELSE runners[g]]
<1>1. /\ pruned \in [Gens -> RunnerRec]
      /\ \A g \in Gens : /\ pruned[g].live = runners[g].live
                         /\ pruned[g].owner = runners[g].owner
                         /\ pruned[g].rec = runners[g].rec
                         /\ pruned[g].available => runners[g].available
  BY DEF LedgerInv, StoreTypeOK, RunnerRec
<1>2. \A g \in Gens : runners[g].available =>
         runners[g].live /\ runners[g].owner = NoJob /\ assignments[g].job = NoJob
  BY DEF LedgerInv, SparesUnassigned, Assigned
<1>3. /\ UNCHANGED <<fleet, assignments, names>>
      /\ fleet' \in [Runners : Int, Standard : Int]
      /\ assignments' \in [Gens -> AssignmentRec]
  BY DEF Adopt, LedgerInv, StoreTypeOK
<1>4. ASSUME UNCHANGED jobs, runners' \in {runners, pruned}
      PROVE  Kept
  <2>1. /\ runners' \in [Gens -> RunnerRec]
        /\ \A g \in Gens : /\ runners'[g].live = runners[g].live
                           /\ runners'[g].owner = runners[g].owner
                           /\ runners'[g].rec = runners[g].rec
                           /\ runners'[g].available => runners[g].available
    BY <1>1, <1>4 DEF LedgerInv, StoreTypeOK
  <2>2. \A g \in Gens : runners[g].owner # NoJob => runners[g].live
    BY DEF LedgerInv, OwnershipIsExclusive
  <2>3. LedgerInv' /\ Sticks
    BY <1>2, <1>3, <1>4, <2>1, <2>2, RowsKeep
  <2>4. Live' = Live
    BY <2>1 DEF Live
  <2>. QED BY <1>3, <2>3, <2>4 DEF Kept, Moves, Stays
<1>5. ASSUME ~jobs[j].terminal, jobs[j].vm = NoGen,
             NEW g \in Spares(j) \ known,
             NEW q, NEW s \in SnapshotRec, s = runners[g].rec,
             q = [jobs[j] EXCEPT !.vm = g, !.att = s.att, !.op = s.op,
                    !.jit = s.jit, !.created = s.created, !.terminal = FALSE,
                    !.failure = FALSE, !.pd = NoGen],
             jobs' = [jobs EXCEPT ![j] = q],
             runners' = [pruned EXCEPT ![g] =
                [pruned[g] EXCEPT !.owner = j, !.available = FALSE,
                                  !.rec = Snapshot(q)]]
      PROVE  Kept
  <2>1. g \in Gens /\ runners[g].available /\ g \in Live
    BY <1>5 DEF Spares, Live
  <2>2. runners[g].live /\ runners[g].owner = NoJob /\ g \in names
    BY <1>2, <2>1 DEF LedgerInv, LiveWereReserved
  <2>3. /\ q \in JobRec /\ q.vm = g /\ ~q.terminal
        /\ Snapshot(q) \in SnapshotRec
    <3>1. /\ s.att \in Attempts \cup {0} /\ s.op \in BOOLEAN /\ s.jit \in BOOLEAN
          /\ s.created \in BOOLEAN
      BY <1>5 DEF SnapshotRec
    <3>2. jobs[j] \in JobRec
      BY DEF LedgerInv, StoreTypeOK
    <3>3. q \in JobRec
      BY <1>5, <2>1, <3>1, <3>2 DEF JobRec
    <3>4. q.vm = g /\ q.terminal = FALSE
      BY <1>5, <3>2 DEF JobRec
    <3>5. Snapshot(q) \in SnapshotRec
      BY <3>3 DEF JobRec, SnapshotRec, Snapshot
    <3>. QED BY <3>3, <3>4, <3>5
  <2> HIDE DEF pruned
  <2>4. pruned[g] \in RunnerRec /\ pruned[g].live
    BY <1>1, <2>1, <2>2
  <2>5. [pruned[g] EXCEPT !.owner = j, !.available = FALSE, !.rec = Snapshot(q)]
           \in RunnerRec
    BY <2>3, <2>4 DEF RunnerRec
  <2>6. /\ runners' \in [Gens -> RunnerRec]
        /\ runners'[g].live /\ runners'[g].owner = j
        /\ runners'[g].rec = Snapshot(q) /\ ~runners'[g].available
    BY <1>1, <1>5, <2>1, <2>4, <2>5 DEF RunnerRec
  <2>7. \A h \in Gens \ {g} :
           /\ runners'[h].live = runners[h].live
           /\ runners'[h].owner = runners[h].owner
           /\ runners'[h].rec = runners[h].rec
           /\ runners'[h].available => runners[h].available
    BY <1>1, <1>5
  <2>8. names' = names \cup {g}
    BY <1>3, <2>2
  <2>9. LedgerInv' /\ Sticks /\ Live' = Live \cup {g}
    <3>1. /\ jobs' = [jobs EXCEPT ![j] = q] /\ jobs[j].vm = NoGen
          /\ q.terminal => q.status = "completed"
          /\ jobs[j].terminal => q.terminal
      BY <1>5, <2>3
    <3>. QED BY ONLY LedgerInv, j \in Jobs, <1>3, <2>1, <2>2, <2>3, <2>6, <2>7,
                     <2>8, <3>1, TakeKeeps
  <2>. QED BY <1>3, <2>1, <2>9 DEF Kept, Moves, Stays
<1>6. \A g \in Spares(j) : runners[g].rec \in SnapshotRec
  BY DEF Spares, Live, LedgerInv, StoreTypeOK, RunnerRec
<1>. QED BY <1>4, <1>5, <1>6 DEF Adopt

\* Transactions on the ledger rows and assignment documents alone.
LEMMA RowWrites ==
  ASSUME LedgerInv, NEW g \in Gens,
         \/ \E j \in Jobs, s \in Statuses : RecordAssignment(j, g, s)
         \/ ReleaseRunner(g)
         \/ \E b \in BOOLEAN : DeferRunner(g, b)
  PROVE  Kept
<1>1. /\ \A h \in Gens : runners[h].available =>
            runners[h].live /\ runners[h].owner = NoJob /\ assignments[h].job = NoJob
      /\ \A h \in Gens : runners[h].owner # NoJob => runners[h].live
      /\ runners \in [Gens -> RunnerRec] /\ assignments \in [Gens -> AssignmentRec]
      /\ fleet \in [Runners : Int, Standard : Int]
  BY DEF LedgerInv, SparesUnassigned, Assigned, OwnershipIsExclusive, StoreTypeOK
<1>2. ASSUME NEW j \in Jobs, NEW s \in Statuses, RecordAssignment(j, g, s)
      PROVE  Kept
  <2>1. PICK d \in BOOLEAN :
           /\ assignments[g].done => d
           /\ assignments' = [assignments EXCEPT ![g] = [job |-> j, done |-> d]]
    BY <1>1, <1>2 DEF RecordAssignment, AssignmentRec, LedgerInv, StoreTypeOK, JobRec
  <2>2. assignments[g].job \in {j, NoJob} /\ UNCHANGED <<jobs, fleet, names>>
    BY <1>2 DEF RecordAssignment
  <2>3. /\ assignments' \in [Gens -> AssignmentRec]
        /\ \A h \in Gens \ {g} : assignments'[h] = assignments[h]
        /\ assignments'[g].job = j /\ assignments'[g].done = d
    BY <1>1, <2>1 DEF AssignmentRec
  <2>4. /\ runners' \in [Gens -> RunnerRec]
        /\ \A h \in Gens : /\ runners'[h].live = runners[h].live
                           /\ runners'[h].owner = runners[h].owner
                           /\ runners'[h].rec = runners[h].rec
                           /\ runners'[h].available => runners[h].available
                           /\ h = g => ~runners'[h].available
    BY <1>1, <1>2 DEF RecordAssignment, RunnerRec
  <2>5. LedgerInv' /\ Sticks
    BY <1>1, <2>1, <2>2, <2>3, <2>4, RowsKeep DEF Assigned
  <2>6. Live' = Live
    BY <2>4 DEF Live
  <2>. QED BY <2>2, <2>5, <2>6 DEF Kept, Moves, Stays
<1>3. CASE ReleaseRunner(g)
  <2>1. UNCHANGED <<jobs, assignments, names>>
    BY <1>3 DEF ReleaseRunner
  <2>2. CASE runners[g].live /\ runners[g].owner = NoJob
    <3>1. NoRow \in RunnerRec /\ ~NoRow.live /\ NoRow.owner = NoJob /\ ~NoRow.available
      BY DEF NoRow, RunnerRec, Snapshot, SnapshotRec, NoRecord
    <3>2. /\ runners' = [runners EXCEPT ![g] = NoRow]
          /\ fleet' \in [Runners : Int, Standard : Int]
          /\ fleet'.Runners = fleet.Runners - 1
      BY <1>1, <1>3, <2>2 DEF ReleaseRunner
    <3>3. /\ runners' \in [Gens -> RunnerRec] /\ runners'[g] = NoRow
          /\ \A h \in Gens \ {g} : runners'[h] = runners[h]
      BY <1>1, <3>1, <3>2
    <3>4. LedgerInv' /\ Sticks
      BY <1>1, <2>1, <2>2, <3>1, <3>2, <3>3, RowsKeep DEF Assigned
    <3>5. g \in Live /\ Live' = Live \ {g}
      BY <2>2, <3>1, <3>3 DEF Live
    <3>. QED BY <2>1, <3>2, <3>4, <3>5 DEF Kept, Moves, Ends
  <2>3. CASE ~(runners[g].live /\ runners[g].owner = NoJob)
    <3>1. UNCHANGED <<runners, fleet>>
      BY <1>3, <2>3 DEF ReleaseRunner
    <3>2. LedgerInv' /\ Sticks
      BY <1>1, <2>1, <3>1, RowsKeep DEF Assigned
    <3>. QED BY <2>1, <3>1, <3>2 DEF Kept, Moves, Stays, Live
  <2>. QED BY <2>2, <2>3
<1>4. ASSUME NEW b \in BOOLEAN, DeferRunner(g, b) PROVE Kept
  <2>1. UNCHANGED <<jobs, fleet, assignments, names>>
    BY <1>4 DEF DeferRunner
  <2>2. PICK a \in BOOLEAN :
           /\ a => runners[g].live /\ runners[g].owner = NoJob /\ assignments[g].job = NoJob
           /\ runners' = [runners EXCEPT ![g].available = a] \/ runners' = runners
    BY <1>1, <1>4 DEF DeferRunner, Assigned
  <2>3. /\ runners' \in [Gens -> RunnerRec]
        /\ \A h \in Gens : /\ runners'[h].live = runners[h].live
                           /\ runners'[h].owner = runners[h].owner
                           /\ runners'[h].rec = runners[h].rec
                           /\ runners'[h].available =>
                                runners[h].available \/ (h = g /\ a)
    BY <1>1, <2>2 DEF RunnerRec
  <2>4. LedgerInv' /\ Sticks
    BY <1>1, <2>1, <2>2, <2>3, RowsKeep DEF Assigned
  <2>5. Live' = Live
    BY <2>3 DEF Live
  <2>. QED BY <2>1, <2>4, <2>5 DEF Kept, Moves, Stays
<1>. QED BY <1>2, <1>3, <1>4

\* A lease running out touches no other field of the record, and the row's copy
\* has no lease.
LEMMA Expires ==
  ASSUME LedgerInv, NEW j \in Jobs, ExpireLease(j)
  PROVE  Kept
<1>1. /\ jobs' \in [Jobs -> JobRec] /\ UNCHANGED <<runners, fleet, assignments, names>>
      /\ \A k \in Jobs : /\ jobs'[k].vm = jobs[k].vm
                         /\ jobs'[k].terminal = jobs[k].terminal
                         /\ jobs'[k].status = jobs[k].status
                         /\ Snapshot(jobs'[k]) = Snapshot(jobs[k])
  BY DEF ExpireLease, LedgerInv, StoreTypeOK, JobRec, Snapshot
<1>2. StoreTypeOK' /\ LiveWereReserved' /\ Stays
  BY <1>1 DEF LedgerInv, StoreTypeOK, LiveWereReserved, Live, Stays
<1>3. OwnershipIsExclusive'
  <2>1. \A g \in Gens : runners[g].owner \in Jobs \cup {NoJob}
    BY DEF LedgerInv, StoreTypeOK, RunnerRec
  <2>. QED BY <1>1, <2>1 DEF LedgerInv, OwnershipIsExclusive
<1>4. LedgerMirrorsOwner'
  <2>. SUFFICES ASSUME NEW g \in Gens, runners'[g].owner # NoJob
                PROVE  runners'[g].rec = Snapshot(jobs'[runners'[g].owner])
    BY DEF LedgerMirrorsOwner, Snapshot
  <2>1. runners[g].owner \in Jobs
    BY <1>1 DEF LedgerInv, StoreTypeOK, RunnerRec
  <2>. QED BY <1>1, <2>1 DEF LedgerInv, LedgerMirrorsOwner
<1>5. SparesUnassigned' /\ TerminalIsCompleted' /\ Sticks
  BY <1>1 DEF LedgerInv, SparesUnassigned, TerminalIsCompleted, Sticks, Assigned
<1>. QED BY <1>2, <1>3, <1>4, <1>5 DEF Kept, Moves, LedgerInv

-----------------------------------------------------------------------------
(***************************************************************************)
(* The invariant and the theorems.                                         *)
(***************************************************************************)
\* observe writes the record or the assignment, and a completed event names the
\* generation to delete.
LEMMA ObservationCases ==
  ASSUME LedgerInv, NEW j \in Jobs, Observation(j)
  PROVE  \/ \E g \in names, s \in Statuses : RecordAssignment(j, g, s)
         \/ \E s \in Statuses, g \in Gens \cup {NoGen} :
               ObserveJob(j, s, s = "completed", g)
<1>1. names \subseteq Gens
  BY DEF LedgerInv, StoreTypeOK
<1>2. \/ \E g \in names, s \in Statuses : RecordAssignment(j, g, s)
      \/ ObserveJob(j, "completed", TRUE, NoGen)
      \/ \E s \in {"queued", "in_progress"} : ObserveJob(j, s, FALSE, NoGen)
      \/ \E g \in names : ObserveJob(j, "completed", TRUE, g)
  BY DEF Observation
<1>3. /\ ("completed" = "completed") = TRUE
      /\ \A s \in {"queued", "in_progress"} : (s = "completed") = FALSE
  OBVIOUS
<1>. QED BY <1>1, <1>2, <1>3 DEF Statuses

\* Every step of the store keeps the invariant, moves at most one generation and
\* forgets no completion.
LEMMA StepKeeps ==
  ASSUME LedgerInv, [StoreNext]_storeVars
  PROVE  Kept
<1>1. names \subseteq Gens
  BY DEF LedgerInv, StoreTypeOK
<1>2. CASE UNCHANGED storeVars
  <2>1. LedgerInv'
    BY <1>2 DEF storeVars, LedgerInv, StoreTypeOK, LiveWereReserved, Live,
                OwnershipIsExclusive, LedgerMirrorsOwner, Snapshot,
                SparesUnassigned, Assigned, TerminalIsCompleted
  <2>. QED BY <1>2, <2>1 DEF storeVars, Kept, Moves, Stays, Live, Sticks, Assigned
<1>3. ASSUME NEW j \in Jobs, NEW w \in Workers, LeasedStep(j, w) PROVE Kept
  BY <1>3, JobWrites, CapacityWrites, Releases, Reserves, Detaches, Adopts
     DEF LeasedStep
<1>4. CASE UnleasedStep
  <2>1. ASSUME NEW j \in Jobs, Observation(j) PROVE Kept
    <3>1. CASE \E g \in names, s \in Statuses : RecordAssignment(j, g, s)
      BY <1>1, <3>1, RowWrites
    <3>2. CASE \E s \in Statuses, g \in Gens \cup {NoGen} :
                  ObserveJob(j, s, s = "completed", g)
      BY <3>2, Observes
    <3>. QED BY <2>1, <3>1, <3>2, ObservationCases
  <2>2. ASSUME NEW j \in Jobs, ExpireLease(j) PROVE Kept
    BY <2>2, Expires
  <2>3. ASSUME NEW j \in Jobs, Park(j) \/ \E g \in names : DeleteUpdate(j, g)
        PROVE  Kept
    BY <1>1, <2>3, Releases
  <2>4. ASSUME NEW g \in names, ReleaseRunner(g) \/ \E b \in BOOLEAN : DeferRunner(g, b)
        PROVE  Kept
    BY <1>1, <2>4, RowWrites
  <2>. QED BY <1>4, <2>1, <2>2, <2>3, <2>4 DEF UnleasedStep
<1>. QED BY <1>2, <1>3, <1>4 DEF StoreNext

\* The empty store satisfies the invariant.
LEMMA InitHolds == StoreInit => LedgerInv
<1>. SUFFICES ASSUME StoreInit PROVE LedgerInv
  OBVIOUS
<1>1. NoRecord \in JobRec /\ NoRow \in RunnerRec /\ NoAssignment \in AssignmentRec
  BY DEF NoRecord, JobRec, NoRow, RunnerRec, Snapshot, SnapshotRec, NoAssignment,
         AssignmentRec, Statuses
<1>2. StoreTypeOK
  BY <1>1 DEF StoreInit, StoreTypeOK
<1>. QED
  BY <1>2 DEF StoreInit, LedgerInv, LiveWereReserved, Live, OwnershipIsExclusive,
              LedgerMirrorsOwner, SparesUnassigned, TerminalIsCompleted, NoRecord,
              NoRow

\* The reservation counter follows the ledger one row at a time.
LEMMA CountsMove ==
  ASSUME LedgerInv, AdmissionExact, Kept
  PROVE  AdmissionExact'
<1>1. IsFiniteSet(Live) /\ fleet.Runners = Cardinality(Live) /\ fleet.Runners <= MaxRunners
  BY StoreAssumption, FS_Subset DEF Live, AdmissionExact
<1>2. Cardinality(Live) \in Nat /\ MaxRunners \in Nat
  BY <1>1, FS_CardinalityType, StoreAssumption
<1>3. CASE Stays
  BY <1>1, <1>3 DEF Stays, AdmissionExact
<1>4. CASE Ends
  <2>1. PICK g \in Live : Live' = Live \ {g} /\ fleet'.Runners = fleet.Runners - 1
    BY <1>4 DEF Ends
  <2>2. Cardinality(Live') = Cardinality(Live) - 1
    BY <1>1, <2>1, FS_RemoveElement
  <2>. QED BY <1>1, <1>2, <2>1, <2>2 DEF AdmissionExact
<1>5. CASE Begins
  <2>1. PICK g \in Gens \ names : /\ ~FleetFull /\ Live' = Live \cup {g}
                                  /\ fleet'.Runners = fleet.Runners + 1
    BY <1>5 DEF Begins
  <2>2. g \notin Live
    BY <2>1 DEF LedgerInv, LiveWereReserved
  <2>3. Cardinality(Live') = Cardinality(Live) + 1
    BY <1>1, <2>1, <2>2, FS_AddElement
  <2>. QED BY <1>1, <1>2, <2>1, <2>3 DEF AdmissionExact, FleetFull
<1>. QED BY <1>3, <1>4, <1>5 DEF Kept, Moves

\* The empty store counts no runner.
LEMMA InitCounts == StoreInit => AdmissionExact
<1>. SUFFICES ASSUME StoreInit PROVE AdmissionExact
  OBVIOUS
<1>1. Live = {}
  BY DEF StoreInit, Live, NoRow
<1>. QED BY <1>1, FS_EmptySet, StoreAssumption DEF StoreInit, AdmissionExact

\* LedgerInv and AdmissionExact hold together in every reachable state.
THEOREM StoreInvariant == StoreSpec => [](LedgerInv /\ AdmissionExact)
<1>1. StoreInit => LedgerInv /\ AdmissionExact
  BY InitHolds, InitCounts
<1>2. LedgerInv /\ AdmissionExact /\ [StoreNext]_storeVars
        => (LedgerInv /\ AdmissionExact)'
  <2>. SUFFICES ASSUME LedgerInv, AdmissionExact, [StoreNext]_storeVars
                PROVE  LedgerInv' /\ AdmissionExact'
    OBVIOUS
  <2>1. Kept
    BY StepKeeps
  <2>. QED BY <2>1, CountsMove DEF Kept
<1>. QED BY <1>1, <1>2, PTL DEF StoreSpec

\* Every document keeps its shape.
THEOREM TypeCorrect == StoreSpec => []StoreTypeOK
<1>1. LedgerInv => StoreTypeOK
  BY DEF LedgerInv
<1>. QED BY <1>1, StoreInvariant, PTL

\* A generation has at most one owner, which names it back, whoever adopts,
\* detaches, parks or deletes concurrently.
THEOREM OwnershipExclusive == StoreSpec => []OwnershipIsExclusive
<1>1. LedgerInv => OwnershipIsExclusive
  BY DEF LedgerInv
<1>. QED BY <1>1, StoreInvariant, PTL

\* The copy of the record in an owned row is never stale.
THEOREM LedgerMirrors == StoreSpec => []LedgerMirrorsOwner
<1>1. LedgerInv => LedgerMirrorsOwner
  BY DEF LedgerInv
<1>. QED BY <1>1, StoreInvariant, PTL

\* The fleet counter equals the number of ledger rows and respects max_runners.
THEOREM AdmissionIsExact == StoreSpec => []AdmissionExact
<1>. QED BY StoreInvariant, PTL

\* A generation with a recorded assignment is never advertised as a spare.
THEOREM SparesAreUnassigned == StoreSpec => []SparesUnassigned
<1>1. LedgerInv => SparesUnassigned
  BY DEF LedgerInv
<1>. QED BY <1>1, StoreInvariant, PTL

\* A terminal record says completed.
THEOREM TerminalCompleted == StoreSpec => []TerminalIsCompleted
<1>1. LedgerInv => TerminalIsCompleted
  BY DEF LedgerInv
<1>. QED BY <1>1, StoreInvariant, PTL

\* No write order un-completes a job or an assignment, gives a finished record another
\* status, or moves an assignment to another job (UpdateJob, RecordAssignment).
THEOREM CompletionIsForever == StoreSpec => CompletionSticks
<1>1. LedgerInv /\ [StoreNext]_storeVars =>
        [/\ TerminalIsCompleted'
         /\ \A j \in Jobs : jobs[j].terminal => jobs'[j].terminal
         /\ \A g \in Gens :
              /\ assignments[g].done => assignments'[g].done
              /\ Assigned(g) => assignments'[g].job = assignments[g].job]_storeVars
  BY StepKeeps DEF Kept, Sticks, LedgerInv
<1>. QED BY <1>1, StoreInvariant, PTL DEF StoreSpec, CompletionSticks

\* The ledger implements single-use reservations bounded by max_runners.
THEOREM StoreImplementsReservations == StoreSpec => ImplementsReservations
<1>1. StoreInit => Abstract!Init
  BY DEF StoreInit, Abstract!Init, Live, NoRow
<1>2. LedgerInv /\ AdmissionExact /\ [StoreNext]_storeVars
        => [Abstract!Next]_<<Live, names>>
  <2>. SUFFICES ASSUME LedgerInv, AdmissionExact, [StoreNext]_storeVars
                PROVE  [Abstract!Next]_<<Live, names>>
    OBVIOUS
  <2>1. Moves
    BY StepKeeps DEF Kept
  <2>2. CASE Stays
    BY <2>2 DEF Stays
  <2>3. CASE Ends
    <3>1. PICK g \in Live : Live' = Live \ {g} /\ names' = names
      BY <2>3 DEF Ends
    <3>2. g \in Gens
      BY DEF Live
    <3>3. Abstract!Release(g)
      BY <3>1 DEF Abstract!Release
    <3>. QED BY <3>2, <3>3 DEF Abstract!Next
  <2>4. CASE Begins
    <3>1. PICK g \in Gens \ names : /\ ~FleetFull /\ Live' = Live \cup {g}
                                    /\ names' = names \cup {g}
      BY <2>4 DEF Begins
    <3>2. Cardinality(Live) < MaxRunners
      <4>1. fleet.Runners = Cardinality(Live) /\ fleet.Runners \in Int /\ MaxRunners \in Int
        BY StoreAssumption DEF AdmissionExact, LedgerInv, StoreTypeOK
      <4>. QED BY <3>1, <4>1 DEF FleetFull
    <3>3. Abstract!Cardinality(Live) = Cardinality(Live)
      BY DEF Abstract!Cardinality, Cardinality
    <3>4. Abstract!Reserve(g)
      BY <3>1, <3>2, <3>3 DEF Abstract!Reserve
    <3>. QED BY <3>1, <3>4 DEF Abstract!Next
  <2>. QED BY <2>1, <2>2, <2>3, <2>4 DEF Moves
<1>. QED BY <1>1, <1>2, StoreInvariant, PTL
         DEF StoreSpec, ImplementsReservations, Abstract!Spec

-----------------------------------------------------------------------------
(***************************************************************************)
(* The on-demand counter.  A transaction changes at most one row and one   *)
(* record's charge, and the counter by at least as much.                   *)
(***************************************************************************)
Bit(b) == IF b THEN 1 ELSE 0

\* The step of job j's record and generation g's row pays for what it charges.
Pays(j, g) ==
  /\ StandardRows' \ {g} = StandardRows \ {g}
  /\ ChargedWithoutVM' \ {j} = ChargedWithoutVM \ {j}
  /\ Bit(g \in StandardRows') + Bit(j \in ChargedWithoutVM')
       <= Bit(g \in StandardRows) + Bit(j \in ChargedWithoutVM)
            + (fleet'.Standard - fleet.Standard)
  /\ fleet'.Standard \in Int /\ fleet'.Standard <= MaxOnDemand

\* Two sets that differ in one element differ by one at most.
LEMMA OneElement ==
  ASSUME NEW S, IsFiniteSet(S), NEW T, NEW x, T \ {x} = S \ {x}
  PROVE  /\ Cardinality(S) \in Nat /\ Cardinality(T) \in Nat
         /\ Cardinality(T) = Cardinality(S) - Bit(x \in S) + Bit(x \in T)
<1>1. /\ IsFiniteSet(S \ {x}) /\ Cardinality(S) \in Nat /\ Cardinality(S \ {x}) \in Nat
      /\ Cardinality(S) = Cardinality(S \ {x}) + Bit(x \in S)
  <2>1. IsFiniteSet(S \ {x})
    BY FS_Subset
  <2>2. Cardinality(S) \in Nat /\ Cardinality(S \ {x}) \in Nat
    BY <2>1, FS_CardinalityType
  <2>3. CASE x \in S
    BY <2>2, <2>3, FS_RemoveElement DEF Bit
  <2>4. CASE x \notin S
    <3>1. S \ {x} = S
      BY <2>4
    <3>. QED BY <2>1, <2>2, <2>4, <3>1 DEF Bit
  <2>. QED BY <2>1, <2>2, <2>3, <2>4
<1>2. CASE x \in T
  <2>1. T = (S \ {x}) \cup {x} /\ x \notin S \ {x}
    BY <1>2
  <2>2. Cardinality(T) = Cardinality(S \ {x}) + 1
    BY <1>1, <2>1, FS_AddElement
  <2>. QED BY <1>1, <1>2, <2>2 DEF Bit
<1>3. CASE x \notin T
  <2>1. T = S \ {x}
    BY <1>3
  <2>. QED BY <1>1, <1>3, <2>1 DEF Bit
<1>. QED BY <1>2, <1>3

\* Such a step keeps the bound.
LEMMA PayingKeepsBound ==
  ASSUME LedgerInv, OnDemandBounded, NEW j, NEW g, Pays(j, g)
  PROVE  OnDemandBounded'
<1>1. IsFiniteSet(StandardRows) /\ IsFiniteSet(ChargedWithoutVM)
  BY StoreAssumption, FS_Subset DEF StandardRows, ChargedWithoutVM, Live
<1>2. PICK S, C, T, D : /\ S = StandardRows /\ C = ChargedWithoutVM
                        /\ T = StandardRows' /\ D = ChargedWithoutVM'
  OBVIOUS
<1>3. /\ Cardinality(S) \in Nat /\ Cardinality(T) \in Nat
      /\ Cardinality(T) = Cardinality(S) - Bit(g \in S) + Bit(g \in T)
  BY <1>1, <1>2, OneElement DEF Pays
<1>4. /\ Cardinality(C) \in Nat /\ Cardinality(D) \in Nat
      /\ Cardinality(D) = Cardinality(C) - Bit(j \in C) + Bit(j \in D)
  BY <1>1, <1>2, OneElement DEF Pays
<1>5. /\ Cardinality(S) + Cardinality(C) <= fleet.Standard
      /\ fleet.Standard \in Int /\ fleet'.Standard \in Int
      /\ fleet'.Standard <= MaxOnDemand
      /\ Bit(g \in T) + Bit(j \in D)
           <= Bit(g \in S) + Bit(j \in C) + (fleet'.Standard - fleet.Standard)
  BY <1>2 DEF OnDemandBounded, LedgerInv, StoreTypeOK, Pays
<1>6. /\ Bit(g \in T) \in Int /\ Bit(j \in D) \in Int
      /\ Bit(g \in S) \in Int /\ Bit(j \in C) \in Int
  BY DEF Bit
<1>7. Cardinality(T) + Cardinality(D) <= fleet'.Standard
  BY <1>3, <1>4, <1>5, <1>6
<1>. QED BY <1>2, <1>5, <1>7 DEF OnDemandBounded

\* What the two sets say of one row and one record.
LEMMA ChargeOf ==
  /\ \A g \in Gens : g \in StandardRows <=> runners[g].live /\ Standard(runners[g].rec.att)
  /\ \A j \in Jobs : j \in ChargedWithoutVM <=> jobs[j].vm = NoGen /\ Standard(jobs[j].att)
  BY DEF StandardRows, ChargedWithoutVM, Live

\* The same after the step.
LEMMA ChargeThen ==
  /\ \A g \in Gens : g \in StandardRows' <=> runners'[g].live /\ Standard(runners'[g].rec.att)
  /\ \A j \in Jobs : j \in ChargedWithoutVM' <=> jobs'[j].vm = NoGen /\ Standard(jobs'[j].att)
  BY DEF StandardRows, ChargedWithoutVM, Live

\* The row of an owned generation carries its owner's attempt.
LEMMA OwnedRowSays ==
  ASSUME LedgerInv, NEW j \in Jobs, jobs[j].vm # NoGen
  PROVE  /\ jobs[j].vm \in Gens /\ runners[jobs[j].vm].live
         /\ runners[jobs[j].vm].rec.att = jobs[j].att
<1>1. jobs[j].vm \in Gens
  BY DEF LedgerInv, StoreTypeOK, JobRec
<1>2. runners[jobs[j].vm].live /\ runners[jobs[j].vm].owner = j
  BY DEF LedgerInv, OwnershipIsExclusive
<1>3. runners[jobs[j].vm].rec = Snapshot(jobs[j])
  BY <1>1, <1>2, StoreAssumption DEF LedgerInv, LedgerMirrorsOwner
<1>. QED BY <1>1, <1>2, <1>3 DEF Snapshot

\* Elsewhere nothing is charged.
LEMMA PaysFor ==
  ASSUME NEW j, NEW g,
         \A h \in Gens \ {g} : /\ runners'[h].live = runners[h].live
                               /\ runners'[h].rec.att = runners[h].rec.att,
         \A k \in Jobs \ {j} : /\ jobs'[k].vm = jobs[k].vm
                               /\ jobs'[k].att = jobs[k].att,
         Bit(g \in StandardRows') + Bit(j \in ChargedWithoutVM')
           <= Bit(g \in StandardRows) + Bit(j \in ChargedWithoutVM)
                + (fleet'.Standard - fleet.Standard),
         fleet'.Standard \in Int, fleet'.Standard <= MaxOnDemand
  PROVE  Pays(j, g)
<1>1. StandardRows' \ {g} = StandardRows \ {g}
  BY DEF StandardRows, Live
<1>2. ChargedWithoutVM' \ {j} = ChargedWithoutVM \ {j}
  BY DEF ChargedWithoutVM
<1>. QED BY <1>1, <1>2 DEF Pays

\* A write that keeps the claim moves the charge of the record's attempt, which
\* its row or, without one, the record itself carries.
LEMMA WriteJobPays ==
  ASSUME LedgerInv, NEW j \in Jobs, NEW r, SameClaim(j, r), WriteJob(j, r),
         fleet.Standard + Bit(Standard(r.att)) - Bit(Standard(jobs[j].att))
           <= fleet'.Standard,
         fleet'.Standard \in Int, fleet'.Standard <= MaxOnDemand
  PROVE  Pays(j, r.vm)
<1>1. /\ jobs'[j] = r /\ \A k \in Jobs \ {j} : jobs'[k] = jobs[k]
  BY DEF WriteJob, LedgerInv, StoreTypeOK
<1>2. r.vm \in Gens \cup {NoGen} /\ NoGen \notin Gens /\ fleet.Standard \in Int
  BY StoreAssumption DEF SameClaim, JobRec, LedgerInv, StoreTypeOK
<1>3. /\ r.vm # NoGen => runners'[r.vm] = OwnedRow(j, r)
      /\ \A g \in Gens : g # r.vm => runners'[g] = runners[g]
  BY <1>2 DEF WriteJob, LedgerInv, StoreTypeOK
<1>4. Bit(r.vm \in StandardRows') + Bit(j \in ChargedWithoutVM') = Bit(Standard(r.att))
  <2>1. CASE r.vm = NoGen
    <3>1. r.vm \notin StandardRows' /\ (j \in ChargedWithoutVM' <=> Standard(r.att))
      BY <1>1, <1>2, <2>1, ChargeThen DEF StandardRows, Live
    <3>. QED BY <3>1 DEF Bit
  <2>2. CASE r.vm # NoGen
    <3>1. runners'[r.vm].live /\ runners'[r.vm].rec.att = r.att
      BY <1>3, <2>2 DEF OwnedRow, Snapshot
    <3>2. (r.vm \in StandardRows' <=> Standard(r.att)) /\ j \notin ChargedWithoutVM'
      BY <1>1, <1>2, <2>2, <3>1, ChargeThen
    <3>. QED BY <3>2 DEF Bit
  <2>. QED BY <2>1, <2>2
<1>5. Bit(r.vm \in StandardRows) + Bit(j \in ChargedWithoutVM) = Bit(Standard(jobs[j].att))
  <2>1. CASE r.vm = NoGen
    <3>1. r.vm \notin StandardRows /\ (j \in ChargedWithoutVM <=> Standard(jobs[j].att))
      BY <1>2, <2>1, ChargeOf DEF StandardRows, Live, SameClaim
    <3>. QED BY <3>1 DEF Bit
  <2>2. CASE r.vm # NoGen
    <3>1. (r.vm \in StandardRows <=> Standard(jobs[j].att)) /\ j \notin ChargedWithoutVM
      BY <1>2, <2>2, OwnedRowSays, ChargeOf DEF SameClaim
    <3>. QED BY <3>1 DEF Bit
  <2>. QED BY <2>1, <2>2
<1>6. /\ \A h \in Gens \ {r.vm} : /\ runners'[h].live = runners[h].live
                                 /\ runners'[h].rec.att = runners[h].rec.att
      /\ \A k \in Jobs \ {j} : jobs'[k].vm = jobs[k].vm /\ jobs'[k].att = jobs[k].att
  BY <1>1, <1>3
<1>7. Bit(r.vm \in StandardRows') + Bit(j \in ChargedWithoutVM')
        <= Bit(r.vm \in StandardRows) + Bit(j \in ChargedWithoutVM)
             + (fleet'.Standard - fleet.Standard)
  BY <1>2, <1>4, <1>5 DEF Bit
<1>. QED BY <1>6, <1>7, PaysFor

\* A record that gives up its claim and attempt: the row stays charged for what it
\* says, or goes and is paid back.
LEMMA DropPays ==
  ASSUME LedgerInv, NEW j \in Jobs, jobs[j].vm # NoGen,
         NEW q, q.vm = NoGen, ~Standard(q.att), NEW row,
         jobs' = [jobs EXCEPT ![j] = q],
         runners' = [runners EXCEPT ![jobs[j].vm] = row],
         fleet.Standard + Bit(row.live /\ Standard(row.rec.att))
           - Bit(Standard(jobs[j].att)) <= fleet'.Standard,
         fleet'.Standard \in Int, fleet'.Standard <= MaxOnDemand
  PROVE  Pays(j, jobs[j].vm)
<1>1. PICK g \in Gens : g = jobs[j].vm
  BY DEF LedgerInv, StoreTypeOK, JobRec
<1>2. /\ jobs'[j] = q /\ \A k \in Jobs \ {j} : jobs'[k] = jobs[k]
      /\ runners'[g] = row /\ \A h \in Gens \ {g} : runners'[h] = runners[h]
  BY <1>1 DEF LedgerInv, StoreTypeOK
<1>3. runners[g].live /\ runners[g].rec.att = jobs[j].att
  BY <1>1, OwnedRowSays
<1>4. /\ j \notin ChargedWithoutVM /\ j \notin ChargedWithoutVM'
      /\ g \in StandardRows <=> Standard(jobs[j].att)
      /\ g \in StandardRows' <=> row.live /\ Standard(row.rec.att)
  BY <1>1, <1>2, <1>3, ChargeOf, ChargeThen
<1>5. fleet.Standard \in Int
  BY DEF LedgerInv, StoreTypeOK
<1>6. Bit(g \in StandardRows') + Bit(j \in ChargedWithoutVM')
        <= Bit(g \in StandardRows) + Bit(j \in ChargedWithoutVM)
             + (fleet'.Standard - fleet.Standard)
  BY <1>4, <1>5 DEF Bit
<1>7. Pays(j, g)
  BY <1>2, <1>6, PaysFor
<1>. QED BY <1>1, <1>7

\* A record that takes a claim: what it brings or what the row had is what the row
\* is charged for from then on.
LEMMA TakePays ==
  ASSUME LedgerInv, NEW j \in Jobs, jobs[j].vm = NoGen, NEW g \in Gens,
         NEW q, q.vm = g, jobs' = [jobs EXCEPT ![j] = q],
         runners'[g].rec.att = q.att,
         Standard(q.att) => Standard(jobs[j].att) \/ g \in StandardRows,
         \A h \in Gens \ {g} : /\ runners'[h].live = runners[h].live
                               /\ runners'[h].rec.att = runners[h].rec.att,
         fleet'.Standard = fleet.Standard, fleet.Standard <= MaxOnDemand
  PROVE  Pays(j, g)
<1>1. /\ jobs'[j] = q /\ \A k \in Jobs \ {j} : jobs'[k] = jobs[k]
      /\ fleet.Standard \in Int /\ g # NoGen
  BY StoreAssumption DEF LedgerInv, StoreTypeOK
<1>2. /\ j \notin ChargedWithoutVM' /\ (g \in StandardRows' => Standard(q.att))
      /\ Standard(jobs[j].att) => j \in ChargedWithoutVM
  BY <1>1, ChargeOf, ChargeThen
<1>3. Bit(g \in StandardRows') + Bit(j \in ChargedWithoutVM')
        <= Bit(g \in StandardRows) + Bit(j \in ChargedWithoutVM)
             + (fleet'.Standard - fleet.Standard)
  BY <1>1, <1>2 DEF Bit
<1>. QED BY <1>1, <1>3, PaysFor

\* Somebody pays.
Paid == \E j, g : Pays(j, g)

\* A write of the record alone that leaves claim and attempt as they are.
RecordWrite(j) == \E r : /\ WriteJob(j, r) /\ UNCHANGED fleet /\ SameClaim(j, r)
                         /\ r.att = jobs[j].att

\* The transactions that write the record alone, with or without a lease.
LEMMA RecordWrites ==
  ASSUME LedgerInv, NEW j \in Jobs, NEW w,
         \/ \E s \in Statuses, g \in Gens \cup {NoGen} :
              ObserveJob(j, s, s = "completed", g)
         \/ w \in Workers /\ (Claim(j, w) \/ ReleaseLease(j, w))
         \/ \E s \in Statuses \cup {"error"} : NoteStatus(j, w, s)
         \/ \E s \in {"queued", "in_progress"} : SetDue(j, w, s)
         \/ SaveJIT(j, w) \/ SaveOperation(j, w) \/ SaveCreated(j, w)
  PROVE  RecordWrite(j)
<1>1. jobs[j] \in JobRec /\ (jobs[j].terminal => jobs[j].status = "completed")
  BY DEF LedgerInv, StoreTypeOK, TerminalIsCompleted
<1>2. ASSUME NEW s \in Statuses, NEW g \in Gens \cup {NoGen},
             ObserveJob(j, s, s = "completed", g)
      PROVE  RecordWrite(j)
  <2>1. PICK st, tm, pd : /\ st = IF ~jobs[j].terminal \/ s = "completed" THEN s
                               ELSE jobs[j].status
                          /\ tm = (jobs[j].terminal \/ s = "completed")
                          /\ pd = IF s = "completed" /\ g # NoGen THEN g ELSE jobs[j].pd
    OBVIOUS
  <2>2. /\ st \in Statuses /\ tm \in BOOLEAN /\ pd \in Gens \cup {NoGen}
        /\ (tm => st = "completed") /\ (jobs[j].terminal => tm)
    BY <1>1, <2>1 DEF JobRec
  <2>3. PICK r : r = [jobs[j] EXCEPT !.seen = TRUE, !.status = st, !.terminal = tm,
                                     !.pd = pd]
    OBVIOUS
  <2>4. SameClaim(j, r) /\ r.att = jobs[j].att
    BY <1>1, <2>2, <2>3 DEF SameClaim, JobRec
  <2>5. WriteJob(j, r) /\ UNCHANGED fleet
    BY <1>2, <2>1, <2>3 DEF ObserveJob
  <2>. QED BY <2>4, <2>5 DEF RecordWrite
<1>3. CASE w \in Workers /\ (Claim(j, w) \/ ReleaseLease(j, w))
  <2>1. ASSUME NEW l \in Workers \cup {NoWorker}, NEW r,
               r = [jobs[j] EXCEPT !.lease = l]
        PROVE  SameClaim(j, r) /\ r.att = jobs[j].att
    BY <1>1, <2>1 DEF SameClaim, JobRec
  <2>2. \E l \in Workers \cup {NoWorker} : \E r :
          r = [jobs[j] EXCEPT !.lease = l] /\ WriteJob(j, r) /\ UNCHANGED fleet
    BY <1>3 DEF Claim, ReleaseLease
  <2>. QED BY <2>1, <2>2 DEF RecordWrite
<1>4. ASSUME NEW s \in Statuses \cup {"error"}, NoteStatus(j, w, s)
      PROVE  RecordWrite(j)
  <2>1. PICK r : /\ WriteJob(j, r) /\ UNCHANGED fleet
                 /\ \/ r = jobs[j]
                    \/ /\ s # "error" /\ ~jobs[j].terminal
                       /\ r = [jobs[j] EXCEPT !.status = s,
                                              !.terminal = (s = "completed")]
    BY <1>4 DEF NoteStatus
  <2>2. SameClaim(j, r) /\ r.att = jobs[j].att
    BY <1>1, <2>1 DEF SameClaim, JobRec, Statuses
  <2>. QED BY <2>1, <2>2 DEF RecordWrite
<1>5. ASSUME NEW s \in {"queued", "in_progress"}, SetDue(j, w, s)
      PROVE  RecordWrite(j)
  BY <1>1, <1>5 DEF SetDue, RecordWrite, SameClaim, JobRec, Statuses
<1>6. CASE SaveJIT(j, w) \/ SaveOperation(j, w) \/ SaveCreated(j, w)
  <2>1. PICK r : /\ WriteJob(j, r) /\ UNCHANGED fleet
                 /\ \/ r = [jobs[j] EXCEPT !.jit = TRUE]
                    \/ r = [jobs[j] EXCEPT !.op = TRUE]
                    \/ r = [jobs[j] EXCEPT !.created = TRUE]
    BY <1>6 DEF SaveJIT, SaveOperation, SaveCreated
  <2>2. SameClaim(j, r) /\ r.att = jobs[j].att
    BY <1>1, <2>1 DEF SameClaim, JobRec
  <2>. QED BY <2>1, <2>2 DEF RecordWrite
<1>. QED BY <1>2, <1>3, <1>4, <1>5, <1>6

\* They cost nothing.
LEMMA JobWritesPay ==
  ASSUME LedgerInv, OnDemandBounded, NEW j \in Jobs, RecordWrite(j)
  PROVE  Paid
<1>1. PICK r : /\ WriteJob(j, r) /\ UNCHANGED fleet /\ SameClaim(j, r)
               /\ r.att = jobs[j].att
  BY DEF RecordWrite
<1>2. /\ fleet'.Standard = fleet.Standard /\ fleet.Standard \in Int
      /\ fleet.Standard <= MaxOnDemand /\ Bit(Standard(r.att)) \in Int
  BY <1>1 DEF LedgerInv, StoreTypeOK, OnDemandBounded, Bit
<1>3. Pays(j, r.vm)
  BY <1>1, <1>2, WriteJobPays
<1>. QED BY <1>3 DEF Paid

\* A change of the attempt, charged or paid back by c.
AttemptWrite(j, c) ==
  \E r : /\ WriteCapacity(j, r, c) /\ SameClaim(j, r)
         /\ c.Standard = fleet.Standard + Bit(Standard(r.att))
                           - Bit(Standard(jobs[j].att))

\* changeAttempt and clearAttempt are such changes, and the former is admitted.
LEMMA AttemptWrites ==
  ASSUME LedgerInv, NEW j \in Jobs, NEW w,
         (\E a \in Attempts : SaveAttempt(j, w, a)) \/ ClearAttempt(j, w)
  PROVE  \E c : /\ AttemptWrite(j, c)
                /\ c.Standard <= fleet.Standard \/ c.Standard <= MaxOnDemand
<1>1. jobs[j] \in JobRec /\ (jobs[j].terminal => jobs[j].status = "completed")
  BY DEF LedgerInv, StoreTypeOK, TerminalIsCompleted
<1>2. fleet.Standard \in Int /\ MaxOnDemand \in Int
  BY StoreAssumption DEF LedgerInv, StoreTypeOK
<1>3. ASSUME NEW a \in Attempts, SaveAttempt(j, w, a)
      PROVE  \E c : /\ AttemptWrite(j, c)
                    /\ c.Standard <= fleet.Standard \/ c.Standard <= MaxOnDemand
  <2>1. PICK r, c : /\ r = [jobs[j] EXCEPT !.att = a] /\ WriteCapacity(j, r, c)
                    /\ c = [fleet EXCEPT !.Standard =
                              @ + (IF Standard(a) /\ ~Standard(jobs[j].att) THEN 1 ELSE 0)
                                - (IF Standard(jobs[j].att) /\ ~Standard(a) THEN 1 ELSE 0)]
                    /\ Standard(a) /\ ~Standard(jobs[j].att) =>
                         ~(fleet.Standard >= MaxOnDemand)
    BY <1>3 DEF SaveAttempt, AttemptRefused, OnDemandFull
  <2>2. SameClaim(j, r) /\ r.att = a
    BY <1>1, <2>1 DEF SameClaim, JobRec
  <2>3. c.Standard = fleet.Standard
                       + (IF Standard(a) /\ ~Standard(jobs[j].att) THEN 1 ELSE 0)
                       - (IF Standard(jobs[j].att) /\ ~Standard(a) THEN 1 ELSE 0)
    BY <2>1 DEF LedgerInv, StoreTypeOK
  <2>4. /\ c.Standard = fleet.Standard + Bit(Standard(r.att)) - Bit(Standard(jobs[j].att))
        /\ c.Standard <= fleet.Standard \/ c.Standard <= MaxOnDemand
    BY <1>2, <2>1, <2>2, <2>3 DEF Bit
  <2>. QED BY <2>1, <2>2, <2>4 DEF AttemptWrite
<1>4. ASSUME ClearAttempt(j, w)
      PROVE  \E c : /\ AttemptWrite(j, c)
                    /\ c.Standard <= fleet.Standard \/ c.Standard <= MaxOnDemand
  <2>1. PICK r, c : /\ r = [jobs[j] EXCEPT !.att = 0, !.op = FALSE]
                    /\ WriteCapacity(j, r, c)
                    /\ c = [fleet EXCEPT !.Standard =
                              @ - (IF Standard(jobs[j].att) THEN 1 ELSE 0)]
    BY <1>4 DEF ClearAttempt
  <2>2. SameClaim(j, r) /\ r.att = 0
    BY <1>1, <2>1 DEF SameClaim, JobRec
  <2>3. c.Standard = fleet.Standard - (IF Standard(jobs[j].att) THEN 1 ELSE 0)
    BY <2>1 DEF LedgerInv, StoreTypeOK
  <2>4. /\ c.Standard = fleet.Standard + Bit(Standard(r.att)) - Bit(Standard(jobs[j].att))
        /\ c.Standard <= fleet.Standard
    BY <1>2, <2>2, <2>3 DEF Bit, Standard
  <2>. QED BY <2>1, <2>2, <2>4 DEF AttemptWrite
<1>. QED BY <1>3, <1>4

\* A new attempt is admitted and charged, a cleared one paid back.
LEMMA AttemptsPay ==
  ASSUME LedgerInv, OnDemandBounded, NEW j \in Jobs, NEW w,
         (\E a \in Attempts : SaveAttempt(j, w, a)) \/ ClearAttempt(j, w)
  PROVE  Paid
<1>1. fleet.Standard \in Int /\ fleet.Standard <= MaxOnDemand /\ MaxOnDemand \in Int
  BY StoreAssumption DEF LedgerInv, StoreTypeOK, OnDemandBounded
<1>2. PICK r, c : /\ WriteCapacity(j, r, c) /\ SameClaim(j, r)
                  /\ c.Standard = fleet.Standard + Bit(Standard(r.att))
                                    - Bit(Standard(jobs[j].att))
                  /\ c.Standard <= fleet.Standard \/ c.Standard <= MaxOnDemand
  BY AttemptWrites DEF AttemptWrite
<1>3. WriteJob(j, r) /\ fleet'.Standard = c.Standard
  BY <1>2, SameClaimIsJobWrite DEF WriteCapacity
<1>4. fleet'.Standard \in Int /\ fleet'.Standard <= MaxOnDemand
  BY <1>1, <1>2, <1>3 DEF Bit
<1>5. Pays(j, r.vm)
  BY <1>1, <1>2, <1>3, <1>4, WriteJobPays DEF Bit
<1>. QED BY <1>5 DEF Paid

\* A write without the lease, or the owner's last: the reservation is given back,
\* or the counters stay.
ReleaseWrite(j) ==
  \E r : /\ SameClaim(j, r) /\ r.att = jobs[j].att
         /\ ReleaseReservation(j, r) \/ WriteCapacity(j, r, fleet)

\* releaseReservation by its owner, by the delete worker and by finishTask.
LEMMA ReleaseWrites ==
  ASSUME LedgerInv, NEW j \in Jobs,
         \/ \E w : ReleaseOwned(j, w)
         \/ \E g : DeleteUpdate(j, g)
         \/ Park(j)
  PROVE  ReleaseWrite(j)
<1>1. jobs[j] \in JobRec /\ (jobs[j].terminal => jobs[j].status = "completed")
  BY DEF LedgerInv, StoreTypeOK, TerminalIsCompleted
<1>2. CASE \E w : ReleaseOwned(j, w)
  <2>1. SameClaim(j, jobs[j])
    BY <1>1 DEF SameClaim
  <2>. QED BY <1>2, <2>1 DEF ReleaseOwned, ReleaseWrite
<1>3. CASE Park(j)
  <2>1. PICK r : r = [jobs[j] EXCEPT !.failure = TRUE]
    OBVIOUS
  <2>2. SameClaim(j, r) /\ r.att = jobs[j].att
    BY <1>1, <2>1 DEF SameClaim, JobRec
  <2>. QED BY <1>3, <2>1, <2>2 DEF Park, ReleaseWrite
<1>4. ASSUME NEW g, DeleteUpdate(j, g) PROVE ReleaseWrite(j)
  <2>1. PICK r : r = [jobs[j] EXCEPT !.pd = IF @ = g THEN NoGen ELSE @]
    OBVIOUS
  <2>2. SameClaim(j, r) /\ r.att = jobs[j].att
    BY <1>1, <2>1 DEF SameClaim, JobRec
  <2>. QED BY <1>4, <2>1, <2>2 DEF DeleteUpdate, ReleaseWrite
<1>. QED BY <1>2, <1>3, <1>4

\* So is a released reservation; without one the counter stays, and with it the
\* charge of a record that lost its generation is left behind.
LEMMA ReleasePays ==
  ASSUME LedgerInv, OnDemandBounded, NEW j \in Jobs, NEW r, SameClaim(j, r),
         r.att = jobs[j].att,
         ReleaseReservation(j, r) \/ WriteCapacity(j, r, fleet)
  PROVE  Paid
<1>1. fleet.Standard \in Int /\ fleet.Standard <= MaxOnDemand /\ MaxOnDemand \in Int
  BY StoreAssumption DEF LedgerInv, StoreTypeOK, OnDemandBounded
<1>2. CASE WriteCapacity(j, r, fleet)
  <2>1. WriteJob(j, r) /\ fleet'.Standard = fleet.Standard
    BY <1>2, SameClaimIsJobWrite DEF WriteCapacity
  <2>2. Pays(j, r.vm)
    BY <1>1, <2>1, WriteJobPays DEF Bit
  <2>. QED BY <2>2 DEF Paid
<1>3. CASE ReleaseReservation(j, r)
  <2>1. PICK q : q = Unreserved(r) /\ WriteCapacity(j, q, CountsWithout(r))
    BY <1>3 DEF ReleaseReservation
  <2>2. /\ q \in JobRec /\ q.vm = NoGen /\ q.att = 0
        /\ q.terminal = r.terminal /\ q.status = r.status /\ ~Standard(q.att)
    BY <2>1 DEF Unreserved, SameClaim, JobRec, Standard
  <2>3. fleet'.Standard = fleet.Standard
                            - (IF r.vm # NoGen /\ Standard(r.att) THEN 1 ELSE 0)
    BY <2>1 DEF WriteCapacity, CountsWithout
  <2>4. CASE r.vm = NoGen
    <3>1. SameClaim(j, q)
      BY <2>2, <2>4 DEF SameClaim
    <3>2. WriteJob(j, q)
      BY <2>1, <3>1, SameClaimIsJobWrite
    <3>3. fleet.Standard + Bit(Standard(q.att)) - Bit(Standard(jobs[j].att))
             <= fleet'.Standard /\ fleet'.Standard = fleet.Standard
      BY <1>1, <2>2, <2>3, <2>4 DEF Bit
    <3>4. Pays(j, q.vm)
      BY <1>1, <3>1, <3>2, <3>3, WriteJobPays
    <3>. QED BY <3>4 DEF Paid
  <2>5. CASE r.vm # NoGen
    <3>1. jobs[j].vm = r.vm /\ r.vm \in Gens
      BY <2>5 DEF SameClaim, JobRec
    <3>2. jobs' = [jobs EXCEPT ![j] = q]
      BY <2>1 DEF WriteCapacity
    <3>3. runners' = [runners EXCEPT ![jobs[j].vm] = NoRow]
      <4>1. runners' = [g \in Gens |-> IF g = r.vm THEN NoRow ELSE runners[g]]
        BY <2>1, <2>2, <3>1, StoreAssumption DEF WriteCapacity
      <4>. QED BY <3>1, <4>1 DEF LedgerInv, StoreTypeOK
    <3>4. /\ fleet.Standard + Bit(NoRow.live /\ Standard(NoRow.rec.att))
               - Bit(Standard(jobs[j].att)) <= fleet'.Standard
          /\ fleet'.Standard \in Int /\ fleet'.Standard <= MaxOnDemand
      BY <1>1, <2>3, <2>5 DEF Bit, NoRow
    <3>5. Pays(j, jobs[j].vm)
      BY <2>2, <2>5, <3>1, <3>2, <3>3, <3>4, DropPays
    <3>. QED BY <3>5 DEF Paid
  <2>. QED BY <2>4, <2>5
<1>. QED BY <1>2, <1>3

\* A claim passed on takes the charge of its row along.
LEMMA PassingPays ==
  ASSUME LedgerInv, OnDemandBounded, NEW j \in Jobs, NEW w \in Workers,
         \/ \E g \in Gens : jobs[j].vm = NoGen /\ Reserve(j, w, g)
         \/ \E b \in BOOLEAN : Detach(j, w, b)
         \/ Adopt(j, w)
  PROVE  Paid
<1>1. /\ fleet.Standard \in Int /\ fleet.Standard <= MaxOnDemand
      /\ jobs[j] \in JobRec
  BY DEF LedgerInv, StoreTypeOK, OnDemandBounded
<1>2. ASSUME NEW g \in Gens, jobs[j].vm = NoGen, Reserve(j, w, g) PROVE Paid
  <2>1. PICK q, c : /\ q = [jobs[j] EXCEPT !.vm = g] /\ WriteCapacity(j, q, c)
                    /\ c = [fleet EXCEPT !.Runners = @ + 1]
    BY <1>2 DEF Reserve
  <2>2. q.vm = g /\ q.att = jobs[j].att /\ c.Standard = fleet.Standard
    BY <1>1, <2>1 DEF JobRec, LedgerInv, StoreTypeOK
  <2>3. /\ jobs' = [jobs EXCEPT ![j] = q] /\ fleet'.Standard = fleet.Standard
        /\ runners' = [h \in Gens |-> IF h = g THEN OwnedRow(j, q) ELSE runners[h]]
    BY <1>2, <2>1, <2>2, StoreAssumption DEF WriteCapacity
  <2>4. /\ runners'[g].rec.att = q.att
        /\ \A h \in Gens \ {g} : runners'[h] = runners[h]
    BY <2>3 DEF OwnedRow, Snapshot
  <2>5. Pays(j, g)
    BY <1>1, <1>2, <2>2, <2>3, <2>4, TakePays
  <2>. QED BY <2>5 DEF Paid
<1>3. ASSUME NEW b \in BOOLEAN, Detach(j, w, b) PROVE Paid
  <2>1. CASE jobs[j].vm = NoGen
    <3>1. UNCHANGED <<jobs, runners, fleet>>
      BY <1>3, <2>1 DEF Detach
    <3>2. StandardRows' = StandardRows /\ ChargedWithoutVM' = ChargedWithoutVM
      BY <3>1 DEF StandardRows, ChargedWithoutVM, Live
    <3>3. Pays(j, NoGen)
      BY <1>1, <3>1, <3>2 DEF Pays, Bit
    <3>. QED BY <3>3 DEF Paid
  <2>2. CASE jobs[j].vm # NoGen
    <3>1. PICK q, row :
            /\ q = Unreserved(jobs[j])
            /\ row = [live |-> TRUE, owner |-> NoJob, pool |-> PoolOf[j],
                      available |-> b /\ ~Assigned(jobs[j].vm),
                      rec |-> Snapshot(jobs[j])]
            /\ jobs' = [jobs EXCEPT ![j] = q]
            /\ runners' = [runners EXCEPT ![jobs[j].vm] = row]
            /\ fleet' = fleet
      BY <1>3, <2>2 DEF Detach
    <3>2. /\ q.vm = NoGen /\ ~Standard(q.att)
          /\ row.live /\ row.rec.att = jobs[j].att
      BY <1>1, <3>1 DEF Unreserved, JobRec, Standard, Snapshot
    <3>3. fleet.Standard + Bit(row.live /\ Standard(row.rec.att))
             - Bit(Standard(jobs[j].att)) <= fleet'.Standard
      BY <1>1, <3>1, <3>2 DEF Bit
    <3>4. Pays(j, jobs[j].vm)
      BY <1>1, <2>2, <3>1, <3>2, <3>3, DropPays
    <3>. QED BY <3>4 DEF Paid
  <2>. QED BY <2>1, <2>2
<1>4. CASE Adopt(j, w)
  <2> DEFINE known == {g \in Spares(j) : Assigned(g)}
             pruned == [g \in Gens |-> IF g \in known
                           THEN [runners[g] EXCEPT !.available = FALSE]
                           ELSE runners[g]]
             Becomes(q, g) ==
               /\ q = [jobs[j] EXCEPT !.vm = g, !.att = runners[g].rec.att,
                         !.op = runners[g].rec.op, !.jit = runners[g].rec.jit,
                         !.created = runners[g].rec.created, !.terminal = FALSE,
                         !.failure = FALSE, !.pd = NoGen]
               /\ jobs' = [jobs EXCEPT ![j] = q]
               /\ runners' = [pruned EXCEPT ![g] =
                    [pruned[g] EXCEPT !.owner = j, !.available = FALSE,
                                      !.rec = Snapshot(q)]]
  <2>1. /\ \A g \in Gens : /\ pruned[g].live = runners[g].live
                           /\ pruned[g].rec = runners[g].rec
                           /\ pruned[g] \in RunnerRec
        /\ pruned \in [Gens -> RunnerRec]
    BY DEF LedgerInv, StoreTypeOK, RunnerRec
  <2>2. ASSUME UNCHANGED <<jobs, fleet>>, runners' \in {runners, pruned} PROVE Paid
    <3>1. \A g \in Gens : runners'[g].live = runners[g].live
                          /\ runners'[g].rec = runners[g].rec
      BY <2>1, <2>2
    <3>2. StandardRows' = StandardRows /\ ChargedWithoutVM' = ChargedWithoutVM
      BY <2>2, <3>1 DEF StandardRows, ChargedWithoutVM, Live
    <3>3. Pays(j, NoGen)
      BY <1>1, <2>2, <3>2 DEF Pays, Bit
    <3>. QED BY <3>3 DEF Paid
  <2> HIDE DEF pruned, Becomes
  <2>3. ASSUME jobs[j].vm = NoGen, UNCHANGED fleet, NEW g \in Spares(j), NEW q,
               q.vm = g, q.att = runners[g].rec.att,
               jobs' = [jobs EXCEPT ![j] = q],
               runners' = [pruned EXCEPT ![g] =
                  [pruned[g] EXCEPT !.owner = j, !.available = FALSE,
                                    !.rec = Snapshot(q)]]
        PROVE  Paid
    <3>1. g \in Gens /\ runners[g].live
      BY <2>3 DEF Spares, Live
    <3>2. runners'[g].rec = Snapshot(q)
      <4>1. pruned[g] \in RunnerRec
        BY <2>1, <3>1
      <4>. QED BY <2>1, <2>3, <3>1, <4>1 DEF RunnerRec
    <3>3. /\ runners'[g].rec.att = q.att
          /\ \A h \in Gens \ {g} : runners'[h] = pruned[h]
      BY <2>1, <2>3, <3>1, <3>2 DEF Snapshot
    <3>4. Standard(q.att) => g \in StandardRows
      BY <2>3, <3>1, ChargeOf
    <3>5. \A h \in Gens \ {g} : /\ runners'[h].live = runners[h].live
                                /\ runners'[h].rec.att = runners[h].rec.att
      BY <2>1, <3>3
    <3>6. Pays(j, g)
      BY <1>1, <2>3, <3>1, <3>3, <3>4, <3>5, TakePays
    <3>. QED BY <3>6 DEF Paid
  <2>4. UNCHANGED fleet
    BY <1>4 DEF Adopt
  <2>5. \/ UNCHANGED jobs /\ runners' \in {runners, pruned}
        \/ jobs[j].vm = NoGen /\ \E g \in Spares(j) : \E q : Becomes(q, g)
    BY <1>4 DEF Adopt, pruned, Becomes
  <2>6. ASSUME jobs[j].vm = NoGen, NEW g \in Spares(j), NEW q, Becomes(q, g) PROVE Paid
    <3>1. q.vm = g /\ q.att = runners[g].rec.att
      BY <1>1, <2>6 DEF JobRec, Becomes
    <3>. QED BY <2>3, <2>4, <2>6, <3>1 DEF Becomes
  <2>. QED BY <2>2, <2>4, <2>5, <2>6
<1>. QED BY <1>2, <1>3, <1>4

\* Writes of one row or its assignment: a row that goes is paid back.
LEMMA RowWritesPay ==
  ASSUME LedgerInv, OnDemandBounded, NEW g \in Gens,
         \/ \E j \in Jobs, s \in Statuses : RecordAssignment(j, g, s)
         \/ ReleaseRunner(g)
         \/ \E b \in BOOLEAN : DeferRunner(g, b)
  PROVE  Paid
<1>1. /\ fleet.Standard \in Int /\ fleet.Standard <= MaxOnDemand /\ MaxOnDemand \in Int
      /\ runners \in [Gens -> RunnerRec] /\ UNCHANGED jobs
  BY StoreAssumption DEF LedgerInv, StoreTypeOK, OnDemandBounded, RecordAssignment,
                         ReleaseRunner, DeferRunner
<1>2. ASSUME UNCHANGED fleet,
             \A h \in Gens : /\ runners'[h].live = runners[h].live
                             /\ runners'[h].rec = runners[h].rec
      PROVE  Paid
  <2>1. StandardRows' = StandardRows /\ ChargedWithoutVM' = ChargedWithoutVM
    BY <1>1, <1>2 DEF StandardRows, ChargedWithoutVM, Live
  <2>2. Pays(NoJob, g)
    BY <1>1, <1>2, <2>1 DEF Pays, Bit
  <2>. QED BY <2>2 DEF Paid
<1>3. CASE \/ \E j \in Jobs, s \in Statuses : RecordAssignment(j, g, s)
           \/ \E b \in BOOLEAN : DeferRunner(g, b)
  <2>1. PICK a : runners' = [runners EXCEPT ![g].available = a] \/ runners' = runners
    BY <1>3 DEF RecordAssignment, DeferRunner
  <2>2. UNCHANGED fleet
    BY <1>3 DEF RecordAssignment, DeferRunner
  <2>3. \A h \in Gens : /\ runners'[h].live = runners[h].live
                        /\ runners'[h].rec = runners[h].rec
    BY <1>1, <2>1 DEF RunnerRec
  <2>. QED BY <1>2, <2>2, <2>3
<1>4. CASE ReleaseRunner(g)
  <2>1. CASE UNCHANGED <<runners, fleet>>
    BY <1>2, <2>1
  <2>2. CASE ~UNCHANGED <<runners, fleet>>
    <3>1. /\ runners[g].live /\ runners' = [runners EXCEPT ![g] = NoRow]
          /\ fleet'.Standard = fleet.Standard
                                 - (IF Standard(runners[g].rec.att) THEN 1 ELSE 0)
      BY <1>4, <2>2 DEF ReleaseRunner
    <3>2. ~runners'[g].live /\ \A h \in Gens \ {g} : runners'[h] = runners[h]
      BY <1>1, <3>1 DEF NoRow
    <3>3. /\ g \in StandardRows <=> Standard(runners[g].rec.att)
          /\ g \notin StandardRows'
          /\ ChargedWithoutVM' = ChargedWithoutVM
      BY <1>1, <3>1, <3>2, ChargeOf, ChargeThen DEF ChargedWithoutVM
    <3>4. /\ Bit(g \in StandardRows') + Bit(NoJob \in ChargedWithoutVM')
                <= Bit(g \in StandardRows) + Bit(NoJob \in ChargedWithoutVM)
                     + (fleet'.Standard - fleet.Standard)
          /\ fleet'.Standard \in Int /\ fleet'.Standard <= MaxOnDemand
      BY <1>1, <3>1, <3>3 DEF Bit
    <3>5. Pays(NoJob, g)
      BY <1>1, <3>2, <3>4, PaysFor
    <3>. QED BY <3>5 DEF Paid
  <2>. QED BY <2>1, <2>2
<1>. QED BY <1>3, <1>4

\* Every transaction pays.
LEMMA StepPays ==
  ASSUME LedgerInv, OnDemandBounded, StoreNext
  PROVE  Paid
<1>1. names \subseteq Gens
  BY DEF LedgerInv, StoreTypeOK
<1>2. ASSUME NEW j \in Jobs, NEW w \in Workers, LeasedStep(j, w) PROVE Paid
  <2>1. CASE ReleaseOwned(j, w)
    BY <2>1, ReleaseWrites, ReleasePays DEF ReleaseWrite
  <2>. QED BY <1>2, <2>1, RecordWrites, JobWritesPay, AttemptsPay, PassingPays DEF LeasedStep
<1>3. ASSUME NEW j \in Jobs, Observation(j) PROVE Paid
  <2>1. CASE \E g \in names, s \in Statuses : RecordAssignment(j, g, s)
    BY <1>1, <2>1, RowWritesPay
  <2>2. CASE \E s \in Statuses, g \in Gens \cup {NoGen} : 
                 ObserveJob(j, s, s = "completed", g)
    BY <2>2, RecordWrites, JobWritesPay
  <2>. QED BY <1>3, <2>1, <2>2, ObservationCases
<1>4. ASSUME NEW j \in Jobs, Park(j) \/ \E g \in names : DeleteUpdate(j, g)
      PROVE  Paid
  BY <1>4, ReleaseWrites, ReleasePays DEF ReleaseWrite
<1>5. ASSUME NEW j \in Jobs, ExpireLease(j) PROVE Paid
  <2>1. UNCHANGED <<runners, fleet>> /\ jobs' = [jobs EXCEPT ![j].lease = NoWorker]
    BY <1>5 DEF ExpireLease
  <2>2. StandardRows' = StandardRows /\ ChargedWithoutVM' = ChargedWithoutVM
    <3>1. \A i \in Jobs : jobs'[i].vm = jobs[i].vm /\ jobs'[i].att = jobs[i].att
      BY <2>1 DEF LedgerInv, StoreTypeOK, JobRec
    <3>. QED BY <2>1, <3>1 DEF StandardRows, ChargedWithoutVM, Live
  <2>3. Pays(j, NoGen)
    BY <2>1, <2>2 DEF Pays, Bit, OnDemandBounded, LedgerInv, StoreTypeOK
  <2>. QED BY <2>3 DEF Paid
<1>6. ASSUME NEW g \in names, ReleaseRunner(g) \/ \E b \in BOOLEAN : DeferRunner(g, b)
      PROVE  Paid
  BY <1>1, <1>6, RowWritesPay
<1>. QED BY <1>2, <1>3, <1>4, <1>5, <1>6 DEF StoreNext, UnleasedStep

\* Whatever the callbacks do, the counter covers every on-demand VM and stays
\* within max_on_demand_runners.
THEOREM OnDemandStaysBounded == StoreSpec => []OnDemandBounded
<1>1. StoreInit => OnDemandBounded
  <2>. SUFFICES ASSUME StoreInit PROVE OnDemandBounded
    OBVIOUS
  <2>1. StandardRows = {} /\ ChargedWithoutVM = {} /\ fleet.Standard = 0
    BY DEF StoreInit, StandardRows, ChargedWithoutVM, Live, NoRow, NoRecord, Standard
  <2>. QED BY <2>1, FS_EmptySet, StoreAssumption DEF OnDemandBounded
<1>2. LedgerInv /\ OnDemandBounded /\ [StoreNext]_storeVars => OnDemandBounded'
  <2>. SUFFICES ASSUME LedgerInv, OnDemandBounded, [StoreNext]_storeVars
                PROVE  OnDemandBounded'
    OBVIOUS
  <2>1. CASE StoreNext
    BY <2>1, StepPays, PayingKeepsBound DEF Paid
  <2>2. CASE UNCHANGED storeVars
    BY <2>2 DEF storeVars, OnDemandBounded, StandardRows, ChargedWithoutVM, Live
  <2>. QED BY <2>1, <2>2
<1>. QED BY <1>1, <1>2, StoreInvariant, PTL DEF StoreSpec
=============================================================================
