------------------------------- MODULE Audit --------------------------------
(***************************************************************************)
(* The invariant audit (auditFleet): a ledger snapshot, an inventory of    *)
(* Compute zone by zone, a second snapshot, and a comparison that only     *)
(* alerts an operator.  It takes no lease and no lock, so every callback   *)
(* of Lifecycle may run between any two of its reads.                      *)
(***************************************************************************)
EXTENDS Lifecycle

CONSTANT Auditing   \* bound: whether a run explores the audit

ASSUME AuditAssumption == Auditing \in BOOLEAN

VARIABLE audit   \* the audit under way

auditVars == <<vars, audit>>

\* counts and rows are the first snapshot, actual what Compute listed.  An attempt
\* stands for its zone: they are listed in order, and zone 0 is none listed yet.
\* Once all are, only the discrepancies are kept, and without any the audit is over:
\* VMs without a matching row, rows without their VM, and (short) a wrong count.
NoAudit == [on |-> FALSE, counts |-> [Runners |-> 0, Standard |-> 0],
            rows |-> {}, actual |-> {}, zone |-> 0, unmatched |-> {},
            missing |-> {}, short |-> FALSE]
Model(a) == IF a = 0 THEN "" ELSE Plan[a]

AuditInit == Init /\ audit = NoAudit

\* AuditSnapshot: counters and ledger rows in one read-only transaction.
TakeSnapshot ==
  /\ Auditing /\ ~audit.on
  /\ audit' = [NoAudit EXCEPT !.on = TRUE, !.counts = fleet,
       !.rows = {[name |-> g, model |-> Model(runners[g].rec.att),
                  created |-> runners[g].rec.created] : g \in Live}]
  /\ UNCHANGED vars

\* ledgerDiscrepancy, as the alarms it raises about single runners: a VM without a
\* row or of another model than its row, and a confirmed row without a VM.  (Of two VMs of
\* one name the code compares the one listed last.)
Unmatched(rows, actual) ==
  {vm.name : vm \in {x \in actual : \A r \in rows :
                       r.name = x.name => r.model \notin {"", x.model}}}
Missing(rows, actual) == {r.name : r \in {x \in rows :
                            x.created /\ \A vm \in actual : vm.name # x.name}}

\* listInstances of the next zone: every VM Compute shows, running or stopped.
ListZone ==
  LET a == audit.zone + 1
      actual == audit.actual \cup
                  [name : {g \in Gens : a \in Visible(g)}, model : {Model(a)}]
      unmatched == Unmatched(audit.rows, actual)
      missing == Missing(audit.rows, actual)
      short == audit.counts.Runners # Cardinality(audit.rows)
  IN
  /\ audit.on /\ a \in Attempts
  /\ audit' = IF a < Len(Plan) THEN [audit EXCEPT !.zone = a, !.actual = actual]
              ELSE IF unmatched \cup missing = {} /\ ~short THEN NoAudit
              ELSE [NoAudit EXCEPT !.on = TRUE, !.zone = a, !.counts = audit.counts,
                                   !.unmatched = unmatched, !.missing = missing,
                                   !.short = short]
  /\ UNCHANGED vars

\* The report is made, or a call failed and the audit answers 503.
EndAudit == audit.on /\ audit' = NoAudit /\ UNCHANGED vars

\* What a step of anybody else means for the audit.  Revision moves exactly with
\* the counters, and an audit whose second snapshot shows another one is deferred,
\* so from the first change on nothing it read matters.
\* Mutant: the two snapshots are compared by their counters alone.
FollowCounters == UNCHANGED audit

Follow == audit' = IF fleet' = fleet THEN audit ELSE NoAudit

AuditNext == TakeSnapshot \/ ListZone \/ EndAudit \/ (Next /\ Follow)

AuditSpec == AuditInit /\ [][AuditNext]_auditVars

-----------------------------------------------------------------------------
\* An audit that is not deferred raises no false alarm about a runner: no VM it
\* calls unreserved or of another model than its reservation, no difference
\* between the count and the rows, and a confirmed runner it misses has no VM in
\* Compute by then.  Compute is listed while callbacks create and delete VMs.  About
\* a generation astray every alarm is right: it may have a VM too many.
AuditSound ==
  audit.counts = fleet =>
    /\ audit.unmatched \subseteq astray /\ ~audit.short
    /\ \A g \in audit.missing \ astray : Visible(g) = {}
=============================================================================
