---------------------------- MODULE CreationPlan -----------------------------
(***************************************************************************)
(* Which zone, provisioning model and machine type a generation is tried   *)
(* with (creationPlan in srv.go, the zone circuit breaker's order in       *)
(* zonehealth.go) and how successive create passes walk that plan          *)
(* (processJob's loop and attemptsAfter in lifecycle.go).                  *)
(*                                                                         *)
(* Lifecycle takes the plan as a constant sequence and asks who may act on *)
(* a generation.  Here one generation is acted on by one pass at a time,   *)
(* the lease sees to that, and the plan is computed anew by every pass,    *)
(* with what the breaker of its process answers.                           *)
(***************************************************************************)
EXTENDS ZoneHealth, Sequences, SequencesExt

CONSTANTS
  Zones,          \* configured zones, in order
  Families,       \* machine types to fall back on; may be empty
  ThisCreate      \* the create that runs the passes, among Creates

ASSUME PlanAssumption ==
  /\ Zones \in Seq(Range(Zones)) /\ Zones # <<>> /\ IsInjective(Zones)
  /\ Families \in Seq(Range(Families))
  /\ ZoneOf \in [VMs -> Range(Zones)]
  /\ ThisCreate \in Creates

VARIABLES
  setup,     \* what differs between deployments and jobs; never changes
  start,     \* where the hash of the VM name starts the rotation of the zones
  bench,     \* zones the breaker benched when the current pass asked
  plan,      \* what is left of the pass's plan
  saved,     \* the record's Zone, Model and Machine
  pc,        \* idle, between two attempts, an insert is out, or over
  stockouts  \* attempts Compute refused for lack of capacity since a pass last
             \* started with the whole plan

planVars == <<setup, start, bench, plan, saved, pc, stockouts>>
vars == <<zoneHealthVars, planVars>>

\* The primary template is SPOT and an on-demand one exists; allow_on_demand; the
\* job asks for one machine type.
Setups == [fallback : BOOLEAN, onDemand : BOOLEAN, override : BOOLEAN]

(***************************************************************************)
(* The plan.  A template decides the provisioning model and is left out.   *)
(***************************************************************************)
Default == "default"          \* the template's own or the job's machine type
HasFallback == setup.fallback
Primary == IF HasFallback THEN "spot" ELSE "standard"
Attempt(zone, model, machine) ==
  [zone |-> zone, model |-> model, machine |-> machine]
AttemptSet == {Attempt(z, m, f) : z \in Range(Zones), m \in {"spot", "standard"},
                                  f \in Range(Families) \cup {Default}}
NoAttempt == Attempt("", "", "")

OrderedZones(first) ==
  [i \in DOMAIN Zones |-> Zones[((first + i - 1) % Len(Zones)) + 1]]

\* What a loop collects that appends the elements at these positions and no others.
Collect(s, at) ==
  [k \in 1 .. Cardinality(at) |->
     s[CHOOSE i \in at : Cardinality({j \in at : j <= i}) = k]]

Healthy(zones, benched) == Collect(zones, {i \in DOMAIN zones : zones[i] \notin benched})

\* Benched zones go to the end, both groups in rotation order.
OrderedZonesBenched(first, benched) ==
  LET zones == OrderedZones(first) IN
  Healthy(zones, benched) \o Collect(zones, {i \in DOMAIN zones : zones[i] \in benched})

\* Mutant: the walk over families does not leave the benched zones out.
HealthyZonesAll(zones, benched) == zones

HealthyZones(zones, benched) ==
  IF Healthy(zones, benched) = <<>> THEN zones ELSE Healthy(zones, benched)

\* Mutant: both templates in one zone, then both in the next.
LegacyPlanByZone(zones) ==
  [i \in 1 .. 2 * Len(zones) |->
     Attempt(zones[(i + 1) \div 2], IF i % 2 = 1 THEN "spot" ELSE "standard", Default)]

\* Every zone with the primary template, then every zone on demand.
LegacyPlan(zones) ==
  LET sweep(model) == [i \in DOMAIN zones |-> Attempt(zones[i], model, Default)]
  IN sweep(Primary) \o (IF HasFallback THEN sweep("standard") ELSE <<>>)

DedupePreserveOrder(s) ==
  Collect(s, {i \in DOMAIN s : \A k \in 1 .. i - 1 : s[k] # s[i]})

\* One attempt per family, zones by turns, then the first two on demand.
StandardFallbackFamilies == 2
FamilyFallbackPlan(zones) ==
  LET fams == DedupePreserveOrder(Families)
      top == SubSeq(fams, 1, IF Len(fams) < StandardFallbackFamilies
                             THEN Len(fams) ELSE StandardFallbackFamilies)
      walk(fs, model) ==
        [i \in DOMAIN fs |->
           Attempt(zones[((i - 1) % Len(zones)) + 1], model, fs[i])]
  IN walk(fams, Primary) \o (IF HasFallback THEN walk(top, "standard") ELSE <<>>)

WalksFamilies == Families # <<>> /\ ~setup.override
FullPlan(first, benched) ==
  LET zones == OrderedZonesBenched(first, benched) IN
  IF WalksFamilies THEN FamilyFallbackPlan(HealthyZones(zones, benched))
                   ELSE LegacyPlan(zones)

\* Mutant: the failed attempt itself is among those that follow.
AttemptsFrom(full, failed) ==
  LET at == {i \in DOMAIN full : full[i] = failed} IN
  IF at = {} THEN full
  ELSE SubSeq(full, CHOOSE i \in at : \A k \in at : i <= k, Len(full))

\* What follows the failed attempt; all of a plan that does not contain it.
AttemptsAfter(full, failed) ==
  LET at == {i \in DOMAIN full : full[i] = failed} IN
  IF at = {} THEN full
  ELSE SubSeq(full, (CHOOSE i \in at : \A k \in at : i <= k) + 1, Len(full))

-----------------------------------------------------------------------------
(***************************************************************************)
(* The passes.                                                             *)
(***************************************************************************)
Init ==
  /\ ZoneHealthInit
  /\ setup \in Setups
  /\ start \in 0 .. Len(Zones) - 1
  /\ bench = {}
  /\ plan = <<>>
  /\ saved = NoAttempt
  /\ pc = "idle"
  /\ stockouts = {}

\* The pass asks the breaker, which may have to query first or to wait.
AskBreaker ==
  /\ pc = "idle" /\ Ask(ThisCreate)
  /\ UNCHANGED planVars

\* It answers, and the plan is computed; name may be a new VM name.
Answered(name) ==
  /\ pc = "idle" /\ Returns(ThisCreate)
  /\ bench' = breaker'.benched
  /\ start' = name
  /\ pc' = "between"
  /\ UNCHANGED setup

\* A pass without a saved attempt takes the whole plan.  Its name is new if the
\* credential of the last one was over 45 minutes old.
StartPass ==
  /\ saved = NoAttempt
  /\ \E name \in 0 .. Len(Zones) - 1 : Answered(name)
  /\ plan' = FullPlan(start', bench')
  /\ stockouts' = {}
  /\ UNCHANGED saved

\* The outcome of the saved attempt is still open: it is repeated first.
ResumePass ==
  /\ saved # NoAttempt
  /\ Answered(start)
  /\ plan' = <<saved>> \o AttemptsAfter(FullPlan(start, bench'), saved)
  /\ UNCHANGED <<saved, stockouts>>

\* Its operation turns out to have failed for lack of capacity: the plan goes on,
\* under a new name if the credential is too old.
SettledPass ==
  /\ saved # NoAttempt
  /\ \E name \in 0 .. Len(Zones) - 1 : Answered(name)
  /\ plan' = AttemptsAfter(FullPlan(start', bench'), saved)
  /\ saved' = NoAttempt
  /\ stockouts' = stockouts \cup {saved}

\* The pass is over.  What the history variables say matters only to a pass that
\* goes on with a saved attempt.
Leave(to) ==
  /\ pc' = to /\ plan' = <<>>
  /\ IF to = "idle" /\ saved' # NoAttempt THEN UNCHANGED <<bench, stockouts>>
     ELSE bench' = {} /\ stockouts' = {}
  /\ UNCHANGED <<setup, start>>

\* It created the VM after all, or failed otherwise and a new generation takes
\* over: nothing more is tried for this one.
Resolved ==
  /\ pc = "idle" /\ saved # NoAttempt
  /\ UNCHANGED saved /\ Leave("over")

\* On-demand attempts are passed over when they are not allowed.
SkipAttempt ==
  /\ pc = "between" /\ plan # <<>>
  /\ Head(plan).model = "standard" /\ ~setup.onDemand
  /\ plan' = Tail(plan)
  /\ UNCHANGED <<setup, start, bench, saved, pc, stockouts>>

SaveAttempt ==
  /\ pc = "between" /\ plan # <<>>
  /\ Head(plan).model = "standard" => setup.onDemand
  /\ saved' = Head(plan)
  /\ plan' = Tail(plan)
  /\ pc' = "insert"
  /\ UNCHANGED <<setup, start, bench, stockouts>>

\* Nothing is left, the on-demand limit is reached, the job has completed, or
\* the worker dies before the write: the pass ends and is retried later.
EndPass == pc = "between" /\ UNCHANGED saved /\ Leave("idle")

Succeeds == pc = "insert" /\ UNCHANGED saved /\ Leave("over")

\* Mutant: the provisioning model is reset and the zone is not.
StockoutPartly ==
  /\ pc = "insert"
  /\ stockouts' = stockouts \cup {saved}
  /\ saved' = [saved EXCEPT !.model = ""]
  /\ pc' = "between"
  /\ UNCHANGED <<setup, start, bench, plan>>

Stockout ==
  /\ pc = "insert"
  /\ stockouts' = stockouts \cup {saved}
  /\ saved' = NoAttempt
  /\ pc' = "between"
  /\ UNCHANGED <<setup, start, bench, plan>>

\* A rate limit clears the attempt and ends the pass; so does a rejection, for
\* good.
Refused ==
  /\ pc = "insert"
  /\ saved' = NoAttempt
  /\ \E to \in {"idle", "over"} : Leave(to)

\* A timeout or a lost answer: the attempt stays saved.
Ambiguous == pc = "insert" /\ UNCHANGED saved /\ Leave("idle")

\* The process dies, or the task is next delivered to another one: the record
\* stays, the breaker's answer does not.
Restart ==
  /\ pc \in {"idle", "between", "insert"}
  /\ UNCHANGED saved /\ Leave("idle")

\* The other creates of the process only share the breaker.
OtherCreate(c) == c # ThisCreate /\ (Ask(c) \/ StartQuery(c) \/ Returns(c))

Pass ==
  \/ Resolved \/ SkipAttempt \/ SaveAttempt \/ EndPass
  \/ Succeeds \/ Stockout \/ Refused \/ Ambiguous

Next ==
  \/ AskBreaker
  \/ StartPass \/ ResumePass \/ SettledPass
  \/ Pass /\ asking[ThisCreate] = "no" /\ UNCHANGED zoneHealthVars
  \/ (\/ StartQuery(ThisCreate) \/ \E c \in Creates : OtherCreate(c)
      \/ PassTime) /\ UNCHANGED planVars
  \/ Restart /\ ForgetAnswer

Spec == Init /\ [][Next]_vars

\* A pass that goes on with an attempt finds the zones benched that were benched
\* when the whole plan was taken, and the VM name it had.  The code does not see to
\* that: the breaker's answer changes with the logs and from one process to another,
\* and a credential past its 45 minutes brings a new name.
Steady == pc = "idle" /\ pc' = "between" /\ saved # NoAttempt
            => bench' = bench /\ start' = start
SteadySpec == Init /\ [][Next /\ Steady]_vars

-----------------------------------------------------------------------------
(***************************************************************************)
(* Properties.                                                             *)
(***************************************************************************)

\* Whatever the pass tries is an attempt of the configuration.
PlanTypeOK ==
  /\ breaker.benched \subseteq Range(Zones) /\ breaker.stuck \subseteq Range(Zones)
  /\ checked \in 0 .. CacheTTL /\ sampled \in 0 .. LongAgo
  /\ asking \in [Creates -> {"no", "waiting", "querying"}]
  /\ setup \in Setups
  /\ start \in 0 .. Len(Zones) - 1
  /\ bench \subseteq Range(Zones)
  /\ plan \in Seq(AttemptSet)
  /\ saved \in AttemptSet \cup {NoAttempt}
  /\ pc \in {"idle", "between", "insert", "over"}
  /\ stockouts \subseteq AttemptSet

\* A zone for the sweep over zones, a family for the walk over families.
Kind(a) == IF WalksFamilies THEN a.machine ELSE a.zone
Kinds == IF WalksFamilies THEN Range(Families) ELSE Range(Zones)

\* An on-demand VM is asked for only after SPOT was refused everywhere, however
\* many crashes, timeouts, expired answers and resumed passes lie between
\* (LIFECYCLE.md, Capacity fallback).  Of SteadySpec only: in a plan that the breaker
\* or a new name has reordered meanwhile, zones are skipped.
SpotExhaustedFirst ==
  pc = "insert" /\ saved.model = "standard" /\ HasFallback =>
    Kinds \subseteq {Kind(a) : a \in {b \in stockouts : b.model = "spot"}}

\* A benched zone is tried only when the same attempt was refused in every
\* healthy zone: the walk over families never reaches one while another is left.  Of
\* SteadySpec only: an attempt saved in a zone that is benched since is tried again
\* first.
HealthyZonesFirst ==
  pc = "insert" /\ saved.zone \in bench =>
    \A z \in Range(Zones) \ bench : [saved EXCEPT !.zone = z] \in stockouts

\* What Compute refused is not asked for again before the plan is exhausted: one
\* attempt per zone and model, or per family and model, which the tests' deadline
\* budget counts on.  Of SteadySpec only: if A was refused and is benched then, a pass
\* resumed at B in the plan B, C, A asks for A again.
NoAttemptRepeated ==
  pc = "insert" =>
    \A b \in stockouts : b.model = saved.model => Kind(b) # Kind(saved)
=============================================================================
