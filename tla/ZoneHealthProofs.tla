-------------------------- MODULE ZoneHealthProofs --------------------------
(***************************************************************************)
(* The zone breaker's cache for any number of creates, VMs and zones, any  *)
(* thresholds and any durations, driven by the create passes of            *)
(* CreationPlan.                                                           *)
(*                                                                         *)
(* CacheInv is the inductive invariant: it ties the age of the answer to   *)
(* the age of the query it came from, and says the mutex is exclusive.     *)
(***************************************************************************)
EXTENDS CreationPlan, TLAPS

QueryOver == \A c \in Creates : asking[c] # "querying"

\* The clocks and the creates have their shapes.
CacheTypeOK ==
  /\ checked \in 0 .. CacheTTL
  /\ sampled \in 0 .. LongAgo
  /\ asking \in [Creates -> {"no", "waiting", "querying"}]

\* One create at a time queries, only once the answer has expired, and not for
\* longer than the timeout.
QueryInv ==
  /\ \A c, d \in Creates : asking[c] = "querying" /\ asking[d] = "querying" => c = d
  /\ \/ QueryOver
     \/ checked = CacheTTL /\ sampled <= QueryTimeout

\* The answer is no older than its query, which took at most the timeout.
AgeInv ==
  QueryOver => /\ checked <= sampled
               /\ checked < CacheTTL => sampled <= checked + QueryTimeout

CacheInv == CacheTypeOK /\ QueryInv /\ AgeInv /\ BenchNeedsStuckVMs

\* What any step of the creation plan may do to the breaker.
BreakerStep ==
  \/ \E c \in Creates : Ask(c) \/ StartQuery(c) \/ Returns(c)
  \/ PassTime \/ ForgetAnswer \/ UNCHANGED zoneHealthVars

-----------------------------------------------------------------------------
LEMMA StepsOfPlan ==
  ASSUME [Next]_vars
  PROVE  BreakerStep
<1>1. ThisCreate \in Creates
  BY PlanAssumption
<1>2. CASE AskBreaker
  BY <1>1, <1>2 DEF AskBreaker, BreakerStep
<1>3. CASE StartPass \/ ResumePass \/ SettledPass
  BY <1>1, <1>3 DEF StartPass, ResumePass, SettledPass, Answered, BreakerStep
<1>4. CASE Pass /\ asking[ThisCreate] = "no" /\ UNCHANGED zoneHealthVars
  BY <1>4 DEF BreakerStep
<1>5. CASE StartQuery(ThisCreate) \/ (\E c \in Creates : OtherCreate(c)) \/ PassTime
  BY <1>1, <1>5 DEF OtherCreate, BreakerStep
<1>6. CASE Restart /\ ForgetAnswer
  BY <1>6 DEF BreakerStep
<1>7. CASE UNCHANGED vars
  BY <1>7 DEF vars, BreakerStep
<1>. QED BY <1>2, <1>3, <1>4, <1>5, <1>6, <1>7 DEF Next

\* The percentage only narrows the zones that have enough stuck VMs.
LEMMA AnswersNeedVMs ==
  ASSUME NEW a \in Answers
  PROVE  a.benched \subseteq a.stuck
<1>1. PICK timeouts \in [VMs -> 0 .. 2], creations \in [VMs \ Foreign -> {0, 2}] :
        a = [benched |-> BenchedZones(ZoneReport(timeouts, creations)),
             stuck |-> {z \in Zoned :
                          Cardinality({v \in In(z, VMs \ Foreign) : timeouts[v] > 0})
                            >= MinVMs}]
  BY DEF Answers
<1>2. ASSUME NEW z \in BenchedZones(ZoneReport(timeouts, creations))
      PROVE  /\ z \in Zoned
             /\ Cardinality({v \in In(z, VMs \ Foreign) : timeouts[v] > 0}) >= MinVMs
  BY <1>2 DEF BenchedZones, ZoneReport
<1>. QED BY <1>1, <1>2

LEMMA CacheInit == Init => CacheInv
  BY ZoneHealthAssumption
     DEF Init, ZoneHealthInit, CacheInv, CacheTypeOK, QueryInv, AgeInv, QueryOver,
         BenchNeedsStuckVMs, NoAnswer, LongAgo

LEMMA CacheStep ==
  ASSUME CacheInv, BreakerStep
  PROVE  CacheInv'
<1>. USE ZoneHealthAssumption
<1>1. ASSUME NEW c \in Creates, Ask(c)
      PROVE  CacheInv'
  BY <1>1 DEF CacheInv, CacheTypeOK, QueryInv, AgeInv, QueryOver,
              BenchNeedsStuckVMs, Ask
<1>2. ASSUME NEW c \in Creates, StartQuery(c)
      PROVE  CacheInv'
  BY <1>2 DEF CacheInv, CacheTypeOK, QueryInv, AgeInv, QueryOver,
              BenchNeedsStuckVMs, StartQuery, Querying, LongAgo
<1>3. ASSUME NEW c \in Creates, CachedAnswer(c)
      PROVE  CacheInv'
  BY <1>3 DEF CacheInv, CacheTypeOK, QueryInv, AgeInv, QueryOver,
              BenchNeedsStuckVMs, CachedAnswer
<1>4. ASSUME NEW c \in Creates, EndQuery(c)
      PROVE  CacheInv'
  <2>1. /\ asking' = [asking EXCEPT ![c] = "no"]
        /\ checked' = 0 /\ sampled' = sampled
        /\ sampled <= QueryTimeout
        /\ QueryOver'
    BY <1>4 DEF EndQuery, CacheInv, CacheTypeOK, QueryInv, QueryOver
  <2>2. BenchNeedsStuckVMs'
    BY <1>4, AnswersNeedVMs DEF EndQuery, BenchNeedsStuckVMs, NoAnswer
  <2>. QED BY <2>1, <2>2 DEF CacheInv, CacheTypeOK, QueryInv, AgeInv, QueryOver
<1>5. CASE PassTime
  <2>1. UNCHANGED <<breaker, asking>>
    BY <1>5 DEF PassTime
  <2>2. CacheTypeOK'
    BY <1>5 DEF PassTime, CacheInv, CacheTypeOK, Later, LongAgo
  <2>3. CASE QueryOver
    BY <1>5, <2>1, <2>2, <2>3
       DEF PassTime, CacheInv, CacheTypeOK, QueryInv, AgeInv, QueryOver,
           BenchNeedsStuckVMs, Later, LongAgo
  <2>4. CASE ~QueryOver
    <3>1. Querying # {}
      BY <2>4 DEF QueryOver, Querying
    <3>. QED BY <1>5, <2>1, <2>2, <2>4, <3>1
         DEF PassTime, CacheInv, CacheTypeOK, QueryInv, AgeInv, QueryOver,
             BenchNeedsStuckVMs, Later, LongAgo
  <2>. QED BY <2>3, <2>4
<1>6. CASE ForgetAnswer
  BY <1>6 DEF CacheInv, CacheTypeOK, QueryInv, AgeInv, QueryOver,
              BenchNeedsStuckVMs, ForgetAnswer, NoAnswer, LongAgo
<1>7. CASE UNCHANGED zoneHealthVars
  BY <1>7 DEF CacheInv, CacheTypeOK, QueryInv, AgeInv, QueryOver,
              BenchNeedsStuckVMs, zoneHealthVars
<1>. QED BY <1>1, <1>2, <1>3, <1>4, <1>5, <1>6, <1>7 DEF BreakerStep, Returns

\* CacheInv holds in every reachable state of the creation plan.
THEOREM CacheInvariant == Spec => []CacheInv
<1>1. CacheInv /\ [Next]_vars => CacheInv'
  BY StepsOfPlan, CacheStep
<1>. QED BY CacheInit, <1>1, PTL DEF Spec

-----------------------------------------------------------------------------
\* The cached answer benches a zone only on the evidence of MinVMs stuck VMs of
\* ours (zoneReportFromEntries, benchedZones).
THEOREM BenchedOnEvidence == Spec => []BenchNeedsStuckVMs
<1>1. CacheInv => BenchNeedsStuckVMs
  BY DEF CacheInv
<1>. QED BY <1>1, CacheInvariant, PTL

\* Two queries of one process start a TTL apart, whatever the bursts of creates,
\* failures and timeouts (benchedZonesCached under its mutex).
THEOREM QueriesAreApart == Spec => QueriesApart
<1>1. CacheInv /\ [Next]_vars =>
        [\A c \in Creates :
           asking[c] # "querying" /\ asking'[c] = "querying" =>
             sampled >= CacheTTL]_zoneHealthVars
  <2>. SUFFICES ASSUME CacheInv, BreakerStep, NEW c \in Creates,
                       asking[c] # "querying", asking'[c] = "querying"
                PROVE  sampled >= CacheTTL
    BY StepsOfPlan
  <2>1. PICK d \in Creates : StartQuery(d)
    BY DEF BreakerStep, Returns, Ask, CachedAnswer, EndQuery, PassTime, ForgetAnswer,
           zoneHealthVars, CacheInv, CacheTypeOK
  <2>2. QueryOver
    BY <2>1 DEF StartQuery, Querying, QueryOver
  <2>. QED BY <2>1, <2>2, ZoneHealthAssumption
           DEF StartQuery, CacheInv, CacheTypeOK, AgeInv, LongAgo
<1>. QED BY <1>1, CacheInvariant, PTL DEF Spec, QueriesApart

\* An answer that a create uses rests on logs younger than the TTL and one query,
\* so a zone is neither benched nor trusted on older ones.
THEOREM AnswersAreRecent == Spec => AnswerIsRecent
<1>1. CacheInv => [\A c \in Creates : CachedAnswer(c) => sampled < LongAgo]_zoneHealthVars
  <2>. SUFFICES ASSUME CacheInv, NEW c \in Creates, CachedAnswer(c)
                PROVE  sampled < LongAgo
    OBVIOUS
  <2>1. QueryOver /\ checked < CacheTTL
    BY DEF CachedAnswer, Querying, QueryOver
  <2>. QED BY <2>1, ZoneHealthAssumption DEF CacheInv, CacheTypeOK, AgeInv, LongAgo
<1>. QED BY <1>1, CacheInvariant, PTL DEF AnswerIsRecent
=============================================================================
