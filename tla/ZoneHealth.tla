------------------------------ MODULE ZoneHealth ------------------------------
(***************************************************************************)
(* The zone circuit breaker of one process (zonehealth.go): what the lines *)
(* in Cloud Logging amount to, and the cached answer that concurrent       *)
(* creates share under a mutex held across the query.                      *)
(***************************************************************************)
EXTENDS Integers, FiniteSets, FiniteSetsExt

CONSTANTS
  Creates,        \* create callbacks running in this process
  VMs, ZoneOf,    \* VMs the logs may mention, and where each is
  Foreign,        \* those that belong to another workload of the project
  MinVMs,         \* ZoneBenchMinVMs
  MinPercent,     \* ZoneBenchMinRatio, in percent
  CacheTTL,       \* zoneHealthCacheTTL
  QueryTimeout    \* zoneHealthQueryTimeout

\* With MinVMs = 0 the breaker is off: nothing is queried and no zone is benched.
ASSUME ZoneHealthAssumption ==
  /\ Foreign \subseteq VMs
  /\ MinVMs \in Nat \ {0} /\ MinPercent \in 1 .. 100
  /\ {CacheTTL, QueryTimeout} \subseteq Nat \ {0}

VARIABLES
  breaker,  \* zoneBenched, and the zones where its query found enough stuck VMs
  checked,  \* time since zoneCheckedAt, up to CacheTTL: never, or expired
  sampled,  \* time since the last query was started
  asking    \* create -> whether it waits for the mutex or queries under it

zoneHealthVars == <<breaker, checked, sampled, asking>>

(***************************************************************************)
(* The sensor.  A window of the logs is how many lines it has about each   *)
(* VM, a dial timeout of its agent or its creation.                        *)
(***************************************************************************)
In(z, vms) == {v \in vms : ZoneOf[v] = z}
Zoned == {ZoneOf[v] : v \in VMs}

\* Mutant: lines are counted, not VMs.
ZoneReportOfLines(timeouts, creations) ==
  [z \in Zoned |->
     [failing |-> MapThenSumSet(LAMBDA v : timeouts[v], In(z, VMs \ Foreign)),
      created |-> Cardinality({v \in In(z, VMs \ Foreign) : creations[v] > 0})]]

ZoneReport(timeouts, creations) ==
  [z \in Zoned |->
     [failing |-> Cardinality({v \in In(z, VMs \ Foreign) : timeouts[v] > 0}),
      created |-> Cardinality({v \in In(z, VMs \ Foreign) : creations[v] > 0})]]

\* The denominator is at least the numerator: VMs may be older than the window.
BenchedZones(report) ==
  {z \in DOMAIN report :
     LET n == report[z].failing
         denom == IF report[z].created < n THEN n ELSE report[z].created
     IN n >= MinVMs /\ n * 100 >= MinPercent * denom}

\* Bound: at most two lines about a VM; a create that is retried logs twice.
Answers ==
  {[benched |-> BenchedZones(ZoneReport(timeouts, creations)),
    stuck |-> {z \in Zoned : Cardinality({v \in In(z, VMs \ Foreign) : timeouts[v] > 0})
                            >= MinVMs}] :
     timeouts \in [VMs -> 0 .. 2], creations \in [VMs \ Foreign -> {0, 2}]}

NoAnswer == [benched |-> {}, stuck |-> {}]

(***************************************************************************)
(* The cache.                                                              *)
(***************************************************************************)
LongAgo == CacheTTL + QueryTimeout
Later(t, cap) == IF t < cap THEN t + 1 ELSE cap
Querying == {c \in Creates : asking[c] = "querying"}

ZoneHealthInit ==
  /\ breaker = NoAnswer
  /\ checked = CacheTTL /\ sampled = LongAgo
  /\ asking = [c \in Creates |-> "no"]

Ask(c) ==
  /\ asking[c] = "no"
  /\ asking' = [asking EXCEPT ![c] = "waiting"]
  /\ UNCHANGED <<breaker, checked, sampled>>

\* Mutant: whoever finds the answer expired queries, the mutex is not held.
StartQueryUnlocked(c) ==
  /\ asking[c] = "waiting" /\ checked = CacheTTL
  /\ asking' = [asking EXCEPT ![c] = "querying"]
  /\ sampled' = 0
  /\ UNCHANGED <<breaker, checked>>

StartQuery(c) ==
  /\ asking[c] = "waiting" /\ Querying = {} /\ checked = CacheTTL
  /\ asking' = [asking EXCEPT ![c] = "querying"]
  /\ sampled' = 0
  /\ UNCHANGED <<breaker, checked>>

\* Mutant: an answer that is used stays valid.
CachedAnswerSliding(c) ==
  /\ asking[c] = "waiting" /\ Querying = {} /\ checked < CacheTTL
  /\ asking' = [asking EXCEPT ![c] = "no"]
  /\ checked' = 0
  /\ UNCHANGED <<breaker, sampled>>

CachedAnswer(c) ==
  /\ asking[c] = "waiting" /\ Querying = {} /\ checked < CacheTTL
  /\ asking' = [asking EXCEPT ![c] = "no"]
  /\ UNCHANGED <<breaker, checked, sampled>>

\* A query that fails or times out benches nothing, and counts as checked.
EndQuery(c) ==
  /\ asking[c] = "querying"
  /\ breaker' \in Answers \cup {NoAnswer}
  /\ checked' = 0
  /\ asking' = [asking EXCEPT ![c] = "no"]
  /\ UNCHANGED sampled

\* benchedZonesCached returns breaker'.benched to create c.
Returns(c) == CachedAnswer(c) \/ EndQuery(c)

\* A new process knows nothing of the old one's answer.
ForgetAnswer ==
  /\ breaker' = NoAnswer
  /\ checked' = CacheTTL /\ sampled' = LongAgo
  /\ asking' = [c \in Creates |-> "no"]

\* A query ends by its timeout.
PassTime ==
  /\ Querying # {} => sampled < QueryTimeout
  /\ checked' = Later(checked, CacheTTL)
  /\ sampled' = Later(sampled, LongAgo)
  /\ UNCHANGED <<breaker, asking>>

-----------------------------------------------------------------------------
(***************************************************************************)
(* Properties.                                                             *)
(***************************************************************************)

\* A zone is benched on the evidence of several VMs of ours: one stuck VM, however
\* often it logs, and another workload's VMs do not bench one.
BenchNeedsStuckVMs == breaker.benched \subseteq breaker.stuck

\* However many creates come in a burst, two queries start a TTL apart, even after
\* one that failed: what a Logging outage costs (zonehealth.go, benchedZonesCached).
QueriesApart ==
  [][\A c \in Creates :
       asking[c] # "querying" /\ asking'[c] = "querying" => sampled >= CacheTTL]_zoneHealthVars

\* No create orders its zones by logs older than the TTL and one query, however
\* often the answer is used.
AnswerIsRecent ==
  [][\A c \in Creates : CachedAnswer(c) => sampled < LongAgo]_zoneHealthVars
=============================================================================
