------------------------- MODULE CreationPlanProofs -------------------------
(***************************************************************************)
(* What creation attempts a generation goes through, for any zones, any    *)
(* families and any answers of the zone breaker.                           *)
(*                                                                         *)
(* First what a full plan is: what its loops collect (Collected), the      *)
(* rotation of the zones (Rotated), and from these that no attempt is in   *)
(* it twice, that SPOT comes before on-demand and healthy zones before     *)
(* benched ones (PlanIsSound).  Then PassInv: whatever crashes, timeouts   *)
(* and resumed passes lie behind, what is left of a plan starts right      *)
(* after what Compute has refused.                                         *)
(***************************************************************************)
EXTENDS ZoneHealthProofs, SequenceTheorems, FiniteSetTheorems, NaturalsInduction

-----------------------------------------------------------------------------
(***************************************************************************)
(* Sequences.                                                              *)
(***************************************************************************)
\* Every set of numbers has a least one.
LEMMA Least ==
  ASSUME NEW S \in SUBSET Nat, S # {}
  PROVE  \E n \in S : \A m \in S : n <= m
<1>1. PICK less : less = OpToRel(<, Nat)
  OBVIOUS
<1>2. IsWellFoundedOn(less, Nat)
  BY <1>1, NatLessThanWellFounded
<1>3. PICK n \in S : \A m \in S : ~(<<m, n>> \in less)
  BY <1>2, WFMin
<1>4. \A m, k \in Nat : m < k => <<m, k>> \in less
  BY <1>1 DEF OpToRel
<1>5. \A m \in S : m \in Nat /\ n \in Nat /\ ~(m < n)
  BY <1>3, <1>4
<1>. QED BY <1>5

\* c holds what s has at these positions, each taken once.
CollectedFrom(c, s, at) ==
  \E pos \in [1 .. Len(c) -> at] :
    /\ \A k \in 1 .. Len(c) : c[k] = s[pos[k]]
    /\ \A k, m \in 1 .. Len(c) : pos[k] = pos[m] => k = m
    /\ \A i \in at : \E k \in 1 .. Len(c) : pos[k] = i

\* Collect takes each position once, and no other.
LEMMA Collected ==
  ASSUME NEW S, NEW s \in Seq(S), NEW at \in SUBSET DOMAIN s,
         NEW c, c = Collect(s, at)
  PROVE  c \in Seq(S) /\ Len(c) \in Nat /\ CollectedFrom(c, s, at)
<1>1. Len(s) \in Nat /\ DOMAIN s = 1 .. Len(s) /\ \A i \in 1 .. Len(s) : s[i] \in S
  BY LenProperties
<1>2. IsFiniteSet(at) /\ Cardinality(at) \in Nat
  <2>1. IsFiniteSet(1 .. Len(s))
    BY <1>1, FS_Interval
  <2>. QED BY <1>1, <2>1, FS_Subset, FS_CardinalityType
<1> DEFINE below(i) == {j \in at : j <= i}
<1>3. PICK rank : rank = [i \in at |-> Cardinality(below(i))]
  OBVIOUS
<1>4. ASSUME NEW i \in at
      PROVE  IsFiniteSet(below(i)) /\ rank[i] = Cardinality(below(i))
             /\ rank[i] \in 1 .. Cardinality(at)
  <2>1. /\ IsFiniteSet(below(i)) /\ Cardinality(below(i)) <= Cardinality(at)
        /\ Cardinality(below(i)) \in Nat
    BY <1>2, FS_Subset, FS_CardinalityType
  <2>2. i \in below(i)
    BY <1>1
  <2>3. Cardinality(below(i)) # 0
    BY <2>1, <2>2, FS_EmptySet
  <2>. QED BY <1>2, <1>3, <2>1, <2>3
<1>5. ASSUME NEW i \in at, NEW k \in at, rank[i] = rank[k], i < k
      PROVE  FALSE
  <2>1. below(i) \subseteq below(k)
    BY <1>1, <1>5
  <2>2. below(i) = below(k)
    BY <1>4, <1>5, <2>1, FS_Subset
  <2>3. k \in below(k) /\ k \notin below(i)
    BY <1>1, <1>5
  <2>. QED BY <2>2, <2>3
<1>6. \A i, k \in at : rank[i] = rank[k] => i = k
  <2>1. \A i, k \in at : i < k \/ k < i \/ i = k
    BY <1>1
  <2>. QED BY <1>5, <2>1
<1>7. rank \in [at -> 1 .. Cardinality(at)]
  BY <1>3, <1>4
<1>8. \A k \in 1 .. Cardinality(at) : \E i \in at : rank[i] = k
  <2>1. rank \in Injection(at, 1 .. Cardinality(at))
    BY <1>6, <1>7 DEF Injection, IsInjective
  <2>2. IsFiniteSet(1 .. Cardinality(at)) /\ Cardinality(1 .. Cardinality(at)) = Cardinality(at)
    BY <1>2, FS_Interval
  <2>3. rank \in Surjection(at, 1 .. Cardinality(at))
    BY <2>1, <2>2, FS_Injection
  <2>. QED BY <2>3 DEF Surjection
<1>9. PICK pos : pos = [k \in 1 .. Cardinality(at) |-> CHOOSE i \in at : rank[i] = k]
  OBVIOUS
<1>10. \A k \in 1 .. Cardinality(at) : pos[k] \in at /\ rank[pos[k]] = k
  BY <1>8, <1>9
<1>11. \A k \in 1 .. Cardinality(at) : pos[k] = CHOOSE i \in at : Cardinality(below(i)) = k
  BY <1>4, <1>9
<1>12. c = [k \in 1 .. Cardinality(at) |-> s[pos[k]]]
  <2>1. c = [k \in 1 .. Cardinality(at) |->
                            s[CHOOSE i \in at : Cardinality(below(i)) = k]]
    BY DEF Collect
  <2>. HIDE DEF below
  <2>. QED BY <1>11, <2>1
<1>13. c \in Seq(S) /\ Len(c) = Cardinality(at)
  BY <1>1, <1>2, <1>10, <1>12
<1>14. pos \in [1 .. Cardinality(at) -> at]
  BY <1>9, <1>10
<1>15. \A k, m \in 1 .. Cardinality(at) : pos[k] = pos[m] => k = m
  BY <1>10
<1>16. \A i \in at : \E k \in 1 .. Cardinality(at) : pos[k] = i
  <2>1. ASSUME NEW i \in at PROVE rank[i] \in 1 .. Cardinality(at) /\ pos[rank[i]] = i
    BY <1>6, <1>7, <1>10
  <2>. QED BY <2>1
<1>17. \A k \in 1 .. Cardinality(at) : c[k] = s[pos[k]]
  BY <1>12
<1>. QED BY <1>2, <1>13, <1>14, <1>15, <1>16, <1>17 DEF CollectedFrom

\* The remainder, as far as the rotation of the zones goes round.
LEMMA Wraps ==
  ASSUME NEW n \in Nat \ {0}, NEW x \in Nat, x < 2 * n
  PROVE  x % n = (IF x < n THEN x ELSE x - n) /\ x % n \in 0 .. n - 1
<1>1. CASE x < n
  BY <1>1
<1>2. CASE ~(x < n)
  BY <1>2
<1>. QED BY <1>1, <1>2

\* Any remainder is an index counted from 0.
LEMMA Remainder ==
  ASSUME NEW n \in Nat \ {0}, NEW x \in Nat
  PROVE  x % n \in 0 .. n - 1
OBVIOUS

-----------------------------------------------------------------------------
(***************************************************************************)
(* The order of the zones.                                                 *)
(***************************************************************************)
\* A list without repetitions of all zones.
AllZones(zones) ==
  /\ zones \in Seq(Range(Zones)) /\ Len(zones) # 0
  /\ \A i, k \in DOMAIN zones : zones[i] = zones[k] => i = k
  /\ \A z \in Range(Zones) : \E i \in DOMAIN zones : zones[i] = z

\* The configuration is one.
LEMMA Configured == AllZones(Zones)
<1>1. /\ Zones \in Seq(Range(Zones)) /\ Len(Zones) \in Nat
      /\ DOMAIN Zones = 1 .. Len(Zones)
  BY PlanAssumption
<1>2. Len(Zones) # 0
  BY PlanAssumption, EmptySeq
<1>3. \A i, k \in DOMAIN Zones : Zones[i] = Zones[k] => i = k
  BY PlanAssumption DEF IsInjective
<1>4. \A z \in Range(Zones) : \E i \in DOMAIN Zones : Zones[i] = z
  BY DEF Range
<1>. QED BY <1>1, <1>2, <1>3, <1>4 DEF AllZones

\* Wherever the rotation starts, it goes round once.
LEMMA Rotated ==
  ASSUME NEW first \in 0 .. Len(Zones) - 1
  PROVE  AllZones(OrderedZones(first))
<1>1. /\ Len(Zones) \in Nat \ {0} /\ DOMAIN Zones = 1 .. Len(Zones)
      /\ \A i \in 1 .. Len(Zones) : Zones[i] \in Range(Zones)
  BY Configured DEF AllZones, Range
<1>2. PICK n \in Nat \ {0} : n = Len(Zones)
  BY <1>1
<1>3. PICK at : at = [i \in 1 .. n |-> ((first + i - 1) % n) + 1]
  OBVIOUS
<1>4. ASSUME NEW i \in 1 .. n
      PROVE  /\ at[i] = (IF first + i - 1 < n THEN first + i ELSE first + i - n)
             /\ at[i] \in 1 .. n
  <2>1. PICK x \in Nat : x = first + i - 1 /\ x < 2 * n
    BY <1>2
  <2>2. x % n = (IF x < n THEN x ELSE x - n) /\ x % n \in 0 .. n - 1
    BY <2>1, Wraps
  <2>3. at[i] = (x % n) + 1
    BY <1>3, <2>1
  <2>. QED BY <1>2, <2>1, <2>2, <2>3
<1>5. OrderedZones(first) = [i \in 1 .. n |-> Zones[at[i]]]
  BY <1>1, <1>2, <1>3 DEF OrderedZones
<1>6. OrderedZones(first) \in Seq(Range(Zones)) /\ Len(OrderedZones(first)) = n
  BY <1>1, <1>2, <1>4, <1>5
<1>7. ASSUME NEW i \in 1 .. n, NEW k \in 1 .. n, Zones[at[i]] = Zones[at[k]]
      PROVE  i = k
  <2>1. at[i] = at[k]
    BY <1>1, <1>2, <1>4, <1>7, Configured DEF AllZones
  <2>. QED BY <1>2, <1>4, <2>1
<1>8. ASSUME NEW z \in Range(Zones)
      PROVE  \E i \in 1 .. n : Zones[at[i]] = z
  <2>1. PICK k \in 1 .. n : Zones[k] = z
    BY <1>1, <1>2, Configured DEF AllZones
  <2>2. PICK i \in 1 .. n : i = (IF k > first THEN k - first ELSE k - first + n)
    BY <1>2
  <2>3. at[i] = k
    BY <1>2, <1>4, <2>2
  <2>. QED BY <2>1, <2>3
<1>. QED BY <1>2, <1>5, <1>6, <1>7, <1>8 DEF AllZones

\* The benched zones come last, and none is lost or repeated.
LEMMA BenchedLast ==
  ASSUME NEW first \in 0 .. Len(Zones) - 1, NEW B,
         NEW zones, zones = OrderedZonesBenched(first, B)
  PROVE  /\ AllZones(zones)
         /\ \A i, k \in DOMAIN zones : zones[i] \in B /\ zones[k] \notin B => k < i
<1>1. PICK s : s = OrderedZones(first)
  OBVIOUS
<1>2. AllZones(s) /\ s \in Seq(Range(Zones)) /\ Len(s) \in Nat /\ DOMAIN s = 1 .. Len(s)
  BY <1>1, Rotated DEF AllZones
<1>3. PICK in, out : /\ in = {i \in DOMAIN s : s[i] \in B}
                     /\ out = {i \in DOMAIN s : s[i] \notin B}
  OBVIOUS
<1>4. PICK h, b : h = Collect(s, out) /\ b = Collect(s, in) /\ zones = h \o b
  BY <1>1, <1>3 DEF OrderedZonesBenched, Healthy
<1>5. PICK hp :
        /\ h \in Seq(Range(Zones)) /\ Len(h) \in Nat /\ hp \in [1 .. Len(h) -> out]
        /\ \A k \in 1 .. Len(h) : h[k] = s[hp[k]]
        /\ \A k, m \in 1 .. Len(h) : hp[k] = hp[m] => k = m
        /\ \A i \in out : \E k \in 1 .. Len(h) : hp[k] = i
  <2>1. out \in SUBSET DOMAIN s
    BY <1>3
  <2>2. h \in Seq(Range(Zones)) /\ Len(h) \in Nat /\ CollectedFrom(h, s, out)
    BY <1>2, <1>4, <2>1, Collected
  <2>. QED BY <2>2 DEF CollectedFrom
<1>6. PICK bp :
        /\ b \in Seq(Range(Zones)) /\ Len(b) \in Nat /\ bp \in [1 .. Len(b) -> in]
        /\ \A k \in 1 .. Len(b) : b[k] = s[bp[k]]
        /\ \A k, m \in 1 .. Len(b) : bp[k] = bp[m] => k = m
        /\ \A i \in in : \E k \in 1 .. Len(b) : bp[k] = i
  <2>1. in \in SUBSET DOMAIN s
    BY <1>3
  <2>2. b \in Seq(Range(Zones)) /\ Len(b) \in Nat /\ CollectedFrom(b, s, in)
    BY <1>2, <1>4, <2>1, Collected
  <2>. QED BY <2>2 DEF CollectedFrom
<1>7. /\ zones \in Seq(Range(Zones)) /\ DOMAIN zones = 1 .. Len(zones)
      /\ Len(zones) = Len(h) + Len(b)
      /\ \A i \in 1 .. Len(h) : zones[i] = h[i]
      /\ \A i \in 1 .. Len(b) : zones[i + Len(h)] = b[i]
  BY <1>4, <1>5, <1>6
\* A place in the result comes from one place in the rotation, healthy or benched.
<1>8. PICK at : at = [i \in 1 .. Len(zones) |-> IF i <= Len(h) THEN hp[i]
                                                ELSE bp[i - Len(h)]]
  OBVIOUS
<1>9. ASSUME NEW i \in 1 .. Len(zones)
      PROVE  /\ zones[i] = s[at[i]] /\ at[i] \in DOMAIN s
             /\ i <= Len(h) => zones[i] \notin B /\ at[i] \in out /\ at[i] = hp[i]
             /\ i > Len(h) => zones[i] \in B /\ at[i] \in in /\ at[i] = bp[i - Len(h)]
  <2>1. CASE i <= Len(h)
    <3>1. i \in 1 .. Len(h) /\ at[i] = hp[i] /\ hp[i] \in out /\ zones[i] = s[hp[i]]
      BY <1>5, <1>7, <1>8, <2>1
    <3>. QED BY <1>3, <1>5, <2>1, <3>1
  <2>2. CASE i > Len(h)
    <3>1. PICK k : k = i - Len(h)
      OBVIOUS
    <3>2. k \in 1 .. Len(b) /\ i = k + Len(h)
      BY <1>5, <1>6, <1>7, <2>2, <3>1
    <3>3. at[i] = bp[k]
      BY <1>5, <1>7, <1>8, <2>2, <3>1
    <3>4. zones[i] = b[k]
      BY <1>7, <3>2
    <3>5. bp[k] \in in /\ b[k] = s[bp[k]]
      BY <1>6, <3>2
    <3>. QED BY <1>3, <1>5, <2>2, <3>1, <3>3, <3>4, <3>5
  <2>. QED BY <1>5, <1>7, <2>1, <2>2
<1>10. ASSUME NEW i \in 1 .. Len(zones), NEW k \in 1 .. Len(zones), zones[i] = zones[k]
       PROVE  i = k
  <2>1. at[i] = at[k]
    BY <1>2, <1>9, <1>10 DEF AllZones
  <2>2. CASE i <= Len(h)
    <3>1. k <= Len(h)
      BY <1>5, <1>7, <1>9, <1>10, <2>2
    <3>. QED BY <1>5, <1>9, <2>1, <2>2, <3>1
  <2>3. CASE i > Len(h)
    <3>1. k > Len(h)
      BY <1>5, <1>7, <1>9, <1>10, <2>3
    <3>2. i - Len(h) \in 1 .. Len(b) /\ k - Len(h) \in 1 .. Len(b)
      BY <1>5, <1>6, <1>7, <2>3, <3>1
    <3>3. i - Len(h) = k - Len(h)
      BY <1>6, <1>9, <2>1, <2>3, <3>1, <3>2
    <3>. QED BY <1>5, <3>3
  <2>. QED BY <1>5, <2>2, <2>3
<1>11. ASSUME NEW z \in Range(Zones)
       PROVE  \E i \in 1 .. Len(zones) : zones[i] = z
  <2>1. PICK j \in DOMAIN s : s[j] = z
    BY <1>2 DEF AllZones
  <2>2. CASE z \in B
    <3>1. PICK k \in 1 .. Len(b) : bp[k] = j
      BY <1>3, <1>6, <2>1, <2>2
    <3>2. k + Len(h) \in 1 .. Len(zones) /\ zones[k + Len(h)] = z
      BY <1>5, <1>6, <1>7, <2>1, <3>1
    <3>. QED BY <3>2
  <2>3. CASE z \notin B
    <3>1. PICK k \in 1 .. Len(h) : hp[k] = j
      BY <1>3, <1>5, <2>1, <2>3
    <3>2. k \in 1 .. Len(zones) /\ zones[k] = z
      BY <1>5, <1>6, <1>7, <2>1, <3>1
    <3>. QED BY <3>2
  <2>. QED BY <2>2, <2>3
<1>12. Len(zones) # 0
  <2>1. Zones[1] \in Range(Zones)
    BY Configured DEF AllZones, Range
  <2>. QED BY <1>7, <1>11, <2>1
<1>13. \A i, k \in 1 .. Len(zones) : zones[i] \in B /\ zones[k] \notin B => k < i
  BY <1>5, <1>7, <1>9
<1>. QED BY <1>7, <1>10, <1>11, <1>12, <1>13 DEF AllZones

\* Of the zones, the walk over families keeps the healthy ones, or else all.
LEMMA HealthyOrAll ==
  ASSUME NEW zones, AllZones(zones), NEW B, NEW h, h = HealthyZones(zones, B)
  PROVE  /\ h \in Seq(Range(Zones)) /\ Len(h) \in Nat \ {0}
         /\ (\E z \in Range(Zones) : z \notin B) => \A i \in DOMAIN h : h[i] \notin B
<1>1. zones \in Seq(Range(Zones)) /\ Len(zones) \in Nat \ {0} /\ DOMAIN zones = 1 .. Len(zones)
  BY DEF AllZones
<1>2. PICK at : at = {i \in DOMAIN zones : zones[i] \notin B}
  OBVIOUS
<1>3. PICK c : c = Collect(zones, at) /\ c = Healthy(zones, B)
  BY <1>2 DEF Healthy
<1>4. PICK pos :
        /\ c \in Seq(Range(Zones)) /\ Len(c) \in Nat /\ pos \in [1 .. Len(c) -> at]
        /\ \A k \in 1 .. Len(c) : c[k] = zones[pos[k]]
        /\ \A i \in at : \E k \in 1 .. Len(c) : pos[k] = i
  <2>1. at \in SUBSET DOMAIN zones
    BY <1>2
  <2>2. c \in Seq(Range(Zones)) /\ Len(c) \in Nat /\ CollectedFrom(c, zones, at)
    BY <1>1, <1>3, <2>1, Collected
  <2>. QED BY <2>2 DEF CollectedFrom
<1>5. CASE c = <<>>
  <2>1. h = zones
    BY <1>3, <1>5 DEF HealthyZones
  <2>2. ASSUME NEW z \in Range(Zones), z \notin B PROVE FALSE
    <3>1. PICK i \in DOMAIN zones : zones[i] = z
      BY DEF AllZones
    <3>2. i \in at /\ Len(c) = 0
      BY <1>2, <1>5, <2>2, <3>1
    <3>. QED BY <1>4, <3>2
  <2>. QED BY <1>1, <2>1, <2>2
<1>6. CASE c # <<>>
  <2>1. h = c
    BY <1>3, <1>6 DEF HealthyZones
  <2>2. Len(c) # 0
    BY <1>4, <1>6, EmptySeq
  <2>3. \A i \in DOMAIN c : c[i] \notin B
    BY <1>2, <1>4
  <2>. QED BY <1>4, <2>1, <2>2, <2>3
<1>. QED BY <1>5, <1>6

\* Each family is kept where it comes first, and only there.
LEMMA Deduped ==
  ASSUME NEW d, d = DedupePreserveOrder(Families)
  PROVE  /\ d \in Seq(Range(Families)) /\ Len(d) \in Nat
         /\ \A i, k \in 1 .. Len(d) : d[i] = d[k] => i = k
         /\ \A f \in Range(Families) : \E i \in 1 .. Len(d) : d[i] = f
<1>1. /\ Families \in Seq(Range(Families)) /\ Len(Families) \in Nat
      /\ DOMAIN Families = 1 .. Len(Families)
  BY PlanAssumption
<1>2. PICK at : at = {i \in DOMAIN Families : \A k \in 1 .. i - 1 : Families[k] # Families[i]}
  OBVIOUS
<1>3. d = Collect(Families, at)
  BY <1>2 DEF DedupePreserveOrder
<1>4. PICK pos :
        /\ d \in Seq(Range(Families)) /\ Len(d) \in Nat /\ pos \in [1 .. Len(d) -> at]
        /\ \A k \in 1 .. Len(d) : d[k] = Families[pos[k]]
        /\ \A k, m \in 1 .. Len(d) : pos[k] = pos[m] => k = m
        /\ \A i \in at : \E k \in 1 .. Len(d) : pos[k] = i
  <2>1. at \in SUBSET DOMAIN Families
    BY <1>2
  <2>2. d \in Seq(Range(Families)) /\ Len(d) \in Nat /\ CollectedFrom(d, Families, at)
    BY <1>1, <1>3, <2>1, Collected
  <2>. QED BY <2>2 DEF CollectedFrom
<1>5. ASSUME NEW i \in at, NEW k \in at, Families[i] = Families[k]
      PROVE  i = k
  <2>1. i \in Nat /\ k \in Nat /\ ~(i \in 1 .. k - 1) /\ ~(k \in 1 .. i - 1) /\ i > 0 /\ k > 0
    BY <1>1, <1>2, <1>5
  <2>. QED BY <2>1
<1>6. \A i, k \in 1 .. Len(d) : d[i] = d[k] => i = k
  BY <1>4, <1>5
<1>7. ASSUME NEW f \in Range(Families)
      PROVE  \E i \in 1 .. Len(d) : d[i] = f
  <2>1. PICK places : places = {i \in DOMAIN Families : Families[i] = f}
    OBVIOUS
  <2>2. places \in SUBSET Nat /\ places # {}
    BY <1>1, <2>1 DEF Range
  <2>3. PICK i \in places : \A k \in places : i <= k
    BY <2>2, Least
  <2>4. i \in at /\ Families[i] = f
    BY <1>1, <1>2, <2>1, <2>3
  <2>5. PICK k \in 1 .. Len(d) : pos[k] = i
    BY <1>4, <2>4
  <2>. QED BY <1>4, <2>4, <2>5
<1>. QED BY <1>4, <1>6, <1>7

-----------------------------------------------------------------------------
(***************************************************************************)
(* A full plan.                                                            *)
(***************************************************************************)
\* No attempt comes twice, nor any other with its model and its zone or family.
Distinct(F) ==
  \A i, k \in DOMAIN F : F[i].model = F[k].model /\ Kind(F[i]) = Kind(F[k]) => i = k

\* Before a benched zone, the same attempt comes in every healthy one.
HealthyBefore(F, B) ==
  \A n \in DOMAIN F : F[n].zone \in B =>
    \A z \in Range(Zones) \ B :
      \E i \in 1 .. n - 1 : F[i] = [F[n] EXCEPT !.zone = z]

\* Before an attempt on demand, SPOT comes for every zone or family.
SpotBefore(F) ==
  \A n \in DOMAIN F : F[n].model = "standard" /\ HasFallback =>
    \A k \in Kinds : \E i \in 1 .. n - 1 : F[i].model = "spot" /\ Kind(F[i]) = k

PlanSound(F, B) ==
  F \in Seq(AttemptSet) /\ Distinct(F) /\ HealthyBefore(F, B) /\ SpotBefore(F)

\* One walk over all kinds, with one model.
Walk(A, B, model) ==
  /\ A \in Seq(AttemptSet) /\ Len(A) \in Nat
  /\ \A i \in 1 .. Len(A) : A[i].model = model
  /\ Distinct(A) /\ HealthyBefore(A, B)

\* Such a walk, and another on demand if there is SPOT to fall back from.
LEMMA TwoWalks ==
  ASSUME NEW B, NEW A, NEW L, NEW F,
         Walk(A, B, Primary), Walk(L, B, "standard"),
         \A k \in Kinds : \E i \in 1 .. Len(A) : Kind(A[i]) = k,
         F = A \o (IF HasFallback THEN L ELSE <<>>)
  PROVE  PlanSound(F, B)
<1>1. /\ A \in Seq(AttemptSet) /\ Len(A) \in Nat /\ DOMAIN A = 1 .. Len(A)
      /\ L \in Seq(AttemptSet) /\ Len(L) \in Nat /\ DOMAIN L = 1 .. Len(L)
      /\ \A i \in 1 .. Len(A) : A[i].model = Primary
      /\ \A i \in 1 .. Len(L) : L[i].model = "standard"
  BY DEF Walk
<1>2. CASE ~HasFallback
  <2>1. F = A
    BY <1>1, <1>2
  <2>2. SpotBefore(F)
    BY <1>2 DEF SpotBefore
  <2>. QED BY <2>1, <2>2 DEF Walk, PlanSound
<1>3. CASE HasFallback
  <2>1. F = A \o L /\ Primary = "spot"
    BY <1>3 DEF Primary
  <2>2. /\ F \in Seq(AttemptSet) /\ DOMAIN F = 1 .. Len(A) + Len(L)
        /\ \A i \in 1 .. Len(A) : F[i] = A[i]
        /\ \A i \in 1 .. Len(L) : F[i + Len(A)] = L[i]
    BY <1>1, <2>1
  <2>3. ASSUME NEW n \in DOMAIN F, n > Len(A)
        PROVE  \E i \in 1 .. Len(L) : n = i + Len(A) /\ F[n] = L[i] /\ F[n].model = "standard"
    <3>1. PICK i \in 1 .. Len(L) : i = n - Len(A)
      BY <1>1, <2>2, <2>3
    <3>. QED BY <1>1, <2>2, <3>1
  <2>4. ASSUME NEW n \in DOMAIN F, n <= Len(A)
        PROVE  n \in 1 .. Len(A) /\ F[n] = A[n] /\ F[n].model = "spot"
    BY <1>1, <2>1, <2>2, <2>4
  <2>5. Distinct(F)
    <3>. SUFFICES ASSUME NEW i \in DOMAIN F, NEW k \in DOMAIN F,
                         F[i].model = F[k].model, Kind(F[i]) = Kind(F[k])
                  PROVE  i = k
      BY DEF Distinct
    <3>1. CASE i <= Len(A)
      <4>1. F[k].model = "spot"
        BY <2>4, <3>1
      <4>2. k <= Len(A)
        BY <1>1, <2>2, <2>3, <4>1
      <4>. QED BY <1>1, <2>4, <3>1, <4>2 DEF Walk, Distinct
    <3>2. CASE i > Len(A)
      <4>1. k > Len(A)
        BY <1>1, <2>2, <2>3, <2>4, <3>2
      <4>2. PICK x \in 1 .. Len(L) : i = x + Len(A) /\ F[i] = L[x]
        BY <2>3, <3>2
      <4>3. PICK y \in 1 .. Len(L) : k = y + Len(A) /\ F[k] = L[y]
        BY <2>3, <4>1
      <4>4. L[x].model = L[y].model /\ Kind(L[x]) = Kind(L[y])
        BY <4>2, <4>3
      <4>5. x = y
        BY <1>1, <4>4 DEF Walk, Distinct
      <4>. QED BY <4>2, <4>3, <4>5
    <3>. QED BY <1>1, <2>2, <3>1, <3>2
  <2>6. HealthyBefore(F, B)
    <3>. SUFFICES ASSUME NEW n \in DOMAIN F, F[n].zone \in B, NEW z \in Range(Zones) \ B
                  PROVE  \E i \in 1 .. n - 1 : F[i] = [F[n] EXCEPT !.zone = z]
      BY DEF HealthyBefore
    <3>1. CASE n <= Len(A)
      <4>1. PICK i \in 1 .. n - 1 : A[i] = [A[n] EXCEPT !.zone = z]
        BY <1>1, <2>4, <3>1 DEF Walk, HealthyBefore
      <4>2. F[i] = A[i]
        BY <1>1, <2>2, <3>1
      <4>. QED BY <2>4, <3>1, <4>1, <4>2
    <3>2. CASE n > Len(A)
      <4>1. PICK x \in 1 .. Len(L) : n = x + Len(A) /\ F[n] = L[x]
        BY <2>3, <3>2
      <4>2. PICK i \in 1 .. x - 1 : L[i] = [L[x] EXCEPT !.zone = z]
        BY <1>1, <4>1 DEF Walk, HealthyBefore
      <4>3. i + Len(A) \in 1 .. n - 1 /\ F[i + Len(A)] = L[i]
        BY <1>1, <2>2, <4>1
      <4>. QED BY <4>1, <4>2, <4>3
    <3>3. n <= Len(A) \/ n > Len(A)
      BY <1>1, <2>2
    <3>. QED BY <3>1, <3>2, <3>3
  <2>7. SpotBefore(F)
    <3>. SUFFICES ASSUME NEW n \in DOMAIN F, F[n].model = "standard", NEW k \in Kinds
                  PROVE  \E i \in 1 .. n - 1 : F[i].model = "spot" /\ Kind(F[i]) = k
      BY DEF SpotBefore
    <3>1. n > Len(A)
      BY <1>1, <2>2, <2>4
    <3>2. PICK i \in 1 .. Len(A) : Kind(A[i]) = k
      OBVIOUS
    <3>3. i \in 1 .. n - 1 /\ F[i] = A[i] /\ A[i].model = "spot"
      BY <1>1, <2>1, <2>2, <3>1
    <3>. QED BY <3>2, <3>3
  <2>. QED BY <2>2, <2>5, <2>6, <2>7 DEF PlanSound
<1>. QED BY <1>2, <1>3

LEMMA AnAttempt ==
  ASSUME NEW z \in Range(Zones), NEW m \in {"spot", "standard"},
         NEW f \in Range(Families) \cup {Default}
  PROVE  /\ Attempt(z, m, f) \in AttemptSet
         /\ Attempt(z, m, f).zone = z /\ Attempt(z, m, f).model = m
         /\ Attempt(z, m, f).machine = f
         /\ \A y : [Attempt(z, m, f) EXCEPT !.zone = y] = Attempt(y, m, f)
BY DEF AttemptSet, Attempt

\* The sweep over the zones.
LEMMA LegacyPlanSound ==
  ASSUME NEW B, NEW zones, AllZones(zones), ~WalksFamilies,
         \A i, k \in DOMAIN zones : zones[i] \in B /\ zones[k] \notin B => k < i
  PROVE  PlanSound(LegacyPlan(zones), B)
<1>1. /\ zones \in Seq(Range(Zones)) /\ Len(zones) \in Nat /\ DOMAIN zones = 1 .. Len(zones)
      /\ \A i \in 1 .. Len(zones) : zones[i] \in Range(Zones)
  BY DEF AllZones
<1> DEFINE sweep(model) == [i \in DOMAIN zones |-> Attempt(zones[i], model, Default)]
<1>2. ASSUME NEW m \in {"spot", "standard"}, NEW S, S = sweep(m)
      PROVE  /\ Walk(S, B, m)
             /\ \A k \in Kinds : \E i \in 1 .. Len(S) : Kind(S[i]) = k
  <2>1. ASSUME NEW i \in 1 .. Len(zones)
        PROVE  /\ S[i] = Attempt(zones[i], m, Default) /\ S[i] \in AttemptSet
               /\ S[i].zone = zones[i] /\ S[i].model = m /\ Kind(S[i]) = zones[i]
               /\ \A z : [S[i] EXCEPT !.zone = z] = Attempt(z, m, Default)
    <3>1. S[i] = Attempt(zones[i], m, Default)
      BY <1>1, <1>2
    <3>. QED BY <1>1, <3>1, AnAttempt DEF Kind
  <2>2. S \in Seq(AttemptSet) /\ Len(S) = Len(zones) /\ DOMAIN S = 1 .. Len(zones)
    BY <1>1, <1>2, <2>1
  <2>3. Distinct(S)
    BY <1>1, <2>1, <2>2 DEF Distinct, AllZones
  <2>4. HealthyBefore(S, B)
    <3>. SUFFICES ASSUME NEW n \in 1 .. Len(zones), zones[n] \in B, NEW z \in Range(Zones) \ B
                  PROVE  \E i \in 1 .. n - 1 : S[i] = [S[n] EXCEPT !.zone = z]
      BY <2>1, <2>2 DEF HealthyBefore
    <3>1. PICK i \in 1 .. Len(zones) : zones[i] = z
      BY <1>1 DEF AllZones
    <3>2. i < n
      BY <1>1, <3>1
    <3>3. S[i] = Attempt(z, m, Default) /\ [S[n] EXCEPT !.zone = z] = Attempt(z, m, Default)
      BY <2>1, <3>1
    <3>. QED BY <3>2, <3>3
  <2>5. ASSUME NEW k \in Kinds PROVE \E i \in 1 .. Len(S) : Kind(S[i]) = k
    BY <1>1, <2>1, <2>2 DEF Kinds, AllZones
  <2>. QED BY <1>1, <2>1, <2>2, <2>3, <2>4, <2>5 DEF Walk
<1>3. PICK A, L : A = sweep(Primary) /\ L = sweep("standard")
  OBVIOUS
<1>4. LegacyPlan(zones) = A \o (IF HasFallback THEN L ELSE <<>>)
  BY <1>3 DEF LegacyPlan
<1>5. Primary \in {"spot", "standard"}
  BY DEF Primary
<1>6. /\ Walk(A, B, Primary) /\ Walk(L, B, "standard")
      /\ \A k \in Kinds : \E i \in 1 .. Len(A) : Kind(A[i]) = k
  <2>. HIDE DEF sweep
  <2>. QED BY <1>2, <1>3, <1>5
<1>. QED BY <1>4, <1>6, TwoWalks

\* The walk over the families: with a healthy zone left, it reaches no other.
LEMMA FamilyFallbackPlanSound ==
  ASSUME NEW B, NEW zones, WalksFamilies,
         zones \in Seq(Range(Zones)), Len(zones) \in Nat \ {0},
         (\E z \in Range(Zones) : z \notin B) => \A i \in DOMAIN zones : zones[i] \notin B
  PROVE  PlanSound(FamilyFallbackPlan(zones), B)
<1>1. DOMAIN zones = 1 .. Len(zones) /\ \A i \in 1 .. Len(zones) : zones[i] \in Range(Zones)
  OBVIOUS
<1>2. PICK fams : fams = DedupePreserveOrder(Families)
  OBVIOUS
<1>3. /\ fams \in Seq(Range(Families)) /\ Len(fams) \in Nat /\ DOMAIN fams = 1 .. Len(fams)
      /\ \A i \in 1 .. Len(fams) : fams[i] \in Range(Families)
      /\ \A i, k \in 1 .. Len(fams) : fams[i] = fams[k] => i = k
      /\ \A f \in Range(Families) : \E i \in 1 .. Len(fams) : fams[i] = f
  BY <1>2, Deduped
<1>4. PICK n :
        n = (IF Len(fams) < StandardFallbackFamilies THEN Len(fams)
             ELSE StandardFallbackFamilies)
  OBVIOUS
<1>5. n \in Nat /\ n <= Len(fams)
  <2>1. Len(fams) \in Nat
    BY <1>3
  <2>. QED BY <1>4, <2>1 DEF StandardFallbackFamilies
<1>6. PICK top :
        /\ top = SubSeq(fams, 1, n)
        /\ Len(top) = n /\ DOMAIN top = 1 .. n
        /\ \A i \in 1 .. n : top[i] = fams[i] /\ top[i] \in Range(Families)
        /\ \A i, k \in 1 .. n : top[i] = top[k] => i = k
  <2>1. PICK top : top = SubSeq(fams, 1, n)
    OBVIOUS
  <2>2. 1 .. n \subseteq 1 .. Len(fams)
    BY <1>3, <1>5
  <2>3. \A i \in 1 .. n : i \in 1 .. Len(fams)
    BY <2>2
  <2>4. top \in Seq(Range(Families)) /\ Len(top) = n /\ \A i \in 1 .. n : top[i] = fams[i]
    BY <1>3, <1>5, <2>1, <2>3, SubSeqProperties
  <2>. QED BY <1>3, <2>1, <2>3, <2>4
<1> DEFINE walk(fs, model) ==
             [i \in DOMAIN fs |->
                Attempt(zones[((i - 1) % Len(zones)) + 1], model, fs[i])]
<1>7. ASSUME NEW m \in {"spot", "standard"}, NEW fs, NEW S, S = walk(fs, m),
             Len(fs) \in Nat, DOMAIN fs = 1 .. Len(fs),
             \A i \in 1 .. Len(fs) : fs[i] \in Range(Families),
             \A i, k \in 1 .. Len(fs) : fs[i] = fs[k] => i = k
      PROVE  /\ Walk(S, B, m) /\ Len(S) = Len(fs)
             /\ \A i \in 1 .. Len(fs) : Kind(S[i]) = fs[i]
  <2>1. ASSUME NEW i \in 1 .. Len(fs)
        PROVE  /\ S[i] \in AttemptSet /\ S[i].model = m /\ Kind(S[i]) = fs[i]
               /\ \E x \in 1 .. Len(zones) : S[i].zone = zones[x]
    <3>1. PICK x \in 1 .. Len(zones) : x = ((i - 1) % Len(zones)) + 1
      <4>1. i - 1 \in Nat
        BY <1>7
      <4>2. (i - 1) % Len(zones) \in 0 .. Len(zones) - 1
        BY <4>1, Remainder
      <4>. QED BY <4>2
    <3>2. S[i] = Attempt(zones[x], m, fs[i])
      BY <1>7, <3>1
    <3>. QED BY <1>1, <1>7, <3>2, AnAttempt DEF Kind
  <2>2. S \in Seq(AttemptSet) /\ Len(S) = Len(fs) /\ DOMAIN S = 1 .. Len(fs)
    BY <1>7, <2>1
  <2>3. Distinct(S)
    BY <1>7, <2>1, <2>2 DEF Distinct
  <2>4. HealthyBefore(S, B)
    <3>. SUFFICES ASSUME NEW k \in 1 .. Len(fs), S[k].zone \in B, NEW z \in Range(Zones) \ B
                  PROVE  FALSE
      BY <2>2 DEF HealthyBefore
    <3>. QED BY <1>1, <2>1
  <2>. QED BY <1>7, <2>1, <2>2, <2>3, <2>4 DEF Walk
<1>8. PICK A, L : A = walk(fams, Primary) /\ L = walk(top, "standard")
  OBVIOUS
<1>9. FamilyFallbackPlan(zones) = A \o (IF HasFallback THEN L ELSE <<>>)
  BY <1>2, <1>4, <1>6, <1>8 DEF FamilyFallbackPlan
<1>10. Primary \in {"spot", "standard"}
  BY DEF Primary
<1>11. Walk(A, B, Primary) /\ Len(A) = Len(fams)
       /\ \A i \in 1 .. Len(fams) : Kind(A[i]) = fams[i]
  <2>. HIDE DEF walk
  <2>. QED BY <1>3, <1>7, <1>8, <1>10
<1>12. Walk(L, B, "standard")
  <2>. HIDE DEF walk
  <2>1. /\ Len(top) \in Nat /\ DOMAIN top = 1 .. Len(top)
        /\ \A i \in 1 .. Len(top) : top[i] \in Range(Families)
        /\ \A i, k \in 1 .. Len(top) : top[i] = top[k] => i = k
    BY <1>5, <1>6
  <2>. QED BY <1>7, <1>8, <2>1
<1>13. \A k \in Kinds : \E i \in 1 .. Len(A) : Kind(A[i]) = k
  BY <1>3, <1>11 DEF Kinds
<1>. QED BY <1>9, <1>11, <1>12, <1>13, TwoWalks

\* Whatever the breaker answers and wherever the rotation starts.
LEMMA PlanIsSound ==
  ASSUME NEW first \in 0 .. Len(Zones) - 1, NEW B
  PROVE  PlanSound(FullPlan(first, B), B)
<1>1. PICK zones : zones = OrderedZonesBenched(first, B)
  OBVIOUS
<1>2. /\ AllZones(zones)
      /\ \A i, k \in DOMAIN zones : zones[i] \in B /\ zones[k] \notin B => k < i
  BY <1>1, BenchedLast
<1>3. CASE WalksFamilies
  <2>1. PICK h : h = HealthyZones(zones, B)
    OBVIOUS
  <2>2. /\ h \in Seq(Range(Zones)) /\ Len(h) \in Nat \ {0}
        /\ (\E z \in Range(Zones) : z \notin B) => \A i \in DOMAIN h : h[i] \notin B
    BY <1>2, <2>1, HealthyOrAll
  <2>3. FullPlan(first, B) = FamilyFallbackPlan(h)
    BY <1>1, <1>3, <2>1 DEF FullPlan
  <2>4. PlanSound(FamilyFallbackPlan(h), B)
    BY <1>3, <2>2, FamilyFallbackPlanSound
  <2>. QED BY <2>3, <2>4
<1>4. CASE ~WalksFamilies
  <2>1. FullPlan(first, B) = LegacyPlan(zones)
    BY <1>1, <1>4 DEF FullPlan
  <2>2. PlanSound(LegacyPlan(zones), B)
    BY <1>2, <1>4, LegacyPlanSound
  <2>. QED BY <2>1, <2>2
<1>. QED BY <1>3, <1>4

-----------------------------------------------------------------------------
(***************************************************************************)
(* What is left of a plan.                                                 *)
(***************************************************************************)
LEMMA RestOfPlan ==
  ASSUME NEW S, NEW F \in Seq(S), NEW n \in 1 .. Len(F)
  PROVE  /\ SubSeq(F, n, Len(F)) # <<>>
         /\ Head(SubSeq(F, n, Len(F))) = F[n]
         /\ Tail(SubSeq(F, n, Len(F))) = SubSeq(F, n + 1, Len(F))
         /\ <<F[n]>> \o SubSeq(F, n + 1, Len(F)) = SubSeq(F, n, Len(F))
<1>1. Len(F) \in Nat /\ n \in Nat /\ n >= 1 /\ n <= Len(F) /\ \A i \in 1 .. Len(F) : F[i] \in S
  BY LenProperties
<1>2. PICK r, t : r = SubSeq(F, n, Len(F)) /\ t = SubSeq(F, n + 1, Len(F))
  OBVIOUS
<1>3. \A i \in n .. Len(F) : F[i] \in S
  BY <1>1
<1>4. \A i \in n + 1 .. Len(F) : F[i] \in S
  BY <1>1
<1>5. /\ r \in Seq(S) /\ Len(r) = Len(F) - n + 1
      /\ \A i \in 1 .. Len(F) - n + 1 : r[i] = F[n + i - 1]
  BY <1>1, <1>2, <1>3, SubSeqProperties
<1>6. /\ t \in Seq(S) /\ Len(t) = Len(F) - n
      /\ \A i \in 1 .. Len(F) - n : t[i] = F[n + i]
  <2>1. /\ t \in Seq(S) /\ Len(t) = IF n + 1 <= Len(F) THEN Len(F) - (n + 1) + 1 ELSE 0
        /\ \A i \in 1 .. Len(F) - (n + 1) + 1 : t[i] = F[n + 1 + i - 1]
    BY <1>1, <1>2, <1>4, SubSeqProperties
  <2>2. Len(t) = Len(F) - n /\ Len(F) - (n + 1) + 1 = Len(F) - n
    BY <1>1, <2>1
  <2>3. \A i \in 1 .. Len(F) - n : n + 1 + i - 1 = n + i
    BY <1>1
  <2>. QED BY <2>1, <2>2, <2>3
<1>7. r # <<>> /\ Head(r) = F[n]
  <2>1. Len(r) # 0 /\ r[1] = F[n]
    BY <1>1, <1>5
  <2>. QED BY <1>5, <2>1
<1>8. Tail(r) = t
  <2>1. Tail(r) \in Seq(S) /\ Len(Tail(r)) = Len(F) - n
        /\ \A i \in 1 .. Len(F) - n : Tail(r)[i] = F[n + i]
    BY <1>1, <1>5, <1>7, HeadTailProperties
  <2>. QED BY <1>6, <2>1, SeqEqual
<1>9. <<F[n]>> \o t = r
  <2>1. PICK q : q = <<F[n]>> /\ q \in Seq(S) /\ Len(q) = 1 /\ q[1] = F[n]
    <3>1. F[n] \in S
      BY <1>1
    <3>2. <<F[n]>> \in Seq(S) /\ Len(<<F[n]>>) = 1 /\ <<F[n]>>[1] = F[n]
      BY <3>1
    <3>. QED BY <3>2, Zenon
  <2>2. /\ q \o t \in Seq(S) /\ Len(q \o t) = Len(F) - n + 1
        /\ \A i \in 1 .. Len(F) - n + 1 : (q \o t)[i] = IF i <= 1 THEN q[i] ELSE t[i - 1]
    <3>1. Len(q) + Len(t) = Len(F) - n + 1
      BY <1>1, <1>6, <2>1
    <3>2. /\ q \o t \in Seq(S) /\ Len(q \o t) = Len(q) + Len(t)
          /\ \A i \in 1 .. Len(q) + Len(t) :
               (q \o t)[i] = IF i <= Len(q) THEN q[i] ELSE t[i - Len(q)]
      BY <1>6, <2>1, ConcatProperties
    <3>. QED BY <2>1, <3>1, <3>2
  <2>3. ASSUME NEW i \in 1 .. Len(F) - n + 1 PROVE (q \o t)[i] = r[i]
    <3>1. CASE i = 1
      BY <1>1, <1>5, <2>1, <2>2, <3>1
    <3>2. CASE i # 1
      <4>1. i - 1 \in 1 .. Len(F) - n /\ ~(i <= 1) /\ n + (i - 1) = n + i - 1
        BY <1>1, <3>2
      <4>. QED BY <1>5, <1>6, <2>2, <4>1
    <3>. QED BY <3>1, <3>2
  <2>. QED BY <1>5, <2>1, <2>2, <2>3, SeqEqual
<1>. QED BY <1>2, <1>7, <1>8, <1>9

\* A plan without repetitions goes on right after the attempt.
LEMMA AfterPlace ==
  ASSUME NEW F \in Seq(AttemptSet), Distinct(F), NEW n \in 1 .. Len(F)
  PROVE  AttemptsAfter(F, F[n]) = SubSeq(F, n + 1, Len(F))
<1>1. DOMAIN F = 1 .. Len(F) /\ Len(F) \in Nat
  BY LenProperties
<1>2. PICK at : at = {i \in DOMAIN F : F[i] = F[n]}
  OBVIOUS
<1>3. at = {n}
  BY <1>1, <1>2 DEF Distinct
<1>4. (CHOOSE i \in at : \A k \in at : i <= k) = n
  <2>1. n <= n
    BY <1>1
  <2>. QED BY <1>3, <2>1
<1>. QED BY <1>2, <1>3, <1>4 DEF AttemptsAfter

LEMMA AfterTyped ==
  ASSUME NEW F \in Seq(AttemptSet), NEW a
  PROVE  AttemptsAfter(F, a) \in Seq(AttemptSet)
<1>1. DOMAIN F = 1 .. Len(F) /\ Len(F) \in Nat /\ \A i \in 1 .. Len(F) : F[i] \in AttemptSet
  BY LenProperties
<1>2. PICK at : at = {i \in DOMAIN F : F[i] = a}
  OBVIOUS
<1>3. CASE at = {}
  BY <1>2, <1>3 DEF AttemptsAfter
<1>4. CASE at # {}
  <2>1. at \in SUBSET Nat
    BY <1>1, <1>2
  <2>2. \E i \in at : \A k \in at : i <= k
    BY <1>4, <2>1, Least
  <2>3. PICK n : n = (CHOOSE i \in at : \A k \in at : i <= k) /\ n \in at
    BY <2>2
  <2>4. n \in 1 .. Len(F) /\ n + 1 \in Int /\ \A i \in n + 1 .. Len(F) : F[i] \in AttemptSet
    <3>1. n \in 1 .. Len(F) /\ n \in Nat /\ n >= 1
      BY <1>1, <1>2, <2>3
    <3>2. \A i \in n + 1 .. Len(F) : i \in 1 .. Len(F)
      BY <1>1, <3>1
    <3>. QED BY <1>1, <3>1, <3>2
  <2>5. SubSeq(F, n + 1, Len(F)) \in Seq(AttemptSet)
    BY <1>1, <2>4, SubSeqProperties
  <2>. QED BY <1>2, <1>4, <2>3, <2>5 DEF AttemptsAfter
<1>. QED BY <1>3, <1>4

\* The plan depends on no variable but the setup, which stays.
LEMMA SamePlan ==
  ASSUME setup' = setup
  PROVE  /\ FullPlan(start, bench)' = FullPlan(start', bench')
         /\ \A a : Kind(a)' = Kind(a)
         /\ Kinds' = Kinds /\ HasFallback' = HasFallback
BY DEF FullPlan, WalksFamilies, FamilyFallbackPlan, LegacyPlan, Primary, HasFallback,
       Kind, Kinds

-----------------------------------------------------------------------------
(***************************************************************************)
(* Types.                                                                  *)
(***************************************************************************)
LEMMA NoAttemptIsNone == NoAttempt \notin AttemptSet
<1>1. ASSUME NEW z, NEW m \in {"spot", "standard"}, NEW f, NoAttempt = Attempt(z, m, f)
      PROVE  FALSE
  <2>1. NoAttempt.model = "" /\ Attempt(z, m, f).model = m
    BY DEF NoAttempt, Attempt
  <2>. QED BY <1>1, <2>1
<1>. QED BY <1>1 DEF AttemptSet

\* What the breaker benches are configured zones.
BreakerTyped == breaker.benched \subseteq Range(Zones) /\ breaker.stuck \subseteq Range(Zones)

LEMMA AnswersTyped ==
  ASSUME NEW a \in Answers
  PROVE  a.benched \subseteq Range(Zones) /\ a.stuck \subseteq Range(Zones)
<1>1. PICK timeouts \in [VMs -> 0 .. 2], creations \in [VMs \ Foreign -> {0, 2}] :
        a = [benched |-> BenchedZones(ZoneReport(timeouts, creations)),
             stuck |-> {z \in Zoned :
                          Cardinality({v \in In(z, VMs \ Foreign) : timeouts[v] > 0})
                            >= MinVMs}]
  BY DEF Answers
<1>2. BenchedZones(ZoneReport(timeouts, creations)) \subseteq Zoned
  BY DEF BenchedZones, ZoneReport
<1>3. Zoned \subseteq Range(Zones)
  BY PlanAssumption DEF Zoned
<1>. QED BY <1>1, <1>2, <1>3

LEMMA BreakerStaysTyped ==
  ASSUME BreakerTyped, BreakerStep
  PROVE  BreakerTyped'
<1>1. \A a \in Answers : a.benched \subseteq Range(Zones) /\ a.stuck \subseteq Range(Zones)
  BY AnswersTyped
<1>2. NoAnswer.benched \subseteq Range(Zones) /\ NoAnswer.stuck \subseteq Range(Zones)
  BY DEF NoAnswer
<1>3. breaker' \in Answers \/ breaker' = NoAnswer \/ breaker' = breaker
  BY DEF BreakerStep, Ask, StartQuery, Returns, CachedAnswer, EndQuery, PassTime,
         ForgetAnswer, zoneHealthVars
<1>. QED BY <1>1, <1>2, <1>3 DEF BreakerTyped

\* The passes: while an insert is out there is a saved attempt.
PassTyped ==
  /\ setup \in Setups
  /\ start \in 0 .. Len(Zones) - 1
  /\ bench \subseteq Range(Zones)
  /\ plan \in Seq(AttemptSet)
  /\ saved \in AttemptSet \cup {NoAttempt}
  /\ pc \in {"idle", "between", "insert", "over"}
  /\ pc = "insert" => saved # NoAttempt
  /\ stockouts \subseteq AttemptSet

PlanInv == BreakerTyped /\ PassTyped

LEMMA LeaveTyped ==
  ASSUME PassTyped, NEW to \in {"idle", "over"}, Leave(to),
         saved' \in AttemptSet \cup {NoAttempt}
  PROVE  PassTyped'
<1>1. /\ bench' \subseteq Range(Zones) /\ stockouts' \subseteq AttemptSet
      /\ setup' = setup /\ start' = start /\ pc' = to
  BY DEF Leave, PassTyped
<1>2. plan' = <<>> /\ <<>> \in Seq(AttemptSet)
  BY DEF Leave
<1>. QED BY <1>1, <1>2 DEF PassTyped

LEMMA StartsTyped ==
  ASSUME PlanInv, BreakerTyped', StartPass \/ ResumePass \/ SettledPass
  PROVE  PassTyped'
<1>1. /\ pc' = "between" /\ setup' = setup /\ bench' = breaker'.benched
      /\ bench' \subseteq Range(Zones)
  BY DEF StartPass, ResumePass, SettledPass, Answered, BreakerTyped
<1>2. start' \in 0 .. Len(Zones) - 1
  BY DEF StartPass, ResumePass, SettledPass, Answered, PlanInv, PassTyped
<1>3. PICK F : F = FullPlan(start', bench')
  OBVIOUS
<1>4. F \in Seq(AttemptSet)
  BY <1>2, <1>3, PlanIsSound DEF PlanSound
<1>5. CASE StartPass
  BY <1>1, <1>2, <1>3, <1>4, <1>5 DEF StartPass, PlanInv, PassTyped
<1>6. CASE ResumePass
  <2>1. saved \in AttemptSet /\ start' = start
    BY <1>6 DEF ResumePass, Answered, PlanInv, PassTyped
  <2>2. PICK t : t = AttemptsAfter(F, saved) /\ t \in Seq(AttemptSet)
    BY <1>4, AfterTyped
  <2>3. plan' = <<saved>> \o t
    BY <1>3, <1>6, <2>1, <2>2 DEF ResumePass
  <2>4. <<saved>> \in Seq(AttemptSet)
    BY <2>1
  <2>5. plan' \in Seq(AttemptSet)
    BY <2>2, <2>3, <2>4
  <2>. QED BY <1>1, <1>2, <1>6, <2>5 DEF ResumePass, PlanInv, PassTyped
<1>7. CASE SettledPass
  <2>1. saved \in AttemptSet /\ saved' = NoAttempt /\ stockouts' = stockouts \cup {saved}
    BY <1>7 DEF SettledPass, PlanInv, PassTyped
  <2>2. plan' \in Seq(AttemptSet)
    BY <1>3, <1>4, <1>7, AfterTyped DEF SettledPass
  <2>. QED BY <1>1, <1>2, <2>1, <2>2 DEF PlanInv, PassTyped
<1>. QED BY <1>5, <1>6, <1>7

LEMMA PassStepTyped ==
  ASSUME PassTyped, Pass
  PROVE  PassTyped'
<1>1. CASE SkipAttempt \/ SaveAttempt
  <2>1. Head(plan) \in AttemptSet /\ Tail(plan) \in Seq(AttemptSet)
    BY <1>1 DEF SkipAttempt, SaveAttempt, PassTyped
  <2>. QED BY <1>1, <2>1, NoAttemptIsNone DEF SkipAttempt, SaveAttempt, PassTyped
<1>2. CASE Stockout
  BY <1>2 DEF Stockout, PassTyped
<1>3. CASE Refused
  <2>1. PICK to \in {"idle", "over"} : Leave(to)
    BY <1>3 DEF Refused
  <2>2. saved' = NoAttempt
    BY <1>3 DEF Refused
  <2>. QED BY <2>1, <2>2, LeaveTyped
<1>4. CASE Resolved \/ EndPass \/ Succeeds \/ Ambiguous
  <2>1. saved' \in AttemptSet \cup {NoAttempt} /\ (Leave("idle") \/ Leave("over"))
    BY <1>4 DEF Resolved, EndPass, Succeeds, Ambiguous, PassTyped
  <2>. QED BY <2>1, LeaveTyped
<1>. QED BY <1>1, <1>2, <1>3, <1>4 DEF Pass

LEMMA PlanStep ==
  ASSUME PlanInv, [Next]_vars
  PROVE  PlanInv'
<1>1. BreakerTyped'
  BY StepsOfPlan, BreakerStaysTyped DEF PlanInv
<1>2. CASE AskBreaker
  BY <1>1, <1>2 DEF AskBreaker, planVars, PlanInv, PassTyped
<1>3. CASE StartPass \/ ResumePass \/ SettledPass
  BY <1>1, <1>3, StartsTyped DEF PlanInv
<1>4. CASE Pass /\ asking[ThisCreate] = "no" /\ UNCHANGED zoneHealthVars
  BY <1>1, <1>4, PassStepTyped DEF PlanInv
<1>5. CASE (StartQuery(ThisCreate) \/ (\E c \in Creates : OtherCreate(c)) \/ PassTime)
           /\ UNCHANGED planVars
  BY <1>1, <1>5 DEF planVars, PlanInv, PassTyped
<1>6. CASE Restart /\ ForgetAnswer
  <2>1. Leave("idle") /\ saved' = saved
    BY <1>6 DEF Restart
  <2>. QED BY <1>1, <2>1, LeaveTyped DEF PlanInv, PassTyped
<1>7. CASE UNCHANGED vars
  BY <1>1, <1>7 DEF vars, planVars, PlanInv, PassTyped
<1>. QED BY <1>2, <1>3, <1>4, <1>5, <1>6, <1>7 DEF Next

LEMMA PlanInit == Init => PlanInv
<1>. SUFFICES ASSUME Init PROVE PlanInv
  OBVIOUS
<1>1. BreakerTyped
  BY DEF Init, ZoneHealthInit, NoAnswer, BreakerTyped
<1>2. plan = <<>> /\ <<>> \in Seq(AttemptSet)
  BY DEF Init
<1>. QED BY <1>1, <1>2 DEF Init, PlanInv, PassTyped

\* Whatever a pass tries is an attempt of the configuration, and a zone the breaker
\* benches one of its zones (creationPlan, benchedZonesCached).
THEOREM PlanTyped == Spec => []PlanTypeOK
<1>1. Spec => []PlanInv
  BY PlanInit, PlanStep, PTL DEF Spec
<1>2. PlanInv /\ CacheInv => PlanTypeOK
  BY DEF PlanInv, BreakerTyped, PassTyped, CacheInv, CacheTypeOK, PlanTypeOK
<1>. QED BY <1>1, <1>2, CacheInvariant, PTL

-----------------------------------------------------------------------------
(***************************************************************************)
(* Where a generation has got to in its plan, as long as the breaker and   *)
(* the VM name do not change between its passes.                           *)
(***************************************************************************)
Allowed(a) == a.model = "standard" => setup.onDemand

\* Compute has refused what comes before place n of F and is allowed, and no more.
GoneBefore(F, n) ==
  /\ \A i \in 1 .. n - 1 : Allowed(F[i]) => F[i] \in stockouts
  /\ \A a \in stockouts : \E i \in 1 .. n - 1 : a = F[i]

\* A saved attempt is at the place where the refused ones end, and what is left of
\* the pass's plan starts there, or right after it while its insert is out.
Walking(F) ==
  /\ pc = "idle" /\ saved # NoAttempt =>
       \E n \in 1 .. Len(F) : saved = F[n] /\ Allowed(F[n]) /\ GoneBefore(F, n)
  /\ pc = "between" =>
       \E n \in 1 .. Len(F) + 1 :
         /\ plan = SubSeq(F, n, Len(F)) /\ GoneBefore(F, n)
         /\ saved = NoAttempt \/ (n <= Len(F) /\ saved = F[n] /\ Allowed(F[n]))
  /\ pc = "insert" =>
       \E n \in 1 .. Len(F) :
         /\ saved = F[n] /\ Allowed(F[n]) /\ GoneBefore(F, n)
         /\ plan = SubSeq(F, n + 1, Len(F))

PassInv == \E F \in {FullPlan(start, bench)} : Walking(F)

LEMMA WalkingNext ==
  ASSUME setup' = setup, NEW F, F = FullPlan(start', bench'), Walking(F)'
  PROVE  PassInv'
<1>1. FullPlan(start, bench)' = F
  BY SamePlan
<1>. QED BY <1>1 DEF PassInv

\* One more attempt refused, or passed over.
LEMMA OneFurther ==
  ASSUME NEW F, NEW n \in Nat \ {0}, GoneBefore(F, n), setup' = setup,
         \/ stockouts' = stockouts /\ ~Allowed(F[n])
         \/ stockouts' = stockouts \cup {F[n]}
  PROVE  GoneBefore(F, n + 1)'
<1>1. ASSUME NEW i \in 1 .. n, Allowed(F[i])
      PROVE  F[i] \in stockouts'
  <2>1. i \in 1 .. n - 1 \/ i = n
    OBVIOUS
  <2>. QED BY <1>1, <2>1 DEF GoneBefore
<1>2. ASSUME NEW a \in stockouts'
      PROVE  \E i \in 1 .. n : a = F[i]
  <2>1. a \in stockouts \/ a = F[n]
    BY <1>2
  <2>2. 1 .. n - 1 \subseteq 1 .. n /\ n \in 1 .. n
    OBVIOUS
  <2>. QED BY <2>1, <2>2 DEF GoneBefore
<1>3. n + 1 - 1 = n
  OBVIOUS
<1>. QED BY <1>1, <1>2, <1>3 DEF GoneBefore, Allowed

LEMMA WholeOf ==
  ASSUME NEW S, NEW F \in Seq(S)
  PROVE  SubSeq(F, 1, Len(F)) = F
<1>1. Len(F) \in Nat /\ \A i \in 1 .. Len(F) : F[i] \in S
  BY LenProperties
<1>2. /\ SubSeq(F, 1, Len(F)) \in Seq(S) /\ Len(SubSeq(F, 1, Len(F))) = Len(F)
      /\ \A i \in 1 .. Len(F) : SubSeq(F, 1, Len(F))[i] = F[i]
  <2>1. PICK s : s = SubSeq(F, 1, Len(F))
    OBVIOUS
  <2>2. /\ s \in Seq(S) /\ Len(s) = IF 1 <= Len(F) THEN Len(F) - 1 + 1 ELSE 0
        /\ \A i \in 1 .. Len(F) - 1 + 1 : s[i] = F[1 + i - 1]
    BY <1>1, <2>1, SubSeqProperties
  <2>3. Len(s) = Len(F) /\ Len(F) - 1 + 1 = Len(F) /\ \A i \in 1 .. Len(F) : 1 + i - 1 = i
    BY <1>1, <2>2
  <2>. QED BY <2>1, <2>2, <2>3
<1>. QED BY <1>2, SeqEqual

\* The plan the passes walk, and that it is sound.
LEMMA ThePlan ==
  ASSUME PlanInv, NEW F, F = FullPlan(start, bench)
  PROVE  /\ PlanSound(F, bench) /\ F \in Seq(AttemptSet) /\ Len(F) \in Nat
         /\ Distinct(F) /\ \A i \in 1 .. Len(F) : F[i] \in AttemptSet /\ F[i] # NoAttempt
<1>1. PlanSound(F, bench)
  BY PlanIsSound DEF PlanInv, PassTyped
<1>2. F \in Seq(AttemptSet) /\ Distinct(F)
  BY <1>1 DEF PlanSound
<1>3. Len(F) \in Nat /\ \A i \in 1 .. Len(F) : F[i] \in AttemptSet
  BY <1>2, LenProperties
<1>. QED BY <1>1, <1>2, <1>3, NoAttemptIsNone

LEMMA PassInit == Init => PassInv
BY DEF Init, PassInv, Walking

\* A pass that is over keeps its place only with a saved attempt.
LEMMA LeaveKeepsPlace ==
  ASSUME PlanInv, PassInv, pc # "over", NEW to \in {"idle", "over"}, Leave(to),
         saved' = saved \/ saved' = NoAttempt
  PROVE  PassInv'
<1>1. setup' = setup /\ start' = start /\ pc' = to
  BY DEF Leave
<1>2. CASE to = "idle" /\ saved' # NoAttempt
  <2>1. bench' = bench /\ stockouts' = stockouts /\ saved' = saved /\ saved # NoAttempt
    BY <1>2 DEF Leave
  <2>2. PICK F : F = FullPlan(start, bench)
    OBVIOUS
  <2>3. Len(F) \in Nat
    BY <2>2, ThePlan
  <2>4. \E n \in 1 .. Len(F) : saved = F[n] /\ Allowed(F[n]) /\ GoneBefore(F, n)
    BY <1>2, <2>1, <2>2, <2>3 DEF PassInv, Walking, PlanInv, PassTyped
  <2>5. Walking(F)'
    BY <1>1, <1>2, <2>1, <2>4 DEF Walking, GoneBefore, Allowed
  <2>. QED BY <1>1, <2>1, <2>2, <2>5, WalkingNext
<1>3. CASE to = "over" \/ saved' = NoAttempt
  BY <1>1, <1>3 DEF PassInv, Walking
<1>. QED BY <1>2, <1>3

LEMMA StartsKeepPlace ==
  ASSUME PlanInv, PassInv, PlanInv', Steady, StartPass \/ ResumePass \/ SettledPass
  PROVE  PassInv'
<1>1. setup' = setup /\ pc = "idle" /\ pc' = "between"
  BY DEF StartPass, ResumePass, SettledPass, Answered
<1>2. PICK F : F = FullPlan(start', bench')
  OBVIOUS
<1>3. FullPlan(start, bench)' = F
  BY <1>1, <1>2, SamePlan
<1>4. /\ F \in Seq(AttemptSet) /\ Len(F) \in Nat
      /\ \A i \in 1 .. Len(F) : F[i] \in AttemptSet
  <2>1. start' \in 0 .. Len(Zones) - 1
    BY DEF PlanInv, PassTyped
  <2>2. PlanSound(F, bench')
    BY <1>2, <2>1, PlanIsSound
  <2>. QED BY <2>2, LenProperties DEF PlanSound
<1>5. CASE StartPass
  <2>1. plan' = SubSeq(F, 1, Len(F)) /\ saved' = NoAttempt /\ stockouts' = {}
    BY <1>2, <1>4, <1>5, WholeOf DEF StartPass
  <2>2. GoneBefore(F, 1)'
    BY <2>1 DEF GoneBefore
  <2>3. 1 \in 1 .. Len(F) + 1
    BY <1>4
  <2>4. Walking(F)'
    BY <1>1, <2>1, <2>2, <2>3 DEF Walking
  <2>. QED BY <1>1, <1>2, <2>4, WalkingNext
<1>6. CASE ResumePass \/ SettledPass
  <2>1. saved # NoAttempt /\ start' = start /\ bench' = bench
    BY <1>1, <1>6 DEF ResumePass, SettledPass, Steady
  <2>2. F = FullPlan(start, bench)
    BY <1>2, <2>1
  <2>3. Distinct(F)
    BY <2>2, ThePlan
  <2>4. PICK n \in 1 .. Len(F) : saved = F[n] /\ Allowed(F[n]) /\ GoneBefore(F, n)
    BY <1>1, <2>1, <2>2 DEF PassInv, Walking
  <2>5. AttemptsAfter(F, saved) = SubSeq(F, n + 1, Len(F))
    BY <1>4, <2>3, <2>4, AfterPlace
  <2>6. n \in 1 .. Len(F) + 1 /\ n + 1 \in 1 .. Len(F) + 1 /\ n <= Len(F) /\ n \in Nat \ {0}
    BY <1>4
  <2>7. CASE ResumePass
    <3>1. plan' = SubSeq(F, n, Len(F)) /\ saved' = F[n] /\ stockouts' = stockouts
      <4>1. plan' = <<saved>> \o AttemptsAfter(F, saved)
        BY <2>1, <2>2, <2>7 DEF ResumePass
      <4>2. <<F[n]>> \o SubSeq(F, n + 1, Len(F)) = SubSeq(F, n, Len(F))
        BY <1>4, RestOfPlan
      <4>3. plan' = <<F[n]>> \o SubSeq(F, n + 1, Len(F))
        BY <2>4, <2>5, <4>1
      <4>4. saved' = saved /\ stockouts' = stockouts
        BY <2>7 DEF ResumePass
      <4>. QED BY <2>4, <4>2, <4>3, <4>4
    <3>2. GoneBefore(F, n)' /\ Allowed(F[n])'
      BY <1>1, <2>4, <3>1 DEF GoneBefore, Allowed
    <3>3. Walking(F)'
      BY <1>1, <2>6, <3>1, <3>2 DEF Walking
    <3>. QED BY <1>1, <1>2, <3>3, WalkingNext
  <2>8. CASE SettledPass
    <3>1. plan' = SubSeq(F, n + 1, Len(F)) /\ saved' = NoAttempt
          /\ stockouts' = stockouts \cup {F[n]}
      BY <1>2, <2>4, <2>5, <2>8 DEF SettledPass
    <3>2. GoneBefore(F, n + 1)'
      BY <1>1, <2>4, <2>6, <3>1, OneFurther
    <3>3. Walking(F)'
      BY <1>1, <2>6, <3>1, <3>2 DEF Walking
    <3>. QED BY <1>1, <1>2, <3>3, WalkingNext
  <2>. QED BY <1>6, <2>7, <2>8
<1>. QED BY <1>5, <1>6

LEMMA AttemptsKeepPlace ==
  ASSUME PlanInv, PassInv, SkipAttempt \/ SaveAttempt \/ Stockout
  PROVE  PassInv'
<1>1. setup' = setup /\ start' = start /\ bench' = bench
  BY DEF SkipAttempt, SaveAttempt, Stockout
<1>2. PICK F : F = FullPlan(start, bench) /\ F = FullPlan(start', bench')
  BY <1>1
<1>3. /\ F \in Seq(AttemptSet) /\ Len(F) \in Nat
      /\ \A i \in 1 .. Len(F) : F[i] # NoAttempt
  BY <1>2, ThePlan
<1>4. SubSeq(F, Len(F) + 1, Len(F)) = <<>>
  BY <1>3, SubSeqEmpty
<1>5. CASE SkipAttempt \/ SaveAttempt
  <2>1. pc = "between" /\ plan # <<>>
    BY <1>5 DEF SkipAttempt, SaveAttempt
  <2>2. PICK n \in 1 .. Len(F) + 1 :
          /\ plan = SubSeq(F, n, Len(F)) /\ GoneBefore(F, n)
          /\ saved = NoAttempt \/ (n <= Len(F) /\ saved = F[n] /\ Allowed(F[n]))
    BY <1>2, <2>1 DEF PassInv, Walking
  <2>3. n \in 1 .. Len(F) /\ n + 1 \in 1 .. Len(F) + 1 /\ n \in Nat \ {0}
    <3>1. n # Len(F) + 1
      BY <1>4, <2>1, <2>2
    <3>. QED BY <1>3, <3>1
  <2>4. Head(plan) = F[n] /\ Tail(plan) = SubSeq(F, n + 1, Len(F))
    BY <1>3, <2>2, <2>3, RestOfPlan
  <2>5. CASE SkipAttempt
    <3>1. ~Allowed(F[n])
      BY <2>4, <2>5 DEF SkipAttempt, Allowed
    <3>2. saved = NoAttempt /\ saved' = saved /\ pc' = "between" /\ stockouts' = stockouts
          /\ plan' = SubSeq(F, n + 1, Len(F))
      BY <2>1, <2>2, <2>4, <2>5, <3>1 DEF SkipAttempt
    <3>3. GoneBefore(F, n + 1)'
      BY <1>1, <2>2, <2>3, <3>1, <3>2, OneFurther
    <3>4. Walking(F)'
      BY <2>3, <3>2, <3>3 DEF Walking
    <3>. QED BY <1>1, <1>2, <3>4, WalkingNext
  <2>6. CASE SaveAttempt
    <3>1. pc' = "insert" /\ saved' = F[n] /\ plan' = SubSeq(F, n + 1, Len(F))
          /\ stockouts' = stockouts /\ Allowed(F[n])
      BY <2>4, <2>6 DEF SaveAttempt, Allowed
    <3>2. GoneBefore(F, n)' /\ Allowed(F[n])'
      BY <1>1, <2>2, <3>1 DEF GoneBefore, Allowed
    <3>3. Walking(F)'
      BY <2>3, <3>1, <3>2 DEF Walking
    <3>. QED BY <1>1, <1>2, <3>3, WalkingNext
  <2>. QED BY <1>5, <2>5, <2>6
<1>6. CASE Stockout
  <2>1. PICK n \in 1 .. Len(F) :
          saved = F[n] /\ GoneBefore(F, n) /\ plan = SubSeq(F, n + 1, Len(F))
    BY <1>2, <1>6 DEF Stockout, PassInv, Walking
  <2>2. n + 1 \in 1 .. Len(F) + 1 /\ n \in Nat \ {0}
    BY <1>3
  <2>3. pc' = "between" /\ saved' = NoAttempt /\ plan' = SubSeq(F, n + 1, Len(F))
        /\ stockouts' = stockouts \cup {F[n]}
    BY <1>6, <2>1 DEF Stockout
  <2>4. GoneBefore(F, n + 1)'
    BY <1>1, <2>1, <2>2, <2>3, OneFurther
  <2>5. Walking(F)'
    BY <2>2, <2>3, <2>4 DEF Walking
  <2>. QED BY <1>1, <1>2, <2>5, WalkingNext
<1>. QED BY <1>5, <1>6

LEMMA PassStep ==
  ASSUME PlanInv, PassInv, [Next /\ Steady]_vars
  PROVE  PassInv'
<1>1. PlanInv'
  BY PlanStep
<1>2. ASSUME UNCHANGED planVars
      PROVE  PassInv'
  <2>1. PICK F : F = FullPlan(start, bench)
    OBVIOUS
  <2>2. setup' = setup /\ F = FullPlan(start', bench')
    BY <1>2, <2>1 DEF planVars
  <2>3. Walking(F)'
    <3>1. Walking(F)
      BY <2>1 DEF PassInv
    <3>. QED BY <1>2, <3>1 DEF planVars, Walking, GoneBefore, Allowed
  <2>. QED BY <2>2, <2>3, WalkingNext
<1>3. CASE StartPass \/ ResumePass \/ SettledPass
  <2>1. Steady
    BY DEF Steady, vars, planVars
  <2>. QED BY <1>1, <1>3, <2>1, StartsKeepPlace
<1>4. CASE Pass
  <2>1. CASE SkipAttempt \/ SaveAttempt \/ Stockout
    BY <2>1, AttemptsKeepPlace
  <2>2. CASE Resolved \/ EndPass \/ Succeeds \/ Ambiguous
    <3>1. saved' = saved /\ pc # "over" /\ (Leave("idle") \/ Leave("over"))
      BY <2>2 DEF Resolved, EndPass, Succeeds, Ambiguous
    <3>. QED BY <3>1, LeaveKeepsPlace
  <2>3. CASE Refused
    <3>1. PICK to \in {"idle", "over"} : Leave(to)
      BY <2>3 DEF Refused
    <3>2. saved' = NoAttempt /\ pc # "over"
      BY <2>3 DEF Refused
    <3>. QED BY <3>1, <3>2, LeaveKeepsPlace
  <2>. QED BY <1>4, <2>1, <2>2, <2>3 DEF Pass
<1>5. CASE Restart
  <2>1. Leave("idle") /\ saved' = saved /\ pc # "over"
    BY <1>5 DEF Restart
  <2>. QED BY <2>1, LeaveKeepsPlace
<1>. QED BY <1>2, <1>3, <1>4, <1>5 DEF Next, AskBreaker, vars

-----------------------------------------------------------------------------
\* However many crashes, timeouts, expired answers and resumed passes lie behind,
\* what Compute has refused is the allowed part of the plan up to the saved attempt
\* (processJob's loop, attemptsAfter).
THEOREM PlaceIsKept == SteadySpec => [](PlanInv /\ PassInv)
<1>1. Init => PlanInv /\ PassInv
  BY PlanInit, PassInit
<1>2. PlanInv /\ PassInv /\ [Next /\ Steady]_vars => (PlanInv /\ PassInv)'
  BY PlanStep, PassStep
<1>. QED BY <1>1, <1>2, PTL DEF SteadySpec

\* While an insert is out: the place of its attempt in the sound plan.
LEMMA PlaceOfInsert ==
  ASSUME PlanInv, PassInv, pc = "insert", NEW F, F = FullPlan(start, bench)
  PROVE  /\ PlanSound(F, bench) /\ Len(F) \in Nat /\ DOMAIN F = 1 .. Len(F)
         /\ \E n \in 1 .. Len(F) : saved = F[n] /\ Allowed(F[n]) /\ GoneBefore(F, n)
<1>1. PlanSound(F, bench) /\ F \in Seq(AttemptSet)
  BY ThePlan
<1>2. \E n \in 1 .. Len(F) : saved = F[n] /\ Allowed(F[n]) /\ GoneBefore(F, n)
  BY DEF PassInv, Walking
<1>. QED BY <1>1, <1>2, LenProperties

\* No on-demand VM is asked for before SPOT was refused for every zone, or every
\* family (creationPlan, familyFallbackPlan).
THEOREM SpotIsExhaustedFirst == SteadySpec => []SpotExhaustedFirst
<1>1. PlanInv /\ PassInv => SpotExhaustedFirst
  <2>. SUFFICES ASSUME PlanInv, PassInv, pc = "insert", saved.model = "standard",
                       HasFallback, NEW k \in Kinds
                PROVE  \E a \in stockouts : a.model = "spot" /\ Kind(a) = k
    BY DEF SpotExhaustedFirst
  <2>1. PICK F : F = FullPlan(start, bench)
    OBVIOUS
  <2>2. PICK n \in 1 .. Len(F) : saved = F[n] /\ GoneBefore(F, n)
    BY <2>1, PlaceOfInsert
  <2>3. PICK i \in 1 .. n - 1 : F[i].model = "spot" /\ Kind(F[i]) = k
    BY <2>1, <2>2, PlaceOfInsert DEF PlanSound, SpotBefore
  <2>4. F[i] \in stockouts
    BY <2>2, <2>3 DEF GoneBefore, Allowed
  <2>. QED BY <2>3, <2>4
<1>. QED BY <1>1, PlaceIsKept, PTL

\* A benched zone is asked only when the same attempt was refused in every healthy
\* one (orderedZonesBenched, healthyZones).
THEOREM HealthyZonesAreFirst == SteadySpec => []HealthyZonesFirst
<1>1. PlanInv /\ PassInv => HealthyZonesFirst
  <2>. SUFFICES ASSUME PlanInv, PassInv, pc = "insert", saved.zone \in bench,
                       NEW z \in Range(Zones) \ bench
                PROVE  [saved EXCEPT !.zone = z] \in stockouts
    BY DEF HealthyZonesFirst
  <2>1. PICK F : F = FullPlan(start, bench)
    OBVIOUS
  <2>2. PICK n \in 1 .. Len(F) : saved = F[n] /\ Allowed(F[n]) /\ GoneBefore(F, n)
    BY <2>1, PlaceOfInsert
  <2>3. PICK i \in 1 .. n - 1 : F[i] = [F[n] EXCEPT !.zone = z]
    BY <2>1, <2>2, PlaceOfInsert DEF PlanSound, HealthyBefore
  <2>4. F[n] \in AttemptSet
    BY <2>1, ThePlan
  <2>5. Allowed(F[i])
    BY <2>2, <2>3, <2>4 DEF Allowed, AttemptSet, Attempt
  <2>. QED BY <2>2, <2>3, <2>5 DEF GoneBefore
<1>. QED BY <1>1, PlaceIsKept, PTL

\* Nothing Compute refused is asked for again, in any pass, before the plan is
\* exhausted (attemptsAfter, dedupePreserveOrder).
THEOREM NoAttemptIsRepeated == SteadySpec => []NoAttemptRepeated
<1>1. PlanInv /\ PassInv => NoAttemptRepeated
  <2>. SUFFICES ASSUME PlanInv, PassInv, pc = "insert", NEW b \in stockouts,
                       b.model = saved.model, Kind(b) = Kind(saved)
                PROVE  FALSE
    BY DEF NoAttemptRepeated
  <2>1. PICK F : F = FullPlan(start, bench)
    OBVIOUS
  <2>2. PICK n \in 1 .. Len(F) : saved = F[n] /\ GoneBefore(F, n)
    BY <2>1, PlaceOfInsert
  <2>3. PICK i \in 1 .. n - 1 : b = F[i]
    BY <2>2 DEF GoneBefore
  <2>4. DOMAIN F = 1 .. Len(F) /\ Len(F) \in Nat /\ Distinct(F)
    BY <2>1, PlaceOfInsert DEF PlanSound
  <2>5. i \in DOMAIN F /\ n \in DOMAIN F /\ i # n
    BY <2>2, <2>3, <2>4
  <2>. QED BY <2>2, <2>3, <2>4, <2>5 DEF Distinct
<1>. QED BY <1>1, PlaceIsKept, PTL
=============================================================================
