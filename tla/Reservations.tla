---------------------------- MODULE Reservations ----------------------------
(***************************************************************************)
(* What fleet admission promises, and nothing about how.                   *)
(*                                                                         *)
(* A reservation stands for one runner generation (a VM name with a fresh  *)
(* random suffix).  A generation is reserved at most once in its life, at  *)
(* most MaxRunners generations are reserved together, and a reservation    *)
(* ends exactly once.  FleetStore implements this with a counter document, *)
(* a ledger of rows and job records that pass generations to one another.  *)
(***************************************************************************)
EXTENDS Integers, FiniteSets

CONSTANTS Gens,        \* generation names
          MaxRunners   \* github_runner max_runners, the admission limit

VARIABLES reserved,    \* generations that hold a slot now
          spent        \* generations that ever held one

Init == reserved = {} /\ spent = {}

Reserve(g) ==
  /\ g \notin spent
  /\ Cardinality(reserved) < MaxRunners
  /\ reserved' = reserved \cup {g}
  /\ spent' = spent \cup {g}

Release(g) ==
  /\ g \in reserved
  /\ reserved' = reserved \ {g}
  /\ UNCHANGED spent

Next == \E g \in Gens : Reserve(g) \/ Release(g)

Spec == Init /\ [][Next]_<<reserved, spent>>
=============================================================================
