----------------------------- MODULE MCDiscovery ----------------------------
(* Two repositories to discover, for TLC.  The PAT is denied the first; the runs *)
(* of the second take two pages, the first of which has only finished runs.     *)
(* Once a job has its record or is over it is one more item to skip: MCLoad ends *)
(* a behaviour when this holds of all.                                          *)
EXTENDS Discovery

CONSTANTS denied, open, run2, finished, over, j1, h1, h2

MCListing == [l \in Listings |->
  CASE l = open -> <<finished, over, run2>>
    [] l = run2 -> <<j1>>
    [] OTHER -> <<>>]

MCLoad == \E j \in Jobs : j \notin known /\ github[j] = "queued"
=============================================================================
