---------------------------- MODULE MCMaintenance ----------------------------
(* Two zones and three detached runners for TLC, the first of which Compute never *)
(* deletes; four jobs, two of which are always skipped and one always refused.    *)
EXTENDS Maintenance

CONSTANTS kept, stray, plain, zoneA, zoneB, refused, ready, skip1, skip2

TwoZones == <<zoneA, zoneB>>
ZoneOfVM == (kept :> zoneA) @@ (stray :> zoneB) @@ (plain :> zoneB)
=============================================================================
