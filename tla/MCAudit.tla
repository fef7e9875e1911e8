------------------------------ MODULE MCAudit -------------------------------
(* Small instances of Lifecycle with the audit beside it for TLC. *)
EXTENDS Audit, MCLifecycle

\* Bound: one job tries every attempt while the audit looks on, or several jobs
\* share the VMs of the first attempt.
MCLoad ==
  Cardinality({j \in Jobs : ghJob[j] # "none"}) > 1 =>
    ~audit.on /\ \A g \in Gens, a \in Attempts : a > 1 => inst[g][a] = "none"

\* Bound: what becomes of a generation astray is followed while no other has a VM.
MCAstray == astray # {} => \A g \in Gens \ astray : Existing(g) = {}
=============================================================================
