--------------------------- MODULE MCCreationPlan ---------------------------
(* Small instances of CreationPlan for TLC. *)
EXTENDS CreationPlan

ThreeZones == <<"za", "zb", "zc">>
TwoZones == <<"za", "zb">>
RepeatedFamilies == <<"f1", "f2", "f1", "f3">>
NoFamilies == <<>>
FiveVMs == {"a1", "a2", "b1", "b2", "x"}
SevenVMs == FiveVMs \cup {"c1", "c2"}
MCZoneOf == [v \in VMs |-> CASE v \in {"b1", "b2"} -> "zb"
                             [] v \in {"c1", "c2"} -> "zc"
                             [] OTHER -> "za"]
=============================================================================
