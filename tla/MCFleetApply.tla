---------------------------- MODULE MCFleetApply ----------------------------
(* Instances of FleetApply for TLC. *)
EXTENDS FleetApply

FirstOne == {1}
FirstTwo == {1, 2}

\* With two profiles, host 2 is an infra node and the hosts after it general ones.
TwoProfiles == [h \in 1..NHosts |-> IF h = 2 THEN "infra" ELSE "general"]
OneProfile == [h \in 1..NHosts |-> "general"]

\* Concurrency settings.
One == <<"count", 1>>
TwoFifths == <<"percent", 40>>
NoOverride == [p \in Profiles |-> Unset]
GeneralShare == [p \in Profiles |-> IF p = "general" THEN TwoFifths ELSE Unset]
=============================================================================
