-------------------------- MODULE MCOperatorGroups --------------------------
(* Two operators of one name and one API, with a tenant; a second group, static,  *)
(* for the first of them. *)
EXTENDS OperatorGroups

HomeDef == {"a", "b"}
TenantDef == {"t"}
GroupsDef == {"ga", "gb", "gx"}
HomeOfDef == [g \in GroupsDef |-> IF g = "gb" THEN "b" ELSE "a"]
ProvidesDef == [o \in HomeDef |-> "x"]
TargetsDef ==
    [g \in GroupsDef |-> CASE g = "ga" -> {{"a"}, {""}}
                          [] g = "gb" -> {{"b"}, {"t"}}
                          [] OTHER -> {{"t"}}]
StaticDef == {"gx"}
ProtectedDef == {"t"}
FaultsAll == {"copyFails", "retarget", "createGroup", "deleteGroup", "deleteCSV", "toggle"}
=============================================================================
