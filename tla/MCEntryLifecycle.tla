--------------------------- MODULE MCEntryLifecycle ---------------------------
(***************************************************************************)
(* Five codes over three schemas: the Counter, a Counter with other logic, *)
(* NearMigration, a code that goes back to the Counter's schema, and one   *)
(* that adds a slot to it and keeps the slot name.                         *)
(***************************************************************************)
EXTENDS EntryLifecycle

CONSTANTS counter, hotfix, upgrade, downgrade, widened

MCVersions == {counter, hotfix, upgrade, downgrade, widened}

MCSchema == [v \in MCVersions |->
  CASE v \in {counter, hotfix, downgrade} -> "A" [] v = upgrade -> "B" [] v = widened -> "C"]

MCSlotsOf == [d \in {"A", "B", "C"} |->
  CASE d = "A" -> {"value"} [] d = "B" -> {"total", "revision"} [] d = "C" -> {"value", "revision"}]

MCMainSlot == [d \in {"A", "B", "C"} |-> IF d = "B" THEN "total" ELSE "value"]

MCMigratesFrom == [v \in MCVersions |->
  CASE v \in {counter, hotfix} -> NoMigration [] v = downgrade -> "B" [] OTHER -> "A"]

NoSlots == [s \in {} |-> 0]

MCLeftovers == { <<Absent, NoSlots>>, <<Absent, [s \in {"total"} |-> Malformed]>>, <<Absent, [s \in {"value"} |-> 1]>>,
                 <<Absent, [s \in {"value"} |-> Malformed]>>, <<Foreign, [s \in {"total"} |-> 1]>> }
==============================================================================
