-------------------------- MODULE MCRecoverySlots --------------------------
(* The installed package, a repackaging of the same core, a successor that *)
(* works and one whose core never comes up.                                *)
EXTENDS RecoverySlots

MCInstalled == [core |-> "a", extra |-> "x"]
MCTwoPackages == {MCInstalled, [core |-> "b", extra |-> "x"]}
MCPackages == MCTwoPackages \cup {[core |-> "a", extra |-> "y"], [core |-> "broken", extra |-> "x"]}
MCBoots == {"a", "b"}
MCOneSession == {"menu"}
MCSessions == {"menu", "second"}
=============================================================================
