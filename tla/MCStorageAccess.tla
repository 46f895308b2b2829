-------------------------- MODULE MCStorageAccess --------------------------
(* Small instance of StorageAccess: one device slot that can be reused,    *)
(* one runtime volume and one ordinary one, two tasks of one program.  The *)
(* tasks are interchangeable, and no property is a liveness property.      *)
EXTENDS StorageAccess, TLC

CONSTANTS t1, t2

MCDeviceSlots == {0}
MCMountSlots == {"C", "D"}
MCRuntimeSlots == {"C"}
MCOwners == {[task |-> t, program |-> 1] : t \in {t1, t2}}
MCSymmetry == Permutations({t1, t2})
=============================================================================
