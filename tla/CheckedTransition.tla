------------------------- MODULE CheckedTransition -------------------------
(***************************************************************************)
(* The checked ownership transition of system_update_atomic.zig as its     *)
(* callers use it: a durable journal decides the direction, the call is    *)
(* repeated until it is acknowledged, and a power loss or an I/O error may *)
(* interrupt it between any two durable steps.  The decision may turn from *)
(* forward to rollback, never back.                                        *)
(***************************************************************************)
EXTENDS FatNamespace

CONSTANTS MaxFaults     \* interruptions in one behaviour

ASSUME FaultsAssumption == MaxFaults \in Nat

VARIABLES
    plan,       \* the exchange: what existed, what is known of it
    want,       \* the direction the journal holds
    finished,   \* the direction that was acknowledged last
    faults      \* interruptions so far

tvars == <<dir, data, free, op, plan, want, finished, faults>>

File(v) == [kind |-> "file", new |-> v, old |-> v]
Original == File("original")
Replacement == File("replacement")
Target == "target"
Stage == "stage"
Backup == "backup"

Directions == {"forward", "rollback"}

(* A replacement of an existing file, a creation, and an exchange started  *)
(* by a release whose journal did not record the old fingerprint, which    *)
(* can only be rolled back and may have left the backup alias behind.      *)
Plans == {[existed |-> TRUE, known |-> TRUE], [existed |-> FALSE, known |-> FALSE],
          [existed |-> TRUE, known |-> FALSE]}
Legacy(p) == p.existed /\ ~p.known

Init ==
    /\ plan \in Plans
    /\ want = IF Legacy(plan) THEN "rollback" ELSE "forward"
    /\ dir \in [Names -> {NoChain, 1, 2}]
    /\ dir[Target] = IF plan.existed THEN 1 ELSE NoChain
    /\ dir[Stage] = 2
    /\ dir[Backup] \in {NoChain} \cup IF Legacy(plan) THEN {1} ELSE {}
    /\ data = [c \in Chains |-> IF c = 1 THEN Original ELSE Replacement]
    /\ free = Chains \ {dir[n] : n \in Names}
    /\ op = NoOp
    /\ finished = "none"
    /\ faults = 0

Start ==
    /\ finished # want
    /\ BeginTransition("caller", Target, Stage, Backup,
          [existed |-> plan.existed, known |-> plan.known, rollback |-> want = "rollback",
           new |-> Replacement, old |-> IF plan.known THEN Original ELSE NoContent])
    /\ UNCHANGED <<plan, want, finished, faults>>

Step == OpStep /\ UNCHANGED <<plan, want, finished, faults>>

Acknowledge ==
    /\ op.pc = "done"
    /\ op' = NoOp
    /\ finished' = IF op.res = "ok" THEN want ELSE finished
    /\ UNCHANGED <<dir, data, free, plan, want, faults>>

(* The package as a whole is rolled back, also after this exchange was     *)
(* acknowledged.                                                           *)
Decide ==
    /\ op = NoOp
    /\ want = "forward"
    /\ want' = "rollback"
    /\ UNCHANGED <<dir, data, free, op, plan, finished, faults>>

Interrupt ==
    /\ op # NoOp
    /\ faults < MaxFaults
    /\ faults' = faults + 1
    /\ op' = NoOp
    /\ UNCHANGED <<dir, data, free, plan, want, finished>>

Settled == finished = want /\ op = NoOp /\ UNCHANGED tvars

Next == Start \/ Step \/ Acknowledge \/ Decide \/ Interrupt \/ Settled

(* The journal is replayed on every start and the kernel runs the call.    *)
Fairness == WF_tvars(Start) /\ WF_tvars(Step) /\ WF_tvars(Acknowledge)

Spec == Init /\ [][Next]_tvars /\ Fairness

(***************************************************************************)
(* Properties.                                                             *)
(***************************************************************************)

(* The shape of the state, and that a name always leads to a complete      *)
(* file: no operation of transition works on part of one, or leaves a name *)
(* with a chain whose contents are gone.                                   *)
TransitionTypeOK ==
    /\ dir \in [Names -> Chains \cup {NoChain}]
    /\ \A n \in Names : Present(n) => Read(n) # NoContent
    /\ data \in [Chains -> {Original, Replacement, NoContent}]
    /\ free \subseteq Chains
    /\ plan \in Plans
    /\ want \in Directions /\ finished \in Directions \cup {"none"}
    /\ faults \in 0..MaxFaults
    /\ op.pc \in {"idle", "check", "replace", "midway", "reverse", "verify", "detach", "free", "done"}

(* Whatever is interrupted, a file that existed is there under its own     *)
(* name, complete, as the old or as the new one: the single entry write of *)
(* replaceFileAtomic is the only visibility point.                         *)
TargetIntact ==
    plan.existed => Present(Target) /\ Read(Target) \in {Original, Replacement}

(* The original stays reachable under the target or the backup name for as *)
(* long as the exchange may be rolled back, and the replacement under the  *)
(* target or the stage name for as long as it may be finished forward.     *)
NothingLost ==
    /\ plan.existed =>
         \E n \in {Target, Backup} : Present(n) /\ Read(n) = Original
    /\ want = "forward" =>
         \E n \in {Target, Stage} : Present(n) /\ Read(n) = Replacement

(* Two names share a chain only as the two legs of an exchange: target and *)
(* backup the original, or target and stage the replacement.               *)
AliasesAreLegs ==
    \A n, m \in Names : n # m /\ SameOwnership(n, m) =>
        \/ {n, m} = {Target, Backup} /\ Read(n) = Original
        \/ {n, m} = {Target, Stage} /\ Read(n) = Replacement

(* Replaying an interrupted exchange in the direction of the journal never *)
(* ends in a conflict: every state an interruption leaves is one the check *)
(* of transition admits and its terminal verification accepts.  (A legacy  *)
(* rollback is the exception the code makes: interrupted between its two   *)
(* legs it refuses to go on, and NothingLost is all that is left.)         *)
ReplayNeverConflicts == op.pc = "done" /\ ~Legacy(plan) => op.res = "ok"

(* An acknowledged exchange is exact: forward leaves the replacement with  *)
(* the original as backup, rollback the original object itself, and no     *)
(* alias or staged file survives either.                                   *)
OutcomeExact ==
    finished = want /\ op = NoOp =>
        /\ ~Present(Stage)
        /\ want = "forward" =>
             /\ Present(Target) /\ Read(Target) = Replacement
             /\ plan.existed <=> Present(Backup)
        /\ want = "rollback" =>
             /\ ~Present(Backup)
             /\ plan.existed => dir[Target] = 1
             /\ ~plan.existed => ~Present(Target)
        /\ \A n, m \in Names : SameOwnership(n, m) => n = m

(* Once interruptions stop, the replay of the journal's direction is       *)
(* acknowledged and stays so.                                              *)
EventuallySettled == ~Legacy(plan) => <>[](finished = want)
=============================================================================
