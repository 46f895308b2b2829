---------------------------- MODULE FatNamespace ----------------------------
(***************************************************************************)
(* One directory of a FAT32 volume and the kernel operations that move the *)
(* ownership of cluster chains between its names: replaceFileAtomic and    *)
(* the deletes of Kernel/fs/fat/fat32.zig, and the checked transition of   *)
(* Kernel/fs/system_update_atomic.zig that drives them.                    *)
(*                                                                         *)
(* The volume's request gate is held for a whole operation, so at most one *)
(* is in progress (variable op).  Its steps are the durable ones: each is  *)
(* one directory-sector write or one release of a chain together with the  *)
(* flush that follows it, so a power loss falls before or after a step.    *)
(* Looking names up and checksumming their contents happens under the gate *)
(* and is part of the step that uses the answer.                           *)
(***************************************************************************)
EXTENDS Naturals

CONSTANTS
    Names,      \* the names of the directory that the operations touch
    Chains,     \* cluster chains, named by their first cluster
    Nobody      \* the owner of the gate when it is free

ASSUME ChainsAssumption == Chains \subseteq Nat \ {0}

VARIABLES
    dir,        \* Names -> the chain its short entry owns, or NoChain
    data,       \* Chains -> contents
    free,       \* chains whose clusters have been returned to the FAT
    op          \* the operation that holds the request gate

NoChain == 0
NoContent == [kind |-> "none", new |-> "none", old |-> "none"]

(* What the caller of the checked transition says about the exchange.      *)
NoSpec == [existed |-> FALSE, known |-> FALSE, rollback |-> FALSE,
           new |-> NoContent, old |-> NoContent]

NoOp == [owner |-> Nobody, pc |-> "idle", t |-> "", s |-> "", b |-> "",
         spec |-> NoSpec, victim |-> "", chain |-> NoChain, after |-> "", res |-> ""]

Present(n) == dir[n] # NoChain
Read(n) == data[dir[n]]

(* sameFileOwnership, sameFileRecoveryIdentity: files that are not empty   *)
(* are the same object when they start at the same cluster.                *)
SameOwnership(n, m) == Present(n) /\ Present(m) /\ dir[n] = dir[m]

(* A chain no name owns.  The chain of a detached name whose release was   *)
(* interrupted stays allocated on disk; nothing can reach it again, so its *)
(* name is reused here.                                                    *)
Unowned == {c \in Chains : \A n \in Names : dir[n] # c}

Lowest(S) == CHOOSE c \in S : \A d \in S : c <= d

SetEntry(n, c) == dir' = [dir EXCEPT ![n] = c]
Go(pc) == op' = [op EXCEPT !.pc = pc]
Return(res) == op' = [op EXCEPT !.pc = "done", !.res = res]

(***************************************************************************)
(* Calls.                                                                  *)
(***************************************************************************)
BeginTransition(owner, t, s, b, spec) ==
    /\ op = NoOp
    /\ op' = [NoOp EXCEPT !.owner = owner, !.pc = "check", !.t = t, !.s = s, !.b = b,
                          !.spec = spec]
    /\ UNCHANGED <<dir, data, free>>

(* deleteFile, for fileDelete and fileStreamAbort, which take a name that  *)
(* is absent for deleted.                                                  *)
BeginDelete(owner, n) ==
    /\ op = NoOp
    /\ op' = [NoOp EXCEPT !.owner = owner, !.victim = n, !.after = "done", !.res = "ok",
                          !.pc = IF Present(n) THEN "detach" ELSE "done"]
    /\ UNCHANGED <<dir, data, free>>

(* deleteFileIfIdentity, for fileDeleteIfMatch, which checks the contents  *)
(* under the same gate.                                                    *)
BeginDeleteIfMatch(owner, n, content) ==
    /\ op = NoOp
    /\ op' = [NoOp EXCEPT !.owner = owner, !.victim = n, !.after = "done",
                !.pc = IF Present(n) /\ Read(n) = content THEN "detach" ELSE "done",
                !.res = IF Present(n) /\ Read(n) # content THEN "conflict" ELSE "ok"]
    /\ UNCHANGED <<dir, data, free>>

(* writeFile, for fileStreamBegin with open_create: a new, still empty     *)
(* file.  The chain that its first write will allocate is chosen here.     *)
CreateFile(n, content) ==
    /\ op = NoOp
    /\ ~Present(n)
    /\ Unowned # {}
    /\ LET c == Lowest(Unowned) IN
          /\ SetEntry(n, c)
          /\ data' = [data EXCEPT ![c] = content]
          /\ free' = free \ {c}
    /\ UNCHANGED op

(* appendFileInternal, for fileStreamWrite ... fileStreamFinish: the       *)
(* contents become complete and durable with the flush of the finish.      *)
FinishFile(n, content) ==
    /\ op = NoOp
    /\ Present(n)
    /\ data' = [data EXCEPT ![dir[n]] = content]
    /\ UNCHANGED <<dir, free, op>>

(***************************************************************************)
(* deleteAt: the short entry is tombstoned and flushed first, then the     *)
(* chain is released.                                                      *)
(***************************************************************************)

\* Variant: the chain is released while the entry still owns it.
DeleteAtFreeFirst ==
    \/ /\ op.pc = "detach"
       /\ free' = free \cup {dir[op.victim]}
       /\ Go("free")
       /\ UNCHANGED <<dir, data>>
    \/ /\ op.pc = "free"
       /\ SetEntry(op.victim, NoChain)
       /\ Go(op.after)
       /\ UNCHANGED <<data, free>>

\* Variant: the chain to release is looked up in the entry just tombstoned.
DeleteAtRereads ==
    \/ /\ op.pc = "detach"
       /\ SetEntry(op.victim, NoChain)
       /\ Go("free")
       /\ UNCHANGED <<data, free>>
    \/ /\ op.pc = "free"
       /\ free' = free \cup {dir[op.victim]}
       /\ Go(op.after)
       /\ UNCHANGED <<dir, data>>

DeleteAt ==
    \/ /\ op.pc = "detach"
       /\ SetEntry(op.victim, NoChain)
       /\ op' = [op EXCEPT !.pc = "free", !.chain = dir[op.victim]]
       /\ UNCHANGED <<data, free>>
    \/ /\ op.pc = "free"
       /\ free' = free \cup {op.chain}
       /\ data' = [data EXCEPT ![op.chain] = NoContent]
       /\ op' = [op EXCEPT !.pc = op.after, !.chain = NoChain]
       /\ UNCHANGED dir

(* deleteObserved, from inside a transition.                               *)
DeleteObserved(n, after) == op' = [op EXCEPT !.pc = "detach", !.victim = n, !.after = after]

(***************************************************************************)
(* replaceFileAtomic(target, staged, backup).  Every branch that writes    *)
(* changes one entry; evaluating the branches again in the new state is    *)
(* how the code continues, and also how a later call resumes after a power *)
(* loss.  Continues at pc "then" when it returns ok.                       *)
(***************************************************************************)

\* Variant: the target is switched before its old chain has another name.
ReplaceNoBackup(target, staged, backup, then) ==
    /\ UNCHANGED <<data, free>>
    /\ \/ ~Present(staged) /\ Present(target) /\ Go(then) /\ UNCHANGED dir
       \/ ~Present(staged) /\ ~Present(target) /\ Return("conflict") /\ UNCHANGED dir
       \/ SameOwnership(target, staged) /\ SetEntry(staged, NoChain) /\ Go(then)
       \/ /\ Present(staged) /\ ~SameOwnership(target, staged)
          /\ SetEntry(target, dir[staged]) /\ UNCHANGED op

\* Variant: the target is renamed away before the staged file takes its name.
ReplaceByRename(target, staged, backup, then) ==
    /\ UNCHANGED <<data, free>>
    /\ \/ ~Present(staged) /\ Present(target) /\ Go(then) /\ UNCHANGED dir
       \/ ~Present(staged) /\ ~Present(target) /\ Return("conflict") /\ UNCHANGED dir
       \/ SameOwnership(target, staged) /\ SetEntry(staged, NoChain) /\ Go(then)
       \/ /\ Present(staged) /\ Present(target) /\ ~SameOwnership(target, staged)
          /\ \/ ~Present(backup) /\ SetEntry(backup, dir[target]) /\ UNCHANGED op
             \/ Present(backup) /\ SetEntry(target, NoChain) /\ UNCHANGED op
       \/ Present(staged) /\ ~Present(target) /\ SetEntry(target, dir[staged]) /\ UNCHANGED op

ReplaceFileAtomic(target, staged, backup, then) ==
    /\ UNCHANGED <<data, free>>
    /\ \/ ~Present(staged) /\ Present(target) /\ Go(then) /\ UNCHANGED dir
       \/ ~Present(staged) /\ ~Present(target) /\ Return("conflict") /\ UNCHANGED dir
       \/ SameOwnership(target, staged) /\ SetEntry(staged, NoChain) /\ Go(then)
       \/ /\ Present(staged) /\ Present(target) /\ ~SameOwnership(target, staged)
          /\ \/ ~Present(backup) /\ SetEntry(backup, dir[target]) /\ UNCHANGED op
             \/ SameOwnership(backup, target) /\ SetEntry(target, dir[staged]) /\ UNCHANGED op
             \/ /\ Present(backup) /\ ~SameOwnership(backup, target)
                /\ Return("conflict") /\ UNCHANGED dir
       \/ /\ Present(staged) /\ ~Present(target)
          /\ \/ ~Present(backup) /\ SetEntry(target, dir[staged]) /\ UNCHANGED op
             \/ Present(backup) /\ Return("conflict") /\ UNCHANGED dir

(***************************************************************************)
(* The checked transition.                                                 *)
(***************************************************************************)

(* observe: what a name holds, by fingerprint.                             *)
Observe(n) ==
    CASE ~Present(n) -> "missing"
      [] Present(n) /\ Read(n) = op.spec.new -> "new"
      [] Present(n) /\ Read(n) # op.spec.new /\ op.spec.known /\ Read(n) = op.spec.old -> "old"
      [] OTHER -> "other"

TargetHas == Observe(op.t)
StageHas == Observe(op.s)
BackupHas == Observe(op.b)

\* Variant: the alias that an interruption leaves is taken for a foreign file.
ExistingStateAllowedStrict ==
    /\ StageHas \in {"missing", "new"}
    /\ \/ TargetHas = "old" /\ BackupHas = "missing"
       \/ TargetHas = "new" /\ BackupHas = "old" /\ StageHas = "missing"

ExistingStateAllowed ==
    /\ StageHas \in {"missing", "new"}
    /\ IF op.spec.known
       THEN /\ BackupHas \in {"missing", "old"}
            /\ \/ TargetHas = "old" /\ (Present(op.b) => SameOwnership(op.t, op.b))
               \/ TargetHas = "missing" /\ BackupHas = "old" /\ StageHas = "new"
               \/ TargetHas = "new" /\ BackupHas = "old" /\ (Present(op.s) => SameOwnership(op.t, op.s))
       ELSE /\ TargetHas = "other"
            /\ Present(op.b) => BackupHas = "other" /\ SameOwnership(op.t, op.b)

\* Variant: the same for a creation.
CreateStateAllowedStrict ==
    /\ BackupHas = "missing"
    /\ \/ TargetHas = "missing" /\ StageHas \in {"missing", "new"}
       \/ TargetHas = "new" /\ StageHas = "missing"

CreateStateAllowed ==
    /\ BackupHas = "missing"
    /\ TargetHas \in {"missing", "new"}
    /\ StageHas \in {"missing", "new"}
    /\ Present(op.t) /\ Present(op.s) => SameOwnership(op.t, op.s)

(* The state that finishExistingForward leaves.                            *)
Published == TargetHas = "new" /\ StageHas = "missing" /\ BackupHas = "old"

(* transition: where to start, after the three names were observed.        *)
CheckTransition ==
    /\ op.pc = "check"
    /\ UNCHANGED <<dir, data, free>>
    /\ \/ /\ op.spec.existed /\ ExistingStateAllowed /\ op.spec.known
          /\ Go(IF op.spec.rollback /\ TargetHas = "old" /\ BackupHas = "missing" THEN "verify"
                ELSE IF ~Published THEN "replace"
                ELSE IF op.spec.rollback THEN "reverse" ELSE "verify")
       \/ /\ op.spec.existed /\ ExistingStateAllowed /\ ~op.spec.known
          /\ \/ ~Present(op.b) /\ Go("verify")
             \/ Present(op.b) /\ StageHas = "new" /\ Go("replace")
             \/ Present(op.b) /\ StageHas # "new" /\ Return("conflict")
       \/ /\ ~op.spec.existed /\ CreateStateAllowed
          /\ Go(IF IF op.spec.rollback THEN Present(op.t) /\ Present(op.s)
                                       ELSE ~(TargetHas = "new" /\ StageHas = "missing")
                THEN "replace" ELSE "verify")
       \/ /\ ~(IF op.spec.existed THEN ExistingStateAllowed ELSE CreateStateAllowed)
          /\ Return("conflict")

(* The forward leg of a rollback must have reached the canonical state     *)
(* before it is reversed (a legacy rollback reverses without looking).     *)
Midway ==
    /\ op.pc = "midway"
    /\ IF op.spec.known /\ ~Published THEN Return("conflict") ELSE Go("reverse")
    /\ UNCHANGED <<dir, data, free>>

\* Variant: what a rollback leaves is accepted without deleting it.
VerifyKeepsStage ==
    /\ op.pc = "verify"
    /\ UNCHANGED <<dir, data, free>>
    /\ \/ op.spec.rollback /\ Return("ok")
       \/ ~op.spec.rollback /\ Return(IF TargetHas = "new" THEN "ok" ELSE "conflict")

(* The terminal verification of each finish function, which also deletes   *)
(* what a rollback leaves.                                                 *)
Verify ==
    /\ op.pc = "verify"
    /\ UNCHANGED <<dir, data, free>>
    /\ LET settled == IF op.spec.known THEN "old" ELSE "other" IN
       \/ /\ op.spec.existed /\ op.spec.known /\ ~op.spec.rollback
          /\ Return(IF Published THEN "ok" ELSE "conflict")
       \/ /\ op.spec.existed /\ (op.spec.rollback \/ ~op.spec.known)
          /\ IF TargetHas # settled \/ BackupHas # "missing" \/ StageHas \notin {"missing", "new"}
             THEN Return("conflict")
             ELSE IF Present(op.s) THEN DeleteObserved(op.s, "verify") ELSE Return("ok")
       \/ /\ ~op.spec.existed /\ ~op.spec.rollback
          /\ Return(IF TargetHas = "new" /\ StageHas = "missing" /\ BackupHas = "missing" THEN "ok" ELSE "conflict")
       \/ /\ ~op.spec.existed /\ op.spec.rollback
          /\ IF BackupHas # "missing" \/ TargetHas \notin {"missing", "new"} \/ StageHas \notin {"missing", "new"}
             THEN Return("conflict")
             ELSE IF Present(op.t) THEN DeleteObserved(op.t, "verify")
             ELSE IF Present(op.s) THEN DeleteObserved(op.s, "verify") ELSE Return("ok")

\* Variant: the arguments of the reverse leg are swapped.
OpStepReverseSwapped ==
    \/ CheckTransition
    \/ /\ op.pc = "replace"
       /\ ReplaceFileAtomic(op.t, op.s, op.b,
              IF op.spec.existed /\ (op.spec.rollback \/ ~op.spec.known) THEN "midway" ELSE "verify")
    \/ Midway
    \/ op.pc = "reverse" /\ ReplaceFileAtomic(op.b, op.t, op.s, "verify")
    \/ Verify
    \/ DeleteAt

(* One step of the operation that holds the gate.                          *)
OpStep ==
    \/ CheckTransition
    \/ /\ op.pc = "replace"
       /\ ReplaceFileAtomic(op.t, op.s, op.b,
              IF op.spec.existed /\ (op.spec.rollback \/ ~op.spec.known) THEN "midway" ELSE "verify")
    \/ Midway
    \/ op.pc = "reverse" /\ ReplaceFileAtomic(op.t, op.b, op.s, "verify")
    \/ Verify
    \/ DeleteAt

(* No chain that is returned to the FAT is still owned by a name, whatever *)
(* sequence of exchanges, deletes and power losses came before: a delete   *)
(* never frees clusters that another name shares (deleteAt, detachEntry).  *)
NoDangling == \A n \in Names : dir[n] \notin free
=============================================================================
