------------------------------ MODULE ZipCache ------------------------------
(***************************************************************************)
(* The ZIP cache of one release channel on the RECOVERY volume:            *)
(* RecoveryTools/Menu/src/cache.zig driven by download.zig and the start   *)
(* of main.zig, on top of the kernel's directory operations.               *)
(*                                                                         *)
(* A client is a process that runs the Recovery menu.  Its steps are the   *)
(* system calls that change the volume; what it reads between two of them  *)
(* is read in the step that uses it.  A client whose pc is "call" waits    *)
(* for the kernel operation it started.                                    *)
(***************************************************************************)
EXTENDS FatNamespace

CONSTANTS
    Clients,        \* processes that may use the cache
    Menu,           \* the one that is started on every boot
    Versions,       \* package contents that validate
    MaxFaults       \* power losses, kills and failed calls in one behaviour

ASSUME ClientsAssumption == Menu \in Clients /\ Nobody \notin Clients
ASSUME FaultsAssumption == MaxFaults \in Nat

VARIABLES
    lease,          \* the client that owns the stream slot of the LCK file
    pc,             \* per client: where it is
    ret,            \* per client: where it goes when its call returns ok
    job,            \* per client: why it is in recover or finish
    rec,            \* per client: the Record it works on
    faults

kernel == <<dir, data, free, op>>
cvars == <<dir, data, free, op, lease, pc, ret, job, rec, faults>>

(* The files of Paths.                                                     *)
ZIP == "zip"
PART == "part"
BAK == "backup"
TXN == "journal"
TMP == "journal_stage"
JBK == "journal_backup"

(* Contents: a package, a journal record, a file that is not complete.     *)
Package(v) == [kind |-> "zip", new |-> v, old |-> v]
Torn == [kind |-> "torn", new |-> "torn", old |-> "torn"]
Encode(r) == [kind |-> "txn", new |-> r.new, old |-> r.old]
Records == [new : Versions, old : Versions \cup {"none"}]
NoRecord == [new |-> "none", old |-> "none"]
Invalid == "invalid"    \* a complete download that does not validate

(* readRecord: the journal record a name holds, if its checksum is right.  *)
HasRecord(n) == Present(n) /\ Read(n).kind = "txn"
RecordIn(n) == [new |-> Read(n).new, old |-> Read(n).old]
Version(n) == IF Present(n) THEN Read(n).new ELSE "none"

Init ==
    /\ \E v \in Versions :
          /\ data = [c \in Chains |-> IF c = 1 THEN Package(v) ELSE NoContent]
          /\ \/ dir = [n \in Names |-> NoChain]
             \/ dir = [n \in Names |-> IF n = ZIP THEN 1 ELSE NoChain]
    /\ free = {c \in Chains : \A n \in Names : dir[n] # c}
    /\ op = NoOp
    /\ lease = Nobody
    /\ pc = [c \in Clients |-> IF c = Menu THEN "start" ELSE "off"]
    /\ ret = [c \in Clients |-> "off"]
    /\ job = [c \in Clients |-> "none"]
    /\ rec = [c \in Clients |-> NoRecord]
    /\ faults = 0

Goto(c, where) == pc' = [pc EXCEPT ![c] = where]

(* Start a kernel operation; at "where" when it returns ok.                *)
Call(c, where) == Goto(c, "call") /\ ret' = [ret EXCEPT ![c] = where]

(***************************************************************************)
(* Locking and the entry points.                                           *)
(***************************************************************************)


(* Cache.lock: the lease of the LCK file is refused while a live process   *)
(* has its stream slot; a file left by a dead one is reclaimed.            *)
Lock(c, why) ==
    /\ lease = Nobody
    /\ lease' = c
    /\ Goto(c, "recover")
    /\ job' = [job EXCEPT ![c] = why]

(* The ways out of a transaction: success, CacheConflict, CacheJournal and *)
(* every other error.                                                      *)
Endings == {"complete", "conflict", "journal", "leave"}

(* The transaction of a client is gone.                                    *)
Forget(c) ==
    /\ ret' = [ret EXCEPT ![c] = "off"]
    /\ job' = [job EXCEPT ![c] = "none"]
    /\ rec' = [rec EXCEPT ![c] = NoRecord]

Pending == Present(TXN) \/ Present(TMP) \/ Present(BAK)

(* download.recover, called for the channel when the menu starts: whether  *)
(* anything is pending is looked up before the lock is taken.              *)
StartUp(c) ==
    /\ pc[c] = "start"
    /\ Goto(c, IF Pending THEN "repair" ELSE "idle")
    /\ UNCHANGED <<kernel, lease, ret, job, rec, faults>>

Repair(c) ==
    /\ pc[c] = "repair"
    /\ \/ Lock(c, "repair")
       \/ lease # Nobody /\ Goto(c, "idle") /\ UNCHANGED <<lease, job>>
    /\ UNCHANGED <<kernel, ret, rec, faults>>

(* Choosing the cached ZIP as a source runs download.recover again.        *)
InspectCache(c) ==
    /\ pc[c] = "idle"
    /\ Goto(c, "start")
    /\ UNCHANGED <<kernel, lease, ret, job, rec, faults>>

(* Client.run.                                                             *)
StartDownload(c) ==
    /\ pc[c] = "idle"
    /\ Lock(c, "download")
    /\ UNCHANGED <<kernel, ret, rec, faults>>

Launch(c) ==
    /\ pc[c] = "off"
    /\ Goto(c, "start")
    /\ UNCHANGED <<kernel, lease, ret, job, rec, faults>>

(***************************************************************************)
(* recover.  A published journal, or a complete staged one, is finished; a *)
(* torn staged one is discarded with the PART it speaks of.                *)
(***************************************************************************)

DecideRecover ==
    CASE Present(JBK) -> "conflict"
      [] ~Present(JBK) /\ Present(TXN) -> IF HasRecord(TXN) THEN "publish" ELSE "journal"
      [] ~Present(JBK) /\ ~Present(TXN) /\ Present(BAK) -> "conflict"
      [] ~Present(JBK) /\ ~Present(TXN) /\ ~Present(BAK) ->
            IF HasRecord(TMP) THEN "publish" ELSE IF Present(TMP) THEN "discard" ELSE "recovered"

Recover(c) ==
    /\ pc[c] = "recover"
    /\ Goto(c, DecideRecover)
    /\ rec' = [rec EXCEPT ![c] = IF DecideRecover # "publish" THEN NoRecord
                                 ELSE RecordIn(IF HasRecord(TXN) THEN TXN ELSE TMP)]
    /\ UNCHANGED <<kernel, lease, ret, job, faults>>

(* removePrivatePart: refuses to delete a PART whose chain is the ZIP's.   *)
RemovePrivatePart(c, then) ==
    \/ /\ Present(PART) /\ SameOwnership(PART, ZIP)
       /\ Goto(c, "conflict") /\ UNCHANGED <<kernel, ret>>
    \/ /\ Present(PART) /\ ~SameOwnership(PART, ZIP)
       /\ BeginDelete(c, PART) /\ Call(c, then)
    \/ ~Present(PART) /\ Goto(c, then) /\ UNCHANGED <<kernel, ret>>

DiscardPart(c) ==
    /\ pc[c] = "discard"
    /\ RemovePrivatePart(c, "discard_stage")
    /\ UNCHANGED <<lease, job, rec, faults>>

DiscardStage(c) ==
    /\ pc[c] = "discard_stage"
    /\ BeginDelete(c, TMP) /\ Call(c, "recovered")
    /\ UNCHANGED <<lease, job, rec, faults>>

(* Where recover returns to: download.recover unlocks; Client.run fetches  *)
(* the release metadata and calls beginDownload, which recovers once more. *)
Recovered(c) ==
    /\ pc[c] = "recovered"
    /\ \/ job[c] = "repair" /\ Goto(c, "complete") /\ UNCHANGED job
       \/ job[c] = "download" /\ Goto(c, "recover") /\ job' = [job EXCEPT ![c] = "begin"]
       \/ job[c] = "begin" /\ Goto(c, "begin") /\ UNCHANGED job
    /\ UNCHANGED <<kernel, lease, ret, rec, faults>>

(***************************************************************************)
(* beginDownload, the transfer and its validation.                         *)
(***************************************************************************)
BeginDownload(c) ==
    /\ pc[c] = "begin"
    /\ RemovePrivatePart(c, "create_part")
    /\ UNCHANGED <<lease, job, rec, faults>>

CreatePart(c) ==
    /\ pc[c] = "create_part"
    /\ CreateFile(PART, Torn)
    /\ Goto(c, "streaming")
    /\ UNCHANGED <<lease, ret, job, rec, faults>>

(* The transfer, with its retries, delivered all the bytes of the asset.   *)
FinishPart(c) ==
    /\ pc[c] = "streaming"
    /\ \E v \in Versions \cup {Invalid} : FinishFile(PART, Package(v))
    /\ Goto(c, "validate")
    /\ UNCHANGED <<lease, ret, job, rec, faults>>

\* Variant: the package is not validated.
ValidateNothing(c) ==
    /\ pc[c] = "validate"
    /\ Goto(c, "activate")
    /\ rec' = [rec EXCEPT ![c] = [new |-> Version(PART), old |-> "none"]]
    /\ UNCHANGED <<kernel, lease, ret, job, faults>>

(* session.prepare and github.matches.  A package that fails leaves its    *)
(* PART for the next beginDownload.                                        *)
Validate(c) ==
    /\ pc[c] = "validate"
    /\ \/ /\ Version(PART) \in Versions
          /\ Goto(c, "activate")
          /\ rec' = [rec EXCEPT ![c] = [new |-> Version(PART), old |-> "none"]]
       \/ Version(PART) \notin Versions /\ Goto(c, "leave") /\ UNCHANGED rec
    /\ UNCHANGED <<kernel, lease, ret, job, faults>>

(***************************************************************************)
(* activate and finish.                                                    *)
(***************************************************************************)

(* The PART must still be what was validated.  A ZIP that already is that  *)
(* package is kept; otherwise the journal is staged, naming what it        *)
(* replaces.                                                               *)
Activate(c) ==
    /\ pc[c] = "activate"
    /\ \/ /\ Version(PART) # rec[c].new
          /\ Goto(c, "conflict") /\ UNCHANGED <<kernel, ret, rec>>
       \/ /\ Version(PART) = rec[c].new /\ Version(ZIP) = rec[c].new
          /\ RemovePrivatePart(c, "complete") /\ UNCHANGED rec
       \/ /\ Version(PART) = rec[c].new /\ Version(ZIP) # rec[c].new
          /\ rec' = [rec EXCEPT ![c].old = Version(ZIP)]
          /\ CreateFile(TMP, Torn)
          /\ Goto(c, "staging") /\ UNCHANGED ret
    /\ UNCHANGED <<lease, job, faults>>

StageJournal(c) ==
    /\ pc[c] = "staging"
    /\ FinishFile(TMP, Encode(rec[c]))
    /\ Goto(c, "publish")
    /\ job' = [job EXCEPT ![c] = "activate"]
    /\ UNCHANGED <<lease, ret, rec, faults>>

\* Variant: the exchange starts before the journal is published.
PublishJournalSkipped(c) ==
    /\ pc[c] = "publish"
    /\ Goto(c, "finish")
    /\ UNCHANGED <<kernel, lease, ret, job, rec, faults>>

(* publishJournal: a checked creation of TXN from the staged record, which *)
(* also consumes an alias that survived an earlier one.                    *)
PublishJournal(c) ==
    /\ pc[c] = "publish"
    /\ BeginTransition(c, TXN, TMP, JBK,
          [existed |-> FALSE, known |-> FALSE, rollback |-> FALSE,
           new |-> Encode(rec[c]), old |-> NoContent])
    /\ Call(c, "finish")
    /\ UNCHANGED <<lease, job, rec, faults>>

\* Variant: a backup that is in the way is deleted before the exchange.
FinishDropsBackup(c) ==
    /\ pc[c] = "finish"
    /\ \/ Present(BAK) /\ BeginDelete(c, BAK) /\ Call(c, "finish")
       \/ /\ ~Present(BAK)
          /\ BeginTransition(c, ZIP, PART, BAK,
                [existed |-> rec[c].old # "none", known |-> rec[c].old # "none", rollback |-> FALSE,
                 new |-> Package(rec[c].new),
                 old |-> IF rec[c].old = "none" THEN NoContent ELSE Package(rec[c].old)])
          /\ Call(c, "published")
    /\ UNCHANGED <<lease, job, rec, faults>>

(* finish, up to the exchange.  Old is what the record says was replaced.  *)
Finish(c) ==
    LET new == rec[c].new
        old == rec[c].old
        isNew == Version(ZIP) = new
    IN  /\ pc[c] = "finish"
        /\ \/ /\ Present(BAK) /\ (old = "none" \/ Version(BAK) # old)
              /\ Goto(c, "conflict") /\ UNCHANGED <<kernel, ret>>
           \/ /\ Present(BAK) => old # "none" /\ Version(BAK) = old
              /\ \/ isNew /\ ~Present(PART) /\ Goto(c, "published") /\ UNCHANGED <<kernel, ret>>
                 \/ /\ ~(isNew /\ ~Present(PART))
                    /\ Version(PART) # new \/ (~isNew /\ Version(ZIP) # old)
                    /\ Goto(c, "conflict") /\ UNCHANGED <<kernel, ret>>
                 \/ /\ Version(PART) = new /\ (isNew \/ Version(ZIP) = old)
                    /\ BeginTransition(c, ZIP, PART, BAK,
                          [existed |-> old # "none", known |-> old # "none", rollback |-> FALSE,
                           new |-> Package(new),
                           old |-> IF old = "none" THEN NoContent ELSE Package(old)])
                    /\ Call(c, "published")
        /\ UNCHANGED <<lease, job, rec, faults>>

\* Variant: the journal is removed while the backup is still there.
DropBackupLast(c) ==
    /\ pc[c] = "published"
    /\ BeginDeleteIfMatch(c, TXN, Encode(rec[c])) /\ Call(c, "drop_journal")
    /\ UNCHANGED <<lease, job, rec, faults>>

(* The published ZIP is read back, then the backup and, last, the journal  *)
(* are removed.                                                            *)
DropBackup(c) ==
    /\ pc[c] = "published"
    /\ \/ /\ Version(ZIP) # rec[c].new \/ Present(PART)
          /\ Goto(c, "conflict") /\ UNCHANGED <<kernel, ret>>
       \/ /\ Version(ZIP) = rec[c].new /\ ~Present(PART)
          /\ IF rec[c].old = "none"
             THEN Goto(c, "drop_journal") /\ UNCHANGED <<kernel, ret>>
             ELSE BeginDeleteIfMatch(c, BAK, Package(rec[c].old)) /\ Call(c, "drop_journal")
    /\ UNCHANGED <<lease, job, rec, faults>>

DropJournal(c) ==
    /\ pc[c] = "drop_journal"
    /\ BeginDeleteIfMatch(c, TXN, Encode(rec[c]))
    /\ Call(c, IF job[c] = "activate" THEN "complete" ELSE "recovered")
    /\ UNCHANGED <<lease, job, rec, faults>>

(* Cache.unlock, on every way out: the transaction is complete, or ended   *)
(* in CacheConflict, in CacheJournal or in another error.                  *)
Leave(c) ==
    /\ pc[c] \in Endings
    /\ lease' = Nobody
    /\ Goto(c, "idle")
    /\ Forget(c)
    /\ UNCHANGED <<kernel, faults>>

(***************************************************************************)
(* The kernel side of a call, and what can go wrong.                       *)
(***************************************************************************)
KernelStep == OpStep /\ UNCHANGED <<lease, pc, ret, job, rec, faults>>

(* The call in progress is publishJournal's.                               *)
Publishing(c) == ret[c] = "finish"

(* publishJournal answers CacheJournal whatever the code of the failure;   *)
(* finish and remove tell a conflict from the other codes.                 *)
CallReturns(c) ==
    /\ pc[c] = "call" /\ op.owner = c /\ op.pc = "done"
    /\ op' = NoOp
    /\ Goto(c, IF op.res = "ok" THEN ret[c] ELSE IF Publishing(c) THEN "journal" ELSE "conflict")
    /\ ret' = [ret EXCEPT ![c] = "off"]
    /\ UNCHANGED <<dir, data, free, lease, job, rec, faults>>

Fault == faults < MaxFaults /\ faults' = faults + 1

(* A call fails with an I/O error between two of its durable steps:        *)
(* CacheJournal from publishJournal, CacheIo from the others.              *)
CallFails(c) ==
    /\ pc[c] = "call" /\ op.owner = c
    /\ op' = NoOp
    /\ Goto(c, IF Publishing(c) THEN "journal" ELSE "leave")
    /\ Fault
    /\ UNCHANGED <<dir, data, free, lease, ret, job, rec>>

(* A read fails, the user cancels, memory or space runs out.  The stream   *)
(* that is open is aborted on the way out, unless that fails too.          *)
Fail(c) ==
    /\ lease = c /\ pc[c] \notin {"call", "publish"} \cup Endings
    /\ \/ pc[c] = "streaming" /\ BeginDelete(c, PART) /\ Call(c, "leave")
       \/ pc[c] = "staging" /\ BeginDelete(c, TMP) /\ Call(c, "leave")
       \/ Goto(c, "leave") /\ UNCHANGED <<kernel, ret>>
    /\ Fault
    /\ UNCHANGED <<lease, job, rec>>

(* A program is ended between two calls; its slots are reaped.             *)
Kill(c) ==
    /\ c # Menu /\ pc[c] \notin {"call", "off"}
    /\ Goto(c, "off")
    /\ lease' = IF lease = c THEN Nobody ELSE lease
    /\ Forget(c)
    /\ Fault
    /\ UNCHANGED kernel

PowerLoss ==
    /\ op' = NoOp
    /\ lease' = Nobody
    /\ pc' = [c \in Clients |-> IF c = Menu THEN "start" ELSE "off"]
    /\ ret' = [c \in Clients |-> "off"]
    /\ job' = [c \in Clients |-> "none"]
    /\ rec' = [c \in Clients |-> NoRecord]
    /\ Fault
    /\ UNCHANGED <<dir, data, free>>

(* The steps a client takes on its own, as opposed to those that a user or *)
(* the network decides on.                                                 *)
ClientStep(c) ==
    \/ StartUp(c) \/ Repair(c) \/ Recover(c) \/ DiscardPart(c) \/ DiscardStage(c) \/ Recovered(c)
    \/ BeginDownload(c) \/ CreatePart(c) \/ Validate(c) \/ Activate(c) \/ StageJournal(c)
    \/ PublishJournal(c) \/ Finish(c) \/ DropBackup(c) \/ DropJournal(c) \/ Leave(c)
    \/ CallReturns(c)

Next ==
    \/ \E c \in Clients : ClientStep(c)
    \/ \E c \in Clients : InspectCache(c) \/ StartDownload(c) \/ Launch(c) \/ FinishPart(c)
    \/ KernelStep
    \/ \E c \in Clients : CallFails(c) \/ Fail(c) \/ Kill(c)
    \/ PowerLoss

Fairness == WF_cvars(KernelStep) /\ \A c \in Clients : WF_cvars(ClientStep(c))

Spec == Init /\ [][Next]_cvars /\ Fairness

(***************************************************************************)
(* Properties.                                                             *)
(***************************************************************************)
Contents == {Package(v) : v \in Versions \cup {Invalid}} \cup {Torn, NoContent}
            \cup {Encode(r) : r \in Records}

(* The shape of the state; a record in a client's hands names validated    *)
(* packages only.                                                          *)
CacheTypeOK ==
    /\ dir \in [Names -> Chains \cup {NoChain}]
    /\ data \in [Chains -> Contents]
    /\ free \subseteq Chains
    /\ op.owner \in Clients \cup {Nobody}
    /\ lease \in Clients \cup {Nobody}
    /\ \A c \in Clients : rec[c] \in [new : Versions \cup {"none"}, old : Versions \cup {"none"}]
    /\ faults \in 0..MaxFaults

(* The name RELEASE.ZIP only ever shows a complete package that passed     *)
(* validation: no power loss, failure or second client exposes a partial   *)
(* or rejected download (activate runs on validated contents only).        *)
ZipAlwaysValid == Present(ZIP) => Read(ZIP) \in {Package(v) : v \in Versions}

(* Once there is a cached package there always is one: no step of any      *)
(* exchange removes the name (message: "The current ZIP was retained").    *)
ZipNeverLost == [][Present(ZIP) => Present(ZIP)']_cvars

(* Write-ahead: the ZIP changes only while a published journal names both  *)
(* the package it shows and the one it is about to show.                   *)
WriteAhead ==
    [][Version(ZIP)' # Version(ZIP) =>
         HasRecord(TXN) /\ RecordIn(TXN) = [new |-> Version(ZIP)', old |-> Version(ZIP)]]_cvars

(* The backup goes only when the journal's new package is in place under   *)
(* the ZIP name alone.                                                     *)
BackupOutlivesExchange ==
    [][Present(BAK) /\ ~Present(BAK)' =>
         HasRecord(TXN) /\ Version(ZIP) = Read(TXN).new /\ ~Present(PART)]_cvars

(* Files that share a chain, which no FAT tool may see as two owners for   *)
(* long, are always covered by a durable journal that recover will finish. *)
AliasesJournaled ==
    \A n, m \in Names : n # m /\ SameOwnership(n, m) =>
        \/ {n, m} = {TXN, TMP} /\ HasRecord(TXN)
        \/ {n, m} \in {{ZIP, PART}, {ZIP, BAK}} /\ HasRecord(TXN)


(* Once nothing fails any more, a start of the menu that finds the lease   *)
(* free leaves no journal, staged journal or backup behind, even when      *)
(* another client takes the lease first (download.recover).                *)
StartSettles == (faults = MaxFaults /\ pc[Menu] = "start" /\ lease = Nobody) ~> ~Pending
=============================================================================
