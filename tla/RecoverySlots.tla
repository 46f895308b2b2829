--------------------------- MODULE RecoverySlots ---------------------------
(***************************************************************************)
(* The two slots of the RECOVERY volume, the confirmation record that      *)
(* decides whether CURRENT may become PREVIOUS, and the sessions that      *)
(* update and confirm them: recovery_slots.zig, recovery_update.zig,       *)
(* recovery_state.zig and boot_confirmation.zig of the Recovery menu, over *)
(* the ordered sector writes of storage_tools/fat32_update.zig.            *)
(*                                                                         *)
(* A step of an execution is one of its write orders with the flush and    *)
(* the verification that follow.  An order that stops half way leaves what *)
(* it or a prefix of it could leave; where the outcome depends on how the  *)
(* clusters were allocated, the step chooses.                              *)
(***************************************************************************)
EXTENDS Naturals

CONSTANTS
    Packages,   \* complete packages: records [core, extra]; the core stands
                \* for kernel and runtime, the record for the manifest
    Boots,      \* the cores that reach the menu when they are started
    Installed,  \* the package the installer wrote to both slots
    Sessions,   \* processes that run the menu
    Menu,       \* the one started by the kernel
    Nobody,
    MaxInstall  \* changes to the INSTALL directory in one behaviour

Torn == [core |-> "torn", extra |-> "torn"]

ASSUME PackagesAssumption ==
    /\ Installed \in Packages /\ Torn \notin Packages
    /\ Installed.core \in Boots
ASSUME SessionsAssumption == Menu \in Sessions /\ Nobody \notin Sessions
ASSUME InstallAssumption == MaxInstall \in Nat

VARIABLES
    vol,        \* the volume: both slots (Torn when a slot does not verify),
                \* state.r4s, the version of INSTALL, and how the FAT copies
                \* and directories agree
    mounted,    \* whether the volume has its drive letter
    running,    \* what was started: slot and core, and whether RECBOOT.R4S
                \* could be written for it
    claim,      \* the session that has the exclusive claim, or Nobody
    leases,     \* the sessions that have a use lease on the volume
    pc, plan,   \* per session
    proven      \* the cores that reached the menu at least once

svars == <<vol, mounted, running, claim, leases, pc, plan, proven>>

NoState == [manifest |-> Torn, confirmed |-> FALSE]     \* missing or torn
Damaged == MaxInstall + 1
Fresh == [current |-> Installed, previous |-> Installed, state |-> NoState,
          install |-> 0, meta |-> "clean"]
Mixed == [Fresh EXCEPT !.install = Damaged]     \* the fingerprint of no volume
Off == [slot |-> "off", core |-> "none", facts |-> FALSE]
NoPlan == [next |-> Torn, leg |-> "none", wrote |-> FALSE, source |-> Mixed]

Valid(p) == p \in Packages

(* recovery_state.confirmed: the record speaks of this very manifest.      *)
Confirmed(record, p) == record.confirmed /\ record.manifest = p

(* recovery_state.encode.                                                  *)
Encode(p, yes) == [manifest |-> p, confirmed |-> yes]

Goto(s, where) == pc' = [pc EXCEPT ![s] = where]
Stop(s) == Goto(s, "idle") /\ plan' = [plan EXCEPT ![s] = NoPlan]

Init ==
    /\ vol = Fresh
    /\ mounted = FALSE
    /\ running = Off
    /\ claim = Nobody
    /\ leases = {}
    /\ pc = [s \in Sessions |-> "off"]
    /\ plan = [s \in Sessions |-> NoPlan]
    /\ proven = {Installed.core}

(***************************************************************************)
(* Starting and losing the machine.                                        *)
(***************************************************************************)

(* What a slot may start: of a package its core; of a torn slot whichever  *)
(* core is still complete in it.  recovery_ram.mount verifies the runtime  *)
(* of the kernel that was started; nothing else of a slot is looked at.    *)
Cores(p) == IF Valid(p) THEN {p.core} \cap Boots ELSE Boots

(* Limine starts the entry the user picks; a core that does not come up    *)
(* never gets to the menu.  writeBootFacts may fail.                       *)
Boot(slot) ==
    /\ running = Off
    /\ \E core \in Cores(IF slot = "current" THEN vol.current ELSE vol.previous), facts \in BOOLEAN :
          /\ running' = [slot |-> slot, core |-> core, facts |-> facts]
          /\ proven' = proven \cup {core}
    /\ mounted' = TRUE
    /\ pc' = [s \in Sessions |-> IF s = Menu THEN "confirm" ELSE "idle"]
    /\ UNCHANGED <<vol, claim, leases, plan>>

(* A Recovery on another medium works on this volume as a target.          *)
BootExternal ==
    /\ running = Off
    /\ running' = [slot |-> "external", core |-> "none", facts |-> TRUE]
    /\ mounted' = TRUE
    /\ pc' = [s \in Sessions |-> "idle"]
    /\ UNCHANGED <<vol, claim, leases, plan, proven>>

PowerLoss ==
    /\ running # Off
    /\ running' = Off
    /\ mounted' = FALSE
    /\ claim' = Nobody
    /\ leases' = {}
    /\ pc' = [s \in Sessions |-> "off"]
    /\ plan' = [s \in Sessions |-> NoPlan]
    /\ UNCHANGED <<vol, proven>>

(* Another menu is started in the running session.                         *)
OpenMenu(s) ==
    /\ pc[s] = "idle"
    /\ Goto(s, "confirm")
    /\ UNCHANGED <<vol, mounted, running, claim, leases, plan, proven>>

(* A download or a file transfer changes INSTALL.                          *)
WriteInstall ==
    /\ running # Off /\ mounted
    /\ vol.install < MaxInstall
    /\ vol' = [vol EXCEPT !.install = @ + 1]
    /\ UNCHANGED <<mounted, running, claim, leases, pc, plan, proven>>

(***************************************************************************)
(* confirm.                                                                *)
(***************************************************************************)

\* Variant: any core matches.
MatchesAnything(p) == Valid(p)

(* Boot.matches, and every file of CURRENT is what its manifest says.      *)
Matches(p) == Valid(p) /\ p.core = running.core

(* Up to the lease.                                                        *)
ConfirmBegin(s) ==
    /\ pc[s] = "confirm"
    /\ \/ /\ running.facts /\ running.slot = "current" /\ mounted /\ claim = Nobody
          /\ leases' = leases \cup {s}
          /\ Goto(s, "compare")
       \/ /\ ~(running.facts /\ running.slot = "current" /\ mounted /\ claim = Nobody)
          /\ Goto(s, "idle") /\ UNCHANGED leases
    /\ UNCHANGED <<vol, mounted, running, claim, plan, proven>>

(* The slot is compared with the boot facts and its own manifest.  Besides *)
(* a mismatch and a record that is there already, a read that fails or a   *)
(* stream that cannot be opened ends it with the record as it was.         *)
ConfirmCompare(s) ==
    /\ pc[s] = "compare"
    /\ \/ /\ Matches(vol.current) /\ vol.state # Encode(vol.current, TRUE)
          /\ Goto(s, "confirming")
          /\ plan' = [plan EXCEPT ![s].next = vol.current]
          /\ vol' = [vol EXCEPT !.state = NoState]      \* the replacing stream is open
          /\ UNCHANGED leases
       \/ leases' = leases \ {s} /\ Goto(s, "idle") /\ UNCHANGED <<vol, plan>>
    /\ UNCHANGED <<mounted, running, claim, proven>>

ConfirmWrite(s) ==
    /\ pc[s] = "confirming"
    /\ \/ vol' = [vol EXCEPT !.state = Encode(plan[s].next, TRUE)]
       \/ UNCHANGED vol                                 \* StateWrite, StateFlush
    /\ leases' = leases \ {s}
    /\ Stop(s)
    /\ UNCHANGED <<mounted, running, claim, proven>>

(***************************************************************************)
(* Updater.prepare.                                                        *)
(***************************************************************************)

\* Variant: only facts that say so make the running slot PREVIOUS.
RunningPreviousTrusting == running.slot = "previous" /\ running.facts

(* An unknown boot slot counts as PREVIOUS.                                *)
RunningPrevious == running.slot # "external" /\ (running.facts => running.slot = "previous")

(* Backing.init: raw reads, refused while somebody has the claim.  Other   *)
(* sessions go on using the volume.                                        *)
PrepareRead(s, next) ==
    /\ pc[s] = "idle" /\ running # Off
    /\ claim = Nobody
    /\ Goto(s, "preparing")
    /\ plan' = [plan EXCEPT ![s] = [NoPlan EXCEPT !.next = next, !.source = vol]]
    /\ UNCHANGED <<vol, mounted, running, claim, leases, proven>>

\* Variant: a valid CURRENT is rotated without looking at its confirmation.
RotateUnconfirmed(v) == ~RunningPrevious /\ Valid(v.current)

Rotate(v) == ~RunningPrevious /\ Valid(v.current) /\ Confirmed(v.state, v.current)

(* View.initSource compares the FAT copies; audit wants every allocated    *)
(* cluster to belong to exactly one file or directory.                     *)
FatsAgree(v) == v.meta # "fats_differ"
Consistent(v) == v.meta = "clean"

\* Variant: an update goes ahead without a fallback.
RefusedNever(v, next) == ~FatsAgree(v)

(* The FAT copies must agree; a plan that writes needs consistent          *)
(* directories and, unless it rotates, a PREVIOUS that verifies.           *)
Refused(v, next) ==
    \/ ~FatsAgree(v)
    \/ v.current # next /\ (~Consistent(v) \/ (~Rotate(v) /\ ~Valid(v.previous)))

(* prepareMode.  The plan is bound to the volume it was made from by a     *)
(* fingerprint; one that mixes two states of the volume matches none.      *)
PreparePlan(s) ==
    LET v == plan[s].source
        next == plan[s].next
    IN  /\ pc[s] = "preparing"
        /\ claim = Nobody
        /\ ~Refused(v, next)
        /\ Goto(s, "prepared")
        /\ plan' = [plan EXCEPT ![s].leg = IF v.current = next THEN "unchanged"
                                           ELSE IF Rotate(v) THEN "previous" ELSE "current",
                                ![s].source = IF v = vol THEN v ELSE Mixed]
        /\ UNCHANGED <<vol, mounted, running, claim, leases, proven>>

(* Refused, cancelled, out of space or memory, or unreadable.              *)
PrepareFails(s) ==
    /\ pc[s] \in {"preparing", "prepared"}
    /\ Stop(s)
    /\ UNCHANGED <<vol, mounted, running, claim, leases, proven>>

(***************************************************************************)
(* Updater.execute.                                                        *)
(***************************************************************************)

\* Variant: a lease does not stop the claim.
AcquireOverLeases(s) ==
    /\ pc[s] = "prepared"
    /\ claim = Nobody
    /\ claim' = s
    /\ mounted' = FALSE
    /\ Goto(s, "check")
    /\ UNCHANGED <<vol, running, leases, plan, proven>>

\* Variant: the volume stays mounted.
AcquireMounted(s) ==
    /\ pc[s] = "prepared"
    /\ claim = Nobody /\ leases = {}
    /\ claim' = s
    /\ Goto(s, "check")
    /\ UNCHANGED <<vol, mounted, running, leases, plan, proven>>

(* The claim is refused while a lease or another claim exists; taking it   *)
(* unmounts the volume.                                                    *)
Acquire(s) ==
    /\ pc[s] = "prepared"
    /\ claim = Nobody /\ leases = {}
    /\ claim' = s
    /\ mounted' = FALSE
    /\ Goto(s, "check")
    /\ UNCHANGED <<vol, running, leases, plan, proven>>

(* Release with or without mounting the volume again.                      *)
Release(keepUnmounted) ==
    /\ claim' = Nobody
    /\ mounted' = ~keepUnmounted

\* Variant: the fingerprint is not compared.
CheckSourceSkipped(s) ==
    /\ pc[s] = "check"
    /\ Goto(s, IF plan[s].leg = "unchanged" THEN "finish" ELSE "payload")
    /\ UNCHANGED <<vol, mounted, running, claim, leases, plan, proven>>

(* checkSource, for each of the two plans.                                 *)
CheckSource(s) ==
    /\ pc[s] = "check"
    /\ \/ /\ vol = plan[s].source
          /\ Goto(s, IF plan[s].leg = "unchanged" THEN "finish" ELSE "payload")
          /\ UNCHANGED <<mounted, claim, plan>>
       \/ vol # plan[s].source /\ Release(plan[s].wrote) /\ Stop(s)
    /\ UNCHANGED <<vol, running, leases, proven>>

\* Variant: the new package goes to both slots.
WrittenNext(s) == plan[s].next

\* Variant: the record of the replaced package stays.
RecordKept(s) == vol.state

(* What the leg writes: PREVIOUS gets the CURRENT of the plan's volume;    *)
(* CURRENT gets the new package, and state.r4s its unconfirmed record.     *)
Slot(s) == plan[s].leg

Written(s) == IF Slot(s) = "previous" THEN plan[s].source.current ELSE plan[s].next

Record(s) == IF Slot(s) = "previous" THEN vol.state ELSE Encode(plan[s].next, FALSE)

(* Sectors planned for another state of the volume fall on what has been   *)
(* allocated since.                                                        *)
InstallAfter(s) == IF vol.install = plan[s].source.install THEN vol.install ELSE Damaged

(* The volume with the slot of the leg holding p and state.r4s holding r.  *)
Put(s, p, r, m) ==
    [vol EXCEPT !.current = IF Slot(s) = "current" THEN p ELSE @,
                !.previous = IF Slot(s) = "previous" THEN p ELSE @,
                !.state = r, !.install = InstallAfter(s), !.meta = m]

SlotContent(s) == IF Slot(s) = "previous" THEN vol.previous ELSE vol.current

(* Order 0: payload goes to free clusters, which include those of the slot *)
(* that is replaced and of the old record.                                 *)
WritePayload(s) ==
    /\ pc[s] = "payload"
    /\ \E p \in {SlotContent(s), Torn, Written(s)} :
       \E r \in {vol.state, Record(s)} \cup (IF Slot(s) = "current" THEN {NoState} ELSE {}) :
          vol' = Put(s, p, r, vol.meta)
    /\ Goto(s, "backup_fat")
    /\ plan' = [plan EXCEPT ![s].wrote = TRUE]
    /\ UNCHANGED <<mounted, running, claim, leases, proven>>

(* Order 1, then order 2: the second FAT, then the first.  The old chains  *)
(* of the slot are gone.                                                   *)
WriteBackupFat(s) ==
    /\ pc[s] = "backup_fat"
    /\ vol' = [vol EXCEPT !.meta = "fats_differ"]
    /\ Goto(s, "main_fat")
    /\ UNCHANGED <<mounted, running, claim, leases, plan, proven>>

WriteMainFat(s) ==
    /\ pc[s] = "main_fat"
    /\ \E r \in IF Slot(s) = "current" THEN {NoState, Record(s)} ELSE {vol.state} :
          \/ vol' = Put(s, Torn, r, "fats_differ") /\ UNCHANGED pc
          \/ \E p \in {Torn, Written(s)} : vol' = Put(s, p, r, "orphans") /\ Goto(s, "directories")
    /\ UNCHANGED <<mounted, running, claim, leases, plan, proven>>

(* The directory orders, children before the root: in the end the slot and *)
(* the record are published; on the way one of them may be.                *)
WriteDirectories(s) ==
    /\ pc[s] = "directories"
    /\ \/ /\ \E p \in {SlotContent(s), Written(s)}, r \in {vol.state, Record(s)} :
              vol' = Put(s, p, r, "orphans")
          /\ UNCHANGED <<pc, plan>>
       \/ /\ vol' = Put(s, Written(s), Record(s), "clean")
          /\ Goto(s, IF Slot(s) = "previous" THEN "check" ELSE "finish")
          /\ plan' = IF Slot(s) = "previous"
                     THEN [plan EXCEPT ![s].leg = "current",
                                       ![s].source.previous = plan[s].source.current]
                     ELSE plan
    /\ UNCHANGED <<mounted, running, claim, leases, proven>>

(* A write, flush or verification fails, or the user cancels: the claim is *)
(* released and the volume stays unmounted once a write was attempted.     *)
Abandon(s) ==
    /\ claim = s /\ pc[s] # "finish"
    /\ \E attempted \in {plan[s].wrote, pc[s] = "payload"} : Release(plan[s].wrote \/ attempted)
    /\ Stop(s)
    /\ UNCHANGED <<vol, running, leases, proven>>

Finish(s) ==
    /\ pc[s] = "finish"
    /\ Release(FALSE)
    /\ Stop(s)
    /\ UNCHANGED <<vol, running, leases, proven>>

Next ==
    \/ Boot("current") \/ Boot("previous") \/ BootExternal \/ PowerLoss \/ WriteInstall
    \/ \E s \in Sessions :
          \/ OpenMenu(s) \/ ConfirmBegin(s) \/ ConfirmCompare(s) \/ ConfirmWrite(s)
          \/ \E next \in Packages : PrepareRead(s, next)
          \/ PreparePlan(s) \/ PrepareFails(s)
          \/ Acquire(s) \/ CheckSource(s) \/ WritePayload(s) \/ WriteBackupFat(s)
          \/ WriteMainFat(s) \/ WriteDirectories(s) \/ Abandon(s) \/ Finish(s)

Spec == Init /\ [][Next]_svars

(***************************************************************************)
(* Properties.                                                             *)
(***************************************************************************)

(* The shape of the state.                                                 *)
SlotsTypeOK ==
    /\ vol.current \in Packages \cup {Torn} /\ vol.previous \in Packages \cup {Torn}
    /\ vol.state \in [manifest : Packages, confirmed : BOOLEAN] \cup {NoState}
    /\ vol.install \in 0..Damaged
    /\ vol.meta \in {"clean", "fats_differ", "orphans"}
    /\ mounted \in BOOLEAN
    /\ claim \in Sessions \cup {Nobody} /\ leases \subseteq Sessions
    /\ claim # Nobody => ~mounted /\ leases = {}

(* Whatever is interrupted, at least one slot holds a complete package     *)
(* whose core is known to reach the menu ("A failed update can be          *)
(* recovered through the fixed Previous entry").                           *)
AlwaysBootable ==
    \E p \in {vol.current, vol.previous} : Valid(p) /\ p.core \in proven

(* PREVIOUS never holds a package whose core was not seen to work, however *)
(* updates, confirmations and power losses follow each other (prepareMode  *)
(* rotates confirmed packages only).                                       *)
PreviousProven == Valid(vol.previous) => vol.previous.core \in proven

(* A record that confirms the CURRENT on the volume confirms one whose     *)
(* kernel and runtime were started (confirm, Boot.matches).                *)
ConfirmedWasStarted ==
    Valid(vol.current) /\ Confirmed(vol.state, vol.current) => vol.current.core \in proven

(* No sequence of failures leaves the volume in the state that prepareMode *)
(* refuses for good: CURRENT unconfirmed and PREVIOUS not verifying.       *)
NeverWithoutFallback ==
    Valid(vol.previous) \/ (Valid(vol.current) /\ Confirmed(vol.state, vol.current))

(* The fallback that is running is not overwritten, also when the boot     *)
(* facts could not be recorded.                                            *)
RunningFallbackKept ==
    [][running.slot = "previous" => vol'.previous = vol.previous]_svars

(* No plan damages what others stored in INSTALL since it was prepared.    *)
InstallPreserved == vol.install # Damaged

(* An update that reports success left the new package in CURRENT, not     *)
(* confirmed, a PREVIOUS that verifies, and a consistent volume.           *)
SuccessIsExact ==
    [][\A s \in Sessions : pc[s] = "finish" /\ pc'[s] = "idle" /\ plan[s].leg = "current" =>
          /\ vol'.current = plan[s].next /\ vol'.state = Encode(plan[s].next, FALSE)
          /\ Valid(vol'.previous) /\ vol'.meta = "clean"]_svars
=============================================================================
