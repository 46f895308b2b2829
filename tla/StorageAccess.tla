--------------------------- MODULE StorageAccess ---------------------------
(***************************************************************************)
(* Storage admission: who may touch which sectors of which device.         *)
(* Models src/Kernel/storage/access_state.zig behind the serializing       *)
(* wrappers of access_runtime.zig, so every operation is one atomic step.  *)
(*                                                                         *)
(* A fixed array whose entries carry an "active" flag (devices, mounts) or *)
(* a non-zero id (uses, claims) is modelled by the set of its live         *)
(* entries.  A call that returns an error without changing any state is a  *)
(* stuttering step and has no disjunct; a call that fails AFTER consuming  *)
(* a counter value does (see the "exhausted" disjuncts).                   *)
(***************************************************************************)
EXTENDS Integers, FiniteSets

CONSTANTS
    DeviceSlots,    \* indices of State.devices
    MountSlots,     \* indices of State.mounts: drive letters and the boot volume
    RuntimeSlots,   \* the mount slots that are bound as runtime_required
    Owners,         \* task incarnations: records with fields task and program
    MaxSectors,     \* bound on the size of a device
    MaxUses,        \* max_uses
    MaxClaims,      \* max_claims
    MaxCounter      \* std.math.maxInt(u64): both counters stop there

ASSUME BoundsAssumption ==
    /\ MaxSectors \in Nat \ {0}
    /\ MaxUses \in Nat
    /\ MaxClaims \in Nat
    /\ MaxCounter \in Nat \ {0}

ASSUME RuntimeAssumption == RuntimeSlots \subseteq MountSlots

VARIABLES
    devices,              \* live registrations
    mounts,               \* active mounts
    uses,                 \* admitted requests, leases and raw transfers
    claims,               \* exclusive claims
    sequence,             \* source of every generation and id
    topology_generation   \* version of the inventory

vars == <<devices, mounts, uses, claims, sequence, topology_generation>>

UseKinds == {"request", "lease", "raw"}
Phases == {"preparing", "active", "finishing"}

DeviceRefs == [slot : DeviceSlots, generation : Nat]
Regions == [device : DeviceRefs, first : Nat, count : Nat]

DeviceRecords == [slot : DeviceSlots, generation : Nat, sectors : Nat, retiring : BOOLEAN]
MountRecords == [slot : MountSlots, generation : Nat, region : Regions]
UseRecords == [id : Nat, owner : Owners, region : Regions, kind : UseKinds]
ClaimRecords == [id : Nat, owner : Owners, region : Regions, phase : Phases]

(***************************************************************************)
(* Regions.  The comparisons use differences so that first + count is      *)
(* never formed.                                                           *)
(***************************************************************************)
\* Variant: only the later start is compared.
OverlapsOneSided(a, b) ==
    /\ a.device = b.device
    /\ a.first <= b.first /\ b.first - a.first < a.count

Overlaps(a, b) ==
    /\ a.device = b.device
    /\ a.count # 0 /\ b.count # 0
    /\ IF a.first <= b.first THEN b.first - a.first < a.count
                             ELSE a.first - b.first < b.count

Contains(outer, inner) ==
    /\ outer.device = inner.device
    /\ inner.count # 0
    /\ inner.first >= outer.first
    /\ inner.first - outer.first <= outer.count
    /\ inner.count <= outer.count - (inner.first - outer.first)

RefOf(d) == [slot |-> d.slot, generation |-> d.generation]
WholeDevice(d) == [device |-> RefOf(d), first |-> 0, count |-> d.sectors]
RuntimeRequired(m) == m.slot \in RuntimeSlots

RegionUsed(region) == \E u \in uses : Overlaps(u.region, region)
RegionClaimed(region) == \E c \in claims : Overlaps(c.region, region)

(* deviceValue and validateRegion: a live, non-retiring incarnation that   *)
(* holds the whole region.                                                 *)
ValidRegion(region) ==
    \E d \in devices :
        /\ RefOf(d) = region.device
        /\ ~d.retiring
        /\ region.count # 0
        /\ region.first < d.sectors
        /\ region.count <= d.sectors - region.first

(***************************************************************************)
(* The two counters.  Neither wraps: at the limit the call fails.          *)
(***************************************************************************)
\* Variant: a saturating counter.
TakeIdSaturating == sequence' = IF sequence < MaxCounter THEN sequence + 1 ELSE sequence

TakeId == /\ sequence < MaxCounter
          /\ sequence' = sequence + 1

Changed == /\ topology_generation < MaxCounter
           /\ topology_generation' = topology_generation + 1

TopologyExhausted == /\ topology_generation = MaxCounter
                     /\ UNCHANGED topology_generation

(***************************************************************************)
(* Devices.                                                                *)
(***************************************************************************)
Init ==
    /\ devices = {}
    /\ mounts = {}
    /\ uses = {}
    /\ claims = {}
    /\ sequence = 0
    /\ topology_generation = 1

\* Variant: the generation is read before the counter advances.
RegisterDeviceEarly(slot, sectors) ==
    /\ \A d \in devices : d.slot # slot
    /\ TakeId
    /\ Changed
    /\ devices' = devices \cup {[slot |-> slot, generation |-> sequence,
                                sectors |-> sectors, retiring |-> FALSE]}
    /\ UNCHANGED <<mounts, uses, claims>>

RegisterDevice(slot, sectors) ==
    /\ \A d \in devices : d.slot # slot
    /\ TakeId
    /\ \/ /\ Changed
          /\ devices' = devices \cup {[slot |-> slot, generation |-> sequence + 1,
                                      sectors |-> sectors, retiring |-> FALSE]}
       \/ TopologyExhausted /\ UNCHANGED devices
    /\ UNCHANGED <<mounts, uses, claims>>

\* Variant: mounts are forgotten.
CanRetireMounted(d) ==
    ~RegionUsed(WholeDevice(d)) /\ ~RegionClaimed(WholeDevice(d))

CanRetire(d) ==
    /\ ~RegionUsed(WholeDevice(d))
    /\ ~RegionClaimed(WholeDevice(d))
    /\ \A m \in mounts : ~Overlaps(m.region, WholeDevice(d))

BeginRetirement(d) ==
    /\ CanRetire(d)
    /\ ~d.retiring
    /\ devices' = (devices \ {d}) \cup {[d EXCEPT !.retiring = TRUE]}
    /\ UNCHANGED <<mounts, uses, claims, sequence, topology_generation>>

CancelRetirement(d) ==
    /\ d.retiring
    /\ devices' = (devices \ {d}) \cup {[d EXCEPT !.retiring = FALSE]}
    /\ UNCHANGED <<mounts, uses, claims, sequence, topology_generation>>

(* block.zig commits a retirement only for a slot it is retiring.          *)
RetireDevice(d) ==
    /\ d.retiring
    /\ CanRetire(d)
    /\ Changed
    /\ devices' = devices \ {d}
    /\ UNCHANGED <<mounts, uses, claims, sequence>>

(***************************************************************************)
(* Mounts.  A slot that is bound as runtime_required (C: and the boot      *)
(* volume) is bound by the boot scan, before user programs can claim.      *)
(***************************************************************************)
BindMount(slot, region) ==
    /\ ValidRegion(region)
    /\ \A m \in mounts : m.slot # slot
    /\ slot \in RuntimeSlots => claims = {}
    /\ TakeId
    /\ \/ /\ Changed
          /\ mounts' = mounts \cup {[slot |-> slot, generation |-> sequence + 1,
                                    region |-> region]}
       \/ TopologyExhausted /\ UNCHANGED mounts
    /\ UNCHANGED <<devices, uses, claims>>

\* Variant: the inventory is not republished.
UnbindMountSilent(m) ==
    /\ ValidRegion(m.region)
    /\ ~RuntimeRequired(m)
    /\ ~RegionUsed(m.region)
    /\ mounts' = mounts \ {m}
    /\ UNCHANGED <<devices, uses, claims, sequence, topology_generation>>

UnbindMount(m) ==
    /\ ValidRegion(m.region)
    /\ ~RuntimeRequired(m)
    /\ ~RegionUsed(m.region)
    /\ Changed
    /\ mounts' = mounts \ {m}
    /\ UNCHANGED <<devices, uses, claims, sequence>>

(***************************************************************************)
(* Uses.                                                                   *)
(***************************************************************************)
\* Variant: no free slot is needed.
ReserveUseUnbounded(region, owner, kind) ==
    /\ TakeId
    /\ uses' = uses \cup {[id |-> sequence + 1, owner |-> owner,
                           region |-> region, kind |-> kind]}
    /\ UNCHANGED <<devices, mounts, claims, topology_generation>>

ReserveUse(region, owner, kind) ==
    /\ Cardinality(uses) < MaxUses
    /\ TakeId
    /\ uses' = uses \cup {[id |-> sequence + 1, owner |-> owner,
                           region |-> region, kind |-> kind]}
    /\ UNCHANGED <<devices, mounts, claims, topology_generation>>

BeginUse(m, owner, kind) ==
    /\ ValidRegion(m.region)
    /\ ~RegionClaimed(m.region)
    /\ ReserveUse(m.region, owner, kind)

\* Variant: a raw read ignores claims.
BeginRawReadUnchecked(region, owner) ==
    ValidRegion(region) /\ ReserveUse(region, owner, "raw")

BeginRawRead(region, owner) ==
    /\ ValidRegion(region)
    /\ ~RegionClaimed(region)
    /\ ReserveUse(region, owner, "raw")

EndUse(u) ==
    /\ uses' = uses \ {u}
    /\ UNCHANGED <<devices, mounts, claims, sequence, topology_generation>>

(* A retiring program or thread (task = 0 means every task of the program) *)
(* drops its leases; requests and raw transfers are drained elsewhere.     *)
OwnedBy(u, program, task) == u.owner.program = program /\ task \in {0, u.owner.task}

ReleaseOwnerLeases(program, task) ==
    /\ uses' = {u \in uses : u.kind = "lease" => ~OwnedBy(u, program, task)}
    /\ UNCHANGED <<devices, mounts, claims, sequence, topology_generation>>

(***************************************************************************)
(* Claims.                                                                 *)
(***************************************************************************)
\* Variant: the volumes the running system needs are not protected.
PrepareClaimUnprotected(region, owner) ==
    /\ ValidRegion(region)
    /\ ~RegionUsed(region)
    /\ ~RegionClaimed(region)
    /\ Cardinality(claims) < MaxClaims
    /\ Changed /\ TakeId
    /\ claims' = claims \cup {[id |-> sequence + 1, owner |-> owner,
                               region |-> region, phase |-> "preparing"]}
    /\ UNCHANGED <<devices, mounts, uses>>

PrepareClaim(region, owner) ==
    /\ ValidRegion(region)
    /\ \A m \in mounts : RuntimeRequired(m) => ~Overlaps(m.region, region)
    /\ ~RegionUsed(region)
    /\ ~RegionClaimed(region)
    /\ Cardinality(claims) < MaxClaims
    /\ Changed
    /\ \/ /\ TakeId
          /\ claims' = claims \cup {[id |-> sequence + 1, owner |-> owner,
                                    region |-> region, phase |-> "preparing"]}
       \/ sequence = MaxCounter /\ UNCHANGED <<sequence, claims>>
    /\ UNCHANGED <<devices, mounts, uses>>

SetPhase(c, phase) == claims' = (claims \ {c}) \cup {[c EXCEPT !.phase = phase]}

\* Variant: a claim is activated from any phase.
ActivateClaimAnyPhase(c) ==
    /\ ValidRegion(c.region)
    /\ SetPhase(c, "active")
    /\ UNCHANGED <<devices, mounts, uses, sequence, topology_generation>>

ActivateClaim(c) ==
    /\ ValidRegion(c.region)
    /\ c.phase = "preparing"
    /\ SetPhase(c, "active")
    /\ UNCHANGED <<devices, mounts, uses, sequence, topology_generation>>

BeginClaimIo(c, region) ==
    /\ ValidRegion(c.region)
    /\ c.phase = "active"
    /\ Contains(c.region, region)
    /\ ReserveUse(region, c.owner, "raw")

(* Closes claim I/O first; the Busy answer while uses drain changes        *)
(* nothing more.                                                           *)
FinishClaim(c) ==
    /\ ValidRegion(c.region)
    /\ SetPhase(c, "finishing")
    /\ UNCHANGED <<devices, mounts, uses, sequence, topology_generation>>

ReleaseClaim(c) ==
    /\ ValidRegion(c.region)
    /\ c.phase = "finishing"
    /\ ~RegionUsed(c.region)
    /\ Changed \/ TopologyExhausted
    /\ claims' = claims \ {c}
    /\ UNCHANGED <<devices, mounts, uses, sequence>>

(* scanRecord publishes a rescan of a device's partition table.            *)
TopologyChanged ==
    /\ Changed
    /\ UNCHANGED <<devices, mounts, uses, claims, sequence>>

(***************************************************************************)
(* Callers pass any region of any device incarnation named so far, so      *)
(* stale references, empty and oversized regions are among the inputs.     *)
(***************************************************************************)
Named == [device : [slot : DeviceSlots, generation : 1..sequence],
          first : 0..MaxSectors, count : 0..MaxSectors]

Next ==
    \/ \E slot \in DeviceSlots, n \in 1..MaxSectors : RegisterDevice(slot, n)
    \/ \E d \in devices : BeginRetirement(d) \/ CancelRetirement(d) \/ RetireDevice(d)
    \/ \E slot \in MountSlots, r \in Named : BindMount(slot, r)
    \/ \E m \in mounts : UnbindMount(m)
    \/ \E m \in mounts, o \in Owners, k \in {"request", "lease"} : BeginUse(m, o, k)
    \/ \E r \in Named, o \in Owners : BeginRawRead(r, o)
    \/ \E u \in uses : EndUse(u)
    \/ \E o \in Owners, all \in BOOLEAN :
          ReleaseOwnerLeases(o.program, IF all THEN 0 ELSE o.task)
    \/ \E r \in Named, o \in Owners : PrepareClaim(r, o)
    \/ \E c \in claims : ActivateClaim(c) \/ FinishClaim(c) \/ ReleaseClaim(c)
    \/ \E c \in claims, r \in Named : BeginClaimIo(c, r)
    \/ TopologyChanged

Spec == Init /\ [][Next]_vars

(***************************************************************************)
(* Properties.                                                             *)
(***************************************************************************)

(* Every register holds well-formed entries, and the use and claim tables  *)
(* never exceed max_uses and max_claims.                                   *)
TypeOK ==
    /\ devices \subseteq DeviceRecords
    /\ mounts \subseteq MountRecords
    /\ uses \subseteq UseRecords /\ IsFiniteSet(uses) /\ Cardinality(uses) <= MaxUses
    /\ claims \subseteq ClaimRecords /\ IsFiniteSet(claims) /\ Cardinality(claims) <= MaxClaims
    /\ sequence \in 0..MaxCounter
    /\ topology_generation \in 1..MaxCounter

(* Two claims that exist at the same time share no sector, however their   *)
(* preparation, activation and draining interleave (prepareClaim).         *)
ClaimsDisjoint ==
    \A b, c \in claims : b # c => ~Overlaps(b.region, c.region)

(* While a claim exists, in any phase, the only admitted uses of its       *)
(* sectors are raw transfers of its own owner inside its own region: no    *)
(* file request, lease or foreign raw read overlaps a claim.               *)
ClaimsExclusive ==
    \A c \in claims, u \in uses :
        Overlaps(u.region, c.region) =>
            /\ u.kind = "raw"
            /\ u.owner = c.owner
            /\ Contains(c.region, u.region)

(* A volume the running system depends on (C: or the boot volume) is never *)
(* under a claim, so no raw write can reach it.                            *)
RuntimeProtected ==
    \A m \in mounts, c \in claims : RuntimeRequired(m) => ~Overlaps(m.region, c.region)

(* Nothing outlives its device incarnation: every mount, use and claim     *)
(* lies within a registered device of the same generation that is not      *)
(* retiring, so retirement never pulls a device from under a transfer.     *)
BoundToLiveDevice ==
    /\ \A m \in mounts : ValidRegion(m.region)
    /\ \A u \in uses : ValidRegion(u.region)
    /\ \A c \in claims : ValidRegion(c.region)

(* Handles are unambiguous: a slot names one live entry, and an id that    *)
(* endUse, claimValue or releaseClaim looks up names one use or claim.     *)
HandlesUnique ==
    /\ \A d, e \in devices : d.slot = e.slot => d = e
    /\ \A m, n \in mounts : m.slot = n.slot => m = n
    /\ \A u, v \in uses : u.id = v.id => u = v
    /\ \A b, c \in claims : b.id = c.id => b = c

(* A reference that was issued and has become invalid never becomes valid  *)
(* again: slot reuse, remount and re-registration cannot revive an old     *)
(* device, mount, use or claim handle.                                     *)
NoResurrection ==
    [][/\ \A d \in devices' : d.generation <= sequence => \E e \in devices : RefOf(e) = RefOf(d)
       /\ \A m \in mounts' : m.generation <= sequence => m \in mounts
       /\ \A u \in uses' : u.id <= sequence => u \in uses
       /\ \A c \in claims' : c.id <= sequence => \E b \in claims : b.id = c.id]_vars

(* Draining is monotone: once finishClaim has been called the claim never  *)
(* reopens, no step admits a new use of its sectors, and it disappears     *)
(* only when no admitted use of its sectors is left.                       *)
DrainMonotone ==
    [][\A c \in claims :
         /\ c.phase = "finishing" =>
              /\ \A b \in claims' : b.id = c.id => b = c
              /\ \A u \in uses' : Overlaps(u.region, c.region) => u \in uses
         /\ (\A b \in claims' : b.id # c.id) =>
              c.phase = "finishing" /\ \A u \in uses : ~Overlaps(u.region, c.region)]_vars

(* Whoever read the inventory at generation g may trust it while the       *)
(* generation is still g: devices, mounts and the set of claims change     *)
(* only together with topology_generation.  When that counter is exhausted *)
(* nothing new is published; only a claim may still be released.           *)
TopologyVersioned ==
    [][\/ topology_generation' > topology_generation
       \/ /\ mounts' = mounts
          /\ {RefOf(d) : d \in devices'} = {RefOf(d) : d \in devices}
          /\ \/ {c.id : c \in claims'} = {c.id : c \in claims}
             \/ topology_generation = MaxCounter /\ claims' \subseteq claims]_vars
=============================================================================
