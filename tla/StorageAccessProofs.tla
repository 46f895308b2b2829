------------------------ MODULE StorageAccessProofs ------------------------
(***************************************************************************)
(* Proofs about StorageAccess for every number of devices, mounts, owners  *)
(* and sectors and every counter limit.                                    *)
(***************************************************************************)
EXTENDS StorageAccess, FiniteSetTheorems, TLAPS

(***************************************************************************)
(* Region arithmetic.                                                      *)
(***************************************************************************)

(* Overlaps, written with differences so that first + count is never       *)
(* formed, says that the two regions have a sector of one device in common.*)
THEOREM OverlapsIsSharing ==
    ASSUME NEW a \in Regions, NEW b \in Regions
    PROVE  Overlaps(a, b) <=>
             /\ a.device = b.device
             /\ \E s \in Nat : /\ a.first <= s /\ s < a.first + a.count
                               /\ b.first <= s /\ s < b.first + b.count
<1>1. a.first \in Nat /\ a.count \in Nat /\ b.first \in Nat /\ b.count \in Nat
  BY DEF Regions
<1>2. CASE Overlaps(a, b)
  <2>1. CASE a.first <= b.first
    <3>1. /\ a.first <= b.first /\ b.first < a.first + a.count
          /\ b.first <= b.first /\ b.first < b.first + b.count
      BY <1>1, <1>2, <2>1 DEF Overlaps
    <3> QED BY <1>1, <1>2, <3>1 DEF Overlaps
  <2>2. CASE ~(a.first <= b.first)
    <3>1. /\ a.first <= a.first /\ a.first < a.first + a.count
          /\ b.first <= a.first /\ a.first < b.first + b.count
      BY <1>1, <1>2, <2>2 DEF Overlaps
    <3> QED BY <1>1, <1>2, <3>1 DEF Overlaps
  <2> QED BY <2>1, <2>2
<1>3. ASSUME a.device = b.device,
             NEW s \in Nat, a.first <= s, s < a.first + a.count,
             b.first <= s, s < b.first + b.count
      PROVE  Overlaps(a, b)
  BY <1>1, <1>3 DEF Overlaps
<1> QED BY <1>2, <1>3

(* Overlapping is symmetric.                                               *)
LEMMA OverlapsSym ==
    ASSUME NEW a \in Regions, NEW b \in Regions, Overlaps(a, b)
    PROVE  Overlaps(b, a)
BY DEF Overlaps, Regions

(* What overlaps a part overlaps the whole.                                *)
LEMMA ContainsOverlap ==
    ASSUME NEW outer \in Regions, NEW inner \in Regions, NEW other \in Regions,
           Contains(outer, inner), Overlaps(inner, other)
    PROVE  Overlaps(outer, other)
BY DEF Overlaps, Contains, Regions

(* A part of a valid region is valid.                                      *)
LEMMA ContainsValid ==
    ASSUME devices \subseteq DeviceRecords,
           NEW outer \in Regions, NEW inner \in Regions,
           Contains(outer, inner), ValidRegion(outer)
    PROVE  ValidRegion(inner)
BY DEF ValidRegion, Contains, Regions, DeviceRecords

(* A valid region of a device overlaps the region that is all of it.       *)
LEMMA ValidOverlapsWhole ==
    ASSUME NEW d \in DeviceRecords, NEW r \in Regions,
           r.device = RefOf(d), r.count # 0, r.first < d.sectors
    PROVE  Overlaps(r, WholeDevice(d))
BY DEF Overlaps, WholeDevice, RefOf, Regions, DeviceRecords

(* All of a registered device is a region.                                 *)
LEMMA WholeDeviceType ==
    ASSUME NEW d \in DeviceRecords
    PROVE  WholeDevice(d) \in Regions
BY DEF WholeDevice, RefOf, Regions, DeviceRefs, DeviceRecords

(***************************************************************************)
(* The inductive invariant.  The published invariants are inductive        *)
(* together with the fact that every handle was issued by the counter,     *)
(* which is what makes the next id fresh.                                  *)
(***************************************************************************)

(* No generation or id is ahead of the counter that issues them.           *)
Issued ==
    /\ \A d \in devices : d.generation <= sequence
    /\ \A m \in mounts : m.generation <= sequence
    /\ \A u \in uses : u.id <= sequence
    /\ \A c \in claims : c.id <= sequence

IInv ==
    /\ TypeOK
    /\ Issued
    /\ HandlesUnique
    /\ BoundToLiveDevice
    /\ ClaimsDisjoint
    /\ ClaimsExclusive
    /\ RuntimeProtected

(* The inputs the callers choose are well-formed regions.                  *)
LEMMA NamedType ==
    ASSUME TypeOK
    PROVE  Named \subseteq Regions
<1>1. 1..sequence \subseteq Nat /\ 0..MaxSectors \subseteq Nat
  BY BoundsAssumption DEF TypeOK
<1> QED BY <1>1 DEF Named, Regions, DeviceRefs

(* The empty tables of State satisfy the inductive invariant.              *)
LEMMA InitIInv == Init => IInv
<1> SUFFICES ASSUME Init PROVE IInv
  OBVIOUS
<1>1. TypeOK
  BY FS_EmptySet, BoundsAssumption DEF Init, TypeOK
<1> QED BY <1>1 DEF Init, IInv, Issued, HandlesUnique, BoundToLiveDevice,
             ClaimsDisjoint, ClaimsExclusive, RuntimeProtected

(* Adding one entry to a table with a free slot keeps it finite and within *)
(* its capacity.                                                           *)
LEMMA TableAdd ==
    ASSUME NEW S, NEW x, NEW n \in Nat, IsFiniteSet(S), Cardinality(S) < n
    PROVE  IsFiniteSet(S \cup {x}) /\ Cardinality(S \cup {x}) <= n
<1>1. Cardinality(S) \in Nat
  BY FS_CardinalityType
<1>2. /\ IsFiniteSet(S \cup {x})
      /\ Cardinality(S \cup {x}) = IF x \in S THEN Cardinality(S) ELSE Cardinality(S)+1
  BY FS_AddElement
<1> QED BY <1>1, <1>2

(* Removing entries keeps it so.                                           *)
LEMMA TableShrink ==
    ASSUME NEW S, NEW T \in SUBSET S, NEW n \in Nat, IsFiniteSet(S), Cardinality(S) <= n
    PROVE  IsFiniteSet(T) /\ Cardinality(T) <= n
<1>1. IsFiniteSet(T) /\ Cardinality(T) <= Cardinality(S)
  BY FS_Subset
<1>2. Cardinality(S) \in Nat /\ Cardinality(T) \in Nat
  BY <1>1, FS_CardinalityType
<1> QED BY <1>1, <1>2

(* Replacing an entry keeps it so.                                         *)
LEMMA TableReplace ==
    ASSUME NEW S, NEW y \in S, NEW x, NEW n \in Nat, IsFiniteSet(S), Cardinality(S) <= n
    PROVE  IsFiniteSet((S \ {y}) \cup {x}) /\ Cardinality((S \ {y}) \cup {x}) <= n
<1>1. IsFiniteSet(S \ {y}) /\ Cardinality(S \ {y}) = Cardinality(S) - 1
  BY FS_RemoveElement
<1>2. Cardinality(S) \in Nat /\ Cardinality(S \ {y}) \in Nat
  BY <1>1, FS_CardinalityType
<1>3. Cardinality(S \ {y}) < n
  BY <1>1, <1>2
<1> QED BY <1>1, <1>3, TableAdd

(* Handles stay behind the counter when it advances.                       *)
LEMMA IssuedStays ==
    ASSUME IInv, sequence' \in {sequence, sequence + 1}
    PROVE  /\ \A d \in devices : d.generation <= sequence'
           /\ \A m \in mounts : m.generation <= sequence'
           /\ \A u \in uses : u.id <= sequence'
           /\ \A c \in claims : c.id <= sequence'
<1>1. sequence \in Nat
  BY BoundsAssumption DEF IInv, TypeOK
<1>2. \A d \in devices : d.generation <= sequence'
  BY <1>1 DEF IInv, TypeOK, DeviceRecords, Issued
<1>3. \A m \in mounts : m.generation <= sequence'
  BY <1>1 DEF IInv, TypeOK, MountRecords, Issued
<1>4. \A u \in uses : u.id <= sequence'
  BY <1>1 DEF IInv, TypeOK, UseRecords, Issued
<1>5. \A c \in claims : c.id <= sequence'
  BY <1>1 DEF IInv, TypeOK, ClaimRecords, Issued
<1> QED BY <1>2, <1>3, <1>4, <1>5

(***************************************************************************)
(* Every action preserves the inductive invariant.                         *)
(***************************************************************************)

(* registerDevice, with the counter left for it or not.                    *)
LEMMA RegisterDeviceInv ==
    ASSUME IInv, NEW slot \in DeviceSlots, NEW n \in 1..MaxSectors, RegisterDevice(slot, n)
    PROVE  IInv'
<1> DEFINE e == [slot |-> slot, generation |-> sequence + 1, sectors |-> n, retiring |-> FALSE]
<1>1. UNCHANGED <<mounts, uses, claims>> /\ sequence' = sequence + 1
  BY DEF RegisterDevice, TakeId
<1>2. devices' = devices \cup {e} \/ devices' = devices
  BY DEF RegisterDevice
<1>3. e \in DeviceRecords
  BY BoundsAssumption DEF IInv, TypeOK, DeviceRecords
<1>4. TypeOK'
  <2>1. sequence' \in 0..MaxCounter /\ topology_generation' \in 1..MaxCounter
    BY BoundsAssumption DEF IInv, TypeOK, RegisterDevice, TakeId, Changed, TopologyExhausted
  <2> QED BY <1>1, <1>2, <1>3, <2>1 DEF IInv, TypeOK
<1>5. Issued'
  <2>1. sequence \in Nat
    BY BoundsAssumption DEF IInv, TypeOK
  <2>2. \A d \in devices' : d.generation <= sequence'
    BY <1>1, <1>2, <2>1, IssuedStays DEF IInv, TypeOK, DeviceRecords
  <2> QED BY <1>1, <2>1, <2>2, IssuedStays DEF Issued
<1>6. HandlesUnique'
  <2>1. \A d \in devices : d.slot # e.slot
    BY DEF RegisterDevice
  <2>2. \A d, f \in devices' : d.slot = f.slot => d = f
    <3> HIDE DEF e
    <3> QED BY <1>2, <2>1 DEF IInv, HandlesUnique
  <2> QED BY <1>1, <2>2 DEF IInv, HandlesUnique
<1>7. BoundToLiveDevice'
  BY <1>1, <1>2 DEF IInv, BoundToLiveDevice, ValidRegion
<1>8. ClaimsDisjoint' /\ ClaimsExclusive' /\ RuntimeProtected'
  BY <1>1 DEF IInv, ClaimsDisjoint, ClaimsExclusive, RuntimeProtected, RuntimeRequired
<1> QED BY <1>4, <1>5, <1>6, <1>7, <1>8 DEF IInv

(* The regions the invariant speaks about are well-formed.                 *)
LEMMA RegionTypes ==
    ASSUME IInv
    PROVE  /\ \A m \in mounts : m.region \in Regions
           /\ \A u \in uses : u.region \in Regions
           /\ \A c \in claims : c.region \in Regions
BY DEF IInv, TypeOK, MountRecords, UseRecords, ClaimRecords

(* A device that canRetire has no mount, use or claim on it: whatever is   *)
(* valid on a device overlaps the region that is all of it.                *)
LEMMA Unreferenced ==
    ASSUME IInv, NEW d \in devices, CanRetire(d)
    PROVE  /\ \A m \in mounts : m.region.device # RefOf(d)
           /\ \A u \in uses : u.region.device # RefOf(d)
           /\ \A c \in claims : c.region.device # RefOf(d)
<1>1. d \in DeviceRecords
  BY DEF IInv, TypeOK
<1>2. ASSUME NEW r \in Regions, ValidRegion(r), r.device = RefOf(d)
      PROVE  Overlaps(r, WholeDevice(d))
  <2>1. PICK f \in devices : /\ RefOf(f) = r.device /\ ~f.retiring
                             /\ r.count # 0 /\ r.first < f.sectors
    BY <1>2 DEF ValidRegion
  <2>2. f.slot = d.slot
    BY <1>2, <2>1 DEF RefOf
  <2>3. f = d
    BY <2>2 DEF IInv, HandlesUnique
  <2> QED BY <1>1, <1>2, <2>1, <2>3, ValidOverlapsWhole
<1> QED BY <1>2, RegionTypes DEF IInv, BoundToLiveDevice, CanRetire, RegionUsed, RegionClaimed

(* A step that replaces or removes one device record and leaves every      *)
(* mount, use and claim valid preserves the invariant.                     *)
LEMMA DeviceStepInv ==
    ASSUME IInv, NEW d \in devices,
           \/ devices' = devices \ {d}
           \/ \E b \in BOOLEAN : devices' = (devices \ {d}) \cup {[d EXCEPT !.retiring = b]},
           topology_generation' \in 1..MaxCounter,
           UNCHANGED <<mounts, uses, claims, sequence>>,
           BoundToLiveDevice'
    PROVE  IInv'
<1>1. PICK b \in BOOLEAN : devices' \subseteq (devices \ {d}) \cup {[d EXCEPT !.retiring = b]}
  OBVIOUS
<1> DEFINE f == [d EXCEPT !.retiring = b]
<1>2. f \in DeviceRecords /\ f.slot = d.slot /\ f.generation = d.generation
  BY DEF IInv, TypeOK, DeviceRecords
<1> HIDE DEF f
<1>3. devices' \subseteq (devices \ {d}) \cup {f}
  BY <1>1 DEF f
<1>4. TypeOK'
  BY <1>2, <1>3 DEF IInv, TypeOK
<1>5. Issued'
  BY <1>2, <1>3 DEF IInv, Issued
<1>6. HandlesUnique'
  <2>1. \A x, y \in devices' : x.slot = y.slot => x = y
    BY <1>2, <1>3 DEF IInv, HandlesUnique
  <2> QED BY <2>1 DEF IInv, HandlesUnique
<1>7. ClaimsDisjoint' /\ ClaimsExclusive' /\ RuntimeProtected'
  BY DEF IInv, ClaimsDisjoint, ClaimsExclusive, RuntimeProtected, RuntimeRequired
<1> QED BY <1>4, <1>5, <1>6, <1>7 DEF IInv

(* beginRetirement, cancelRetirement and retireDevice.                     *)
LEMMA RetirementInv ==
    ASSUME IInv, NEW d \in devices,
           BeginRetirement(d) \/ CancelRetirement(d) \/ RetireDevice(d)
    PROVE  IInv'
<1>1. topology_generation' \in 1..MaxCounter
  BY BoundsAssumption DEF IInv, TypeOK, BeginRetirement, CancelRetirement, RetireDevice, Changed
<1>2. UNCHANGED <<mounts, uses, claims, sequence>>
  BY DEF BeginRetirement, CancelRetirement, RetireDevice
<1>3. ASSUME NEW r, ValidRegion(r), r.device # RefOf(d) \/ d.retiring
      PROVE  ValidRegion(r)'
  <2>1. PICK e \in devices : /\ RefOf(e) = r.device /\ ~e.retiring /\ r.count # 0
                             /\ r.first < e.sectors /\ r.count <= e.sectors - r.first
    BY <1>3 DEF ValidRegion
  <2>2. e # d
    BY <1>3, <2>1
  <2>3. e \in devices'
    BY <2>2 DEF BeginRetirement, CancelRetirement, RetireDevice
  <2> QED BY <2>1, <2>3 DEF ValidRegion
<1>4. BoundToLiveDevice'
  <2>1. CASE CanRetire(d)
    BY <1>2, <1>3, <2>1, Unreferenced DEF IInv, BoundToLiveDevice
  <2>2. CASE d.retiring
    BY <1>2, <1>3, <2>2 DEF IInv, BoundToLiveDevice
  <2> QED BY <2>1, <2>2 DEF BeginRetirement, CancelRetirement, RetireDevice
<1>5. \/ devices' = devices \ {d}
      \/ \E b \in BOOLEAN : devices' = (devices \ {d}) \cup {[d EXCEPT !.retiring = b]}
  BY DEF BeginRetirement, CancelRetirement, RetireDevice
<1> QED BY <1>1, <1>2, <1>4, <1>5, DeviceStepInv

(* bindMount.                                                              *)
LEMMA BindMountInv ==
    ASSUME IInv, NEW slot \in MountSlots, NEW r \in Named, BindMount(slot, r)
    PROVE  IInv'
<1> DEFINE m == [slot |-> slot, generation |-> sequence + 1, region |-> r]
<1>1. UNCHANGED <<devices, uses, claims>> /\ sequence' = sequence + 1
  BY DEF BindMount, TakeId
<1>2. mounts' \subseteq mounts \cup {m}
  BY DEF BindMount
<1>3. sequence \in Nat
  BY BoundsAssumption DEF IInv, TypeOK
<1>4. m \in MountRecords /\ m.slot = slot /\ m.region = r /\ m.generation = sequence + 1
  BY <1>3, NamedType DEF IInv, MountRecords
<1> HIDE DEF m
<1>5. TypeOK'
  <2>1. sequence' \in 0..MaxCounter /\ topology_generation' \in 1..MaxCounter
    BY BoundsAssumption DEF IInv, TypeOK, BindMount, TakeId, Changed, TopologyExhausted
  <2> QED BY <1>1, <1>2, <1>4, <2>1 DEF IInv, TypeOK
<1>6. Issued'
  <2>1. \A n \in mounts' : n.generation <= sequence'
    BY <1>1, <1>2, <1>3, <1>4, IssuedStays
  <2> QED BY <1>1, <2>1, IssuedStays DEF Issued
<1>7. HandlesUnique'
  <2>1. \A n \in mounts : n.slot # slot
    BY DEF BindMount
  <2>2. \A n, o \in mounts' : n.slot = o.slot => n = o
    BY <1>2, <1>4, <2>1 DEF IInv, HandlesUnique
  <2> QED BY <1>1, <2>2 DEF IInv, HandlesUnique
<1>8. BoundToLiveDevice'
  <2>1. \A n \in mounts' : ValidRegion(n.region)
    BY <1>2, <1>4 DEF IInv, BoundToLiveDevice, BindMount
  <2> QED BY <1>1, <2>1 DEF IInv, BoundToLiveDevice, ValidRegion
<1>9. ClaimsDisjoint' /\ ClaimsExclusive'
  BY <1>1 DEF IInv, ClaimsDisjoint, ClaimsExclusive
<1>10. RuntimeProtected'
  <2>1. RuntimeRequired(m) => claims = {}
    BY <1>4 DEF BindMount, RuntimeRequired
  <2> QED BY <1>1, <1>2, <2>1 DEF IInv, RuntimeProtected, RuntimeRequired
<1> QED BY <1>5, <1>6, <1>7, <1>8, <1>9, <1>10 DEF IInv

(* Dropping mounts, uses or claims never hurts.                            *)
LEMMA ShrinkInv ==
    ASSUME IInv, mounts' \subseteq mounts, uses' \subseteq uses, claims' \subseteq claims,
           UNCHANGED <<devices, sequence>>, topology_generation' \in 1..MaxCounter
    PROVE  IInv'
<1>1. TypeOK'
  BY TableShrink, BoundsAssumption DEF IInv, TypeOK
<1>2. Issued'
  BY DEF IInv, Issued
<1>3. HandlesUnique'
  BY DEF IInv, HandlesUnique
<1>4. BoundToLiveDevice'
  BY DEF IInv, BoundToLiveDevice, ValidRegion
<1>5. ClaimsDisjoint'
  BY DEF IInv, ClaimsDisjoint
<1>6. ClaimsExclusive'
  BY DEF IInv, ClaimsExclusive
<1>7. RuntimeProtected'
  BY DEF IInv, RuntimeProtected, RuntimeRequired
<1> QED BY <1>1, <1>2, <1>3, <1>4, <1>5, <1>6, <1>7 DEF IInv

(* A use may be admitted when its region is valid and every claim it       *)
(* overlaps belongs to the same owner and contains it.                     *)
LEMMA ReserveUseInv ==
    ASSUME IInv, NEW r \in Regions, NEW o \in Owners, NEW k \in UseKinds,
           ReserveUse(r, o, k), ValidRegion(r),
           \A c \in claims : Overlaps(r, c.region) =>
               k = "raw" /\ o = c.owner /\ Contains(c.region, r)
    PROVE  IInv'
<1> DEFINE v == [id |-> sequence + 1, owner |-> o, region |-> r, kind |-> k]
<1>1. UNCHANGED <<devices, mounts, claims, topology_generation>> /\ sequence' = sequence + 1
  BY DEF ReserveUse, TakeId
<1>2. uses' = uses \cup {v}
  BY DEF ReserveUse
<1>3. sequence \in Nat
  BY BoundsAssumption DEF IInv, TypeOK
<1>4. v \in UseRecords /\ v.id = sequence + 1 /\ v.owner = o /\ v.region = r /\ v.kind = k
  BY <1>3 DEF UseRecords
<1> HIDE DEF v
<1>5. TypeOK'
  <2>1. IsFiniteSet(uses') /\ Cardinality(uses') <= MaxUses
    <3>1. IsFiniteSet(uses) /\ Cardinality(uses) < MaxUses /\ MaxUses \in Nat
      BY BoundsAssumption DEF IInv, TypeOK, ReserveUse
    <3> QED BY <1>2, <3>1, TableAdd
  <2>2. sequence' \in 0..MaxCounter
    BY BoundsAssumption DEF IInv, TypeOK, ReserveUse, TakeId
  <2> QED BY <1>1, <1>2, <1>4, <2>1, <2>2 DEF IInv, TypeOK
<1>6. Issued'
  <2>1. \A u \in uses' : u.id <= sequence'
    BY <1>1, <1>2, <1>3, <1>4, IssuedStays
  <2> QED BY <1>1, <2>1, IssuedStays DEF Issued
<1>7. HandlesUnique'
  <2>1. \A u \in uses : u.id # v.id
    <3> SUFFICES ASSUME NEW u \in uses PROVE u.id # v.id
      OBVIOUS
    <3>1. u.id \in Nat
      BY DEF IInv, TypeOK, UseRecords
    <3>2. u.id <= sequence
      BY DEF IInv, Issued
    <3> QED BY <1>3, <1>4, <3>1, <3>2
  <2>2. \A u, w \in uses' : u.id = w.id => u = w
    BY <1>2, <2>1 DEF IInv, HandlesUnique
  <2> QED BY <1>1, <2>2 DEF IInv, HandlesUnique
<1>8. BoundToLiveDevice'
  BY <1>1, <1>2, <1>4 DEF IInv, BoundToLiveDevice, ValidRegion
<1>9. ClaimsExclusive'
  BY <1>1, <1>2, <1>4 DEF IInv, ClaimsExclusive
<1>10. ClaimsDisjoint' /\ RuntimeProtected'
  BY <1>1 DEF IInv, ClaimsDisjoint, RuntimeProtected, RuntimeRequired
<1> QED BY <1>5, <1>6, <1>7, <1>8, <1>9, <1>10 DEF IInv

(* beginUse, beginRawRead and beginClaimIo admit only what ReserveUseInv   *)
(* allows.                                                                 *)
LEMMA UseInv ==
    ASSUME IInv,
           \/ \E m \in mounts, o \in Owners, k \in {"request", "lease"} : BeginUse(m, o, k)
           \/ \E r \in Named, o \in Owners : BeginRawRead(r, o)
           \/ \E c \in claims, r \in Named : BeginClaimIo(c, r)
    PROVE  IInv'
<1>1. ASSUME NEW r \in Regions, ~RegionClaimed(r), NEW c \in claims
      PROVE  ~Overlaps(r, c.region)
  BY <1>1, OverlapsSym, RegionTypes DEF RegionClaimed
<1>2. ASSUME NEW m \in mounts, NEW o \in Owners, NEW k \in {"request", "lease"},
             BeginUse(m, o, k)
      PROVE  IInv'
  BY <1>1, <1>2, RegionTypes, ReserveUseInv DEF BeginUse, UseKinds
<1>3. ASSUME NEW r \in Named, NEW o \in Owners, BeginRawRead(r, o)
      PROVE  IInv'
  <2>1. r \in Regions
    BY NamedType DEF IInv
  <2> QED BY <1>1, <1>3, <2>1, ReserveUseInv DEF BeginRawRead, UseKinds
<1>4. ASSUME NEW c \in claims, NEW r \in Named, BeginClaimIo(c, r)
      PROVE  IInv'
  <2>1. r \in Regions /\ c.region \in Regions /\ c.owner \in Owners
    BY NamedType DEF IInv, TypeOK, ClaimRecords
  <2>2. Contains(c.region, r) /\ ValidRegion(c.region) /\ ReserveUse(r, c.owner, "raw")
    BY <1>4 DEF BeginClaimIo
  <2>3. ValidRegion(r)
    BY <2>1, <2>2, ContainsValid DEF IInv, TypeOK
  <2>4. \A b \in claims : Overlaps(r, b.region) => b = c
    BY <2>1, <2>2, ContainsOverlap, RegionTypes DEF IInv, ClaimsDisjoint
  <2> QED BY <2>1, <2>2, <2>3, <2>4, ReserveUseInv DEF UseKinds
<1> QED BY <1>2, <1>3, <1>4

(* prepareClaim, with an id left for it or not.                            *)
LEMMA PrepareClaimInv ==
    ASSUME IInv, NEW r \in Named, NEW o \in Owners, PrepareClaim(r, o)
    PROVE  IInv'
<1> DEFINE b == [id |-> sequence + 1, owner |-> o, region |-> r, phase |-> "preparing"]
<1>1. UNCHANGED <<devices, mounts, uses>>
  BY DEF PrepareClaim
<1>2. topology_generation' \in 1..MaxCounter
  BY BoundsAssumption DEF IInv, TypeOK, PrepareClaim, Changed
<1>3. CASE UNCHANGED <<sequence, claims>>
  BY <1>1, <1>2, <1>3, ShrinkInv
<1>4. CASE TakeId /\ claims' = claims \cup {b}
  <2>1. sequence \in Nat /\ sequence' = sequence + 1 /\ sequence' \in 0..MaxCounter
    BY <1>4, BoundsAssumption DEF IInv, TypeOK, TakeId
  <2>2. /\ b \in ClaimRecords /\ b.id = sequence + 1 /\ b.region = r
        /\ r \in Regions
    BY <2>1, NamedType DEF IInv, ClaimRecords, Phases
  <2> HIDE DEF b
  <2>3. claims' = claims \cup {b}
    BY <1>4
  <2>4. TypeOK'
    <3>1. IsFiniteSet(claims') /\ Cardinality(claims') <= MaxClaims
      BY <2>3, TableAdd, BoundsAssumption DEF IInv, TypeOK, PrepareClaim
    <3> QED BY <1>1, <1>2, <2>1, <2>2, <2>3, <3>1 DEF IInv, TypeOK
  <2>5. Issued'
    <3>1. \A c \in claims' : c.id <= sequence'
      BY <2>1, <2>2, <2>3, IssuedStays
    <3> QED BY <1>1, <2>1, <3>1, IssuedStays DEF Issued
  <2>6. HandlesUnique'
    <3>1. ASSUME NEW c \in claims PROVE c.id # b.id
      <4>1. c.id \in Nat
        BY DEF IInv, TypeOK, ClaimRecords
      <4>2. c.id <= sequence
        BY DEF IInv, Issued
      <4> QED BY <2>1, <2>2, <4>1, <4>2
    <3>2. \A c, e \in claims' : c.id = e.id => c = e
      BY <2>3, <3>1 DEF IInv, HandlesUnique
    <3> QED BY <1>1, <3>2 DEF IInv, HandlesUnique
  <2>7. BoundToLiveDevice'
    BY <1>1, <2>2, <2>3 DEF IInv, BoundToLiveDevice, ValidRegion, PrepareClaim
  <2>8. ClaimsDisjoint'
    BY <2>2, <2>3, OverlapsSym, RegionTypes DEF IInv, ClaimsDisjoint, PrepareClaim, RegionClaimed
  <2>9. ClaimsExclusive'
    BY <1>1, <2>2, <2>3 DEF IInv, ClaimsExclusive, PrepareClaim, RegionUsed
  <2>10. RuntimeProtected'
    BY <1>1, <2>2, <2>3 DEF IInv, RuntimeProtected, RuntimeRequired, PrepareClaim
  <2> QED BY <2>4, <2>5, <2>6, <2>7, <2>8, <2>9, <2>10 DEF IInv
<1> QED BY <1>3, <1>4 DEF PrepareClaim

(* Changing the phase of a claim keeps its id, owner and region.           *)
LEMMA SetPhaseInv ==
    ASSUME IInv, NEW c \in claims, NEW p \in Phases, SetPhase(c, p),
           UNCHANGED <<devices, mounts, uses, sequence, topology_generation>>
    PROVE  IInv'
<1> DEFINE b == [c EXCEPT !.phase = p]
<1>1. b \in ClaimRecords /\ b.id = c.id /\ b.owner = c.owner /\ b.region = c.region
  BY DEF IInv, TypeOK, ClaimRecords
<1> HIDE DEF b
<1>2. claims' = (claims \ {c}) \cup {b}
  BY DEF SetPhase, b
<1>3. TypeOK'
  BY <1>1, <1>2, TableReplace, BoundsAssumption DEF IInv, TypeOK
<1>4. Issued'
  BY <1>1, <1>2 DEF IInv, Issued
<1>5. HandlesUnique'
  <2>1. \A d, e \in claims' : d.id = e.id => d = e
    BY <1>1, <1>2 DEF IInv, HandlesUnique
  <2> QED BY <2>1 DEF IInv, HandlesUnique
<1>6. BoundToLiveDevice'
  BY <1>1, <1>2 DEF IInv, BoundToLiveDevice, ValidRegion
<1>7. ClaimsDisjoint'
  BY <1>1, <1>2 DEF IInv, ClaimsDisjoint
<1>8. ClaimsExclusive'
  BY <1>1, <1>2 DEF IInv, ClaimsExclusive
<1>9. RuntimeProtected'
  BY <1>1, <1>2 DEF IInv, RuntimeProtected, RuntimeRequired
<1> QED BY <1>3, <1>4, <1>5, <1>6, <1>7, <1>8, <1>9 DEF IInv

(* Every call preserves the inductive invariant.                           *)
LEMMA NextIInv == IInv /\ [Next]_vars => IInv'
<1> SUFFICES ASSUME IInv, [Next]_vars PROVE IInv'
  OBVIOUS
<1>0. topology_generation \in 1..MaxCounter /\ (Changed => topology_generation' \in 1..MaxCounter)
  BY BoundsAssumption DEF IInv, TypeOK, Changed
<1>1. ASSUME NEW slot \in DeviceSlots, NEW n \in 1..MaxSectors, RegisterDevice(slot, n)
      PROVE  IInv'
  BY <1>1, RegisterDeviceInv
<1>2. ASSUME NEW d \in devices, BeginRetirement(d) \/ CancelRetirement(d) \/ RetireDevice(d)
      PROVE  IInv'
  BY <1>2, RetirementInv
<1>3. ASSUME NEW slot \in MountSlots, NEW r \in Named, BindMount(slot, r)
      PROVE  IInv'
  BY <1>3, BindMountInv
<1>4. ASSUME NEW m \in mounts, UnbindMount(m)
      PROVE  IInv'
  BY <1>0, <1>4, ShrinkInv DEF UnbindMount
<1>5. ASSUME \/ \E m \in mounts, o \in Owners, k \in {"request", "lease"} : BeginUse(m, o, k)
             \/ \E r \in Named, o \in Owners : BeginRawRead(r, o)
             \/ \E c \in claims, r \in Named : BeginClaimIo(c, r)
      PROVE  IInv'
  BY <1>5, UseInv
<1>6. ASSUME NEW u \in uses, EndUse(u)
      PROVE  IInv'
  BY <1>0, <1>6, ShrinkInv DEF EndUse
<1>7. ASSUME NEW program, NEW task, ReleaseOwnerLeases(program, task)
      PROVE  IInv'
  BY <1>0, <1>7, ShrinkInv DEF ReleaseOwnerLeases
<1>8. ASSUME NEW r \in Named, NEW o \in Owners, PrepareClaim(r, o)
      PROVE  IInv'
  BY <1>8, PrepareClaimInv
<1>9. ASSUME NEW c \in claims, ActivateClaim(c) \/ FinishClaim(c)
      PROVE  IInv'
  BY <1>9, SetPhaseInv DEF ActivateClaim, FinishClaim, Phases
<1>10. ASSUME NEW c \in claims, ReleaseClaim(c)
       PROVE  IInv'
  BY <1>0, <1>10, ShrinkInv DEF ReleaseClaim, TopologyExhausted
<1>11. CASE TopologyChanged
  BY <1>0, <1>11, ShrinkInv DEF TopologyChanged
<1>12. CASE UNCHANGED vars
  BY <1>0, <1>12, ShrinkInv DEF vars
<1> QED BY <1>1, <1>2, <1>3, <1>4, <1>5, <1>6, <1>7, <1>8, <1>9, <1>10, <1>11, <1>12 DEF Next

(* The admission state keeps its shape and its table bounds for every      *)
(* sequence of calls.                                                      *)
THEOREM TypeCorrect == Spec => []TypeOK
<1>1. IInv => TypeOK
  BY DEF IInv
<1> QED BY InitIInv, NextIInv, <1>1, PTL DEF Spec

(* Claims are exclusive: no two overlap, only the owner's own raw          *)
(* transfers touch a claimed sector, and no claim reaches a volume the     *)
(* running system depends on.                                              *)
THEOREM Exclusion == Spec => [](ClaimsDisjoint /\ ClaimsExclusive /\ RuntimeProtected)
<1>1. IInv => ClaimsDisjoint /\ ClaimsExclusive /\ RuntimeProtected
  BY DEF IInv
<1> QED BY InitIInv, NextIInv, <1>1, PTL DEF Spec

(* A device cannot be retired from under a mount, a use or a claim.        *)
THEOREM RetirementSafe == Spec => []BoundToLiveDevice
<1>1. IInv => BoundToLiveDevice
  BY DEF IInv
<1> QED BY InitIInv, NextIInv, <1>1, PTL DEF Spec

(* Every live handle names one entry.                                      *)
THEOREM HandlesUnambiguous == Spec => []HandlesUnique
<1>1. IInv => HandlesUnique
  BY DEF IInv
<1> QED BY InitIInv, NextIInv, <1>1, PTL DEF Spec

(***************************************************************************)
(* What a step may never do.                                               *)
(***************************************************************************)

(* Whatever a step adds to a table carries the next id; everything else in *)
(* it, by handle, was there before.                                        *)
LEMMA StepResurrection ==
    ASSUME IInv, [Next]_vars
    PROVE  /\ \A d \in devices' : d.generation <= sequence => \E e \in devices : RefOf(e) = RefOf(d)
           /\ \A m \in mounts' : m.generation <= sequence => m \in mounts
           /\ \A u \in uses' : u.id <= sequence => u \in uses
           /\ \A c \in claims' : c.id <= sequence => \E b \in claims : b.id = c.id
<1>0. sequence \in Nat /\ ~(sequence + 1 <= sequence)
  BY BoundsAssumption DEF IInv, TypeOK
<1>1. ASSUME NEW d \in devices', d.generation <= sequence
      PROVE  \E e \in devices : RefOf(e) = RefOf(d)
  <2>1. CASE \E slot \in DeviceSlots, n \in 1..MaxSectors : RegisterDevice(slot, n)
    BY <1>0, <1>1, <2>1 DEF RegisterDevice
  <2>2. ASSUME NEW f \in devices, BeginRetirement(f) \/ CancelRetirement(f) \/ RetireDevice(f)
        PROVE  \E e \in devices : RefOf(e) = RefOf(d)
    <3>1. d \in devices \/ \E b \in BOOLEAN : d = [f EXCEPT !.retiring = b]
      BY <1>1, <2>2 DEF BeginRetirement, CancelRetirement, RetireDevice
    <3>2. \A b \in BOOLEAN : RefOf([f EXCEPT !.retiring = b]) = RefOf(f)
      BY DEF IInv, TypeOK, DeviceRecords, RefOf
    <3> QED BY <3>1, <3>2
  <2>3. CASE devices' = devices
    BY <1>1, <2>3
  <2> QED BY <2>1, <2>2, <2>3 DEF Next, vars, BindMount, UnbindMount, BeginUse, BeginRawRead,
        ReserveUse, EndUse, ReleaseOwnerLeases, PrepareClaim, ActivateClaim, FinishClaim,
        ReleaseClaim, BeginClaimIo, TopologyChanged
<1>2. ASSUME NEW m \in mounts', m.generation <= sequence
      PROVE  m \in mounts
  <2>1. CASE \E slot \in MountSlots, r \in Named : BindMount(slot, r)
    BY <1>0, <1>2, <2>1 DEF BindMount
  <2>2. CASE mounts' \subseteq mounts
    BY <1>2, <2>2
  <2> QED BY <2>1, <2>2 DEF Next, vars, RegisterDevice, BeginRetirement, CancelRetirement,
        RetireDevice, UnbindMount, BeginUse, BeginRawRead, ReserveUse, EndUse,
        ReleaseOwnerLeases, PrepareClaim, ActivateClaim, FinishClaim, ReleaseClaim,
        BeginClaimIo, TopologyChanged
<1>3. ASSUME NEW u \in uses', u.id <= sequence
      PROVE  u \in uses
  <2>1. CASE \E r, o, k : ReserveUse(r, o, k)
    BY <1>0, <1>3, <2>1 DEF ReserveUse
  <2>2. CASE uses' \subseteq uses
    BY <1>3, <2>2
  <2> QED BY <2>1, <2>2 DEF Next, vars, RegisterDevice, BeginRetirement, CancelRetirement,
        RetireDevice, BindMount, UnbindMount, BeginUse, BeginRawRead, EndUse,
        ReleaseOwnerLeases, PrepareClaim, ActivateClaim, FinishClaim, ReleaseClaim,
        BeginClaimIo, TopologyChanged
<1>4. ASSUME NEW c \in claims', c.id <= sequence
      PROVE  \E b \in claims : b.id = c.id
  <2>1. CASE \E r \in Named, o \in Owners : PrepareClaim(r, o)
    BY <1>0, <1>4, <2>1 DEF PrepareClaim
  <2>2. ASSUME NEW b \in claims, NEW p \in Phases, SetPhase(b, p)
        PROVE  \E a \in claims : a.id = c.id
    <3>1. [b EXCEPT !.phase = p].id = b.id
      BY DEF IInv, TypeOK, ClaimRecords
    <3> QED BY <1>4, <2>2, <3>1 DEF SetPhase
  <2>3. CASE claims' \subseteq claims
    BY <1>4, <2>3
  <2> QED BY <2>1, <2>2, <2>3 DEF Next, vars, RegisterDevice, BeginRetirement,
        CancelRetirement, RetireDevice, BindMount, UnbindMount, BeginUse, BeginRawRead,
        ReserveUse, EndUse, ReleaseOwnerLeases, ActivateClaim, FinishClaim, ReleaseClaim,
        BeginClaimIo, TopologyChanged, Phases
<1> QED BY <1>1, <1>2, <1>3, <1>4

(* A handle that has become invalid stays invalid: the ids are handed out  *)
(* by one counter, and only the next one is ever added to a table.         *)
THEOREM HandlesNotRevived == Spec => NoResurrection
BY InitIInv, NextIInv, StepResurrection, PTL DEF Spec, NoResurrection

(* What DrainMonotone says of one claim and one step.                      *)
Drains(c) ==
    /\ c.phase = "finishing" =>
         /\ \A b \in claims' : b.id = c.id => b = c
         /\ \A u \in uses' : Overlaps(u.region, c.region) => u \in uses
    /\ (\A b \in claims' : b.id # c.id) =>
         c.phase = "finishing" /\ \A u \in uses : ~Overlaps(u.region, c.region)

(* Every step respects the draining of every claim.  A new use lies where  *)
(* no claim is, or inside an active one, which no finishing one overlaps.  *)
LEMMA StepDrains ==
    ASSUME IInv, [Next]_vars, NEW c \in claims
    PROVE  Drains(c)
<1>1. c.id \in Nat /\ c.id <= sequence /\ sequence \in Nat /\ c.region \in Regions
  BY BoundsAssumption DEF IInv, TypeOK, ClaimRecords, Issued
<1>2. \A b \in claims : b.id = c.id => b = c
  BY DEF IInv, HandlesUnique
<1>3. CASE claims' = claims /\ uses' \subseteq uses
  BY <1>2, <1>3 DEF Drains
<1>4. ASSUME claims' = claims, NEW r \in Regions, NEW o, NEW k, ReserveUse(r, o, k),
             c.phase = "finishing" => ~Overlaps(r, c.region)
      PROVE  Drains(c)
  <2>1. uses' = uses \cup {[id |-> sequence + 1, owner |-> o, region |-> r, kind |-> k]}
    BY <1>4 DEF ReserveUse
  <2> QED BY <1>2, <1>4, <2>1 DEF Drains
<1>5. ASSUME NEW r \in Regions, ~RegionClaimed(r)
      PROVE  ~Overlaps(r, c.region)
  BY <1>1, <1>5, OverlapsSym DEF RegionClaimed
<1>6. ASSUME NEW m \in mounts, NEW o \in Owners, NEW k \in {"request", "lease"}, BeginUse(m, o, k)
      PROVE  Drains(c)
  <2>1. m.region \in Regions /\ claims' = claims
    BY <1>6, RegionTypes DEF BeginUse, ReserveUse
  <2> QED BY <1>4, <1>5, <1>6, <2>1 DEF BeginUse
<1>7. ASSUME NEW r \in Named, NEW o \in Owners, BeginRawRead(r, o)
      PROVE  Drains(c)
  <2>1. r \in Regions /\ claims' = claims
    BY <1>7, NamedType DEF IInv, BeginRawRead, ReserveUse
  <2> QED BY <1>4, <1>5, <1>7, <2>1 DEF BeginRawRead
<1>8. ASSUME NEW b \in claims, NEW r \in Named, BeginClaimIo(b, r)
      PROVE  Drains(c)
  <2>1. r \in Regions /\ b.region \in Regions /\ claims' = claims
    BY <1>8, NamedType, RegionTypes DEF IInv, BeginClaimIo, ReserveUse
  <2>2. b.phase = "active" /\ Contains(b.region, r) /\ ReserveUse(r, b.owner, "raw")
    BY <1>8 DEF BeginClaimIo
  <2>3. c.phase = "finishing" => ~Overlaps(r, c.region)
    BY <1>1, <2>1, <2>2, ContainsOverlap DEF IInv, ClaimsDisjoint
  <2> QED BY <1>4, <2>1, <2>2, <2>3
<1>9. ASSUME NEW r \in Named, NEW o \in Owners, PrepareClaim(r, o)
      PROVE  Drains(c)
  <2>1. uses' = uses
    BY <1>9 DEF PrepareClaim
  <2>2. claims \subseteq claims' /\ \A b \in claims' : b \in claims \/ b.id = sequence + 1
    BY <1>9 DEF PrepareClaim
  <2> QED BY <1>1, <1>2, <2>1, <2>2 DEF Drains
<1>10. ASSUME NEW b \in claims, ActivateClaim(b) \/ FinishClaim(b)
       PROVE  Drains(c)
  <2>1. PICK p \in Phases : /\ SetPhase(b, p) /\ uses' = uses
                            /\ b.phase = "finishing" => p = "finishing"
    BY <1>10 DEF ActivateClaim, FinishClaim, Phases
  <2> DEFINE a == [b EXCEPT !.phase = p]
  <2>2. a.id = b.id /\ (b.phase = "finishing" => a = b)
    BY <2>1 DEF IInv, TypeOK, ClaimRecords
  <2>3. claims' = (claims \ {b}) \cup {a}
    BY <2>1 DEF SetPhase
  <2> HIDE DEF a
  <2> QED BY <1>2, <2>1, <2>2, <2>3 DEF Drains
<1>11. ASSUME NEW b \in claims, ReleaseClaim(b)
       PROVE  Drains(c)
  BY <1>2, <1>11 DEF ReleaseClaim, RegionUsed, Drains
<1> QED BY <1>3, <1>6, <1>7, <1>8, <1>9, <1>10, <1>11 DEF Next, vars, RegisterDevice,
      BeginRetirement, CancelRetirement, RetireDevice, BindMount, UnbindMount, EndUse,
      ReleaseOwnerLeases, TopologyChanged

(* Once finishClaim has been called, the claim never reopens, nothing new  *)
(* is admitted to its sectors, and it is released only when they are quiet.*)
THEOREM DrainingIsFinal == Spec => DrainMonotone
<1>1. IInv /\ [Next]_vars => \A c \in claims : Drains(c)
  BY StepDrains
<1> QED BY InitIInv, NextIInv, <1>1, PTL DEF Spec, DrainMonotone, Drains

(* What TopologyVersioned says of one step.                                *)
Versioned ==
    \/ topology_generation' > topology_generation
    \/ /\ mounts' = mounts
       /\ {RefOf(d) : d \in devices'} = {RefOf(d) : d \in devices}
       /\ \/ {c.id : c \in claims'} = {c.id : c \in claims}
          \/ topology_generation = MaxCounter /\ claims' \subseteq claims

(* Every step either advances the inventory version or leaves what the     *)
(* inventory shows.                                                        *)
LEMMA StepVersioned ==
    ASSUME IInv, [Next]_vars
    PROVE  Versioned
<1>1. topology_generation \in Nat
  BY BoundsAssumption DEF IInv, TypeOK
<1>2. CASE Changed
  BY <1>1, <1>2 DEF Changed, Versioned
<1>3. CASE UNCHANGED <<devices, mounts, claims>>
  BY <1>3 DEF Versioned
<1>4. ASSUME NEW d \in devices, BeginRetirement(d) \/ CancelRetirement(d)
      PROVE  Versioned
  <2>1. PICK b \in BOOLEAN : devices' = (devices \ {d}) \cup {[d EXCEPT !.retiring = b]}
    BY <1>4 DEF BeginRetirement, CancelRetirement
  <2>2. RefOf([d EXCEPT !.retiring = b]) = RefOf(d)
    BY DEF IInv, TypeOK, DeviceRecords, RefOf
  <2>3. {RefOf(e) : e \in devices'} = {RefOf(e) : e \in devices}
    BY <2>1, <2>2
  <2> QED BY <1>4, <2>3 DEF BeginRetirement, CancelRetirement, Versioned
<1>5. ASSUME NEW c \in claims, ActivateClaim(c) \/ FinishClaim(c)
      PROVE  Versioned
  <2>1. PICK p \in Phases : SetPhase(c, p)
    BY <1>5 DEF ActivateClaim, FinishClaim, Phases
  <2>2. [c EXCEPT !.phase = p].id = c.id
    BY DEF IInv, TypeOK, ClaimRecords
  <2>3. {b.id : b \in claims'} = {b.id : b \in claims}
    BY <2>1, <2>2 DEF SetPhase
  <2> QED BY <1>5, <2>3 DEF ActivateClaim, FinishClaim, Versioned
<1>6. ASSUME NEW c \in claims, ReleaseClaim(c)
      PROVE  Versioned
  BY <1>2, <1>6 DEF ReleaseClaim, TopologyExhausted, Versioned
<1> QED BY <1>2, <1>3, <1>4, <1>5, <1>6 DEF Next, vars, RegisterDevice, RetireDevice,
      BindMount, UnbindMount, BeginUse, BeginRawRead, ReserveUse, EndUse,
      ReleaseOwnerLeases, PrepareClaim, BeginClaimIo, TopologyChanged

(* An inventory read at a generation is valid while the generation lasts.  *)
THEOREM InventoryVersioned == Spec => TopologyVersioned
BY InitIInv, NextIInv, StepVersioned, PTL DEF Spec, TopologyVersioned, Versioned
=============================================================================
