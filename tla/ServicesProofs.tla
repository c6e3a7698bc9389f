--------------------------- MODULE ServicesProofs ---------------------------
(***************************************************************************)
(* The storage, network and device services, for any number of callers and *)
(* of whatever they work on.                                               *)
(***************************************************************************)
EXTENDS Storage, Network, Dhcp, Devices, FiniteSetTheorems, TLAPS

-----------------------------------------------------------------------------
(* Devices.                                                                *)

----
\* What the pool keeps of a device.
DvRecords == [vm : Int, driver : {"host", "vfio-pci", "none"}]

\* The inductive invariant: the devices of the sysfs driver are the kernel's.
DvInv ==
    /\ sysfs \in BOOLEAN
    /\ sysfs => DOMAIN devices \subseteq PciDevices
    /\ kernel = [d \in PciDevices |-> kernel[d]]
    /\ devices \in [DOMAIN devices -> DvRecords]

\* A scan of the host, or the built-in devices without one.
LEMMA DvInitInv == DvInit => DvInv
  <1> SUFFICES ASSUME DvInit PROVE DvInv
    OBVIOUS
  <1>1. CASE sysfs
    <2>1. PICK S \in SUBSET PciDevices : devices = scan(S)
      BY <1>1, Zenon DEF DvInit
    <2> QED
      BY <1>1, <2>1 DEF DvInit, DvInv, DvRecords, scan, NotAttached, Vfio
  <1>2. CASE ~sysfs
    BY <1>2 DEF DvInit, DvInv, DvRecords, Mock, NotAttached, Vfio
  <1> QED
    BY <1>1, <1>2, Zenon

\* What a step does to a device that is attached.
DvHeld(d) ==
    DvAttached(d) /\ devices'[d].vm # NotAttached =>
        /\ devices'[d].vm = devices[d].vm
        /\ d \in PciDevices => kernel'[d] = kernel[d]

\* AttachDevice takes a free device, with whatever the three writes of BindVFIO did.
LEMMA AttachInv ==
    ASSUME DvInv, UNCHANGED sysfs, NEW d, NEW vm \in Int, DvFree(d), AttachDevice(d, vm)
    PROVE  DvInv' /\ \A x \in DOMAIN devices : DvHeld(x)
  <1>0. d \in DOMAIN devices /\ ~DvAttached(d)
    BY Zenon DEF DvFree, DvAttached
  <1>1. PICK r \in DvRecords : devices' = [devices EXCEPT ![d] = r]
    <2>1. CASE ~sysfs
      <3>1. devices' = [devices EXCEPT ![d].vm = vm] /\ devices[d] \in DvRecords
        BY <1>0, <2>1, Zenon DEF AttachDevice, DvInv
      <3>2. PICK v, k : devices[d] = [vm |-> v, driver |-> k] /\ k \in {"host", "vfio-pci", "none"}
        BY <3>1 DEF DvRecords
      <3>3. PICK q : q = [vm |-> vm, driver |-> k]
        BY Zenon
      <3>4. q = [devices[d] EXCEPT !.vm = vm] /\ q \in DvRecords
        BY <3>2, <3>3 DEF DvRecords
      <3> QED
        BY <3>1, <3>4, Zenon
    <2>2. CASE sysfs
      <3>1. [vm |-> vm, driver |-> Vfio] \in DvRecords
        BY DEF DvRecords, Vfio
      <3> QED
        BY <2>2, <3>1, Zenon DEF AttachDevice
    <2> QED
      BY <2>1, <2>2, Zenon
  <1>2. /\ kernel' = [x \in PciDevices |-> kernel'[x]]
        /\ \A x \in PciDevices : x # d => kernel'[x] = kernel[x]
    <2>1. UNCHANGED kernel \/ \E k : kernel' = [kernel EXCEPT ![d] = k]
      BY Zenon DEF AttachDevice
    <2> QED
      BY <2>1, Zenon DEF DvInv
  <1>3. /\ DOMAIN devices' = DOMAIN devices /\ devices' \in [DOMAIN devices -> DvRecords]
        /\ \A x \in DOMAIN devices : x # d => devices'[x] = devices[x]
    BY <1>0, <1>1, Zenon DEF DvInv
  <1>4. \A x \in DOMAIN devices : DvHeld(x)
    BY <1>0, <1>2, <1>3, Zenon DEF DvHeld
  <1> QED
    BY <1>2, <1>3, <1>4, Zenon DEF DvInv

\* DetachDevice clears the owner and leaves the driver as AttachDevice recorded it.
LEMMA DetachInv ==
    ASSUME DvInv, UNCHANGED sysfs, NEW d, DvAttached(d), DetachDevice(d)
    PROVE  DvInv' /\ \A x \in DOMAIN devices : DvHeld(x)
  <1>1. /\ d \in DOMAIN devices
        /\ devices' = [devices EXCEPT ![d].vm = 0]
        /\ UNCHANGED <<kernel, sysfs>>
    BY DEF DvAttached, DetachDevice, NotAttached
  <1>2. /\ DOMAIN devices' = DOMAIN devices
        /\ devices' \in [DOMAIN devices' -> DvRecords]
        /\ devices'[d].vm = 0
        /\ \A x \in DOMAIN devices : x # d => devices'[x] = devices[x]
    <2>1. PICK v, k : devices[d] = [vm |-> v, driver |-> k] /\ k \in {"host", "vfio-pci", "none"}
      BY <1>1 DEF DvInv, DvRecords
    <2>2. PICK q : q = [vm |-> 0, driver |-> k]
      BY Zenon
    <2>3. q = [devices[d] EXCEPT !.vm = 0] /\ q \in DvRecords /\ q.vm = 0
      BY <2>1, <2>2 DEF DvRecords
    <2>4. devices' = [devices EXCEPT ![d] = q]
      BY <1>1, <2>3, Zenon
    <2> QED
      BY <1>1, <2>3, <2>4, Zenon DEF DvInv
  <1>3. \A x \in DOMAIN devices : DvHeld(x)
    BY <1>1, <1>2, Zenon DEF DvHeld, NotAttached
  <1>4. DvInv'
    BY <1>1, <1>2 DEF DvInv
  <1> QED
    BY <1>3, <1>4, Zenon

\* No operation of the pool disturbs it.
LEMMA DvStepInv ==
    ASSUME DvInv, [DvNext]_dvVars
    PROVE  DvInv' /\ \A x \in DOMAIN devices : DvHeld(x)
  <1>1. CASE UNCHANGED <<sysfs, devices, kernel>>
    BY <1>1, Zenon DEF DvInv, DvHeld
  <1>2. CASE DvNext /\ ~ UNCHANGED <<sysfs, devices, kernel>>
    <2>1. \/ \E d \in Ids, vm \in VMs : DvFree(d) /\ AttachDevice(d, vm)
          \/ \E d \in Ids : DvAttached(d) /\ DetachDevice(d)
      BY <1>2 DEF DvNext, handleListDevices, handleAttachDevice, handleDetachDevice, GrpcListDevices,
            GrpcAttachDevice, GrpcDetachDevice, DvRefuse
    <2> QED
      BY <1>2, <2>1, AttachInv, DetachInv, VMsAssumption DEF DvNext
  <1> QED
    BY <1>1, <1>2 DEF dvVars

\* For any devices and VMs, and whichever of BindVFIO's writes fail: a device stays with
\* the VM it was handed to, and with the kernel driver it then had, until it is detached.
THEOREM DevicesAreHeld == DvSpec => HeldTillDetached
  <1>1. DvInv /\ [DvNext]_dvVars => DvInv'
    BY DvStepInv, Zenon
  <1>2. DvInv /\ [DvNext]_dvVars =>
           [\A d \in DOMAIN devices :
               DvAttached(d) /\ devices'[d].vm # NotAttached =>
                   /\ devices'[d].vm = devices[d].vm
                   /\ d \in PciDevices => kernel'[d] = kernel[d]]_dvVars
    BY DvStepInv, Zenon DEF DvHeld
  <1> QED
    BY <1>1, <1>2, DvInitInv, PTL DEF DvSpec, HeldTillDetached

-----------------------------------------------------------------------------
(* Storage.                                                                *)

\* Bytes are counted in a machine word; a volume is in one of the pools.
PoolShapes ==
    /\ used \in [Pools -> 0 .. (Word - 1)]
    /\ volumes \in [DOMAIN volumes -> [pool : Pools, size : 0 .. (Word - 1)]]

\* Types of the service's tables and counters.
StShapes ==
    /\ nextVolID \in Nat \ {0} /\ nextSnapID \in Nat
    /\ PoolShapes
    /\ calls = [c \in Clients |-> calls[c]]

\* The volume IDs that were given out.
Given == 1 .. (nextVolID - 1)

\* Nothing refers to a volume ID that was not given out.
StFresh ==
    /\ DOMAIN volumes \subseteq Given
    /\ \A c \in Clients :
          calls[c].at \in {"volume", "snapshot", "resized"} => calls[c].vol \in Given
    /\ \A s \in DOMAIN snapshots : s \in Int /\ s < nextSnapID /\ snapshots[s] \in Given

\* The inductive invariant, to which UsedIsSum is added below.
StInv == StShapes /\ StFresh

\* Pools are empty at first.
LEMMA StInitInv == StInit => StInv /\ UsedIsSum
  <1> SUFFICES ASSUME StInit PROVE StInv /\ UsedIsSum
    OBVIOUS
  <1>1. StInv
    <2>1. DOMAIN volumes = {} /\ DOMAIN snapshots = {}
      BY DEF StInit, Empty
    <2>2. \A c \in Clients : calls[c].at = "idle"
      BY DEF StInit, Idle
    <2>3. StShapes
      <3>1. used \in [Pools -> 0 .. (Word - 1)]
        BY StorageConstants DEF StInit
      <3>2. volumes \in [DOMAIN volumes -> [pool : Pools, size : 0 .. (Word - 1)]]
        BY <2>1 DEF StInit, Empty
      <3> QED
        BY <3>1, <3>2 DEF StInit, StShapes, PoolShapes
    <2> QED
      BY <2>1, <2>2, <2>3 DEF StInit, StInv, StFresh
  <1>2. \A p : BytesIn(p) = {}
    <2>1. DOMAIN volumes = {}
      BY DEF StInit, Empty
    <2> QED
      BY <2>1 DEF BytesIn
  <1>3. UsedIsSum
    BY <1>2, FS_EmptySet, StorageConstants DEF StInit, UsedIsSum
  <1> QED
    BY <1>1, <1>3

\* What a step may do to volumes and pools.
VolumeStep ==
    \/ UNCHANGED <<volumes, used, wrapped, nextVolID>>
    \/ \E p \in Pools, n \in 0 .. (Word - 1) : CreateVolume(p, n)
    \/ \E p \in Pools : ImportVolume(p)
    \/ \E id \in VolIDs : DeleteVolume(id) /\ UNCHANGED nextVolID
    \/ \E id \in VolIDs, n \in 0 .. (Word - 1) : ResizeVolume(id, n) /\ UNCHANGED nextVolID

\* What a step may do to snapshots.
SnapshotStep ==
    \/ UNCHANGED <<snapshots, nextSnapID>>
    \/ \E id : CreateSnapshot(id)
    \/ \E id \in SnapIDs : DeleteSnapshot(id) /\ UNCHANGED nextSnapID

\* What a step may do to the calls that take several steps (backup, resize).
CallStep ==
    \/ UNCHANGED calls
    \/ \E c \in Clients :
        \/ calls' = [calls EXCEPT ![c] = Idle]
        \/ \E r : calls' = [calls EXCEPT ![c] = r] /\ r.vol \in 1 .. (nextVolID' - 1)

\* Every writing request is one of these on each of the three.
LEMMA WriteIs == ASSUME StInv, Write PROVE VolumeStep /\ SnapshotStep /\ CallStep
  <1> USE DEF Refuse, Quiet, Untouched, stored, counters
  <1>1. CASE handleCreateVolume \/ GrpcCreateVolume
    BY <1>1, StorageConstants, Zenon
       DEF handleCreateVolume, GrpcCreateVolume, VolumeStep, SnapshotStep, CallStep
  <1>2. CASE handleDeleteVolume \/ GrpcDeleteVolume
    BY <1>2, Zenon
       DEF handleDeleteVolume, GrpcDeleteVolume, VolumeStep, SnapshotStep, CallStep
  <1>3. CASE handleImportVolume
    BY <1>3, Zenon DEF handleImportVolume, VolumeStep, SnapshotStep, CallStep
  <1>4. CASE handleStorageSnapshotClone
    <2>1. ASSUME NEW id \in SnapIDs, CloneSnapshot(id), Untouched, UNCHANGED <<snapshots, nextSnapID>>
          PROVE  VolumeStep
      <3>1. PICK r \in [pool : Pools, size : 0 .. (Word - 1)] : r = volumes[snapshots[id]]
        BY <2>1 DEF CloneSnapshot, HasSource, StInv, StShapes, PoolShapes
      <3>2. CreateVolume(r.pool, r.size)
        BY <2>1, <3>1, Zenon DEF CloneSnapshot, CreateVolume, Charge, AddVolume
      <3> QED
        BY <3>1, <3>2, Zenon DEF VolumeStep
    <2> QED
      BY <1>4, <2>1, Zenon
         DEF handleStorageSnapshotClone, VolumeStep, SnapshotStep, CallStep
  <1>5. CASE handleDeleteStorageSnapshot
    BY <1>5, Zenon
       DEF handleDeleteStorageSnapshot, VolumeStep, SnapshotStep, CallStep
  <1>6. CASE handleDeleteBackup
    BY <1>6, Zenon DEF handleDeleteBackup, VolumeStep, SnapshotStep, CallStep
  <1>7. CASE handleCreateDisk
    BY <1>7, Zenon DEF handleCreateDisk, VolumeStep, SnapshotStep, CallStep
  <1>8. CASE GrpcCreateSnapshot
    BY <1>8, Zenon DEF GrpcCreateSnapshot, VolumeStep, SnapshotStep, CallStep
  <1>9. ASSUME NEW c \in Clients, handleResizeVolume(c) PROVE VolumeStep /\ SnapshotStep /\ CallStep
    <2>1. CASE ResizeAnswer(c)
      BY <2>1, Zenon DEF ResizeAnswer, VolumeStep, SnapshotStep, CallStep
    <2>2. CASE ResizeBegin(c)
      <3>1. CASE Quiet
        BY <3>1 DEF VolumeStep, SnapshotStep, CallStep
      <3>2. ASSUME NEW id \in VolIDs, NEW n \in Sizes, ResizeVolume(id, n),
                   calls' = [calls EXCEPT ![c] = [at |-> "resized", vol |-> id]],
                   UNCHANGED <<snapshots, backups, counters, disks>>
            PROVE  VolumeStep /\ SnapshotStep /\ CallStep
        <4>1. VolumeStep /\ SnapshotStep
          BY <3>2, StorageConstants, Zenon DEF VolumeStep, SnapshotStep
        <4>2. id \in 1 .. (nextVolID' - 1)
          BY <3>2 DEF ResizeVolume, StInv, StFresh, Given
        <4>3. CallStep
          <5> DEFINE r == [at |-> "resized", vol |-> id]
          <5>1. r.vol \in 1 .. (nextVolID' - 1)
            BY <4>2
          <5>2. calls' = [calls EXCEPT ![c] = r]
            BY <3>2
          <5> HIDE DEF r
          <5> QED
            BY <5>1, <5>2, Zenon DEF CallStep
        <4> QED
          BY <4>1, <4>3
      <3> QED
        BY <2>2, <3>1, <3>2, Zenon DEF ResizeBegin
    <2> QED
      BY <1>9, <2>1, <2>2 DEF handleResizeVolume
  <1>10. ASSUME NEW c \in Clients, handleCreateBackup(c) PROVE VolumeStep /\ SnapshotStep /\ CallStep
    <2>1. CASE BackupVolume(c)
      <3>1. CASE UNCHANGED <<stored, nextVolID, calls, wrapped>>
        BY <2>1, <3>1, Zenon DEF BackupVolume, VolumeStep, SnapshotStep, CallStep
      <3>2. ASSUME NEW p \in Pools, CreateVolume(p, BackupSize),
                   calls' = [calls EXCEPT ![c] =
                      [at |-> "volume", id |-> nextBackupID, vol |-> nextVolID]],
                   UNCHANGED <<snapshots, backups>>, UNCHANGED <<nextSnapID, disks>>
            PROVE  VolumeStep /\ SnapshotStep /\ CallStep
        <4>1. VolumeStep /\ SnapshotStep
          BY <3>2, StorageConstants DEF VolumeStep, SnapshotStep
        <4>2. nextVolID \in 1 .. (nextVolID' - 1)
          BY <3>2 DEF CreateVolume, AddVolume, StInv, StShapes
        <4>3. CallStep
          <5> DEFINE r == [at |-> "volume", id |-> nextBackupID, vol |-> nextVolID]
          <5>1. r.vol \in 1 .. (nextVolID' - 1)
            BY <4>2
          <5>2. calls' = [calls EXCEPT ![c] = r]
            BY <3>2, Zenon
          <5>3. PICK s : s = r
            BY Zenon
          <5> HIDE DEF r
          <5> QED
            BY <5>1, <5>2, <5>3, Zenon DEF CallStep
        <4> QED
          BY <4>1, <4>3
      <3> QED
        BY <2>1, <3>1, <3>2, Zenon DEF BackupVolume
    <2>2. CASE BackupSnapshot(c)
      <3>1. PICK v : v = calls[c].vol
        OBVIOUS
      <3>2. VolumeStep
        BY <2>2, Zenon DEF BackupSnapshot, VolumeStep
      <3>3. CASE CreateSnapshot(v)
                 /\ calls' = [calls EXCEPT ![c] = [at |-> "snapshot", id |-> @.id, vol |-> @.vol, snap |-> nextSnapID]]
        <4>1. v \in Given /\ nextVolID' = nextVolID
          BY <2>2, <3>1, Zenon DEF StInv, StFresh, BackupSnapshot
        <4>3. SnapshotStep
          BY <3>3, Zenon DEF SnapshotStep
        <4>4. PICK r : r = [at |-> "snapshot", id |-> calls[c].id, vol |-> calls[c].vol, snap |-> nextSnapID]
          BY Zenon
        <4>5. calls' = [calls EXCEPT ![c] = r] /\ r.vol = v
          BY <3>1, <3>3, <4>4
        <4>6. CallStep
          BY <3>3, <4>1, <4>5, Zenon DEF CallStep, Given
        <4> QED
          BY <3>2, <4>3, <4>6
      <3>4. CASE calls[c].vol \notin DOMAIN volumes /\ calls' = [calls EXCEPT ![c] = Idle]
                 /\ UNCHANGED <<snapshots, nextSnapID>>
        BY <2>2, <3>2, <3>4, Zenon DEF BackupSnapshot, SnapshotStep, CallStep
      <3> QED
        BY <2>2, <3>1, <3>3, <3>4, Zenon DEF BackupSnapshot, CreateSnapshot
    <2>3. CASE BackupRecord(c)
      BY <2>3, Zenon DEF BackupRecord, VolumeStep, SnapshotStep, CallStep
    <2>4. CASE Refuse(400)
      BY <2>4, Zenon DEF VolumeStep, SnapshotStep, CallStep
    <2> QED
      BY <1>10, <2>1, <2>2, <2>3, <2>4 DEF handleCreateBackup, CreateBackup
  <1> QED
    BY <1>1, <1>2, <1>3, <1>4, <1>5, <1>6, <1>7, <1>8, <1>9, <1>10 DEF Write

\* A byte in use is one of a volume of the pool.
LEMMA ByteIs ==
    ASSUME NEW p, NEW x
    PROVE  x \in BytesIn(p) <=> \E v \in DOMAIN volumes : /\ volumes[v].pool = p
                                                        /\ \E k \in 1 .. volumes[v].size : x = <<v, k>>
  BY DEF BytesIn

\* The bytes lo .. hi of a volume are as many as that.
LEMMA StripCount ==
    ASSUME NEW v, NEW lo \in Nat, NEW hi \in Nat, lo <= hi + 1
    PROVE  IsFiniteSet({v} \X (lo .. hi)) /\ Cardinality({v} \X (lo .. hi)) = hi + 1 - lo
  <1>1. IsFiniteSet({v}) /\ Cardinality({v}) = 1
    BY FS_Singleton, Zenon
  <1>2. IsFiniteSet(lo .. hi) /\ Cardinality(lo .. hi) = IF lo > hi THEN 0 ELSE hi - lo + 1
    BY FS_Interval
  <1>3. /\ IsFiniteSet({v} \X (lo .. hi))
        /\ Cardinality({v} \X (lo .. hi)) = Cardinality({v}) * Cardinality(lo .. hi)
    BY <1>1, <1>2, FS_Product, Zenon
  <1> QED
    BY <1>1, <1>2, <1>3

\* A volume of n bytes has n of them.
LEMMA FullStripCount ==
    ASSUME NEW v, NEW n \in Nat
    PROVE  IsFiniteSet({v} \X (1 .. n)) /\ Cardinality({v} \X (1 .. n)) = n
  <1>1. PICK lo \in Nat : lo = 1
    OBVIOUS
  <1>2. lo <= n + 1
    BY <1>1
  <1>3. IsFiniteSet({v} \X (lo .. n)) /\ Cardinality({v} \X (lo .. n)) = n + 1 - lo
    BY <1>2, StripCount, Zenon
  <1> QED
    BY <1>1, <1>3

\* Disjoint sets of bytes add up.
LEMMA DisjointCount ==
    ASSUME NEW B, IsFiniteSet(B), NEW D, IsFiniteSet(D), \A x \in D : x \notin B
    PROVE  Cardinality(B \cup D) = Cardinality(B) + Cardinality(D)
  <1>1. Cardinality(B \cap D) = 0
    <2>1. B \cap D = {}
      OBVIOUS
    <2> QED
      BY <2>1, FS_EmptySet
  <1>2. Cardinality(B \cup D) = Cardinality(B) + Cardinality(D) - Cardinality(B \cap D)
    BY FS_Union
  <1> QED
    BY <1>1, <1>2, FS_CardinalityType

\* The bytes in use are finitely many.
LEMMA BytesFinite ==
    ASSUME StInv, NEW p
    PROVE  IsFiniteSet(BytesIn(p)) /\ Cardinality(BytesIn(p)) \in Nat
  <1>1. IsFiniteSet(Given) /\ IsFiniteSet(1 .. Word)
    <2>1. nextVolID - 1 \in Int /\ Word \in Int /\ 1 \in Int
      BY StorageConstants DEF StInv, StShapes
    <2> QED
      BY <2>1, FS_Interval DEF Given
  <1>2. IsFiniteSet(Given \X (1 .. Word))
    BY <1>1, FS_Product, Zenon
  <1>3. BytesIn(p) \subseteq Given \X (1 .. Word)
    <2> SUFFICES ASSUME NEW x \in BytesIn(p) PROVE x \in Given \X (1 .. Word)
      OBVIOUS
    <2>1. PICK v \in DOMAIN volumes : \E k \in 1 .. volumes[v].size : x = <<v, k>>
      BY ByteIs
    <2>2. volumes[v].size \in 0 .. (Word - 1) /\ v \in Given
      BY DEF StInv, StShapes, PoolShapes, StFresh
    <2> QED
      BY <2>1, <2>2, StorageConstants
  <1>4. IsFiniteSet(BytesIn(p))
    BY <1>2, <1>3, FS_Subset
  <1> QED
    BY <1>4, FS_CardinalityType

\* What a step does to the volumes and their accounting
Accounted == PoolShapes /\ UsedIsSum

\* CreateVolume charges the pool for what the new volume holds; an import for nothing.
LEMMA CreateAccounted ==
    ASSUME StInv, UsedIsSum, NEW p \in Pools, NEW n \in 0 .. (Word - 1),
           AddVolume(p, n), Charge(p, n) \/ (n = 0 /\ UNCHANGED <<used, wrapped>>)
    PROVE  /\ Accounted' /\ nextVolID' = nextVolID + 1
           /\ DOMAIN volumes' = DOMAIN volumes \cup {nextVolID}
  <1> DEFINE new == {nextVolID} \X (1 .. n)
  <1>1. /\ nextVolID' = nextVolID + 1 /\ nextVolID \notin DOMAIN volumes
        /\ DOMAIN volumes' = DOMAIN volumes \cup {nextVolID}
        /\ \A v \in DOMAIN volumes : volumes'[v] = volumes[v]
        /\ volumes'[nextVolID] = [pool |-> p, size |-> n]
    BY DEF AddVolume, Put, StInv, StShapes, StFresh, Given
  <1>2. PoolShapes'
    <2>1. volumes' \in [DOMAIN volumes' -> [pool : Pools, size : 0 .. (Word - 1)]]
      BY Zenon DEF AddVolume, Put, StInv, StShapes, PoolShapes
    <2>2. used' \in [Pools -> 0 .. (Word - 1)]
      <3>1. \A q \in Pools : (used[q] + n) % Word \in 0 .. (Word - 1)
        BY StorageConstants DEF StInv, StShapes, PoolShapes
      <3> QED
        BY <3>1 DEF Charge, StInv, StShapes, PoolShapes
    <2> QED
      BY <2>1, <2>2 DEF PoolShapes
  <1>3. BytesIn(p)' = BytesIn(p) \cup new /\ BytesIn(p) \cap new = {}
    BY <1>1, StorageConstants DEF BytesIn
  <1>4. \A q \in Pools \ {p} : BytesIn(q)' = BytesIn(q)
    BY <1>1 DEF BytesIn
  <1>5. Cardinality(BytesIn(p)') = Cardinality(BytesIn(p)) + n
    <2>1. PICK B : B = BytesIn(p)
      OBVIOUS
    <2>2. PICK v : v = nextVolID
      OBVIOUS
    <2>3. PICK D : D = {v} \X (1 .. n)
      BY Zenon
    <2>4. Cardinality(B \cup D) = Cardinality(B) + n
      <3>1. IsFiniteSet(D) /\ Cardinality(D) = n
        <4>1. n \in Nat
          BY StorageConstants
        <4>2. IsFiniteSet({v} \X (1 .. n)) /\ Cardinality({v} \X (1 .. n)) = n
          BY <4>1, FullStripCount, Zenon
        <4> QED
          BY <4>2, <2>3, Zenon
      <3>2. IsFiniteSet(B) /\ \A x \in D : x \notin B
        BY <2>1, <2>2, <2>3, <1>3, BytesFinite
      <3> QED
        BY <3>1, <3>2, DisjointCount
    <2> QED
      BY <2>1, <2>2, <2>3, <2>4, <1>3, Zenon
  <1>6. UsedIsSum'
    <2> SUFFICES ASSUME ~wrapped', NEW q \in Pools
                 PROVE  used'[q] = UsedAtStart + Cardinality(BytesIn(q)')
      BY Zenon DEF UsedIsSum
    <2>0. ~wrapped /\ (Charge(p, n) => ~(used[p] + n >= Word))
      <3>1. CASE Charge(p, n)
        BY <3>1, Zenon DEF Charge
      <3>2. CASE n = 0 /\ UNCHANGED <<used, wrapped>>
        <4>1. ~wrapped
          BY <3>2
        <4> QED
          BY <3>1, <4>1
      <3> QED
        BY <3>1, <3>2
    <2>1. used[q] = UsedAtStart + Cardinality(BytesIn(q))
      BY <2>0 DEF UsedIsSum
    <2>2. used'[q] = IF q = p THEN used[q] + n ELSE used[q]
      <3>1. used[p] \in Nat /\ used[q] \in Nat /\ n \in Nat
        BY StorageConstants DEF StInv, StShapes, PoolShapes
      <3>2. CASE Charge(p, n)
        <4>1. (used[p] + n) % Word = used[p] + n
          BY <3>1, <3>2, <2>0, StorageConstants
        <4> QED
          BY <3>2, <4>1, Zenon DEF Charge, StInv, StShapes, PoolShapes
      <3>3. CASE n = 0 /\ UNCHANGED used
        BY <3>1, <3>3
      <3> QED
        BY <3>2, <3>3
    <2> QED
      BY <2>1, <2>2, <1>4, <1>5, BytesFinite, StorageConstants
  <1> QED
    BY <1>1, <1>2, <1>6, Zenon DEF Accounted

\* DeleteVolume takes off what the volume held.
LEMMA DeleteAccounted ==
    ASSUME StInv, UsedIsSum, NEW id, DeleteVolume(id)
    PROVE  Accounted' /\ DOMAIN volumes' \subseteq DOMAIN volumes
  <1>0. PICK r \in [pool : Pools, size : 0 .. (Word - 1)] : r = volumes[id]
    BY DEF DeleteVolume, StInv, StShapes, PoolShapes
  <1> DEFINE old == {id} \X (1 .. r.size)
  <1>1. /\ id \in DOMAIN volumes
        /\ DOMAIN volumes' = DOMAIN volumes \ {id}
        /\ \A v \in DOMAIN volumes' : volumes'[v] = volumes[v]
        /\ Release(r.pool, r.size)
    BY <1>0, Zenon DEF DeleteVolume, Release, Del, Restrict
  <1>2. PoolShapes'
    <2>1. volumes' \in [DOMAIN volumes' -> [pool : Pools, size : 0 .. (Word - 1)]]
      BY DEF DeleteVolume, Del, Restrict, StInv, StShapes, PoolShapes
    <2>2. used' \in [Pools -> 0 .. (Word - 1)]
      BY <1>0, <1>1, StorageConstants DEF Release, StInv, StShapes, PoolShapes
    <2> QED
      BY <2>1, <2>2 DEF PoolShapes
  <1>3. BytesIn(r.pool) = BytesIn(r.pool)' \cup old /\ BytesIn(r.pool)' \cap old = {}
    BY <1>0, <1>1, StorageConstants DEF BytesIn
  <1>4. \A q \in Pools \ {r.pool} : BytesIn(q)' = BytesIn(q)
    BY <1>0, <1>1 DEF BytesIn
  <1>5. /\ Cardinality(BytesIn(r.pool)) = Cardinality(BytesIn(r.pool)') + r.size
        /\ Cardinality(BytesIn(r.pool)') \in Nat
    <2>1. PICK B : B = BytesIn(r.pool)'
      OBVIOUS
    <2>2. IsFiniteSet(B) /\ Cardinality(B) \in Nat
      BY <2>1, <1>3, BytesFinite, FS_Subset, FS_CardinalityType, Zenon
    <2>3. PICK D, n : D = {id} \X (1 .. n) /\ n = r.size
      BY Zenon
    <2>4. Cardinality(B \cup D) = Cardinality(B) + n
      <3>1. IsFiniteSet(D) /\ Cardinality(D) = n
        <4>1. n \in Nat
          BY <1>0, <2>3, StorageConstants
        <4>2. IsFiniteSet({id} \X (1 .. n)) /\ Cardinality({id} \X (1 .. n)) = n
          BY <4>1, FullStripCount, Zenon
        <4> QED
          BY <4>2, <2>3, Zenon
      <3>2. \A x \in D : x \notin B
        BY <2>1, <2>3, <1>3
      <3> QED
        BY <2>2, <3>1, <3>2, DisjointCount
    <2> QED
      BY <2>1, <2>2, <2>3, <2>4, <1>3
  <1>6. UsedIsSum'
    <2> SUFFICES ASSUME ~wrapped', NEW q \in Pools
                 PROVE  used'[q] = UsedAtStart + Cardinality(BytesIn(q)')
      BY Zenon DEF UsedIsSum
    <2>1. ~wrapped /\ used[q] = UsedAtStart + Cardinality(BytesIn(q))
      BY <1>1, Zenon DEF Release, UsedIsSum
    <2>2. used'[q] = IF q = r.pool /\ used[q] >= r.size THEN used[q] - r.size ELSE used[q]
      BY <1>0, <1>1, StorageConstants, Zenon
         DEF Release, StInv, StShapes, PoolShapes
    <2> QED
      BY <2>1, <2>2, <1>0, <1>4, <1>5, BytesFinite, StorageConstants
  <1> QED
    BY <1>1, <1>2, <1>6, Zenon DEF Accounted

\* ResizeVolume charges the difference, up or down.
LEMMA ResizeAccounted ==
    ASSUME StInv, UsedIsSum, NEW id, NEW n \in 0 .. (Word - 1), ResizeVolume(id, n)
    PROVE  Accounted' /\ DOMAIN volumes' = DOMAIN volumes
  <1>0. PICK p \in Pools, m \in 0 .. (Word - 1) :
            id \in DOMAIN volumes /\ volumes[id].pool = p /\ volumes[id].size = m
    BY DEF ResizeVolume, StInv, StShapes, PoolShapes
  <1>1. /\ DOMAIN volumes' = DOMAIN volumes
        /\ \A v \in DOMAIN volumes \ {id} : volumes'[v] = volumes[v]
        /\ volumes'[id].pool = p /\ volumes'[id].size = n
        /\ IF n > m THEN Charge(p, n - m) ELSE Release(p, m - n)
    BY <1>0 DEF ResizeVolume, Charge, Release, StInv, StShapes, PoolShapes
  <1>2. PoolShapes'
    <2>1. volumes' \in [DOMAIN volumes' -> [pool : Pools, size : 0 .. (Word - 1)]]
      BY <1>0 DEF ResizeVolume, StInv, StShapes, PoolShapes
    <2>2. used' \in [Pools -> 0 .. (Word - 1)]
      <3>1. \A q \in Pools : (used[q] + (n - m)) % Word \in 0 .. (Word - 1)
        BY StorageConstants DEF StInv, StShapes, PoolShapes
      <3>2. CASE n > m
        BY <1>0, <1>1, <3>1, <3>2, Zenon DEF Charge, StInv, StShapes, PoolShapes
      <3>3. CASE n <= m
        BY <1>0, <1>1, <3>3, StorageConstants DEF Release, StInv, StShapes, PoolShapes
      <3> QED
        BY <3>2, <3>3, StorageConstants
    <2> QED
      BY <2>1, <2>2 DEF PoolShapes
  <1>4. \A q \in Pools \ {p} : BytesIn(q)' = BytesIn(q)
    BY <1>0, <1>1, Zenon DEF BytesIn
  <1>5. PICK B, C : B = BytesIn(p) /\ C = BytesIn(p)'
    OBVIOUS
  <1>6. IsFiniteSet(B) /\ Cardinality(B) \in Nat
    BY <1>5, BytesFinite
  <1>7. CASE n > m
    <2>0. PICK lo \in Nat : lo = m + 1
      BY StorageConstants
    <2>1. PICK D : lo = m + 1 /\ D = {id} \X (lo .. n)
      BY <2>0, Zenon
    <2>2. C = B \cup D /\ \A x \in D : x \notin B
      BY <1>0, <1>1, <1>5, <1>7, <2>1, StorageConstants DEF BytesIn
    <2>3. IsFiniteSet(D) /\ Cardinality(D) = n - m
      <3>1. n \in Nat /\ lo <= n + 1
        BY <1>7, <2>1, StorageConstants
      <3>2. IsFiniteSet({id} \X (lo .. n)) /\ Cardinality({id} \X (lo .. n)) = n + 1 - lo
        BY <3>1, StripCount, Zenon
      <3> QED
        BY <2>1, <3>2, StorageConstants
    <2>4. Cardinality(C) = Cardinality(B) + (n - m)
      BY <1>6, <2>2, <2>3, DisjointCount, Zenon
    <2>5. UsedIsSum'
      <3> SUFFICES ASSUME ~wrapped', NEW q \in Pools
                   PROVE  used'[q] = UsedAtStart + Cardinality(BytesIn(q)')
        BY Zenon DEF UsedIsSum
      <3>1. ~wrapped /\ ~(used[p] + (n - m) >= Word)
        <4>1. Charge(p, n - m)
          BY <1>1, <1>7, Zenon
        <4> QED
          BY <4>1, Zenon DEF Charge
      <3>2. used[q] = UsedAtStart + Cardinality(BytesIn(q)) /\ used[q] \in Nat /\ used[p] \in Nat
        BY <3>1, StorageConstants DEF UsedIsSum, StInv, StShapes, PoolShapes
      <3>3. used'[q] = IF q = p THEN used[q] + (n - m) ELSE used[q]
        <4>1. (used[p] + (n - m)) % Word = used[p] + (n - m)
          BY <3>1, <3>2, <1>7, StorageConstants
        <4> QED
          BY <1>1, <1>7, <4>1, Zenon DEF Charge, StInv, StShapes, PoolShapes
      <3> QED
        BY <3>2, <3>3, <1>4, <1>5, <1>6, <2>4, StorageConstants
    <2> QED
      BY <1>1, <1>2, <2>5, Zenon DEF Accounted
  <1>8. CASE n <= m
    <2>0. PICK lo \in Nat : lo = n + 1
      BY StorageConstants
    <2>1. PICK D : lo = n + 1 /\ D = {id} \X (lo .. m)
      BY <2>0, Zenon
    <2>2. B = C \cup D /\ \A x \in D : x \notin C
      BY <1>0, <1>1, <1>5, <1>8, <2>1, StorageConstants DEF BytesIn
    <2>3. IsFiniteSet(D) /\ Cardinality(D) = m - n
      <3>1. m \in Nat /\ lo <= m + 1
        BY <1>8, <2>1, StorageConstants
      <3>2. IsFiniteSet({id} \X (lo .. m)) /\ Cardinality({id} \X (lo .. m)) = m + 1 - lo
        BY <3>1, StripCount, Zenon
      <3> QED
        BY <2>1, <3>2, StorageConstants
    <2>4. IsFiniteSet(C) /\ Cardinality(C) \in Nat
      BY <1>6, <2>2, FS_Subset, FS_CardinalityType
    <2>5. Cardinality(B) = Cardinality(C) + (m - n)
      BY <2>2, <2>3, <2>4, DisjointCount, Zenon
    <2>6. UsedIsSum'
      <3> SUFFICES ASSUME ~wrapped', NEW q \in Pools
                   PROVE  used'[q] = UsedAtStart + Cardinality(BytesIn(q)')
        BY Zenon DEF UsedIsSum
      <3>0. Release(p, m - n)
        BY <1>1, <1>8, StorageConstants
      <3>1. ~wrapped
        BY <3>0 DEF Release
      <3>2. used[q] = UsedAtStart + Cardinality(BytesIn(q)) /\ used[q] \in Nat
        BY <3>1, StorageConstants DEF UsedIsSum, StInv, StShapes, PoolShapes
      <3>3. used'[q] = IF q = p /\ used[q] >= m - n THEN used[q] - (m - n) ELSE used[q]
        BY <3>0, Zenon DEF Release, StInv, StShapes, PoolShapes
      <3> QED
        BY <3>2, <3>3, <1>4, <1>5, <1>8, <2>4, <2>5, StorageConstants
    <2> QED
      BY <1>1, <1>2, <2>6, Zenon DEF Accounted
  <1> QED
    BY <1>7, <1>8, StorageConstants

\* So every step on volumes keeps the books, and gives an ID out once.
LEMMA VolumesAccounted ==
    ASSUME StInv, UsedIsSum, VolumeStep
    PROVE  /\ Accounted'
           /\ \/ DOMAIN volumes' \subseteq DOMAIN volumes /\ nextVolID' = nextVolID
              \/ DOMAIN volumes' = DOMAIN volumes \cup {nextVolID} /\ nextVolID' = nextVolID + 1
  <1>1. CASE UNCHANGED <<volumes, used, wrapped, nextVolID>>
    <2>1. UsedIsSum'
      BY <1>1 DEF UsedIsSum, BytesIn
    <2>2. PoolShapes'
      BY <1>1, Zenon DEF StInv, StShapes, PoolShapes
    <2> QED
      BY <1>1, <2>1, <2>2 DEF Accounted
  <1>2. CASE \E p \in Pools, n \in 0 .. (Word - 1) : CreateVolume(p, n)
    BY <1>2, CreateAccounted, Zenon DEF CreateVolume
  <1>3. CASE \E p \in Pools : ImportVolume(p)
    <2>1. 0 \in 0 .. (Word - 1)
      BY StorageConstants
    <2> QED
      BY <1>3, <2>1, CreateAccounted, Zenon DEF ImportVolume
  <1>4. CASE \E id \in VolIDs : DeleteVolume(id) /\ UNCHANGED nextVolID
    BY <1>4, DeleteAccounted, Zenon
  <1>5. CASE \E id \in VolIDs, n \in 0 .. (Word - 1) : ResizeVolume(id, n) /\ UNCHANGED nextVolID
    BY <1>5, ResizeAccounted, Zenon
  <1> QED
    BY <1>1, <1>2, <1>3, <1>4, <1>5, Zenon DEF VolumeStep

\* Every step of the service is one of these on each of the three.
LEMMA StNextIs == ASSUME StInv, [StNext]_stVars PROVE VolumeStep /\ SnapshotStep /\ CallStep
  <1>1. CASE Write
    BY <1>1, WriteIs
  <1>2. CASE Quiet
    BY <1>2, Zenon DEF Quiet, stored, counters, VolumeStep, SnapshotStep, CallStep
  <1>3. ReadOnly => Quiet
    BY DEF ReadOnly, handleStorageSnapshotRollback, handleExportVolume, handleGetVolume,
           handleGetBackup, handleStoragePools, handleStorageVolumes, handleListBackups,
           GrpcListPools, GrpcListSnapshots, Refuse
  <1>4. UNCHANGED stVars => Quiet
    BY Zenon DEF stVars, Quiet, stored, counters
  <1> QED
    BY <1>1, <1>2, <1>3, <1>4 DEF StNext

\* No step disturbs the invariant or the sum.
LEMMA StStepInv == StInv /\ UsedIsSum /\ [StNext]_stVars => (StInv /\ UsedIsSum)'
  <1> SUFFICES ASSUME StInv, UsedIsSum, [StNext]_stVars PROVE (StInv /\ UsedIsSum)'
    OBVIOUS
  <1>1. VolumeStep /\ SnapshotStep /\ CallStep
    BY StNextIs
  <1>2. /\ PoolShapes' /\ UsedIsSum'
        /\ \/ DOMAIN volumes' \subseteq DOMAIN volumes /\ nextVolID' = nextVolID
           \/ DOMAIN volumes' = DOMAIN volumes \cup {nextVolID} /\ nextVolID' = nextVolID + 1
    BY <1>1, VolumesAccounted, Zenon DEF Accounted
  <1>3. nextVolID' \in Nat \ {0} /\ Given \subseteq Given' /\ DOMAIN volumes' \subseteq Given'
    BY <1>2 DEF Given, StInv, StShapes, StFresh
  <1>4. /\ nextSnapID' \in Nat
        /\ \A s \in DOMAIN snapshots' : s \in Int /\ s < nextSnapID' /\ snapshots'[s] \in Given'
    <2>1. CASE UNCHANGED <<snapshots, nextSnapID>>
      BY <2>1, <1>3, Zenon DEF StInv, StShapes, StFresh
    <2>2. ASSUME NEW id, CreateSnapshot(id) 
          PROVE  /\ nextSnapID' \in Nat
                 /\ \A s \in DOMAIN snapshots' : s \in Int /\ s < nextSnapID' /\ snapshots'[s] \in Given'
      BY <2>2, <1>3 DEF CreateSnapshot, Put, StInv, StShapes, StFresh
    <2>3. ASSUME NEW id, DeleteSnapshot(id), UNCHANGED nextSnapID 
          PROVE  /\ nextSnapID' \in Nat
                 /\ \A s \in DOMAIN snapshots' : s \in Int /\ s < nextSnapID' /\ snapshots'[s] \in Given'
      BY <2>3, <1>3, Zenon
         DEF DeleteSnapshot, Del, Restrict, StInv, StShapes, StFresh
    <2> QED
      BY <1>1, <2>1, <2>2, <2>3, Zenon DEF SnapshotStep
  <1>5. /\ calls' = [c \in Clients |-> calls'[c]]
        /\ \A c \in Clients :
              calls'[c].at \in {"volume", "snapshot", "resized"} => calls'[c].vol \in Given'
    <2>1. CASE UNCHANGED calls
      BY <2>1, <1>3, Zenon DEF StInv, StShapes, StFresh
    <2>2. ASSUME NEW c \in Clients, calls' = [calls EXCEPT ![c] = Idle] PROVE
             /\ calls' = [d \in Clients |-> calls'[d]]
             /\ \A d \in Clients :
              calls'[d].at \in {"volume", "snapshot", "resized"} => calls'[d].vol \in Given'
      <3>1. Idle.at = "idle"
        BY Zenon DEF Idle
      <3> QED
        BY <2>2, <3>1, <1>3, Zenon DEF StInv, StShapes, StFresh
    <2>3. ASSUME NEW c \in Clients, NEW r, calls' = [calls EXCEPT ![c] = r], r.vol \in Given' PROVE
             /\ calls' = [d \in Clients |-> calls'[d]]
             /\ \A d \in Clients :
              calls'[d].at \in {"volume", "snapshot", "resized"} => calls'[d].vol \in Given'
      BY <2>3, <1>3, Zenon DEF StInv, StShapes, StFresh
    <2> QED
      BY <1>1, <2>1, <2>2, <2>3, Zenon DEF CallStep, Given
  <1> QED
    BY <1>2, <1>3, <1>4, <1>5, Zenon DEF StInv, StShapes, StFresh

\* For any pools, clients and word size: as long as no addition wrapped, UsedBytes of a
\* pool is what it started with plus the sizes of its volumes, whatever was created,
\* cloned, imported, resized, backed up and deleted in whatever order.
THEOREM UsedBytesAreSum == StSpec => []UsedIsSum
  BY StInitInv, StStepInv, PTL DEF StSpec

\* A step gives the ID of a deleted volume to no other.
LEMMA OrphanStep ==
    ASSUME StInv, UsedIsSum, [StNext]_stVars,
           NEW s \in DOMAIN snapshots \cap DOMAIN snapshots', snapshots[s] \notin DOMAIN volumes
    PROVE  snapshots'[s] = snapshots[s] /\ snapshots[s] \notin DOMAIN volumes'
  <1>1. VolumeStep /\ SnapshotStep
    BY StNextIs, Zenon
  <1>2. \/ DOMAIN volumes' \subseteq DOMAIN volumes
        \/ DOMAIN volumes' = DOMAIN volumes \cup {nextVolID}
    BY <1>1, VolumesAccounted, Zenon
  <1>3. snapshots[s] \notin DOMAIN volumes'
    BY <1>2 DEF StInv, StShapes, StFresh, Given
  <1>4. snapshots'[s] = snapshots[s]
    <2>1. s \in Int /\ s < nextSnapID /\ nextSnapID \in Nat
      BY Zenon DEF StInv, StShapes, StFresh
    <2>2. ASSUME NEW id, CreateSnapshot(id) PROVE snapshots'[s] = snapshots[s]
      BY <2>1, <2>2 DEF CreateSnapshot, Put
    <2>3. ASSUME NEW id, DeleteSnapshot(id) PROVE snapshots'[s] = snapshots[s]
      BY <2>3, Zenon DEF DeleteSnapshot, Del, Restrict
    <2> QED
      BY <1>1, <2>2, <2>3, Zenon DEF SnapshotStep
  <1> QED
    BY <1>3, <1>4, Zenon

\* For any pools and clients: a snapshot whose volume was deleted never comes to denote
\* another volume.
THEOREM OrphansStayOrphans == StSpec => OrphanStaysOrphan
  <1>1. StInv /\ UsedIsSum /\ [StNext]_stVars =>
            [\A s \in DOMAIN snapshots \cap DOMAIN snapshots' :
                snapshots[s] \notin DOMAIN volumes =>
                    snapshots'[s] = snapshots[s] /\ snapshots[s] \notin DOMAIN volumes']_stVars
    BY OrphanStep, Zenon
  <1> QED
    BY <1>1, StInitInv, StStepInv, PTL DEF StSpec, OrphanStaysOrphan

-----------------------------------------------------------------------------
(* Network. ZoneOwnsIfaces follows every interface from the call that      *)
(* makes it into zoneIfaces and out again, by way of the call that removes *)
(* it.                                                                     *)

\* Appending an interface that is not in the list.
LEMMA AppendFresh ==
    ASSUME NEW S, NEW s \in Seq(S), NEW x \in S, IsInjective(s), x \notin Range(s)
    PROVE  /\ Append(s, x) \in Seq(S) /\ IsInjective(Append(s, x))
           /\ Range(Append(s, x)) = Range(s) \cup {x}
  <1>1. /\ Append(s, x) \in Seq(S) /\ Len(Append(s, x)) = Len(s) + 1
        /\ DOMAIN Append(s, x) = 1 .. (Len(s) + 1) /\ DOMAIN s = 1 .. Len(s) /\ Len(s) \in Nat
        /\ \A i \in 1 .. Len(s) : Append(s, x)[i] = s[i]
        /\ Append(s, x)[Len(s) + 1] = x
    OBVIOUS
  <1>2. Range(Append(s, x)) = Range(s) \cup {x}
    BY <1>1 DEF Range
  <1>3. IsInjective(Append(s, x))
    BY <1>1 DEF IsInjective, Range
  <1> QED
    BY <1>1, <1>2, <1>3, Zenon

\* A list without its last interface.
LEMMA FrontRest ==
    ASSUME NEW S, NEW s \in Seq(S), IsInjective(s), s # << >>, NEW q, q = SubSeq(s, 1, Len(s) - 1)
    PROVE  /\ q \in Seq(S) /\ IsInjective(q) /\ s[Len(s)] \in Range(s)
           /\ Range(q) = Range(s) \ {s[Len(s)]}
  <1>1. /\ DOMAIN s = 1 .. Len(s) /\ Len(s) \in Nat \ {0}
        /\ q \in Seq(S) /\ DOMAIN q = 1 .. (Len(s) - 1)
        /\ \A i \in 1 .. (Len(s) - 1) : q[i] = s[i]
    OBVIOUS
  <1>2. IsInjective(q)
    BY <1>1 DEF IsInjective
  <1>3. s[Len(s)] \in Range(s)
    BY <1>1 DEF Range
  <1>4. Range(q) \subseteq Range(s) \ {s[Len(s)]}
    BY <1>1 DEF Range, IsInjective
  <1>5. ASSUME NEW x \in Range(s) \ {s[Len(s)]} PROVE x \in Range(q)
    <2>1. PICK i \in 1 .. Len(s) : x = s[i]
      BY <1>1, Zenon DEF Range
    <2>2. i \in 1 .. (Len(s) - 1) /\ q[i] = x
      BY <1>1, <2>1
    <2> QED
      BY <1>1, <2>2, Zenon DEF Range
  <1> QED
    BY <1>1, <1>2, <1>3, <1>4, <1>5, Zenon

\* The empty list has none.
LEMMA EmptySeqIs == << >> \in Seq({}) /\ \A S : << >> \in Seq(S) /\ Range(<< >>) = {} /\ IsInjective(<< >>)
  BY DEF Range, IsInjective

\* The interfaces the driver may make.
Ifaces == {Bridge(z) : z \in Zones} \cup {Tunnel(z) : z \in Zones} \cup {SharedBridge}
\* CreateZone under way: interfaces still to be made, and made.
ZoneCalls == [at : {"zone"}, zone : Zones, todo : Seq(Ifaces), made : Seq(Ifaces)]
\* DeleteZone under way: interfaces still to be removed.
UnlinkCalls == [at : {"unlink"}, todo : Seq(Ifaces)]

\* The interfaces a call under way has made or has still to remove.
HeldIfaces(a) == IF netCalls[a].at = "zone" THEN netCalls[a].made
            ELSE IF netCalls[a].at = "unlink" THEN netCalls[a].todo ELSE << >>

\* Types of the calls and of zoneIfaces.
NwShapes ==
    /\ netCalls = [a \in Admins |-> netCalls[a]]
    /\ \A a \in Admins : /\ netCalls[a].at = "zone" => netCalls[a] \in ZoneCalls
                         /\ netCalls[a].at = "unlink" => netCalls[a] \in UnlinkCalls
    /\ zoneIfaces \in [DOMAIN zoneIfaces -> Seq(Ifaces)]

\* The interfaces of a recorded zone exist and are listed under no other.
TableOwns ==
    \A z \in DOMAIN zoneIfaces :
        /\ IsInjective(zoneIfaces[z]) /\ Range(zoneIfaces[z]) \subseteq links
        /\ \A y \in DOMAIN zoneIfaces \ {z} : Range(zoneIfaces[z]) \cap Range(zoneIfaces[y]) = {}

\* What a call has made and not recorded, or forgotten and not removed, exists and is
\* nobody else's.
CallOwns ==
    \A a \in Admins :
        /\ IsInjective(HeldIfaces(a)) /\ Range(HeldIfaces(a)) \subseteq links
        /\ \A b \in Admins \ {a} : Range(HeldIfaces(a)) \cap Range(HeldIfaces(b)) = {}
        /\ \A z \in DOMAIN zoneIfaces : Range(HeldIfaces(a)) \cap Range(zoneIfaces[z]) = {}

\* The inductive invariant behind ZoneOwnsIfaces.
NwInv == NwShapes /\ TableOwns /\ CallOwns

\* There are no zones at first.
LEMMA NwInitInv == NwInit => NwInv
  <1> SUFFICES ASSUME NwInit PROVE NwInv
    OBVIOUS
  <1>1. DOMAIN zoneIfaces = {} /\ zoneIfaces \in [DOMAIN zoneIfaces -> Seq(Ifaces)]
    BY Zenon DEF NwInit, Empty
  <1>2. \A a \in Admins : netCalls[a].at = "idle" /\ HeldIfaces(a) = << >>
    BY Zenon DEF NwInit, NoNetCall, HeldIfaces
  <1>3. NwShapes
    BY <1>1, <1>2, Zenon DEF NwInit, NwShapes
  <1> QED
    BY <1>1, <1>2, <1>3, EmptySeqIs, Zenon DEF NwInv, TableOwns, CallOwns

\* The invariant gives the property.
LEMMA OwnedIsHeld == NwInv => ZoneOwnsIfaces
  <1> SUFFICES ASSUME NwInv, NEW z \in DOMAIN zoneIfaces, NEW i \in Range(zoneIfaces[z])
               PROVE  /\ i \in links
                      /\ \A y \in DOMAIN zoneIfaces \ {z} : i \notin Range(zoneIfaces[y])
                      /\ \A a \in Admins : netCalls[a].at = "unlink" => i \notin Range(netCalls[a].todo)
    BY Zenon DEF ZoneOwnsIfaces
  <1>1. \A a \in Admins : netCalls[a].at = "unlink" => HeldIfaces(a) = netCalls[a].todo
    BY Zenon DEF HeldIfaces
  <1> QED
    BY <1>1, Zenon DEF NwInv, TableOwns, CallOwns

\* A step that 
LEMMA CallTurns ==
    ASSUME NwInv, NEW a \in Admins, NEW r, netCalls' = [netCalls EXCEPT ![a] = r],
           r.at = "zone" => r \in ZoneCalls, r.at = "unlink" => r \in UnlinkCalls
    PROVE  /\ netCalls' = [b \in Admins |-> netCalls'[b]]
           /\ \A b \in Admins : /\ netCalls'[b].at = "zone" => netCalls'[b] \in ZoneCalls
                                /\ netCalls'[b].at = "unlink" => netCalls'[b] \in UnlinkCalls
           /\ \A b \in Admins \ {a} : HeldIfaces(b)' = HeldIfaces(b)
           /\ r.at = "zone" => HeldIfaces(a)' = r.made
           /\ r.at = "unlink" => HeldIfaces(a)' = r.todo
           /\ r.at \notin {"zone", "unlink"} => HeldIfaces(a)' = << >>
  BY Zenon DEF NwInv, NwShapes, HeldIfaces

\* lets go of what it holds
LEMMA NetLetsGo ==
    ASSUME NwInv, NEW a \in Admins, NEW r, netCalls' = [netCalls EXCEPT ![a] = r],
           \/ r.at \notin {"zone", "unlink"}
           \/ r \in ZoneCalls /\ r.made = << >>
           \/ r \in UnlinkCalls /\ r.todo = << >>,
           UNCHANGED zoneIfaces, links \subseteq links'
    PROVE  NwInv'
  <1>1. /\ netCalls' = [b \in Admins |-> netCalls'[b]]
        /\ \A b \in Admins : /\ netCalls'[b].at = "zone" => netCalls'[b] \in ZoneCalls
                             /\ netCalls'[b].at = "unlink" => netCalls'[b] \in UnlinkCalls
        /\ \A b \in Admins \ {a} : HeldIfaces(b)' = HeldIfaces(b)
        /\ HeldIfaces(a)' = << >>
    BY CallTurns, Zenon DEF ZoneCalls, UnlinkCalls
  <1>2. NwShapes'
    BY <1>1, Zenon DEF NwInv, NwShapes
  <1>3. TableOwns'
    BY Zenon DEF NwInv, TableOwns
  <1>4. CallOwns'
    BY <1>1, EmptySeqIs DEF NwInv, CallOwns
  <1> QED
    BY <1>2, <1>3, <1>4, Zenon DEF NwInv

\* The absent call is idle.
LEMMA IdleNetCall == NoNetCall.at = "idle"
  BY DEF NoNetCall

\* ip link add: made by this call, as the kernel refuses a name it has.
LEMMA ZoneLinkInv == ASSUME NwInv, NEW a \in Admins, NftZoneLink(a) PROVE NwInv'
  <1>0. UNCHANGED zoneIfaces /\ netCalls[a] \in ZoneCalls /\ netCalls[a].todo # << >>
    BY DEF NftZoneLink, tables, NwInv, NwShapes
  <1>1. CASE NetDone(a, 500) /\ links \subseteq links'
    <2>1. PICK r : r = NoNetCall
      OBVIOUS
    <2> QED
      BY <1>0, <1>1, <2>1, NetLetsGo, IdleNetCall, Zenon DEF NetDone
  <1>2. CASE /\ Head(netCalls[a].todo) \notin links
             /\ links' = links \cup {Head(netCalls[a].todo)}
             /\ NetGoOn(a, [netCalls[a] EXCEPT !.todo = Tail(@),
                                               !.made = Append(@, Head(netCalls[a].todo))])
    <2>1. PICK c \in ZoneCalls : c = netCalls[a]
      BY <1>0, Zenon
    <2>2. PICK i : i = Head(c.todo)
      OBVIOUS
    <2>3. i \in Ifaces /\ Tail(c.todo) \in Seq(Ifaces)
      BY <1>0, <2>1, <2>2 DEF ZoneCalls
    <2>4. PICK m : m = Append(c.made, i)
      BY Zenon
    <2>5. c.made = HeldIfaces(a) /\ c.made \in Seq(Ifaces) /\ IsInjective(c.made) /\ i \notin Range(c.made)
      BY <1>2, <2>1, <2>2, Zenon DEF HeldIfaces, ZoneCalls, NwInv, CallOwns
    <2>6. m \in Seq(Ifaces) /\ IsInjective(m) /\ Range(m) = Range(c.made) \cup {i}
      BY <2>3, <2>4, <2>5, AppendFresh
    <2>7. PICK r : r = [c EXCEPT !.todo = Tail(@), !.made = m]
      OBVIOUS
    <2>8. r \in ZoneCalls /\ r.made = m /\ r.at = "zone"
      BY <2>3, <2>6, <2>7, Zenon DEF ZoneCalls
    <2>9. netCalls' = [netCalls EXCEPT ![a] = r]
      BY <1>2, <2>1, <2>2, <2>4, <2>7 DEF NetGoOn
    <2>10. /\ netCalls' = [b \in Admins |-> netCalls'[b]]
           /\ \A b \in Admins : /\ netCalls'[b].at = "zone" => netCalls'[b] \in ZoneCalls
                                /\ netCalls'[b].at = "unlink" => netCalls'[b] \in UnlinkCalls
           /\ \A b \in Admins \ {a} : HeldIfaces(b)' = HeldIfaces(b)
           /\ HeldIfaces(a)' = m
      BY <2>8, <2>9, CallTurns, Zenon
    <2>11. NwShapes'
      BY <1>0, <2>10, Zenon DEF NwInv, NwShapes
    <2>12. links' = links \cup {i} /\ i \notin links
      BY <1>2, <2>1, <2>2, Zenon
    <2>13. TableOwns'
      BY <1>0, <2>12, Zenon DEF NwInv, TableOwns
    <2>14. CallOwns'
      <3>1. IsInjective(HeldIfaces(a)') /\ Range(HeldIfaces(a)') = Range(HeldIfaces(a)) \cup {i}
        BY <2>5, <2>6, <2>10, Zenon
      <3>2. \A b \in Admins : i \notin Range(HeldIfaces(b))
        BY <2>12, Zenon DEF NwInv, CallOwns
      <3>3. \A z \in DOMAIN zoneIfaces : i \notin Range(zoneIfaces[z])
        BY <2>12, Zenon DEF NwInv, TableOwns
      <3> QED
        BY <1>0, <2>10, <2>12, <3>1, <3>2, <3>3 DEF NwInv, CallOwns
    <2> QED
      BY <2>11, <2>13, <2>14 DEF NwInv
  <1> QED
    BY <1>1, <1>2 DEF NftZoneLink

\* What the call made becomes the zone's.
LEMMA ZoneRecordInv == ASSUME NwInv, NEW a \in Admins, NftZoneRecord(a) PROVE NwInv'
  <1>0. UNCHANGED links /\ netCalls[a] \in ZoneCalls
    BY Zenon DEF NftZoneRecord, Kernel, NwInv, NwShapes
  <1>1. PICK r : r = NoNetCall /\ r.at = "idle" /\ netCalls' = [netCalls EXCEPT ![a] = r]
    BY Zenon DEF NoNetCall, NftZoneRecord, NetDone
  <1>2. CASE UNCHANGED zoneIfaces
    BY <1>0, <1>1, <1>2, NetLetsGo, Zenon
  <1>3. CASE zoneIfaces' = Put(zoneIfaces, netCalls[a].zone, netCalls[a].made)
    <2>1. PICK y, m : y = netCalls[a].zone /\ m = netCalls[a].made
      OBVIOUS
    <2>2. m \in Seq(Ifaces) /\ m = HeldIfaces(a)
      BY <1>0, <2>1, Zenon DEF ZoneCalls, HeldIfaces
    <2>3. /\ DOMAIN zoneIfaces' = DOMAIN zoneIfaces \cup {y}
          /\ zoneIfaces'[y] = m
          /\ \A z \in DOMAIN zoneIfaces \ {y} : zoneIfaces'[z] = zoneIfaces[z]
          /\ zoneIfaces' \in [DOMAIN zoneIfaces' -> Seq(Ifaces)]
      BY <1>3, <2>1, <2>2, Zenon DEF Put, NwInv, NwShapes
    <2>4. /\ netCalls' = [b \in Admins |-> netCalls'[b]]
          /\ \A b \in Admins : /\ netCalls'[b].at = "zone" => netCalls'[b] \in ZoneCalls
                               /\ netCalls'[b].at = "unlink" => netCalls'[b] \in UnlinkCalls
          /\ \A b \in Admins \ {a} : HeldIfaces(b)' = HeldIfaces(b)
          /\ HeldIfaces(a)' = << >>
      BY <1>1, CallTurns, Zenon
    <2>5. NwShapes'
      BY <2>3, <2>4, Zenon DEF NwShapes
    <2>6. TableOwns'
      BY <1>0, <2>2, <2>3, Zenon DEF NwInv, TableOwns, CallOwns
    <2>7. CallOwns'
      BY <1>0, <2>2, <2>3, <2>4, EmptySeqIs, Zenon DEF NwInv, CallOwns
    <2> QED
      BY <2>5, <2>6, <2>7 DEF NwInv
  <1> QED
    BY <1>2, <1>3, Zenon DEF NftZoneRecord

\* DeleteZone takes the zone's interfaces over, last made first.
LEMMA ZoneForgetInv ==
    ASSUME NwInv, NEW a \in Admins, NEW z \in Zones, NftZoneForget(a, z)
    PROVE  NwInv'
  <1>0. UNCHANGED links
    BY Zenon DEF NftZoneForget, Kernel
  <1>1. CASE NetDone(a, 404) /\ UNCHANGED zoneIfaces
    <2>1. PICK r : r = NoNetCall
      OBVIOUS
    <2> QED
      BY <1>0, <1>1, <2>1, NetLetsGo, IdleNetCall, Zenon DEF NetDone
  <1>2. CASE /\ zoneIfaces' = Del(zoneIfaces, z)
             /\ NetGoOn(a, [at |-> "unlink",
                   todo |-> IF z \in DOMAIN zoneIfaces THEN zoneIfaces[z] ELSE << >>])
    <2>1. PICK q : q = IF z \in DOMAIN zoneIfaces THEN zoneIfaces[z] ELSE << >>
      OBVIOUS
    <2>2. /\ q \in Seq(Ifaces) /\ IsInjective(q)
          /\ Range(q) = IF z \in DOMAIN zoneIfaces THEN Range(zoneIfaces[z]) ELSE {}
      BY <2>1, EmptySeqIs, Zenon DEF NwInv, NwShapes, TableOwns
    <2>3. PICK r : r = [at |-> "unlink", todo |-> q]
      BY Zenon
    <2>4. r \in UnlinkCalls /\ r.at = "unlink" /\ r.todo = q
      BY <2>2, <2>3, Zenon DEF UnlinkCalls
    <2>5. netCalls' = [netCalls EXCEPT ![a] = r]
      BY <1>2, <2>1, <2>3, Zenon DEF NetGoOn
    <2>6. /\ netCalls' = [b \in Admins |-> netCalls'[b]]
          /\ \A b \in Admins : /\ netCalls'[b].at = "zone" => netCalls'[b] \in ZoneCalls
                               /\ netCalls'[b].at = "unlink" => netCalls'[b] \in UnlinkCalls
          /\ \A b \in Admins \ {a} : HeldIfaces(b)' = HeldIfaces(b)
          /\ HeldIfaces(a)' = q
      <3>1. r.at # "zone"
        BY <2>4, Zenon
      <3> QED
        BY <2>4, <2>5, <3>1, CallTurns, Zenon
    <2>7. /\ DOMAIN zoneIfaces' = DOMAIN zoneIfaces \ {z}
          /\ \A y \in DOMAIN zoneIfaces' : zoneIfaces'[y] = zoneIfaces[y]
          /\ zoneIfaces' \in [DOMAIN zoneIfaces' -> Seq(Ifaces)]
      BY <1>2, Zenon DEF Del, Restrict, NwInv, NwShapes
    <2>8. NwShapes'
      BY <2>6, <2>7, Zenon DEF NwShapes
    <2>9. TableOwns'
      BY <1>0, <2>7, Zenon DEF NwInv, TableOwns
    <2>10. CallOwns'
      BY <1>0, <2>2, <2>6, <2>7, ZenonT(60) DEF NwInv, CallOwns, TableOwns
    <2> QED
      BY <2>8, <2>9, <2>10 DEF NwInv
  <1> QED
    BY <1>1, <1>2, Zenon DEF NftZoneForget

\* ip link del: an interface leaves the kernel and the call's list.
LEMMA ZoneUnlinkInv == ASSUME NwInv, NEW a \in Admins, NftZoneUnlink(a) PROVE NwInv'
  <1>0. UNCHANGED zoneIfaces /\ netCalls[a] \in UnlinkCalls
    BY DEF NftZoneUnlink, tables, NwInv, NwShapes
  <1>1. CASE NetDone(a, 204) /\ UNCHANGED links
    <2>1. PICK r : r = NoNetCall
      OBVIOUS
    <2> QED
      BY <1>0, <1>1, <2>1, NetLetsGo, IdleNetCall, Zenon DEF NetDone
  <1>2. CASE /\ netCalls[a].todo # << >>
             /\ links' \in {links, links \ {netCalls[a].todo[Len(netCalls[a].todo)]}}
             /\ NetGoOn(a, [netCalls[a] EXCEPT !.todo =
                               SubSeq(netCalls[a].todo, 1, Len(netCalls[a].todo) - 1)])
    <2>1. PICK c \in UnlinkCalls : c = netCalls[a]
      BY <1>0
    <2>2. PICK i, q : i = c.todo[Len(c.todo)] /\ q = SubSeq(c.todo, 1, Len(c.todo) - 1)
      BY Zenon
    <2>3. c.todo = HeldIfaces(a) /\ c.todo \in Seq(Ifaces) /\ IsInjective(c.todo) /\ c.todo # << >>
      BY <1>2, <2>1, Zenon DEF HeldIfaces, UnlinkCalls, NwInv, CallOwns
    <2>4. /\ q \in Seq(Ifaces) /\ IsInjective(q) /\ i \in Range(c.todo)
          /\ Range(q) = Range(c.todo) \ {i}
      BY <2>2, <2>3, FrontRest, Zenon
    <2>5. PICK r : r = [c EXCEPT !.todo = q]
      BY Zenon
    <2>6. r \in UnlinkCalls /\ r.todo = q /\ r.at = "unlink"
      BY <2>4, <2>5 DEF UnlinkCalls
    <2>7. netCalls' = [netCalls EXCEPT ![a] = r]
      BY <1>2, <2>1, <2>2, <2>5, Zenon DEF NetGoOn
    <2>8. /\ netCalls' = [b \in Admins |-> netCalls'[b]]
          /\ \A b \in Admins : /\ netCalls'[b].at = "zone" => netCalls'[b] \in ZoneCalls
                               /\ netCalls'[b].at = "unlink" => netCalls'[b] \in UnlinkCalls
          /\ \A b \in Admins \ {a} : HeldIfaces(b)' = HeldIfaces(b)
          /\ HeldIfaces(a)' = q
      <3>1. r.at # "zone"
        BY <2>6
      <3> QED
        BY <2>6, <2>7, <3>1, CallTurns, Zenon
    <2>9. NwShapes'
      BY <1>0, <2>8, Zenon DEF NwInv, NwShapes
    <2>10. links \ {i} \subseteq links'
      BY <1>2, <2>1, <2>2, Zenon
    <2>11. TableOwns'
      BY <1>0, <2>3, <2>4, <2>10 DEF NwInv, TableOwns, CallOwns
    <2>12. CallOwns'
      BY <1>0, <2>3, <2>4, <2>8, <2>10 DEF NwInv, CallOwns
    <2> QED
      BY <2>9, <2>11, <2>12, Zenon DEF NwInv
  <1> QED
    BY <1>1, <1>2, Zenon DEF NftZoneUnlink

\* Steps on rules and networks.
LEMMA NetKept ==
    ASSUME NwInv, UNCHANGED <<zoneIfaces, links, netCalls>>
    PROVE  NwInv'
  <1>1. \A a : HeldIfaces(a)' = HeldIfaces(a)
    BY Zenon DEF HeldIfaces
  <1> QED
    BY <1>1, Zenon DEF NwInv, NwShapes, TableOwns, CallOwns

\* CreateZone begins with nothing made.
LEMMA ZoneEnterInv ==
    ASSUME NwInv, NEW a \in Admins, NEW z \in Zones, NftZoneEnter(a, z)
    PROVE  NwInv'
  <1>1. PICK tunnel \in {<< >>, <<Tunnel(z)>>}, bridge \in {<<Bridge(z)>>, <<SharedBridge>>} :
            NetGoOn(a, [at |-> "zone", zone |-> z, todo |-> tunnel \o bridge, made |-> << >>])
    BY Zenon DEF NftZoneEnter
  <1>2. PICK q : q = tunnel \o bridge
    BY Zenon
  <1>3. q \in Seq(Ifaces)
    <2>1. Tunnel(z) \in Ifaces /\ Bridge(z) \in Ifaces /\ SharedBridge \in Ifaces
      BY Zenon DEF Ifaces
    <2>2. \A i \in Ifaces : <<i>> \in Seq(Ifaces)
      OBVIOUS
    <2>3. tunnel \in Seq(Ifaces) /\ bridge \in Seq(Ifaces)
      BY <2>1, <2>2, EmptySeqIs, Zenon
    <2> QED
      BY <1>2, <2>3
  <1>4. PICK r : r = [at |-> "zone", zone |-> z, todo |-> q, made |-> << >>]
    BY Zenon
  <1>5. r \in ZoneCalls /\ r.made = << >>
    BY <1>3, <1>4, EmptySeqIs, Zenon DEF ZoneCalls
  <1>6. netCalls' = [netCalls EXCEPT ![a] = r] /\ UNCHANGED <<zoneIfaces, links>>
    BY <1>1, <1>2, <1>4, Zenon DEF NetGoOn, NftZoneEnter, Kernel
  <1> QED
    BY <1>5, <1>6, NetLetsGo, Zenon

\* No step of the driver disturbs it.
LEMMA NwStepInv == NwInv /\ [NwNext]_nwVars => NwInv'
  <1> SUFFICES ASSUME NwInv, [NwNext]_nwVars PROVE NwInv'
    OBVIOUS
  <1>1. CASE \E a \in Admins : NftZoneLink(a) \/ NftZoneRecord(a) \/ NftZoneUnlink(a)
    BY <1>1, ZoneLinkInv, ZoneRecordInv, ZoneUnlinkInv, Zenon
  <1>2. CASE \E a \in Admins, z \in Zones : NftZoneEnter(a, z) \/ NftZoneForget(a, z)
    BY <1>2, ZoneEnterInv, ZoneForgetInv
  <1>3. ASSUME NEW a \in Admins, NftRuleEnter(a) PROVE NwInv'
    <2>1. PICK r : r = [at |-> "rule", id |-> nextRuleID]
      BY Zenon
    <2>2. r.at = "rule"
      BY <2>1, Zenon
    <2> QED
      BY <1>3, <2>1, <2>2, NetLetsGo, Zenon DEF NftRuleEnter, NetGoOn, Kernel
  <1>4. ASSUME NEW a \in Admins, NftRuleApply(a) PROVE NwInv'
    <2>1. PICK r : r = NoNetCall
      OBVIOUS
    <2> QED
      BY <1>4, <2>1, NetLetsGo, IdleNetCall, Zenon DEF NftRuleApply, NetDone
  <1>5. CASE UNCHANGED <<zoneIfaces, links, netCalls>>
    BY <1>5, NetKept
  <1>6. \/ UNCHANGED <<zoneIfaces, links, netCalls>>
        \/ \E a \in Admins : NftZoneLink(a) \/ NftZoneRecord(a) \/ NftZoneUnlink(a)
        \/ \E a \in Admins, z \in Zones : NftZoneEnter(a, z) \/ NftZoneForget(a, z)
        \/ \E a \in Admins : NftRuleEnter(a) \/ NftRuleApply(a)
    BY DEF NwNext, nwVars, tables, Kernel, handleCreateZone, handleDeleteZone, CreateVNet, DeleteVNet,
           CreateFirewallRule, DeleteFirewallRule, handleNetworkZones, handleNetworkVNets,
           handleFirewallRules, MemCreateZone, MemDeleteZone, MemCreateFirewallRule
  <1> QED
    BY <1>1, <1>2, <1>3, <1>4, <1>5, <1>6, Zenon

\* For any number of administrators and zones: the interfaces recorded for a zone exist,
\* no other zone has them and no deletion under way will take them, though table and
\* kernel are not changed under one lock.
THEOREM InterfacesHaveOneOwner == NwSpec => []ZoneOwnsIfaces
  BY NwInitInv, NwStepInv, OwnedIsHeld, PTL DEF NwSpec

-----
\* The inductive invariant behind EnabledIsApplied.
RuleInv ==
    /\ netCalls = [a \in Admins |-> netCalls[a]]
    /\ EnabledIsApplied

\* Steps that add no rule.
LEMMA RuleKept ==
    ASSUME RuleInv, UNCHANGED <<nft, chain>>,
           \A r \in DOMAIN rules' : r \in DOMAIN rules /\ rules'[r] = rules[r],
           UNCHANGED netCalls
           \/ \E a \in Admins : \E r : netCalls[a].at # "rule" /\ netCalls' = [netCalls EXCEPT ![a] = r]
    PROVE  RuleInv'
  BY DEF RuleInv, EnabledIsApplied

\* No step of the driver disturbs it.
LEMMA RuleStepInv == RuleInv /\ [NwNext]_nwVars => RuleInv'
  <1> SUFFICES ASSUME RuleInv, [NwNext]_nwVars PROVE RuleInv'
    OBVIOUS
  <1>1. ASSUME NEW a \in Admins, NftZoneLink(a) \/ NftZoneRecord(a) \/ NftZoneUnlink(a) PROVE RuleInv'
    <2>1. netCalls[a].at # "rule" /\ UNCHANGED <<nft, chain, rules>>
      BY <1>1, Zenon DEF NftZoneLink, NftZoneRecord, NftZoneUnlink, tables, Kernel
    <2>2. \E r : netCalls' = [netCalls EXCEPT ![a] = r]
      BY <1>1 DEF NftZoneLink, NftZoneRecord, NftZoneUnlink, NetGoOn, NetDone
    <2> QED
      BY <2>1, <2>2, RuleKept, Zenon
  <1>2. ASSUME NEW a \in Admins, NEW z \in Zones, NftZoneEnter(a, z) \/ NftZoneForget(a, z) PROVE RuleInv'
    <2>1. netCalls[a].at # "rule" /\ UNCHANGED <<nft, chain, rules>>
      BY <1>2, IdleNetCall, Zenon DEF NftZoneEnter, NftZoneForget, tables, Kernel
    <2>2. \E r : netCalls' = [netCalls EXCEPT ![a] = r]
      BY <1>2, Zenon DEF NftZoneEnter, NftZoneForget, NetGoOn, NetDone
    <2> QED
      BY <2>1, <2>2, RuleKept, Zenon
  <1>3. ASSUME NEW a \in Admins, NftRuleEnter(a) PROVE RuleInv'
    <2>1. PICK r : r = [at |-> "rule", id |-> nextRuleID]
      BY Zenon
    <2>2. r.at = "rule" /\ r.id = nextRuleID
      BY <2>1, Zenon
    <2>3. /\ netCalls' = [netCalls EXCEPT ![a] = r] /\ netCalls[a].at = "idle"
          /\ UNCHANGED <<nft, chain>>
          /\ rules' = Put(rules, nextRuleID, TRUE)
      BY <1>3, <2>1, IdleNetCall, Zenon DEF NftRuleEnter, NetGoOn, Kernel, AddRule
    <2> QED
      BY <2>2, <2>3, Zenon DEF RuleInv, EnabledIsApplied, Put
  <1>4. ASSUME NEW a \in Admins, NftRuleApply(a) PROVE RuleInv'
    <2>1. PICK id : id = netCalls[a].id
      OBVIOUS
    <2>2. netCalls' = [netCalls EXCEPT ![a] = NoNetCall] /\ UNCHANGED nft
      BY <1>4, Zenon DEF NftRuleApply, NetDone
    <2>3. CASE chain' = chain \cup {id} /\ UNCHANGED rules
      BY <2>1, <2>2, <2>3, Zenon DEF RuleInv, EnabledIsApplied
    <2>4. CASE /\ UNCHANGED chain
               /\ rules' = IF id \in DOMAIN rules THEN [rules EXCEPT ![id] = FALSE] ELSE rules
      <3>1. DOMAIN rules' = DOMAIN rules /\ \A s \in DOMAIN rules : s # id => rules'[s] = rules[s]
        BY <2>4, Zenon
      <3>2. id \in DOMAIN rules => rules'[id] = FALSE
        BY <2>4, Zenon
      <3>3. \A b \in Admins \ {a} : netCalls'[b] = netCalls[b]
        BY <2>2, Zenon DEF RuleInv
      <3> QED
        BY <2>1, <2>2, <2>4, <3>1, <3>2, <3>3 DEF RuleInv, EnabledIsApplied
    <2> QED
      BY <1>4, <2>1, <2>3, <2>4, Zenon DEF NftRuleApply
  <1>5. CASE UNCHANGED <<nft, chain, rules, netCalls>>
    BY <1>5, RuleKept, Zenon
  <1>6. CASE DeleteFirewallRule
    BY <1>6, RuleKept, Zenon DEF DeleteFirewallRule, Del, Restrict, Kernel
  <1>7. CASE MemCreateFirewallRule /\ ~nft
    BY <1>7, Zenon DEF MemCreateFirewallRule, RuleInv, EnabledIsApplied
  <1>8. \/ UNCHANGED <<nft, chain, rules, netCalls>>
        \/ \E a \in Admins : NftZoneLink(a) \/ NftZoneRecord(a) \/ NftZoneUnlink(a)
        \/ \E a \in Admins, z \in Zones : NftZoneEnter(a, z) \/ NftZoneForget(a, z)
        \/ \E a \in Admins : NftRuleEnter(a) \/ NftRuleApply(a)
        \/ DeleteFirewallRule \/ (MemCreateFirewallRule /\ ~nft)
    BY Zenon
       DEF NwNext, nwVars, tables, Kernel, handleCreateZone, handleDeleteZone, CreateVNet, DeleteVNet,
           CreateFirewallRule, handleNetworkZones, handleNetworkVNets,
           handleFirewallRules, MemCreateZone, MemDeleteZone
  <1> QED
    BY <1>1, <1>2, <1>3, <1>4, <1>5, <1>6, <1>7, <1>8, Zenon

\* For any number of administrators and rules: a rule shown as enabled is in the kernel's
\* chain once the request that made it has been answered.
THEOREM EnabledRulesApplied == NwSpec => []EnabledIsApplied
  <1>1. NwInit => RuleInv
    <2>1. NwInit => DOMAIN rules = {}
      BY Zenon DEF NwInit, Empty
    <2> QED
      BY <2>1, Zenon DEF NwInit, RuleInv, EnabledIsApplied
  <1>2. RuleInv => EnabledIsApplied
    BY DEF RuleInv
  <1> QED
    BY <1>1, <1>2, RuleStepInv, PTL DEF NwSpec

-----------------------------------------------------------------------------
(* Dhcp. First what the scan of AllocateIP looks at (a recursive function, *)
(* by way of the first candidate that would be wrong), then the pools.     *)

\* The k-th address after start: in the 4-byte form the last one is followed by 0.
Nth(start, short, k) == IF short /\ start + k > Top THEN start + k - Top - 1 ELSE start + k

\* Incrementing repeatedly counts through the addresses.
LEMMA NthNext ==
    ASSUME NEW start \in Address, NEW short \in BOOLEAN, NEW k \in 1 .. (Top + 1)
    PROVE  Nth(start, short, k) = incrementIP(Nth(start, short, k - 1), short)
  BY TopAssumption DEF Nth, incrementIP, Address

\* The scan of AllocateIP is well defined.
LEMMA ScanIs ==
    ASSUME NEW pool, pool.start \in Address, pool.short \in BOOLEAN
    PROVE  Candidates(pool) =
              [k \in 0 .. (Top + 1) |-> IF k = 0 THEN pool.start
                                        ELSE incrementIP(Candidates(pool)[k - 1], pool.short)]
  <1> DEFINE Scan(c) == [k \in 0 .. (Top + 1) |-> IF k = 0 THEN pool.start
                                                  ELSE incrementIP(c[k - 1], pool.short)]
             w == [k \in 0 .. (Top + 1) |-> Nth(pool.start, pool.short, k)]
  <1>1. ASSUME NEW k \in 0 .. (Top + 1)
        PROVE  w[k] = IF k = 0 THEN pool.start ELSE incrementIP(w[k - 1], pool.short)
    <2>1. CASE k = 0
      BY <2>1, TopAssumption DEF Nth, Address
    <2>2. CASE k # 0
      <3>1. k \in 1 .. (Top + 1) /\ k - 1 \in 0 .. (Top + 1)
        BY <2>2, TopAssumption
      <3> QED
        BY <2>2, <3>1, NthNext, Zenon
    <2> QED
      BY <2>1, <2>2, Zenon
  <1>2. w = Scan(w)
    BY <1>1, Zenon
  <1>3. Candidates(pool) = CHOOSE c : c = Scan(c)
    BY DEF Candidates
  <1> QED
    BY <1>2, <1>3, Zenon

\* The scan looks at one address after the other, from the start of the range.  There
\* would otherwise be a first candidate that is not where it should be.
LEMMA ScanCounts ==
    ASSUME NEW pool, pool.start \in Address, pool.short \in BOOLEAN, NEW n \in 0 .. (Top + 1)
    PROVE  Candidates(pool)[n] = Nth(pool.start, pool.short, n)
  <1> DEFINE Off == {k \in 0 .. (Top + 1) : Candidates(pool)[k] # Nth(pool.start, pool.short, k)}
  <1> SUFFICES ASSUME Off # {} PROVE FALSE
    OBVIOUS
  <1>1. Off \in SUBSET Nat
    BY TopAssumption
  <1>2. PICK k \in Off : \A j \in Off : <<j, k>> \notin OpToRel(<, Nat)
    BY <1>1, WFMin, NatLessThanWellFounded, Zenon
  <1>3. k \in 0 .. (Top + 1) /\ Candidates(pool)[k] # Nth(pool.start, pool.short, k)
    OBVIOUS
  <1>4. CASE k = 0
    <2>1. Nth(pool.start, pool.short, 0) = pool.start
      BY TopAssumption DEF Nth, Address
    <2>2. Candidates(pool)[0] = pool.start
      BY ScanIs, TopAssumption
    <2> QED
      BY <1>3, <1>4, <2>1, <2>2, Zenon
  <1>5. CASE k # 0
    <2>1. k \in 1 .. (Top + 1) /\ k - 1 \in 0 .. (Top + 1) /\ k - 1 \in Nat /\ k \in Nat /\ k - 1 < k
      BY <1>3, <1>5, TopAssumption
    <2>2. <<k - 1, k>> \in OpToRel(<, Nat)
      BY <2>1, Zenon DEF OpToRel
    <2>3. Candidates(pool)[k - 1] = Nth(pool.start, pool.short, k - 1)
      BY <1>2, <2>1, <2>2, Zenon
    <2>4. Candidates(pool)[k] = incrementIP(Candidates(pool)[k - 1], pool.short)
      BY <1>3, <1>5, ScanIs, Zenon
    <2> QED
      BY <1>3, <2>1, <2>3, <2>4, NthNext, Zenon
  <1> QED
    BY <1>4, <1>5, Zenon

\* The record of a pool.
IsPool(pool) ==
    /\ pool = [start |-> pool.start, end |-> pool.end, short |-> pool.short,
               allocated |-> pool.allocated, leases |-> pool.leases]
    /\ pool.start \in Address /\ pool.end \in Address /\ pool.short \in BOOLEAN

\* In a proper range the scan does not leave the range before it ends.
LEMMA ScanStays ==
    ASSUME NEW pool, IsPool(pool), Proper(pool), NEW k \in Address, Reaches(pool, k)
    PROVE  pool.start + k <= pool.end /\ Candidates(pool)[k] = pool.start + k
  <1>1. PICK s \in Address, e \in Address, b \in BOOLEAN :
           s = pool.start /\ e = pool.end /\ b = pool.short
    BY Zenon DEF IsPool
  <1>2. s <= e /\ (b => e < Top)
    BY <1>1, Zenon DEF Proper
  <1>3. ASSUME NEW j \in 1 .. k PROVE Nth(s, b, j) <= e
    <2>1. j \in 0 .. (Top + 1)
      BY TopAssumption DEF Address
    <2>2. Candidates(pool)[j] = Nth(s, b, j)
      BY <1>1, <2>1, ScanCounts, Zenon DEF IsPool
    <2>3. compareIP(Nth(s, b, j), e) <= 0
      BY <1>1, <2>2, Zenon DEF Reaches
    <2>4. Nth(s, b, j) \in Int
      BY <2>1, TopAssumption DEF Nth, Address
    <2> QED
      BY <2>3, <2>4, TopAssumption DEF compareIP, Address
  <1>4. s + k <= e
    <2>1. CASE k = 0
      BY <1>2, <2>1, TopAssumption DEF Address
    <2>2. CASE k # 0 /\ s + k <= Top
      BY <1>3, <2>2, TopAssumption DEF Nth, Address
    <2>3. CASE s + k > Top /\ ~b
      BY <1>3, <2>3, TopAssumption DEF Nth, Address
    <2>4. CASE s + k > Top /\ b
      <3>1. Top - s \in 1 .. k /\ e < Top
        BY <1>2, <2>4, TopAssumption DEF Address
      <3>2. Nth(s, b, Top - s) = Top
        BY <3>1, TopAssumption DEF Nth, Address
      <3> QED
        BY <1>3, <3>1, <3>2, TopAssumption DEF Address
    <2> QED
      BY <2>1, <2>2, <2>3, <2>4, TopAssumption DEF Address
  <1>5. Candidates(pool)[k] = Nth(s, b, k)
    <2>1. k \in 0 .. (Top + 1)
      BY TopAssumption DEF Address
    <2> QED
      BY <1>1, <2>1, ScanCounts, Zenon DEF IsPool
  <1>6. Nth(s, b, k) = s + k
    BY <1>2, <1>4, TopAssumption DEF Nth, Address
  <1> QED
    BY <1>1, <1>4, <1>5, <1>6, Zenon

\* A scan that ends without an address has seen the whole range taken.
LEMMA ScanCovers ==
    ASSUME NEW pool, IsPool(pool), Proper(pool), NEW k \in Address, Reaches(pool, k),
           Candidates(pool)[k] \in pool.allocated,
           compareIP(Candidates(pool)[k + 1], pool.end) > 0
    PROVE  pool.start .. pool.end \subseteq pool.allocated
  <1>1. PICK s \in Address, e \in Address, b \in BOOLEAN :
           s = pool.start /\ e = pool.end /\ b = pool.short
    BY Zenon DEF IsPool
  <1>2. s <= e /\ (b => e < Top) /\ s + k <= e
    BY <1>1, ScanStays, Zenon DEF Proper
  <1>3. k + 1 \in 0 .. (Top + 1)
    BY TopAssumption DEF Address
  <1>4. Candidates(pool)[k + 1] = Nth(s, b, k + 1)
    BY <1>1, <1>3, ScanCounts, Zenon DEF IsPool
  <1>5. Nth(s, b, k + 1) = s + k + 1
    BY <1>2, TopAssumption DEF Nth, Address
  <1>6. s + k = e
    BY <1>1, <1>2, <1>4, <1>5, TopAssumption DEF compareIP, Address
  <1>7. ASSUME NEW a \in s .. e PROVE a \in pool.allocated
    <2>1. PICK j \in 0 .. k : a = s + j
      <3>1. a - s \in 0 .. k /\ a = s + (a - s)
        BY <1>6, TopAssumption DEF Address
      <3> QED
        BY <3>1, Zenon
    <2>2. j \in Address /\ j \in 0 .. (Top + 1)
      BY TopAssumption DEF Address
    <2>3. Candidates(pool)[j] = Nth(s, b, j)
      BY <1>1, <2>2, ScanCounts, Zenon DEF IsPool
    <2>4. Nth(s, b, j) = a
      BY <1>2, <1>6, <2>1, <2>2, TopAssumption DEF Nth, Address
    <2>5. CASE j = k
      BY <2>3, <2>4, <2>5, Zenon
    <2>6. CASE j # k
      <3>1. j \in 0 .. (k - 1)
        BY <2>6 DEF Address
      <3> QED
        BY <2>3, <2>4, <3>1, Zenon DEF Reaches
    <2> QED
      BY <2>5, <2>6, Zenon
  <1> QED
    BY <1>1, <1>7, Zenon

\* A pool whose lease list and allocated set agree.
PoolSound(pool) ==
    /\ DOMAIN pool.leases = pool.allocated
    /\ \A ip \in pool.allocated : pool.leases[ip] = 1
    /\ Proper(pool) => pool.allocated \subseteq pool.start .. pool.end

\* The inductive invariant.
DhInv == \A p \in DOMAIN dhcp : IsPool(dhcp[p]) /\ PoolSound(dhcp[p])

\* A pool with another allocated set and another lease list.
PoolWith(pool, taken, leases) ==
    [start |-> pool.start, end |-> pool.end, short |-> pool.short, allocated |-> taken, leases |-> leases]

\* Updating the two fields of a pool gives that pool.
LEMMA ExceptIs ==
    ASSUME NEW pool, IsPool(pool), NEW taken, NEW leases,
           NEW new, new = [pool EXCEPT !.allocated = taken, !.leases = leases]
    PROVE  new = PoolWith(pool, taken, leases)
  BY Zenon DEF IsPool, PoolWith

\* It has the range of the old one.
LEMMA PoolWithIs ==
    ASSUME NEW pool, IsPool(pool), NEW taken, NEW leases, NEW new, new = PoolWith(pool, taken, leases)
    PROVE  /\ IsPool(new) /\ (Proper(new) <=> Proper(pool))
           /\ new.start = pool.start /\ new.end = pool.end
           /\ new.allocated = taken /\ new.leases = leases
  <1>1. PICK s, e, b : s = pool.start /\ e = pool.end /\ b = pool.short
    OBVIOUS
  <1>2. new = [start |-> s, end |-> e, short |-> b, allocated |-> taken, leases |-> leases]
    BY <1>1, Zenon DEF PoolWith
  <1>3. new.start = s /\ new.end = e /\ new.short = b /\ new.allocated = taken /\ new.leases = leases
    BY <1>2
  <1>4. Proper(new) <=> Proper(pool)
    BY <1>1, <1>3, Zenon DEF Proper
  <1>5. IsPool(new)
    BY <1>1, <1>2, <1>3, Zenon DEF IsPool
  <1> QED
    BY <1>1, <1>3, <1>4, <1>5, Zenon

\* AllocateIP takes an address of the range that nobody has.
LEMMA LeaseSound ==
    ASSUME NEW pool, IsPool(pool), PoolSound(pool), NEW k \in Address, Reaches(pool, k),
           Candidates(pool)[k] \notin pool.allocated,
           NEW new, new = PoolWith(pool, pool.allocated \cup {Candidates(pool)[k]},
                                   Lease(pool.leases, Candidates(pool)[k]))
    PROVE  IsPool(new) /\ PoolSound(new)
  <1>1. PICK ip, taken, leases : /\ ip = Candidates(pool)[k] /\ taken = pool.allocated \cup {ip}
                                 /\ leases = Lease(pool.leases, ip)
    OBVIOUS
  <1>2. new = PoolWith(pool, taken, leases)
    BY <1>1, Zenon
  <1>3. /\ IsPool(new) /\ (Proper(new) <=> Proper(pool))
        /\ new.start = pool.start /\ new.end = pool.end
        /\ new.allocated = taken /\ new.leases = leases
    BY <1>2, PoolWithIs
  <1>4. DOMAIN leases = taken /\ \A a \in taken : leases[a] = 1
    BY <1>1, Zenon DEF PoolSound, Lease, Put
  <1>5. Proper(pool) => ip \in pool.start .. pool.end
    <2>1. ASSUME Proper(pool) PROVE ip = pool.start + k /\ pool.start + k <= pool.end
      BY <1>1, <2>1, ScanStays, Zenon
    <2> QED
      BY <2>1, TopAssumption DEF Address, IsPool
  <1> QED
    BY <1>1, <1>3, <1>4, <1>5, Zenon DEF PoolSound

\* ReleaseIP takes the address out of both.
LEMMA ReleaseSound ==
    ASSUME NEW pool, IsPool(pool), PoolSound(pool), NEW ip,
           NEW new, new = PoolWith(pool, pool.allocated \ {ip}, Del(pool.leases, ip))
    PROVE  IsPool(new) /\ PoolSound(new)
  <1>1. PICK taken, leases : taken = pool.allocated \ {ip} /\ leases = Del(pool.leases, ip)
    OBVIOUS
  <1>2. new = PoolWith(pool, taken, leases)
    BY <1>1, Zenon
  <1>3. /\ IsPool(new) /\ (Proper(new) <=> Proper(pool))
        /\ new.start = pool.start /\ new.end = pool.end
        /\ new.allocated = taken /\ new.leases = leases
    BY <1>2, PoolWithIs
  <1>4. DOMAIN leases = taken /\ \A a \in taken : leases[a] = 1
    BY <1>1, Zenon DEF PoolSound, Del, Restrict
  <1> QED
    BY <1>1, <1>3, <1>4, Zenon DEF PoolSound

\* AddPool, AllocateIP and ReleaseIP keep every pool sound.
LEMMA DhStepInv == DhInv /\ [DhNext]_dhVars => DhInv'
  <1> SUFFICES ASSUME DhInv, [DhNext]_dhVars PROVE DhInv'
    OBVIOUS
  <1>1. CASE UNCHANGED dhcp
    BY <1>1, Zenon DEF DhInv
  <1>2. ASSUME NEW p, NEW new, IsPool(new), PoolSound(new),
               dhcp' = Put(dhcp, p, new) \/ dhcp' = [dhcp EXCEPT ![p] = new]
        PROVE  DhInv'
    BY <1>2 DEF DhInv, Put
  <1>3. CASE AddPool /\ dhcp' # dhcp
    <2>1. PICK p \in PoolNames, x \in Address, y \in Address, short \in BOOLEAN :
             dhcp' = Put(dhcp, p, [start |-> x, end |-> y, short |-> short,
                                   allocated |-> {}, leases |-> Empty])
      BY <1>3, Zenon DEF AddPool
    <2>2. PICK new : new = [start |-> x, end |-> y, short |-> short, allocated |-> {}, leases |-> Empty]
      BY Zenon
    <2>3. IsPool(new) /\ PoolSound(new)
      BY <2>2, Zenon DEF IsPool, PoolSound, Empty
    <2> QED
      BY <1>2, <2>1, <2>2, <2>3, Zenon
  <1>4. ASSUME NEW p, AllocateIP(p), dhcp' # dhcp PROVE DhInv'
    <2>1. PICK pool : pool = dhcp[p]
      OBVIOUS
    <2>2. PICK k \in Address :
             /\ p \in DOMAIN dhcp /\ Reaches(pool, k) /\ Candidates(pool)[k] \notin pool.allocated
             /\ dhcp' = [dhcp EXCEPT ![p].allocated = @ \cup {Candidates(pool)[k]},
                                     ![p].leases = Lease(@, Candidates(pool)[k])]
      BY <1>4, <2>1, Zenon DEF AllocateIP
    <2>3. PICK new : new = PoolWith(pool, pool.allocated \cup {Candidates(pool)[k]},
                                    Lease(pool.leases, Candidates(pool)[k]))
      OBVIOUS
    <2>4. IsPool(pool) /\ PoolSound(pool)
      BY <2>1, <2>2, Zenon DEF DhInv
    <2>5. IsPool(new) /\ PoolSound(new)
      BY <2>2, <2>3, <2>4, LeaseSound
    <2>6. PICK taken, leases : taken = pool.allocated \cup {Candidates(pool)[k]} /\ leases = Lease(pool.leases, Candidates(pool)[k])
      BY Zenon
    <2>7. PICK q : q = [pool EXCEPT !.allocated = taken, !.leases = leases]
      OBVIOUS
    <2>8. q = new
      BY <2>3, <2>4, <2>6, <2>7, ExceptIs, Zenon
    <2>9. dhcp' = [dhcp EXCEPT ![p] = q]
      BY <2>1, <2>2, <2>4, <2>6, <2>7, Zenon DEF IsPool
    <2> QED
      BY <1>2, <2>5, <2>8, <2>9, Zenon
  <1>5. CASE ReleaseIP /\ dhcp' # dhcp
    <2>1. PICK p, ip : /\ p \in DOMAIN dhcp
                       /\ dhcp' = [dhcp EXCEPT ![p].allocated = @ \ {ip}, ![p].leases = Del(@, ip)]
      BY <1>5, ZenonT(60) DEF ReleaseIP
    <2>2. PICK pool : pool = dhcp[p]
      OBVIOUS
    <2>3. PICK new : new = PoolWith(pool, pool.allocated \ {ip}, Del(pool.leases, ip))
      OBVIOUS
    <2>4. IsPool(pool) /\ PoolSound(pool)
      BY <2>1, <2>2 DEF DhInv
    <2>5. IsPool(new) /\ PoolSound(new)
      BY <2>3, <2>4, ReleaseSound, Zenon
    <2>6. PICK taken, leases : taken = pool.allocated \ {ip} /\ leases = Del(pool.leases, ip)
      BY Zenon
    <2>7. PICK q : q = [pool EXCEPT !.allocated = taken, !.leases = leases]
      OBVIOUS
    <2>8. q = new
      BY <2>3, <2>4, <2>6, <2>7, ExceptIs, Zenon
    <2>9. dhcp' = [dhcp EXCEPT ![p] = q]
      BY <2>1, <2>2, <2>4, <2>6, <2>7, Zenon DEF IsPool
    <2> QED
      BY <1>2, <2>5, <2>8, <2>9, Zenon
  <1> QED
    BY <1>1, <1>3, <1>4, <1>5, Zenon
       DEF DhNext, ListLeases, GenerateDnsmasqConfig, dhVars

\* For any number of pools and addresses: no address is leased twice, the allocated set and
\* the lease list agree, and the leases of a proper range lie in it.
THEOREM LeasesAreSound == DhSpec => []LeasesSound
  <1>1. DhInit => DhInv
    BY Zenon DEF DhInit, DhInv, Empty
  <1>2. DhInv => LeasesSound
    BY Zenon DEF DhInv, PoolSound, LeasesSound
  <1> QED
    BY <1>1, <1>2, DhStepInv, PTL DEF DhSpec

\* For any number of pools and addresses: AllocateIP reports a proper pool exhausted only
\* when every address of its range is leased.
THEOREM ExhaustedPoolsAreFull == DhSpec => ExhaustedIsFull
  <1>1. ASSUME DhInv, NEW p \in DOMAIN dhcp, AllocateIP(p), answer' = 507, Proper(dhcp[p])
        PROVE  DOMAIN dhcp[p].leases = dhcp[p].start .. dhcp[p].end
    <2>1. PICK pool : pool = dhcp[p]
      OBVIOUS
    <2>2. IsPool(pool) /\ PoolSound(pool) /\ Proper(pool)
      BY <1>1, <2>1, Zenon DEF DhInv
    <2>3. PICK k \in Address :
             /\ Reaches(pool, k) /\ compareIP(Candidates(pool)[k + 1], pool.end) > 0
             /\ {i \in Address : Reaches(pool, i) /\ Candidates(pool)[i] \notin pool.allocated} = {}
      BY <1>1, <2>1 DEF AllocateIP, Reply
    <2>4. Candidates(pool)[k] \in pool.allocated
      BY <2>3, Zenon
    <2>5. pool.start .. pool.end \subseteq pool.allocated
      BY <2>2, <2>3, <2>4, ScanCovers, Zenon
    <2> QED
      BY <2>1, <2>2, <2>5, Zenon DEF PoolSound
  <1>2. DhInit => DhInv
    BY Zenon DEF DhInit, DhInv, Empty
  <1>3. DhInv /\ [DhNext]_dhVars =>
           \A p \in DOMAIN dhcp :
              AllocateIP(p) /\ answer' = 507 /\ Proper(dhcp[p]) =>
                  DOMAIN dhcp[p].leases = dhcp[p].start .. dhcp[p].end
    BY <1>1
  <1> QED
    BY <1>2, <1>3, DhStepInv, PTL DEF DhSpec, ExhaustedIsFull
=============================================================================
