------------------------------ MODULE Storage ------------------------------
(***************************************************************************)
(* The storage service over its in-memory pools (storage/storage.go with   *)
(* the MemoryDriver, the default), the backup service on top of it         *)
(* (backup/backup.go), their REST handlers and the StorageServer of gRPC.  *)
(*                                                                         *)
(* Every storage call is one critical section.  CreateBackup and           *)
(* handleResizeVolume make several and other requests come in between.     *)
(* Sizes are uint64: they are added modulo Word.                           *)
(***************************************************************************)
EXTENDS Api, FiniteSets

CONSTANTS Clients,              \* requests that can be in flight together
          Pools, UsedAtStart,   \* pools and the UsedBytes they start with
          NoPool,               \* any pool name the service does not know
          Sizes,                \* size_bytes a client may ask for
          BackupSize,           \* the 1 GB placeholder of CreateBackup
          Word,                 \* number of values of the size type
          MaxVolumes, MaxSnapshots, MaxBackups    \* bounds on the counters

ASSUME StorageConstants ==
    /\ Word \in Nat \ {0} /\ UsedAtStart \in 0 .. (Word - 1)
    /\ Sizes \subseteq 0 .. (Word - 1) /\ BackupSize \in 0 .. (Word - 1)
    /\ MaxVolumes \in Nat /\ MaxSnapshots \in Nat /\ MaxBackups \in Nat
    /\ NoPool \notin Pools

VARIABLES used,                 \* Pool.UsedBytes
          volumes, nextVolID, snapshots, nextSnapID,
          backups, nextBackupID,
          calls,                \* what each client's request is in
          wrapped,              \* history: an addition to UsedBytes wrapped
          disks                 \* qcow2 file of the one disk name: exists?

stored == <<volumes, snapshots, backups, used>>
counters == <<nextVolID, nextSnapID, nextBackupID>>
stVars == <<answer, stored, counters, calls, wrapped, disks>>

Idle == [at |-> "idle"]
VolIDs == 1 .. MaxVolumes
SnapIDs == 1 .. MaxSnapshots
BackupIDs == 1 .. MaxBackups

StInit ==
    /\ answer = Pending
    /\ used = [p \in Pools |-> UsedAtStart]
    /\ volumes = Empty /\ snapshots = Empty /\ backups = Empty
    /\ nextVolID = 1 /\ nextSnapID = 1 /\ nextBackupID = 1
    /\ calls = [c \in Clients |-> Idle]
    /\ wrapped = FALSE /\ disks = FALSE

Quiet == UNCHANGED <<stored, counters, calls, wrapped, disks>>
Refuse(code) == Reply(code) /\ Quiet

-----------------------------------------------------------------------------
(* The storage service. *)

\* UsedBytes += n and UsedBytes -= n, the latter only if it does not go below 0.
Charge(p, n) ==
    /\ used' = [used EXCEPT ![p] = (@ + n) % Word]
    /\ wrapped' = (wrapped \/ used[p] + n >= Word)

Release(p, n) ==
    /\ used' = [used EXCEPT ![p] = IF @ >= n THEN @ - n ELSE @]
    /\ UNCHANGED wrapped

\* Mutant: a volume takes the lowest number that is free.
AddVolumeReusing(p, n) ==
    /\ nextVolID <= MaxVolumes
    /\ \E id \in VolIDs \ DOMAIN volumes :
          /\ \A i \in VolIDs \ DOMAIN volumes : id <= i
          /\ volumes' = Put(volumes, id, [pool |-> p, size |-> n])
    /\ nextVolID' = nextVolID + 1

AddVolume(p, n) ==
    /\ nextVolID <= MaxVolumes
    /\ volumes' = Put(volumes, nextVolID, [pool |-> p, size |-> n])
    /\ nextVolID' = nextVolID + 1

CreateVolume(p, n) == AddVolume(p, n) /\ Charge(p, n)

\* Mutant: deleting a volume forgets the pool's accounting.
DeleteVolumeOnly(id) ==
    /\ id \in DOMAIN volumes
    /\ volumes' = Del(volumes, id)
    /\ UNCHANGED <<used, wrapped>>

\* Its snapshots stay behind.
DeleteVolume(id) ==
    /\ id \in DOMAIN volumes
    /\ Release(volumes[id].pool, volumes[id].size)
    /\ volumes' = Del(volumes, id)

CreateSnapshot(vol) ==
    /\ vol \in DOMAIN volumes
    /\ nextSnapID <= MaxSnapshots
    /\ snapshots' = Put(snapshots, nextSnapID, vol)
    /\ nextSnapID' = nextSnapID + 1

\* The new volume has the source volume's size of now, not of the snapshot.
HasSource(id) == id \in DOMAIN snapshots /\ snapshots[id] \in DOMAIN volumes
CloneSnapshot(id) ==
    /\ HasSource(id)
    /\ LET src == volumes[snapshots[id]]
       IN  AddVolume(src.pool, src.size) /\ Charge(src.pool, src.size)

DeleteSnapshot(id) == id \in DOMAIN snapshots /\ snapshots' = Del(snapshots, id)

ResizeVolume(id, n) ==
    /\ id \in DOMAIN volumes
    /\ LET v == volumes[id]
       IN  IF n > v.size THEN Charge(v.pool, n - v.size)
                         ELSE Release(v.pool, v.size - n)
    /\ volumes' = [volumes EXCEPT ![id].size = n]

\* Rollback and export only look the object up with this driver.
RollbackSnapshot(id) == Lookup(id, snapshots, 404)
ExportVolume(id) == Lookup(id, volumes, 404)
GetVolume(id) == Lookup(id, volumes, 404)
ListPools == Reply(200)
ListVolumes == Reply(200)
ListSnapshots == Reply(200)

\* An imported volume has size 0 and is not charged.
ImportVolume(p) == AddVolume(p, 0) /\ UNCHANGED <<used, wrapped>>

-----------------------------------------------------------------------------
(* Handlers with one storage call.  NoPool also stands for the requests    *)
(* that do not decode or miss a required field: all of them get 400.       *)

Untouched == UNCHANGED <<backups, nextBackupID, calls, disks>>

handleCreateVolume ==
    \E p \in Pools \cup {NoPool}, n \in Sizes :
        \/ p \notin Pools /\ Refuse(400)
        \/ p \in Pools /\ CreateVolume(p, n) /\ Reply(201)
           /\ Untouched /\ UNCHANGED <<snapshots, nextSnapID>>

handleDeleteVolume ==
    \E id \in VolIDs :
        \/ id \notin DOMAIN volumes /\ Refuse(404)
        \/ DeleteVolume(id) /\ Reply(204)
           /\ Untouched /\ UNCHANGED <<snapshots, nextVolID, nextSnapID>>

handleImportVolume ==
    \E p \in Pools \cup {NoPool} :
        \/ p \notin Pools /\ Refuse(400)
        \/ p \in Pools /\ ImportVolume(p) /\ Reply(201)
           /\ Untouched /\ UNCHANGED <<snapshots, nextSnapID>>

handleStorageSnapshotClone ==
    \E id \in SnapIDs :
        \/ Refuse(400)                                  \* no name
        \/ ~HasSource(id) /\ Refuse(404)
        \/ CloneSnapshot(id) /\ Reply(201)
           /\ Untouched /\ UNCHANGED <<snapshots, nextSnapID>>

handleDeleteStorageSnapshot ==
    \E id \in SnapIDs :
        \/ id \notin DOMAIN snapshots /\ Refuse(404)
        \/ DeleteSnapshot(id) /\ Reply(204)
           /\ Untouched /\ UNCHANGED <<volumes, used, wrapped, nextVolID, nextSnapID>>

DeleteBackup(id) == id \in DOMAIN backups /\ backups' = Del(backups, id)
GetBackup(id) == Lookup(id, backups, 404)
ListBackups == Reply(200)

handleDeleteBackup ==
    \E id \in BackupIDs :
        \/ id \notin DOMAIN backups /\ Refuse(404)
        \/ /\ DeleteBackup(id) /\ Reply(204)
           /\ UNCHANGED <<volumes, snapshots, used, counters, calls, wrapped,
                          disks>>

\* qemu-img may fail (500); an existing file of that name is replaced.
CreateDisk == \/ Reply(500) /\ UNCHANGED disks
              \/ Reply(201) /\ disks' = TRUE

handleCreateDisk ==
    \/ Refuse(400)
    \/ CreateDisk /\ UNCHANGED <<stored, counters, calls, wrapped>>

handleStorageSnapshotRollback == \E id \in SnapIDs : RollbackSnapshot(id) /\ Quiet
handleExportVolume == Refuse(400) \/ \E id \in VolIDs : ExportVolume(id) /\ Quiet
handleGetVolume == \E id \in VolIDs : GetVolume(id) /\ Quiet
handleGetBackup == \E id \in BackupIDs : GetBackup(id) /\ Quiet
handleStoragePools == ListPools /\ Quiet
handleStorageVolumes == ListVolumes /\ Quiet
handleListBackups == ListBackups /\ Quiet

-----------------------------------------------------------------------------
(* Handlers with several storage calls. *)

\* ResizeVolume, then GetVolume for the answer: a delete may come between.
ResizeBegin(c) ==
    /\ calls[c] = Idle
    /\ \E id \in VolIDs, n \in Sizes :
        \/ n = 0 /\ Refuse(400)
        \/ n > 0 /\ id \notin DOMAIN volumes /\ Refuse(404)
        \/ /\ n > 0 /\ ResizeVolume(id, n)
           /\ calls' = [calls EXCEPT ![c] = [at |-> "resized", vol |-> id]]
           /\ Reply(Pending)
           /\ UNCHANGED <<snapshots, backups, counters, disks>>

ResizeAnswer(c) ==
    /\ calls[c].at = "resized"
    /\ GetVolume(calls[c].vol)
    /\ calls' = [calls EXCEPT ![c] = Idle]
    /\ UNCHANGED <<stored, counters, wrapped, disks>>

handleResizeVolume(c) == ResizeBegin(c) \/ ResizeAnswer(c)

\* CreateBackup: a backup volume, ...
BackupVolume(c) ==
    /\ calls[c] = Idle
    /\ nextBackupID <= MaxBackups
    /\ nextBackupID' = nextBackupID + 1
    /\ \E p \in Pools \cup {NoPool} :
        \/ /\ p \notin Pools /\ Reply(400)
           /\ UNCHANGED <<stored, nextVolID, calls, wrapped>>
        \/ /\ p \in Pools /\ CreateVolume(p, BackupSize) /\ Reply(Pending)
           /\ calls' = [calls EXCEPT ![c] =
                 [at |-> "volume", id |-> nextBackupID, vol |-> nextVolID]]
           /\ UNCHANGED <<snapshots, backups>>
    /\ UNCHANGED <<nextSnapID, disks>>

\* ... its snapshot, which fails if the volume has been deleted meanwhile, ...
BackupSnapshot(c) ==
    /\ calls[c].at = "volume"
    /\ \/ /\ CreateSnapshot(calls[c].vol) /\ Reply(Pending)
          /\ calls' = [calls EXCEPT ![c] =
                 [at |-> "snapshot", id |-> @.id, vol |-> @.vol, snap |-> nextSnapID]]
       \/ /\ calls[c].vol \notin DOMAIN volumes /\ Reply(400)
          /\ calls' = [calls EXCEPT ![c] = Idle]
          /\ UNCHANGED <<snapshots, nextSnapID>>
    /\ UNCHANGED <<volumes, backups, used, nextVolID, nextBackupID, wrapped, disks>>

\* ... and the record.
BackupRecord(c) ==
    /\ calls[c].at = "snapshot"
    /\ backups' = Put(backups, calls[c].id, calls[c].snap)
    /\ calls' = [calls EXCEPT ![c] = Idle]
    /\ Reply(201)
    /\ UNCHANGED <<volumes, snapshots, used, counters, wrapped, disks>>

CreateBackup(c) == BackupVolume(c) \/ BackupSnapshot(c) \/ BackupRecord(c)
handleCreateBackup(c) == CreateBackup(c) \/ (calls[c] = Idle /\ Refuse(400))

-----------------------------------------------------------------------------
(* The StorageServer of gRPC: the same calls without the field checks. *)

GrpcCreateVolume ==
    \E p \in Pools \cup {NoPool}, n \in Sizes :
        \/ p \notin Pools /\ Refuse(GrpcError)
        \/ p \in Pools /\ CreateVolume(p, n) /\ Reply(GrpcOK)
           /\ Untouched /\ UNCHANGED <<snapshots, nextSnapID>>

GrpcDeleteVolume ==
    \E id \in VolIDs :
        \/ id \notin DOMAIN volumes /\ Refuse(GrpcError)
        \/ DeleteVolume(id) /\ Reply(GrpcOK)
           /\ Untouched /\ UNCHANGED <<snapshots, nextVolID, nextSnapID>>

GrpcCreateSnapshot ==
    \E id \in VolIDs :
        \/ id \notin DOMAIN volumes /\ Refuse(GrpcError)
        \/ CreateSnapshot(id) /\ Reply(GrpcOK)
           /\ Untouched /\ UNCHANGED <<volumes, used, wrapped, nextVolID>>

GrpcListPools == ListPools /\ Quiet
GrpcListSnapshots == ListSnapshots /\ Quiet

-----------------------------------------------------------------------------
Write == \/ handleCreateVolume \/ handleDeleteVolume \/ handleImportVolume
         \/ handleStorageSnapshotClone \/ handleDeleteStorageSnapshot
         \/ handleDeleteBackup \/ handleCreateDisk
         \/ GrpcCreateVolume \/ GrpcDeleteVolume \/ GrpcCreateSnapshot
         \/ \E c \in Clients : handleResizeVolume(c) \/ handleCreateBackup(c)

ReadOnly == \/ handleStorageSnapshotRollback \/ handleExportVolume
            \/ handleGetVolume \/ handleGetBackup \/ handleStoragePools
            \/ handleStorageVolumes \/ handleListBackups
            \/ GrpcListPools \/ GrpcListSnapshots

StNext == Write \/ ReadOnly
StSpec == StInit /\ [][StNext]_stVars

-----------------------------------------------------------------------------
\* The bytes of a pool's volumes, one by one.
BytesIn(p) == UNION {{v} \X (1 .. volumes[v].size) :
                        v \in {w \in DOMAIN volumes : volumes[w].pool = p}}

\* UsedBytes of a pool is what it started with plus the sizes of its volumes,
\* through every create, clone, import, resize, backup and delete, as long as
\* no addition has wrapped around the integer type.
UsedIsSum == ~wrapped => \A p \in Pools : used[p] = UsedAtStart + Cardinality(BytesIn(p))

\* A snapshot whose volume was deleted never comes to denote another volume:
\* a later clone of it fails instead of copying someone else's disk.
OrphanStaysOrphan ==
    [][\A s \in DOMAIN snapshots \cap DOMAIN snapshots' :
          snapshots[s] \notin DOMAIN volumes =>
              snapshots'[s] = snapshots[s] /\ snapshots[s] \notin DOMAIN volumes']_stVars
=============================================================================
