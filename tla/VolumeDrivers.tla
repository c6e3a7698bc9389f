--------------------------- MODULE VolumeDrivers ---------------------------
(***************************************************************************)
(* The storage drivers that run commands: CephDriver, which keeps its own  *)
(* table of volumes and snapshots beside the RBD images, and ZFSDriver,    *)
(* which keeps nothing.  rbd and zfs are external: a command succeeds only *)
(* if its precondition holds and may always fail.  No lock is held while a *)
(* command runs, so a CephDriver call is several steps.                    *)
(***************************************************************************)
EXTENDS Api, FiniteSets

CONSTANTS StoreUsers,              \* goroutines inside the driver
          ImageNames, SnapNames,     \* image and snapshot names (one pool)
          MaxImages, MaxCephSnaps   \* bounds on images made and on nextSnapID

VARIABLES rbd,                  \* external: image name -> [made, snaps, parent]
          made,                 \* history: images made so far
          cephVolumes, cephNextVolID, cephSnaps, cephNextSnapID,
          cephCalls,
          zfs                   \* external: dataset -> [snaps, parent]

ceph == <<rbd, made, cephVolumes, cephNextVolID, cephSnaps, cephNextSnapID, cephCalls>>
vdVars == <<answer, ceph, zfs>>

NoParent == << >>
NoCall == [at |-> "idle"]

VdInit ==
    /\ answer = Pending /\ rbd = Empty /\ made = 0 /\ zfs = Empty
    /\ cephVolumes = Empty /\ cephSnaps = Empty
    /\ cephNextVolID = 1 /\ cephNextSnapID = 1
    /\ cephCalls = [c \in StoreUsers |-> NoCall]

-----------------------------------------------------------------------------
(* External: what the rbd commands do. *)

Image(n, parent) == [made |-> made + 1, snaps |-> {}, parent |-> parent]
HasChild(n, s) == \E m \in DOMAIN rbd : rbd[m].parent = <<n, s>>

RbdMake(n, parent) ==
    /\ n \notin DOMAIN rbd /\ made < MaxImages
    /\ rbd' = Put(rbd, n, Image(n, parent)) /\ made' = made + 1
RbdRm(n) ==
    /\ n \in DOMAIN rbd /\ rbd[n].snaps = {}
    /\ rbd' = Del(rbd, n) /\ UNCHANGED made
RbdSnapCreate(n, s) ==
    /\ n \in DOMAIN rbd /\ s \notin rbd[n].snaps
    /\ rbd' = [rbd EXCEPT ![n].snaps = @ \cup {s}] /\ UNCHANGED made
RbdSnapRm(n, s) ==
    /\ n \in DOMAIN rbd /\ s \in rbd[n].snaps /\ ~HasChild(n, s)
    /\ rbd' = [rbd EXCEPT ![n].snaps = @ \ {s}] /\ UNCHANGED made
CommandFails == UNCHANGED <<rbd, made>>

-----------------------------------------------------------------------------
(* CephDriver.  GoOn(c, r) moves a call on; Finish(c, code) ends it. *)

GoOn(c, r) == cephCalls' = [cephCalls EXCEPT ![c] = r] /\ Reply(Pending)
Finish(c, code) == cephCalls' = [cephCalls EXCEPT ![c] = NoCall] /\ Reply(code)
Tables == <<cephVolumes, cephNextVolID, cephSnaps, cephNextSnapID>>

\* CreateVolume: rbd create, then the table.
CephCreate(c) ==
    /\ cephCalls[c] = NoCall
    /\ \E n \in ImageNames :
        \/ RbdMake(n, NoParent) /\ GoOn(c, [at |-> "created", name |-> n])
        \/ CommandFails /\ Finish(c, 400)
    /\ UNCHANGED Tables

CephRecord(c) ==
    /\ cephCalls[c].at = "created"
    /\ cephVolumes' = Put(cephVolumes, cephNextVolID,
                          [name |-> cephCalls[c].name, made |-> rbd[cephCalls[c].name].made])
    /\ cephNextVolID' = cephNextVolID + 1
    /\ Finish(c, 201)
    /\ UNCHANGED <<rbd, made, cephSnaps, cephNextSnapID>>

\* Mutant: the volume is looked up but stays in the table.
CephForgetKept(c) ==
    /\ cephCalls[c] = NoCall
    /\ \E id \in 1 .. MaxImages :
        \/ id \notin DOMAIN cephVolumes /\ Finish(c, 404)
        \/ /\ id \in DOMAIN cephVolumes
           /\ GoOn(c, [at |-> "forgot", vol |-> cephVolumes[id]])
    /\ UNCHANGED <<rbd, made, Tables>>

\* DeleteVolume: out of the table first, then rbd rm.  If rm fails (the image
\* has snapshots, the cluster is away) the image stays, known to nobody.
CephForget(c) ==
    /\ cephCalls[c] = NoCall
    /\ \E id \in 1 .. MaxImages :
        \/ id \notin DOMAIN cephVolumes /\ Finish(c, 404) /\ UNCHANGED cephVolumes
        \/ /\ id \in DOMAIN cephVolumes
           /\ cephVolumes' = Del(cephVolumes, id)
           /\ GoOn(c, [at |-> "forgot", vol |-> cephVolumes[id]])
    /\ UNCHANGED <<rbd, made, cephNextVolID, cephSnaps, cephNextSnapID>>

CephRemove(c) ==
    /\ cephCalls[c].at = "forgot"
    /\ \/ RbdRm(cephCalls[c].vol.name) /\ Finish(c, 204)
       \/ CommandFails /\ Finish(c, 404)
    /\ UNCHANGED Tables

\* CreateSnapshot looks the volume up, snapshots the image of that name and
\* records a snapshot; for an unknown volume it only records one.
CephSnapLookup(c) ==
    /\ cephCalls[c] = NoCall
    /\ \E id \in 1 .. MaxImages, s \in SnapNames :
          GoOn(c, [at |-> IF id \in DOMAIN cephVolumes THEN "looked" ELSE "snapped",
                 id |-> id, snap |-> s,
                 name |-> IF id \in DOMAIN cephVolumes THEN cephVolumes[id].name ELSE NoParent])
    /\ UNCHANGED <<rbd, made, Tables>>

CephSnapTake(c) ==
    /\ cephCalls[c].at = "looked"
    /\ \/ RbdSnapCreate(cephCalls[c].name, cephCalls[c].snap)
          /\ GoOn(c, [cephCalls[c] EXCEPT !.at = "snapped"])
       \/ CommandFails /\ Finish(c, GrpcError)
    /\ UNCHANGED Tables

CephSnapRecord(c) ==
    /\ cephCalls[c].at = "snapped" /\ cephNextSnapID <= MaxCephSnaps
    /\ cephSnaps' = Put(cephSnaps, cephNextSnapID,
                        [vol |-> cephCalls[c].id, snap |-> cephCalls[c].snap])
    /\ cephNextSnapID' = cephNextSnapID + 1
    /\ Finish(c, GrpcOK)
    /\ UNCHANGED <<rbd, made, cephVolumes, cephNextVolID>>

\* The remaining calls hand the identifier they are given to rbd as it is: the
\* driver's own "ceph-snap-N" and "ceph-vol-N" name nothing there, an rbd
\* spec works.  Their effects never reach the table.
CephDeleteSnapshot(c) ==
    /\ cephCalls[c] = NoCall
    /\ \/ \E n \in ImageNames, s \in SnapNames : RbdSnapRm(n, s) /\ Reply(204)
       \/ CommandFails /\ Reply(404)
    /\ UNCHANGED <<Tables, cephCalls>>

CephCloneSnapshot(c) ==
    /\ cephCalls[c] = NoCall
    /\ \/ /\ \E n \in DOMAIN rbd, m \in ImageNames : \E s \in rbd[n].snaps : RbdMake(m, <<n, s>>)
          /\ cephNextVolID' = cephNextVolID + 1 /\ Reply(201)
       \/ CommandFails /\ UNCHANGED cephNextVolID /\ Reply(404)
    /\ UNCHANGED <<cephVolumes, cephSnaps, cephNextSnapID, cephCalls>>

CephImportVolume(c) ==
    /\ cephCalls[c] = NoCall
    /\ \/ /\ \E n \in ImageNames : RbdMake(n, NoParent)
          /\ cephNextVolID' = cephNextVolID + 1 /\ Reply(201)
       \/ CommandFails /\ UNCHANGED cephNextVolID /\ Reply(400)
    /\ UNCHANGED <<cephVolumes, cephSnaps, cephNextSnapID, cephCalls>>

CephFlattenClone(c) ==
    /\ cephCalls[c] = NoCall
    /\ \E n \in DOMAIN rbd : rbd' = [rbd EXCEPT ![n].parent = NoParent]
    /\ Reply(200) /\ UNCHANGED <<made, Tables, cephCalls>>

\* Contents and sizes are not modelled, so these change nothing here.
CephRollbackSnapshot == \E code \in {200, 404} : Reply(code) /\ UNCHANGED ceph
CephResizeVolume == \E code \in {200, 404} : Reply(code) /\ UNCHANGED ceph
CephExportVolume == \E code \in {200, 404} : Reply(code) /\ UNCHANGED ceph
CephGetVolume == \E id \in 1 .. MaxImages : Lookup(id, cephVolumes, 404) /\ UNCHANGED ceph
CephListPools == Reply(200) /\ UNCHANGED ceph
CephListVolumes == Reply(200) /\ UNCHANGED ceph
CephListSnapshots == Reply(200) /\ UNCHANGED ceph

CephStep(c) ==
    \/ CephCreate(c) \/ CephRecord(c) \/ CephForget(c) \/ CephRemove(c)
    \/ CephSnapLookup(c) \/ CephSnapTake(c) \/ CephSnapRecord(c)
    \/ CephDeleteSnapshot(c) \/ CephCloneSnapshot(c) \/ CephImportVolume(c)
    \/ CephFlattenClone(c)

CephReads == \/ CephRollbackSnapshot \/ CephResizeVolume \/ CephExportVolume
             \/ CephGetVolume \/ CephListPools \/ CephListVolumes
             \/ CephListSnapshots

-----------------------------------------------------------------------------
(* ZFSDriver: one zfs command per call, identifiers are dataset names. *)

ZfsChild(n, s) == \E m \in DOMAIN zfs : zfs[m].parent = <<n, s>>
ZfsFails(code) == Reply(code) /\ UNCHANGED zfs

ZfsCreateVolume ==
    \/ \E n \in ImageNames \ DOMAIN zfs :
          zfs' = Put(zfs, n, [snaps |-> {}, parent |-> NoParent]) /\ Reply(201)
    \/ ZfsFails(400)
ZfsDeleteVolume ==                      \* no -r: refused while it has snapshots
    \/ \E n \in DOMAIN zfs : zfs[n].snaps = {} /\ zfs' = Del(zfs, n) /\ Reply(204)
    \/ ZfsFails(404)
ZfsCreateSnapshot ==
    \/ \E n \in DOMAIN zfs, s \in SnapNames :
          /\ s \notin zfs[n].snaps
          /\ zfs' = [zfs EXCEPT ![n].snaps = @ \cup {s}] /\ Reply(GrpcOK)
    \/ ZfsFails(GrpcError)
ZfsDeleteSnapshot ==
    \/ \E n \in DOMAIN zfs, s \in SnapNames :
          /\ s \in zfs[n].snaps /\ ~ZfsChild(n, s)
          /\ zfs' = [zfs EXCEPT ![n].snaps = @ \ {s}] /\ Reply(204)
    \/ ZfsFails(404)
ZfsCloneSnapshot ==
    \/ \E n \in DOMAIN zfs, m \in ImageNames \ DOMAIN zfs : \E s \in zfs[n].snaps :
          zfs' = Put(zfs, m, [snaps |-> {}, parent |-> <<n, s>>]) /\ Reply(201)
    \/ ZfsFails(404)
ZfsRollbackSnapshot == \E code \in {200, 404} : ZfsFails(code)
ZfsResizeVolume == \E code \in {200, 404} : ZfsFails(code)
ZfsGetVolume == \E n \in ImageNames : Lookup(n, zfs, 404) /\ UNCHANGED zfs
ZfsListPools == ZfsFails(200)
ZfsListVolumes == ZfsFails(200)
ZfsListSnapshots == ZfsFails(200)

ZfsStep ==
    \/ ZfsCreateVolume \/ ZfsDeleteVolume \/ ZfsCreateSnapshot
    \/ ZfsDeleteSnapshot \/ ZfsCloneSnapshot \/ ZfsRollbackSnapshot
    \/ ZfsResizeVolume \/ ZfsGetVolume \/ ZfsListPools \/ ZfsListVolumes
    \/ ZfsListSnapshots

-----------------------------------------------------------------------------
CephNext == ((\E c \in StoreUsers : CephStep(c)) \/ CephReads) /\ UNCHANGED zfs
ZfsNext == ZfsStep /\ UNCHANGED ceph

VdSpec == VdInit /\ [][CephNext \/ ZfsNext]_vdVars

-----------------------------------------------------------------------------
\* Every volume the CephDriver lists has its RBD image, the very one made for
\* it, and no two volumes share one, although the table and the images are
\* changed without a common lock.
TrackedHasImage ==
    \A v \in DOMAIN cephVolumes :
        /\ cephVolumes[v].name \in DOMAIN rbd
        /\ rbd[cephVolumes[v].name].made = cephVolumes[v].made
        /\ \A w \in DOMAIN cephVolumes : cephVolumes[w].name = cephVolumes[v].name => w = v

\* The image an rbd rm in flight will remove is still the one that belonged to
\* the deleted volume: a new volume cannot have taken its name meanwhile.
RemovesOwnImage ==
    \A c \in StoreUsers : cephCalls[c].at = "forgot" =>
        /\ cephCalls[c].vol.name \in DOMAIN rbd
        /\ rbd[cephCalls[c].vol.name].made = cephCalls[c].vol.made
=============================================================================
