---------------------------- MODULE VMSnapshots ----------------------------
(***************************************************************************)
(* VM snapshots: snapshot.Service with the REST handlers on it, and its    *)
(* wrapper PersistentSnapshotService.  The handlers hold the concrete      *)
(* service, so what they do is not stored; a method of the wrapper does    *)
(* the same on the inner service and then encodes the snapshot and writes  *)
(* it.  Nothing outside the tests constructs the wrapper: its methods      *)
(* stand for a caller that shares the inner service with the handlers.     *)
(*                                                                         *)
(* A stored snapshot comes back under its own id, but the id counter       *)
(* starts at 1 again.                                                      *)
(***************************************************************************)
EXTENDS Api, FiniteSets

CONSTANTS SnapUsers,        \* clients, each with one call under way
          MaxSnaps,         \* bound: snapshots created
          MaxSnapRestarts   \* bound: restarts

VARIABLES snapStore,        \* stored: id -> [obj, state]
          snapObj,          \* number of a snapshot -> its state field
          snapMap,          \* id -> number of the snapshot listed under it
          nextSnap,         \* id counter
          snapCalls,        \* client -> call under way
          snapRestarts,
          loaded            \* ids listed since the start, by LoadFromStore

vsVars == <<answer, snapStore, snapObj, snapMap, nextSnap, snapCalls, snapRestarts, loaded>>

VsInit ==
    /\ answer = Pending /\ snapStore = Empty /\ snapObj = Empty /\ snapMap = Empty
    /\ nextSnap = 1 /\ snapCalls = Empty /\ snapRestarts = 0 /\ loaded = {}

SnapFree(u) == u \notin DOMAIN snapCalls
SnapAt(u, pc) == ~SnapFree(u) /\ snapCalls[u].at = pc
Created == Cardinality(DOMAIN snapObj)

SnapBegin(u, i, o, pc, code, stores) ==
    /\ snapCalls' = Put(snapCalls, u, [at |-> pc, id |-> i, obj |-> o, code |-> code,
                                      stores |-> stores, val |-> << >>])
    /\ Reply(Pending)

SnapEnd(u, code) == snapCalls' = Del(snapCalls, u) /\ Reply(code)

SnapRefused(u, code) ==
    /\ SnapFree(u) /\ Reply(code)
    /\ UNCHANGED <<snapStore, snapObj, snapMap, nextSnap, snapCalls, snapRestarts, loaded>>

-----------------------------------------------------------------------------
(* snapshot.Service; with stores, as a part of the wrapper's method.       *)

\* Mutant: the counter is read and not advanced.
SnapCreateUncounted(u, stores) ==
    /\ SnapFree(u) /\ Created < MaxSnaps
    /\ snapObj' = Put(snapObj, Created + 1, "created")
    /\ SnapBegin(u, nextSnap, Created + 1, "enter", 201, stores)
    /\ UNCHANGED <<snapStore, snapMap, nextSnap, snapRestarts, loaded>>

\* Create and CreateWithVolume: the id is taken first, then a snapshot of the
\* storage is tried, then the snapshot is listed; a listed one with the same
\* id is replaced.
SnapCreate(u, stores) ==
    /\ SnapFree(u) /\ Created < MaxSnaps
    /\ snapObj' = Put(snapObj, Created + 1, "created")
    /\ nextSnap' = nextSnap + 1
    /\ SnapBegin(u, nextSnap, Created + 1, "enter", 201, stores)
    /\ UNCHANGED <<snapStore, snapMap, snapRestarts, loaded>>

SnapEnter(u) ==
    LET call == snapCalls[u]
    IN  /\ SnapAt(u, "enter")
        /\ snapMap' = Put(snapMap, call.id, call.obj)
        /\ loaded' = loaded \ {call.id}
        /\ \/ call.stores /\ snapCalls' = [snapCalls EXCEPT ![u].at = "encode"] /\ Reply(Pending)
           \/ ~call.stores /\ SnapEnd(u, call.code)
        /\ UNCHANGED <<snapStore, snapObj, nextSnap, snapRestarts>>

SnapDelete(u, i, stores) ==
    /\ SnapFree(u) /\ i \in DOMAIN snapMap
    /\ snapMap' = Del(snapMap, i) /\ loaded' = loaded \ {i}
    /\ \/ stores /\ SnapBegin(u, i, snapMap[i], "delete", 204, TRUE)
       \/ ~stores /\ Reply(204) /\ UNCHANGED snapCalls
    /\ UNCHANGED <<snapStore, snapObj, nextSnap, snapRestarts>>

\* The storage is rolled back under the lock, and its failure ignored.
SnapRestore(u, i, stores) ==
    /\ SnapFree(u) /\ i \in DOMAIN snapMap
    /\ snapObj' = [snapObj EXCEPT ![snapMap[i]] = "restoring"]
    /\ \/ stores /\ SnapBegin(u, i, snapMap[i], "encode", 200, TRUE)
       \/ ~stores /\ Reply(200) /\ UNCHANGED snapCalls
    /\ UNCHANGED <<snapStore, snapMap, nextSnap, snapRestarts, loaded>>

-----------------------------------------------------------------------------
(* What the wrapper adds.                                                  *)

SnapEncode(u) ==
    LET call == snapCalls[u]
    IN  /\ SnapAt(u, "encode") /\ Reply(Pending)
        /\ snapCalls' = [snapCalls EXCEPT ![u].at = "write",
                            ![u].val = [obj |-> call.obj, state |-> snapObj[call.obj]]]
        /\ UNCHANGED <<snapStore, snapObj, snapMap, nextSnap, snapRestarts, loaded>>

\* Write and delete: an error is logged and the call answers as if nothing
\* had happened.
SnapWrite(u) ==
    LET call == snapCalls[u]
    IN  /\ SnapAt(u, "write") /\ SnapEnd(u, call.code)
        /\ snapStore' \in {snapStore, Put(snapStore, call.id, call.val)}
        /\ UNCHANGED <<snapObj, snapMap, nextSnap, snapRestarts, loaded>>

SnapErase(u) ==
    LET call == snapCalls[u]
    IN  /\ SnapAt(u, "delete") /\ SnapEnd(u, call.code)
        /\ snapStore' \in {snapStore, Del(snapStore, call.id)}
        /\ UNCHANGED <<snapObj, snapMap, nextSnap, snapRestarts, loaded>>

\* A start of the process and LoadFromStore.  An entry that cannot be decoded
\* is skipped; a listing that fails, and a program that does not call
\* LoadFromStore, leave the service empty.
SnapRestart ==
    /\ snapRestarts < MaxSnapRestarts /\ snapRestarts' = snapRestarts + 1
    /\ \E kept \in SUBSET DOMAIN snapStore :
          /\ snapMap' = [i \in kept |-> snapStore[i].obj]
          /\ snapObj' = [o \in DOMAIN snapObj |->
                IF \E i \in kept : snapStore[i].obj = o
                THEN snapStore[CHOOSE i \in kept : snapStore[i].obj = o].state
                ELSE snapObj[o]]
    /\ loaded' = DOMAIN snapMap'
    /\ nextSnap' = 1 /\ snapCalls' = Empty /\ Reply(Pending)
    /\ UNCHANGED snapStore

-----------------------------------------------------------------------------
SnapIds == 1 .. MaxSnaps

CreateSnap(u, stores) == SnapCreate(u, stores) \/ SnapEnter(u)

DeleteSnap(u, stores) ==
    \E i \in SnapIds :
        SnapDelete(u, i, stores) \/ (i \notin DOMAIN snapMap /\ SnapRefused(u, 404))

RestoreSnap(u, stores) ==
    \E i \in SnapIds :
        SnapRestore(u, i, stores) \/ (i \notin DOMAIN snapMap /\ SnapRefused(u, 404))

handleCreateSnapshot(u) == SnapRefused(u, 400) \/ CreateSnap(u, FALSE)
handleDeleteSnapshot(u) == DeleteSnap(u, FALSE)
handleRestoreSnapshot(u) == RestoreSnap(u, FALSE)

handleGetSnapshot(u) ==
    \E i \in SnapIds : SnapRefused(u, IF i \in DOMAIN snapMap THEN 200 ELSE 404)

handleListSnapshots(u) == SnapRefused(u, 400) \/ SnapRefused(u, 200)

PersistentCreate(u) == CreateSnap(u, TRUE) \/ SnapEncode(u) \/ SnapWrite(u)
PersistentDelete(u) == DeleteSnap(u, TRUE) \/ SnapErase(u)
PersistentRestore(u) == RestoreSnap(u, TRUE)

VsNext ==
    \/ \E u \in SnapUsers :
          \/ handleCreateSnapshot(u) \/ handleDeleteSnapshot(u) \/ handleRestoreSnapshot(u)
          \/ handleGetSnapshot(u) \/ handleListSnapshots(u)
          \/ PersistentCreate(u) \/ PersistentDelete(u) \/ PersistentRestore(u)
    \/ SnapRestart

VsSpec == VsInit /\ [][VsNext]_vsVars

-----------------------------------------------------------------------------
\* Although ids are taken outside the lock and calls overlap, a snapshot that
\* was made since the start stays listed under its id until it is deleted: no
\* other snapshot takes its place.  (One that LoadFromStore brought back is
\* replaced when the new counter comes to its id.)
SnapshotKept ==
    [][snapRestarts' = snapRestarts =>
          \A i \in DOMAIN snapMap \ loaded :
              i \in DOMAIN snapMap' => snapMap'[i] = snapMap[i]]_vsVars
=============================================================================
