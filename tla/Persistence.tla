----------------------------- MODULE Persistence -----------------------------
(***************************************************************************)
(* PersistentComputeService over etcd, the REST and gRPC calls that reach  *)
(* it, and controller restarts.  A call first changes the VM in memory,    *)
(* then encodes it, then writes it to the store; each is a step of its     *)
(* own, other calls run in between, and a failed write is only logged.     *)
(*                                                                         *)
(* Inside the backend a call is one step here (its steps are in RustVMM).  *)
(* A backend's handles are not reused until the controller restarts, so a  *)
(* VM object is named by its handle.                                       *)
(***************************************************************************)
EXTENDS Api, FiniteSets

CONSTANTS Callers,      \* clients, each with one call under way
          MaxVMs,       \* bound: VMs that clients have the backend begin
          MaxRestarts,  \* bound: controller restarts
          StoreFails,   \* whether store operations may fail
          EtcdFails     \* whether etcd may be away when the controller starts

ASSUME PersistenceConstants ==
    /\ MaxVMs \in Nat /\ MaxRestarts \in Nat
    /\ StoreFails \in BOOLEAN /\ EtcdFails \in BOOLEAN

VARIABLES etcd,         \* stored: handle -> [vm, state, node, policy]
          durable,      \* the service persists: etcd was reached at start
          obj,          \* handle -> VM object, kept while anyone points to it
          listed,       \* handles in the backend's map
          next,         \* the backend's handle counter
          migrating,    \* handles with a live migration under way
          pcalls,       \* client -> call under way
          born,         \* VMs clients had the backend begin so far
          restarts,
          spoiled,      \* handles whose stored copy may be out of date
          owed,         \* VMs whose creation was answered and stored
          gone          \* VMs whose destruction was answered

memory == <<obj, listed, next, migrating>>
ghosts == <<spoiled, owed, gone>>
psVars == <<answer, etcd, durable, memory, pcalls, born, restarts, ghosts>>

Local == "local"
Remote == "node-02"
NewVM(vm) == [vm |-> vm, state |-> "configured", node |-> Local, policy |-> "always"]

PsInit ==
    /\ answer = Pending /\ etcd = Empty /\ durable = TRUE
    /\ obj = Empty /\ listed = {} /\ next = 1 /\ migrating = {}
    /\ pcalls = Empty /\ born = 0 /\ restarts = 0
    /\ spoiled = {} /\ owed = {} /\ gone = {}

CallFree(c) == c \notin DOMAIN pcalls
At(c, pc) == ~CallFree(c) /\ pcalls[c].at = pc
Touched(h) == \E c \in DOMAIN pcalls : pcalls[c].h = h

\* A call on h that finds another one on h under way spoils it.
Begin(c, h, kind, pc, code) ==
    /\ pcalls' = Put(pcalls, c, [at |-> pc, h |-> h, kind |-> kind, code |-> code,
                                 stored |-> FALSE, val |-> << >>])
    /\ spoiled' = IF Touched(h) THEN spoiled \cup {h} ELSE spoiled
    /\ Reply(Pending)

Goto(c, pc) == pcalls' = [pcalls EXCEPT ![c].at = pc] /\ Reply(Pending)
End(c, code) == pcalls' = Del(pcalls, c) /\ Reply(code)

\* A request that is refused or only reads.
Refused(c, code) ==
    /\ CallFree(c) /\ Reply(code)
    /\ UNCHANGED <<etcd, durable, memory, pcalls, born, restarts, ghosts>>

-----------------------------------------------------------------------------
(* CreateVM.  The backend returns the pointer it has put into its map.     *)

CreateVM(c, kind, code) ==
    /\ CallFree(c) /\ born < MaxVMs
    /\ born' = born + 1
    /\ obj' = Put(obj, next, NewVM(born + 1))
    /\ listed' = listed \cup {next}
    /\ next' = next + 1
    /\ Begin(c, next, kind, IF durable THEN "encode" ELSE "policy", code)
    /\ UNCHANGED <<etcd, durable, migrating, restarts, owed, gone>>

\* The backend fails after it took a handle: the VM is undone, its handle lost.
CreateFails(c, code) ==
    /\ CallFree(c) /\ born < MaxVMs /\ Reply(code)
    /\ born' = born + 1 /\ next' = next + 1
    /\ UNCHANGED <<etcd, durable, obj, listed, migrating, pcalls, restarts, ghosts>>

\* json.Marshal in Put: what the object holds now.
Encode(c) ==
    /\ At(c, "encode")
    /\ pcalls' = [pcalls EXCEPT ![c].at = "write", ![c].val = obj[pcalls[c].h]]
    /\ Reply(Pending)
    /\ UNCHANGED <<etcd, durable, memory, born, restarts, ghosts>>

\* A write that reports an error may have been applied (a timeout).
PutStore(c) ==
    LET h == pcalls[c].h
    IN  /\ At(c, "write")
        /\ \/ /\ etcd' = Put(etcd, h, pcalls[c].val)
              /\ pcalls' = [pcalls EXCEPT ![c].at = "policy", ![c].stored = TRUE]
              /\ UNCHANGED spoiled
           \/ /\ StoreFails
              /\ etcd' \in {etcd, Put(etcd, h, pcalls[c].val)}
              /\ pcalls' = [pcalls EXCEPT ![c].at = "policy"]
              /\ spoiled' = spoiled \cup {h}
        /\ Reply(Pending)
        /\ UNCHANGED <<durable, memory, born, restarts, owed, gone>>

\* handleCreateVM writes the requested policy, template and disks into the
\* object after it was stored; the other calls have nothing left to do.
Answer(c) ==
    LET call == pcalls[c]
    IN  /\ At(c, "policy")
        /\ \E policy \in IF call.kind = "create" THEN {"always", "never"} ELSE {obj[call.h].policy} :
              obj' = [obj EXCEPT ![call.h].policy = policy]
        /\ owed' = IF call.kind # "other" /\ call.stored /\ call.h \in listed
                   THEN owed \cup {obj[call.h].vm} ELSE owed
        /\ End(c, call.code)
        /\ UNCHANGED <<etcd, durable, listed, next, migrating, born, restarts, spoiled, gone>>

-----------------------------------------------------------------------------
(* ActionVM and MigrateVM: change the object, read it back, store it.      *)

Target(a) == CASE a \in {"start", "resume"} -> "running" [] a = "stop" -> "stopped"
               [] a = "pause" -> "paused"

Permits(s, a) == \/ a = "start" /\ s \in {"configured", "paused"}
                 \/ a = "resume" /\ s = "paused"
                 \/ a = "pause" /\ s = "running"
                 \/ a = "stop" /\ s \in {"configured", "running", "paused"}

ActionVM(c, h, a, conflict, missing, ok) ==
    \/ h \notin listed /\ Refused(c, missing)
    \/ h \in listed /\ ~Permits(obj[h].state, a) /\ Refused(c, conflict)
    \/ /\ CallFree(c) /\ h \in listed /\ Permits(obj[h].state, a)
       /\ obj' = [obj EXCEPT ![h].state = Target(a)]
       /\ Begin(c, h, "other", "read", ok)
       /\ UNCHANGED <<etcd, durable, listed, next, migrating, born, restarts, owed, gone>>

\* The last lines of ActionVM and MigrateVM: the VM may be gone by now.
ReadBack(c) ==
    LET h == pcalls[c].h
    IN  /\ At(c, "read")
        /\ \/ h \notin listed /\ End(c, 404)
           \/ /\ h \in listed /\ Reply(Pending)
              /\ pcalls' = [pcalls EXCEPT ![c].at = IF durable THEN "write" ELSE "policy",
                                          ![c].val = obj[h]]
        /\ UNCHANGED <<etcd, durable, memory, born, restarts, ghosts>>

\* updateVMNode may come upon another backend first and change nothing.
MigrateVM(c, h) ==
    \/ /\ ~(h \in listed /\ obj[h].state = "running" /\ obj[h].node # Remote)
       /\ Refused(c, GrpcOK)
    \/ /\ CallFree(c) /\ h \in listed
       /\ obj[h].state = "running" /\ obj[h].node # Remote
       /\ obj' \in {obj, [obj EXCEPT ![h].node = Remote]}
       /\ Begin(c, h, "other", "read", GrpcOK)
       /\ UNCHANGED <<etcd, durable, listed, next, migrating, born, restarts, owed, gone>>

\* MigrateLive answers at once; the node changes later, unstored.
MigrateLive(c, h) ==
    \/ /\ ~(h \in listed /\ obj[h].state = "running" /\ obj[h].node # Remote)
       /\ Refused(c, 404)
    \/ /\ CallFree(c) /\ h \in listed
       /\ obj[h].state = "running" /\ obj[h].node # Remote
       /\ migrating' = migrating \cup {h} /\ spoiled' = spoiled \cup {h}
       /\ Reply(202)
       /\ UNCHANGED <<etcd, durable, obj, listed, next, pcalls, born, restarts, owed, gone>>

LiveMoved(h) ==
    /\ h \in migrating
    /\ migrating' = migrating \ {h}
    /\ obj' \in {obj, [obj EXCEPT ![h].node = Remote]}
    /\ Reply(Pending)
    /\ UNCHANGED <<etcd, durable, listed, next, pcalls, born, restarts, ghosts>>

-----------------------------------------------------------------------------
(* DestroyVM.                                                              *)

DestroyVM(c, h, missing, ok) ==
    \/ h \notin listed /\ Refused(c, missing)
    \/ /\ CallFree(c) /\ h \in listed
       /\ listed' = listed \ {h}
       /\ owed' = owed \ {obj[h].vm}
       /\ Begin(c, h, "other", IF durable THEN "delete" ELSE "deleted", ok)
       /\ UNCHANGED <<etcd, durable, obj, next, migrating, born, restarts, gone>>

\* Mutant: nothing is deleted from the store.
DeleteStoreSkipped(c) ==
    /\ At(c, "delete") /\ Goto(c, "deleted")
    /\ UNCHANGED <<etcd, durable, memory, born, restarts, ghosts>>

DeleteStore(c) ==
    LET h == pcalls[c].h
    IN  /\ At(c, "delete") /\ Goto(c, "deleted")
        /\ \/ etcd' = Del(etcd, h) /\ UNCHANGED spoiled
           \/ StoreFails /\ etcd' \in {etcd, Del(etcd, h)} /\ spoiled' = spoiled \cup {h}
        /\ UNCHANGED <<durable, memory, born, restarts, owed, gone>>

DestroyAnswer(c) ==
    /\ At(c, "deleted") /\ End(c, pcalls[c].code)
    /\ gone' = gone \cup {obj[pcalls[c].h].vm}
    /\ UNCHANGED <<etcd, durable, memory, born, restarts, spoiled, owed>>

-----------------------------------------------------------------------------
(* Restart: main builds everything anew; calls under way are lost.         *)

\* The place of key k among the keys K (etcd lists them by their text; for
\* one-digit handles that is this order).
Rank(K, k) == Cardinality({j \in K : j <= k})

\* Mutant: the first VM that could be created is left out.
LoadFromStoreTail(taken, made) ==
    [i \in {Rank(taken, k) : k \in made} \ {1} |->
        NewVM(etcd[CHOOSE k \in made : Rank(taken, k) = i].vm)]

\* The stored VMs are created again, in the order of their keys, with the
\* handles of a new counter; state, node and policy start afresh.  An entry
\* that cannot be decoded or created is skipped: of the stored keys only those
\* in taken got as far as a handle, and of these only those in made a VM.
LoadFromStore(taken, made) ==
    [i \in {Rank(taken, k) : k \in made} |->
        NewVM(etcd[CHOOSE k \in made : Rank(taken, k) = i].vm)]

\* A skipped VM is not owed any more: main goes on without it.
Reload ==
    \E taken \in SUBSET DOMAIN etcd : \E made \in SUBSET taken :
        /\ obj' = LoadFromStore(taken, made)
        /\ next' = Cardinality(taken) + 1
        /\ owed' = IF restarts = 0
                   THEN owed \ {etcd[k].vm : k \in DOMAIN etcd \ made} ELSE {}

\* Without etcd the controller runs on a memory store, unwrapped; with it,
\* the listing may still fail and leave nothing loaded.
StartEmpty == obj' = Empty /\ next' = 1 /\ owed' = {}

Restart ==
    /\ restarts < MaxRestarts /\ restarts' = restarts + 1
    /\ \/ durable' = TRUE /\ Reload
       \/ StoreFails /\ durable' = TRUE /\ StartEmpty
       \/ EtcdFails /\ durable' = FALSE /\ StartEmpty
    /\ listed' = DOMAIN obj'
    /\ migrating' = {} /\ pcalls' = Empty /\ spoiled' = {}
    /\ Reply(Pending) /\ UNCHANGED <<etcd, born, gone>>

-----------------------------------------------------------------------------
(* The REST handlers and the gRPC methods.                                 *)

Handles == 1 .. MaxVMs

\* Refused: a body that does not decode, a size out of bounds; an unknown
\* backend, or one that fails, is an error of CreateVM.
handleCreateVM(c) ==
    Refused(c, 400) \/ Refused(c, 500) \/ CreateFails(c, 500) \/ CreateVM(c, "create", 201)

\* The template may be missing; otherwise its backend is asked for a VM.
handleDeployTemplate(c) ==
    \/ Refused(c, 404) \/ Refused(c, 400) \/ Refused(c, 500)
    \/ CreateFails(c, 500) \/ CreateVM(c, "deploy", 201)

handleVMAction(c) ==
    \/ Refused(c, 400)
    \/ \E h \in Handles, a \in {"start", "stop", "pause", "resume"} :
          ActionVM(c, h, a, 409, 404, 200)

handleDeleteVM(c) == Refused(c, 400) \/ \E h \in Handles : DestroyVM(c, h, 404, 204)

handleMigrateVM(c) == Refused(c, 400) \/ \E h \in Handles : MigrateLive(c, h)

handleGetVM(c) == Refused(c, 400) \/ \E h \in Handles : Refused(c, IF h \in listed THEN 200 ELSE 404)
handleListVMs(c) == Refused(c, 200)
handleListBackends(c) == Refused(c, 200)

GrpcCreateVM(c) ==
    Refused(c, GrpcError) \/ CreateFails(c, GrpcError) \/ CreateVM(c, "deploy", GrpcOK)
GrpcDestroyVM(c) == \E h \in Handles : DestroyVM(c, h, GrpcError, GrpcOK)
GrpcAction(c, a) == \E h \in Handles : ActionVM(c, h, a, GrpcError, GrpcError, GrpcOK)
GrpcStartVM(c) == GrpcAction(c, "start")
GrpcStopVM(c) == GrpcAction(c, "stop")
GrpcPauseVM(c) == GrpcAction(c, "pause")
GrpcResumeVM(c) == GrpcAction(c, "resume")
GrpcListVMs(c) == Refused(c, GrpcOK)
GrpcGetVM(c) == \E h \in Handles : Refused(c, IF h \in listed THEN GrpcOK ELSE GrpcError)

\* A failed migration is an answer too, with Success = false.
GrpcLiveMigrate(c) == \E h \in Handles : MigrateVM(c, h)

Step(c) == Encode(c) \/ PutStore(c) \/ Answer(c) \/ ReadBack(c) \/ DeleteStore(c) \/ DestroyAnswer(c)

PsNext ==
    \/ \E c \in Callers :
          \/ Step(c)
          \/ handleCreateVM(c) \/ handleDeployTemplate(c) \/ handleVMAction(c)
          \/ handleDeleteVM(c) \/ handleMigrateVM(c)
          \/ handleGetVM(c) \/ handleListVMs(c) \/ handleListBackends(c)
          \/ GrpcCreateVM(c) \/ GrpcDestroyVM(c) \/ GrpcStartVM(c) \/ GrpcStopVM(c)
          \/ GrpcPauseVM(c) \/ GrpcResumeVM(c) \/ GrpcListVMs(c) \/ GrpcGetVM(c)
          \/ GrpcLiveMigrate(c)
    \/ \E h \in migrating : LiveMoved(h)
    \/ Restart

PsSpec == PsInit /\ [][PsNext]_psVars

-----------------------------------------------------------------------------
\* Until the first restart, a VM that no call is working on is stored exactly
\* when it is listed, with its state and node, unless a store operation on it
\* failed, two calls on it overlapped or it was migrated live.
QuietIsStored ==
    restarts = 0 =>
        \A h \in DOMAIN obj \ spoiled :
            ~Touched(h) =>
                /\ h \in listed <=> h \in DOMAIN etcd
                /\ h \in listed => /\ etcd[h].state = obj[h].state
                                   /\ etcd[h].node = obj[h].node

\* A VM whose creation was answered and stored is listed until a call
\* destroys it, and again after the first restart that reads the store,
\* whatever other calls and failed writes came in between, unless its own
\* stored entry is one that LoadFromStore could not decode or create.
OwedIsListed == owed \subseteq {obj[h].vm : h \in listed}

\* PersistentComputeService stores every change, deletions included: with a
\* store that never fails and calls one at a time, a VM whose destruction was
\* answered is not stored any more.
DestroyedStaysGone ==
    pcalls = Empty => \A h \in DOMAIN etcd : etcd[h].vm \notin gone
=============================================================================
