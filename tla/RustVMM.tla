------------------------------ MODULE RustVMM ------------------------------
(***************************************************************************)
(* The RustVMM backend: the VM registry of vmcore (or its Go mock) behind  *)
(* ComputeService's CreateVM, DestroyVM and ActionVM.                      *)
(*                                                                         *)
(* The registry (core) is the authority; the backend keeps a second map    *)
(* (vms) with a copy of each VM's state that every read is answered from.  *)
(* Each API request runs on a goroutine of its own and takes each lock for *)
(* one step only, so requests interleave between the steps below.          *)
(***************************************************************************)
EXTENDS Naturals

CONSTANTS Threads,      \* the goroutines serving API requests
          MaxHandle,    \* bound: handles the counter may hand out
          Core          \* which registry is linked in: "mock" or "rust"

ASSUME MaxHandleAssumption == MaxHandle \in Nat
ASSUME CoreAssumption == Core \in {"mock", "rust"}

VARIABLES nextHandle,   \* the atomic handle counter
          core,         \* the registry: state of each VM it holds
          vms,          \* RustVMMBackend.vms: cached state of each VM
          req           \* req[t]: the request thread t is serving

vars == <<nextHandle, core, vms, req>>

Handles == 1 .. MaxHandle

VMState == {"created", "configured", "running", "paused", "stopped"}

Absent == "absent"      \* the map has no entry for the handle

(***************************************************************************)
(* A request: its program counter, the handle it works on, the action it   *)
(* was asked for and the state it read back from the registry.             *)
(***************************************************************************)
Actions == {"start", "stop", "pause", "resume"}

PC == {"idle", "insert", "configure", "publish",
       "destroy", "unpublish", "act", "read", "sync"}

Request == [pc : PC, h : Handles \cup {0},
            a : Actions \cup {""}, seen : VMState \cup {Absent}]

Idle == [pc |-> "idle", h |-> 0, a |-> "", seen |-> Absent]

(***************************************************************************)
(* The transition rules of the registry.  Both registries use the same     *)
(* table; they differ in resume, which the mock allows only from paused    *)
(* and the Rust registry from wherever running can be entered.             *)
(***************************************************************************)
stateTransitionAllowed(from, to) ==
    <<from, to>> \in { <<"created", "configured">>,
                       <<"configured", "running">>,
                       <<"configured", "stopped">>,
                       <<"running", "paused">>,
                       <<"running", "stopped">>,
                       <<"paused", "running">>,
                       <<"paused", "stopped">> }

Target(a) ==
    CASE a = "start"  -> "running"
      [] a = "stop"   -> "stopped"
      [] a = "pause"  -> "paused"
      [] a = "resume" -> "running"

Permits(s, a) ==
    IF a = "resume" /\ Core = "mock"
    THEN s = "paused"
    ELSE stateTransitionAllowed(s, Target(a))

Init ==
    /\ nextHandle = 1
    /\ core = [h \in Handles |-> Absent]
    /\ vms = [h \in Handles |-> Absent]
    /\ req = [t \in Threads |-> Idle]

-----------------------------------------------------------------------------
(* CreateVM: take a handle, insert it, configure it, publish it in vms.    *)

TakeHandle(t) ==
    /\ req[t].pc = "idle"
    /\ nextHandle \in Handles
    /\ nextHandle' = nextHandle + 1
    /\ req' = [req EXCEPT ![t] = [Idle EXCEPT !.pc = "insert", !.h = nextHandle]]
    /\ UNCHANGED <<core, vms>>

Insert(t) ==
    /\ req[t].pc = "insert"
    /\ core' = [core EXCEPT ![req[t].h] = "created"]
    /\ req' = [req EXCEPT ![t].pc = "configure"]
    /\ UNCHANGED <<nextHandle, vms>>

\* A failed ConfigureVM undoes the creation; see PrivateUntilPublished.
Configure(t) ==
    /\ req[t].pc = "configure"
    /\ IF core[req[t].h] = "created"
       THEN /\ core' = [core EXCEPT ![req[t].h] = "configured"]
            /\ req' = [req EXCEPT ![t].pc = "publish"]
       ELSE /\ core' = [core EXCEPT ![req[t].h] = Absent]
            /\ req' = [req EXCEPT ![t] = Idle]
    /\ UNCHANGED <<nextHandle, vms>>

Publish(t) ==
    /\ req[t].pc = "publish"
    /\ vms' = [vms EXCEPT ![req[t].h] = "configured"]
    /\ req' = [req EXCEPT ![t] = Idle]
    /\ UNCHANGED <<nextHandle, core>>

-----------------------------------------------------------------------------
(* DestroyVM and ActionVM both start by looking the handle up in vms.      *)

findBackendForVM(t, h, pc, a) ==
    /\ req[t].pc = "idle"
    /\ vms[h] # Absent
    /\ req' = [req EXCEPT ![t] = [Idle EXCEPT !.pc = pc, !.h = h, !.a = a]]
    /\ UNCHANGED <<nextHandle, core, vms>>

RequestDestroy(t, h) == findBackendForVM(t, h, "destroy", "")

RequestAction(t, h, a) == findBackendForVM(t, h, "act", a)

\* Mutant: a destroyed handle is handed out again.
CoreDestroyRecycling(t) ==
    /\ req[t].pc = "destroy"
    /\ core' = [core EXCEPT ![req[t].h] = Absent]
    /\ nextHandle' = req[t].h
    /\ req' = [req EXCEPT ![t].pc = "unpublish"]
    /\ UNCHANGED vms

CoreDestroy(t) ==
    /\ req[t].pc = "destroy"
    /\ core' = [core EXCEPT ![req[t].h] = Absent]
    /\ req' = [req EXCEPT ![t] = IF core[req[t].h] = Absent
                                 THEN Idle
                                 ELSE [@ EXCEPT !.pc = "unpublish"]]
    /\ UNCHANGED <<nextHandle, vms>>

\* Mutant: the entry is dropped only once the VM is listed as stopped.
UnpublishStopped(t) ==
    /\ req[t].pc = "unpublish"
    /\ vms' = IF vms[req[t].h] = "stopped"
              THEN [vms EXCEPT ![req[t].h] = Absent]
              ELSE vms
    /\ req' = [req EXCEPT ![t] = Idle]
    /\ UNCHANGED <<nextHandle, core>>

Unpublish(t) ==
    /\ req[t].pc = "unpublish"
    /\ vms' = [vms EXCEPT ![req[t].h] = Absent]
    /\ req' = [req EXCEPT ![t] = Idle]
    /\ UNCHANGED <<nextHandle, core>>

-----------------------------------------------------------------------------
(* transitionVM: move the registry, read its state back, copy it to vms.   *)

\* Mutant: the cached state is set before the registry has agreed.
CoreActionOptimistic(t) ==
    /\ req[t].pc = "act"
    /\ vms' = [vms EXCEPT ![req[t].h] = Target(req[t].a)]
    /\ IF Permits(core[req[t].h], req[t].a)
       THEN /\ core' = [core EXCEPT ![req[t].h] = Target(req[t].a)]
            /\ req' = [req EXCEPT ![t].pc = "read"]
       ELSE /\ req' = [req EXCEPT ![t] = Idle]
            /\ UNCHANGED core
    /\ UNCHANGED nextHandle

CoreAction(t) ==
    /\ req[t].pc = "act"
    /\ IF Permits(core[req[t].h], req[t].a)
       THEN /\ core' = [core EXCEPT ![req[t].h] = Target(req[t].a)]
            /\ req' = [req EXCEPT ![t].pc = "read"]
       ELSE /\ req' = [req EXCEPT ![t] = Idle]
            /\ UNCHANGED core
    /\ UNCHANGED <<nextHandle, vms>>

ReadState(t) ==
    /\ req[t].pc = "read"
    /\ req' = [req EXCEPT ![t] =
                 IF core[req[t].h] = Absent
                 THEN Idle
                 ELSE [@ EXCEPT !.pc = "sync", !.seen = core[req[t].h]]]
    /\ UNCHANGED <<nextHandle, core, vms>>

\* Mutant: the entry is written whether or not it is still there.
SyncUnchecked(t) ==
    /\ req[t].pc = "sync"
    /\ vms' = [vms EXCEPT ![req[t].h] = req[t].seen]
    /\ req' = [req EXCEPT ![t] = Idle]
    /\ UNCHANGED <<nextHandle, core>>

Sync(t) ==
    /\ req[t].pc = "sync"
    /\ vms' = IF vms[req[t].h] = Absent
              THEN vms
              ELSE [vms EXCEPT ![req[t].h] = req[t].seen]
    /\ req' = [req EXCEPT ![t] = Idle]
    /\ UNCHANGED <<nextHandle, core>>

-----------------------------------------------------------------------------
\* A request that was accepted runs on; new ones come as clients send them.
Continue(t) ==
    \/ Insert(t) \/ Configure(t) \/ Publish(t)
    \/ CoreDestroy(t) \/ Unpublish(t)
    \/ CoreAction(t) \/ ReadState(t) \/ Sync(t)

Accept(t) ==
    \/ TakeHandle(t)
    \/ \E h \in Handles : RequestDestroy(t, h)
    \/ \E h \in Handles, a \in Actions : RequestAction(t, h, a)

Next == \E t \in Threads : Accept(t) \/ Continue(t)

Spec == Init /\ [][Next]_vars

\* The Go scheduler runs every runnable goroutine and no lock is held
\* across a step, so a request in progress is never starved.
FairSpec == Spec /\ \A t \in Threads : WF_vars(Continue(t))

-----------------------------------------------------------------------------
(* Properties.                                                             *)

\* Type invariant: the maps hold VM states, a busy request has a handle.
TypeOK ==
    /\ nextHandle \in 1 .. MaxHandle + 1
    /\ core \in [Handles -> VMState \cup {Absent}]
    /\ vms \in [Handles -> VMState \cup {Absent}]
    /\ req \in [Threads -> Request]

\* No request is working on h.
Quiet(h) == \A t \in Threads : req[t].h # h

\* Once no request is working on a VM, the backend lists it exactly when the
\* registry holds it: no interleaving of creates, destroys and transitions
\* leaks a VM or leaves a ghost entry in RustVMMBackend.vms.
ListedIffRegistered ==
    \A h \in Handles : Quiet(h) => (vms[h] = Absent <=> core[h] = Absent)

\* Between taking a handle and publishing it CreateVM has the VM to itself:
\* nobody else works on it and ConfigureVM finds it in state created, so the
\* roll-back branch of RustVMMBackend.CreateVM never runs.
PrivateUntilPublished ==
    \A t \in Threads :
        /\ req[t].pc \in {"insert", "configure", "publish"} =>
              /\ vms[req[t].h] = Absent
              /\ \A u \in Threads \ {t} : req[u].h # req[t].h
        /\ req[t].pc = "configure" => core[req[t].h] = "created"

\* The states the registry may have moved on to from s.
Later(s) ==
    CASE s = "created" -> VMState
      [] s = "configured" -> VMState \ {"created"}
      [] s \in {"running", "paused"} -> {"running", "paused", "stopped"}
      [] s = "stopped" -> {"stopped"}

\* The cached state may lag behind the registry but is never ahead of it: a
\* VM that is listed as stopped is stopped, one listed as running was started.
CacheNeverAhead ==
    \A h \in Handles :
        vms[h] # Absent => core[h] \in Later(vms[h]) \cup {Absent}

\* transitionVM's comment: it "synchronises the local state", that is, once
\* the requests on a VM are done its cached state is the registry's.
CacheSynchronised == \A h \in Handles : Quiet(h) => vms[h] = core[h]

\* A VM destroyed in the registry disappears from the list for good.
DestroyedLeavesList ==
    \A h \in Handles :
        (vms[h] # Absent /\ core[h] = Absent) ~> [](vms[h] = Absent)

(***************************************************************************)
(* Refinement: a handle is unborn until it is inserted, which is to say    *)
(* while the counter has not reached it or its creator has yet to insert   *)
(* it; a handle that is neither unborn nor registered is dead.             *)
(***************************************************************************)
Unborn(h) ==
    \/ h >= nextHandle
    \/ \E t \in Threads : req[t].pc = "insert" /\ req[t].h = h

lifeBar ==
    [h \in Handles |->
        IF core[h] # Absent THEN core[h]
        ELSE IF Unborn(h) THEN "unborn" ELSE "dead"]

Life == INSTANCE VMLife WITH life <- lifeBar

\* Whatever the interleaving, every handle is issued once, follows the VM
\* state diagram and never returns after DestroyVM.
ImplementsVMLife == Life!Spec
=============================================================================
