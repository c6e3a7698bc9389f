------------------------------ MODULE Dispatch ------------------------------
(***************************************************************************)
(* ComputeService over its three backends.  A VM is created by the backend *)
(* the caller names and later found by asking every backend, in the order  *)
(* of a Go map, whether it knows the handle; between the finding and the   *)
(* action other calls run.  Backends number their handles from bases that  *)
(* are Span apart (10000 in the code) and check no upper end.              *)
(*                                                                         *)
(* Inside a backend a call is one step (RustVMM, Qemu and Lxc have more).  *)
(***************************************************************************)
EXTENDS Api, FiniteSets

CONSTANTS Tenants,      \* clients, each with one call under way
          Span,         \* handles from one base to the next
          MaxMade       \* bound: creations that take a handle

ASSUME SpanAssumption == Span \in Nat \ {0, 1}

VARIABLES backends,     \* BackendSelector.backends: name -> next handle of the backend
          inv,          \* name -> VMs in its map: handle -> [id, state]
          created,      \* creations that took a handle so far; the last VM's number
          pending       \* client -> call that has found its backend

dsVars == <<answer, backends, inv, created, pending>>

Base == [rustvmm |-> 1, qemu |-> Span, lxc |-> 2 * Span]
NewBackendSelector == Empty

\* A backend is registered under its name with nothing in it.
Register(map, name) == Put(map, name, Base[name])

DsInit ==
    /\ answer = Pending /\ created = 0 /\ pending = Empty
    /\ backends = Register(Register(Register(NewBackendSelector, "rustvmm"), "qemu"), "lxc")
    /\ inv = [b \in DOMAIN Base |-> Empty]

DsIdle(c) == c \notin DOMAIN pending
DsRefuse(c, code) == DsIdle(c) /\ Reply(code) /\ UNCHANGED <<backends, inv, created, pending>>

\* No hint means rustvmm; a hint that names no backend is an error.
Select(hint) == IF hint = "" THEN "rustvmm" ELSE hint

\* Mutant: a backend numbers a VM after those it has.
CreateVMByCount(c, hint) ==
    LET b == Select(hint)
    IN  \/ b \notin DOMAIN backends /\ DsRefuse(c, 500)
        \/ /\ DsIdle(c) /\ b \in DOMAIN backends /\ created < MaxMade
           /\ inv' = [inv EXCEPT ![b] = Put(@, Base[b] + Cardinality(DOMAIN @),
                                            [id |-> created + 1, state |-> "configured"])]
           /\ backends' = [backends EXCEPT ![b] = @ + 1]
           /\ created' = created + 1 /\ Reply(201) /\ UNCHANGED pending

\* A backend may fail before or after it takes the handle, which is then spent.
CreateVM(c, hint) ==
    LET b == Select(hint)
    IN  \/ DsRefuse(c, 500)
        \/ /\ DsIdle(c) /\ b \in DOMAIN backends /\ created < MaxMade
           /\ backends' = [backends EXCEPT ![b] = @ + 1]
           /\ created' = created + 1 /\ Reply(500) /\ UNCHANGED <<inv, pending>>
        \/ /\ DsIdle(c) /\ b \in DOMAIN backends /\ created < MaxMade
           /\ inv' = [inv EXCEPT ![b] = Put(@, backends[b], [id |-> created + 1, state |-> "configured"])]
           /\ backends' = [backends EXCEPT ![b] = @ + 1]
           /\ created' = created + 1 /\ Reply(201) /\ UNCHANGED pending

-----------------------------------------------------------------------------
\* The backends that know h; the first in map order answers.
findBackendForVM(h) == {b \in DOMAIN backends : h \in DOMAIN inv[b]}

\* The call was meant for the VM that h named when it arrived.
Find(c, h, act) ==
    \/ findBackendForVM(h) = {} /\ DsRefuse(c, 404)
    \/ /\ DsIdle(c)
       /\ \E b, meant \in findBackendForVM(h) :
             pending' = Put(pending, c, [h |-> h, b |-> b, act |-> act, id |-> inv[meant][h].id])
       /\ Reply(Pending) /\ UNCHANGED <<backends, inv, created>>

Known(c) == pending[c].h \in DOMAIN inv[pending[c].b]
DsDone(c, code) == pending' = Del(pending, c) /\ Reply(code) /\ UNCHANGED <<backends, created>>

\* StartVM .. ResumeVM of the backend found, which refuses what the VM's
\* state does not allow.
To == [start |-> "running", stop |-> "stopped", pause |-> "paused", resume |-> "running"]
ActionVM(c) ==
    /\ ~DsIdle(c) /\ pending[c].act \in DOMAIN To
    /\ \/ ~Known(c) /\ DsDone(c, 404) /\ UNCHANGED inv
       \/ Known(c) /\ DsDone(c, 409) /\ UNCHANGED inv
       \/ /\ Known(c) /\ Reply(Pending) /\ UNCHANGED <<backends, created>>
          /\ inv' = [inv EXCEPT ![pending[c].b][pending[c].h].state = To[pending[c].act]]
          /\ pending' = [pending EXCEPT ![c].act = "read"]

\* The backend's GetVM after it: an action that worked is answered 404 when
\* the VM is gone by now.
ReadActed(c) ==
    /\ ~DsIdle(c) /\ pending[c].act = "read"
    /\ DsDone(c, IF Known(c) THEN 200 ELSE 404) /\ UNCHANGED inv

DestroyVM(c) ==
    LET b == pending[c].b
    IN  /\ ~DsIdle(c) /\ pending[c].act = "destroy"
        /\ \/ ~Known(c) /\ DsDone(c, 404) /\ UNCHANGED inv
           \/ Known(c) /\ DsDone(c, 204) /\ inv' = [inv EXCEPT ![b] = Del(@, pending[c].h)]

listBackends == DOMAIN backends
GetVM(c, h) == DsRefuse(c, IF \E b \in listBackends : h \in DOMAIN inv[b] THEN 200 ELSE 404)
ListVMs(c) == DsRefuse(c, 200)
ListBackends(c) == DsRefuse(c, 200)

DsNext ==
    \E c \in Tenants :
        \/ \E hint \in {"", "qemu", "lxc", "other"} : CreateVM(c, hint)
        \/ \E h \in 1 .. 2 * Span + MaxMade :
              \/ \E act \in {"start", "stop", "pause", "resume", "destroy"} : Find(c, h, act)
              \/ GetVM(c, h)
        \/ ActionVM(c) \/ ReadActed(c) \/ DestroyVM(c)
        \/ ListVMs(c) \/ ListBackends(c)

DsSpec == DsInit /\ [][DsNext]_dsVars

-----------------------------------------------------------------------------
\* A backend has issued a handle from another one's range.
Overlap == \E a, b \in DOMAIN backends : Base[a] < Base[b] /\ backends[a] > Base[b]

\* findBackendForVM and the separate action on what it found: a call changes
\* only the VM its handle named when it arrived, however creations and
\* destructions interleave, as long as no backend has issued a handle from
\* another one's range.
ActsOnMeant ==
    [][\A b \in DOMAIN inv, h \in 1 .. 2 * Span + MaxMade :
          h \in DOMAIN inv[b] /\ (h \notin DOMAIN inv'[b] \/ inv'[b][h] # inv[b][h]) =>
              Overlap \/ \E c \in DOMAIN pending :
                            pending[c].h = h /\ pending[c].id = inv[b][h].id]_dsVars
=============================================================================
