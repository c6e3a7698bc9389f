----------------------------- MODULE VMMProofs ------------------------------
(***************************************************************************)
(* The two virtual machine monitors. Of RustVMM the safety properties, for *)
(* any number of threads and handles and for both registries, and the      *)
(* refinement of VMLife; of the QEMU backend, for any number of callers    *)
(* and handles, that no process is left behind and that what is recorded   *)
(* as paused stands still.                                                 *)
(***************************************************************************)
EXTENDS RustVMM, Qemu, TLAPS

-----------------------------------------------------------------------------
(* RustVMM.                                                                *)

Creating == {"insert", "configure", "publish"}

(***************************************************************************)
(* The inductive invariant.                                                *)
(***************************************************************************)
\* An idle thread holds no handle; a busy one holds a handle that was issued.
HandlesIssued ==
    \A t \in Threads :
        /\ req[t].pc = "idle" <=> req[t].h = 0
        /\ req[t].h < nextHandle

\* Nothing is known of a handle the counter has not reached.
FreshUnknown ==
    \A h \in Handles : h >= nextHandle => core[h] = Absent /\ vms[h] = Absent

\* The state CreateVM has brought the VM to before each of its steps.
LeftIn(pc) ==
    CASE pc = "insert" -> Absent
      [] pc = "configure" -> "created"
      [] pc = "publish" -> "configured"

\* A VM under creation is unlisted, its creator's alone, and in the state the
\* creator left it in.
CreatorOwns ==
    \A t \in Threads :
        req[t].pc \in Creating =>
            /\ vms[req[t].h] = Absent
            /\ \A u \in Threads \ {t} : req[u].h # req[t].h
            /\ core[req[t].h] = LeftIn(req[t].pc)

\* Whatever is registered and not listed is under creation; whatever is
\* listed and not registered is about to be unlisted.
Explained(h) ==
    /\ core[h] # Absent /\ vms[h] = Absent =>
          \E t \in Threads : req[t].h = h /\ req[t].pc \in Creating
    /\ core[h] = Absent /\ vms[h] # Absent =>
          \E t \in Threads : req[t].h = h /\ req[t].pc = "unpublish"

DifferenceExplained == \A h \in Handles : Explained(h)

\* A thread about to unlist a VM has seen it leave the registry.
UnpublishGone ==
    \A t \in Threads : req[t].pc = "unpublish" => core[req[t].h] = Absent

\* A state read back from the registry is one the registry was in.
SeenNeverAhead ==
    \A t \in Threads :
        req[t].pc = "sync" =>
            /\ req[t].seen \in VMState
            /\ core[req[t].h] \in Later(req[t].seen) \cup {Absent}

\* What a request carries is what its next step needs.
Carries ==
    \A t \in Threads :
        /\ req[t].pc # "idle" => req[t].h \in Handles
        /\ req[t].pc = "act" => req[t].a \in Actions

IInv ==
    /\ TypeOK /\ Carries /\ HandlesIssued /\ FreshUnknown /\ CreatorOwns
    /\ DifferenceExplained /\ UnpublishGone /\ SeenNeverAhead
    /\ CacheNeverAhead

-----------------------------------------------------------------------------
(* Facts about the transition table.                                       *)

\* Later is reflexive.
LEMMA LaterReflexive == \A s \in VMState : s \in Later(s)
BY DEF VMState, Later

\* What the registry may have moved on to is closed under its transitions.
LEMMA LaterClosed ==
    ASSUME NEW v \in VMState, NEW s \in Later(v), NEW a \in Actions, Permits(s, a)
    PROVE  Target(a) \in Later(v)
BY DEF VMState, Later, Actions, Permits, Target, stateTransitionAllowed

\* An action is only permitted on a registered VM and leads to a VM state.
LEMMA PermitsRegistered ==
    ASSUME NEW s, NEW a \in Actions, Permits(s, a)
    PROVE  s \in VMState /\ s # "created" /\ Target(a) \in VMState
BY DEF VMState, Actions, Permits, Target, stateTransitionAllowed

\* No VM state is the absence of one.
LEMMA AbsentNoState == Absent \notin VMState
BY DEF Absent, VMState

-----------------------------------------------------------------------------
(* Type correctness.                                                       *)

\* A thread that serves nothing is well-typed.
LEMMA IdleIsRequest == Idle \in Request
BY DEF Idle, Request, PC

\* The empty registry and the empty map are well-typed.
LEMMA TypeInit == Init => TypeOK
<1> SUFFICES ASSUME Init PROVE TypeOK
    OBVIOUS
<1>1. nextHandle \in 1 .. MaxHandle + 1
    BY MaxHandleAssumption DEF Init
<1>2. core \in [Handles -> VMState \cup {Absent}] /\ vms \in [Handles -> VMState \cup {Absent}]
    BY DEF Init
<1>3. req \in [Threads -> Request]
    BY IdleIsRequest DEF Init
<1>4. QED
    BY <1>1, <1>2, <1>3 DEF TypeOK

-----------------------------------------------------------------------------
(* The invariant is inductive.                                             *)

\* The invariant holds of the empty registry.
LEMMA InvInit == Init => IInv
<1> SUFFICES ASSUME Init PROVE IInv
    OBVIOUS
<1>1. TypeOK
    BY TypeInit
<1>2. \A t \in Threads : req[t] = Idle /\ req[t].pc = "idle" /\ req[t].h = 0
    BY Zenon DEF Init, Idle
<1>3. \A h \in Handles : core[h] = Absent /\ vms[h] = Absent
    BY DEF Init
<1>4. Carries /\ HandlesIssued /\ UnpublishGone /\ SeenNeverAhead /\ CreatorOwns
    BY <1>2 DEF Init, Carries, HandlesIssued, UnpublishGone, SeenNeverAhead, CreatorOwns, Creating
<1>5. FreshUnknown /\ DifferenceExplained /\ CacheNeverAhead
    BY <1>3 DEF FreshUnknown, DifferenceExplained, Explained, CacheNeverAhead
<1>6. QED
    BY <1>1, <1>4, <1>5 DEF IInv

\* A step of t leaves a handle t does not work on as explained as it was.
LEMMA OthersExplained ==
    ASSUME NEW t \in Threads, NEW x \in Handles, req[t].h # x,
           \A u \in Threads \ {t} : req'[u] = req[u],
           core'[x] = core[x], vms'[x] = vms[x], Explained(x)
    PROVE  Explained(x)'
BY DEF Explained

\* TakeHandle issues a handle nobody knows.
LEMMA InvTakeHandle ==
    ASSUME IInv, NEW t \in Threads, TakeHandle(t)
    PROVE  IInv'
<1> DEFINE h == req[t].h
<1>1. /\ req[t].pc = "idle" /\ h = 0 /\ nextHandle \in Handles
      /\ core' = core /\ vms' = vms /\ nextHandle' = nextHandle + 1
    BY DEF TakeHandle, IInv, Carries, HandlesIssued
<1>2. /\ req' \in [Threads -> Request]
      /\ req'[t].pc = "insert" /\ req'[t].h = nextHandle
      /\ \A u \in Threads \ {t} : req'[u] = req[u]
    BY <1>1, IdleIsRequest, Zenon
       DEF TakeHandle, IInv, TypeOK, Request, PC, Idle, Handles
<1> HIDE DEF h
<1>3. TypeOK'
    BY <1>1, <1>2, MaxHandleAssumption DEF IInv, TypeOK, VMState, Handles
<1>4. Carries' /\ HandlesIssued'
    BY <1>1, <1>2 DEF IInv, Carries, HandlesIssued, TypeOK, h, Handles
<1>5. FreshUnknown'
    BY <1>1, <1>2 DEF IInv, FreshUnknown, HandlesIssued, TypeOK, Handles, h
<1>6. CreatorOwns'
    BY <1>1, <1>2 DEF IInv, TypeOK, CreatorOwns, LeftIn, HandlesIssued, FreshUnknown, Creating, h
<1>7. ASSUME NEW x \in Handles PROVE Explained(x)'
  <2>1. CASE x # h
    BY <1>1, <1>2, <2>1, OthersExplained DEF IInv, TypeOK, DifferenceExplained, h
  <2>2. CASE x = h
    BY <1>1, <1>2, <2>2 DEF IInv, TypeOK, HandlesIssued, Handles, Explained, Creating, Absent, h
  <2>3. QED BY <2>1, <2>2
<1>8. UnpublishGone' /\ SeenNeverAhead' /\ CacheNeverAhead'
    BY <1>1, <1>2, AbsentNoState DEF IInv, TypeOK, CreatorOwns, UnpublishGone,
       SeenNeverAhead, CacheNeverAhead, Creating, h, Handles, HandlesIssued, FreshUnknown
<1>9. QED
    BY <1>3, <1>4, <1>5, <1>6, <1>7, <1>8 DEF IInv, DifferenceExplained

\* Insert registers a VM only its creator knows.
LEMMA InvInsert ==
    ASSUME IInv, NEW t \in Threads, Insert(t)
    PROVE  IInv'
<1> DEFINE h == req[t].h
<1>1. /\ req[t].pc = "insert" /\ h \in Handles
      /\ core' = [core EXCEPT ![h] = "created"]
      /\ vms' = vms /\ nextHandle' = nextHandle
    BY DEF Insert, IInv, Carries
<1>2. /\ req' \in [Threads -> Request]
      /\ req'[t].pc = "configure" /\ req'[t].h = h
      /\ \A u \in Threads \ {t} : req'[u] = req[u]
    BY <1>1, IdleIsRequest, Zenon DEF Insert, IInv, TypeOK, Request, PC, Idle
<1> HIDE DEF h
<1>3. TypeOK'
    BY <1>1, <1>2 DEF IInv, TypeOK, VMState, Handles
<1>4. Carries' /\ HandlesIssued'
    BY <1>1, <1>2 DEF IInv, Carries, HandlesIssued, TypeOK, h
<1>5. FreshUnknown'
    BY <1>1, <1>2 DEF IInv, FreshUnknown, HandlesIssued, TypeOK, Handles, h
<1>6. CreatorOwns'
    BY <1>1, <1>2 DEF IInv, TypeOK, CreatorOwns, LeftIn, HandlesIssued, FreshUnknown, Creating, h
<1>7. ASSUME NEW x \in Handles PROVE Explained(x)'
  <2>1. CASE x # h
    BY <1>1, <1>2, <2>1, OthersExplained DEF IInv, TypeOK, DifferenceExplained, h
  <2>2. CASE x = h
    BY <1>1, <1>2, <2>2 DEF IInv, TypeOK, Explained, Creating, Absent, h
  <2>3. QED BY <2>1, <2>2
<1>8. UnpublishGone' /\ SeenNeverAhead' /\ CacheNeverAhead'
    BY <1>1, <1>2, AbsentNoState DEF IInv, TypeOK, CreatorOwns, UnpublishGone,
       SeenNeverAhead, CacheNeverAhead, Creating, h
<1>9. QED
    BY <1>3, <1>4, <1>5, <1>6, <1>7, <1>8 DEF IInv, DifferenceExplained

\* Configure always finds the VM it inserted.
LEMMA InvConfigure ==
    ASSUME IInv, NEW t \in Threads, Configure(t)
    PROVE  IInv'
<1> DEFINE h == req[t].h
<1>1. /\ req[t].pc = "configure" /\ h \in Handles
      /\ core[h] = "created"
      /\ core' = [core EXCEPT ![h] = "configured"]
      /\ vms' = vms /\ nextHandle' = nextHandle
    BY DEF Configure, IInv, Carries, CreatorOwns, LeftIn, Creating
<1>2. /\ req' \in [Threads -> Request]
      /\ req'[t].pc = "publish" /\ req'[t].h = h
      /\ \A u \in Threads \ {t} : req'[u] = req[u]
  <2>1. req' = [req EXCEPT ![t].pc = "publish"]
    BY <1>1 DEF Configure
  <2>2. QED
    BY <2>1, ZenonT(60) DEF IInv, TypeOK, Request, PC
<1> HIDE DEF h
<1>3. TypeOK'
    BY <1>1, <1>2 DEF IInv, TypeOK, VMState, Handles
<1>4. Carries' /\ HandlesIssued'
    BY <1>1, <1>2 DEF IInv, Carries, HandlesIssued, TypeOK, h
<1>5. FreshUnknown'
    BY <1>1, <1>2 DEF IInv, FreshUnknown, HandlesIssued, TypeOK, Handles, h
<1>6. CreatorOwns'
    BY <1>1, <1>2 DEF IInv, TypeOK, CreatorOwns, LeftIn, HandlesIssued, FreshUnknown, Creating, h
<1>7. ASSUME NEW x \in Handles PROVE Explained(x)'
  <2>1. CASE x # h
    BY <1>1, <1>2, <2>1, OthersExplained DEF IInv, TypeOK, DifferenceExplained, h
  <2>2. CASE x = h
    BY <1>1, <1>2, <2>2 DEF IInv, TypeOK, Explained, Creating, Absent, h
  <2>3. QED BY <2>1, <2>2
<1>8. UnpublishGone' /\ SeenNeverAhead' /\ CacheNeverAhead'
    BY <1>1, <1>2, AbsentNoState DEF IInv, TypeOK, CreatorOwns, UnpublishGone,
       SeenNeverAhead, CacheNeverAhead, Creating, h
<1>9. QED
    BY <1>3, <1>4, <1>5, <1>6, <1>7, <1>8 DEF IInv, DifferenceExplained

\* Publish lists a configured VM.
LEMMA InvPublish ==
    ASSUME IInv, NEW t \in Threads, Publish(t)
    PROVE  IInv'
<1> DEFINE h == req[t].h
<1>1. /\ req[t].pc = "publish" /\ h \in Handles
      /\ core[h] = "configured"
      /\ vms' = [vms EXCEPT ![h] = "configured"]
      /\ core' = core /\ nextHandle' = nextHandle
    BY DEF Publish, IInv, Carries, CreatorOwns, LeftIn, Creating
<1>2. /\ req' \in [Threads -> Request]
      /\ req'[t].pc = "idle" /\ req'[t].h = 0
      /\ \A u \in Threads \ {t} : req'[u] = req[u]
    BY <1>1, IdleIsRequest, Zenon DEF Publish, IInv, TypeOK, Request, PC, Idle
<1> HIDE DEF h
<1>3. TypeOK'
    BY <1>1, <1>2 DEF IInv, TypeOK, VMState, Handles
<1>4. Carries' /\ HandlesIssued'
    BY <1>1, <1>2 DEF IInv, Carries, HandlesIssued, TypeOK, h
<1>5. FreshUnknown'
    BY <1>1, <1>2 DEF IInv, FreshUnknown, HandlesIssued, TypeOK, Handles, h
<1>6. CreatorOwns'
    BY <1>1, <1>2 DEF IInv, TypeOK, CreatorOwns, LeftIn, HandlesIssued, FreshUnknown, Creating, h
<1>7. ASSUME NEW x \in Handles PROVE Explained(x)'
  <2>1. CASE x # h
    BY <1>1, <1>2, <2>1, OthersExplained DEF IInv, TypeOK, DifferenceExplained, h
  <2>2. CASE x = h
    BY <1>1, <1>2, <2>2 DEF IInv, TypeOK, Explained, Creating, Absent, h
  <2>3. QED BY <2>1, <2>2
<1>8. UnpublishGone' /\ SeenNeverAhead' /\ CacheNeverAhead'
    BY <1>1, <1>2, AbsentNoState, LaterReflexive DEF IInv, TypeOK, CreatorOwns, UnpublishGone,
       SeenNeverAhead, CacheNeverAhead, Creating, h
<1>9. QED
    BY <1>3, <1>4, <1>5, <1>6, <1>7, <1>8 DEF IInv, DifferenceExplained

\* A request starts on a listed VM, so never on one under creation.
LEMMA InvRequestDestroy ==
    ASSUME IInv, NEW t \in Threads, NEW h0 \in Handles, RequestDestroy(t, h0)
    PROVE  IInv'
<1> DEFINE h == req[t].h
<1>1. /\ req[t].pc = "idle" /\ h = 0 /\ vms[h0] # Absent
      /\ core' = core /\ vms' = vms /\ nextHandle' = nextHandle
    BY DEF RequestDestroy, IInv, Carries, HandlesIssued, findBackendForVM
<1>2. /\ req' \in [Threads -> Request]
      /\ req'[t].pc = "destroy" /\ req'[t].h = h0
      /\ \A u \in Threads \ {t} : req'[u] = req[u]
    BY <1>1, IdleIsRequest, Zenon
       DEF RequestDestroy, IInv, TypeOK, Request, PC, Idle, findBackendForVM
<1> HIDE DEF h
<1>3. TypeOK'
    BY <1>1, <1>2 DEF IInv, TypeOK, VMState, Handles
<1>4. Carries' /\ HandlesIssued'
    BY <1>1, <1>2 DEF IInv, Carries, HandlesIssued, TypeOK, h, FreshUnknown, Handles
<1>5. FreshUnknown'
    BY <1>1, <1>2 DEF IInv, FreshUnknown, HandlesIssued, TypeOK, Handles, h
<1>6. CreatorOwns'
    BY <1>1, <1>2 DEF IInv, TypeOK, CreatorOwns, HandlesIssued, FreshUnknown, Creating, h
<1>7. ASSUME NEW x \in Handles PROVE Explained(x)'
  <2>1. CASE x # h
    BY <1>1, <1>2, <2>1, OthersExplained DEF IInv, TypeOK, DifferenceExplained, h
  <2>2. CASE x = h
    BY <1>1, <1>2, <2>2 DEF IInv, TypeOK, Handles, Explained, Creating, Absent, h
  <2>3. QED BY <2>1, <2>2
<1>8. UnpublishGone' /\ SeenNeverAhead' /\ CacheNeverAhead'
    BY <1>1, <1>2, AbsentNoState DEF IInv, TypeOK, CreatorOwns, UnpublishGone,
       SeenNeverAhead, CacheNeverAhead, Creating, h
<1>9. QED
    BY <1>3, <1>4, <1>5, <1>6, <1>7, <1>8 DEF IInv, DifferenceExplained

\* The same for an action.
LEMMA InvRequestAction ==
    ASSUME IInv, NEW t \in Threads, NEW h0 \in Handles, NEW a \in Actions, RequestAction(t, h0, a)
    PROVE  IInv'
<1> DEFINE h == req[t].h
<1>1. /\ req[t].pc = "idle" /\ h = 0 /\ vms[h0] # Absent
      /\ core' = core /\ vms' = vms /\ nextHandle' = nextHandle
    BY DEF RequestAction, IInv, Carries, HandlesIssued, findBackendForVM
<1>2. /\ req' \in [Threads -> Request]
      /\ req'[t].pc = "act" /\ req'[t].h = h0
      /\ req'[t].a = a
      /\ \A u \in Threads \ {t} : req'[u] = req[u]
    BY <1>1, IdleIsRequest, Zenon
       DEF RequestAction, IInv, TypeOK, Request, PC, Idle, findBackendForVM
<1> HIDE DEF h
<1>3. TypeOK'
    BY <1>1, <1>2 DEF IInv, TypeOK, VMState, Handles
<1>4. Carries' /\ HandlesIssued'
    BY <1>1, <1>2 DEF IInv, Carries, HandlesIssued, TypeOK, h, FreshUnknown, Handles
<1>5. FreshUnknown'
    BY <1>1, <1>2 DEF IInv, FreshUnknown, HandlesIssued, TypeOK, Handles, h
<1>6. CreatorOwns'
    BY <1>1, <1>2 DEF IInv, TypeOK, CreatorOwns, HandlesIssued, FreshUnknown, Creating, h
<1>7. ASSUME NEW x \in Handles PROVE Explained(x)'
  <2>1. CASE x # h
    BY <1>1, <1>2, <2>1, OthersExplained DEF IInv, TypeOK, DifferenceExplained, h
  <2>2. CASE x = h
    BY <1>1, <1>2, <2>2 DEF IInv, TypeOK, Handles, Explained, Creating, Absent, h
  <2>3. QED BY <2>1, <2>2
<1>8. UnpublishGone' /\ SeenNeverAhead' /\ CacheNeverAhead'
    BY <1>1, <1>2, AbsentNoState DEF IInv, TypeOK, CreatorOwns, UnpublishGone,
       SeenNeverAhead, CacheNeverAhead, Creating, h
<1>9. QED
    BY <1>3, <1>4, <1>5, <1>6, <1>7, <1>8 DEF IInv, DifferenceExplained

\* Unpublish unlists a VM that is gone.
LEMMA InvUnpublish ==
    ASSUME IInv, NEW t \in Threads, Unpublish(t)
    PROVE  IInv'
<1> DEFINE h == req[t].h
<1>1. /\ req[t].pc = "unpublish" /\ h \in Handles
      /\ core[h] = Absent
      /\ vms' = [vms EXCEPT ![h] = Absent]
      /\ core' = core /\ nextHandle' = nextHandle
    BY DEF Unpublish, IInv, Carries, UnpublishGone
<1>2. /\ req' \in [Threads -> Request]
      /\ req'[t].pc = "idle" /\ req'[t].h = 0
      /\ \A u \in Threads \ {t} : req'[u] = req[u]
    BY <1>1, IdleIsRequest, Zenon DEF Unpublish, IInv, TypeOK, Request, PC, Idle
<1> HIDE DEF h
<1>3. TypeOK'
    BY <1>1, <1>2 DEF IInv, TypeOK, VMState, Handles
<1>4. Carries' /\ HandlesIssued'
    BY <1>1, <1>2 DEF IInv, Carries, HandlesIssued, TypeOK, h
<1>5. FreshUnknown'
    BY <1>1, <1>2 DEF IInv, FreshUnknown, HandlesIssued, TypeOK, Handles, h
<1>6. CreatorOwns'
    BY <1>1, <1>2 DEF IInv, TypeOK, CreatorOwns, HandlesIssued, FreshUnknown, Creating, h
<1>7. ASSUME NEW x \in Handles PROVE Explained(x)'
  <2>1. CASE x # h
    BY <1>1, <1>2, <2>1, OthersExplained DEF IInv, TypeOK, DifferenceExplained, h
  <2>2. CASE x = h
    BY <1>1, <1>2, <2>2 DEF IInv, TypeOK, Explained, Creating, Absent, h
  <2>3. QED BY <2>1, <2>2
<1>8. UnpublishGone' /\ SeenNeverAhead' /\ CacheNeverAhead'
    BY <1>1, <1>2, AbsentNoState DEF IInv, TypeOK, CreatorOwns, UnpublishGone,
       SeenNeverAhead, CacheNeverAhead, Creating, h
<1>9. QED
    BY <1>3, <1>4, <1>5, <1>6, <1>7, <1>8 DEF IInv, DifferenceExplained

\* CoreDestroy: whoever removes the VM from the registry goes on to unlist it.
LEMMA InvCoreDestroy ==
    ASSUME IInv, NEW t \in Threads, CoreDestroy(t)
    PROVE  IInv'
<1> DEFINE h == req[t].h
<1>1. /\ req[t].pc = "destroy" /\ h \in Handles
      /\ core' = [core EXCEPT ![h] = Absent]
      /\ vms' = vms /\ nextHandle' = nextHandle
    BY DEF CoreDestroy, IInv, Carries
<1>2. /\ req' \in [Threads -> Request]
      /\ \/ core[h] = Absent /\ req'[t].pc = "idle" /\ req'[t].h = 0
         \/ core[h] # Absent /\ req'[t].pc = "unpublish" /\ req'[t].h = h
      /\ \A u \in Threads \ {t} : req'[u] = req[u]
    BY <1>1, IdleIsRequest, Zenon DEF CoreDestroy, IInv, TypeOK, Request, PC, Idle
<1> HIDE DEF h
<1>3. TypeOK'
    BY <1>1, <1>2 DEF IInv, TypeOK, VMState, Handles
<1>4. Carries' /\ HandlesIssued'
    BY <1>1, <1>2 DEF IInv, Carries, HandlesIssued, TypeOK, h
<1>5. FreshUnknown'
    BY <1>1, <1>2 DEF IInv, FreshUnknown, HandlesIssued, TypeOK, Handles, h
<1>6. CreatorOwns'
    BY <1>1, <1>2 DEF IInv, TypeOK, CreatorOwns, HandlesIssued, FreshUnknown, Creating, h
<1>7. ASSUME NEW x \in Handles PROVE Explained(x)'
  <2>1. CASE x # h
    BY <1>1, <1>2, <2>1, OthersExplained DEF IInv, TypeOK, DifferenceExplained, h
  <2>2. CASE x = h
    BY <1>1, <1>2, <2>2 DEF IInv, TypeOK, DifferenceExplained, Explained, Creating, Absent, h
  <2>3. QED BY <2>1, <2>2
<1>8. UnpublishGone' /\ SeenNeverAhead' /\ CacheNeverAhead'
    BY <1>1, <1>2, AbsentNoState DEF IInv, TypeOK, CreatorOwns, UnpublishGone,
       SeenNeverAhead, CacheNeverAhead, Creating, h
<1>9. QED
    BY <1>3, <1>4, <1>5, <1>6, <1>7, <1>8 DEF IInv, DifferenceExplained

\* CoreAction moves the registry along its transition table.
LEMMA InvCoreAction ==
    ASSUME IInv, NEW t \in Threads, CoreAction(t)
    PROVE  IInv'
<1> DEFINE h == req[t].h
           s == Target(req[t].a)
<1>1. /\ req[t].pc = "act" /\ h \in Handles /\ req[t].a \in Actions
      /\ vms' = vms /\ nextHandle' = nextHandle
    BY DEF CoreAction, IInv, Carries
<1>2. CASE ~Permits(core[h], req[t].a)
  <2>1. req' = [req EXCEPT ![t] = Idle] /\ core' = core
    BY <1>2 DEF CoreAction
  <2>2. /\ req' \in [Threads -> Request]
        /\ req'[t].pc = "idle" /\ req'[t].h = 0
        /\ \A u \in Threads \ {t} : req'[u] = req[u]
    BY <2>1, IdleIsRequest, Zenon DEF IInv, TypeOK, Idle
  <2> HIDE DEF h
  <2>3. TypeOK' /\ Carries' /\ HandlesIssued' /\ FreshUnknown'
    BY <1>1, <2>1, <2>2 DEF IInv, TypeOK, Carries, HandlesIssued, FreshUnknown, Handles
  <2>4. CreatorOwns' /\ UnpublishGone' /\ SeenNeverAhead' /\ CacheNeverAhead'
    BY <1>1, <2>1, <2>2
       DEF IInv, HandlesIssued, CreatorOwns, UnpublishGone, SeenNeverAhead, CacheNeverAhead, Creating
  <2>5. ASSUME NEW x \in Handles PROVE Explained(x)'
    BY <1>1, <2>1, <2>2, Zenon DEF IInv, DifferenceExplained, Explained, Creating, h
  <2>6. QED
    BY <2>3, <2>4, <2>5 DEF IInv, DifferenceExplained
<1>3. CASE Permits(core[h], req[t].a)
  <2>1. /\ core' = [core EXCEPT ![h] = s] /\ req' = [req EXCEPT ![t].pc = "read"]
        /\ core[h] \in VMState /\ s \in VMState
    BY <1>1, <1>3, PermitsRegistered DEF CoreAction
  <2>2. /\ req' \in [Threads -> Request]
        /\ req'[t].pc = "read" /\ req'[t].h = h
        /\ \A u \in Threads \ {t} : req'[u] = req[u]
    BY <2>1, Zenon DEF IInv, TypeOK, Request, PC
  <2>3. \A v \in VMState : core[h] \in Later(v) => s \in Later(v)
    BY <1>1, <1>3, LaterClosed
  <2> HIDE DEF h, s
  <2>4. TypeOK' /\ Carries' /\ HandlesIssued'
    BY <1>1, <2>1, <2>2 DEF IInv, TypeOK, Carries, HandlesIssued, h
  <2>5. FreshUnknown'
    BY <1>1, <2>1, AbsentNoState DEF IInv, TypeOK, FreshUnknown
  <2>6. CreatorOwns'
    BY <1>1, <2>1, <2>2 DEF IInv, TypeOK, CreatorOwns, Creating, h
  <2>7. ASSUME NEW x \in Handles PROVE Explained(x)'
    <3>1. CASE x # h
      BY <1>1, <2>1, <2>2, <3>1, OthersExplained DEF IInv, TypeOK, DifferenceExplained, h
    <3>2. CASE x = h
      BY <1>1, <2>1, <2>2, <3>2, AbsentNoState DEF IInv, TypeOK, DifferenceExplained, Explained, Creating, h
    <3>3. QED BY <3>1, <3>2
  <2>8. UnpublishGone'
    BY <1>1, <2>1, <2>2, AbsentNoState DEF IInv, TypeOK, UnpublishGone, h
  <2>9. SeenNeverAhead' /\ CacheNeverAhead'
    BY <1>1, <2>1, <2>2, <2>3, AbsentNoState DEF IInv, TypeOK, SeenNeverAhead, CacheNeverAhead, h
  <2>10. QED
    BY <2>4, <2>5, <2>6, <2>7, <2>8, <2>9 DEF IInv, DifferenceExplained
<1>4. QED BY <1>2, <1>3

\* ReadState sees a state the registry is in.
LEMMA InvReadState ==
    ASSUME IInv, NEW t \in Threads, ReadState(t)
    PROVE  IInv'
<1> DEFINE h == req[t].h
<1>1. /\ req[t].pc = "read" /\ h \in Handles
      /\ core' = core /\ vms' = vms /\ nextHandle' = nextHandle
    BY DEF ReadState, IInv, Carries
<1>2. /\ req' \in [Threads -> Request]
      /\ \/ req'[t].pc = "idle" /\ req'[t].h = 0
         \/ /\ core[h] # Absent /\ req'[t].pc = "sync" /\ req'[t].h = h
            /\ req'[t].seen = core[h]
      /\ \A u \in Threads \ {t} : req'[u] = req[u]
    BY <1>1, IdleIsRequest, Zenon DEF ReadState, IInv, TypeOK, Request, PC, Idle
<1> HIDE DEF h
<1>3. TypeOK'
    BY <1>1, <1>2 DEF IInv, TypeOK, VMState, Handles
<1>4. Carries' /\ HandlesIssued'
    BY <1>1, <1>2 DEF IInv, Carries, HandlesIssued, TypeOK, h
<1>5. FreshUnknown'
    BY <1>1, <1>2 DEF IInv, FreshUnknown, HandlesIssued, TypeOK, Handles, h
<1>6. CreatorOwns'
    BY <1>1, <1>2 DEF IInv, TypeOK, CreatorOwns, HandlesIssued, FreshUnknown, Creating, h
<1>7. ASSUME NEW x \in Handles PROVE Explained(x)'
  <2>1. CASE x # h
    BY <1>1, <1>2, <2>1, OthersExplained DEF IInv, TypeOK, DifferenceExplained, h
  <2>2. CASE x = h
    BY <1>1, <1>2, <2>2 DEF IInv, TypeOK, DifferenceExplained, Explained, Creating, Absent, h
  <2>3. QED BY <2>1, <2>2
<1>8. UnpublishGone' /\ SeenNeverAhead' /\ CacheNeverAhead'
    BY <1>1, <1>2, AbsentNoState, LaterReflexive DEF IInv, TypeOK, CreatorOwns, UnpublishGone,
       SeenNeverAhead, CacheNeverAhead, Creating, h, VMState
<1>9. QED
    BY <1>3, <1>4, <1>5, <1>6, <1>7, <1>8 DEF IInv, DifferenceExplained

\* Sync writes a state the registry was in, and only to a listed VM.
LEMMA InvSync ==
    ASSUME IInv, NEW t \in Threads, Sync(t)
    PROVE  IInv'
<1> DEFINE h == req[t].h
<1>1. /\ req[t].pc = "sync" /\ h \in Handles /\ req[t].seen \in VMState
      /\ core[h] \in Later(req[t].seen) \cup {Absent}
      /\ \/ vms' = vms
         \/ vms[h] # Absent /\ vms' = [vms EXCEPT ![h] = req[t].seen]
      /\ core' = core /\ nextHandle' = nextHandle
    BY Zenon DEF Sync, IInv, Carries, SeenNeverAhead
<1>2. /\ req' \in [Threads -> Request]
      /\ req'[t].pc = "idle" /\ req'[t].h = 0
      /\ \A u \in Threads \ {t} : req'[u] = req[u]
    BY <1>1, IdleIsRequest, Zenon DEF Sync, IInv, TypeOK, Request, PC, Idle
<1> HIDE DEF h
<1>3. TypeOK'
    BY <1>1, <1>2 DEF IInv, TypeOK, VMState, Handles
<1>4. Carries' /\ HandlesIssued'
    BY <1>1, <1>2 DEF IInv, Carries, HandlesIssued, TypeOK, h
<1>5. FreshUnknown'
    BY <1>1, <1>2, Zenon DEF IInv, FreshUnknown, HandlesIssued, TypeOK, Handles, h
<1>6. CreatorOwns'
  <2> SUFFICES ASSUME NEW u \in Threads, req'[u].pc \in Creating
               PROVE  /\ vms'[req'[u].h] = Absent
                      /\ \A w \in Threads \ {u} : req'[w].h # req'[u].h
                      /\ core'[req'[u].h] = LeftIn(req'[u].pc)
    BY Zenon DEF CreatorOwns
  <2>1. u # t /\ req'[u] = req[u]
    BY <1>2 DEF Creating
  <2>2. /\ vms[req[u].h] = Absent /\ core[req[u].h] = LeftIn(req[u].pc)
        /\ req[u].h \in Handles /\ req[u].h # h
        /\ \A w \in Threads \ {u} : req[w].h # req[u].h
    BY <2>1, Zenon DEF IInv, CreatorOwns, Carries, Creating, h
  <2>3. vms'[req[u].h] = Absent
    BY <1>1, <2>2, Zenon DEF IInv, TypeOK
  <2>4. req'[t].h # req[u].h
    BY <1>2, <2>2, MaxHandleAssumption DEF Handles
  <2>5. QED
    BY <1>1, <1>2, <2>1, <2>2, <2>3, <2>4, Zenon
<1>7. ASSUME NEW x \in Handles PROVE Explained(x)'
  <2>1. CASE x # h
    BY <1>1, <1>2, <2>1, OthersExplained, Zenon
       DEF IInv, TypeOK, DifferenceExplained, h
  <2>2. CASE x = h
    <3>1. core'[x] = core[x] /\ (vms'[x] = Absent <=> vms[x] = Absent)
      BY <1>1, <2>2, AbsentNoState, Zenon DEF IInv, TypeOK
    <3>2. QED
      BY <1>1, <1>2, <3>1 DEF IInv, DifferenceExplained, Explained, Creating
  <2>3. QED BY <2>1, <2>2
<1>8. UnpublishGone' /\ SeenNeverAhead' /\ CacheNeverAhead'
    BY <1>1, <1>2, AbsentNoState DEF IInv, TypeOK, CreatorOwns, UnpublishGone,
       SeenNeverAhead, CacheNeverAhead, Creating, h, VMState
<1>9. QED
    BY <1>3, <1>4, <1>5, <1>6, <1>7, <1>8 DEF IInv, DifferenceExplained

\* Every step preserves the invariant.
LEMMA InvNext == IInv /\ [Next]_vars => IInv'
<1> SUFFICES ASSUME IInv, [Next]_vars PROVE IInv'
    OBVIOUS
<1>1. CASE UNCHANGED vars
  BY <1>1 DEF vars, IInv, TypeOK, Carries, HandlesIssued, FreshUnknown, CreatorOwns,
     DifferenceExplained, Explained, UnpublishGone, SeenNeverAhead, CacheNeverAhead
<1>2. CASE Next
  <2>1. PICK t \in Threads : Accept(t) \/ Continue(t)
    BY <1>2 DEF Next
  <2>2. CASE Accept(t)
    BY <2>2, InvTakeHandle, InvRequestDestroy, InvRequestAction DEF Accept
  <2>3. CASE Continue(t)
    BY <2>3, InvInsert, InvConfigure, InvPublish, InvCoreDestroy, InvUnpublish,
       InvCoreAction, InvReadState, InvSync DEF Continue
  <2>4. QED BY <2>1, <2>2, <2>3
<1>3. QED BY <1>1, <1>2

\* The invariant holds in every reachable state.
THEOREM Invariance == Spec => []IInv
BY InvInit, InvNext, PTL DEF Spec

\* Type correctness of RustVMM.
THEOREM TypeCorrect == Spec => []TypeOK
<1>1. IInv => TypeOK
    BY DEF IInv
<1>2. QED BY <1>1, Invariance, PTL

\* CreateVM has the VM to itself until it publishes it, so its roll-back
\* branch is dead code.
THEOREM CreateIsPrivate == Spec => []PrivateUntilPublished
<1>1. IInv => PrivateUntilPublished
    BY Zenon DEF IInv, PrivateUntilPublished, CreatorOwns, Creating, LeftIn
<1>2. QED BY <1>1, Invariance, PTL

\* No request leaks a VM or leaves a ghost entry behind.
THEOREM NoLeakNoGhost == Spec => []ListedIffRegistered
<1>1. IInv => ListedIffRegistered
    BY DEF IInv, ListedIffRegistered, Quiet, DifferenceExplained, Explained
<1>2. QED BY <1>1, Invariance, PTL

\* The cached state never runs ahead of the registry.
THEOREM CacheLagsOnly == Spec => []CacheNeverAhead
<1>1. IInv => CacheNeverAhead
    BY DEF IInv
<1>2. QED BY <1>1, Invariance, PTL

-----------------------------------------------------------------------------
(* RustVMM implements VMLife: every step of a request is a step in the     *)
(* life of one handle, or none.                                            *)

\* A handle whose registry entry and birth are untouched lives on unchanged.
LEMMA LifeFrame ==
    ASSUME NEW x \in Handles, core'[x] = core[x], Unborn(x)' <=> Unborn(x)
    PROVE  lifeBar'[x] = lifeBar[x]
BY DEF lifeBar

\* A step that touches one handle is an update of lifeBar.
LEMMA LifeUpdate ==
    ASSUME NEW h \in Handles, NEW v, lifeBar'[h] = v,
           \A x \in Handles \ {h} : lifeBar'[x] = lifeBar[x]
    PROVE  lifeBar' = [lifeBar EXCEPT ![h] = v]
BY Zenon DEF lifeBar

\* A step that touches no handle leaves lifeBar alone.
LEMMA LifeStutter ==
    ASSUME core' = core, \A x \in Handles : Unborn(x)' <=> Unborn(x)
    PROVE  lifeBar' = lifeBar
BY DEF lifeBar

\* Only TakeHandle and Insert decide whether a handle is yet to be born.
LEMMA UnbornFrame ==
    ASSUME NEW t \in Threads, req[t].pc # "insert", req'[t].pc # "insert",
           \A u \in Threads \ {t} : req'[u] = req[u], nextHandle' = nextHandle
    PROVE  \A x \in Handles : Unborn(x)' <=> Unborn(x)
BY DEF Unborn

\* The handle TakeHandle takes was unborn and stays so until it is inserted.
LEMMA LifeTakeHandle ==
    ASSUME IInv, NEW t \in Threads, TakeHandle(t)
    PROVE  lifeBar' = lifeBar
<1>1. /\ req[t].pc = "idle" /\ nextHandle \in Handles /\ nextHandle' = nextHandle + 1
      /\ core' = core
    BY DEF TakeHandle
<1>2. /\ req'[t].pc = "insert" /\ req'[t].h = nextHandle
      /\ \A u \in Threads \ {t} : req'[u] = req[u]
    BY Zenon DEF TakeHandle, IInv, TypeOK, Request, Idle
<1>3. ASSUME NEW x \in Handles PROVE Unborn(x)' <=> Unborn(x)
  <2>1. CASE x = nextHandle
    BY <1>1, <1>2, <2>1 DEF Unborn, Handles
  <2>2. CASE x # nextHandle
    <3>1. x >= nextHandle' <=> x >= nextHandle
      BY <1>1, <2>2, MaxHandleAssumption DEF Handles
    <3>2. QED BY <1>1, <1>2, <2>2, <3>1 DEF Unborn
  <2>3. QED BY <2>1, <2>2
<1>4. QED BY <1>1, <1>3, LifeStutter

\* Insert gives birth to the handle.
LEMMA LifeInsert ==
    ASSUME IInv, NEW t \in Threads, Insert(t)
    PROVE  \E h \in Handles : Life!Born(h)
<1> DEFINE h == req[t].h
<1>1. /\ req[t].pc = "insert" /\ h \in Handles /\ core[h] = Absent
      /\ core' = [core EXCEPT ![h] = "created"] /\ nextHandle' = nextHandle
    BY DEF Insert, IInv, Carries, CreatorOwns, Creating, LeftIn
<1>2. /\ req'[t].pc = "configure" /\ req'[t].h = h
      /\ \A u \in Threads \ {t} : req'[u] = req[u]
    BY Zenon DEF Insert, IInv, TypeOK, Request
<1>3. req[t].h = h
    OBVIOUS
<1> HIDE DEF h
<1>4. ASSUME NEW x \in Handles \ {h} PROVE lifeBar'[x] = lifeBar[x]
  <2>1. core'[x] = core[x]
    BY <1>1 DEF IInv, TypeOK
  <2>2. Unborn(x)' <=> Unborn(x)
    BY <1>1, <1>2, <1>3 DEF Unborn
  <2>3. QED BY <2>1, <2>2, LifeFrame
<1>5. lifeBar[h] = "unborn"
    BY <1>1, <1>3 DEF lifeBar, Unborn
<1>6. lifeBar'[h] = "created"
    BY <1>1, AbsentNoState DEF lifeBar, IInv, TypeOK, VMState
<1>7. lifeBar' = [lifeBar EXCEPT ![h] = "created"]
    BY <1>1, <1>4, <1>6, LifeUpdate
<1>8. QED BY <1>1, <1>5, <1>7, Zenon DEF Life!Born

\* A step that moves the registry entry of one handle along an edge of the
\* state diagram, and no handle's birth, is a move of VMLife.
LEMMA LifeMoves ==
    ASSUME IInv, NEW h \in Handles, NEW s \in VMState, core[h] \in VMState,
           Life!Edge(core[h], s), core' = [core EXCEPT ![h] = s],
           \A x \in Handles : Unborn(x)' <=> Unborn(x)
    PROVE  Life!Moves(h, s)
<1>1. core \in [Handles -> VMState \cup {Absent}]
    BY DEF IInv, TypeOK
<1>2. ASSUME NEW x \in Handles \ {h} PROVE lifeBar'[x] = lifeBar[x]
    BY <1>1, LifeFrame
<1>3. lifeBar[h] = core[h] /\ lifeBar'[h] = s
    BY <1>1, AbsentNoState DEF lifeBar
<1>4. lifeBar' = [lifeBar EXCEPT ![h] = s]
    BY <1>2, <1>3, LifeUpdate
<1>5. QED BY <1>3, <1>4 DEF Life!Moves

\* Configure moves the handle from created to configured.
LEMMA LifeConfigure ==
    ASSUME IInv, NEW t \in Threads, Configure(t)
    PROVE  \E h \in Handles : \E s \in VMState : Life!Moves(h, s)
<1>1. /\ req[t].pc = "configure" /\ req[t].h \in Handles /\ core[req[t].h] = "created"
    BY DEF Configure, IInv, Carries, CreatorOwns, Creating, LeftIn
<1>2. /\ core' = [core EXCEPT ![req[t].h] = "configured"] /\ nextHandle' = nextHandle
      /\ req' = [req EXCEPT ![t].pc = "publish"]
    BY <1>1 DEF Configure
<1>3. req'[t].pc = "publish" /\ \A u \in Threads \ {t} : req'[u] = req[u]
    BY <1>2, Zenon DEF IInv, TypeOK, Request
<1>4. \A x \in Handles : Unborn(x)' <=> Unborn(x)
    BY <1>1, <1>2, <1>3, UnbornFrame
<1>5. Life!Edge(core[req[t].h], "configured")
    BY <1>1 DEF Life!Edge
<1>6. Life!Moves(req[t].h, "configured")
    BY <1>1, <1>2, <1>4, <1>5, LifeMoves, Zenon DEF VMState
<1>7. QED BY <1>1, <1>6 DEF VMState

\* Every transition the registry permits is an edge of the state diagram.
LEMMA PermitsEdge ==
    ASSUME NEW s, NEW a \in Actions, Permits(s, a)
    PROVE  Life!Edge(s, Target(a))
BY DEF Permits, Target, Actions, stateTransitionAllowed, Life!Edge

\* A permitted action moves the handle; a refused one changes nothing.
LEMMA LifeCoreAction ==
    ASSUME IInv, NEW t \in Threads, CoreAction(t)
    PROVE  \/ \E h \in Handles : \E s \in VMState : Life!Moves(h, s)
           \/ lifeBar' = lifeBar
<1> DEFINE h == req[t].h
           a == req[t].a
<1>1. /\ req[t].pc = "act" /\ h \in Handles /\ a \in Actions /\ nextHandle' = nextHandle
    BY DEF CoreAction, IInv, Carries
<1>2. req'[t].pc \in {"read", "idle"} /\ \A u \in Threads \ {t} : req'[u] = req[u]
  <2>1. req' = [req EXCEPT ![t].pc = "read"] \/ req' = [req EXCEPT ![t] = Idle]
    BY DEF CoreAction
  <2>2. req \in [Threads -> Request]
    BY DEF IInv, TypeOK
  <2>3. CASE req' = [req EXCEPT ![t].pc = "read"]
    BY <2>2, <2>3, Zenon DEF Request
  <2>4. CASE req' = [req EXCEPT ![t] = Idle]
    BY <2>2, <2>4, Zenon DEF Idle
  <2>5. QED BY <2>1, <2>3, <2>4
<1>3. \A x \in Handles : Unborn(x)' <=> Unborn(x)
    BY <1>1, <1>2, UnbornFrame, Zenon
<1>4. CASE Permits(core[h], a)
  <2>1. core' = [core EXCEPT ![h] = Target(a)]
    BY <1>4 DEF CoreAction
  <2>2. core[h] \in VMState /\ Target(a) \in VMState /\ Life!Edge(core[h], Target(a))
    BY <1>1, <1>4, PermitsRegistered, PermitsEdge, Zenon
  <2>3. Life!Moves(h, Target(a))
    BY <1>1, <1>3, <2>1, <2>2, LifeMoves, Zenon
  <2>4. QED BY <1>1, <2>2, <2>3, Zenon
<1>5. CASE ~Permits(core[h], a)
    BY <1>3, <1>5, LifeStutter DEF CoreAction
<1>6. QED BY <1>4, <1>5

\* A handle dies in the registry once; a second destroy changes nothing.
LEMMA LifeCoreDestroy ==
    ASSUME IInv, NEW t \in Threads, CoreDestroy(t)
    PROVE  (\E h \in Handles : Life!Dies(h)) \/ lifeBar' = lifeBar
<1> DEFINE h == req[t].h
<1>1. /\ req[t].pc = "destroy" /\ h \in Handles /\ nextHandle' = nextHandle
      /\ core' = [core EXCEPT ![h] = Absent]
    BY DEF CoreDestroy, IInv, Carries
<1>2. req'[t].pc \in {"unpublish", "idle"} /\ \A u \in Threads \ {t} : req'[u] = req[u]
    BY Zenon DEF CoreDestroy, IInv, TypeOK, Request, Idle
<1>3. \A x \in Handles : Unborn(x)' <=> Unborn(x)
    BY <1>1, <1>2, UnbornFrame, Zenon
<1>4. core \in [Handles -> VMState \cup {Absent}]
    BY DEF IInv, TypeOK
<1>5. h < nextHandle /\ nextHandle \in Nat /\ h \in Nat
    BY <1>1, MaxHandleAssumption DEF IInv, HandlesIssued, TypeOK, Handles
<1>6. \A u \in Threads : req[u].pc = "insert" /\ req[u].h = h => core[h] = Absent
    BY DEF IInv, CreatorOwns, Creating, LeftIn
<1> HIDE DEF h
<1>7. CASE core[h] = Absent
  <2>1. core' = core
    BY <1>1, <1>4, <1>7, Zenon
  <2>2. QED BY <1>3, <2>1, LifeStutter
<1>8. CASE core[h] # Absent
  <2>1. ~Unborn(h)
    BY <1>5, <1>6, <1>8 DEF Unborn
  <2>2. lifeBar[h] = core[h] /\ core[h] \in VMState
    BY <1>1, <1>4, <1>8, Zenon DEF lifeBar
  <2>3. lifeBar'[h] = "dead"
    BY <1>1, <1>3, <1>4, <2>1 DEF lifeBar
  <2>4. ASSUME NEW x \in Handles \ {h} PROVE lifeBar'[x] = lifeBar[x]
    BY <1>1, <1>3, <1>4, LifeFrame, Zenon
  <2>5. lifeBar' = [lifeBar EXCEPT ![h] = "dead"]
    BY <1>1, <2>3, <2>4, LifeUpdate
  <2>6. QED BY <1>1, <2>2, <2>5, Zenon DEF Life!Dies, Life!VMState, VMState
<1>9. QED BY <1>7, <1>8

\* The steps on vms, and the look-ups, are no concern of the registry.
LEMMA LifeSilent ==
    ASSUME IInv, NEW t \in Threads,
           \/ Publish(t) \/ Unpublish(t) \/ ReadState(t) \/ Sync(t)
           \/ \E h \in Handles : RequestDestroy(t, h)
           \/ \E h \in Handles, a \in Actions : RequestAction(t, h, a)
    PROVE  lifeBar' = lifeBar
<1>1. core' = core /\ nextHandle' = nextHandle /\ req[t].pc # "insert"
    BY Zenon
       DEF Publish, Unpublish, ReadState, Sync, RequestDestroy, RequestAction, findBackendForVM
<1>2. req'[t].pc # "insert" /\ \A u \in Threads \ {t} : req'[u] = req[u]
  <2>1. CASE Publish(t) \/ Unpublish(t) \/ Sync(t)
    <3>1. req' = [req EXCEPT ![t] = Idle]
      BY <2>1, Zenon DEF Publish, Unpublish, Sync
    <3>2. QED BY <3>1, Zenon DEF IInv, TypeOK, Idle
  <2>2. CASE ReadState(t)
    BY <2>2, Zenon DEF ReadState, IInv, TypeOK, Request, Idle
  <2>3. CASE \E h \in Handles : RequestDestroy(t, h)
    BY <2>3, Zenon DEF RequestDestroy, findBackendForVM, IInv, TypeOK, Request, Idle
  <2>4. CASE \E h \in Handles, a \in Actions : RequestAction(t, h, a)
    BY <2>4, Zenon DEF RequestAction, findBackendForVM, IInv, TypeOK, Request, Idle
  <2>5. QED BY <2>1, <2>2, <2>3, <2>4, Zenon
<1>3. QED BY <1>1, <1>2, UnbornFrame, LifeStutter, Zenon

\* Every step of RustVMM is a step of VMLife or leaves it unchanged.
LEMMA StepRefines == IInv /\ [Next]_vars => [Life!Next]_lifeBar
<1> SUFFICES ASSUME IInv, [Next]_vars PROVE Life!Next \/ lifeBar' = lifeBar
    OBVIOUS
<1>1. CASE UNCHANGED vars
    BY <1>1, Zenon DEF vars, lifeBar, Unborn
<1>2. CASE Next
  <2>1. PICK t \in Threads : Accept(t) \/ Continue(t)
    BY <1>2 DEF Next
  <2>2. CASE Accept(t)
    BY <2>2, LifeTakeHandle, LifeSilent DEF Accept
  <2>3. CASE Continue(t)
    <3>1. CASE Insert(t)
      BY <3>1, LifeInsert DEF Life!Next
    <3>2. CASE Configure(t)
      BY <3>2, LifeConfigure DEF Life!Next, Life!VMState, VMState
    <3>3. CASE CoreDestroy(t)
      BY <3>3, LifeCoreDestroy DEF Life!Next
    <3>4. CASE CoreAction(t)
      BY <3>4, LifeCoreAction DEF Life!Next, Life!VMState, VMState
    <3>5. CASE Publish(t) \/ Unpublish(t) \/ ReadState(t) \/ Sync(t)
      BY <3>5, LifeSilent
    <3>6. QED BY <2>3, <3>1, <3>2, <3>3, <3>4, <3>5 DEF Continue
  <2>4. QED BY <2>1, <2>2, <2>3
<1>3. QED BY <1>1, <1>2

\* At the start every handle is unborn.
LEMMA InitRefines == Init => Life!Init
BY MaxHandleAssumption DEF Init, Life!Init, lifeBar, Unborn, Handles

\* Every handle is issued once, follows the VM state diagram of kvm_mgr.rs
\* and mock.go and never returns after DestroyVM, for any number of threads.
THEOREM Refinement == Spec => ImplementsVMLife
BY Invariance, InitRefines, StepRefines, PTL DEF Spec, ImplementsVMLife, Life!Spec

-----------------------------------------------------------------------------
(* Qemu.                                                                   *)

-----------------------------------------------------------------------------
(* The QEMU backend.  A handle is given out once, so the child launched    *)
(* for it belongs to one creation, and then to one VM.                     *)

\* The records of the backend.
QShapes ==
    /\ emulated \in BOOLEAN /\ nextQ \in Int
    /\ \A c \in DOMAIN building : building[c] \in [h : Int, at : {"launch", "dial", "enter"}]

\* A handle that was taken is behind the counter, and belongs to one VM or to one
\* creation that is still under way.
QFresh ==
    /\ \A h \in DOMAIN qvms \cup procs \cup DOMAIN os : h \in Int /\ h < nextQ
    /\ \A c \in DOMAIN building :
          /\ building[c].h < nextQ /\ building[c].h \notin DOMAIN qvms
          /\ \A d \in DOMAIN building : building[d].h = building[c].h => d = c
          /\ building[c].at = "launch" => building[c].h \notin DOMAIN os

\* Every QEMU process runs a guest; the emulated backend has no processes.
QGuests ==
    /\ DOMAIN os \subseteq DOMAIN guest
    /\ emulated => DOMAIN os = {} /\ \A c \in DOMAIN building : building[c].at = "enter"

\* The inductive invariant.
QmInv == QShapes /\ QFresh /\ QGuests /\ ProcessHasVM /\ PausedStandsStill

\* A new backend has no VM and no process.
LEMMA QmInitInv == NewQEMUBackend => QmInv
  BY DEF NewQEMUBackend, QmInv, QShapes, QFresh, QGuests, ProcessHasVM, PausedStandsStill, Empty

\* Creation.
LEMMA QmCreates ==
    ASSUME QmInv, NEW c, CreateVM(c) \/ LaunchFails(c) \/ EnterVM(c)
    PROVE  QmInv'
  <1> USE DEF QmInv, tableVars, childVars, lineVars, makeVars
  <1>1. CASE CreateVM(c)
    <2>1. PICK n \in Int : n = nextQ
      BY Zenon DEF QShapes
    <2>2. PICK at \in {"launch", "enter"} : at = IF emulated THEN "enter" ELSE "launch"
      OBVIOUS
    <2>3. /\ DOMAIN building' = DOMAIN building \cup {c} /\ c \notin DOMAIN building
          /\ building'[c] = [h |-> n, at |-> at]
          /\ \A d \in DOMAIN building : building'[d] = building[d]
      BY <1>1, <2>1, <2>2, Zenon DEF CreateVM, Put
    <2>4. /\ nextQ' = n + 1
          /\ UNCHANGED <<emulated, qvms, saved, procs, os, guest, watch, fails, blurred>>
      BY <1>1, <2>1, Zenon DEF CreateVM
    <2>5. QShapes'
      BY <2>1, <2>3, <2>4 DEF QShapes
    <2>6. QFresh'
      BY <2>1, <2>3, <2>4 DEF QFresh, QShapes
    <2>7. QGuests'
      BY <2>2, <2>3, <2>4 DEF QGuests
    <2>8. ProcessHasVM' /\ PausedStandsStill'
      BY <2>3, <2>4 DEF ProcessHasVM, PausedStandsStill
    <2> QED
      BY <2>5, <2>6, <2>7, <2>8
  <1>2. CASE LaunchFails(c)
    <2>1. /\ DOMAIN building' = DOMAIN building \ {c} /\ c \in DOMAIN building
          /\ \A d \in DOMAIN building' : building'[d] = building[d]
          /\ building[c].at = "launch"
          /\ UNCHANGED <<emulated, qvms, saved, procs, os, guest, watch, fails, blurred, nextQ>>
      BY <1>2, Zenon DEF LaunchFails, Del, Restrict
    <2>2. QShapes' /\ QFresh' /\ QGuests'
      BY <2>1, Zenon DEF QShapes, QFresh, QGuests
    <2>3. ProcessHasVM' /\ PausedStandsStill'
      BY <2>1 DEF QFresh, ProcessHasVM, PausedStandsStill
    <2> QED
      BY <2>2, <2>3
  <1>3. CASE EnterVM(c)
    <2>1. PICK h \in Int : c \in DOMAIN building /\ h = building[c].h
      BY <1>3, Zenon DEF EnterVM, QShapes
    <2>2. /\ DOMAIN building' = DOMAIN building \ {c}
          /\ \A d \in DOMAIN building' : building'[d] = building[d]
          /\ DOMAIN qvms' = DOMAIN qvms \cup {h} /\ qvms'[h] = "configured"
          /\ \A x \in DOMAIN qvms : x # h => qvms'[x] = qvms[x]
          /\ UNCHANGED <<emulated, saved, procs, os, guest, watch, fails, blurred, nextQ>>
      BY <1>3, <2>1, Zenon DEF EnterVM, Put, Del, Restrict
    <2>3. QShapes' /\ QGuests'
      BY <2>2, Zenon DEF QShapes, QGuests
    <2>4. QFresh'
      <3>1. h < nextQ /\ \A d \in DOMAIN building' : building[d].h # h
        BY <2>1, <2>2, Zenon DEF QFresh
      <3> QED
        BY <2>2, <3>1, Zenon DEF QFresh
    <2>5. ProcessHasVM'
      BY <2>1, <2>2 DEF ProcessHasVM
    <2>6. PausedStandsStill'
      BY <2>2, Zenon DEF PausedStandsStill
    <2> QED
      BY <2>3, <2>4, <2>5, <2>6
  <1> QED
    BY <1>1, <1>2, <1>3

\* The child of a creation.
LEMMA QmChildren ==
    ASSUME QmInv, NEW c, Launch(c) \/ DialFails(c) \/ Dialed(c)
    PROVE  QmInv'
  <1> USE DEF QmInv, tableVars, childVars, lineVars, makeVars
  <1>1. PICK h \in Int : c \in DOMAIN building /\ h = building[c].h
    BY DEF Launch, DialFails, Dialed, QShapes
  <1>2. CASE Launch(c)
    <2>1. /\ DOMAIN building' = DOMAIN building
          /\ \A d \in DOMAIN building : d # c => building'[d] = building[d]
          /\ building[c].at = "launch" /\ building'[c] = [h |-> h, at |-> "dial"]
      BY <1>1, <1>2 DEF Launch, QShapes
    <2>2. /\ procs' = procs \cup {h} /\ DOMAIN os' = DOMAIN os \cup {h}
          /\ \A x \in DOMAIN os : x # h => os'[x] = os[x]
          /\ DOMAIN guest' = DOMAIN guest \cup {h}
          /\ \A x \in DOMAIN guest : x # h => guest'[x] = guest[x]
          /\ UNCHANGED <<emulated, qvms, saved, watch, fails, blurred, nextQ>>
      BY <1>1, <1>2 DEF Launch, Put
    <2>3. QShapes'
      BY <2>1, <2>2 DEF QShapes
    <2>4. QFresh'
      BY <1>1, <2>1, <2>2 DEF QFresh, QShapes
    <2>5. QGuests'
      BY <1>1, <2>1, <2>2, Zenon DEF QGuests
    <2>6. ProcessHasVM'
      BY <1>1, <2>1, <2>2 DEF ProcessHasVM
    <2>7. PausedStandsStill'
      BY <1>1, <2>2, Zenon DEF PausedStandsStill, QFresh, QGuests
    <2> QED
      BY <2>3, <2>4, <2>5, <2>6, <2>7
  <1>3. CASE DialFails(c)
    <2>1. /\ DOMAIN building' = DOMAIN building \ {c}
          /\ \A d \in DOMAIN building' : building'[d] = building[d]
      BY <1>3, Zenon DEF DialFails, Del, Restrict
    <2>2. /\ procs' = procs \ {h} /\ DOMAIN os' = DOMAIN os \ {h}
          /\ \A x \in DOMAIN os \ {h} : os'[x] = os[x]
          /\ DOMAIN guest' = DOMAIN guest \ {h}
          /\ \A x \in DOMAIN guest \ {h} : guest'[x] = guest[x]
          /\ UNCHANGED <<emulated, qvms, saved, watch, fails, blurred, nextQ>>
      BY <1>1, <1>3, Zenon DEF DialFails, Del, Restrict
    <2>3. QShapes' /\ QFresh' /\ QGuests'
      BY <2>1, <2>2, Zenon DEF QShapes, QFresh, QGuests
    <2>4. ProcessHasVM'
      BY <1>1, <2>1, <2>2 DEF ProcessHasVM
    <2>5. PausedStandsStill'
      BY <2>2, Zenon DEF PausedStandsStill, QGuests
    <2> QED
      BY <2>3, <2>4, <2>5, Zenon
  <1>4. CASE Dialed(c)
    <2>1. /\ DOMAIN building' = DOMAIN building
          /\ \A d \in DOMAIN building : d # c => building'[d] = building[d]
          /\ building'[c] = [h |-> h, at |-> "enter"]
          /\ UNCHANGED <<emulated, qvms, saved, procs, os, guest, fails, blurred, nextQ>>
      BY <1>1, <1>4 DEF Dialed, QShapes
    <2>2. QShapes' /\ QGuests'
      BY <2>1 DEF QShapes, QGuests
    <2>3. QFresh'
      BY <1>1, <2>1 DEF QFresh, QShapes
    <2>4. ProcessHasVM' /\ PausedStandsStill'
      BY <1>1, <2>1 DEF ProcessHasVM, PausedStandsStill
    <2> QED
      BY <2>2, <2>3, <2>4
  <1> QED
    BY <1>2, <1>3, <1>4

\* A command changes the record of its VM only if Execute read a success; if that
\* was not the command's own, or an obeyed command's was not read, the record is
\* in doubt.
LEMMA QmCommand ==
    ASSUME QmInv, NEW h, NEW target, NEW cmd, transition(h, target, cmd),
           \/ target = "running" /\ cmd = "cont"
           \/ target = "stopped" /\ cmd = "system_powerdown"
           \/ target = "paused" /\ cmd = "stop"
    PROVE  QmInv'
  <1> USE DEF QmInv, makeVars
  <1>1. UNCHANGED <<emulated, procs, nextQ, building, os>> /\ h \in DOMAIN qvms
    BY Zenon DEF transition, Obeys, Answers
  <1>2. /\ DOMAIN qvms' = DOMAIN qvms
        /\ \A x \in DOMAIN qvms : x # h => qvms'[x] = qvms[x]
    BY <1>1, Zenon DEF transition, Put
  <1>3. /\ DOMAIN guest \subseteq DOMAIN guest'
        /\ \A x \in DOMAIN guest : x # h => guest'[x] = guest[x]
    BY Zenon DEF transition, Obeys, Put
  <1>4. blurred \ {h} \subseteq blurred'
    BY Zenon DEF transition, Blurred
  <1>5. ASSUME ~emulated, h \notin blurred', qvms'[h] = "paused"
        PROVE  guest'[h] = "paused" \/ (qvms' = qvms /\ guest' = guest /\ h \notin blurred)
    <2>1. PICK a \in Answers :
            /\ qvms' = IF a.ok THEN Put(qvms, h, target) ELSE qvms
            /\ IF a.done THEN Obeys(h, cmd) ELSE UNCHANGED <<guest, os>>
            /\ blurred' = Blurred(h, a)
      BY <1>5, Zenon DEF transition
    <2>2. a.ok \in BOOLEAN /\ a.done \in BOOLEAN
      <3>1. \/ a = [ok |-> TRUE, done |-> TRUE] \/ a = [ok |-> FALSE, done |-> TRUE]
            \/ a = [ok |-> TRUE, done |-> FALSE] \/ a = [ok |-> FALSE, done |-> FALSE]
        BY Zenon DEF Answers, Obeyed, Misread, NotObeyed
      <3>2. ASSUME NEW p \in BOOLEAN, NEW q \in BOOLEAN, a = [ok |-> p, done |-> q]
            PROVE  a.ok \in BOOLEAN /\ a.done \in BOOLEAN
        BY ONLY <3>2, p \in BOOLEAN, q \in BOOLEAN, Zenon
      <3> QED
        BY ONLY <3>1, <3>2, Zenon
    <2>3. a.ok = a.done
      <3>1. a.ok # a.done => Blurred(h, a) = blurred \cup {h}
        BY <2>2 DEF Blurred
      <3> QED
        BY <1>5, <2>1, <3>1, Zenon
    <2>4. CASE a.ok
      <3>1. target = "paused"
        BY <1>5, <2>1, <2>4 DEF Put
      <3> QED
        BY <2>1, <2>3, <2>4, <3>1 DEF Obeys, Put
    <2>5. CASE ~a.ok
      BY <1>5, <2>1, <2>3, <2>5, Zenon DEF Blurred
    <2> QED
      BY <2>4, <2>5
  <1>6. QShapes' /\ QFresh'
    BY <1>1, <1>2, Zenon DEF QShapes, QFresh
  <1>7. QGuests' /\ ProcessHasVM'
    BY <1>1, <1>2, <1>3, Zenon DEF QGuests, ProcessHasVM
  <1>8. PausedStandsStill'
    <2> SUFFICES ASSUME NEW x \in DOMAIN qvms', x \notin blurred', qvms'[x] = "paused",
                        x \in DOMAIN os', os'[x] = "live"
                 PROVE  guest'[x] = "paused"
      BY Zenon DEF PausedStandsStill
    <2>1. x \in DOMAIN guest /\ ~emulated
      BY <1>1, Zenon DEF QGuests
    <2> QED
      BY <1>1, <1>2, <1>3, <1>4, <1>5, <2>1, Zenon DEF PausedStandsStill
  <1> QED
    BY <1>6, <1>7, <1>8

\* Destroying a VM kills its child whether or not quit was answered.
LEMMA QmDestroys ==
    ASSUME QmInv, NEW h, DestroyVM(h)
    PROVE  QmInv'
  <1> USE DEF QmInv, makeVars
  <1>1. /\ DOMAIN qvms' = DOMAIN qvms \ {h}
        /\ \A x \in DOMAIN qvms' : qvms'[x] = qvms[x]
        /\ procs' = procs \ {h}
        /\ UNCHANGED <<emulated, nextQ, building>>
        /\ blurred' = blurred \ {h}
    BY Zenon DEF DestroyVM, Del, Restrict
  <1>2. /\ DOMAIN os' = DOMAIN os \ {h}
        /\ \A x \in DOMAIN os' : os'[x] = os[x]
        /\ DOMAIN guest \ {h} \subseteq DOMAIN guest'
        /\ \A x \in DOMAIN guest \ {h} : guest'[x] = guest[x]
    <2>1. CASE h \in procs
      BY <2>1, Zenon DEF DestroyVM, Del, Restrict
    <2>2. CASE h \notin procs
      <3>1. os' = os /\ guest' = guest
        BY <2>2 DEF DestroyVM
      <3>2. h \notin DOMAIN os
        BY <2>2, Zenon DEF ProcessHasVM
      <3> QED
        BY <3>1, <3>2
    <2> QED
      BY <2>1, <2>2, Zenon
  <1>3. QShapes' /\ QFresh' /\ QGuests'
    BY <1>1, <1>2, Zenon DEF QShapes, QFresh, QGuests
  <1>4. ProcessHasVM'
    BY <1>1, <1>2, Zenon DEF ProcessHasVM
  <1>5. PausedStandsStill'
    BY <1>1, <1>2, Zenon DEF PausedStandsStill, QGuests
  <1> QED
    BY <1>3, <1>4, <1>5

\* The child dies, or is looked at.
LEMMA QmWatches ==
    ASSUME QmInv, NEW h, QemuExits(h) \/ MonitorReads(h) \/ monitorProcess(h)
    PROVE  QmInv'
  <1> USE DEF QmInv, makeVars, tableVars
  <1>1. /\ UNCHANGED <<emulated, nextQ, building, guest, blurred>>
        /\ procs' = procs \/ (procs' = procs \ {h} /\ h \notin DOMAIN os)
    BY Zenon DEF QemuExits, MonitorReads, monitorProcess, lineVars
  <1>2. /\ DOMAIN qvms' = DOMAIN qvms
        /\ \A x \in DOMAIN qvms : qvms'[x] = qvms[x] \/ qvms'[x] = "stopped"
    BY Zenon DEF QemuExits, MonitorReads, monitorProcess, Put
  <1>3. /\ DOMAIN os' = DOMAIN os
        /\ \A x \in DOMAIN os : os'[x] = os[x] \/ os'[x] = "dead"
    BY Zenon DEF QemuExits, MonitorReads, monitorProcess, Put
  <1>4. QShapes' /\ QFresh' /\ QGuests'
    BY <1>1, <1>2, <1>3, Zenon DEF QShapes, QFresh, QGuests
  <1>5. ProcessHasVM' /\ PausedStandsStill'
    BY <1>1, <1>2, <1>3, Zenon DEF ProcessHasVM, PausedStandsStill
  <1> QED
    BY <1>4, <1>5

\* No step of the backend, of QEMU or of its guests disturbs it.
LEMMA QmNextInv == ASSUME QmInv, [QmNext]_qvVars PROVE QmInv'
  <1>1. ASSUME UNCHANGED <<emulated, qvms, procs, os, guest, nextQ, building, blurred>>
        PROVE  QmInv'
    BY <1>1, Zenon
       DEF QmInv, QShapes, QFresh, QGuests, ProcessHasVM, PausedStandsStill
  <1>2. ASSUME NEW c \in QCallers, CreateVM(c) \/ qmpCreateVM(c) \/ EnterVM(c)
        PROVE  QmInv'
    BY <1>2, QmCreates, QmChildren DEF qmpCreateVM
  <1>3. ASSUME NEW h \in QHandles, StartVM(h) \/ StopVM(h) \/ PauseVM(h) \/ ResumeVM(h)
        PROVE  QmInv'
    BY <1>3, QmCommand DEF StartVM, StopVM, PauseVM, ResumeVM
  <1>4. ASSUME NEW h \in QHandles, SnapshotVM(h) \/ RestoreSnapshot(h) \/ GetVM(h)
        PROVE  QmInv'
    BY <1>1, <1>4, Zenon
       DEF SnapshotVM, RestoreSnapshot, GetVM, qvVars, childVars, lineVars, makeVars
  <1>5. ASSUME NEW h \in QHandles,
               DestroyVM(h) \/ QemuExits(h) \/ MonitorReads(h) \/ monitorProcess(h)
        PROVE  QmInv'
    BY <1>5, QmDestroys, QmWatches
  <1>6. CASE Cooldown \/ ListVMs \/ UNCHANGED qvVars
    BY <1>1, <1>6, Zenon
       DEF Cooldown, ListVMs, qvVars, tableVars, childVars, makeVars
  <1> QED
    BY <1>2, <1>3, <1>4, <1>5, <1>6, Zenon DEF QmNext

\* So it holds in every state.
LEMMA QmAlways == QmSpec => []QmInv
  BY QmInitInv, QmNextInv, PTL DEF QmSpec

\* For any number of VMs and callers: whatever fails in a creation and however
\* a quit is lost, no QEMU child is left that the backend does not know.
THEOREM NoStrayProcess == QmSpec => []ProcessHasVM
  <1>1. QmInv => ProcessHasVM
    BY DEF QmInv
  <1> QED
    BY <1>1, QmAlways, PTL

\* The record of a VM says paused only while the guest stands still, unless
\* Execute read something else than the answer to a command and no command has
\* been obeyed and answered since.
THEOREM PausedIsPaused == QmSpec => []PausedStandsStill
  <1>1. QmInv => PausedStandsStill
    BY DEF QmInv
  <1> QED
    BY <1>1, QmAlways, PTL
=============================================================================
