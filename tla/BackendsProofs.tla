--------------------------- MODULE BackendsProofs ---------------------------
(***************************************************************************)
(* The dispatch of the compute service to its backends, and two that run   *)
(* commands on the host, LXC and the volume drivers, for any number of     *)
(* callers, handles and names.                                             *)
(***************************************************************************)
EXTENDS Dispatch, Lxc, VolumeDrivers, TLAPS

-----------------------------------------------------------------------------
(* Dispatch.                                                               *)

\* The backends newComputeService registers.
BackendNames == {"rustvmm", "qemu", "lxc"}

\* Handles below the counter of a backend have been issued by it; the machines
\* it knows have some of them.
DsShapes ==
    /\ DOMAIN backends = BackendNames /\ DOMAIN inv = BackendNames /\ created \in Nat
    /\ \A b \in BackendNames :
          /\ backends[b] \in Nat /\ Base[b] <= backends[b]
          /\ \A h \in DOMAIN inv[b] :
                /\ h \in Nat /\ Base[b] <= h /\ h < backends[b]
                /\ inv[b][h] \in [id : Nat, state : {"configured", "running", "stopped", "paused"}]
    /\ \A c \in DOMAIN pending :
          pending[c] \in [h : Nat, b : BackendNames, id : Nat,
                          act : {"start", "stop", "pause", "resume", "destroy", "read"}]

\* A call that found a backend has an issued handle: a machine that backend still
\* knows by it is the one that was meant.
Meant(c) ==
    LET p == pending[c]
    IN  /\ p.h < backends[p.b]
        /\ p.h \in DOMAIN inv[p.b] => Overlap \/ inv[p.b][p.h].id = p.id

\* The inductive invariant.
DsInv == DsShapes /\ \A c \in DOMAIN pending : Meant(c)

\* The bases of the handle ranges are three different numbers.
LEMMA BasesIs ==
    /\ DOMAIN Base = BackendNames
    /\ Base["rustvmm"] = 1 /\ Base["qemu"] = Span /\ Base["lxc"] = 2 * Span
    /\ \A b \in BackendNames : Base[b] \in Nat
    /\ \A a, b \in BackendNames : a # b => Base[a] < Base[b] \/ Base[b] < Base[a]
  BY SpanAssumption DEF Base, BackendNames

\* No backend has a machine at first.
LEMMA DsInitInv == DsInit => DsInv
  <1> SUFFICES ASSUME DsInit PROVE DsInv
    OBVIOUS
  <1>1. DOMAIN backends = BackendNames /\ \A b \in BackendNames : backends[b] = Base[b]
    BY BasesIs DEF DsInit, Register, NewBackendSelector, Put, Empty, BackendNames
  <1>2. DOMAIN inv = BackendNames /\ \A b \in BackendNames : DOMAIN inv[b] = {}
    BY BasesIs DEF DsInit, Empty
  <1>3. created \in Nat /\ DOMAIN pending = {}
    BY DEF DsInit, Empty
  <1> QED
    BY <1>1, <1>2, <1>3, BasesIs DEF DsInv, DsShapes

\* Without an overlap one backend at most knows a handle.
LEMMA OneKnows ==
    ASSUME DsShapes, ~Overlap, NEW h, NEW a \in findBackendForVM(h), NEW b \in findBackendForVM(h)
    PROVE  a = b
  <1>1. /\ a \in BackendNames /\ b \in BackendNames /\ h \in Nat
        /\ Base[a] <= h /\ h < backends[a] /\ backends[a] \in Nat
        /\ Base[b] <= h /\ h < backends[b] /\ backends[b] \in Nat
    BY DEF findBackendForVM, DsShapes
  <1>2. ~(Base[a] < Base[b]) /\ ~(Base[b] < Base[a])
    BY <1>1, BasesIs DEF Overlap, DsShapes
  <1> QED
    BY <1>1, <1>2, BasesIs

\* The counters only grow: handles that overlapped once do so for ever.
LEMMA OverlapStays ==
    ASSUME DsShapes, DOMAIN backends' = BackendNames, Overlap,
           \A b \in BackendNames : backends'[b] \in Nat /\ backends[b] <= backends'[b]
    PROVE  Overlap'
  <1>1. PICK a, b \in BackendNames : Base[a] < Base[b] /\ backends[a] > Base[b]
    BY DEF Overlap, DsShapes
  <1>2. backends'[a] > Base[b]
    BY <1>1, BasesIs DEF DsShapes
  <1>3. Base' = Base
    BY DEF Base
  <1> QED
    BY <1>1, <1>2, <1>3 DEF Overlap

\* A call keeps its meaning while machines come, go and change their state.
LEMMA MeantKept ==
    ASSUME DsShapes, DOMAIN backends' = BackendNames,
           \A b \in BackendNames : backends'[b] \in Nat /\ backends[b] <= backends'[b],
           NEW c \in DOMAIN pending, Meant(c),
           pending'[c].h = pending[c].h, pending'[c].b = pending[c].b, pending'[c].id = pending[c].id,
           pending[c].h \in DOMAIN inv'[pending[c].b] =>
               /\ pending[c].h \in DOMAIN inv[pending[c].b]
               /\ inv'[pending[c].b][pending[c].h].id = inv[pending[c].b][pending[c].h].id
    PROVE  Meant(c)'
  <1>1. PICK h \in Nat, b \in BackendNames, id \in Nat : h = pending[c].h /\ b = pending[c].b /\ id = pending[c].id
    BY DEF DsShapes
  <1>2. h < backends'[b]
    BY <1>1 DEF DsShapes, Meant
  <1>3. h \in DOMAIN inv'[b] => Overlap' \/ inv'[b][h].id = id
    BY <1>1, OverlapStays, Zenon DEF Meant
  <1> QED
    BY <1>1, <1>2, <1>3, Zenon DEF Meant

\* A creation that fails after taking its handle leaves a handle that names nothing.
LEMMA CreateFailsInv ==
    ASSUME DsInv, NEW b \in BackendNames, backends' = [backends EXCEPT ![b] = @ + 1],
           created' = created + 1, UNCHANGED <<inv, pending>>
    PROVE  DsInv'
  <1>1. /\ DOMAIN backends' = BackendNames
        /\ \A a \in BackendNames : backends'[a] \in Nat /\ backends[a] <= backends'[a]
    BY DEF DsInv, DsShapes
  <1>2. created' \in Nat
    BY DEF DsInv, DsShapes
  <1>3. DsShapes'
    <2>1. ASSUME NEW a \in BackendNames
          PROVE  /\ backends'[a] \in Nat /\ Base[a] <= backends'[a]
                 /\ \A h \in DOMAIN inv'[a] :
                       /\ h \in Nat /\ Base[a] <= h /\ h < backends'[a]
                       /\ inv'[a][h] \in [id : Nat, state : {"configured", "running", "stopped", "paused"}]
      BY <1>1, BasesIs DEF DsInv, DsShapes
    <2> QED
      BY <1>1, <1>2, <2>1, Zenon DEF DsInv, DsShapes
  <1>4. ASSUME NEW d \in DOMAIN pending PROVE Meant(d)'
    <2>1. PICK h \in Nat, a \in BackendNames : h = pending[d].h /\ a = pending[d].b
      BY DEF DsInv, DsShapes
    <2> QED
      BY <1>1, <2>1, MeantKept, Zenon DEF DsInv
  <1> QED
    BY <1>3, <1>4, Zenon DEF DsInv

\* A new machine gets a handle its backend has not issued, so no call under way is about it.
LEMMA CreateVMInv ==
    ASSUME DsInv, NEW c, NEW hint, CreateVM(c, hint), inv' # inv
    PROVE  /\ DsInv'
           /\ \A b \in DOMAIN inv : \A h \in DOMAIN inv[b] : h \in DOMAIN inv'[b] /\ inv'[b][h] = inv[b][h]
  <1>1. PICK b : b = Select(hint)
    OBVIOUS
  <1>2. /\ b \in BackendNames
        /\ inv' = [inv EXCEPT ![b] = Put(inv[b], backends[b], [id |-> created + 1, state |-> "configured"])]
        /\ backends' = [backends EXCEPT ![b] = backends[b] + 1]
        /\ created' = created + 1 /\ UNCHANGED pending
    BY <1>1 DEF CreateVM, DsRefuse, DsInv, DsShapes
  <1>3. PICK n \in Nat : n = backends[b]
    BY <1>2 DEF DsInv, DsShapes
  <1>4. PICK vm : vm = [id |-> created + 1, state |-> "configured"]
    BY Zenon
  <1>5. /\ DOMAIN inv' = BackendNames
        /\ DOMAIN inv'[b] = DOMAIN inv[b] \cup {n} /\ n \notin DOMAIN inv[b]
        /\ inv'[b][n] = vm /\ \A h \in DOMAIN inv[b] : inv'[b][h] = inv[b][h]
        /\ \A a \in BackendNames \ {b} : inv'[a] = inv[a]
    BY <1>2, <1>3, <1>4 DEF Put, DsInv, DsShapes
  <1>6. /\ DOMAIN backends' = BackendNames /\ backends'[b] = n + 1
        /\ \A a \in BackendNames \ {b} : backends'[a] = backends[a]
    BY <1>2, <1>3 DEF DsInv, DsShapes
  <1>7. Base[b] <= n
    BY <1>2, <1>3 DEF DsInv, DsShapes
  <1>8. vm \in [id : Nat, state : {"configured", "running", "stopped", "paused"}]
    BY <1>4 DEF DsInv, DsShapes
  <1>9. DsShapes'
    <2>1. \A a \in BackendNames \ {b} : /\ backends'[a] = backends[a] /\ inv'[a] = inv[a]
      BY <1>5, <1>6
    <2>2. backends'[b] \in Nat /\ Base[b] <= backends'[b]
      BY <1>2, <1>3, <1>6, <1>7, BasesIs
    <2>3. ASSUME NEW h \in DOMAIN inv'[b]
          PROVE  /\ h \in Nat /\ Base[b] <= h /\ h < backends'[b]
                 /\ inv'[b][h] \in [id : Nat, state : {"configured", "running", "stopped", "paused"}]
      BY <1>2, <1>3, <1>5, <1>6, <1>7, <1>8 DEF DsInv, DsShapes
    <2>4. \A a \in BackendNames :
             /\ backends'[a] \in Nat /\ Base[a] <= backends'[a]
             /\ \A h \in DOMAIN inv'[a] :
                   /\ h \in Nat /\ Base[a] <= h /\ h < backends'[a]
                   /\ inv'[a][h] \in [id : Nat, state : {"configured", "running", "stopped", "paused"}]
      BY <2>1, <2>2, <2>3 DEF DsInv, DsShapes
    <2>5. created' \in Nat
      BY <1>2 DEF DsInv, DsShapes
    <2> QED
      BY <1>2, <1>5, <1>6, <2>4, <2>5, Zenon DEF DsInv, DsShapes
  <1>10. ASSUME NEW d \in DOMAIN pending PROVE Meant(d)'
    <2>1. PICK h \in Nat, a \in BackendNames : h = pending[d].h /\ a = pending[d].b
      BY DEF DsInv, DsShapes
    <2>2. h < backends[a]
      BY <2>1 DEF DsInv, Meant
    <2>3. h \in DOMAIN inv'[a] => h \in DOMAIN inv[a] /\ inv'[a][h] = inv[a][h]
      BY <1>3, <1>5, <2>1, <2>2
    <2>4. \A x \in BackendNames : backends'[x] \in Nat /\ backends[x] <= backends'[x]
      BY <1>3, <1>6 DEF DsInv, DsShapes
    <2> QED
      BY <1>2, <1>6, <2>1, <2>3, <2>4, MeantKept, Zenon DEF DsInv
  <1>11. \A a \in DOMAIN inv : \A h \in DOMAIN inv[a] : h \in DOMAIN inv'[a] /\ inv'[a][h] = inv[a][h]
    BY <1>5 DEF DsInv, DsShapes
  <1> QED
    BY <1>2, <1>9, <1>10, <1>11 DEF DsInv

\* findBackendForVM: the backend that was found is the one the caller meant.
LEMMA FindInv ==
    ASSUME DsInv, NEW c, NEW h, NEW act \in {"start", "stop", "pause", "resume", "destroy"},
           Find(c, h, act), pending' # pending
    PROVE  DsInv' /\ UNCHANGED inv
  <1>1. /\ c \notin DOMAIN pending /\ UNCHANGED <<backends, inv, created>>
        /\ \E b, meant \in findBackendForVM(h) :
              pending' = Put(pending, c, [h |-> h, b |-> b, act |-> act, id |-> inv[meant][h].id])
    BY DEF Find, DsRefuse, DsIdle
  <1>2. PICK b, meant \in findBackendForVM(h) :
           pending' = Put(pending, c, [h |-> h, b |-> b, act |-> act, id |-> inv[meant][h].id])
    BY <1>1
  <1>3. /\ b \in BackendNames /\ meant \in BackendNames /\ h \in DOMAIN inv[b] /\ h \in DOMAIN inv[meant]
    BY DEF findBackendForVM, DsInv, DsShapes
  <1>4. PICK id \in Nat : id = inv[meant][h].id
    BY <1>3 DEF DsInv, DsShapes
  <1>5. h \in Nat /\ h < backends[b]
    BY <1>3 DEF DsInv, DsShapes
  <1>6. /\ DOMAIN pending' = DOMAIN pending \cup {c}
        /\ pending'[c] = [h |-> h, b |-> b, act |-> act, id |-> id]
        /\ \A d \in DOMAIN pending : pending'[d] = pending[d]
    BY <1>1, <1>2, <1>4 DEF Put
  <1>7. DsShapes'
    BY <1>1, <1>3, <1>4, <1>5, <1>6 DEF DsInv, DsShapes
  <1>8. Overlap' = Overlap
    BY <1>1 DEF Overlap
  <1>9. Meant(c)'
    <2>1. ~Overlap => b = meant
      BY OneKnows DEF DsInv
    <2>2. pending'[c].h = h /\ pending'[c].b = b /\ pending'[c].id = id
      BY <1>6
    <2>3. Overlap \/ inv[b][h].id = id
      BY <1>4, <2>1, Zenon
    <2>4. backends' = backends /\ inv' = inv
      BY <1>1, Zenon
    <2> QED
      BY <1>5, <1>8, <2>2, <2>3, <2>4, Zenon DEF Meant
  <1>10. ASSUME NEW d \in DOMAIN pending PROVE Meant(d)'
    BY <1>1, <1>6, <1>8, Zenon DEF Meant, DsInv
  <1> QED
    BY <1>1, <1>6, <1>7, <1>9, <1>10 DEF DsInv

\* Of the machines a step of ActionVM or DestroyVM touches none but the one meant.
OnlyMeant(c) ==
    \A b \in DOMAIN inv : \A h \in DOMAIN inv[b] :
        \/ h \in DOMAIN inv'[b] /\ inv'[b][h] = inv[b][h]
        \/ Overlap
        \/ c \in DOMAIN pending /\ pending[c].h = h /\ pending[c].id = inv[b][h].id

\* The end of a call.
LEMMA DoneInv ==
    ASSUME DsInv, NEW c, NEW code, DsDone(c, code), UNCHANGED inv
    PROVE  DsInv' /\ OnlyMeant(c)
  <1>1. DOMAIN pending' \subseteq DOMAIN pending /\ \A d \in DOMAIN pending' : pending'[d] = pending[d]
    BY DEF DsDone, Del, Restrict
  <1>2. UNCHANGED <<backends, created, inv>>
    BY DEF DsDone
  <1>3. DsShapes'
    BY <1>1, <1>2 DEF DsInv, DsShapes
  <1>4. ASSUME NEW d \in DOMAIN pending' PROVE Meant(d)'
    BY <1>1, <1>2, Zenon DEF Meant, Overlap, DsInv
  <1> QED
    BY <1>2, <1>3, <1>4 DEF DsInv, OnlyMeant

\* ActionVM changes the machine that was meant, if any.
LEMMA ActionInv == ASSUME DsInv, NEW c, ActionVM(c) PROVE DsInv' /\ OnlyMeant(c)
  <1>1. CASE UNCHANGED inv /\ \E code : DsDone(c, code)
    BY <1>1, DoneInv
  <1>2. CASE ~(UNCHANGED inv /\ \E code : DsDone(c, code))
    <2>1. /\ c \in DOMAIN pending /\ pending[c].act \in DOMAIN To /\ Known(c)
          /\ UNCHANGED <<backends, created>>
          /\ inv' = [inv EXCEPT ![pending[c].b][pending[c].h].state = To[pending[c].act]]
          /\ pending' = [pending EXCEPT ![c].act = "read"]
      BY <1>2 DEF ActionVM, DsIdle
    <2>2. PICK h \in Nat, b \in BackendNames, id \in Nat :
             /\ h = pending[c].h /\ b = pending[c].b /\ id = pending[c].id
      BY <2>1, Zenon DEF DsInv, DsShapes
    <2>3. PICK st : st = To[pending[c].act]
      OBVIOUS
    <2>4. st \in {"running", "stopped", "paused"}
      BY <2>1, <2>3 DEF To
    <2>5. h \in DOMAIN inv[b]
      BY <2>1, <2>2 DEF Known
    <2>6. PICK vm \in [id : Nat, state : {"configured", "running", "stopped", "paused"}] : vm = inv[b][h]
      BY <2>5 DEF DsInv, DsShapes
    <2>7. inv' = [inv EXCEPT ![b][h].state = st]
      BY <2>1, <2>2, <2>3
    <2>8. /\ DOMAIN inv' = BackendNames /\ DOMAIN inv'[b] = DOMAIN inv[b]
          /\ inv'[b][h] = [vm EXCEPT !.state = st]
          /\ \A i \in DOMAIN inv[b] \ {h} : inv'[b][i] = inv[b][i]
          /\ \A a \in BackendNames \ {b} : inv'[a] = inv[a]
      BY <2>5, <2>6, <2>7 DEF DsInv, DsShapes
    <2>9. /\ inv'[b][h] \in [id : Nat, state : {"configured", "running", "stopped", "paused"}]
          /\ inv'[b][h].id = inv[b][h].id
      BY <2>4, <2>6, <2>8
    <2>10. /\ DOMAIN pending' = DOMAIN pending /\ \A d \in DOMAIN pending \ {c} : pending'[d] = pending[d]
           /\ pending'[c] \in [h : Nat, b : BackendNames, id : Nat,
                               act : {"start", "stop", "pause", "resume", "destroy", "read"}]
           /\ pending'[c].h = h /\ pending'[c].b = b /\ pending'[c].id = id
      BY <2>1, <2>2 DEF DsInv, DsShapes
    <2>11. \A a \in BackendNames : \A i \in DOMAIN inv'[a] :
              /\ i \in DOMAIN inv[a] /\ inv'[a][i].id = inv[a][i].id
              /\ inv'[a][i] \in [id : Nat, state : {"configured", "running", "stopped", "paused"}]
      BY <2>5, <2>8, <2>9 DEF DsInv, DsShapes
    <2>12. DsShapes'
      BY <2>1, <2>8, <2>10, <2>11 DEF DsInv, DsShapes
    <2>13. ASSUME NEW d \in DOMAIN pending PROVE Meant(d)'
      <3>1. pending'[d].h = pending[d].h /\ pending'[d].b = pending[d].b /\ pending'[d].id = pending[d].id
        BY <2>2, <2>10, Zenon
      <3>2. pending[d].b \in BackendNames
        BY DEF DsInv, DsShapes
      <3>3. pending[d].h \in DOMAIN inv'[pending[d].b] =>
               /\ pending[d].h \in DOMAIN inv[pending[d].b]
               /\ inv'[pending[d].b][pending[d].h].id = inv[pending[d].b][pending[d].h].id
        BY <2>11, <3>2, Zenon
      <3>4. \A a \in BackendNames : backends'[a] \in Nat /\ backends[a] <= backends'[a]
        BY <2>1 DEF DsInv, DsShapes
      <3>5. DOMAIN backends' = BackendNames
        BY <2>1 DEF DsInv, DsShapes
      <3> QED
        BY <3>1, <3>3, <3>4, <3>5, MeantKept, Zenon DEF DsInv
    <2>14. OnlyMeant(c)
      <3>1. Overlap \/ id = inv[b][h].id
        BY <2>1, <2>2, <2>5, Zenon DEF DsInv, Meant
      <3> QED
        BY <2>1, <2>2, <2>8, <3>1, Zenon DEF OnlyMeant, DsInv, DsShapes
    <2> QED
      BY <2>10, <2>12, <2>13, <2>14 DEF DsInv
  <1> QED
    BY <1>1, <1>2

\* DestroyVM removes the machine that was meant, if any.
LEMMA DestroyInv == ASSUME DsInv, NEW c, DestroyVM(c) PROVE DsInv' /\ OnlyMeant(c)
  <1>1. CASE UNCHANGED inv /\ \E code : DsDone(c, code)
    BY <1>1, DoneInv
  <1>2. CASE ~(UNCHANGED inv /\ \E code : DsDone(c, code))
    <2>1. /\ c \in DOMAIN pending /\ Known(c) /\ DsDone(c, 204)
          /\ inv' = [inv EXCEPT ![pending[c].b] = Del(inv[pending[c].b], pending[c].h)]
      BY <1>2 DEF DestroyVM, DsIdle
    <2>2. PICK h \in Nat, b \in BackendNames, id \in Nat :
             /\ h = pending[c].h /\ b = pending[c].b /\ id = pending[c].id
      BY <2>1, Zenon DEF DsInv, DsShapes
    <2>3. /\ DOMAIN inv' = BackendNames /\ DOMAIN inv'[b] = DOMAIN inv[b] \ {h}
          /\ \A i \in DOMAIN inv[b] \ {h} : inv'[b][i] = inv[b][i]
          /\ \A a \in BackendNames \ {b} : inv'[a] = inv[a]
      BY <2>1, <2>2, Zenon DEF Del, Restrict, DsInv, DsShapes
    <2>4. DOMAIN pending' \subseteq DOMAIN pending /\ \A d \in DOMAIN pending' : pending'[d] = pending[d]
      BY <2>1 DEF DsDone, Del, Restrict
    <2>5. UNCHANGED <<backends, created>>
      BY <2>1, Zenon DEF DsDone
    <2>6. \A a \in BackendNames : \A i \in DOMAIN inv'[a] : i \in DOMAIN inv[a] /\ inv'[a][i] = inv[a][i]
      BY <2>3
    <2>7. DsShapes'
      BY <2>3, <2>4, <2>5, <2>6 DEF DsInv, DsShapes
    <2>8. ASSUME NEW d \in DOMAIN pending' PROVE Meant(d)'
      <3>1. d \in DOMAIN pending /\ pending'[d] = pending[d] /\ pending[d].b \in BackendNames
        BY <2>4 DEF DsInv, DsShapes
      <3>2. pending[d].h \in DOMAIN inv'[pending[d].b] =>
               /\ pending[d].h \in DOMAIN inv[pending[d].b]
               /\ inv'[pending[d].b][pending[d].h].id = inv[pending[d].b][pending[d].h].id
        BY <2>6, <3>1, Zenon
      <3>3. \A a \in BackendNames : backends'[a] \in Nat /\ backends[a] <= backends'[a]
        BY <2>5 DEF DsInv, DsShapes
      <3>4. DOMAIN backends' = BackendNames
        BY <2>5, Zenon DEF DsInv, DsShapes
      <3> QED
        BY <3>1, <3>2, <3>3, <3>4, MeantKept, Zenon DEF DsInv
    <2>9. OnlyMeant(c)
      <3>1. h \in DOMAIN inv[b] => Overlap \/ id = inv[b][h].id
        BY <2>1, <2>2, Zenon DEF DsInv, Meant
      <3> QED
        BY <2>1, <2>2, <2>3, <3>1 DEF OnlyMeant, DsInv, DsShapes
    <2> QED
      BY <2>7, <2>8, <2>9 DEF DsInv
  <1> QED
    BY <1>1, <1>2

\* A step changes nothing a call has not been meant for.
LEMMA DsStepInv == DsInv /\ [DsNext]_dsVars => DsInv' /\ (UNCHANGED inv \/ \E c : OnlyMeant(c))
  <1> SUFFICES ASSUME DsInv, [DsNext]_dsVars PROVE DsInv' /\ (UNCHANGED inv \/ \E c : OnlyMeant(c))
    OBVIOUS
  <1>1. CASE UNCHANGED <<backends, inv, created, pending>>
    BY <1>1, Zenon DEF DsInv, DsShapes, Meant, Overlap
  <1>2. ASSUME NEW c, NEW hint, CreateVM(c, hint) PROVE DsInv' /\ OnlyMeant(c)
    <2>1. CASE inv' # inv
      BY <1>2, <2>1, CreateVMInv, Zenon DEF OnlyMeant
    <2>2. CASE inv' = inv
      <3>1. CASE UNCHANGED <<backends, inv, created, pending>>
        BY <1>1, <3>1, Zenon DEF OnlyMeant
      <3>2. CASE ~UNCHANGED <<backends, inv, created, pending>>
        <4>1. PICK b : /\ b \in DOMAIN backends /\ backends' = [backends EXCEPT ![b] = @ + 1]
                       /\ created' = created + 1 /\ UNCHANGED <<inv, pending>>
          BY <1>2, <2>2, <3>2, Zenon DEF CreateVM, DsRefuse
        <4>2. b \in BackendNames
          BY <4>1, Zenon DEF DsInv, DsShapes
        <4> QED
          BY <2>2, <4>1, <4>2, CreateFailsInv, Zenon DEF OnlyMeant
      <3> QED
        BY <3>1, <3>2
    <2> QED
      BY <2>1, <2>2
  <1>3. ASSUME NEW c, NEW h, NEW act \in {"start", "stop", "pause", "resume", "destroy"}, Find(c, h, act)
        PROVE  DsInv' /\ UNCHANGED inv
    <2>1. CASE pending' # pending
      BY <1>3, <2>1, FindInv
    <2>2. CASE pending' = pending
      BY <1>1, <1>3, <2>2, Zenon DEF Find, DsRefuse
    <2> QED
      BY <2>1, <2>2
  <1>4. ASSUME NEW c, ReadActed(c) PROVE DsInv' /\ UNCHANGED inv
    BY <1>4, DoneInv DEF ReadActed
  <1>5. ASSUME NEW c, NEW h, GetVM(c, h) \/ ListVMs(c) \/ ListBackends(c)
        PROVE  UNCHANGED <<backends, inv, created, pending>>
    BY <1>5 DEF GetVM, ListVMs, ListBackends, DsRefuse
  <1> QED
    BY <1>1, <1>2, <1>3, <1>4, <1>5, ActionInv, DestroyInv, Zenon DEF DsNext, dsVars

\* For any number of clients, machines and distance of the bases: a call acts on the machine
\* its handle named when it arrived, until a backend has issued a handle of another's range.
THEOREM CallsActOnMeant == DsSpec => ActsOnMeant
  <1>1. DsInv /\ (UNCHANGED inv \/ \E c : OnlyMeant(c)) =>
           \A b \in DOMAIN inv, h \in 1 .. 2 * Span + MaxMade :
              h \in DOMAIN inv[b] /\ (h \notin DOMAIN inv'[b] \/ inv'[b][h] # inv[b][h]) =>
                 Overlap \/ \E c \in DOMAIN pending :
                              pending[c].h = h /\ pending[c].id = inv[b][h].id
    BY Zenon DEF OnlyMeant
  <1> QED
    BY <1>1, DsInitInv, DsStepInv, PTL DEF DsSpec, ActsOnMeant

-----------------------------------------------------------------------------
(* Lxc: RecordOwnsContainer, then RunningIsRecorded. The backend never     *)
(* compares names: what keeps two records from sharing a container is that *)
(* lxc-create refuses a name the host has. The invariant follows a         *)
(* container from lxc-create (its call is about to enter the record) into  *)
(* the table, under a handle nobody else has.                              *)

Creating(c) == c \in DOMAIN making /\ making[c].at # "checkpoint"
Entering(c) == c \in DOMAIN making /\ making[c].at = "enter"

\* Shapes of the records that are updated in place.
LxShapes ==
    /\ lxcEmulated \in BOOLEAN /\ nextBox \in Int
    /\ \A h \in DOMAIN boxes : DOMAIN boxes[h] = {"name", "state", "node"}
    /\ \A c \in DOMAIN making : DOMAIN making[c] = {"h", "name", "at"}

\* A handle is taken once: it is a record's or one creation's.
FreshHandles ==
    /\ \A h \in DOMAIN boxes : h \in Int /\ h < nextBox
    /\ \A c \in DOMAIN making : making[c].h \in Int /\ making[c].h < nextBox
    /\ \A c : Creating(c) =>
        /\ making[c].h \notin DOMAIN boxes
        /\ \A d : Creating(d) /\ d # c => making[d].h # making[c].h

\* On a host, a creation about to enter its record has a container of its own,
\* and nothing was ever cloned.
FreshContainers ==
    ~lxcEmulated =>
        /\ shots = {}
        /\ \A c : Entering(c) =>
            /\ making[c].name \in DOMAIN host
            /\ \A h \in DOMAIN boxes : boxes[h].name # making[c].name
            /\ \A d : Entering(d) /\ d # c => making[d].name # making[c].name

LxInv == LxShapes /\ FreshHandles /\ FreshContainers /\ RecordOwnsContainer

-----------------------------------------------------------------------------
\* A new backend has no record and no call.
LEMMA LxInitInv == NewLXCBackend => LxInv
  BY DEF NewLXCBackend, LxInv, LxShapes, FreshHandles, FreshContainers, Creating, Entering,
         RecordOwnsContainer, Empty

\* A step that keeps the records' names, the calls and the host's containers.
LEMMA NamesKept ==
    ASSUME LxInv, UNCHANGED <<lxcEmulated, nextBox, making>>,
           DOMAIN boxes' = DOMAIN boxes,
           \A h \in DOMAIN boxes : /\ DOMAIN boxes'[h] = DOMAIN boxes[h]
                                   /\ boxes'[h].name = boxes[h].name,
           DOMAIN host \subseteq DOMAIN host',
           shots' = shots \/ lxcEmulated
    PROVE  LxInv'
  <1>1. LxShapes'
    BY DEF LxInv, LxShapes
  <1>2. FreshHandles'
    BY Zenon DEF LxInv, FreshHandles, Creating
  <1>3. FreshContainers'
    BY Zenon DEF LxInv, FreshContainers, Entering
  <1>4. RecordOwnsContainer'
    BY DEF LxInv, RecordOwnsContainer
  <1> QED
    BY <1>1, <1>2, <1>3, <1>4, Zenon DEF LxInv

\* A call that ends leaves fewer obligations.
LEMMA CallEnds ==
    ASSUME LxInv, NEW c, making' = Del(making, c),
           UNCHANGED <<lxcEmulated, nextBox, boxes, shots>>,
           DOMAIN host' = DOMAIN host
    PROVE  LxInv'
  <1>1. /\ DOMAIN making' = DOMAIN making \ {c}
        /\ \A d \in DOMAIN making' : making'[d] = making[d]
    BY DEF Del, Restrict
  <1>2. LxShapes'
    BY <1>1 DEF LxInv, LxShapes
  <1>3. FreshHandles'
    BY <1>1 DEF LxInv, FreshHandles, Creating
  <1>4. FreshContainers'
    BY <1>1 DEF LxInv, FreshContainers, Entering
  <1>5. RecordOwnsContainer'
    BY DEF LxInv, RecordOwnsContainer
  <1> QED
    BY <1>2, <1>3, <1>4, <1>5 DEF LxInv

\* A call that begins takes a fresh handle, or none at all (checkpoint); on a
\* host it is not yet about to enter a record.
LEMMA CallBegins ==
    ASSUME LxInv, NEW c, c \notin DOMAIN making, NEW h \in Int, NEW name, NEW at,
           making' = Put(making, c, [h |-> h, name |-> name, at |-> at]),
           UNCHANGED <<lxcEmulated, boxes, shots, host>>,
           \/ h = nextBox /\ nextBox' = nextBox + 1
           \/ at = "checkpoint" /\ h < nextBox /\ nextBox' = nextBox,
           at = "enter" => lxcEmulated
    PROVE  LxInv'
  <1>1. /\ DOMAIN making' = DOMAIN making \cup {c}
        /\ making'[c] = [h |-> h, name |-> name, at |-> at]
        /\ \A d \in DOMAIN making : making'[d] = making[d]
    BY Zenon DEF Put
  <1>2. /\ making'[c].h = h /\ making'[c].at = at /\ DOMAIN making'[c] = {"h", "name", "at"}
    BY <1>1
  <1>3. nextBox \in Int /\ nextBox' \in Int /\ nextBox <= nextBox' /\ h < nextBox'
    BY DEF LxInv, LxShapes
  <1>4. LxShapes'
    BY <1>1, <1>2, <1>3, Zenon DEF LxInv, LxShapes
  <1>5. FreshHandles'
    <2>1. /\ \A g \in DOMAIN boxes : g \in Int /\ g < nextBox'
          /\ \A d \in DOMAIN making' : making'[d].h \in Int /\ making'[d].h < nextBox'
      BY <1>1, <1>2, <1>3 DEF LxInv, FreshHandles
    <2>2. \A d : Creating(d)' <=> IF d = c THEN at # "checkpoint" ELSE Creating(d)
      BY <1>1, <1>2, Zenon DEF Creating
    <2>3. at # "checkpoint" => /\ h \notin DOMAIN boxes
                               /\ \A d \in DOMAIN making : making[d].h # h
      BY <1>3 DEF LxInv, FreshHandles
    <2>4. \A d : Creating(d) => d \in DOMAIN making
      BY Zenon DEF Creating
    <2> QED
      BY <1>1, <1>2, <2>1, <2>2, <2>3, <2>4 DEF LxInv, FreshHandles
  <1>6. FreshContainers'
    BY <1>1, <1>2 DEF LxInv, FreshContainers, Entering
  <1>7. RecordOwnsContainer'
    BY Zenon DEF LxInv, RecordOwnsContainer
  <1> QED
    BY <1>4, <1>5, <1>6, <1>7 DEF LxInv

\* lxc-create gives a name that the host did not have, so no record has it.
LEMMA LxcCreateInv ==
    ASSUME LxInv, NEW c, lxcCreate(c)
    PROVE  LxInv'
  <1> USE DEF modeVars, recordVars, hostVars
  <1>1. CASE Fails(c)
    BY <1>1, CallEnds DEF lxcCreate, Fails
  <1>2. CASE /\ making[c].name \notin DOMAIN host
             /\ host' = Put(host, making[c].name, "stopped")
             /\ making' = [making EXCEPT ![c].at = "enter"]
    <2>1. UNCHANGED <<lxcEmulated, nextBox, boxes, shots>>
      BY DEF lxcCreate
    <2>2. DOMAIN host' = DOMAIN host \cup {making[c].name}
      BY <1>2 DEF Put
    <2>3. /\ c \in DOMAIN making /\ making[c].at = "create"
          /\ DOMAIN making' = DOMAIN making
          /\ \A d \in DOMAIN making \ {c} : making'[d] = making[d]
          /\ making'[c].name = making[c].name /\ making'[c].h = making[c].h
          /\ making'[c].at = "enter" /\ DOMAIN making'[c] = DOMAIN making[c]
      BY <1>2 DEF lxcCreate, LxInv, LxShapes
    <2>4. LxShapes'
      BY <2>1, <2>3 DEF LxInv, LxShapes
    <2>5. FreshHandles'
      <3>1. \A d : Creating(d)' <=> Creating(d)
        BY <2>3, Zenon DEF Creating
      <3>2. \A d \in DOMAIN making : making'[d].h = making[d].h
        BY <2>3, Zenon
      <3>3. \A d : Creating(d) => d \in DOMAIN making
        BY DEF Creating
      <3> QED
        BY <2>1, <2>3, <3>1, <3>2, <3>3 DEF LxInv, FreshHandles
    <2>6. FreshContainers'
      <3>1. \A d : Entering(d)' <=> d = c \/ Entering(d)
        BY <2>3, Zenon DEF Entering
      <3>2. \A d \in DOMAIN making : making'[d].name = making[d].name
        BY <2>3, Zenon
      <3>3. \A d : Entering(d) => d \in DOMAIN making
        BY DEF Entering
      <3>4. ~lxcEmulated => \A h \in DOMAIN boxes : boxes[h].name # making[c].name
        BY <1>2 DEF LxInv, RecordOwnsContainer
      <3> QED
        BY <1>2, <2>1, <2>2, <2>3, <3>1, <3>2, <3>3, <3>4 DEF LxInv, FreshContainers
    <2>7. RecordOwnsContainer'
      BY <2>1, <2>2 DEF LxInv, RecordOwnsContainer
    <2> QED
      BY <2>4, <2>5, <2>6, <2>7 DEF LxInv
  <1> QED
    BY <1>1, <1>2 DEF lxcCreate

\* The storage driver makes a volume of the name; records and host stay.
LEMMA CreateVolumeInv ==
    ASSUME LxInv, NEW c, CreateVolume(c)
    PROVE  LxInv'
  <1> USE DEF modeVars, recordVars, hostVars
  <1>1. CASE Fails(c)
    BY <1>1, CallEnds DEF CreateVolume, Fails
  <1>2. CASE making' = [making EXCEPT ![c].at = "create"] /\ UNCHANGED host
    <2>1. UNCHANGED <<lxcEmulated, nextBox, boxes, shots, host>>
      BY <1>2 DEF CreateVolume
    <2>2. /\ c \in DOMAIN making /\ making[c].at = "volume"
          /\ DOMAIN making' = DOMAIN making
          /\ \A d \in DOMAIN making \ {c} : making'[d] = making[d]
          /\ making'[c].h = making[c].h
          /\ making'[c].at = "create" /\ DOMAIN making'[c] = DOMAIN making[c]
      BY <1>2 DEF CreateVolume, LxInv, LxShapes
    <2>3. LxShapes'
      BY <2>1, <2>2 DEF LxInv, LxShapes
    <2>4. FreshHandles'
      <3>1. \A d : Creating(d)' <=> Creating(d)
        BY <2>2, Zenon DEF Creating
      <3>2. \A d \in DOMAIN making : making'[d].h = making[d].h
        BY <2>2
      <3>3. \A d : Creating(d) => d \in DOMAIN making
        BY DEF Creating
      <3> QED
        BY <2>1, <2>2, <3>1, <3>2, <3>3 DEF LxInv, FreshHandles
    <2>5. FreshContainers'
      BY <2>1, <2>2 DEF LxInv, FreshContainers, Entering
    <2>6. RecordOwnsContainer'
      BY <2>1, Zenon DEF LxInv, RecordOwnsContainer
    <2> QED
      BY <2>3, <2>4, <2>5, <2>6 DEF LxInv
  <1> QED
    BY <1>1, <1>2 DEF CreateVolume

\* The record takes over the container and the handle of its creation.
LEMMA EnterBoxInv ==
    ASSUME LxInv, NEW c, EnterBox(c)
    PROVE  LxInv'
  <1> DEFINE h == making[c].h
             name == making[c].name
  <1>1. /\ Entering(c) /\ Creating(c)
        /\ boxes' = Put(boxes, h, Record(name)) /\ making' = Del(making, c)
        /\ UNCHANGED <<lxcEmulated, nextBox, shots, host>>
    BY Zenon DEF EnterBox, Entering, Creating, modeVars, hostVars
  <1>2. /\ DOMAIN boxes' = DOMAIN boxes \cup {h} /\ boxes'[h] = Record(name)
        /\ \A g \in DOMAIN boxes : g # h => boxes'[g] = boxes[g]
    BY <1>1, Zenon DEF Put
  <1>3. boxes'[h].name = name /\ DOMAIN boxes'[h] = {"name", "state", "node"}
    BY <1>2 DEF Record
  <1>4. /\ DOMAIN making' = DOMAIN making \ {c}
        /\ \A d \in DOMAIN making' : making'[d] = making[d]
    BY <1>1 DEF Del, Restrict
  <1>5. /\ h \notin DOMAIN boxes /\ h \in Int /\ h < nextBox
        /\ \A d : Creating(d) /\ d # c => making[d].h # h
    BY <1>1, Zenon DEF LxInv, FreshHandles, Creating
  <1>6. ~lxcEmulated =>
          /\ name \in DOMAIN host
          /\ \A g \in DOMAIN boxes : boxes[g].name # name
          /\ \A d : Entering(d) /\ d # c => making[d].name # name
    BY <1>1, Zenon DEF LxInv, FreshContainers
  <1>7. \A d : /\ Creating(d)' <=> Creating(d) /\ d # c
               /\ Entering(d)' <=> Entering(d) /\ d # c
               /\ Creating(d)' => making'[d] = making[d]
               /\ Entering(d)' => making'[d] = making[d]
    BY <1>4, Zenon DEF Creating, Entering
  <1> HIDE DEF h, name
  <1>8. LxShapes'
    BY <1>1, <1>2, <1>3, <1>4, Zenon DEF LxInv, LxShapes
  <1>9. FreshHandles'
    BY <1>1, <1>2, <1>4, <1>5, <1>7 DEF LxInv, FreshHandles
  <1>10. FreshContainers'
    BY <1>1, <1>2, <1>3, <1>6, <1>7 DEF LxInv, FreshContainers
  <1>11. RecordOwnsContainer'
    BY <1>1, <1>2, <1>3, <1>6 DEF LxInv, RecordOwnsContainer
  <1> QED
    BY <1>8, <1>9, <1>10, <1>11 DEF LxInv

\* lxc-destroy removes the container of the record that goes, and nobody else's.
LEMMA DestroyBoxInv ==
    ASSUME LxInv, NEW h, DestroyBox(h)
    PROVE  LxInv'
  <1>1. /\ h \in DOMAIN boxes /\ boxes' = Del(boxes, h) /\ shots' = shots \ {h}
        /\ UNCHANGED <<lxcEmulated, nextBox, making>>
        /\ host' = host \/ host' = Del(host, boxes[h].name)
    BY Zenon DEF DestroyBox, modeVars
  <1>2. /\ DOMAIN boxes' = DOMAIN boxes \ {h}
        /\ \A g \in DOMAIN boxes' : boxes'[g] = boxes[g]
    BY <1>1 DEF Del, Restrict
  <1>3. DOMAIN host \ {boxes[h].name} \subseteq DOMAIN host'
    BY <1>1 DEF Del, Restrict
  <1>4. LxShapes'
    BY <1>1, <1>2, Zenon DEF LxInv, LxShapes
  <1>5. FreshHandles'
    BY <1>1, <1>2, Zenon DEF LxInv, FreshHandles, Creating
  <1>6. FreshContainers'
    BY <1>1, <1>2, <1>3 DEF LxInv, FreshContainers, Entering
  <1>7. RecordOwnsContainer'
    BY <1>1, <1>2, <1>3 DEF LxInv, RecordOwnsContainer
  <1> QED
    BY <1>4, <1>5, <1>6, <1>7 DEF LxInv

\* A command on a container leaves the host the containers it has.
LEMMA ExecKeeps ==
    ASSUME NEW cmd, NEW name, lxcExec(cmd, name)
    PROVE  DOMAIN host' = DOMAIN host
  BY Zenon DEF lxcExec, Put

\* Lifecycle, migration and restore change fields of a record, not its name.
LEMMA FieldInv ==
    ASSUME LxInv, NEW h \in BoxHandles,
           \/ StartBox(h) \/ StopBox(h) \/ PauseBox(h) \/ ResumeBox(h)
           \/ MigrateContainer(h) \/ RestoreContainer(h)
    PROVE  LxInv'
  <1> USE DEF StartBox, StopBox, PauseBox, ResumeBox, boxTransition, MigrateContainer,
              RestoreContainer, modeVars, hostVars
  <1>1. UNCHANGED <<lxcEmulated, nextBox, making, shots>>
    OBVIOUS
  <1>2. DOMAIN host' = DOMAIN host
    BY ExecKeeps, Zenon
  <1>3. h \in DOMAIN boxes /\ \E x : \/ boxes' = [boxes EXCEPT ![h].state = x]
                                     \/ boxes' = [boxes EXCEPT ![h].node = x]
    OBVIOUS
  <1>4. /\ DOMAIN boxes' = DOMAIN boxes
        /\ \A g \in DOMAIN boxes : /\ DOMAIN boxes'[g] = DOMAIN boxes[g]
                                   /\ boxes'[g].name = boxes[g].name
    BY ONLY <1>3, LxInv DEF LxInv, LxShapes
  <1> QED
    BY ONLY LxInv, <1>1, <1>2, <1>4, NamesKept, Zenon

\* Calls that take a handle or remember a record before the lock is released.
LEMMA BeginsInv ==
    ASSUME LxInv, NEW c \in LCallers,
           \/ \E name \in CNames, template \in BOOLEAN : TakeHandle(c, name, template)
           \/ CloneContainer(c)
    PROVE  LxInv'
  <1> USE DEF modeVars, recordVars, hostVars
  <1>1. CASE CloneContainer(c)
    <2>1. PICK name : making' = Put(making, c, [h |-> nextBox, name |-> name, at |-> "enter"])
      BY <1>1, Zenon DEF CloneContainer
    <2>2. PICK h \in Int : h = nextBox
      BY DEF LxInv, LxShapes
    <2>3. lxcEmulated
      BY <1>1, Zenon DEF CloneContainer, LxInv, FreshContainers
    <2>4. /\ c \notin DOMAIN making /\ nextBox' = nextBox + 1
          /\ UNCHANGED <<lxcEmulated, boxes, shots, host>>
      BY <1>1, Zenon DEF CloneContainer
    <2> QED
      BY <2>1, <2>2, <2>3, <2>4, CallBegins, Zenon
  <1>2. ASSUME NEW name, NEW template, TakeHandle(c, name, template) PROVE LxInv'
    <2>0. PICK at : at = IF lxcEmulated THEN "enter"
                         ELSE IF driverSet /\ ~template THEN "volume" ELSE "create"
      BY Zenon
    <2>1. /\ making' = Put(making, c, [h |-> nextBox, name |-> name, at |-> at])
          /\ at = "enter" => lxcEmulated
      BY <1>2, <2>0, Zenon DEF TakeHandle
    <2>2. PICK h \in Int : h = nextBox
      BY Zenon DEF LxInv, LxShapes
    <2>3. /\ c \notin DOMAIN making /\ nextBox' = nextBox + 1
          /\ UNCHANGED <<lxcEmulated, boxes, shots, host>>
      BY <1>2, Zenon DEF TakeHandle
    <2> QED
      BY <2>1, <2>2, <2>3, CallBegins, Zenon
  <1> QED
    BY <1>1, <1>2

\* A checkpoint remembers a record, and later runs by its name.
LEMMA CheckpointInv ==
    ASSUME LxInv, NEW c \in LCallers, CheckpointContainer(c)
    PROVE  LxInv'
  <1> USE DEF modeVars, recordVars, hostVars
  <1>1. ASSUME NEW h \in DOMAIN boxes, c \notin DOMAIN making,
               making' = Put(making, c, [h |-> h, name |-> boxes[h].name, at |-> "checkpoint"]),
               UNCHANGED <<lxcEmulated, boxes, shots, nextBox, host>>
        PROVE  LxInv'
    <2>1. PICK name : name = boxes[h].name
      OBVIOUS
    <2>2. h \in Int /\ h < nextBox
      BY Zenon DEF LxInv, FreshHandles
    <2>3. PICK at : at = "checkpoint"
      BY Zenon
    <2>4. /\ making' = Put(making, c, [h |-> h, name |-> name, at |-> at])
          /\ at = "enter" => lxcEmulated
      BY <1>1, <2>1, <2>3, Zenon
    <2>5. UNCHANGED <<lxcEmulated, boxes, shots, host>> /\ nextBox' = nextBox
      BY <1>1, Zenon
    <2> QED
      BY <1>1, <2>2, <2>3, <2>4, <2>5, CallBegins, Zenon
  <1>2. CASE /\ making' = Del(making, c)
             /\ UNCHANGED <<lxcEmulated, boxes, shots, nextBox>>
             /\ IF lxcEmulated THEN UNCHANGED hostVars
                ELSE lxcExec("checkpoint", making[c].name) \/ UNCHANGED hostVars
    <2>1. DOMAIN host' = DOMAIN host
      BY <1>2, ExecKeeps
    <2> QED
      BY <1>2, <2>1, CallEnds
  <1> QED
    BY <1>1, <1>2, Zenon DEF CheckpointContainer

-----------------------------------------------------------------------------
\* Every step of the backend, its callers and the host keeps the invariant.
LEMMA LxStepInv == LxInv /\ [LxNext]_lxVars => LxInv'
  <1> SUFFICES ASSUME LxInv, [LxNext]_lxVars PROVE LxInv'
    OBVIOUS
  <1> USE DEF modeVars, recordVars, hostVars
  <1>1. CASE UNCHANGED lxVars
    BY <1>1, NamesKept DEF lxVars
  <1>2. ASSUME NEW c \in LCallers, CreateBox(c) \/ CreateVMWithTemplate(c) PROVE LxInv'
    BY <1>2, BeginsInv, CreateVolumeInv, LxcCreateInv, EnterBoxInv, Zenon
       DEF CreateBox, CreateVMWithTemplate
  <1>3. ASSUME NEW c \in LCallers, CloneContainer(c) \/ CheckpointContainer(c) PROVE LxInv'
    BY <1>3, BeginsInv, CheckpointInv
  <1>4. ASSUME NEW h \in BoxHandles, DestroyBox(h) PROVE LxInv'
    BY <1>4, DestroyBoxInv
  <1>5. ASSUME NEW h \in BoxHandles,
               \/ StartBox(h) \/ StopBox(h) \/ PauseBox(h) \/ ResumeBox(h)
               \/ MigrateContainer(h) \/ RestoreContainer(h)
        PROVE  LxInv'
    BY <1>5, FieldInv
  <1>6. ASSUME NEW h \in BoxHandles, SnapshotContainer(h) PROVE LxInv'
    BY <1>6, NamesKept DEF SnapshotContainer
  <1>7. ASSUME NEW name \in CNames, BoxExits(name) PROVE LxInv'
    <2>1. DOMAIN host \subseteq DOMAIN host'
      BY <1>7 DEF BoxExits, Put
    <2> QED
      BY <1>7, <2>1, NamesKept, Zenon DEF BoxExits
  <1>8. CASE SetStorageDriver
    BY <1>8, NamesKept DEF SetStorageDriver
  <1>9. CASE \/ \E h \in BoxHandles : GetBox(h)
             \/ handleContainerExec \/ handleVMStats \/ handleLXCTemplates \/ ListBoxes
    BY <1>1, <1>9 DEF GetBox, handleContainerExec, ExecContainer, handleVMStats,
       GetContainerStats, handleLXCTemplates, AvailableTemplates, ListBoxes
  <1> QED
    BY <1>1, <1>2, <1>3, <1>4, <1>5, <1>6, <1>7, <1>8, <1>9 DEF LxNext

\* On a host, every container record stands for a host container of its own,
\* whatever creations, checkpoints and destructions overlap in LXCBackend.
THEOREM RecordsOwnContainers == LxSpec => []RecordOwnsContainer
  <1>1. LxInv => RecordOwnsContainer
    BY DEF LxInv
  <1> QED
    BY LxInitInv, LxStepInv, <1>1, PTL DEF LxSpec

\* A container whose record is about to be entered is stopped: no record has its name,
\* so nothing starts it.
EntersStopped ==
    ~lxcEmulated => \A c : Entering(c) => host[making[c].name] = "stopped"

\* The inductive invariant behind RunningIsRecorded.
RunInv == RunningIsRecorded /\ EntersStopped

\* A step that starts no container and enters no record: what the host has stays or stops.
LEMMA QuietStep ==
    ASSUME LxInv, RunInv, UNCHANGED <<lxcEmulated, boxes>>,
           ~lxcEmulated => \A n \in DOMAIN host :
               n \in DOMAIN host' /\ host'[n] \in {host[n], "stopped"},
           ~lxcEmulated => \A c : Entering(c)' => Entering(c) /\ making'[c].name = making[c].name
    PROVE  RunInv'
  <1>1. RunningIsRecorded'
    BY Zenon DEF LxInv, RunInv, RecordOwnsContainer, RunningIsRecorded
  <1>2. EntersStopped'
    BY Zenon DEF LxInv, RunInv, FreshContainers, EntersStopped
  <1> QED
    BY <1>1, <1>2 DEF RunInv

\* A call that ends, with the host left alone or one of its containers stopped.
LEMMA QuietEnd ==
    ASSUME LxInv, RunInv, UNCHANGED <<lxcEmulated, boxes>>, NEW c, making' = Del(making, c),
           \/ host' = host
           \/ \E n \in DOMAIN host : host' = Put(host, n, "stopped")
    PROVE  RunInv'
  <1>1. \A d : Entering(d)' => Entering(d) /\ making'[d].name = making[d].name
    BY Zenon DEF Entering, Del, Restrict
  <1>2. \A n \in DOMAIN host : n \in DOMAIN host' /\ host'[n] \in {host[n], "stopped"}
    BY Zenon DEF Put
  <1> QED
    BY <1>1, <1>2, QuietStep, Zenon

\* Creation: a handle and a volume change no container, lxc-create makes a stopped one.
LEMMA CreateRun ==
    ASSUME LxInv, RunInv, NEW c \in LCallers, CreateVolume(c) \/ lxcCreate(c)
    PROVE  RunInv'
  <1> USE DEF modeVars, recordVars, hostVars
  <1>1. CASE Fails(c)
    BY <1>1, QuietEnd DEF Fails, CreateVolume, lxcCreate
  <1>2. CASE CreateVolume(c) /\ ~Fails(c)
    <2>1. /\ c \in DOMAIN making /\ making[c].at = "volume"
          /\ making' = [making EXCEPT ![c].at = "create"]
          /\ UNCHANGED <<lxcEmulated, boxes, host>>
      BY <1>2 DEF CreateVolume
    <2>2. \A d : Entering(d)' => Entering(d) /\ making'[d].name = making[d].name
      BY <2>1 DEF Entering, LxInv, LxShapes
    <2> QED
      BY <2>1, <2>2, QuietStep
  <1>3. CASE lxcCreate(c) /\ ~Fails(c)
    <2>1. /\ c \in DOMAIN making /\ making[c].at = "create"
          /\ making[c].name \notin DOMAIN host
          /\ host' = Put(host, making[c].name, "stopped")
          /\ making' = [making EXCEPT ![c].at = "enter"]
          /\ UNCHANGED <<lxcEmulated, boxes>>
      BY <1>3 DEF lxcCreate
    <2>2. /\ \A n \in DOMAIN host : host'[n] = host[n]
          /\ host'[making[c].name] = "stopped"
      BY <2>1 DEF Put
    <2>3. \A d : Entering(d)' => /\ d = c \/ Entering(d)
                                 /\ making'[d].name = making[d].name
      BY <2>1 DEF Entering, LxInv, LxShapes
    <2>4. RunningIsRecorded'
      BY <2>1, <2>2 DEF LxInv, RunInv, RecordOwnsContainer, RunningIsRecorded
    <2>5. EntersStopped'
      BY <2>1, <2>2, <2>3 DEF LxInv, RunInv, FreshContainers, EntersStopped
    <2> QED
      BY <2>4, <2>5 DEF RunInv
  <1> QED
    BY <1>1, <1>2, <1>3

\* A call that begins enters no record at once on a host.
LEMMA BeginsRun ==
    ASSUME LxInv, RunInv, NEW c \in LCallers,
           \/ \E name \in CNames, template \in BOOLEAN : TakeHandle(c, name, template)
           \/ CloneContainer(c)
    PROVE  RunInv'
  <1> USE DEF modeVars, recordVars, hostVars
  <1>1. UNCHANGED <<lxcEmulated, boxes, host>>
    BY Zenon DEF TakeHandle, CloneContainer
  <1>2. ASSUME ~lxcEmulated
        PROVE  \A d : Entering(d)' => Entering(d) /\ making'[d].name = making[d].name
    <2>1. ~CloneContainer(c)
      BY <1>2, Zenon DEF CloneContainer, LxInv, FreshContainers
    <2>2. PICK h, name, at : /\ making' = Put(making, c, [h |-> h, name |-> name, at |-> at])
                             /\ at # "enter" /\ c \notin DOMAIN making
      BY <1>2, <2>1, Zenon DEF TakeHandle
    <2>3. making'[c].at = at
      BY <2>2, Zenon DEF Put
    <2> QED
      BY <2>2, <2>3, Zenon DEF Put, Entering
  <1> QED
    BY <1>1, <1>2, QuietStep, Zenon

\* A checkpoint remembers a record; later it stops a container, if any.
LEMMA CheckpointRun ==
    ASSUME LxInv, RunInv, NEW c \in LCallers, CheckpointContainer(c)
    PROVE  RunInv'
  <1> USE DEF modeVars, recordVars, hostVars
  <1>1. UNCHANGED <<lxcEmulated, boxes>>
    BY Zenon DEF CheckpointContainer
  <1>2. ASSUME NEW h, NEW name, c \notin DOMAIN making, UNCHANGED host,
               making' = Put(making, c, [h |-> h, name |-> name, at |-> "checkpoint"])
        PROVE  RunInv'
    <2>1. making'[c].at = "checkpoint"
      BY <1>2, Zenon DEF Put
    <2>2. \A d : Entering(d)' => Entering(d) /\ making'[d].name = making[d].name
      BY <1>2, <2>1, Zenon DEF Put, Entering
    <2> QED
      BY <1>1, <1>2, <2>2, QuietStep, Zenon
  <1>3. CASE /\ making' = Del(making, c)
             /\ IF lxcEmulated THEN UNCHANGED hostVars
                ELSE lxcExec("checkpoint", making[c].name) \/ UNCHANGED hostVars
    <2>1. \/ host' = host
          \/ \E n \in DOMAIN host : host' = Put(host, n, "stopped")
      BY <1>3, Zenon DEF lxcExec, Commands
    <2> QED
      BY <1>1, <1>3, <2>1, QuietEnd, Zenon
  <1> QED
    BY <1>2, <1>3, Zenon DEF CheckpointContainer

\* The record that is entered is not running, and neither is its container.
LEMMA EnterRun ==
    ASSUME LxInv, RunInv, NEW c, EnterBox(c)
    PROVE  RunInv'
  <1>1. /\ Entering(c) /\ boxes' = Put(boxes, making[c].h, Record(making[c].name))
        /\ making' = Del(making, c) /\ UNCHANGED <<lxcEmulated, host>>
    BY Zenon DEF EnterBox, Entering, modeVars, hostVars
  <1>2. \A g \in DOMAIN boxes' : \/ boxes'[g].name = making[c].name
                                 \/ g \in DOMAIN boxes /\ boxes'[g] = boxes[g]
    BY <1>1, Zenon DEF Put, Record
  <1>3. RunningIsRecorded'
    BY <1>1, <1>2 DEF RunInv, RunningIsRecorded, EntersStopped
  <1>4. EntersStopped'
    BY <1>1, Zenon DEF RunInv, EntersStopped, Entering, Del, Restrict
  <1> QED
    BY <1>3, <1>4 DEF RunInv

\* lxc-destroy removes the container of the record that goes, and nobody else's.
LEMMA DestroyRun ==
    ASSUME LxInv, RunInv, NEW h, DestroyBox(h)
    PROVE  RunInv'
  <1>1. /\ h \in DOMAIN boxes /\ boxes' = Del(boxes, h)
        /\ UNCHANGED <<lxcEmulated, making>>
        /\ host' = host \/ host' = Del(host, boxes[h].name)
    BY Zenon DEF DestroyBox, modeVars
  <1>2. \A g \in DOMAIN boxes' : g \in DOMAIN boxes \ {h} /\ boxes'[g] = boxes[g]
    BY <1>1 DEF Del, Restrict
  <1>3. \A n \in DOMAIN host \ {boxes[h].name} : host'[n] = host[n]
    BY <1>1 DEF Del, Restrict
  <1>4. RunningIsRecorded'
    BY <1>1, <1>2, <1>3 DEF LxInv, RecordOwnsContainer, RunInv, RunningIsRecorded
  <1>5. EntersStopped'
    BY <1>1, <1>3, Zenon DEF LxInv, FreshContainers, RunInv, EntersStopped, Entering
  <1> QED
    BY <1>4, <1>5 DEF RunInv

\* A command that starts the container of a record is run by a step that records it as running.
LEMMA FieldRun ==
    ASSUME LxInv, RunInv, NEW h \in BoxHandles,
           \/ StartBox(h) \/ StopBox(h) \/ PauseBox(h) \/ ResumeBox(h)
           \/ MigrateContainer(h) \/ RestoreContainer(h)
    PROVE  RunInv'
  <1> USE DEF StartBox, StopBox, PauseBox, ResumeBox, boxTransition, MigrateContainer,
              RestoreContainer, modeVars, hostVars
  <1>1. UNCHANGED <<lxcEmulated, making>> /\ h \in DOMAIN boxes
    OBVIOUS
  <1>2. \/ boxes' = [boxes EXCEPT ![h].state = "running"]
        \/ /\ \E x : \/ boxes' = [boxes EXCEPT ![h].state = x]
                     \/ boxes' = [boxes EXCEPT ![h].node = x]
           /\ ~lxcEmulated => \E to \in {"stopped", "frozen"} :
                                  host' = Put(host, boxes[h].name, to)
    BY Zenon DEF lxcExec, Commands
  <1>3. ~lxcEmulated => \E to : host' = Put(host, boxes[h].name, to)
    BY Zenon DEF lxcExec
  <1>4. /\ DOMAIN boxes' = DOMAIN boxes
        /\ \A g \in DOMAIN boxes : /\ boxes'[g].name = boxes[g].name
                                   /\ g # h => boxes'[g] = boxes[g]
    BY ONLY <1>1, <1>2, LxInv DEF LxInv, LxShapes
  <1>5. ~lxcEmulated => \A n \in DOMAIN host \ {boxes[h].name} : host'[n] = host[n]
    BY ONLY <1>3, Zenon DEF Put
  <1>6. ~lxcEmulated => \/ boxes'[h].state = "running"
                        \/ host'[boxes[h].name] # "running"
    BY ONLY <1>1, <1>2, LxInv DEF LxInv, LxShapes, Put
  <1>7. RunningIsRecorded'
    BY ONLY LxInv, RunInv, <1>1, <1>4, <1>5, <1>6
       DEF LxInv, RecordOwnsContainer, RunInv, RunningIsRecorded
  <1>8. EntersStopped'
    BY ONLY LxInv, RunInv, <1>1, <1>5, Zenon
       DEF LxInv, FreshContainers, RunInv, EntersStopped, Entering
  <1> QED
    BY ONLY <1>7, <1>8 DEF RunInv

\* Every step of the backend, its callers and the host keeps RunInv.
LEMMA RunStep == LxInv /\ RunInv /\ [LxNext]_lxVars => RunInv'
  <1> SUFFICES ASSUME LxInv, RunInv, [LxNext]_lxVars PROVE RunInv'
    OBVIOUS
  <1> USE DEF modeVars, recordVars, hostVars
  <1>1. CASE UNCHANGED <<lxcEmulated, boxes, host, making>>
    BY <1>1, QuietStep, Zenon DEF Entering
  <1>2. ASSUME NEW c \in LCallers, CreateBox(c) \/ CreateVMWithTemplate(c) PROVE RunInv'
    BY <1>2, BeginsRun, CreateRun, EnterRun, Zenon
       DEF CreateBox, CreateVMWithTemplate
  <1>3. ASSUME NEW c \in LCallers, CloneContainer(c) \/ CheckpointContainer(c) PROVE RunInv'
    BY <1>3, BeginsRun, CheckpointRun
  <1>4. ASSUME NEW h \in BoxHandles, DestroyBox(h) PROVE RunInv'
    BY <1>4, DestroyRun
  <1>5. ASSUME NEW h \in BoxHandles,
               \/ StartBox(h) \/ StopBox(h) \/ PauseBox(h) \/ ResumeBox(h)
               \/ MigrateContainer(h) \/ RestoreContainer(h)
        PROVE  RunInv'
    BY <1>5, FieldRun
  <1>6. ASSUME NEW h \in BoxHandles, SnapshotContainer(h) PROVE RunInv'
    BY <1>1, <1>6 DEF SnapshotContainer
  <1>7. ASSUME NEW name \in CNames, BoxExits(name) PROVE RunInv'
    <2>1. \A n \in DOMAIN host : n \in DOMAIN host' /\ host'[n] \in {host[n], "stopped"}
      BY <1>7 DEF BoxExits, Put
    <2>2. UNCHANGED <<lxcEmulated, boxes, making>>
      BY <1>7, Zenon DEF BoxExits
    <2> QED
      BY <2>1, <2>2, QuietStep, Zenon DEF Entering
  <1>8. CASE SetStorageDriver
    BY <1>1, <1>8 DEF SetStorageDriver
  <1>9. CASE \/ UNCHANGED lxVars \/ \E h \in BoxHandles : GetBox(h)
             \/ handleContainerExec \/ handleVMStats \/ handleLXCTemplates \/ ListBoxes
    BY <1>1, <1>9, Zenon
       DEF lxVars, GetBox, handleContainerExec, ExecContainer, handleVMStats,
       GetContainerStats, handleLXCTemplates, AvailableTemplates, ListBoxes
  <1> QED
    BY <1>2, <1>3, <1>4, <1>5, <1>6, <1>7, <1>8, <1>9, Zenon DEF LxNext

\* On a host, a container that runs is recorded as running, whatever creations,
\* checkpoints and lifecycle calls of LXCBackend overlap.
THEOREM RunningContainersRecorded == LxSpec => []RunningIsRecorded
  <1>1. NewLXCBackend => RunInv
    BY DEF NewLXCBackend, RunInv, RunningIsRecorded, EntersStopped, Entering, Empty
  <1>2. RunInv => RunningIsRecorded
    BY DEF RunInv
  <1> QED
    BY LxInitInv, LxStepInv, RunStep, <1>1, <1>2, PTL DEF LxSpec

-----------------------------------------------------------------------------
(* VolumeDrivers: TrackedHasImage and RemovesOwnImage of the CephDriver.   *)
(* Neither is inductive: an image may be between its making and its        *)
(* recording, or between being forgotten and being removed. A call in one  *)
(* of these stretches holds the image's name, and the invariant is that a  *)
(* name in use has one user.                                               *)

\* The name a call has made and not recorded, or forgotten and not removed.
HeldName(c) == IF cephCalls[c].at = "created" THEN {cephCalls[c].name}
           ELSE IF cephCalls[c].at = "forgot" THEN {cephCalls[c].vol.name}
           ELSE {}

\* VdShapes of the records the driver updates in place, and fresh identifiers.
VdShapes ==
    /\ cephCalls = [c \in StoreUsers |-> cephCalls[c]]
    /\ \A c \in StoreUsers : "at" \in DOMAIN cephCalls[c]
    /\ \A n \in DOMAIN rbd : "made" \in DOMAIN rbd[n]
    /\ cephNextVolID \in Int
    /\ \A v \in DOMAIN cephVolumes : v \in Int /\ v < cephNextVolID

\* A name held by a call has an image, and no other call and no volume uses it.
OneUser ==
    \A c \in StoreUsers :
        /\ HeldName(c) \subseteq DOMAIN rbd
        /\ \A d \in StoreUsers \ {c} : HeldName(c) \cap HeldName(d) = {}
        /\ \A v \in DOMAIN cephVolumes : cephVolumes[v].name \notin HeldName(c)

VdInv == VdShapes /\ OneUser /\ TrackedHasImage /\ RemovesOwnImage

-----------------------------------------------------------------------------
\* Every call is idle and every table empty at first.
LEMMA VdInitInv == VdInit => VdInv
  BY DEF VdInit, VdInv, VdShapes, OneUser, HeldName, TrackedHasImage, RemovesOwnImage,
         Empty, NoCall

\* Images keep their identity: a step that removes no image in use, changes
\* none and leaves the table and the calls alone preserves the invariant.
LEMMA ImagesKept ==
    ASSUME VdInv, UNCHANGED <<cephVolumes, cephCalls>>,
           cephNextVolID' \in Int, cephNextVolID <= cephNextVolID',
           DOMAIN rbd \subseteq DOMAIN rbd',
           \A n \in DOMAIN rbd : rbd'[n].made = rbd[n].made,
           \A n \in DOMAIN rbd' : "made" \in DOMAIN rbd'[n]
    PROVE  VdInv'
  <1>1. VdShapes'
    BY DEF VdInv, VdShapes
  <1>2. \A c : HeldName(c)' = HeldName(c)
    BY Zenon DEF HeldName
  <1>3. OneUser'
    BY <1>2, Zenon DEF VdInv, OneUser
  <1>4. TrackedHasImage'
    BY Zenon DEF VdInv, TrackedHasImage
  <1>5. RemovesOwnImage'
    BY Zenon DEF VdInv, RemovesOwnImage
  <1> QED
    BY <1>1, <1>3, <1>4, <1>5, Zenon DEF VdInv

\* A new image has a name nobody uses: RbdMake changes no image there is.
LEMMA MakeKeeps ==
    ASSUME NEW n, NEW p, RbdMake(n, p), VdInv
    PROVE  /\ n \notin DOMAIN rbd /\ DOMAIN rbd' = DOMAIN rbd \cup {n}
           /\ \A m \in DOMAIN rbd : rbd'[m] = rbd[m]
           /\ \A m \in DOMAIN rbd' : "made" \in DOMAIN rbd'[m]
  <1>1. DOMAIN rbd' = DOMAIN rbd \cup {n} /\ rbd'[n] = Image(n, p)
    BY DEF RbdMake, Put
  <1>2. \A m \in DOMAIN rbd : rbd'[m] = rbd[m]
    BY DEF RbdMake, Put
  <1>3. "made" \in DOMAIN Image(n, p)
    BY Zenon DEF Image
  <1> QED
    BY <1>1, <1>2, <1>3, Zenon DEF RbdMake, VdInv, VdShapes

\* A call that moves on to a stretch in which it holds nothing, while images
\* and table stay, preserves the invariant.
LEMMA LetsGo ==
    ASSUME VdInv, NEW c \in StoreUsers, NEW r,
           UNCHANGED <<cephVolumes, rbd>>, cephNextVolID' = cephNextVolID,
           cephCalls' = [cephCalls EXCEPT ![c] = r],
           "at" \in DOMAIN r, r.at \notin {"created", "forgot"}
    PROVE  VdInv'
  <1>1. \A d \in StoreUsers : cephCalls'[d] = IF d = c THEN r ELSE cephCalls[d]
    BY DEF VdInv, VdShapes
  <1>2. \A d \in StoreUsers : HeldName(d)' = IF d = c THEN {} ELSE HeldName(d)
    BY <1>1, Zenon DEF HeldName
  <1>3. VdShapes'
    BY <1>1, Zenon DEF VdInv, VdShapes
  <1>4. OneUser'
    BY <1>2 DEF VdInv, OneUser
  <1>5. TrackedHasImage'
    BY Zenon DEF VdInv, TrackedHasImage
  <1>6. RemovesOwnImage'
    BY <1>1 DEF VdInv, RemovesOwnImage
  <1> QED
    BY <1>3, <1>4, <1>5, <1>6 DEF VdInv

\* CreateVolume before its lock: a fresh image is held by its maker alone.
LEMMA CephCreateInv ==
    ASSUME VdInv, NEW c \in StoreUsers, CephCreate(c)
    PROVE  VdInv'
  <1>1. CASE CommandFails /\ Finish(c, 400)
    <2>1. "at" \in DOMAIN NoCall /\ NoCall.at \notin {"created", "forgot"}
      BY Zenon DEF NoCall
    <2> QED
      BY <1>1, <2>1, LetsGo, Zenon DEF CephCreate, CommandFails, Finish, Tables
  <1>2. ASSUME NEW n \in ImageNames, RbdMake(n, NoParent),
               GoOn(c, [at |-> "created", name |-> n])
        PROVE  VdInv'
    <2>1. /\ n \notin DOMAIN rbd /\ DOMAIN rbd' = DOMAIN rbd \cup {n}
          /\ \A m \in DOMAIN rbd : rbd'[m] = rbd[m]
          /\ \A m \in DOMAIN rbd' : "made" \in DOMAIN rbd'[m]
      BY <1>2, MakeKeeps, Zenon
    <2>2. \A d \in StoreUsers : cephCalls'[d] = IF d = c THEN [at |-> "created", name |-> n]
                                                ELSE cephCalls[d]
      BY <1>2, Zenon DEF GoOn, VdInv, VdShapes
    <2>3. \A d \in StoreUsers : HeldName(d)' = IF d = c THEN {n} ELSE HeldName(d)
      BY <2>2 DEF HeldName
    <2>4. UNCHANGED <<cephVolumes, cephNextVolID>>
      BY Zenon DEF CephCreate, Tables
    <2>5. VdShapes'
      BY <1>2, <2>1, <2>2, <2>4, Zenon DEF GoOn, VdInv, VdShapes
    <2>6. TrackedHasImage'
      BY <2>1, <2>4, Zenon DEF VdInv, TrackedHasImage
    <2>7. RemovesOwnImage'
      BY <2>1, <2>2 DEF VdInv, RemovesOwnImage
    <2>8. \A v \in DOMAIN cephVolumes : cephVolumes[v].name # n
      BY <2>1, Zenon DEF VdInv, TrackedHasImage
    <2>9. OneUser'
      BY <2>1, <2>3, <2>4, <2>8 DEF VdInv, OneUser
    <2> QED
      BY <2>5, <2>6, <2>7, <2>9, Zenon DEF VdInv
  <1> QED
    BY <1>1, <1>2, Zenon DEF CephCreate

\* CreateVolume under its lock: the name passes from the call to the table,
\* under an identifier that no volume has.
LEMMA CephRecordInv ==
    ASSUME VdInv, NEW c \in StoreUsers, CephRecord(c)
    PROVE  VdInv'
  <1> DEFINE n == cephCalls[c].name
             id == cephNextVolID
  <1>1. HeldName(c) = {n}
    BY Zenon DEF CephRecord, HeldName
  <1>2. n \in DOMAIN rbd /\ \A v \in DOMAIN cephVolumes : cephVolumes[v].name # n
    BY <1>1, Zenon DEF VdInv, OneUser
  <1>3. /\ id \in Int /\ id \notin DOMAIN cephVolumes
        /\ DOMAIN cephVolumes' = DOMAIN cephVolumes \cup {id}
        /\ cephVolumes'[id] = [name |-> n, made |-> rbd[n].made]
        /\ \A v \in DOMAIN cephVolumes : cephVolumes'[v] = cephVolumes[v]
        /\ cephNextVolID' = id + 1
    BY DEF CephRecord, Put, VdInv, VdShapes
  <1>4. UNCHANGED rbd
    BY Zenon DEF CephRecord
  <1>5. \A d \in StoreUsers : cephCalls'[d] = IF d = c THEN NoCall ELSE cephCalls[d]
    BY Zenon DEF CephRecord, Finish, VdInv, VdShapes
  <1>6. "at" \in DOMAIN NoCall /\ NoCall.at \notin {"created", "forgot"}
    BY Zenon DEF NoCall
  <1>7. \A d \in StoreUsers : HeldName(d)' = IF d = c THEN {} ELSE HeldName(d)
    BY <1>5, <1>6, Zenon DEF HeldName
  <1>8. cephCalls' = [d \in StoreUsers |-> cephCalls'[d]]
    BY Zenon DEF CephRecord, Finish, VdInv, VdShapes
  <1>9. VdShapes'
    BY <1>3, <1>4, <1>5, <1>6, <1>8 DEF VdInv, VdShapes
  <1>10. cephVolumes'[id].name = n /\ cephVolumes'[id].made = rbd[n].made
    BY <1>3
  <1>11. \A d \in StoreUsers \ {c} : n \notin HeldName(d)
    BY <1>1, Zenon DEF VdInv, OneUser
  <1> HIDE DEF n, id
  <1>12. OneUser'
    BY <1>3, <1>4, <1>7, <1>10, <1>11 DEF VdInv, OneUser
  <1>13. TrackedHasImage'
    BY <1>2, <1>3, <1>4, <1>10, Zenon DEF VdInv, TrackedHasImage
  <1>14. RemovesOwnImage'
    BY <1>4, <1>5, <1>6, Zenon DEF VdInv, RemovesOwnImage
  <1> QED
    BY <1>9, <1>12, <1>13, <1>14 DEF VdInv

\* DeleteVolume under its lock: the name passes from the table to the call.
LEMMA CephForgetInv ==
    ASSUME VdInv, NEW c \in StoreUsers, CephForget(c)
    PROVE  VdInv'
  <1>1. CASE UNCHANGED cephVolumes /\ Finish(c, 404)
    <2>1. "at" \in DOMAIN NoCall /\ NoCall.at \notin {"created", "forgot"}
      BY DEF NoCall
    <2> QED
      BY <1>1, <2>1, LetsGo, Zenon DEF CephForget, Finish
  <1>2. ASSUME NEW id \in DOMAIN cephVolumes, cephVolumes' = Del(cephVolumes, id),
               GoOn(c, [at |-> "forgot", vol |-> cephVolumes[id]])
        PROVE  VdInv'
    <2> DEFINE vol == cephVolumes[id]
    <2>1. /\ DOMAIN cephVolumes' = DOMAIN cephVolumes \ {id}
          /\ \A v \in DOMAIN cephVolumes' : cephVolumes'[v] = cephVolumes[v]
      BY <1>2, Zenon DEF Del, Restrict
    <2>2. UNCHANGED <<rbd, cephNextVolID>>
      BY Zenon DEF CephForget
    <2>3. \A d \in StoreUsers : cephCalls'[d] = IF d = c THEN [at |-> "forgot", vol |-> vol]
                                                ELSE cephCalls[d]
      BY <1>2, Zenon DEF GoOn, VdInv, VdShapes
    <2>4. cephCalls' = [d \in StoreUsers |-> cephCalls'[d]]
      BY <1>2, Zenon DEF GoOn, VdInv, VdShapes
    <2>5. /\ vol.name \in DOMAIN rbd /\ rbd[vol.name].made = vol.made
          /\ \A v \in DOMAIN cephVolumes \ {id} : cephVolumes[v].name # vol.name
          /\ \A d \in StoreUsers : vol.name \notin HeldName(d)
      BY Zenon DEF VdInv, TrackedHasImage, OneUser
    <2> HIDE DEF vol
    <2>6. \A d \in StoreUsers : HeldName(d)' = IF d = c THEN {vol.name} ELSE HeldName(d)
      <3>1. cephCalls'[c].at = "forgot" /\ cephCalls'[c].vol = vol
        BY <2>3
      <3>2. HeldName(c)' = {vol.name}
        BY <3>1, Zenon DEF HeldName
      <3>3. \A d \in StoreUsers \ {c} : HeldName(d)' = HeldName(d)
        BY <2>3, Zenon DEF HeldName
      <3> QED
        BY <3>2, <3>3
    <2>7. VdShapes'
      BY <2>1, <2>2, <2>3, <2>4 DEF VdInv, VdShapes
    <2>8. OneUser'
      BY <2>1, <2>2, <2>5, <2>6 DEF VdInv, OneUser
    <2>9. TrackedHasImage'
      BY <2>1, <2>2, Zenon DEF VdInv, TrackedHasImage
    <2>10. RemovesOwnImage'
      BY <2>2, <2>3, <2>5 DEF VdInv, RemovesOwnImage
    <2> QED
      BY <2>7, <2>8, <2>9, <2>10 DEF VdInv
  <1> QED
    BY <1>1, <1>2, Zenon DEF CephForget

\* DeleteVolume after its lock: rbd rm takes the image only its call uses.
LEMMA CephRemoveInv ==
    ASSUME VdInv, NEW c \in StoreUsers, CephRemove(c)
    PROVE  VdInv'
  <1>1. "at" \in DOMAIN NoCall /\ NoCall.at \notin {"created", "forgot"}
    BY Zenon DEF NoCall
  <1>2. CASE CommandFails /\ Finish(c, 404)
    BY <1>1, <1>2, LetsGo, Zenon DEF CephRemove, CommandFails, Finish, Tables
  <1>3. CASE RbdRm(cephCalls[c].vol.name) /\ Finish(c, 204)
    <2> DEFINE n == cephCalls[c].vol.name
    <2>1. HeldName(c) = {n}
      BY Zenon DEF CephRemove, HeldName
    <2>2. /\ DOMAIN rbd' = DOMAIN rbd \ {n}
          /\ \A m \in DOMAIN rbd' : rbd'[m] = rbd[m]
      BY <1>3, Zenon DEF RbdRm, Del, Restrict
    <2>3. /\ \A d \in StoreUsers \ {c} : n \notin HeldName(d)
          /\ \A v \in DOMAIN cephVolumes : cephVolumes[v].name # n
      BY <2>1, Zenon DEF VdInv, OneUser
    <2>4. UNCHANGED <<cephVolumes, cephNextVolID>>
      BY Zenon DEF CephRemove, Tables
    <2>5. \A d \in StoreUsers : cephCalls'[d] = IF d = c THEN NoCall ELSE cephCalls[d]
      BY <1>3, Zenon DEF Finish, VdInv, VdShapes
    <2>6. cephCalls' = [d \in StoreUsers |-> cephCalls'[d]]
      BY <1>3, Zenon DEF Finish, VdInv, VdShapes
    <2>7. \A d \in StoreUsers : HeldName(d)' = IF d = c THEN {} ELSE HeldName(d)
      BY <1>1, <2>5, Zenon DEF HeldName
    <2> HIDE DEF n
    <2>8. VdShapes'
      BY <1>1, <2>2, <2>4, <2>5, <2>6, Zenon DEF VdInv, VdShapes
    <2>9. OneUser'
      BY <2>2, <2>3, <2>4, <2>7 DEF VdInv, OneUser
    <2>10. TrackedHasImage'
      BY <2>2, <2>3, <2>4, Zenon DEF VdInv, TrackedHasImage
    <2>11. RemovesOwnImage'
      <3> SUFFICES ASSUME NEW d \in StoreUsers, cephCalls'[d].at = "forgot"
                   PROVE  /\ cephCalls'[d].vol.name \in DOMAIN rbd'
                          /\ rbd'[cephCalls'[d].vol.name].made = cephCalls'[d].vol.made
        BY Zenon DEF RemovesOwnImage
      <3>1. d # c /\ cephCalls'[d] = cephCalls[d]
        BY <1>1, <2>5, Zenon
      <3>2. cephCalls[d].vol.name \in HeldName(d)
        BY <3>1, Zenon DEF HeldName
      <3>3. cephCalls[d].vol.name # n
        BY <2>3, <3>1, <3>2, Zenon
      <3>4. /\ cephCalls[d].vol.name \in DOMAIN rbd
            /\ rbd[cephCalls[d].vol.name].made = cephCalls[d].vol.made
        BY <3>1, Zenon DEF VdInv, RemovesOwnImage
      <3> QED
        BY <2>2, <3>1, <3>3, <3>4, Zenon
    <2> QED
      BY <2>8, <2>9, <2>10, <2>11 DEF VdInv
  <1> QED
    BY <1>2, <1>3, Zenon DEF CephRemove

\* The steps of CreateSnapshot hold no name and rename no image.
LEMMA CephSnapshotInv ==
    ASSUME VdInv, NEW c \in StoreUsers,
           CephSnapLookup(c) \/ CephSnapTake(c) \/ CephSnapRecord(c)
    PROVE  VdInv'
  <1>1. "at" \in DOMAIN NoCall /\ NoCall.at \notin {"created", "forgot"}
    BY Zenon DEF NoCall
  <1>2. CASE CephSnapLookup(c)
    <2>1. PICK r : /\ GoOn(c, r) /\ "at" \in DOMAIN r /\ r.at \in {"looked", "snapped"}
      BY <1>2 DEF CephSnapLookup
    <2> QED
      BY <1>2, <2>1, LetsGo, Zenon DEF CephSnapLookup, GoOn, Tables
  <1>3. CASE CephSnapTake(c)
    <2>1. CASE CommandFails /\ Finish(c, GrpcError)
      BY <1>1, <1>3, <2>1, LetsGo, Zenon
         DEF CephSnapTake, CommandFails, Finish, Tables
    <2>2. CASE /\ RbdSnapCreate(cephCalls[c].name, cephCalls[c].snap)
               /\ GoOn(c, [cephCalls[c] EXCEPT !.at = "snapped"])
      <3> DEFINE r == [cephCalls[c] EXCEPT !.at = "snapped"]
      <3>1. "at" \in DOMAIN r /\ r.at = "snapped"
        BY DEF VdInv, VdShapes
      <3>2. /\ DOMAIN rbd' = DOMAIN rbd
            /\ \A n \in DOMAIN rbd : rbd'[n].made = rbd[n].made
            /\ \A n \in DOMAIN rbd : "made" \in DOMAIN rbd'[n]
        BY <2>2 DEF RbdSnapCreate, VdInv, VdShapes
      <3>3. \A d \in StoreUsers : cephCalls'[d] = IF d = c THEN r ELSE cephCalls[d]
        BY <2>2 DEF GoOn, VdInv, VdShapes
      <3>4. cephCalls' = [d \in StoreUsers |-> cephCalls'[d]]
        BY <2>2 DEF GoOn, VdInv, VdShapes
      <3>5. UNCHANGED <<cephVolumes, cephNextVolID>>
        BY <1>3 DEF CephSnapTake, Tables
      <3> HIDE DEF r
      <3>6. \A d \in StoreUsers : HeldName(d)' = IF d = c THEN {} ELSE HeldName(d)
        BY <3>1, <3>3, Zenon DEF HeldName
      <3>7. VdShapes'
        BY <3>1, <3>2, <3>3, <3>4, <3>5, Zenon DEF VdInv, VdShapes
      <3>8. OneUser'
        BY <3>2, <3>5, <3>6 DEF VdInv, OneUser
      <3>9. TrackedHasImage'
        BY <3>2, <3>5, Zenon DEF VdInv, TrackedHasImage
      <3>10. RemovesOwnImage'
        BY <3>1, <3>2, <3>3 DEF VdInv, RemovesOwnImage
      <3> QED
        BY <3>7, <3>8, <3>9, <3>10 DEF VdInv
    <2> QED
      BY <1>3, <2>1, <2>2 DEF CephSnapTake
  <1>4. CASE CephSnapRecord(c)
    BY <1>1, <1>4, LetsGo, Zenon DEF CephSnapRecord, Finish
  <1> QED
    BY <1>2, <1>3, <1>4

\* The calls that hand a name straight to rbd leave table and calls alone; they
\* make images under free names, or change what else an image has.
LEMMA CephDirectInv ==
    ASSUME VdInv, NEW c \in StoreUsers,
           \/ CephDeleteSnapshot(c) \/ CephCloneSnapshot(c)
           \/ CephImportVolume(c) \/ CephFlattenClone(c)
    PROVE  VdInv'
  <1>1. UNCHANGED <<cephVolumes, cephCalls>>
    BY DEF CephDeleteSnapshot, CephCloneSnapshot, CephImportVolume, CephFlattenClone, Tables
  <1>2. cephNextVolID' \in Int /\ cephNextVolID <= cephNextVolID'
    BY DEF CephDeleteSnapshot, CephCloneSnapshot, CephImportVolume, CephFlattenClone, Tables,
           VdInv, VdShapes
  <1>3. CASE UNCHANGED rbd
    BY <1>1, <1>2, <1>3, ImagesKept, Zenon DEF VdInv, VdShapes
  <1>4. ASSUME NEW n, NEW p, RbdMake(n, p) PROVE VdInv'
    <2>1. /\ DOMAIN rbd' = DOMAIN rbd \cup {n}
          /\ \A m \in DOMAIN rbd : rbd'[m] = rbd[m]
          /\ \A m \in DOMAIN rbd' : "made" \in DOMAIN rbd'[m]
      BY <1>4, MakeKeeps, Zenon
    <2> QED
      BY <1>1, <1>2, <2>1, ImagesKept, Zenon
  <1>5. ASSUME NEW n, NEW s, RbdSnapRm(n, s) PROVE VdInv'
    <2>1. /\ DOMAIN rbd' = DOMAIN rbd
          /\ \A m \in DOMAIN rbd : rbd'[m].made = rbd[m].made
          /\ \A m \in DOMAIN rbd : "made" \in DOMAIN rbd'[m]
      BY <1>5 DEF RbdSnapRm, VdInv, VdShapes
    <2> QED
      BY <1>1, <1>2, <2>1, ImagesKept, Zenon
  <1>6. ASSUME NEW n \in DOMAIN rbd, rbd' = [rbd EXCEPT ![n].parent = NoParent] PROVE VdInv'
    <2>1. /\ DOMAIN rbd' = DOMAIN rbd
          /\ \A m \in DOMAIN rbd : rbd'[m].made = rbd[m].made
          /\ \A m \in DOMAIN rbd : "made" \in DOMAIN rbd'[m]
      BY <1>6 DEF VdInv, VdShapes
    <2> QED
      BY <1>1, <1>2, <2>1, ImagesKept, Zenon
  <1> QED
    BY <1>3, <1>4, <1>5, <1>6, Zenon
       DEF CephDeleteSnapshot, CephCloneSnapshot, CephImportVolume,
       CephFlattenClone, CommandFails

\* No step of either driver disturbs the invariant.
LEMMA VdStepInv == VdInv /\ [CephNext \/ ZfsNext]_vdVars => VdInv'
  <1> SUFFICES ASSUME VdInv, [CephNext \/ ZfsNext]_vdVars PROVE VdInv'
    OBVIOUS
  <1>1. CASE UNCHANGED ceph
    BY <1>1, Zenon
       DEF ceph, VdInv, VdShapes, OneUser, HeldName, TrackedHasImage, RemovesOwnImage
  <1>2. ASSUME NEW c \in StoreUsers, CephStep(c) PROVE VdInv'
    BY <1>2, CephCreateInv, CephRecordInv, CephForgetInv, CephRemoveInv, CephSnapshotInv, CephDirectInv, Zenon
       DEF CephStep
  <1>3. CephReads => UNCHANGED ceph
    BY DEF CephReads, CephRollbackSnapshot, CephResizeVolume, CephExportVolume,
           CephGetVolume, CephListPools, CephListVolumes, CephListSnapshots
  <1> QED
    BY <1>1, <1>2, <1>3 DEF CephNext, ZfsNext, vdVars

\* For any number of goroutines, names and images: every volume the CephDriver
\* lists has the image made for it, whatever commands fail and interleave.
THEOREM VolumesHaveImages == VdSpec => []TrackedHasImage
  <1>1. VdInv => TrackedHasImage
    BY DEF VdInv
  <1> QED
    BY <1>1, VdInitInv, VdStepInv, PTL DEF VdSpec

\* For any number of goroutines, names and images: an rbd rm under way takes the
\* image of the volume that was deleted and no other.
THEOREM RemovalsAreOwn == VdSpec => []RemovesOwnImage
  <1>1. VdInv => RemovesOwnImage
    BY DEF VdInv
  <1> QED
    BY <1>1, VdInitInv, VdStepInv, PTL DEF VdSpec
=============================================================================
