---------------------------- MODULE MCPersistence ---------------------------
(***************************************************************************)
(* The two persistent services, VMs and VM snapshots, keep their objects   *)
(* under different keys of the store: each behaviour runs one of them.     *)
(***************************************************************************)
EXTENDS Persistence, VMSnapshots, TLC

VARIABLE focus

psOwn == <<etcd, durable, memory, pcalls, born, restarts, ghosts>>
vsOwn == <<snapStore, snapObj, snapMap, nextSnap, snapCalls, snapRestarts, loaded>>
vars == <<focus, answer, psOwn, vsOwn>>

Init == focus \in {"vms", "snapshots"} /\ PsInit /\ VsInit

Next == /\ UNCHANGED focus
        /\ \/ focus = "vms" /\ PsNext /\ UNCHANGED vsOwn
           \/ focus = "snapshots" /\ VsNext /\ UNCHANGED psOwn

Spec == Init /\ [][Next]_vars

-----------------------------------------------------------------------------
(* What TLC tells states apart by.  Left out: the answer and the policy,   *)
(* which nothing reads; what is stored of a spoiled VM besides its         *)
(* identity, which nothing reads again; and, after the restart, state and  *)
(* node, which then only decide whether calls that change them again are   *)
(* accepted.                                                               *)

Slim(h, r) == IF restarts > 0 THEN <<r.vm>> ELSE <<r.vm, r.state, r.node>>

CallView(k) ==
    <<k.at, k.h, k.kind = "other", k.stored,
      IF k.at = "write" /\ k.h \notin spoiled THEN Slim(k.h, k.val) ELSE 0>>

View ==
    IF focus = "snapshots" THEN vsOwn
    ELSE <<[h \in DOMAIN etcd |-> IF h \in spoiled THEN <<etcd[h].vm>> ELSE Slim(h, etcd[h])],
           durable,
           [h \in {g \in DOMAIN obj : g \in listed \/ Touched(g)} |-> Slim(h, obj[h])],
           listed, next, IF restarts > 0 THEN {} ELSE migrating, [c \in DOMAIN pcalls |-> CallView(pcalls[c])],
           born, restarts, IF restarts > 0 THEN {} ELSE spoiled, owed>>

Interchangeable == Permutations(Callers)
=============================================================================
