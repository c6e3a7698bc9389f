------------------------------- MODULE VMLife -------------------------------
(***************************************************************************)
(* What the VM registry promises its callers, without threads, locks or    *)
(* caches: a handle is born once, moves along the edges of the VM state    *)
(* diagram, dies once, and never comes back.                               *)
(***************************************************************************)
EXTENDS Naturals

CONSTANT Handles    \* the handles the registry may hand out

VARIABLE life       \* life[h]: where handle h is in its life

(***************************************************************************)
(* The states a VM in the registry can be in.                              *)
(***************************************************************************)
VMState == {"created", "configured", "running", "paused", "stopped"}

Life == VMState \cup {"unborn", "dead"}

(***************************************************************************)
(* The edges of the state diagram Created -> Configured -> Running <->     *)
(* Paused, with Stopped reachable from all but Created and final.          *)
(***************************************************************************)
Edge(from, to) ==
    \/ from = "created" /\ to = "configured"
    \/ from \in {"configured", "paused"} /\ to = "running"
    \/ from = "running" /\ to = "paused"
    \/ from \in {"configured", "running", "paused"} /\ to = "stopped"

Init == life = [h \in Handles |-> "unborn"]

Born(h) ==
    /\ life[h] = "unborn"
    /\ life' = [life EXCEPT ![h] = "created"]

Moves(h, s) ==
    /\ Edge(life[h], s)
    /\ life' = [life EXCEPT ![h] = s]

Dies(h) ==
    /\ life[h] \in VMState
    /\ life' = [life EXCEPT ![h] = "dead"]

Next ==
    \E h \in Handles :
        \/ Born(h)
        \/ \E s \in VMState : Moves(h, s)
        \/ Dies(h)

Spec == Init /\ [][Next]_life
=============================================================================
