---------------------------- MODULE MCBackends ------------------------------
(***************************************************************************)
(* The QEMU backend, the LXC backend, the long-lived connections, the      *)
(* block device, the event ring, the circuit breaker and the migrations of *)
(* a VM share nothing: each behaviour runs one of them and leaves the      *)
(* others at their start.                                                  *)
(***************************************************************************)
EXTENDS Qemu, Lxc, Sockets, BlockIo, EventRing, CircuitBreaker, Migration

VARIABLE focus

mcVars == <<focus, qvVars, lxVars, soVars, biVars, erVars, cbVars, vars>>

MCInit ==
    /\ focus \in {"qemu", "lxc", "sockets", "block", "ring", "breaker", "migration"}
    /\ NewQEMUBackend /\ (focus # "qemu" => emulated)
    /\ NewLXCBackend /\ (focus # "lxc" => lxcEmulated)
    /\ SoInit
    /\ BiInit /\ (focus # "block" => blkPc = "none")
    /\ ErInit /\ CbInit /\ Init

MCNext ==
    /\ UNCHANGED focus
    /\ \/ /\ focus = "qemu" /\ QmNext
          /\ UNCHANGED <<lxVars, soVars, biVars, erVars, cbVars, vars>>
       \/ /\ focus = "lxc" /\ LxNext
          /\ UNCHANGED <<qvVars, soVars, biVars, erVars, cbVars, vars>>
       \/ /\ focus = "sockets" /\ SoNext
          /\ UNCHANGED <<qvVars, lxVars, biVars, erVars, cbVars, vars>>
       \/ /\ focus = "block" /\ BiNext
          /\ UNCHANGED <<qvVars, lxVars, soVars, erVars, cbVars, vars>>
       \/ /\ focus = "ring" /\ ErNext
          /\ UNCHANGED <<qvVars, lxVars, soVars, biVars, cbVars, vars>>
       \/ /\ focus = "breaker" /\ CbNext
          /\ UNCHANGED <<qvVars, lxVars, soVars, biVars, erVars, vars>>
       \/ /\ focus = "migration" /\ Next
          /\ UNCHANGED <<qvVars, lxVars, soVars, biVars, erVars, cbVars>>

\* CbFairSpec's fairness, owed where the breaker is the one that runs.
MCCbFairness ==
    /\ WF_cbVars(Elapse)
    /\ WF_cbVars(focus = "breaker" /\ Admit(Heartbeat))
    /\ WF_cbVars(up /\ Finish(Heartbeat))

MCSpec == /\ MCInit /\ [][MCNext]_mcVars
          /\ SoFairness /\ BiFairness /\ MCCbFairness /\ Fairness
=============================================================================
