--------------------------- MODULE VMTasksProofs ----------------------------
(***************************************************************************)
(* The tasks that go on beside a VM, for any number of callers: its        *)
(* migration from node to node, and the snapshots taken of it.             *)
(***************************************************************************)
EXTENDS Migration, VMSnapshots, FiniteSetTheorems, TLAPS

-----------------------------------------------------------------------------
(* Migration.                                                              *)

\* Where a request stands before its migration has a record.
BeforeRecord == {"free", "register", "activate", "precheck", "refuse", "begin"}

\* What the record of a migration shows at each point of its run; one that
\* ends in the pre-check leaves none.
PhaseFollows(r) ==
    /\ r.pc \in {"register", "activate"} => r.live = TRUE
    /\ r.pc \in BeforeRecord => r.phase = "none"
    /\ r.pc = "transfer" => r.phase = "pre-check"
    /\ r.pc \in {"loop", "switch"} => r.phase = "transfer" /\ r.i < Len(transferSteps) + 1
    /\ r.pc = "loop" => r.i < Len(transferSteps)
    /\ r.pc \in {"update", "complete"} => r.phase = "switchover"
    /\ r.pc \in {"cleanup", "done"} => r.phase \in {"none", "failed", "completed"}

\* The phase of every migration is the one its goroutine has brought it to.
PhasesFollow == \A m \in Migs : PhaseFollows(mig[m])

\* While a cancel function is kept, the deferred delete of some migration that
\* was started by MigrateLive is still to come.
Holding == PCs \ {"free", "register", "activate", "done"}
\* A cancel function that is registered belongs to a goroutine that will clear it.
CancelHasOwner ==
    active # None => \E m \in Migs : mig[m].live /\ mig[m].pc \in Holding

\* The inductive invariant behind NodeHasMigration and NoCancelLeft.
MigInv == TypeOK /\ PhasesFollow /\ NodeHasMigration /\ CancelHasOwner

-----------------------------------------------------------------------------
\* There are four transfer steps.
LEMMA FourSteps == Len(transferSteps) = 4
  BY Zenon DEF transferSteps

\* At first no migration was requested and the VM is where it was created.
LEMMA MigInit == Init => MigInv
  BY LocalAssumption, FourSteps
     DEF Init, MigInv, TypeOK, PhasesFollow, PhaseFollows, BeforeRecord, NodeHasMigration,
         CancelHasOwner, Unused, Migration, PCs, Phases, None, Absent

\* A step of migration m that goes to pc with a fitting phase, moves nobody and
\* touches no cancel function.
LEMMA MigMoves ==
    ASSUME MigInv, NEW m \in Migs, NEW r \in Migration, mig' = [mig EXCEPT ![m] = r],
           PhaseFollows(r), r.tgt = mig[m].tgt \/ mig[m].pc = "free",
           mig[m].pc \in {"update", "complete", "cleanup", "done"} /\ mig[m].phase \in {"switchover", "completed"}
              => r.phase \in {"switchover", "completed"},
           r.live = mig[m].live \/ mig[m].pc = "free",
           mig[m].pc \in Holding /\ r.live => r.pc \in Holding \/ active' = None,
           UNCHANGED <<vmVars, cancelled, canceller, task>>,
           active' = active \/ active' = None,
           entry' \in (Migs \cup {None}) \X {"req", "run"}
    PROVE  MigInv'
  <1>1. TypeOK'
    BY DEF MigInv, TypeOK, vmVars
  <1>2. PhasesFollow'
    BY DEF MigInv, TypeOK, PhasesFollow
  <1>3. NodeHasMigration'
    <2>1. CASE vmNode = Local
      BY <2>1 DEF NodeHasMigration, vmVars
    <2>2. CASE vmNode # Local
      <3>1. PICK k \in Migs : mig[k].tgt = vmNode /\ mig[k].phase \in {"switchover", "completed"}
        BY <2>2 DEF MigInv, NodeHasMigration
      <3>2. mig[k].pc \in {"update", "complete", "cleanup", "done"}
        BY <3>1, Zenon
           DEF MigInv, TypeOK, Migration, PCs, PhasesFollow, PhaseFollows, BeforeRecord
      <3>3. mig'[k].tgt = vmNode /\ mig'[k].phase \in {"switchover", "completed"}
        BY <3>1, <3>2 DEF MigInv, TypeOK
      <3> QED
        BY <3>3 DEF NodeHasMigration, vmVars
    <2> QED
      BY <2>1, <2>2
  <1>4. CancelHasOwner'
    <2>1. CASE active' = None
      BY <2>1 DEF CancelHasOwner
    <2>2. CASE active' # None
      <3>1. PICK k \in Migs : mig[k].live /\ mig[k].pc \in Holding
        BY <2>2 DEF MigInv, CancelHasOwner
      <3>2. mig'[k].live /\ mig'[k].pc \in Holding
        BY <2>2, <3>1 DEF MigInv, TypeOK, Holding
      <3> QED
        BY <3>2 DEF CancelHasOwner
    <2> QED
      BY <2>1, <2>2
  <1> QED
    BY <1>1, <1>2, <1>3, <1>4 DEF MigInv

\* A migration's own steps, but for the two that touch what other migrations
\* share.
LEMMA RunKeeps ==
    ASSUME MigInv, NEW m \in Migs,
           \/ Register(m) \/ PreCheck(m) \/ Refuse(m) \/ Begin(m) \/ Transfer(m)
           \/ Cancelled(m) \/ TransferStep(m) \/ Switchover(m) \/ CompleteMigration(m) \/ Cleanup(m)
    PROVE  MigInv'
  <1> USE FourSteps DEF MigInv, TypeOK, PhasesFollow, PhaseFollows, BeforeRecord
  <1>0. mig[m] \in Migration
    OBVIOUS
  <1>1. CASE Register(m)
    <2>0. PICK old \in SUBSET Migs : old = CompletedNow
      BY Zenon DEF CompletedNow
    <2>1. PICK r \in Migration : r = [mig[m] EXCEPT !.pc = "activate", !.old = old]
      BY ONLY <1>0, <2>0, Zenon DEF Migration, PCs, Phases
    <2>2. mig' = [mig EXCEPT ![m] = r] /\ PhaseFollows(r)
      BY <1>1, <2>0, <2>1 DEF Register, Migration
    <2>3. r.tgt = mig[m].tgt /\ r.live = mig[m].live
      BY <2>1 DEF Migration
    <2>4. mig[m].pc = "register" /\ mig[m].pc \notin Holding
      BY <1>1, Zenon DEF Register, Holding
    <2>5. /\ UNCHANGED <<vmVars, active, cancelled, canceller, task>>
          /\ entry' \in (Migs \cup {None}) \X {"req", "run"}
      BY <1>1, Zenon DEF Register
    <2>6. mig[m].pc \notin {"update", "complete", "cleanup", "done"}
      BY <2>4
    <2> QED
      BY <2>2, <2>3, <2>4, <2>5, <2>6, MigMoves, Zenon
  <1>2. CASE PreCheck(m)
    <2>1. PICK pc \in {"cleanup", "refuse", "begin"} : mig' = [mig EXCEPT ![m].pc = pc]
      BY <1>2, Zenon DEF PreCheck, Goto
    <2>2. PICK r \in Migration : r = [mig[m] EXCEPT !.pc = pc]
      BY ONLY <1>0, Zenon DEF Migration, PCs, Phases
    <2>3. mig' = [mig EXCEPT ![m] = r] /\ PhaseFollows(r)
      BY <1>2, <2>1, <2>2 DEF PreCheck, Migration
    <2>4. r.tgt = mig[m].tgt /\ r.live = mig[m].live
      BY <2>2 DEF Migration
    <2>5. r.pc = pc /\ mig[m].phase = "none"
      BY <1>2, <2>2 DEF PreCheck, Migration
    <2> QED
      BY <1>2, <2>3, <2>4, <2>5, MigMoves, Zenon
         DEF PreCheck, Holding, PCs, None, vmVars, Migration
  <1>3. CASE Refuse(m)
    <2>1. PICK r \in Migration : r = [mig[m] EXCEPT !.pc = "cleanup", !.phase = "failed"]
      BY ONLY <1>0, Zenon DEF Migration, PCs, Phases
    <2>2. mig' = [mig EXCEPT ![m] = r] /\ PhaseFollows(r)
      BY <1>3, <2>1 DEF Refuse, Goto, Migration
    <2>3. r.tgt = mig[m].tgt /\ r.live = mig[m].live
      BY <2>1 DEF Migration
    <2>4. r.pc = "cleanup" /\ r.phase = "failed" /\ r.pc \in Holding
      BY <2>1 DEF Migration, Holding, PCs
    <2>5. /\ UNCHANGED <<vmVars, active, cancelled, canceller, task>>
          /\ entry' \in (Migs \cup {None}) \X {"req", "run"}
      BY <1>3, Zenon DEF Refuse
    <2>6. mig[m].pc \notin {"update", "complete", "cleanup", "done"} \/ r.phase \in {"switchover", "completed"}
      BY <1>3, <2>4, Zenon DEF Refuse
    <2> QED
      BY <2>2, <2>3, <2>4, <2>5, <2>6, MigMoves, Zenon
  <1>4. CASE Begin(m)
    <2>1. PICK r \in Migration : r = [mig[m] EXCEPT !.pc = "transfer", !.phase = "pre-check"]
      BY ONLY <1>0, Zenon DEF Migration, PCs, Phases
    <2>2. mig' = [mig EXCEPT ![m] = r] /\ PhaseFollows(r)
      BY <1>4, <2>1 DEF Begin, Goto, Migration
    <2>3. r.tgt = mig[m].tgt /\ r.live = mig[m].live
      BY <2>1 DEF Migration
    <2>4. r.pc = "transfer" /\ r.phase = "pre-check" /\ r.pc \in Holding
      BY <2>1 DEF Migration, Holding, PCs
    <2>5. /\ UNCHANGED <<vmVars, active, cancelled, canceller, task>>
          /\ entry' \in (Migs \cup {None}) \X {"req", "run"}
      BY <1>4, Zenon DEF Begin
    <2>6. mig[m].pc \notin {"update", "complete", "cleanup", "done"} \/ r.phase \in {"switchover", "completed"}
      BY <1>4, <2>4, Zenon DEF Begin
    <2> QED
      BY <2>2, <2>3, <2>4, <2>5, <2>6, MigMoves, Zenon
  <1>5. CASE Transfer(m)
    <2>1. PICK r \in Migration : r = [mig[m] EXCEPT !.pc = "loop", !.phase = "transfer"]
      BY ONLY <1>0, Zenon DEF Migration, PCs, Phases
    <2>2. mig' = [mig EXCEPT ![m] = r] /\ PhaseFollows(r)
      BY <1>5, <2>1 DEF Transfer, Goto, Migration
    <2>3. r.tgt = mig[m].tgt /\ r.live = mig[m].live
      BY <2>1 DEF Migration
    <2>4. r.pc = "loop" /\ r.phase = "transfer" /\ r.pc \in Holding
      BY <2>1 DEF Migration, Holding, PCs
    <2>5. /\ UNCHANGED <<vmVars, active, cancelled, canceller, task>>
          /\ entry' \in (Migs \cup {None}) \X {"req", "run"}
      BY <1>5, Zenon DEF Transfer
    <2>6. mig[m].pc \notin {"update", "complete", "cleanup", "done"} \/ r.phase \in {"switchover", "completed"}
      BY <1>5, <2>4, Zenon DEF Transfer
    <2> QED
      BY <2>2, <2>3, <2>4, <2>5, <2>6, MigMoves, Zenon
  <1>6. CASE Cancelled(m)
    <2>1. PICK r \in Migration : r = [mig[m] EXCEPT !.pc = "cleanup", !.phase = "failed"]
      BY ONLY <1>0, Zenon DEF Migration, PCs, Phases
    <2>2. mig' = [mig EXCEPT ![m] = r] /\ PhaseFollows(r)
      BY <1>6, <2>1 DEF Cancelled, Goto, Migration
    <2>3. r.tgt = mig[m].tgt /\ r.live = mig[m].live
      BY <2>1 DEF Migration
    <2>4. r.pc = "cleanup" /\ r.phase = "failed" /\ r.pc \in Holding
      BY <2>1 DEF Migration, Holding, PCs
    <2>5. /\ UNCHANGED <<vmVars, active, cancelled, canceller, task>>
          /\ entry' \in (Migs \cup {None}) \X {"req", "run"}
      BY <1>6, Zenon DEF Cancelled
    <2>6. mig[m].pc \notin {"update", "complete", "cleanup", "done"} \/ r.phase \in {"switchover", "completed"}
      BY <1>6, <2>4, Zenon DEF Cancelled
    <2> QED
      BY <2>2, <2>3, <2>4, <2>5, <2>6, MigMoves, Zenon
  <1>7. CASE TransferStep(m)
    <2>1. mig[m].i \in 0 .. 3 /\ mig[m].phase = "transfer"
      BY <1>7 DEF TransferStep, Migration
    <2>2. PICK j \in 1 .. 4 : j = mig[m].i + 1
      BY <2>1
    <2>3. PICK pc \in {"switch", "loop"} : pc = IF j = 4 THEN "switch" ELSE "loop"
      OBVIOUS
    <2> DEFINE n == [mig[m] EXCEPT !.i = j, !.pc = pc]
    <2>4. PICK r \in Migration : r = n
      <3>1. mig[m] \in Migration /\ j \in 0 .. Len(transferSteps) /\ pc \in PCs
        BY DEF PCs
      <3>2. n \in Migration
        BY ONLY <3>1, Zenon DEF Migration
      <3> QED
        BY <3>2
    <2>5. mig' = [mig EXCEPT ![m] = r]
      BY <1>7, <2>2, <2>3, <2>4, Zenon DEF TransferStep, Migration
    <2>6. r.tgt = mig[m].tgt /\ r.live = mig[m].live /\ r.pc = pc /\ r.i = j /\ r.phase = mig[m].phase
      BY <2>4 DEF Migration
    <2>7. PhaseFollows(r)
      BY <2>1, <2>3, <2>6
    <2>8. r.pc \in Holding
      BY <2>3, <2>6, Zenon DEF Holding, PCs
    <2>9. UNCHANGED <<vmVars, entry, active, cancelled, canceller, task>>
      BY <1>7 DEF TransferStep
    <2> QED
      BY <2>1, <2>5, <2>6, <2>7, <2>8, <2>9, MigMoves, Zenon
  <1>8. CASE Switchover(m)
    <2>1. PICK r \in Migration : r = [mig[m] EXCEPT !.pc = "update", !.phase = "switchover"]
      BY ONLY <1>0, Zenon DEF Migration, PCs, Phases
    <2>2. mig' = [mig EXCEPT ![m] = r] /\ PhaseFollows(r)
      BY <1>8, <2>1 DEF Switchover, Goto, Migration
    <2>3. r.tgt = mig[m].tgt /\ r.live = mig[m].live
      BY <2>1 DEF Migration
    <2>4. r.pc = "update" /\ r.phase = "switchover" /\ r.pc \in Holding
      BY <2>1 DEF Migration, Holding, PCs
    <2>5. /\ UNCHANGED <<vmVars, active, cancelled, canceller, task>>
          /\ entry' \in (Migs \cup {None}) \X {"req", "run"}
      BY <1>8, Zenon DEF Switchover
    <2>6. mig[m].pc \notin {"update", "complete", "cleanup", "done"} \/ r.phase \in {"switchover", "completed"}
      BY <1>8, <2>4, Zenon DEF Switchover
    <2> QED
      BY <2>2, <2>3, <2>4, <2>5, <2>6, MigMoves, Zenon
  <1>9. CASE CompleteMigration(m)
    <2>1. PICK r \in Migration : r = [mig[m] EXCEPT !.pc = "cleanup", !.phase = "completed"]
      BY ONLY <1>0, Zenon DEF Migration, PCs, Phases
    <2>2. mig' = [mig EXCEPT ![m] = r] /\ PhaseFollows(r)
      BY <1>9, <2>1 DEF CompleteMigration, Goto, Migration
    <2>3. r.tgt = mig[m].tgt /\ r.live = mig[m].live
      BY <2>1 DEF Migration
    <2>4. r.pc = "cleanup" /\ r.phase = "completed" /\ r.pc \in Holding
      BY <2>1 DEF Migration, Holding, PCs
    <2>5. /\ UNCHANGED <<vmVars, active, cancelled, canceller, task>>
          /\ entry' \in (Migs \cup {None}) \X {"req", "run"}
      BY <1>9, Zenon DEF CompleteMigration
    <2>6. mig[m].pc \notin {"update", "complete", "cleanup", "done"} \/ r.phase \in {"switchover", "completed"}
      BY <1>9, <2>4, Zenon DEF CompleteMigration
    <2> QED
      BY <2>2, <2>3, <2>4, <2>5, <2>6, MigMoves, Zenon
  <1>10. CASE Cleanup(m)
    <2>1. PICK r \in Migration : r = [mig[m] EXCEPT !.pc = "done"]
      BY ONLY <1>0, Zenon DEF Migration, PCs, Phases
    <2>2. mig' = [mig EXCEPT ![m] = r] /\ PhaseFollows(r)
      BY <1>10, <2>1 DEF Cleanup, Goto, Migration
    <2>3. r.tgt = mig[m].tgt /\ r.live = mig[m].live
      BY <2>1 DEF Migration
    <2> QED
      BY <1>10, <2>1, <2>2, <2>3, MigMoves, ZenonT(60)
         DEF Cleanup, Holding, PCs, None, vmVars, Migration
  <1> QED
    BY <1>1, <1>2, <1>3, <1>4, <1>5, <1>6, <1>7, <1>8, <1>9, <1>10, Zenon

\* MigrateLive stores the cancel function of a migration that is about to run.
LEMMA ActivateKeeps ==
    ASSUME MigInv, NEW m \in Migs, Activate(m)
    PROVE  MigInv'
  <1> USE DEF MigInv, TypeOK
  <1>1. mig[m] \in Migration /\ mig[m].pc = "activate" /\ mig[m].phase = "none" /\ mig[m].live = TRUE
    BY Zenon DEF Activate, PhasesFollow, PhaseFollows, BeforeRecord
  <1>2. PICK r \in Migration : r = [mig[m] EXCEPT !.pc = "precheck"]
    BY <1>1, Zenon DEF Migration, PCs
  <1>3. /\ r.tgt = mig[m].tgt /\ r.live = mig[m].live /\ r.pc = "precheck"
        /\ r.phase = "none" /\ mig' = [mig EXCEPT ![m] = r]
    BY <1>1, <1>2 DEF Activate, Goto, Migration
  <1>4. TypeOK'
    BY <1>3 DEF Activate, vmVars
  <1>5. PhasesFollow'
    BY <1>3, Zenon DEF PhasesFollow, PhaseFollows, BeforeRecord
  <1>6. NodeHasMigration'
    BY <1>1, <1>3 DEF NodeHasMigration, Activate, vmVars
  <1>7. CancelHasOwner'
    BY <1>1, <1>3 DEF CancelHasOwner, Holding, PCs
  <1> QED
    BY <1>4, <1>5, <1>6, <1>7

\* updateVMNode moves the VM only to the target of a migration that is past
\* its switchover.
LEMMA UpdateKeeps ==
    ASSUME MigInv, NEW m \in Migs, updateVMNode(m)
    PROVE  MigInv'
  <1> USE DEF MigInv, TypeOK
  <1>1. mig[m] \in Migration /\ mig[m].pc = "update" /\ mig[m].phase = "switchover"
    BY DEF updateVMNode, PhasesFollow, PhaseFollows
  <1>2. PICK r \in Migration : r = [mig[m] EXCEPT !.pc = "complete"]
    BY <1>1, Zenon DEF Migration, PCs
  <1>3. /\ r.tgt = mig[m].tgt /\ r.live = mig[m].live /\ r.pc = "complete"
        /\ r.phase = "switchover" /\ mig' = [mig EXCEPT ![m] = r]
    BY <1>1, <1>2 DEF updateVMNode, Goto, Migration
  <1>4. vmNode' = vmNode \/ vmNode' = mig[m].tgt
    BY DEF updateVMNode
  <1>5. TypeOK'
    BY <1>1, <1>3, <1>4, Zenon DEF updateVMNode, Migration
  <1>6. PhasesFollow'
    BY <1>3 DEF PhasesFollow, PhaseFollows, BeforeRecord
  <1>7. NodeHasMigration'
    BY <1>1, <1>3, <1>4 DEF NodeHasMigration
  <1>8. CancelHasOwner'
    BY <1>1, <1>3 DEF CancelHasOwner, Holding, PCs, updateVMNode
  <1> QED
    BY <1>5, <1>6, <1>7, <1>8

\* A request that is accepted takes a record nobody has used.
LEMMA StartKeeps ==
    ASSUME MigInv, NEW m \in Migs, NEW tgt \in Nodes, NEW live \in BOOLEAN,
           NEW pc \in {"register", "precheck"}, pc = "register" => live = TRUE,
           Start(m, tgt, live, pc)
    PROVE  MigInv'
  <1>1. PICK r \in Migration : r = [Unused EXCEPT !.live = live, !.tgt = tgt, !.pc = pc]
    <2>1. live \in BOOLEAN /\ tgt \in Nodes /\ pc \in PCs
      BY DEF PCs
    <2>2. Unused \in Migration
      BY LocalAssumption, FourSteps DEF Unused, Migration, PCs, Phases
    <2>3. [Unused EXCEPT !.live = live, !.tgt = tgt, !.pc = pc] \in Migration
      BY ONLY <2>1, <2>2, Zenon DEF Migration
    <2> QED
      BY ONLY <2>3
  <1>2. r.live = live /\ r.pc = pc /\ r.phase = "none" /\ mig[m].pc = "free"
    BY <1>1 DEF Start, Unused
  <1>3. PhaseFollows(r)
    BY <1>2 DEF PhaseFollows, BeforeRecord
  <1>4. mig[m].phase = "none"
    BY <1>2, Zenon DEF MigInv, PhasesFollow, PhaseFollows, BeforeRecord
  <1>5. /\ mig' = [mig EXCEPT ![m] = r]
        /\ UNCHANGED <<vmVars, entry, active, cancelled, canceller, task>>
    BY <1>1 DEF Start
  <1> QED
    BY <1>2, <1>3, <1>4, <1>5, MigMoves, Zenon DEF MigInv, TypeOK, Holding

\* The lifecycle, the cancellations and the polling tasks touch no migration.
Bystander ==
    \/ \E s \in {"running", "paused", "stopped"} : VMAction(s)
    \/ VMDestroyed \/ CancelLookup \/ CancelCall \/ handleDeleteTask
    \/ \E m \in Migs : Follow(m)

\* The steps of the other requests and backends leave the migrations of the VM alone.
LEMMA BystanderTouches ==
    ASSUME TypeOK, Bystander
    PROVE  TypeOK' /\ UNCHANGED <<vmNode, mig, entry, active>>
  <1> USE DEF TypeOK, vmVars
  <1>1. ASSUME NEW s \in {"running", "paused", "stopped"}, VMAction(s)
        PROVE  TypeOK' /\ UNCHANGED <<vmNode, mig, entry, active>>
    BY <1>1 DEF VMAction
  <1>2. CASE VMDestroyed \/ CancelLookup \/ CancelCall
    BY <1>2, Zenon DEF VMDestroyed, CancelLookup, CancelCall, None
  <1>3. ASSUME NEW m \in Migs, Follow(m) \/ DeleteTask(m)
        PROVE  TypeOK' /\ UNCHANGED <<vmNode, mig, entry, active>>
    BY <1>3 DEF Follow, CreateTask, TaskRunning, TaskPoll, TaskDeadline, DeleteTask
  <1> QED
    BY <1>1, <1>2, <1>3, Zenon DEF Bystander, handleDeleteTask

\* Every step is one of these.
LEMMA MigSteps ==
    ASSUME Next
    PROVE  \/ Bystander
           \/ \E m \in Migs, tgt \in Nodes : \/ Start(m, tgt, TRUE, "register")
                                             \/ Start(m, tgt, FALSE, "precheck")
           \/ \E m \in Migs : Run(m)
  BY Zenon DEF Next, Bystander, MigrateLive, MigrateVM

\* No step disturbs the invariant.
LEMMA MigNext == ASSUME MigInv, [Next]_vars PROVE MigInv'
  <1>1. CASE Bystander
    <2>1. TypeOK' /\ UNCHANGED <<vmNode, mig, entry, active>>
      BY <1>1, BystanderTouches DEF MigInv
    <2> QED
      BY <2>1 DEF MigInv, PhasesFollow, NodeHasMigration, CancelHasOwner
  <1>2. ASSUME NEW m \in Migs, NEW tgt \in Nodes,
               Start(m, tgt, TRUE, "register") \/ Start(m, tgt, FALSE, "precheck")
        PROVE  MigInv'
    BY <1>2, StartKeeps, Zenon
  <1>3. ASSUME NEW m \in Migs, Run(m)
        PROVE  MigInv'
    BY <1>3, RunKeeps, ActivateKeeps, UpdateKeeps DEF Run
  <1>4. CASE UNCHANGED vars
    BY <1>4, Zenon
       DEF vars, MigInv, TypeOK, PhasesFollow, NodeHasMigration, CancelHasOwner
  <1> QED
    BY <1>1, <1>2, <1>3, <1>4, MigSteps, Zenon

\* So it holds in every state.
LEMMA MigAlways == Spec => []MigInv
  BY MigInit, MigNext, PTL DEF Spec

\* However many migrations of a VM run beside each other, are cancelled and
\* fail, updateVMNode has only ever put it where a migration that got past its
\* switchover was to take it.
THEOREM VMIsWhereItWasMoved == Spec => []NodeHasMigration
  <1>1. MigInv => NodeHasMigration
    BY DEF MigInv
  <1> QED
    BY <1>1, MigAlways, PTL

\* MigrateLive's deferred delete removes whichever cancel function is there,
\* so it may remove another migration's; still none is left when all are over.
THEOREM CancelsAreCleared == Spec => []NoCancelLeft
  <1>1. MigInv => NoCancelLeft
    BY DEF MigInv, CancelHasOwner, NoCancelLeft, Holding
  <1> QED
    BY <1>1, MigAlways, PTL

-----------------------------------------------------------------------------
\* A cancelled migration that has not reached its switchover cannot complete.
Doomed(m) ==
    /\ m \in cancelled
    /\ mig[m].phase \notin {"switchover", "completed"}
    /\ mig[m].pc \in BeforeSwitchover \cup {"cleanup", "done"}

\* A migration whose cancellation came early stays on its way out, whatever is done next.
LEMMA DoomedStays ==
    ASSUME NEW m \in Migs, MigInv, Doomed(m), [Next]_vars
    PROVE  Doomed(m)'
  <1> USE DEF Doomed, BeforeSwitchover
  <1>1. CASE Bystander
    <2>1. mig' = mig
      BY <1>1, BystanderTouches DEF MigInv
    <2>2. cancelled \subseteq cancelled'
      BY <1>1, Zenon
         DEF Bystander, VMAction, VMDestroyed, CancelLookup, CancelCall, handleDeleteTask,
                  DeleteTask, Follow, CreateTask, TaskRunning, TaskPoll,
         TaskDeadline
    <2> QED
      BY <2>1, <2>2
  <1>2. ASSUME NEW k \in Migs, NEW tgt \in Nodes,
               Start(k, tgt, TRUE, "register") \/ Start(k, tgt, FALSE, "precheck")
        PROVE  Doomed(m)'
    <2>1. k # m /\ cancelled' = cancelled
      BY <1>2 DEF Start
    <2>2. mig'[m] = mig[m]
      BY <1>2, <2>1 DEF Start, MigInv, TypeOK
    <2> QED
      BY <2>1, <2>2
  <1>3. ASSUME NEW k \in Migs, Run(k), k # m
        PROVE  Doomed(m)'
    <2>1. cancelled' = cancelled /\ mig'[m] = mig[m]
      BY <1>3, Zenon
         DEF MigInv, TypeOK, Run, Register, Activate, PreCheck, Refuse, Begin, Transfer,
                  Cancelled, TransferStep, Switchover, updateVMNode, CompleteMigration,
         Cleanup, Goto
    <2> QED
      BY <2>1
  <1>4. CASE Run(m)
    <2>1. /\ cancelled' = cancelled
          /\ PreCheck(m) \/ Refuse(m) \/ Begin(m) \/ Transfer(m) \/ Cancelled(m) \/ Cleanup(m)
      BY <1>4, Zenon DEF Run, Register, Activate, PreCheck, Refuse, Begin, Transfer,
                  Cancelled, TransferStep, Switchover, updateVMNode, CompleteMigration,
         Cleanup
    <2>2. CASE PreCheck(m) \/ Cleanup(m)
      BY <2>1, <2>2 DEF MigInv, TypeOK, Migration, PreCheck, Cleanup, Goto
    <2>3. CASE Refuse(m) \/ Begin(m) \/ Transfer(m) \/ Cancelled(m)
      BY <2>1, <2>3 DEF MigInv, TypeOK, Migration, Refuse, Begin, Transfer, Cancelled
    <2> QED
      BY <2>1, <2>2, <2>3, Zenon
  <1>5. CASE UNCHANGED vars
    BY <1>5 DEF vars
  <1> QED
    BY <1>1, <1>2, <1>3, <1>4, <1>5, MigSteps, Zenon

\* One migration whose context is done before the switchover never completes.
LEMMA OneEarlyCancelHolds ==
    ASSUME NEW m \in Migs
    PROVE  Spec => [](m \in cancelled /\ mig[m].pc \in BeforeSwitchover
                         => [](mig[m].phase # "completed"))
  <1>1. MigInv /\ m \in cancelled /\ mig[m].pc \in BeforeSwitchover => Doomed(m)
    BY Zenon
       DEF MigInv, PhasesFollow, PhaseFollows, BeforeRecord, BeforeSwitchover, Doomed
  <1>2. MigInv /\ Doomed(m) /\ [Next]_vars => Doomed(m)'
    BY DoomedStays
  <1>3. Doomed(m) => mig[m].phase # "completed"
    BY DEF Doomed
  <1> QED
    BY <1>1, <1>2, <1>3, MigAlways, PTL DEF Spec

\* CancelMigration before the switchover is final for every migration, whatever
\* else is under way for the VM: select on ctx.Done() is reached again before
\* the node is switched.
THEOREM CancelIsFinal == Spec => EarlyCancelHolds
  BY OneEarlyCancelHolds DEF EarlyCancelHolds

-----------------------------------------------------------------------------
\* The tasks.  A task that polls the status of the VM may read the record of
\* another migration of that VM, but never that of one that had completed when
\* its own was registered: Register points the map away from such a record, and
\* only the goroutine of a migration that has not completed points it back.
TaskHasMigration ==
    \A m \in Migs : /\ mig[m].pc = "free" => mig[m].live = FALSE
                    /\ mig[m].pc \in {"free", "register"} => task[m] = "none"

\* What a migration has noted as completed is, and the status map does not show it.
OldIsPast ==
    \A m \in Migs : /\ mig[m].old \subseteq CompletedNow
                    /\ entry[2] = "run" => entry[1] \notin mig[m].old

\* The inductive invariant behind NoStaleSuccess.
TaskInv == MigInv /\ TaskHasMigration /\ OldIsPast /\ NoStaleSuccess

\* A migration that has completed stays completed, no step takes a record back to
\* free or to register, and only Register notes what has completed.
LEMMA CompletedStays ==
    ASSUME MigInv, [Next]_vars, NEW m \in Migs
    PROVE  /\ mig[m].phase = "completed" => mig'[m].phase = "completed"
           /\ mig'[m].pc = "free" => mig'[m] = mig[m]
           /\ mig'[m].pc = "register" => mig'[m] = mig[m] \/ mig[m].pc = "free"
           /\ \/ mig'[m].old = mig[m].old
              \/ mig[m].pc = "free" /\ mig'[m].old = {}
              \/ mig[m].pc = "register" /\ mig'[m].old = CompletedNow
  <1> USE DEF MigInv
  <1>1. CASE Bystander
    BY <1>1, BystanderTouches
  <1>2. ASSUME NEW k \in Migs, NEW tgt \in Nodes,
               Start(k, tgt, TRUE, "register") \/ Start(k, tgt, FALSE, "precheck")
        PROVE  /\ mig[m].phase = "completed" => mig'[m].phase = "completed"
               /\ mig'[m].pc = "free" => mig'[m] = mig[m]
               /\ mig'[m] = mig[m] \/ (mig[m].pc = "free" /\ mig'[m].old = {})
    <2>1. CASE k # m
      <3>1. mig'[m] = mig[m]
        <4>1. PICK r : mig' = [mig EXCEPT ![k] = r]
          BY <1>2, Zenon DEF Start
        <4> QED
          BY <2>1, <4>1, Zenon DEF TypeOK
      <3> QED
        BY <3>1
    <2>2. CASE k = m
      <3>1. mig[m].phase = "none"
        BY <1>2, <2>2 DEF Start, PhasesFollow, PhaseFollows, BeforeRecord
      <3>2. mig'[m].pc # "free" /\ mig[m].pc = "free"
        BY <1>2, <2>2, Zenon DEF Start, TypeOK, Unused
      <3>3. mig'[m].old = {}
        BY <1>2, <2>2 DEF Start, TypeOK, Unused
      <3> QED
        BY <3>1, <3>2, <3>3
    <2> QED
      BY <2>1, <2>2
  <1>3. ASSUME NEW k \in Migs, Run(k), k # m
        PROVE  mig'[m] = mig[m]
    BY <1>3, Zenon
       DEF TypeOK, Run, Register, Activate, PreCheck, Refuse, Begin, Transfer,
                Cancelled, TransferStep, Switchover, updateVMNode, CompleteMigration,
       Cleanup, Goto
  <1>4. CASE Run(m)
    <2>1. mig'[m].pc \notin {"free", "register"}
      BY <1>4 DEF TypeOK, Migration, Run, Register, Activate, PreCheck, Refuse, Begin, Transfer,
                  Cancelled, TransferStep, Switchover, updateVMNode, CompleteMigration, Cleanup, Goto
    <2>4. mig'[m].old = mig[m].old \/ Register(m)
      BY <1>4 DEF TypeOK, Migration, Run, Activate, PreCheck, Refuse, Begin, Transfer,
                  Cancelled, TransferStep, Switchover, updateVMNode, CompleteMigration, Cleanup, Goto
    <2>5. \/ mig'[m].old = mig[m].old
          \/ mig[m].pc = "register" /\ mig'[m].old = CompletedNow
      <3>1. Register(m) => mig[m].pc = "register" /\ mig'[m].old = CompletedNow
        BY DEF TypeOK, Migration, Register
      <3> QED
        BY <2>4, <3>1, Zenon
    <2>2. ASSUME mig[m].phase = "completed" PROVE mig'[m].phase = "completed"
      <3>1. Cleanup(m)
        BY <1>4, <2>2, Zenon
           DEF PhasesFollow, PhaseFollows, BeforeRecord, Run, Register, Activate,
               PreCheck, Refuse, Begin, Transfer, Cancelled, TransferStep,
           Switchover,
               updateVMNode, CompleteMigration
      <3> QED
        BY <2>2, <3>1 DEF Cleanup, Goto, TypeOK, Migration
    <2> QED
      BY <2>1, <2>2, <2>5, Zenon
  <1>5. CASE UNCHANGED vars
    BY <1>5 DEF vars
  <1> QED
    BY <1>1, <1>2, <1>3, <1>4, <1>5, MigSteps, Zenon

\* The note of migration m, when it is at register, is changed by Register alone.
LEMMA OnlyRegister ==
    ASSUME MigInv, [Next]_vars, NEW m \in Migs, mig[m].pc = "register", mig'[m].old # mig[m].old
    PROVE  Register(m)
  <1> USE DEF MigInv, TypeOK
  <1>1. mig' # mig
    OBVIOUS
  <1>2. CASE Bystander
    BY <1>1, <1>2, BystanderTouches
  <1>3. ASSUME NEW k \in Migs, NEW tgt \in Nodes,
               Start(k, tgt, TRUE, "register") \/ Start(k, tgt, FALSE, "precheck")
        PROVE  FALSE
    BY <1>3 DEF Start
  <1>4. ASSUME NEW k \in Migs, Run(k), k # m
        PROVE  FALSE
    BY <1>4, Zenon
       DEF Run, Register, Activate, PreCheck, Refuse, Begin, Transfer,
           Cancelled, TransferStep, Switchover, updateVMNode, CompleteMigration, Cleanup, Goto
  <1>5. CASE Run(m)
    BY <1>5, Zenon DEF Run, Activate, PreCheck, Refuse, Begin, Transfer,
           Cancelled, TransferStep, Switchover, updateVMNode, CompleteMigration, Cleanup
  <1>6. CASE UNCHANGED vars
    BY <1>1, <1>6 DEF vars
  <1> QED
    BY <1>2, <1>3, <1>4, <1>5, <1>6, MigSteps, Zenon

\* What a step may make of the task of migration m.
LEMMA TaskSteps ==
    ASSUME MigInv, [Next]_vars, NEW m \in Migs, task'[m] # task[m]
    PROVE  /\ mig' = mig
           /\ task[m] = "none" => mig[m].live /\ mig[m].pc # "register"
           /\ task'[m] = "completed" => entry[2] = "run" /\ entry[1] \in CompletedNow
  <1> USE DEF MigInv, TypeOK
  <1>1. ~ UNCHANGED task
    OBVIOUS
  <1>2. PICK k \in Migs : Follow(k) \/ DeleteTask(k)
    BY <1>1, Zenon
       DEF vars, Next, VMAction, VMDestroyed, CancelLookup, CancelCall, handleDeleteTask,
                MigrateLive, MigrateVM, Start, Run, Register, Activate, PreCheck,
       Refuse, Begin,
                Transfer, Cancelled, TransferStep, Switchover, updateVMNode,
       CompleteMigration, Cleanup
  <1>3. k = m /\ mig' = mig
    BY <1>2, Zenon
       DEF Follow, CreateTask, TaskRunning, TaskPoll, TaskDeadline, DeleteTask
  <1>4. task[m] = "none" => mig[m].live /\ mig[m].pc # "register"
    BY <1>2, <1>3, Zenon
       DEF Follow, CreateTask, TaskRunning, TaskPoll, TaskDeadline, DeleteTask
  <1>5. ASSUME task'[m] = "completed"
        PROVE  entry[2] = "run" /\ entry[1] \in CompletedNow
    <2>1. TaskPoll(m) /\ GetMigrationStatus = "completed"
      BY <1>2, <1>3, <1>5, Zenon
         DEF Follow, CreateTask, TaskRunning, TaskPoll, TaskDeadline, DeleteTask
    <2>2. entry[1] \in Migs /\ entry[2] = "run" /\ mig[entry[1]].phase = "completed"
      BY <2>1 DEF GetMigrationStatus
    <2> QED
      BY <2>2, Zenon DEF CompletedNow
  <1> QED
    BY <1>3, <1>4, <1>5

\* Whoever points the status map at its own record has not completed.
LEMMA EntrySteps ==
    ASSUME MigInv, [Next]_vars, entry' # entry
    PROVE  entry'[2] = "run" => entry'[1] \in Migs /\ mig[entry'[1]].phase = "none"
  <1> USE DEF MigInv, TypeOK
  <1>1. PICK k \in Migs : Register(k) \/ Refuse(k) \/ Begin(k)
    BY Zenon
       DEF vars, Next, VMAction, VMDestroyed, CancelLookup, CancelCall, handleDeleteTask, DeleteTask,
           Follow, CreateTask, TaskRunning, TaskPoll, TaskDeadline,
           MigrateLive, MigrateVM, Start, Run, Activate, PreCheck, Transfer, Cancelled,
           TransferStep, Switchover, updateVMNode, CompleteMigration, Cleanup
  <1>2. CASE Register(k)
    BY <1>2 DEF Register
  <1>3. CASE Refuse(k) \/ Begin(k)
    <2>1. mig[k].phase = "none"
      BY <1>3, Zenon DEF Refuse, Begin, PhasesFollow, PhaseFollows, BeforeRecord
    <2>2. entry'[1] = k
      BY <1>3 DEF Refuse, Begin
    <2> QED
      BY <2>1, <2>2
  <1> QED
    BY <1>1, <1>2, <1>3

\* No step disturbs it.
LEMMA TaskNext == ASSUME TaskInv, [Next]_vars PROVE TaskInv'
  <1> USE DEF TaskInv
  <1>1. MigInv'
    BY MigNext
  <1>2. TaskHasMigration'
    <2> SUFFICES ASSUME NEW m \in Migs
                 PROVE  /\ mig'[m].pc = "free" => mig'[m].live = FALSE
                        /\ mig'[m].pc \in {"free", "register"} => task'[m] = "none"
      BY Zenon DEF TaskHasMigration
    <2>1. mig'[m].pc = "free" => mig'[m].live = FALSE
      BY CompletedStays, Zenon DEF TaskHasMigration
    <2>2. mig'[m].pc \in {"free", "register"} => mig[m].pc \in {"free", "register"}
      BY CompletedStays, Zenon
    <2>3. mig'[m].pc \in {"free", "register"} => task'[m] = task[m]
      BY <2>2, TaskSteps, Zenon DEF TaskHasMigration
    <2> QED
      BY <2>1, <2>2, <2>3, Zenon DEF TaskHasMigration
  <1>3. CompletedNow \subseteq CompletedNow'
    BY CompletedStays, Zenon DEF CompletedNow
  <1>4. OldIsPast'
    <2> SUFFICES ASSUME NEW m \in Migs
                 PROVE  /\ mig'[m].old \subseteq CompletedNow'
                        /\ entry'[2] = "run" => entry'[1] \notin mig'[m].old
      BY Zenon DEF OldIsPast
    <2>1. mig'[m].old \subseteq CompletedNow
      BY CompletedStays, Zenon DEF OldIsPast
    <2>2. CASE entry' # entry
      <3>1. entry'[2] = "run" => entry'[1] \notin CompletedNow
        BY <2>2, EntrySteps DEF CompletedNow
      <3> QED
        BY <1>3, <2>1, <3>1, Zenon
    <2>3. CASE entry' = entry
      <3>1. CASE mig'[m].old = mig[m].old \/ mig'[m].old = {}
        BY <1>3, <2>1, <2>3, <3>1, Zenon DEF OldIsPast
      <3>2. CASE mig[m].pc = "register" /\ mig'[m].old # mig[m].old
        <4>1. Register(m)
          BY <3>2, OnlyRegister, Zenon
        <4>2. entry'[2] = "req"
          BY <4>1 DEF Register
        <4> QED
          BY <1>3, <2>1, <4>2, Zenon
      <3> QED
        BY <3>1, <3>2, CompletedStays, Zenon
    <2> QED
      BY <2>2, <2>3, Zenon
  <1>5. NoStaleSuccess'
    <2> SUFFICES ASSUME NEW m \in Migs, task'[m] = "completed"
                 PROVE  \E k \in CompletedNow' : k \notin mig'[m].old
      BY Zenon DEF NoStaleSuccess
    <2>1. CASE task'[m] # task[m]
      <3>1. mig' = mig /\ entry[1] \in CompletedNow /\ entry[1] \notin mig[m].old
        BY <2>1, TaskSteps, Zenon DEF OldIsPast
      <3> QED
        BY <1>3, <3>1, Zenon
    <2>2. CASE task'[m] = task[m]
      <3>1. PICK k \in CompletedNow : k \notin mig[m].old
        BY <2>2, Zenon DEF NoStaleSuccess
      <3>2. mig[m].pc \notin {"free", "register"}
        BY <2>2 DEF TaskHasMigration
      <3>3. mig'[m].old = mig[m].old
        BY <3>2, CompletedStays, Zenon
      <3> QED
        BY <1>3, <3>1, <3>3, Zenon
    <2> QED
      BY <2>1, <2>2, Zenon
  <1> QED
    BY <1>1, <1>2, <1>4, <1>5, Zenon

\* With any number of migrations, polls and deletions: a task that says completed
\* says so of a migration that completed after the task's own was registered, so
\* what an earlier migration left in the status map never counts as a success of
\* a later one.
THEOREM TaskReadsNothingStale == Spec => []NoStaleSuccess
  <1>1. Init => TaskInv
    <2>1. Init => TaskHasMigration /\ OldIsPast /\ NoStaleSuccess
      BY DEF Init, TaskHasMigration, OldIsPast, NoStaleSuccess, Unused
    <2> QED
      BY <2>1, MigInit, Zenon DEF TaskInv
  <1>2. TaskInv => NoStaleSuccess
    BY Zenon DEF TaskInv
  <1> QED
    BY <1>1, <1>2, TaskNext, PTL DEF Spec

-----------------------------------------------------------------------------
(* VMSnapshots.                                                            *)

\* What Del takes out of a map, and what it leaves alone.
LEMMA DelIs ==
    ASSUME NEW f, NEW k
    PROVE  /\ DOMAIN Del(f, k) = DOMAIN f \ {k}
           /\ \A x \in DOMAIN f \ {k} : Del(f, k)[x] = f[x]
  BY DEF Del, Restrict

\* What is kept of a call.
IsCall(c) ==
    \E at, id, obj, code, stores, val :
        c = [at |-> at, id |-> id, obj |-> obj, code |-> code, stores |-> stores, val |-> val]

\* A call that has taken an id and not yet listed its snapshot.
Entering(u) == u \in DOMAIN snapCalls /\ snapCalls[u].at = "enter"

\* The inductive invariant behind SnapshotKept: an id that was given out since the
\* start is below the counter, and either one call has yet to use it or it is
\* used up.
SnapInv ==
    /\ nextSnap \in Nat /\ snapRestarts \in Nat
    /\ \A u \in DOMAIN snapCalls : IsCall(snapCalls[u])
    /\ \A u : Entering(u) => snapCalls[u].id \in Nat /\ snapCalls[u].id < nextSnap
    /\ \A u, v : Entering(u) /\ Entering(v) /\ snapCalls[u].id = snapCalls[v].id => u = v
    /\ \A i \in DOMAIN snapMap \ loaded :
          /\ i \in Nat /\ i < nextSnap
          /\ \A u : Entering(u) => snapCalls[u].id # i

\* A step that gives no id out and lists nothing keeps it.
LEMMA SnapShrinks ==
    ASSUME SnapInv, UNCHANGED <<nextSnap, snapRestarts>>,
           \A u \in DOMAIN snapCalls' : IsCall(snapCalls'[u]),
           \A u : Entering(u)' => Entering(u) /\ snapCalls'[u].id = snapCalls[u].id,
           (DOMAIN snapMap \ loaded)' \subseteq DOMAIN snapMap \ loaded
    PROVE  SnapInv'
  <1>1. \A i \in (DOMAIN snapMap \ loaded)' : i \in Nat /\ i < nextSnap' /\ \A u : Entering(u)' => snapCalls'[u].id # i
    BY Zenon DEF SnapInv
  <1>2. \A u : Entering(u)' => snapCalls'[u].id \in Nat /\ snapCalls'[u].id < nextSnap'
    BY Zenon DEF SnapInv
  <1>3. \A u, v : Entering(u)' /\ Entering(v)' /\ snapCalls'[u].id = snapCalls'[v].id => u = v
    BY Zenon DEF SnapInv
  <1> QED
    BY <1>1, <1>2, <1>3, Zenon DEF SnapInv

\* A call that is put down at another place than enter, goes on to one, or ends.
LEMMA CallLeaves ==
    ASSUME NEW u, NEW c, IsCall(c), c.at # "enter",
           \A x \in DOMAIN snapCalls : IsCall(snapCalls[x]),
           \/ snapCalls' = Put(snapCalls, u, c)
           \/ u \in DOMAIN snapCalls /\ snapCalls' = [snapCalls EXCEPT ![u] = c]
           \/ snapCalls' = Del(snapCalls, u)
           \/ UNCHANGED snapCalls /\ u \notin DOMAIN snapCalls
    PROVE  /\ \A v : Entering(v)' => v # u /\ Entering(v) /\ snapCalls'[v].id = snapCalls[v].id
           /\ \A v \in DOMAIN snapCalls' : IsCall(snapCalls'[v])
  <1>1. /\ \A x \in DOMAIN snapCalls' \ {u} : x \in DOMAIN snapCalls /\ snapCalls'[x] = snapCalls[x]
        /\ u \in DOMAIN snapCalls' => snapCalls'[u] = c
    <2>1. CASE snapCalls' = Put(snapCalls, u, c)
      <3>1. /\ DOMAIN snapCalls' = DOMAIN snapCalls \cup {u} /\ snapCalls'[u] = c
            /\ \A x \in DOMAIN snapCalls : x # u => snapCalls'[x] = snapCalls[x]
        BY ONLY <2>1, Zenon DEF Put
      <3> QED
        BY <3>1, Zenon
    <2>2. CASE u \in DOMAIN snapCalls /\ snapCalls' = [snapCalls EXCEPT ![u] = c]
      BY <2>2
    <2>3. CASE snapCalls' = Del(snapCalls, u)
      <3>1. /\ DOMAIN snapCalls' = DOMAIN snapCalls \ {u}
            /\ \A x \in DOMAIN snapCalls \ {u} : snapCalls'[x] = snapCalls[x]
        BY <2>3, DelIs
      <3> QED
        BY <3>1, Zenon
    <2>4. CASE UNCHANGED snapCalls /\ u \notin DOMAIN snapCalls
      BY <2>4, Zenon
    <2> QED
      BY <2>1, <2>2, <2>3, <2>4, Zenon
  <1>2. \A v \in DOMAIN snapCalls' : IsCall(snapCalls'[v])
    BY <1>1, Zenon
  <1>3. \A v : Entering(v)' => v # u /\ Entering(v) /\ snapCalls'[v].id = snapCalls[v].id
    BY <1>1, Zenon DEF Entering
  <1> QED
    BY <1>2, <1>3

\* A snapshot that gets an id.
LEMMA CreateTakesId ==
    ASSUME SnapInv, NEW u, NEW stores, SnapCreate(u, stores)
    PROVE  SnapInv'
  <1> USE DEF SnapInv
  <1>1. PICK o : o = Created + 1
    OBVIOUS
  <1>2. PICK c : c = [at |-> "enter", id |-> nextSnap, obj |-> o, code |-> 201,
                      stores |-> stores, val |-> << >>]
    BY Zenon
  <1>3. /\ snapCalls' = Put(snapCalls, u, c) /\ u \notin DOMAIN snapCalls
        /\ nextSnap' = nextSnap + 1 /\ UNCHANGED <<snapMap, loaded, snapRestarts>>
    BY <1>1, <1>2, Zenon DEF SnapCreate, SnapBegin, SnapFree
  <1>4. /\ DOMAIN snapCalls' = DOMAIN snapCalls \cup {u} /\ snapCalls'[u] = c
        /\ \A x \in DOMAIN snapCalls : x # u => snapCalls'[x] = snapCalls[x]
    BY <1>3, Zenon DEF Put
  <1>5. c.id = nextSnap /\ IsCall(c)
    BY <1>2, Zenon DEF IsCall
  <1>6. /\ nextSnap' \in Nat /\ nextSnap < nextSnap'
        /\ \A n \in Nat : n < nextSnap => n < nextSnap' /\ n # nextSnap
    BY <1>3
  <1>7. \A v : Entering(v)' => v = u \/ (Entering(v) /\ snapCalls'[v] = snapCalls[v])
    BY <1>4, Zenon DEF Entering
  <1>8. \A v : Entering(v)' => snapCalls'[v].id \in Nat /\ snapCalls'[v].id < nextSnap'
    BY <1>4, <1>5, <1>6, <1>7, Zenon
  <1>9. \A v, w : Entering(v)' /\ Entering(w)' /\ snapCalls'[v].id = snapCalls'[w].id => v = w
    BY <1>4, <1>5, <1>6, <1>7, Zenon
  <1>10. \A i \in (DOMAIN snapMap \ loaded)' :
            i \in Nat /\ i < nextSnap' /\ \A v : Entering(v)' => snapCalls'[v].id # i
    BY <1>3, <1>4, <1>5, <1>6, <1>7, Zenon
  <1>11. \A v \in DOMAIN snapCalls' : IsCall(snapCalls'[v])
    BY <1>4, <1>5, Zenon
  <1> QED
    BY <1>3, <1>6, <1>8, <1>9, <1>10, <1>11, Zenon

\* A snapshot that is listed uses up its id.
LEMMA EnterUsesId ==
    ASSUME SnapInv, NEW u, SnapEnter(u)
    PROVE  /\ SnapInv'
           /\ \A i \in DOMAIN snapMap \ loaded : i \in DOMAIN snapMap' => snapMap'[i] = snapMap[i]
  <1> USE DEF SnapInv
  <1>1. Entering(u) /\ IsCall(snapCalls[u])
    BY Zenon DEF SnapEnter, SnapAt, SnapFree, Entering
  <1>2. PICK c, i, o : c = snapCalls[u] /\ i = c.id /\ o = c.obj
    BY Zenon
  <1>3. /\ snapMap' = Put(snapMap, i, o) /\ loaded' = loaded \ {i}
        /\ UNCHANGED <<nextSnap, snapRestarts>>
        /\ \/ snapCalls' = [snapCalls EXCEPT ![u].at = "encode"]
           \/ snapCalls' = Del(snapCalls, u)
    BY <1>2, Zenon DEF SnapEnter, SnapEnd
  <1>4. PICK d : /\ IsCall(d) /\ d.at # "enter"
                 /\ \/ u \in DOMAIN snapCalls /\ snapCalls' = [snapCalls EXCEPT ![u] = d]
                    \/ snapCalls' = Del(snapCalls, u)
    <2>1. PICK id, obj, code, stores, val, at :
             c = [at |-> at, id |-> id, obj |-> obj, code |-> code, stores |-> stores, val |-> val]
      BY <1>1, <1>2, Zenon DEF IsCall
    <2>2. PICK d : d = [at |-> "encode", id |-> id, obj |-> obj, code |-> code,
                        stores |-> stores, val |-> val]
      BY Zenon
    <2>3. d = [c EXCEPT !.at = "encode"] /\ d.at # "enter" /\ IsCall(d)
      <3>1. d = [c EXCEPT !.at = "encode"] /\ d.at = "encode"
        BY ONLY <2>1, <2>2
      <3>2. IsCall(d)
        BY ONLY <2>2, Zenon DEF IsCall
      <3> QED
        BY <3>1, <3>2
    <2> QED
      BY <1>1, <1>2, <1>3, <2>3, Zenon DEF Entering
  <1>5. /\ \A v : Entering(v)' => v # u /\ Entering(v) /\ snapCalls'[v].id = snapCalls[v].id
        /\ \A v \in DOMAIN snapCalls' : IsCall(snapCalls'[v])
    BY <1>4, CallLeaves, Zenon
  <1>6. /\ DOMAIN snapMap' = DOMAIN snapMap \cup {i}
        /\ \A x \in DOMAIN snapMap : x # i => snapMap'[x] = snapMap[x]
    BY ONLY <1>3, Zenon DEF Put
  <1>7. \A x \in (DOMAIN snapMap \ loaded)' : x = i \/ x \in DOMAIN snapMap \ loaded
    BY <1>3, <1>6, Zenon
  <1>8. i \in Nat /\ i < nextSnap /\ i \notin DOMAIN snapMap \ loaded
    BY <1>1, <1>2, Zenon
  <1>9. \A v : Entering(v)' => snapCalls'[v].id # i
    BY <1>1, <1>2, <1>5, Zenon
  <1>10. \A x \in (DOMAIN snapMap \ loaded)' :
            x \in Nat /\ x < nextSnap' /\ \A v : Entering(v)' => snapCalls'[v].id # x
    BY <1>3, <1>5, <1>7, <1>8, <1>9, Zenon
  <1>11. \A v : Entering(v)' => snapCalls'[v].id \in Nat /\ snapCalls'[v].id < nextSnap'
    BY <1>3, <1>5, Zenon
  <1>12. \A v, w : Entering(v)' /\ Entering(w)' /\ snapCalls'[v].id = snapCalls'[w].id => v = w
    BY <1>5, Zenon
  <1>13. SnapInv'
    BY <1>3, <1>5, <1>10, <1>11, <1>12, Zenon
  <1> QED
    BY <1>6, <1>8, <1>13, Zenon

\* The other steps within one start list nothing under an id.
LEMMA OthersKeep ==
    ASSUME SnapInv, NEW u,
           \/ \E code : SnapRefused(u, code)
           \/ \E i, stores : SnapDelete(u, i, stores) \/ SnapRestore(u, i, stores)
           \/ SnapEncode(u) \/ SnapWrite(u) \/ SnapErase(u)
    PROVE  /\ SnapInv'
           /\ \A i \in DOMAIN snapMap \ loaded : i \in DOMAIN snapMap' => snapMap'[i] = snapMap[i]
  <1>0. \A x \in DOMAIN snapCalls : IsCall(snapCalls[x])
    BY Zenon DEF SnapInv
  <1>1. ASSUME UNCHANGED <<nextSnap, snapRestarts, snapMap, loaded>>,
               \/ UNCHANGED snapCalls
               \/ \E c : /\ IsCall(c) /\ c.at # "enter"
                         /\ \/ snapCalls' = Put(snapCalls, u, c)
                            \/ u \in DOMAIN snapCalls /\ snapCalls' = [snapCalls EXCEPT ![u] = c]
                            \/ snapCalls' = Del(snapCalls, u)
        PROVE  /\ SnapInv'
               /\ \A i \in DOMAIN snapMap \ loaded : i \in DOMAIN snapMap' => snapMap'[i] = snapMap[i]
    <2>1. /\ \A v : Entering(v)' => Entering(v) /\ snapCalls'[v].id = snapCalls[v].id
          /\ \A v \in DOMAIN snapCalls' : IsCall(snapCalls'[v])
      <3>1. CASE UNCHANGED snapCalls
        BY <1>0, <3>1, Zenon DEF Entering
      <3>2. CASE ~UNCHANGED snapCalls
        BY <1>0, <1>1, <3>2, CallLeaves, Zenon
      <3> QED
        BY <3>1, <3>2
    <2>2. SnapInv'
      BY <1>1, <2>1, SnapShrinks, Zenon
    <2> QED
      BY <1>1, <2>2, Zenon
  <1>2. ASSUME NEW at, at # "enter", NEW i, NEW o, NEW code, NEW stores,
               SnapBegin(u, i, o, at, code, stores)
        PROVE  \E c : IsCall(c) /\ c.at # "enter" /\ snapCalls' = Put(snapCalls, u, c)
    <2>1. PICK c : c = [at |-> at, id |-> i, obj |-> o, code |-> code, stores |-> stores, val |-> << >>]
      BY Zenon
    <2>2. IsCall(c) /\ c.at = at
      BY ONLY <2>1, Zenon DEF IsCall
    <2> QED
      BY <1>2, <2>1, <2>2, Zenon DEF SnapBegin
  <1>3. PICK e : IsCall(e) /\ e.at # "enter"
    <2>1. PICK e : e = [at |-> "write", id |-> 0, obj |-> 0, code |-> 0, stores |-> TRUE, val |-> << >>]
      BY Zenon
    <2>2. IsCall(e) /\ e.at = "write"
      BY ONLY <2>1, Zenon DEF IsCall
    <2> QED
      BY <2>2
  <1>4. ASSUME NEW code, SnapRefused(u, code)
        PROVE  /\ SnapInv'
               /\ \A i \in DOMAIN snapMap \ loaded : i \in DOMAIN snapMap' => snapMap'[i] = snapMap[i]
    BY <1>1, <1>4, Zenon DEF SnapRefused
  <1>5. ASSUME NEW i, NEW stores, SnapRestore(u, i, stores)
        PROVE  /\ SnapInv'
               /\ \A j \in DOMAIN snapMap \ loaded : j \in DOMAIN snapMap' => snapMap'[j] = snapMap[j]
    BY <1>1, <1>2, <1>5, Zenon DEF SnapRestore
  <1>6. CASE SnapWrite(u) \/ SnapErase(u)
    BY <1>1, <1>3, <1>6, Zenon DEF SnapWrite, SnapErase, SnapEnd
  <1>7. CASE SnapEncode(u)
    <2>1. PICK c, w : /\ c = snapCalls[u] /\ u \in DOMAIN snapCalls
                      /\ snapCalls' = [snapCalls EXCEPT ![u].at = "write", ![u].val = w]
      BY <1>7, Zenon DEF SnapEncode, SnapAt, SnapFree
    <2>2. PICK at, id, obj, code, stores, val :
             c = [at |-> at, id |-> id, obj |-> obj, code |-> code, stores |-> stores, val |-> val]
      BY <1>0, <2>1, Zenon DEF IsCall
    <2>3. PICK d : d = [at |-> "write", id |-> id, obj |-> obj, code |-> code,
                        stores |-> stores, val |-> w]
      BY Zenon
    <2>4. d = [c EXCEPT !.at = "write", !.val = w] /\ d.at = "write"
      <3>1. PICK b : b = [at |-> "write", id |-> id, obj |-> obj, code |-> code,
                          stores |-> stores, val |-> val]
        BY Zenon
      <3>2. b = [c EXCEPT !.at = "write"]
        BY ONLY <2>2, <3>1
      <3>3. d = [b EXCEPT !.val = w] /\ d.at = "write"
        BY ONLY <2>3, <3>1
      <3> QED
        BY ONLY <3>2, <3>3, Zenon
    <2>5. IsCall(d) /\ d.at # "enter"
      BY ONLY <2>3, <2>4, Zenon DEF IsCall
    <2>6. snapCalls' = [snapCalls EXCEPT ![u] = d]
      BY ONLY <2>1, <2>4
    <2> QED
      BY <1>1, <1>7, <2>1, <2>5, <2>6, Zenon DEF SnapEncode
  <1>8. ASSUME NEW i, NEW stores, SnapDelete(u, i, stores)
        PROVE  /\ SnapInv'
               /\ \A j \in DOMAIN snapMap \ loaded : j \in DOMAIN snapMap' => snapMap'[j] = snapMap[j]
    <2>1. /\ snapMap' = Del(snapMap, i) /\ loaded' = loaded \ {i}
          /\ UNCHANGED <<nextSnap, snapRestarts>>
      BY <1>8, Zenon DEF SnapDelete
    <2>2. /\ DOMAIN snapMap' = DOMAIN snapMap \ {i}
          /\ \A x \in DOMAIN snapMap \ {i} : snapMap'[x] = snapMap[x]
      BY <2>1, DelIs
    <2>3. (DOMAIN snapMap \ loaded)' \subseteq DOMAIN snapMap \ loaded
      BY <2>1, <2>2, Zenon
    <2>4. /\ \A v : Entering(v)' => Entering(v) /\ snapCalls'[v].id = snapCalls[v].id
          /\ \A v \in DOMAIN snapCalls' : IsCall(snapCalls'[v])
      <3>1. CASE UNCHANGED snapCalls
        BY <1>0, <3>1, Zenon DEF Entering
      <3>2. CASE SnapBegin(u, i, snapMap[i], "delete", 204, TRUE)
        <4>1. PICK c : IsCall(c) /\ c.at # "enter" /\ snapCalls' = Put(snapCalls, u, c)
          BY <1>2, <3>2
        <4> QED
          BY <1>0, <4>1, CallLeaves, Zenon
      <3> QED
        BY <1>8, <3>1, <3>2, Zenon DEF SnapDelete
    <2>5. SnapInv'
      BY <2>1, <2>3, <2>4, SnapShrinks, Zenon
    <2> QED
      BY <2>2, <2>5, Zenon
  <1> QED
    BY <1>4, <1>5, <1>6, <1>7, <1>8, Zenon

\* What a step may do, case by case.
LEMMA SnapStep ==
    ASSUME SnapInv, [VsNext]_vsVars
    PROVE  /\ SnapInv'
           /\ snapRestarts' = snapRestarts =>
                 \A i \in DOMAIN snapMap \ loaded : i \in DOMAIN snapMap' => snapMap'[i] = snapMap[i]
  <1>1. CASE SnapRestart
    <2>1. /\ snapRestarts' = snapRestarts + 1 /\ loaded' = DOMAIN snapMap'
          /\ nextSnap' = 1 /\ snapCalls' = Empty
      BY <1>1, Zenon DEF SnapRestart
    <2>2. snapRestarts' \in Nat /\ snapRestarts' # snapRestarts /\ nextSnap' \in Nat
      BY <2>1 DEF SnapInv
    <2>3. DOMAIN snapCalls' = {} /\ (DOMAIN snapMap \ loaded)' = {}
      BY <2>1 DEF Empty
    <2>4. SnapInv'
      BY <2>2, <2>3, Zenon DEF SnapInv, Entering
    <2> QED
      BY <2>2, <2>4, Zenon
  <1>2. CASE UNCHANGED vsVars
    BY <1>2, Zenon DEF vsVars, SnapInv, Entering
  <1>3. ASSUME NEW u, NEW stores, SnapCreate(u, stores)
        PROVE  /\ SnapInv'
               /\ \A i \in DOMAIN snapMap \ loaded : i \in DOMAIN snapMap' => snapMap'[i] = snapMap[i]
    BY <1>3, CreateTakesId, Zenon DEF SnapCreate
  <1>4. ASSUME VsNext, ~SnapRestart
        PROVE  \E u : \/ \E stores : SnapCreate(u, stores)
                      \/ SnapEnter(u)
                      \/ \E code : SnapRefused(u, code)
                      \/ \E i, stores : SnapDelete(u, i, stores) \/ SnapRestore(u, i, stores)
                      \/ SnapEncode(u) \/ SnapWrite(u) \/ SnapErase(u)
    BY <1>4, Zenon
       DEF VsNext, handleCreateSnapshot, handleDeleteSnapshot, handleRestoreSnapshot,
           handleGetSnapshot, handleListSnapshots, PersistentCreate, PersistentDelete,
           PersistentRestore, CreateSnap, DeleteSnap, RestoreSnap
  <1> QED
    BY <1>1, <1>2, <1>3, <1>4, EnterUsesId, OthersKeep, Zenon

\* For any number of clients, ids taken outside the lock and calls that overlap in
\* any way: a snapshot made since the start is replaced by no other under its id,
\* through the handlers or through the persistent service.
THEOREM SnapshotsAreKept == VsSpec => SnapshotKept
  <1>1. VsInit => SnapInv
    BY DEF VsInit, SnapInv, Entering, Empty
  <1>2. SnapInv /\ [VsNext]_vsVars =>
           [snapRestarts' = snapRestarts =>
              \A i \in DOMAIN snapMap \ loaded :
                 i \in DOMAIN snapMap' => snapMap'[i] = snapMap[i]]_vsVars
    BY SnapStep, Zenon
  <1>3. SnapInv /\ [VsNext]_vsVars => SnapInv'
    BY SnapStep, Zenon
  <1> QED
    BY <1>1, <1>2, <1>3, PTL DEF VsSpec, SnapshotKept
=============================================================================
