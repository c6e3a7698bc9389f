----------------------------- MODULE Migration -----------------------------
(***************************************************************************)
(* Live migration of one VM: ComputeService.MigrateLive, MigrateVM,        *)
(* doMigration and CancelMigration, and the task that handleMigrateVM      *)
(* starts to follow a migration.  The maps involved are keyed by VM, so    *)
(* migrations of different VMs do not interact.                            *)
(*                                                                         *)
(* A migration runs on a goroutine of its own, beside other migrations of  *)
(* the VM, cancellations, lifecycle actions and the polling tasks.  The    *)
(* status map holds a pointer: MigrateLive stores a first (pending)        *)
(* record, doMigration replaces it by a second one and goes on updating    *)
(* that record even when the map has been pointed elsewhere.               *)
(***************************************************************************)
EXTENDS Naturals, Sequences

CONSTANTS Nodes, Local,     \* node names; where a VM is created
          Backends, Home,   \* the registered backends; the VM's own
          MaxMigrations     \* bound: migration requests

ASSUME LocalAssumption == Local \in Nodes
ASSUME HomeAssumption == Home \in Backends
ASSUME MaxMigrationsAssumption == MaxMigrations \in Nat

VARIABLES vmState, vmNode,  \* the VM in its backend
          mig,              \* mig[m]: migration m and its status record
          entry,            \* cs.migrations[h]: <<m, "req">> or <<m, "run">>
          active,           \* cs.activeMigrations[h]: whose cancel function
          cancelled,        \* migrations whose context is done
          canceller,        \* CancelMigration between lookup and cancel()
          task              \* task[m]: status of the task following m

vars == <<vmState, vmNode, mig, entry, active, cancelled, canceller, task>>

vmVars == <<vmState, vmNode>>

Migs == 1 .. MaxMigrations

None == 0

Absent == "absent"          \* no backend has the VM

transferSteps == <<10, 30, 60, 90>>

Phases == {"none", "pre-check", "transfer", "switchover", "completed", "failed"}

PCs == {"free", "register", "activate", "precheck", "refuse", "begin",
        "transfer", "loop", "switch", "update", "complete", "cleanup", "done"}

\* old: the migrations that had completed when this one was registered.
Migration == [live : BOOLEAN, tgt : Nodes, pc : PCs, phase : Phases,
              i : 0 .. Len(transferSteps), old : SUBSET Migs]

Unused == [live |-> FALSE, tgt |-> Local, pc |-> "free", phase |-> "none", i |-> 0, old |-> {}]

Init ==
    /\ vmState = "configured" /\ vmNode = Local
    /\ mig = [m \in Migs |-> Unused]
    /\ entry = <<None, "req">> /\ active = None
    /\ cancelled = {} /\ canceller = None
    /\ task = [m \in Migs |-> "none"]

-----------------------------------------------------------------------------
(* The VM's life goes on while it is migrated.                             *)

VMAction(s) ==
    /\ \/ vmState \in {"configured", "paused"} /\ s = "running"
       \/ vmState = "running" /\ s = "paused"
       \/ vmState \in {"configured", "running", "paused"} /\ s = "stopped"
    /\ vmState' = s
    /\ UNCHANGED <<vmNode, mig, entry, active, cancelled, canceller, task>>

VMDestroyed ==
    /\ vmState # Absent
    /\ vmState' = Absent
    /\ UNCHANGED <<vmNode, mig, entry, active, cancelled, canceller, task>>

-----------------------------------------------------------------------------
(* A request takes the next unused migration.                              *)

Start(m, tgt, live, pc) ==
    /\ mig[m].pc = "free"
    /\ \A k \in Migs : k < m => mig[k].pc # "free"
    /\ mig' = [mig EXCEPT ![m] = [Unused EXCEPT !.live = live, !.tgt = tgt, !.pc = pc]]
    /\ UNCHANGED <<vmVars, entry, active, cancelled, canceller, task>>

\* MigrateLive's pre-validation; a request it refuses changes nothing.
MigrateLive(m, tgt) ==
    /\ vmState = "running"
    /\ vmNode # tgt
    /\ Start(m, tgt, TRUE, "register")

\* MigrateVM runs doMigration at once, on a context nobody else can cancel.
MigrateVM(m, tgt) == Start(m, tgt, FALSE, "precheck")

Goto(m, pc) == mig' = [mig EXCEPT ![m].pc = pc]

CompletedNow == {k \in Migs : mig[k].phase = "completed"}

\* Mutant: the status map is left to doMigration.
RegisterLate(m) ==
    /\ mig[m].pc = "register"
    /\ mig' = [mig EXCEPT ![m].pc = "activate", ![m].old = CompletedNow]
    /\ UNCHANGED <<vmVars, entry, active, cancelled, canceller, task>>

Register(m) ==
    /\ mig[m].pc = "register"
    /\ entry' = <<m, "req">>
    /\ mig' = [mig EXCEPT ![m].pc = "activate", ![m].old = CompletedNow]
    /\ UNCHANGED <<vmVars, active, cancelled, canceller, task>>

Activate(m) ==
    /\ mig[m].pc = "activate"
    /\ active' = m
    /\ Goto(m, "precheck")
    /\ UNCHANGED <<vmVars, entry, cancelled, canceller, task>>

-----------------------------------------------------------------------------
(* doMigration.                                                            *)

\* A VM that is gone or already there ends the migration with an error that
\* leaves the status map alone.
PreCheck(m) ==
    /\ mig[m].pc = "precheck"
    /\ Goto(m, IF vmState = Absent THEN "cleanup"
               ELSE IF vmState # "running" THEN "refuse"
               ELSE IF vmNode = mig[m].tgt THEN "cleanup"
               ELSE "begin")
    /\ UNCHANGED <<vmVars, entry, active, cancelled, canceller, task>>

Refuse(m) ==
    /\ mig[m].pc = "refuse"
    /\ entry' = <<m, "run">>
    /\ mig' = [mig EXCEPT ![m].pc = "cleanup", ![m].phase = "failed"]
    /\ UNCHANGED <<vmVars, active, cancelled, canceller, task>>

Begin(m) ==
    /\ mig[m].pc = "begin"
    /\ entry' = <<m, "run">>
    /\ mig' = [mig EXCEPT ![m].pc = "transfer", ![m].phase = "pre-check"]
    /\ UNCHANGED <<vmVars, active, cancelled, canceller, task>>

\* Mutant: the node is switched when the transfer starts.
TransferMoving(m) ==
    /\ mig[m].pc = "transfer"
    /\ mig' = [mig EXCEPT ![m].pc = "loop", ![m].phase = "transfer"]
    /\ vmNode' = mig[m].tgt
    /\ UNCHANGED <<vmState, entry, active, cancelled, canceller, task>>

Transfer(m) ==
    /\ mig[m].pc = "transfer"
    /\ mig' = [mig EXCEPT ![m].pc = "loop", ![m].phase = "transfer"]
    /\ UNCHANGED <<vmVars, entry, active, cancelled, canceller, task>>

\* select on ctx.Done().
Cancelled(m) ==
    /\ mig[m].pc \in {"loop", "switch"}
    /\ m \in cancelled
    /\ mig' = [mig EXCEPT ![m].pc = "cleanup", ![m].phase = "failed"]
    /\ UNCHANGED <<vmVars, entry, active, cancelled, canceller, task>>

\* Mutant: the transfer waits while the VM does not run.
TransferStepWaiting(m) ==
    /\ mig[m].pc = "loop"
    /\ m \notin cancelled
    /\ vmState = "running"
    /\ mig' = [mig EXCEPT ![m].i = @ + 1,
                          ![m].pc = IF mig[m].i + 1 = Len(transferSteps)
                                    THEN "switch" ELSE "loop"]
    /\ UNCHANGED <<vmVars, entry, active, cancelled, canceller, task>>

TransferStep(m) ==
    /\ mig[m].pc = "loop"
    /\ m \notin cancelled
    /\ mig' = [mig EXCEPT ![m].i = @ + 1,
                          ![m].pc = IF mig[m].i + 1 = Len(transferSteps)
                                    THEN "switch" ELSE "loop"]
    /\ UNCHANGED <<vmVars, entry, active, cancelled, canceller, task>>

\* Mutant: the context is not checked again before the switchover.
SwitchoverUnchecked(m) ==
    /\ mig[m].pc = "switch"
    /\ mig' = [mig EXCEPT ![m].pc = "update", ![m].phase = "switchover"]
    /\ UNCHANGED <<vmVars, entry, active, cancelled, canceller, task>>

Switchover(m) ==
    /\ mig[m].pc = "switch"
    /\ m \notin cancelled
    /\ mig' = [mig EXCEPT ![m].pc = "update", ![m].phase = "switchover"]
    /\ UNCHANGED <<vmVars, entry, active, cancelled, canceller, task>>

\* The loop over the backends, which come in Go's map order, returns after
\* the first one, whether or not the VM is there.
updateVMNode(m) ==
    /\ mig[m].pc = "update"
    /\ \E first \in Backends :
          vmNode' = IF first = Home /\ vmState # Absent
                    THEN mig[m].tgt ELSE vmNode
    /\ Goto(m, "complete")
    /\ UNCHANGED <<vmState, entry, active, cancelled, canceller, task>>

CompleteMigration(m) ==
    /\ mig[m].pc = "complete"
    /\ mig' = [mig EXCEPT ![m].pc = "cleanup", ![m].phase = "completed"]
    /\ UNCHANGED <<vmVars, entry, active, cancelled, canceller, task>>

\* MigrateLive's deferred delete, which does not look whose entry it removes.
Cleanup(m) ==
    /\ mig[m].pc = "cleanup"
    /\ active' = IF mig[m].live THEN None ELSE active
    /\ Goto(m, "done")
    /\ UNCHANGED <<vmVars, entry, cancelled, canceller, task>>

-----------------------------------------------------------------------------
(* CancelMigration: look the function up under the lock, call it after.    *)

CancelLookup ==
    /\ canceller = None
    /\ active # None
    /\ canceller' = active
    /\ UNCHANGED <<vmVars, mig, entry, active, cancelled, task>>

CancelCall ==
    /\ canceller # None
    /\ cancelled' = cancelled \cup {canceller}
    /\ canceller' = None
    /\ UNCHANGED <<vmVars, mig, entry, active, task>>

-----------------------------------------------------------------------------
(* handleMigrateVM's task: created when MigrateLive has returned, it polls *)
(* the status of the VM until it reads a final phase or 30 minutes passed. *)

GetMigrationStatus ==
    IF entry[1] = None THEN "none"
    ELSE IF entry[2] = "req" THEN "pending" ELSE mig[entry[1]].phase

CreateTask(m) ==
    /\ mig[m].live /\ mig[m].pc \notin {"register", "activate"}
    /\ task[m] = "none"
    /\ task' = [task EXCEPT ![m] = "pending"]
    /\ UNCHANGED <<vmVars, mig, entry, active, cancelled, canceller>>

TaskRunning(m) ==
    /\ task[m] = "pending"
    /\ task' = [task EXCEPT ![m] = "running"]
    /\ UNCHANGED <<vmVars, mig, entry, active, cancelled, canceller>>

TaskPoll(m) ==
    /\ task[m] = "running"
    /\ GetMigrationStatus \in {"none", "completed", "failed"}
    /\ task' = [task EXCEPT ![m] = IF GetMigrationStatus = "completed"
                                   THEN "completed" ELSE "failed"]
    /\ UNCHANGED <<vmVars, mig, entry, active, cancelled, canceller>>

TaskDeadline(m) ==
    /\ task[m] = "running"
    /\ task' = [task EXCEPT ![m] = "failed"]
    /\ UNCHANGED <<vmVars, mig, entry, active, cancelled, canceller>>

\* DeleteTask refuses a task that has not ended.
DeleteTask(m) ==
    /\ task[m] \in {"completed", "failed"}
    /\ task' = [task EXCEPT ![m] = "deleted"]
    /\ UNCHANGED <<vmVars, mig, entry, active, cancelled, canceller>>

handleDeleteTask == \E m \in Migs : DeleteTask(m)

-----------------------------------------------------------------------------
Run(m) ==
    \/ Register(m) \/ Activate(m) \/ PreCheck(m) \/ Refuse(m) \/ Begin(m)
    \/ Transfer(m) \/ Cancelled(m) \/ TransferStep(m) \/ Switchover(m)
    \/ updateVMNode(m) \/ CompleteMigration(m) \/ Cleanup(m)

Follow(m) == CreateTask(m) \/ TaskRunning(m) \/ TaskPoll(m) \/ TaskDeadline(m)

Next ==
    \/ \E s \in {"running", "paused", "stopped"} : VMAction(s)
    \/ VMDestroyed
    \/ CancelLookup \/ CancelCall
    \/ handleDeleteTask
    \/ \E m \in Migs :
          \/ \E tgt \in Nodes : MigrateLive(m, tgt) \/ MigrateVM(m, tgt)
          \/ Run(m) \/ Follow(m)

Spec == Init /\ [][Next]_vars

\* Every goroutine runs on; requests, cancellations and lifecycle actions
\* come as clients send them.
Fairness == \A m \in Migs : WF_vars(Run(m)) /\ WF_vars(Follow(m))
FairSpec == Spec /\ Fairness

-----------------------------------------------------------------------------
(* Properties.                                                             *)

\* Type invariant of the migration service.
TypeOK ==
    /\ vmState \in {"configured", "running", "paused", "stopped", Absent}
    /\ vmNode \in Nodes
    /\ mig \in [Migs -> Migration]
    /\ entry \in (Migs \cup {None}) \X {"req", "run"}
    /\ active \in Migs \cup {None}
    /\ cancelled \subseteq Migs
    /\ canceller \in Migs \cup {None}
    /\ task \in [Migs -> {"none", "pending", "running", "completed", "failed", "deleted"}]

BeforeSwitchover == {"precheck", "refuse", "begin", "transfer", "loop", "switch"}

\* A migration whose context is cancelled before its switchover never
\* completes, however many other migrations of the VM are under way.
EarlyCancelHolds ==
    \A m \in Migs :
        [](m \in cancelled /\ mig[m].pc \in BeforeSwitchover
              => [](mig[m].phase # "completed"))

\* The VM is never somewhere nobody moved it to: unless it is where it was
\* created, a migration to its node got past the switchover; in particular a
\* migration that failed or was cancelled did not move it.
NodeHasMigration ==
    vmNode # Local =>
        \E m \in Migs :
            /\ mig[m].tgt = vmNode
            /\ mig[m].phase \in {"switchover", "completed"}

\* When every migration has ended no cancel function is left behind in
\* activeMigrations, although each deferred delete may remove another's.
NoCancelLeft ==
    (\A m \in Migs : mig[m].pc \in {"free", "done"}) => active = None

\* An accepted migration ends, whatever happens to the VM meanwhile, and so
\* does its task, by the status it polls or by its deadline.
MigrationEnds ==
    \A m \in Migs :
        /\ mig[m].pc = "register" ~> mig[m].pc = "done"
        /\ task[m] = "pending" ~> task[m] \in {"completed", "failed"}

\* handleMigrateVM's comment: the task it creates tracks the migration it
\* started, so it says completed only if that migration completed.
TaskTruthful ==
    \A m \in Migs : task[m] = "completed" => mig[m].phase = "completed"

\* A task that says completed says so of a migration that completed after the
\* task's own was registered: whatever an earlier migration left in the status
\* map is never taken for the outcome of a later one.
NoStaleSuccess ==
    \A m \in Migs : task[m] = "completed" => CompletedNow \ mig[m].old # {}

\* CancelMigration's comment: it fails only when the VM has no migration in
\* progress.
InProgressCancellable ==
    (\E m \in Migs : mig[m].live /\ mig[m].pc \in BeforeSwitchover)
        => active # None

\* doMigration's comment: updateVMNode switches the node, then the phase is
\* set to completed.
CompletedMeansMoved ==
    [][\A m \in Migs :
          mig[m].pc = "complete" /\ mig'[m].pc = "cleanup" /\ vmState # Absent
              => vmNode = mig[m].tgt]_vars

\* MigrateLive's comment: progress can be polled with GetMigrationStatus; a
\* migration that has ended does not read as pending for ever.
StatusReachesEnd ==
    GetMigrationStatus = "pending" ~> GetMigrationStatus # "pending"
=============================================================================
