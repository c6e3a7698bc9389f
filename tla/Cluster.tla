------------------------------ MODULE Cluster -------------------------------
(***************************************************************************)
(* The high-availability cluster: controllers that share an etcd register  *)
(* themselves with heartbeats, elect a leader, watch each other's last     *)
(* heartbeat and, on the leader, move the VMs of a node that fell silent.  *)
(*                                                                         *)
(* Time appears as one fact per record: old says that LastSeen is past the *)
(* failure threshold (30 s).  Nothing orders that against the end of a     *)
(* session (15 s) or against a node noticing that it was elected.          *)
(*                                                                         *)
(* Environment faults are counted: a crash in crashes; a lost connection,  *)
(* a shutdown, an operator's fence or promotion, a failed migration, a     *)
(* failed campaign and a node that found no etcd when it started in        *)
(* faults.  Node names are those of the built-in nodes, node-01 ..         *)
(* node-N; the VMs are spread over the nodes in turn.                      *)
(*                                                                         *)
(* Wired says whether SetComputeProvider was called.  The controller's     *)
(* main never calls it: FALSE is the program as shipped, TRUE the          *)
(* FailoverManager in the use it was written and tested for.               *)
(***************************************************************************)
EXTENDS Integers, Sequences, FiniteSetsExt

CONSTANTS N, VMCount,       \* nodes 1 .. N, VMs 1 .. VMCount
          MaxCrashes, MaxFaults,
          Policies,         \* restart policies in use, of "always" and "never"
          Wired             \* SetComputeProvider was called

ASSUME ClusterConstants ==
    N \in Nat \ {0} /\ VMCount \in Nat /\ MaxCrashes \in Nat /\ MaxFaults \in Nat

VARIABLES phase,        \* node -> state of its process
          cut,          \* nodes that cannot reach etcd
          reg, old,     \* ha/nodes/: node -> status; nodes past the threshold
          queue,        \* keys under /hcv/leader, oldest first
          waiting,      \* nodes whose goroutine is in election.Campaign
          winner,       \* ... has returned from it and not yet set isLeader
          believes,     \* nodes whose isLeader is true
          quit,         \* nodes whose campaign failed or was cancelled
          single,       \* nodes whose election is in single-node mode
          fallback,     \* nodes with in-memory locks
          fenced,       \* node -> nodes its MemoryDriver holds as fenced
          failed, calls,\* detector: failedNodes; callbacks still to run
          job,          \* node -> its HandleNodeDown
          lock, lost,   \* VM -> owner of its lock; owners whose session ended
          vmAt, policy, \* VM -> node, restart policy
          moves, crashes, faults

procVars == <<phase, cut>>
regVars == <<reg, old, fenced>>
electVars == <<queue, waiting, winner, believes, quit, single>>
detectVars == <<failed, calls, job>>
lockVars == <<lock, lost>>
vmVars == <<vmAt, moves>>
fixed == <<policy, fallback>>
counts == <<crashes, faults>>
clVars == <<procVars, regVars, electVars, detectVars, lockVars, vmVars, fixed, counts>>

Nodes == 1 .. N
VMs == 1 .. VMCount
NoJob == [down |-> 0, todo |-> {}, target |-> 0, at |-> "idle"]
Up(n) == phase[n] \in {"up", "closing", "deregistered"}
Faulty == faults < MaxFaults /\ faults' = faults + 1 /\ UNCHANGED crashes
Clear(f, n, v) == [f EXCEPT ![n] = v]

\* The positions of n's keys in the election, and of the one it waits on.
OwnKeys(n) == {i \in DOMAIN queue : queue[i].node = n /\ ~queue[i].gone}
CurrentKey(n) == {i \in OwnKeys(n) : \A j \in OwnKeys(n) : j <= i}

-----------------------------------------------------------------------------
(* Heartbeat and node registry. *)

register(n) ==
    /\ Up(n) /\ n \notin cut
    /\ reg' = Clear(reg, n, "online") /\ old' = old \ {n}
    /\ UNCHANGED <<procVars, fenced, electVars, detectVars, lockVars, vmVars, fixed, counts>>

\* LastSeen passes the threshold: nothing beats for the node any more.
Age(n) ==
    /\ ~Up(n) \/ n \in cut
    /\ reg[n] # "none" /\ n \notin old
    /\ old' = old \cup {n}
    /\ UNCHANGED <<procVars, reg, fenced, electVars, detectVars, lockVars, vmVars, fixed, counts>>

\* What EtcdDriver reports: the registry, or the built-in nodes (which have not
\* been seen since the process started) without etcd or with an empty registry.
BuiltIn(m) == [n \in Nodes |-> [status |-> IF n \in fenced[m] THEN "fenced" ELSE "online",
                                old |-> TRUE]]
ListNodes(m) ==
    LET stored == {n \in Nodes : reg[n] # "none"}
    IN  IF m \in cut \/ stored = {} THEN BuiltIn(m)
        ELSE [n \in stored |-> [status |-> reg[n], old |-> n \in old]]

GetClusterStatus(m) ==
    LET view == ListNodes(m)
        online == Cardinality({n \in DOMAIN view : view[n].status = "online"})
        count == Cardinality(DOMAIN view)
    IN  IF online = count THEN "healthy"
        ELSE IF online > count \div 2 THEN "degraded" ELSE "critical"

MemoryFenceNode(m, n) == fenced' = [fenced EXCEPT ![m] = @ \cup {n}]

\* The record of a fenced node also counts as seen now.
FenceNode(m, n) ==
    /\ MemoryFenceNode(m, n)
    /\ IF m \in cut THEN UNCHANGED <<reg, old>>
       ELSE reg' = Clear(reg, n, "fenced") /\ old' = old \ {n}

handleFenceNode(m) ==
    /\ Up(m) /\ Faulty
    /\ \E n \in Nodes : FenceNode(m, n)
    /\ UNCHANGED <<procVars, electVars, detectVars, lockVars, vmVars, fixed>>

-----------------------------------------------------------------------------
(* Leader election. *)

\* No etcd for the election or for the locks: single-node mode, a fault.
NewLeaderElection(alone) == IF alone THEN Faulty ELSE UNCHANGED counts

\* A new session and a goroutine that queues up behind the other candidates.
\* Without a session the node takes itself for the leader from then on.
Campaign(n, q, alone) ==
    IF alone
    THEN /\ single' = single \cup {n} /\ believes' = believes \cup {n}
         /\ queue' = q /\ waiting' = waiting \ {n} /\ UNCHANGED <<winner, quit>>
    ELSE /\ queue' = Append(q, [node |-> n, gone |-> FALSE])
         /\ waiting' = waiting \cup {n} /\ believes' = believes \ {n}
         /\ quit' = quit \ {n} /\ single' = single \ {n} /\ UNCHANGED winner

\* election.Campaign returns once no older key is left.  A node whose own key
\* expired while it waited is not told.
Elected(n) ==
    /\ n \in waiting /\ n \notin cut
    /\ CurrentKey(n) \in {{}, {1}}
    /\ waiting' = waiting \ {n} /\ winner' = winner \cup {n}
    /\ UNCHANGED <<queue, believes, quit, single, procVars, regVars, detectVars, lockVars, vmVars,
                   fixed, counts>>

\* election.Campaign returns an error and the goroutine ends for good; the
\* session, and with it the node's key, lives on.
CampaignFails(n) ==
    /\ n \in waiting
    /\ IF n \in cut THEN UNCHANGED counts ELSE Faulty
    /\ waiting' = waiting \ {n} /\ quit' = quit \cup {n}
    /\ UNCHANGED <<queue, winner, believes, single, procVars, regVars, detectVars, lockVars, vmVars,
                   fixed>>

\* Mutant: the flag is set only where there is no other candidate.
StoreLeaderAlone(n) ==
    /\ n \in winner /\ winner' = winner \ {n}
    /\ believes' = IF waiting = {} THEN believes \cup {n} ELSE believes
    /\ UNCHANGED <<queue, waiting, quit, single, procVars, regVars, detectVars, lockVars, vmVars,
                   fixed, counts>>

StoreLeader(n) ==
    /\ n \in winner
    /\ winner' = winner \ {n} /\ believes' = believes \cup {n}
    /\ UNCHANGED <<queue, waiting, quit, single, procVars, regVars, detectVars, lockVars, vmVars,
                   fixed, counts>>

\* RemoveAt of SequencesExt.
RemoveAt(q, i) == SubSeq(q, 1, i - 1) \o SubSeq(q, i + 1, Len(q))

\* The queue without n's key; without etcd the key stays.
Withdrawn(n) == IF n \in cut \/ CurrentKey(n) = {} THEN queue
                ELSE RemoveAt(queue, Max(OwnKeys(n)))

\* etcd drops the key of a session that is not kept alive.
Expire(i) ==
    /\ i \in DOMAIN queue /\ (queue[i].gone \/ queue[i].node \in cut)
    /\ queue' = RemoveAt(queue, i)
    /\ UNCHANGED <<waiting, winner, believes, quit, single, procVars, regVars, detectVars, lockVars,
                   vmVars, fixed, counts>>

\* isLeader is cleared, the campaign cancelled, the key deleted.  A goroutine
\* that has already won still sets isLeader afterwards.
Resign(n) ==
    /\ believes' = believes \ {n}
    /\ IF n \in single THEN UNCHANGED <<waiting, quit, queue>>
       ELSE waiting' = waiting \ {n} /\ quit' = quit \cup {n} /\ queue' = Withdrawn(n)
    /\ UNCHANGED <<winner, single>>

\* Resign, then Campaign; without etcd Resign fails and Campaign is not reached.
\* In single-node mode isLeader is cleared and set again.
handleClusterPromote(n) ==
    /\ Up(n) /\ Faulty
    /\ IF n \in single THEN UNCHANGED electVars
       ELSE IF n \in cut THEN Resign(n)
       ELSE \E alone \in BOOLEAN : Campaign(n, Withdrawn(n), alone)
    /\ UNCHANGED <<procVars, regVars, detectVars, lockVars, vmVars, fixed>>

\* 0: etcd could not be asked and this node does not lead.
GetLeader(n) == IF n \in single THEN n
                ELSE IF n \in cut \/ queue = << >> THEN (IF n \in believes THEN n ELSE 0)
                ELSE queue[1].node

handleClusterStatus(m) == GetClusterStatus(m) \in {"healthy", "degraded", "critical"}
handleClusterNodes(m) == DOMAIN ListNodes(m) \subseteq Nodes
handleClusterLeader(m) == GetLeader(m) \in Nodes \cup {0}

\* The requests that change nothing: the reads, and a fence of an unknown node.
ReadOnly(m) == /\ Up(m) /\ handleClusterStatus(m) /\ handleClusterNodes(m)
               /\ handleClusterLeader(m) /\ UNCHANGED clVars

-----------------------------------------------------------------------------
(* Failure detector and failover. *)

\* One tick: only this goroutine touches failedNodes, so the marks are made
\* together; the callbacks run one by one afterwards, on this snapshot.
checkNodes(m) ==
    LET view == ListNodes(m)
        downs == {n \in DOMAIN view : view[n].status = "online" /\ view[n].old} \ failed[m]
        back == {n \in failed[m] \cap DOMAIN view : view[n].status # "fenced" /\ ~view[n].old}
    IN  /\ phase[m] = "up" /\ calls[m] = {} /\ job[m] = NoJob
        /\ downs \cup back # {}
        /\ failed' = [failed EXCEPT ![m] = (@ \cup downs) \ back]
        /\ calls' = [calls EXCEPT ![m] = downs]
        /\ UNCHANGED <<job, procVars, regVars, electVars, lockVars, vmVars, fixed, counts>>

\* The first other node the registry calls online, 0 when there is none.
selectTargetNode(m, exclude) ==
    LET view == ListNodes(m)
        online == {n \in DOMAIN view \ {exclude} : view[n].status = "online"}
    IN  IF online = {} THEN 0 ELSE Min(online)

\* Mutant: every node handles the failure, not the leader alone.
HandleNodeDownAnyone(m) ==
    LET n == Min(calls[m])
        affected == {v \in VMs : vmAt[v] = n}
        restart == {v \in affected : policy[v] # "never"}
        target == selectTargetNode(m, n)
    IN  /\ Up(m) /\ calls[m] # {} /\ job[m] = NoJob
        /\ calls' = [calls EXCEPT ![m] = @ \ {n}]
        /\ job' = IF Wired /\ target # 0 /\ restart # {}
                  THEN [job EXCEPT ![m] = [down |-> n, todo |-> restart, target |-> target,
                                           at |-> "idle"]]
                  ELSE job
        /\ UNCHANGED <<failed, procVars, regVars, electVars, lockVars, vmVars, fixed, counts>>

\* Skipped unless this node takes itself for the leader; never retried.
HandleNodeDown(m) ==
    LET n == Min(calls[m])
        affected == {v \in VMs : vmAt[v] = n}
        restart == {v \in affected : policy[v] # "never"}
        target == selectTargetNode(m, n)
    IN  /\ Up(m) /\ calls[m] # {} /\ job[m] = NoJob
        /\ calls' = [calls EXCEPT ![m] = @ \ {n}]
        /\ job' = IF m \in believes /\ Wired /\ target # 0 /\ restart # {}
                  THEN [job EXCEPT ![m] = [down |-> n, todo |-> restart, target |-> target,
                                           at |-> "idle"]]
                  ELSE job
        /\ UNCHANGED <<failed, procVars, regVars, electVars, lockVars, vmVars, fixed, counts>>

Next1(m) == Min(job[m].todo)
Done1(m) == LET left == job[m].todo \ {Next1(m)}
            IN  job' = [job EXCEPT ![m] = IF left = {} THEN NoJob
                                          ELSE [@ EXCEPT !.todo = left, !.at = "idle"]]

\* Mutant: the lock is released before the migration runs.
AcquireReleased(m) ==
    LET v == Next1(m)
    IN  /\ Up(m) /\ job[m].todo # {} /\ job[m].at = "idle"
        /\ m \in fallback \/ (m \notin cut /\ lock[v] = 0)
        /\ job' = [job EXCEPT ![m].at = "migrating"] /\ UNCHANGED lock
        /\ UNCHANGED <<failed, calls, lost, procVars, regVars, electVars, vmVars, fixed, counts>>

\* In-memory locks are this process's own and it runs one callback at a time.
Acquire(m) ==
    LET v == Next1(m)
    IN  /\ Up(m) /\ job[m].todo # {} /\ job[m].at = "idle"
        /\ m \in fallback \/ (m \notin cut /\ lock[v] = 0)
        /\ job' = [job EXCEPT ![m].at = "migrating"]
        /\ lock' = IF m \in fallback THEN lock ELSE [lock EXCEPT ![v] = m]
        /\ UNCHANGED <<failed, calls, lost, procVars, regVars, electVars, vmVars, fixed, counts>>

\* No etcd, or the lock is held for the whole 10 s: this VM is given up.
AcquireFails(m) ==
    LET v == Next1(m)
    IN  /\ Up(m) /\ job[m].todo # {} /\ job[m].at = "idle" /\ m \notin fallback
        /\ m \in cut \/ lock[v] # 0
        /\ Done1(m)
        /\ UNCHANGED <<failed, calls, lockVars, procVars, regVars, electVars, vmVars, fixed, counts>>

\* The locked function, then the deferred unlock.
WithLock(m) ==
    LET v == Next1(m)
    IN  /\ Up(m) /\ job[m].at = "migrating"
        /\ \/ /\ vmAt' = [vmAt EXCEPT ![v] = job[m].target]
              /\ moves' = [moves EXCEPT ![v] = @ + 1] /\ UNCHANGED counts
           \/ Faulty /\ UNCHANGED vmVars            \* MigrateVM fails
        /\ Done1(m)
        /\ lock' = IF lock[v] = m THEN [lock EXCEPT ![v] = 0] ELSE lock
        /\ lost' = lost \ {m}
        /\ UNCHANGED <<failed, calls, procVars, regVars, electVars, fixed>>

\* The lock of a dead or cut off owner runs out (30 s).
LockExpire(v) ==
    /\ lock[v] # 0
    /\ LET m == lock[v]
           inside == job[m].at = "migrating" /\ Next1(m) = v
       IN  /\ m \in cut \/ ~inside
           /\ lost' = IF inside THEN lost \cup {m} ELSE lost
    /\ lock' = [lock EXCEPT ![v] = 0]
    /\ UNCHANGED <<procVars, regVars, electVars, detectVars, vmVars, fixed, counts>>

-----------------------------------------------------------------------------
(* Processes and the connection to etcd. *)

\* All a process knows goes with it; its session stays until it expires.
Vanish(n) ==
    /\ queue' = [i \in DOMAIN queue |->
                   IF queue[i].node = n THEN [queue[i] EXCEPT !.gone = TRUE] ELSE queue[i]]
    /\ waiting' = waiting \ {n} /\ winner' = winner \ {n} /\ believes' = believes \ {n}
    /\ quit' = quit \ {n} /\ UNCHANGED single
    /\ failed' = Clear(failed, n, {}) /\ calls' = Clear(calls, n, {})
    /\ job' = Clear(job, n, NoJob) /\ fenced' = Clear(fenced, n, {})
    /\ cut' = cut \ {n} /\ lost' = lost \ {n}
    /\ UNCHANGED <<reg, old, lock, vmVars, fixed>>

Crash(n) ==
    /\ Up(n) /\ crashes < MaxCrashes
    /\ crashes' = crashes + 1 /\ UNCHANGED faults
    /\ phase' = Clear(phase, n, "down") /\ Vanish(n)

\* main: registers (NewEtcdDriver), campaigns and makes a LockManager.
Start(n) ==
    /\ ~Up(n)
    /\ phase' = Clear(phase, n, "up")
    /\ reg' = Clear(reg, n, "online") /\ old' = old \ {n}
    /\ \E alone, inMemory \in BOOLEAN :
        /\ NewLeaderElection(alone \/ inMemory)
        /\ Campaign(n, queue, alone)
        /\ fallback' = IF inMemory THEN fallback \cup {n} ELSE fallback \ {n}
    /\ UNCHANGED <<cut, fenced, detectVars, lockVars, vmVars, policy>>

\* The signal; deferred calls run last to first: leaderElection.Close, ...
CloseElection(n) ==
    /\ phase[n] = "up" /\ Faulty
    /\ phase' = Clear(phase, n, "closing") /\ Resign(n)
    /\ UNCHANGED <<cut, regVars, detectVars, lockVars, vmVars, fixed>>

\* ... hb.Deregister, ...
Deregister(n) ==
    /\ phase[n] = "closing"
    /\ phase' = Clear(phase, n, "deregistered")
    /\ reg' = IF n \in cut THEN reg ELSE Clear(reg, n, "none")
    /\ old' = IF n \in cut THEN old ELSE old \ {n}
    /\ UNCHANGED <<cut, fenced, electVars, detectVars, lockVars, vmVars, fixed, counts>>

\* ... hb.Stop, and the process is gone.
StopHeartbeat(n) ==
    /\ phase[n] = "deregistered"
    /\ phase' = Clear(phase, n, "left") /\ Vanish(n) /\ UNCHANGED counts

Disconnect(n) ==
    /\ Up(n) /\ n \notin cut /\ Faulty
    /\ cut' = cut \cup {n}
    /\ UNCHANGED <<phase, regVars, electVars, detectVars, lockVars, vmVars, fixed>>

Reconnect(n) ==
    /\ n \in cut
    /\ cut' = cut \ {n}
    /\ UNCHANGED <<phase, regVars, electVars, detectVars, lockVars, vmVars, fixed, counts>>

\* The nodes campaign in any order.
Orders(S) == {order \in [1 .. Cardinality(S) -> S] : IsInjective(order)}

ClInit ==
    /\ phase = [n \in Nodes |-> "up"] /\ cut = {}
    /\ reg = [n \in Nodes |-> "online"] /\ old = {}
    /\ fallback \in SUBSET Nodes /\ single \in SUBSET Nodes
    /\ faults = Cardinality(fallback \cup single) /\ faults <= MaxFaults
    /\ \E order \in Orders(Nodes \ single) :
         queue = [i \in DOMAIN order |-> [node |-> order[i], gone |-> FALSE]]
    /\ waiting = Nodes \ single /\ winner = {} /\ believes = single /\ quit = {}
    /\ fenced = [n \in Nodes |-> {}]
    /\ failed = [n \in Nodes |-> {}] /\ calls = [n \in Nodes |-> {}]
    /\ job = [n \in Nodes |-> NoJob]
    /\ lock = [v \in VMs |-> 0] /\ lost = {}
    /\ vmAt = [v \in VMs |-> 1 + ((v - 1) % N)] /\ policy \in [VMs -> Policies]
    /\ moves = [v \in VMs |-> 0] /\ crashes = 0

Steps(n) == \/ register(n) \/ Age(n) \/ Elected(n) \/ StoreLeader(n)
            \/ checkNodes(n) \/ HandleNodeDown(n)
            \/ Acquire(n) \/ AcquireFails(n) \/ WithLock(n)
            \/ Deregister(n) \/ StopHeartbeat(n)

ClNext ==
    \/ \E n \in Nodes :
        \/ Steps(n) \/ CampaignFails(n)
        \/ handleFenceNode(n) \/ handleClusterPromote(n)
        \/ ReadOnly(n)
        \/ Crash(n) \/ Start(n) \/ CloseElection(n)
        \/ Disconnect(n) \/ Reconnect(n)
    \/ \E i \in DOMAIN queue : Expire(i)
    \/ \E v \in VMs : LockExpire(v)

\* The campaign goroutines and etcd's expiry keep going; operators, crashes and
\* the network owe nothing.
ElectionFairness ==
    /\ \A n \in Nodes : WF_clVars(Elected(n)) /\ WF_clVars(StoreLeader(n))
    /\ WF_clVars(\E i \in DOMAIN queue : Expire(i))

\* So do the tickers, the detector's goroutine with its callbacks and the locks.
FailoverFairness ==
    /\ \A n \in Nodes :
        /\ WF_clVars(register(n)) /\ WF_clVars(Age(n))
        /\ WF_clVars(checkNodes(n)) /\ WF_clVars(HandleNodeDown(n))
        /\ WF_clVars(Acquire(n)) /\ WF_clVars(AcquireFails(n)) /\ WF_clVars(WithLock(n))
        /\ WF_clVars(Deregister(n)) /\ WF_clVars(StopHeartbeat(n))
    /\ WF_clVars(\E v \in VMs : LockExpire(v))

ClSpec == ClInit /\ [][ClNext]_clVars /\ ElectionFairness

FailoverSpec == ClSpec /\ FailoverFairness

-----------------------------------------------------------------------------
(* Properties. *)

\* HandleNodeDown migrates a VM only under its distributed lock: two nodes that
\* both take themselves for the leader never migrate the same VM at once, while
\* neither fell back to in-memory locks nor lost the session of its lock.
OneMigrationPerVM ==
    \A v \in VMs :
        Cardinality({m \in Nodes \ (fallback \cup lost) :
                        job[m].at = "migrating" /\ Next1(m) = v}) <= 1

\* One crash and no other fault: no VM is moved before the crash, and none more
\* than once after it, whichever node crashed and comes back, whoever led, and
\* however late the other detectors report the silent node.
OneMovePerCrash == faults = 0 /\ crashes <= 1 => \A v \in VMs : moves[v] <= crashes

\* A VM that is to be restarted is on a node that crashed, the one fault so far.
Stranded(v) == /\ phase[vmAt[v]] = "down" /\ crashes = 1 /\ faults = 0
               /\ policy[v] = "always"

\* What the head of failover.go says of restart_policy "always": such a VM is
\* always restarted or moved when its node fails, here by a single crash.
CrashIsHandled == (\E v \in VMs : Stranded(v)) ~> (\A v \in VMs : ~Stranded(v))

\* The node that heads the election does not act as the leader, although it
\* reaches etcd and its campaign neither failed nor was cancelled.
Vacant == /\ queue # << >> /\ ~queue[1].gone
          /\ queue[1].node \notin believes \cup quit \cup cut

\* Through any crashes and faults: the node that heads the election comes to act
\* as the leader, unless its own campaign failed or was cancelled (Campaign).
LeaderEmerges == Vacant ~> ~Vacant

\* hb.Deregister takes the node out of the registry for good.
LeftIsUnlisted == \A n \in Nodes : phase[n] = "left" => reg[n] = "none"
=============================================================================
