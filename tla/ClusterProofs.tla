--------------------------- MODULE ClusterProofs ----------------------------
(***************************************************************************)
(* The cluster, for any number of nodes, VMs, crashes and faults.          *)
(* OneMigrationPerVM is the lock's doing: a node that migrates owns the    *)
(* lock of the VM, unless its locks are its own (fallback) or it lost the  *)
(* lock under way (lost), and a lock has one owner; two nodes may lead.    *)
(* That one node leads while nothing but crashes has happened is the       *)
(* election's doing, and that one crash moves no VM twice follows from it. *)
(***************************************************************************)
EXTENDS Cluster, FiniteSetTheorems, SequenceTheorems, WellFoundedInduction, TLAPS

\* The shape of a job: VMs still to be moved, at least one while migrating.
JobShape(j) ==
    /\ DOMAIN j = {"down", "todo", "target", "at"}
    /\ j.todo \subseteq VMs
    /\ j.at \in {"idle", "migrating"}
    /\ j.at = "migrating" => j.todo # {}

JobsShaped ==
    /\ job = [m \in Nodes |-> job[m]]
    /\ \A m \in Nodes : JobShape(job[m])
    /\ lock = [v \in VMs |-> lock[v]]

\* Whoever migrates a VM and relies on etcd's lock owns it.
OwnsLock(m) == job[m].at = "migrating" /\ m \notin fallback \cup lost => lock[Next1(m)] = m

LockInv == JobsShaped /\ \A m \in Nodes : OwnsLock(m)

\* A process that is not up migrates nothing.
DownIdle ==
    /\ phase = [n \in Nodes |-> phase[n]]
    /\ \A n \in Nodes : ~Up(n) => job[n].at = "idle"

-----------------------------------------------------------------------------
\* The next VM of a job is one of those it has to move.
LEMMA NextIsTodo ==
    ASSUME NEW S, S \subseteq VMs, S # {}
    PROVE  Min(S) \in S
  <1>1. S \in SUBSET Nat
    BY ClusterConstants DEF VMs
  <1>2. \E x \in S : \A y \in S : <<y, x>> \notin OpToRel(<, Nat)
    BY <1>1, WFMin, NatLessThanWellFounded, Zenon
  <1>3. \A x, y \in Nat : y < x => <<y, x>> \in OpToRel(<, Nat)
    BY DEF OpToRel
  <1>4. \A x, y \in Nat : ~(y < x) => x <= y
    OBVIOUS
  <1>5. \E x \in S : \A y \in S : x <= y
    BY <1>1, <1>2, <1>3, <1>4, Zenon
  <1> QED
    BY <1>5, Zenon DEF Min

\* Nobody migrates at first.
LEMMA LockInit == ClInit => LockInv /\ DownIdle
  <1>1. ClInit => LockInv
    BY DEF ClInit, LockInv, JobsShaped, JobShape, NoJob, OwnsLock
  <1>2. ClInit => DownIdle
    BY DEF ClInit, DownIdle, Up, NoJob
  <1> QED
    BY <1>1, <1>2

\* A step that touches neither jobs nor locks.
LEMMA LockUntouched ==
    LockInv /\ UNCHANGED <<job, lock, lost, fallback>> => LockInv'
  BY DEF LockInv, JobsShaped, JobShape, OwnsLock, Next1

\* HandleNodeDown may give a node that has none a job, not yet begun.
LEMMA HandleNodeDownInv ==
    ASSUME LockInv, NEW m \in Nodes, HandleNodeDown(m)
    PROVE  LockInv'
  <1>1. UNCHANGED <<lock, lost, fallback>>
    BY DEF HandleNodeDown, lockVars, fixed
  <1>2. CASE job' = job
    BY <1>1, <1>2, LockUntouched
  <1>3. ASSUME NEW n, NEW todo, NEW target, todo \subseteq VMs,
               job' = [job EXCEPT ![m] = [down |-> n, todo |-> todo, target |-> target,
                                          at |-> "idle"]]
        PROVE  LockInv'
    <2> DEFINE r == [down |-> n, todo |-> todo, target |-> target, at |-> "idle"]
    <2>1. \A k \in Nodes : job'[k] = IF k = m THEN r ELSE job[k]
      BY <1>3 DEF LockInv, JobsShaped
    <2>2. job' = [k \in Nodes |-> job'[k]]
      BY <1>3 DEF LockInv, JobsShaped
    <2>3. JobShape(r) /\ r.at = "idle"
      BY <1>3 DEF JobShape
    <2> HIDE DEF r
    <2>4. JobsShaped'
      BY <1>1, <2>1, <2>2, <2>3 DEF LockInv, JobsShaped, JobShape
    <2>5. \A k \in Nodes : OwnsLock(k)'
      BY <1>1, <2>1, <2>3 DEF LockInv, OwnsLock, Next1
    <2> QED
      BY <2>4, <2>5 DEF LockInv
  <1> QED
    BY <1>2, <1>3, Zenon DEF HandleNodeDown

\* WithLock begins only on a lock that nobody owns, so nobody else migrates.
LEMMA AcquireInv ==
    ASSUME LockInv, NEW m \in Nodes, Acquire(m)
    PROVE  LockInv'
  <1> DEFINE v == Next1(m)
  <1>1. /\ job' = [job EXCEPT ![m].at = "migrating"]
        /\ lock' = IF m \in fallback THEN lock ELSE [lock EXCEPT ![v] = m]
        /\ m \in fallback \/ lock[v] = 0
        /\ UNCHANGED <<lost, fallback>>
        /\ job[m].todo # {}
    BY DEF Acquire, fixed
  <1>2. /\ \A k \in Nodes \ {m} : job'[k] = job[k]
        /\ job'[m].todo = job[m].todo /\ job'[m].at = "migrating"
        /\ DOMAIN job'[m] = DOMAIN job[m]
        /\ job' = [k \in Nodes |-> job'[k]]
    BY <1>1 DEF LockInv, JobsShaped, JobShape
  <1>3. v \in VMs
    BY <1>1, NextIsTodo DEF LockInv, JobsShaped, JobShape, Next1
  <1>4. \A k \in Nodes : Next1(k)' = Next1(k)
    BY <1>2 DEF Next1
  <1>5. JobsShaped'
    <2>1. \A k \in Nodes : JobShape(job[k])'
      BY <1>1, <1>2, Zenon DEF LockInv, JobsShaped, JobShape
    <2>2. (lock = [w \in VMs |-> lock[w]])'
      BY <1>1 DEF LockInv, JobsShaped
    <2> QED
      BY <1>2, <2>1, <2>2 DEF JobsShaped
  <1>6. m \notin fallback => lock'[v] = m /\ \A w \in VMs : w # v => lock'[w] = lock[w]
    BY <1>1, <1>3 DEF LockInv, JobsShaped
  <1>7. 0 \notin Nodes
    BY ClusterConstants DEF Nodes
  <1>8. \A k \in Nodes : job[k].at = "migrating" => Next1(k) \in VMs
    BY NextIsTodo DEF LockInv, JobsShaped, JobShape, Next1
  <1> HIDE DEF v
  <1>9. \A k \in Nodes \ {m} : OwnsLock(k)'
    <2> SUFFICES ASSUME NEW k \in Nodes \ {m}, job[k].at = "migrating", k \notin fallback \cup lost
                 PROVE  lock'[Next1(k)] = k
      BY <1>1, <1>2, <1>4 DEF OwnsLock
    <2>1. lock[Next1(k)] = k /\ Next1(k) \in VMs
      BY <1>8 DEF LockInv, OwnsLock
    <2> QED
      BY <1>1, <1>6, <1>7, <2>1
  <1>10. OwnsLock(m)'
    BY <1>1, <1>4, <1>6 DEF OwnsLock, v
  <1> QED
    BY <1>5, <1>9, <1>10 DEF LockInv

\* A node gives the VM up or is done with it: it no longer migrates, and the
\* lock it may release is not another migrating node's.
LEMMA DoneInv ==
    ASSUME LockInv, NEW m \in Nodes, Done1(m), UNCHANGED fallback,
           lock' = lock \/ (lock[Next1(m)] = m /\ lock' = [lock EXCEPT ![Next1(m)] = 0]),
           lost' \in {lost, lost \ {m}}
    PROVE  LockInv'
  <1> DEFINE left == job[m].todo \ {Next1(m)}
             r == IF left = {} THEN NoJob ELSE [job[m] EXCEPT !.todo = left, !.at = "idle"]
  <1>1. job' = [job EXCEPT ![m] = r]
    BY DEF Done1, LockInv, JobsShaped
  <1>2. JobShape(r) /\ r.at = "idle"
    BY DEF LockInv, JobsShaped, JobShape, NoJob
  <1> HIDE DEF r
  <1>3. /\ \A k \in Nodes : job'[k] = IF k = m THEN r ELSE job[k]
        /\ job' = [k \in Nodes |-> job'[k]]
    BY <1>1 DEF LockInv, JobsShaped
  <1>4. JobsShaped'
    <2>1. \A k \in Nodes : JobShape(job[k])'
      BY <1>2, <1>3 DEF LockInv, JobsShaped, JobShape
    <2>2. (lock = [w \in VMs |-> lock[w]])'
      BY DEF LockInv, JobsShaped
    <2> QED
      BY <1>3, <2>1, <2>2 DEF JobsShaped
  <1>5. \A k \in Nodes : OwnsLock(k)'
    <2> SUFFICES ASSUME NEW k \in Nodes, job'[k].at = "migrating", k \notin fallback \cup lost'
                 PROVE  lock'[Next1(k)'] = k
      BY DEF OwnsLock
    <2>1. k # m /\ job'[k] = job[k] /\ k \notin fallback \cup lost
      BY <1>2, <1>3
    <2>2. Next1(k)' = Next1(k) /\ lock[Next1(k)] = k
      BY <2>1 DEF LockInv, OwnsLock, Next1
    <2>3. Next1(k) \in VMs
      BY <2>1, NextIsTodo DEF LockInv, JobsShaped, JobShape, Next1
    <2> QED
      BY <2>1, <2>2, <2>3 DEF LockInv, JobsShaped
  <1> QED
    BY <1>4, <1>5 DEF LockInv

\* A lock that runs out under a migrating owner makes it a loser of its lock.
LEMMA LockExpireInv ==
    ASSUME LockInv, NEW v \in VMs, LockExpire(v)
    PROVE  LockInv'
  <1>1. /\ UNCHANGED <<job, fallback>> /\ lock' = [lock EXCEPT ![v] = 0]
        /\ lost \subseteq lost'
        /\ job[lock[v]].at = "migrating" /\ Next1(lock[v]) = v => lock[v] \in lost'
    BY Zenon DEF LockExpire, detectVars, fixed
  <1>2. JobsShaped'
    BY <1>1, Zenon DEF LockInv, JobsShaped, JobShape
  <1>3. \A k \in Nodes : OwnsLock(k)'
    <2> SUFFICES ASSUME NEW k \in Nodes, job[k].at = "migrating", k \notin fallback \cup lost'
                 PROVE  lock'[Next1(k)] = k
      BY <1>1 DEF OwnsLock, Next1
    <2>1. lock[Next1(k)] = k
      BY <1>1 DEF LockInv, OwnsLock
    <2>2. Next1(k) # v
      BY <1>1, <2>1
    <2>3. Next1(k) \in VMs
      BY NextIsTodo DEF LockInv, JobsShaped, JobShape, Next1
    <2> QED
      BY <1>1, <2>1, <2>2, <2>3 DEF LockInv, JobsShaped
  <1> QED
    BY <1>2, <1>3 DEF LockInv

\* A process that ends takes its job with it and leaves its locks behind.
LEMMA VanishInv ==
    ASSUME LockInv, NEW n \in Nodes, Vanish(n)
    PROVE  LockInv'
  <1>1. /\ job' = [job EXCEPT ![n] = NoJob] /\ UNCHANGED <<lock, fallback>>
        /\ lost' = lost \ {n}
    BY DEF Vanish, Clear, fixed
  <1>2. JobShape(NoJob) /\ NoJob.at = "idle"
    BY DEF JobShape, NoJob
  <1>3. /\ \A k \in Nodes : job'[k] = IF k = n THEN NoJob ELSE job[k]
        /\ job' = [k \in Nodes |-> job'[k]]
    BY <1>1 DEF LockInv, JobsShaped
  <1>4. JobsShaped'
    BY <1>1, <1>2, <1>3, Zenon DEF LockInv, JobsShaped, JobShape
  <1>5. \A k \in Nodes : OwnsLock(k)'
    BY <1>1, <1>2, <1>3 DEF LockInv, OwnsLock, Next1
  <1> QED
    BY <1>4, <1>5 DEF LockInv

\* A process that starts has no job, whatever locks it will use.
LEMMA StartLock ==
    ASSUME LockInv, DownIdle, NEW n \in Nodes, Start(n)
    PROVE  LockInv'
  <1>1. /\ UNCHANGED <<job, lock, lost>> /\ ~Up(n)
        /\ fallback' \in {fallback \cup {n}, fallback \ {n}}
    BY Zenon DEF Start, detectVars, lockVars
  <1>2. job[n].at = "idle"
    BY <1>1 DEF DownIdle
  <1>3. JobsShaped'
    BY <1>1, Zenon DEF LockInv, JobsShaped, JobShape
  <1>4. \A k \in Nodes : OwnsLock(k)'
    BY <1>1, <1>2 DEF LockInv, OwnsLock, Next1
  <1> QED
    BY <1>3, <1>4 DEF LockInv

\* No step of the cluster disturbs the invariant.
LEMMA LockStep == LockInv /\ DownIdle /\ [ClNext]_clVars => LockInv'
  <1> SUFFICES ASSUME LockInv, DownIdle, [ClNext]_clVars PROVE LockInv'
    OBVIOUS
  <1> USE DEF detectVars, lockVars, fixed
  <1>1. CASE UNCHANGED clVars
    BY <1>1, LockUntouched DEF clVars
  <1>2. ASSUME NEW n \in Nodes, Steps(n) PROVE LockInv'
    <2>1. CASE register(n) \/ Age(n) \/ Elected(n) \/ StoreLeader(n) \/ checkNodes(n) \/ Deregister(n)
      BY <2>1, LockUntouched, Zenon
         DEF register, Age, Elected, StoreLeader, checkNodes, Deregister
    <2>2. CASE AcquireFails(n)
      BY <2>2, DoneInv, Zenon DEF AcquireFails
    <2>3. CASE WithLock(n)
      BY <2>3, DoneInv DEF WithLock
    <2>4. CASE StopHeartbeat(n)
      BY <2>4, VanishInv DEF StopHeartbeat
    <2> QED
      BY <1>2, <2>1, <2>2, <2>3, <2>4, HandleNodeDownInv, AcquireInv DEF Steps
  <1>3. ASSUME NEW n \in Nodes,
               handleFenceNode(n) \/ handleClusterPromote(n) \/ CampaignFails(n) \/ ReadOnly(n)
        PROVE  LockInv'
    BY <1>3, LockUntouched, Zenon
       DEF handleFenceNode, handleClusterPromote, CampaignFails, ReadOnly, clVars
  <1>4. ASSUME NEW n \in Nodes, CloseElection(n) \/ Disconnect(n) \/ Reconnect(n)
        PROVE  LockInv'
    BY <1>4, LockUntouched DEF CloseElection, Disconnect, Reconnect
  <1>5. ASSUME NEW n \in Nodes, Crash(n) PROVE LockInv'
    BY <1>5, VanishInv DEF Crash
  <1>6. ASSUME NEW i, Expire(i) PROVE LockInv'
    BY <1>6, LockUntouched DEF Expire
  <1> QED
    BY <1>1, <1>2, <1>3, <1>4, <1>5, <1>6, LockExpireInv, StartLock DEF ClNext

\* A step of a process that is up, or that changes no job.
LEMMA DownKept ==
    ASSUME DownIdle, phase' = phase,
           \A k \in Nodes : job'[k] = job[k] \/ Up(k)
    PROVE  DownIdle'
  BY DEF DownIdle, Up

\* Only a process that is up has a job; one that ends gives it up.
LEMMA DownStep == LockInv /\ DownIdle /\ [ClNext]_clVars => DownIdle'
  <1> SUFFICES ASSUME LockInv, DownIdle, [ClNext]_clVars PROVE DownIdle'
    OBVIOUS
  <1> USE DEF detectVars, procVars
  <1>0. JobsShaped
    BY DEF LockInv
  <1>1. CASE UNCHANGED clVars
    BY <1>1, DownKept DEF clVars
  <1>A. ASSUME NEW n \in Nodes, NEW x, phase' = [phase EXCEPT ![n] = x],
               x \in {"up", "closing", "deregistered"}, job' = job
        PROVE  DownIdle'
    BY <1>A DEF DownIdle, Up
  <1>B. ASSUME NEW n \in Nodes, NEW x, phase' = [phase EXCEPT ![n] = x], Vanish(n)
        PROVE  DownIdle'
    <2>1. job' = [job EXCEPT ![n] = NoJob] /\ NoJob.at = "idle"
      BY <1>B DEF Vanish, Clear, NoJob
    <2>2. job'[n].at = "idle" /\ \A k \in Nodes : k # n => job'[k] = job[k]
      BY <1>0, <2>1 DEF JobsShaped
    <2> QED
      BY <1>B, <2>2 DEF DownIdle, Up
  <1>2. ASSUME NEW n \in Nodes, Steps(n) PROVE DownIdle'
    <2>1. CASE register(n) \/ Age(n) \/ Elected(n) \/ StoreLeader(n) \/ checkNodes(n)
      BY <2>1, DownKept, Zenon DEF register, Age, Elected, StoreLeader, checkNodes
    <2>2. CASE HandleNodeDown(n) \/ Acquire(n) \/ AcquireFails(n) \/ WithLock(n)
      <3>1. Up(n) /\ phase' = phase
        BY <2>2, Zenon DEF HandleNodeDown, Acquire, AcquireFails, WithLock
      <3>2. CASE HandleNodeDown(n)
        <4>1. job' = job \/ \E x : job' = [job EXCEPT ![n] = x]
          BY <3>2, Zenon DEF HandleNodeDown
        <4> QED
          BY <1>0, <3>1, <4>1, DownKept DEF JobsShaped
      <3>3. CASE Acquire(n)
        BY <1>0, <3>1, <3>3, DownKept DEF Acquire, JobsShaped
      <3>4. CASE AcquireFails(n) \/ WithLock(n)
        <4>1. \E x : job' = [job EXCEPT ![n] = x]
          BY <1>0, <3>4 DEF AcquireFails, WithLock, Done1, JobsShaped
        <4> QED
          BY <1>0, <3>1, <4>1, DownKept DEF JobsShaped
      <3> QED
        BY <2>2, <3>2, <3>3, <3>4
    <2>3. CASE Deregister(n)
      BY <1>A, <2>3 DEF Deregister, Clear
    <2>4. CASE StopHeartbeat(n)
      BY <1>B, <2>4 DEF StopHeartbeat, Clear
    <2> QED
      BY <1>2, <2>1, <2>2, <2>3, <2>4 DEF Steps
  <1>3. ASSUME NEW n \in Nodes,
               \/ handleFenceNode(n) \/ handleClusterPromote(n) \/ CampaignFails(n) \/ ReadOnly(n)
               \/ Disconnect(n) \/ Reconnect(n)
        PROVE  DownIdle'
    BY <1>3, DownKept, Zenon
       DEF handleFenceNode, handleClusterPromote, CampaignFails, ReadOnly, Disconnect, Reconnect,
       clVars
  <1>4. ASSUME NEW n \in Nodes, Start(n) \/ CloseElection(n) PROVE DownIdle'
    BY <1>A, <1>4 DEF Start, CloseElection, Clear
  <1>5. ASSUME NEW n \in Nodes, Crash(n) PROVE DownIdle'
    BY <1>B, <1>5 DEF Crash, Clear
  <1>6. ASSUME NEW x, Expire(x) \/ LockExpire(x) PROVE DownIdle'
    BY <1>6, DownKept, Zenon DEF Expire, LockExpire
  <1> QED
    BY <1>1, <1>2, <1>3, <1>4, <1>5, <1>6, Zenon DEF ClNext

\* Owners of one lock are one node.
LEMMA OneOwner == LockInv => OneMigrationPerVM
  <1> SUFFICES ASSUME LockInv, NEW v \in VMs
               PROVE  Cardinality({m \in Nodes \ (fallback \cup lost) :
                                      job[m].at = "migrating" /\ Next1(m) = v}) <= 1
    BY DEF OneMigrationPerVM
  <1> DEFINE S == {m \in Nodes \ (fallback \cup lost) : job[m].at = "migrating" /\ Next1(m) = v}
  <1>1. S \subseteq {lock[v]}
    BY DEF LockInv, OwnsLock
  <1>2. IsFiniteSet({lock[v]}) /\ Cardinality({lock[v]}) = 1
    BY FS_Singleton, Zenon
  <1> HIDE DEF S
  <1>3. Cardinality(S) <= 1
    BY <1>1, <1>2, FS_Subset
  <1> QED
    BY <1>3 DEF S

\* For any number of nodes, VMs, crashes and faults, and however many nodes take
\* themselves for the leader: HandleNodeDown moves a VM on one node at a time,
\* among those that use etcd's locks and have not lost theirs.
THEOREM LocksSerialise == ClSpec => []OneMigrationPerVM
  <1> QED
    BY LockInit, LockStep, DownStep, OneOwner, PTL DEF ClSpec

-----------------------------------------------------------------------------
(* OneLeader. The keys under /hcv/leader.                                  *)

\* A key under /hcv/leader.
Entry == [node : Nodes, gone : BOOLEAN]

\* n's keys in a queue q that are alive.
Alive(q, n) == {i \in DOMAIN q : q[i].node = n /\ q[i].gone = FALSE}

\* A queue in which a node has at most one key that is alive.
OneKeyEach(q) ==
    /\ q \in Seq(Entry)
    /\ \A n \in Nodes : \A i, j \in Alive(q, n) : i = j

\* RemoveAt on a sequence, by positions.
LEMMA RemoveIs ==
    ASSUME NEW S, NEW q \in Seq(S), NEW i \in 1 .. Len(q)
    PROVE  /\ RemoveAt(q, i) \in Seq(S)
           /\ Len(RemoveAt(q, i)) = Len(q) - 1
           /\ \A j \in 1 .. (Len(q) - 1) : /\ j < i => RemoveAt(q, i)[j] = q[j]
                                           /\ j >= i => RemoveAt(q, i)[j] = q[j + 1]
  <1>1. Len(q) \in Nat /\ \A j \in 1 .. Len(q) : q[j] \in S
    OBVIOUS
  <1>2. PICK a : a = SubSeq(q, 1, i - 1)
    BY Zenon
  <1>3. PICK b : b = SubSeq(q, i + 1, Len(q))
    BY Zenon
  <1>4. /\ a \in Seq(S) /\ Len(a) = i - 1
        /\ \A j \in 1 .. (i - 1) : a[j] = q[j]
    BY <1>1, <1>2, SubSeqProperties
  <1>5. /\ b \in Seq(S) /\ Len(b) = Len(q) - i
        /\ \A j \in 1 .. (Len(q) - i) : b[j] = q[i + j]
    BY <1>1, <1>3, SubSeqProperties
  <1>6. RemoveAt(q, i) = a \o b
    BY <1>2, <1>3 DEF RemoveAt
  <1>7. /\ a \o b \in Seq(S) /\ Len(a \o b) = Len(a) + Len(b)
        /\ \A j \in 1 .. (Len(a) + Len(b)) :
              (a \o b)[j] = IF j <= Len(a) THEN a[j] ELSE b[j - Len(a)]
    BY <1>4, <1>5, ConcatProperties, Zenon
  <1>8. ASSUME NEW j \in 1 .. (Len(q) - 1)
        PROVE  /\ j < i => (a \o b)[j] = q[j]
               /\ j >= i => (a \o b)[j] = q[j + 1]
    <2>1. ASSUME j < i PROVE (a \o b)[j] = q[j]
      BY <1>1, <1>4, <1>5, <1>7, <2>1
    <2>2. ASSUME j >= i PROVE (a \o b)[j] = q[j + 1]
      <3>1. PICK k \in 1 .. (Len(q) - i) : k = j - Len(a) /\ i + k = j + 1
        BY <1>1, <1>4, <2>2
      <3>2. (a \o b)[j] = b[k]
        <4>1. ~(j <= Len(a)) /\ j \in 1 .. (Len(a) + Len(b))
          BY <1>1, <1>4, <1>5, <2>2
        <4> QED
          BY <1>7, <3>1, <4>1, Zenon
      <3>3. b[k] = q[j + 1]
        BY <1>5, <3>1, Zenon
      <3> QED
        BY <1>1, <2>2, <3>2, <3>3, Zenon
    <2> QED
      BY <2>1, <2>2, Zenon
  <1>9. Len(a) + Len(b) = Len(q) - 1
    BY <1>1, <1>4, <1>5
  <1>10. a \o b \in Seq(S) /\ Len(a \o b) = Len(q) - 1
    BY <1>7, <1>9, Zenon
  <1> QED
    BY <1>6, <1>8, <1>10, Zenon

\* What is left of the keys when one that is not alive is removed.
LEMMA RemoveGone ==
    ASSUME NEW q, OneKeyEach(q), NEW i \in DOMAIN q, q[i].gone # FALSE
    PROVE  /\ OneKeyEach(RemoveAt(q, i))
           /\ \A n \in Nodes : Alive(q, n) # {} => Alive(RemoveAt(q, i), n) # {}
           /\ \A n \in Nodes : 1 \in Alive(q, n) => 1 \in Alive(RemoveAt(q, i), n)
           /\ \A n \in Nodes : Alive(RemoveAt(q, i), n) # {} => Alive(q, n) # {}
  <1>1. PICK r : r = RemoveAt(q, i)
    OBVIOUS
  <1>2. i \in 1 .. Len(q) /\ DOMAIN q = 1 .. Len(q) /\ Len(q) \in Nat /\ q \in Seq(Entry)
    BY DEF OneKeyEach
  <1>3. /\ r \in Seq(Entry) /\ Len(r) = Len(q) - 1 /\ DOMAIN r = 1 .. (Len(q) - 1)
        /\ \A j \in 1 .. (Len(q) - 1) : /\ j < i => r[j] = q[j]
                                        /\ j >= i => r[j] = q[j + 1]
    <2>1. /\ RemoveAt(q, i) \in Seq(Entry) /\ Len(RemoveAt(q, i)) = Len(q) - 1
          /\ \A j \in 1 .. (Len(q) - 1) : /\ j < i => RemoveAt(q, i)[j] = q[j]
                                          /\ j >= i => RemoveAt(q, i)[j] = q[j + 1]
      BY <1>2, RemoveIs, Zenon
    <2> QED
      BY <1>1, <2>1
  <1>4. ASSUME NEW n \in Nodes, NEW j \in Alive(q, n)
        PROVE  (IF j < i THEN j ELSE j - 1) \in Alive(r, n) /\ j # i
    <2>1. j \in 1 .. Len(q) /\ j # i /\ q[j].node = n /\ q[j].gone = FALSE
      BY <1>2, Zenon DEF Alive
    <2>2. PICK k : k = IF j < i THEN j ELSE j - 1
      OBVIOUS
    <2>3. k \in 1 .. (Len(q) - 1) /\ r[k] = q[j]
      BY <1>2, <1>3, <2>1, <2>2
    <2> QED
      BY <1>3, <2>1, <2>2, <2>3, Zenon DEF Alive
  <1>5. ASSUME NEW n \in Nodes, NEW j \in Alive(r, n)
        PROVE  (IF j < i THEN j ELSE j + 1) \in Alive(q, n)
    <2>1. j \in 1 .. (Len(q) - 1) /\ r[j].node = n /\ r[j].gone = FALSE
      BY <1>3, Zenon DEF Alive
    <2>2. PICK k : k = IF j < i THEN j ELSE j + 1
      OBVIOUS
    <2>3. k \in 1 .. Len(q) /\ r[j] = q[k]
      BY <1>2, <1>3, <2>1, <2>2
    <2> QED
      BY <1>2, <2>1, <2>2, <2>3, Zenon DEF Alive
  <1>6. ASSUME NEW n \in Nodes, NEW j \in Alive(r, n), NEW k \in Alive(r, n)
        PROVE  j = k
    <2>1. (IF j < i THEN j ELSE j + 1) = (IF k < i THEN k ELSE k + 1)
      BY <1>5, Zenon DEF OneKeyEach
    <2>2. j \in Nat /\ k \in Nat
      BY <1>3 DEF Alive
    <2> QED
      BY <1>2, <2>1, <2>2
  <1>7. ASSUME NEW n \in Nodes, 1 \in Alive(q, n)
        PROVE  1 \in Alive(r, n)
    BY <1>2, <1>4, <1>7
  <1> QED
    BY <1>1, <1>3, <1>4, <1>5, <1>6, <1>7, Zenon DEF OneKeyEach

\* The key of a node that campaigns.
KeyOf(n) == [node |-> n, gone |-> FALSE]

\* A key that joins the queue.
LEMMA AppendKey ==
    ASSUME NEW q, OneKeyEach(q), NEW n \in Nodes, Alive(q, n) = {},
           NEW r, r = Append(q, KeyOf(n))
    PROVE  /\ OneKeyEach(r)
           /\ Alive(r, n) # {}
           /\ \A m \in Nodes : m # n => Alive(r, m) = Alive(q, m)
  <1>1. PICK e : e = KeyOf(n)
    OBVIOUS
  <1>2. e \in Entry /\ e.node = n /\ e.gone = FALSE
    BY <1>1 DEF Entry, KeyOf
  <1>3. q \in Seq(Entry) /\ Len(q) \in Nat /\ DOMAIN q = 1 .. Len(q)
    BY DEF OneKeyEach
  <1>4. /\ r \in Seq(Entry) /\ DOMAIN r = 1 .. (Len(q) + 1)
        /\ \A i \in 1 .. Len(q) : r[i] = q[i]
        /\ r[Len(q) + 1] = e
    BY <1>1, <1>2, <1>3, AppendProperties
  <1>5. ASSUME NEW m \in Nodes, NEW i
        PROVE  i \in Alive(r, m) <=> i \in Alive(q, m) \/ (i = Len(q) + 1 /\ m = n)
    BY <1>2, <1>3, <1>4 DEF Alive
  <1>6. \A m \in Nodes : m # n => Alive(r, m) = Alive(q, m)
    BY <1>5, Zenon
  <1>7. Alive(r, n) = {Len(q) + 1}
    BY <1>5, Zenon
  <1>8. \A m \in Nodes : \A i, j \in Alive(r, m) : i = j
    <2>1. ASSUME NEW m \in Nodes, m # n PROVE \A i, j \in Alive(r, m) : i = j
      BY <1>6, <2>1, Zenon DEF OneKeyEach
    <2>2. \A i, j \in Alive(r, n) : i = j
      BY <1>7, Zenon
    <2> QED
      BY <2>1, <2>2, Zenon
  <1> QED
    BY <1>4, <1>6, <1>7, <1>8, Zenon DEF OneKeyEach

\* The keys of the nodes at first: one each.
LEMMA InitKeys ==
    ASSUME NEW order \in Orders(Nodes),
           NEW q, q = [i \in DOMAIN order |-> [node |-> order[i], gone |-> FALSE]]
    PROVE  OneKeyEach(q) /\ \A n \in Nodes : Alive(q, n) # {}
  <1>1. IsFiniteSet(Nodes) /\ Cardinality(Nodes) = N /\ N \in Nat
    BY FS_Interval, ClusterConstants DEF Nodes
  <1>2. order \in [1 .. N -> Nodes] /\ \A i, j \in 1 .. N : i # j => order[i] # order[j]
    BY <1>1 DEF Orders, IsInjective
  <1>3. order \in Surjection(1 .. N, Nodes)
    <2>1. order \in Injection(1 .. N, Nodes)
      BY <1>2 DEF Injection, IsInjective
    <2>2. Cardinality(1 .. N) = N
      BY <1>1, FS_Interval
    <2> QED
      BY <1>1, <2>1, <2>2, FS_Injection
  <1>4. /\ q \in Seq(Entry) /\ DOMAIN q = 1 .. N
        /\ \A i \in 1 .. N : q[i].node = order[i] /\ q[i].gone = FALSE
    <2>1. \A i \in 1 .. N : [node |-> order[i], gone |-> FALSE] \in Entry
      BY <1>2 DEF Entry
    <2> QED
      BY <1>1, <1>2, <2>1
  <1>5. \A n \in Nodes : \E i \in 1 .. N : order[i] = n
    BY <1>3 DEF Surjection
  <1> QED
    BY <1>2, <1>4, <1>5 DEF OneKeyEach, Alive

-----------------------------------------------------------------------------
\* The election while nothing but crashes has happened: a node waits only with a live
\* key, only the first key makes a leader, a live key is a live process's, and only a
\* leader has a job.
Election ==
    /\ fallback = {} /\ cut = {}
    /\ phase \in [Nodes -> {"up", "down"}]
    /\ reg = [n \in Nodes |-> "online"]
    /\ OneKeyEach(queue)
    /\ waiting \subseteq Nodes /\ winner \subseteq Nodes /\ believes \subseteq Nodes
    /\ \A n \in waiting : Alive(queue, n) # {}
    /\ \A n \in winner \cup believes : 1 \in Alive(queue, n)
    /\ \A n \in Nodes : Alive(queue, n) # {} => phase[n] = "up"
    /\ \A m \in Nodes : job[m].todo # {} => m \in believes

\* The inductive invariant behind OneLeader.
ElInv == LockInv /\ DownIdle /\ faults \in Nat /\ (faults = 0 => Election)

\* The head of the queue is one key, so one node leads.
OneLeader == faults = 0 => \A m, n \in believes : m = n

\* It gives the property.
LEMMA ElLeader == ElInv => OneLeader
  BY DEF ElInv, Election, OneLeader, Alive

\* A node's own keys are its live ones.
LEMMA OwnAlive ==
    ASSUME OneKeyEach(queue), NEW n \in Nodes
    PROVE  OwnKeys(n) = Alive(queue, n)
  <1>1. \A i \in DOMAIN queue : queue[i] \in Entry
    BY DEF OneKeyEach
  <1>2. \A i \in DOMAIN queue : ~queue[i].gone <=> queue[i].gone = FALSE
    BY <1>1, Zenon DEF Entry
  <1> QED
    BY <1>2 DEF OwnKeys, Alive

\* Every node has one key at first.
LEMMA ElInit == ClInit => ElInv
  <1> SUFFICES ASSUME ClInit PROVE ElInv
    OBVIOUS
  <1>1. IsFiniteSet(Nodes)
    BY FS_Interval, ClusterConstants DEF Nodes
  <1>2. PICK S \in SUBSET Nodes : S = fallback \cup single /\ faults = Cardinality(S)
    BY Zenon DEF ClInit
  <1>3. IsFiniteSet(S)
    BY <1>1, <1>2, FS_Subset
  <1>4. faults \in Nat
    BY <1>2, <1>3, FS_CardinalityType
  <1>5. ASSUME faults = 0 PROVE Election
    <2>0. S = {}
      BY <1>2, <1>3, <1>5, FS_EmptySet, Zenon
    <2>1. fallback = {} /\ single = {} /\ Nodes \ single = Nodes
      BY <1>2, <2>0, Zenon
    <2>2. PICK order \in Orders(Nodes) :
             queue = [i \in DOMAIN order |-> [node |-> order[i], gone |-> FALSE]]
      BY <2>1, Zenon DEF ClInit
    <2>3. OneKeyEach(queue) /\ \A n \in Nodes : Alive(queue, n) # {}
      BY <2>2, InitKeys, Zenon
    <2> QED
      BY <2>1, <2>3, Zenon DEF ClInit, Election, NoJob
  <1> QED
    BY <1>4, <1>5, LockInit DEF ElInv

\* Steps that leave processes, registry and election alone; a job is the leader's.
LEMMA ElKept ==
    ASSUME Election, UNCHANGED <<phase, cut, fallback, reg, queue, waiting, winner, believes>>,
           \A m \in Nodes : job'[m].todo # {} => job[m].todo # {} \/ m \in believes
    PROVE  Election'
  BY Zenon DEF Election

\* One node's job is replaced.
LEMMA JobsShow ==
    ASSUME JobsShaped, NEW m \in Nodes, NEW r, job' = [job EXCEPT ![m] = r]
    PROVE  job'[m] = r /\ \A k \in Nodes : k # m => job'[k] = job[k]
  BY DEF JobsShaped

\* The job is done with its next VM.
LEMMA DoneShows ==
    ASSUME JobsShaped, NEW m \in Nodes, Done1(m)
    PROVE  /\ job'[m].todo = job[m].todo \ {Next1(m)}
           /\ job'[m].todo # {} => job'[m].target = job[m].target
           /\ \A k \in Nodes : k # m => job'[k] = job[k]
  <1>1. PICK j : j = job[m] /\ DOMAIN j = {"down", "todo", "target", "at"}
    BY Zenon DEF JobsShaped, JobShape
  <1>2. PICK left : left = j.todo \ {Next1(m)}
    BY Zenon
  <1>3. PICK r : r = IF left = {} THEN NoJob ELSE [j EXCEPT !.todo = left, !.at = "idle"]
    OBVIOUS
  <1>4. job' = [job EXCEPT ![m] = r]
    BY <1>1, <1>2, <1>3 DEF Done1, JobsShaped
  <1>5. r.todo = left /\ (left # {} => r.target = j.target)
    BY <1>1, <1>3 DEF NoJob
  <1> QED
    BY <1>1, <1>2, <1>4, <1>5, JobsShow, Zenon

\* The lock is taken: the job stays what it is.
LEMMA AcquireShows ==
    ASSUME JobsShaped, NEW m \in Nodes, job' = [job EXCEPT ![m].at = "migrating"]
    PROVE  /\ job'[m].todo = job[m].todo /\ job'[m].target = job[m].target
           /\ \A k \in Nodes : k # m => job'[k] = job[k]
  BY DEF JobsShaped, JobShape

\* election.Campaign returns for the node with the first key.
LEMMA ElectedEl ==
    ASSUME Election, NEW n \in Nodes, Elected(n)
    PROVE  Election'
  <1>1. n \in waiting /\ CurrentKey(n) \in {{}, {1}}
    BY DEF Elected
  <1>2. PICK i \in Alive(queue, n) : \A j \in Alive(queue, n) : j = i
    BY <1>1 DEF Election, OneKeyEach
  <1>3. OwnKeys(n) = Alive(queue, n)
    BY OwnAlive, Zenon DEF Election
  <1>4. i \in Int
    BY <1>2 DEF Alive, Election, OneKeyEach
  <1>5. i \in CurrentKey(n)
    <2>1. i \in OwnKeys(n) /\ \A j \in OwnKeys(n) : j = i
      BY <1>2, <1>3
    <2>2. \A j \in OwnKeys(n) : j <= i
      BY <1>4, <2>1
    <2> QED
      BY <2>1, <2>2 DEF CurrentKey
  <1>6. 1 \in Alive(queue, n)
    BY <1>1, <1>2, <1>5
  <1> QED
    BY <1>6, Zenon DEF Election, Elected, procVars, regVars, detectVars, fixed

\* Only keys of processes that are gone expire: a first key that is alive stays first.
LEMMA ExpireEl ==
    ASSUME Election, NEW i, Expire(i)
    PROVE  Election'
  <1>1. i \in DOMAIN queue /\ queue[i].gone # FALSE /\ queue' = RemoveAt(queue, i)
    BY Zenon DEF Expire, Election
  <1>2. PICK q : q = queue
    OBVIOUS
  <1>3. PICK r : r = RemoveAt(q, i)
    OBVIOUS
  <1>4. /\ OneKeyEach(r)
        /\ \A n \in Nodes : Alive(q, n) # {} => Alive(r, n) # {}
        /\ \A n \in Nodes : 1 \in Alive(q, n) => 1 \in Alive(r, n)
        /\ \A n \in Nodes : Alive(r, n) # {} => Alive(q, n) # {}
    BY <1>1, <1>2, <1>3, RemoveGone, Zenon DEF Election
  <1>5. queue' = r
    BY <1>1, <1>2, <1>3
  <1> QED
    BY <1>2, <1>4, <1>5, Zenon
       DEF Election, Expire, procVars, regVars, detectVars, fixed

\* With the process goes its claim to lead.
LEMMA CrashEl ==
    ASSUME Election, JobsShaped, NEW n \in Nodes, Crash(n)
    PROVE  Election'
  <1>1. PICK q : q = queue
    OBVIOUS
  <1>2. PICK r : r = [i \in DOMAIN q |-> IF q[i].node = n THEN [q[i] EXCEPT !.gone = TRUE] ELSE q[i]]
    BY Zenon
  <1>3. OneKeyEach(r) /\ Alive(r, n) = {} /\ \A m \in Nodes : m # n => Alive(r, m) = Alive(q, m)
    <2>1. OneKeyEach(q)
      BY <1>1, Zenon DEF Election
    <2>2. q \in Seq(Entry) /\ Len(q) \in Nat /\ DOMAIN q = 1 .. Len(q)
      BY <2>1 DEF OneKeyEach
    <2>3. ASSUME NEW i \in DOMAIN q
          PROVE  /\ r[i] \in Entry /\ r[i].node = q[i].node
                 /\ q[i].node = n => r[i].gone = TRUE
                 /\ q[i].node # n => r[i] = q[i]
      <3>1. PICK e \in Entry : e = q[i]
        BY <2>2
      <3>2. PICK f : f = [e EXCEPT !.gone = TRUE]
        BY Zenon
      <3>3. f \in Entry /\ f.node = e.node /\ f.gone = TRUE
        BY <3>2, Zenon DEF Entry
      <3>4. r[i] = IF e.node = n THEN f ELSE e
        BY <1>2, <3>1, <3>2
      <3> QED
        BY <3>1, <3>3, <3>4, Zenon
    <2>4. r \in Seq(Entry) /\ DOMAIN r = DOMAIN q
      <3>1. r \in [1 .. Len(q) -> Entry]
        BY <1>2, <2>2, <2>3, Zenon
      <3> QED
        BY <2>2, <3>1
    <2>5. ASSUME NEW m \in Nodes, NEW i
          PROVE  i \in Alive(r, m) <=> i \in Alive(q, m) /\ m # n
      BY <2>3, <2>4, Zenon DEF Alive
    <2>6. Alive(r, n) = {} /\ \A m \in Nodes : m # n => Alive(r, m) = Alive(q, m)
      BY <2>5
    <2>7. \A m \in Nodes : \A i, j \in Alive(r, m) : i = j
      BY <2>1, <2>6 DEF OneKeyEach
    <2> QED
      BY <2>4, <2>6, <2>7, Zenon DEF OneKeyEach
  <1>4. /\ queue' = r /\ waiting' = waiting \ {n} /\ winner' = winner \ {n} /\ believes' = believes \ {n}
        /\ cut' = cut \ {n} /\ UNCHANGED <<reg, fallback>>
        /\ phase' = [phase EXCEPT ![n] = "down"]
        /\ job' = [job EXCEPT ![n] = NoJob]
    BY <1>1, <1>2 DEF Crash, Vanish, Clear, fixed
  <1>5. job'[n].todo = {} /\ \A m \in Nodes : m # n => job'[m] = job[m]
    <2>1. NoJob.todo = {}
      BY DEF NoJob
    <2>2. PICK j : j = NoJob
      OBVIOUS
    <2> QED
      BY <1>4, <2>1, <2>2, JobsShow, Zenon
  <1> QED
    BY <1>1, <1>3, <1>4, <1>5, Zenon DEF Election

\* A node that comes back and reaches etcd queues up behind the others.
LEMMA StartEl ==
    ASSUME Election, NEW n \in Nodes, ~Up(n), Campaign(n, queue, FALSE), fallback' = fallback \ {n},
           phase' = Clear(phase, n, "up"), reg' = Clear(reg, n, "online"), UNCHANGED <<cut, job>>
    PROVE  Election'
  <1>1. PICK q : q = queue
    OBVIOUS
  <1>2. PICK r : r = Append(q, KeyOf(n))
    BY Zenon
  <1>3. Alive(q, n) = {}
    BY <1>1, Zenon DEF Up, Election
  <1>4. OneKeyEach(r) /\ Alive(r, n) # {} /\ \A m \in Nodes : m # n => Alive(r, m) = Alive(q, m)
    <2>1. OneKeyEach(q)
      BY <1>1, Zenon DEF Election
    <2> QED
      BY <1>2, <1>3, <2>1, AppendKey, ZenonT(60)
  <1>5. /\ queue' = r /\ waiting' = waiting \cup {n} /\ winner' = winner /\ believes' = believes \ {n}
        /\ UNCHANGED <<cut, fallback, job>>
        /\ phase' = [phase EXCEPT ![n] = "up"] /\ reg' = [reg EXCEPT ![n] = "online"]
    BY <1>1, <1>2, Zenon DEF Campaign, Clear, KeyOf, Election
  <1>6. n \notin winner \cup believes
    BY <1>1, <1>3, Zenon DEF Election
  <1> QED
    BY <1>1, <1>3, <1>4, <1>5, <1>6, Zenon DEF Election

\* What a step does to the election: a fault is counted, or there is none and
\* the election stays in order.
ElMoves == faults' = faults + 1 \/ (faults' = faults /\ (Election => Election'))

\* No step of the cluster but a fault upsets the election.
LEMMA ElSteps ==
    ASSUME LockInv, [ClNext]_clVars
    PROVE  ElMoves
  <1> USE DEF counts
  <1>0. JobsShaped
    BY DEF LockInv
  <1>1. CASE UNCHANGED clVars
    BY <1>1, Zenon
       DEF ElMoves, Election, clVars, procVars, regVars, electVars, detectVars, fixed
  <1>2. ASSUME NEW n \in Nodes, Steps(n) PROVE ElMoves
    <2>1. CASE register(n)
      <3>1. faults' = faults /\ UNCHANGED <<phase, cut, fallback, queue, waiting, winner, believes, job>>
            /\ reg' = [reg EXCEPT ![n] = "online"]
        BY <2>1 DEF register, Clear, procVars, electVars, detectVars, fixed
      <3> QED
        BY <3>1, Zenon DEF Election, ElMoves
    <2>2. CASE Age(n) \/ checkNodes(n)
      <3>1. faults' = faults /\ UNCHANGED <<phase, cut, fallback, reg, queue, waiting, winner, believes, job>>
        BY <2>2, Zenon
           DEF Age, checkNodes, procVars, regVars, electVars, detectVars, fixed
      <3> QED
        BY <3>1, Zenon DEF Election, ElMoves
    <2>3. CASE Elected(n)
      BY <2>3, ElectedEl, Zenon DEF Elected, ElMoves
    <2>4. CASE StoreLeader(n)
      <3>1. faults' = faults /\ UNCHANGED <<phase, cut, fallback, reg, queue, waiting, job>>
            /\ n \in winner /\ winner' = winner \ {n} /\ believes' = believes \cup {n}
        BY <2>4, Zenon DEF StoreLeader, procVars, regVars, detectVars, fixed
      <3> QED
        BY <3>1, Zenon DEF Election, ElMoves
    <2>5. CASE HandleNodeDown(n)
      <3>1. faults' = faults /\ UNCHANGED <<phase, cut, fallback, reg, queue, waiting, winner, believes>>
        BY <2>5, Zenon DEF HandleNodeDown, procVars, regVars, electVars, fixed
      <3>2. UNCHANGED job \/ (n \in believes /\ \E r : job' = [job EXCEPT ![n] = r])
        BY <2>5, Zenon DEF HandleNodeDown
      <3>3. \A m \in Nodes : job'[m].todo # {} => job[m].todo # {} \/ m \in believes
        BY <1>0, <3>2, JobsShow
      <3> QED
        BY <3>1, <3>3, ElKept, Zenon DEF ElMoves
    <2>6. CASE Acquire(n)
      <3>1. faults' = faults /\ UNCHANGED <<phase, cut, fallback, reg, queue, waiting, winner, believes>>
        BY <2>6 DEF Acquire, procVars, regVars, electVars, fixed
      <3>2. \A m \in Nodes : job'[m].todo # {} => job[m].todo # {} \/ m \in believes
        BY <1>0, <2>6, AcquireShows DEF Acquire
      <3> QED
        BY <3>1, <3>2, ElKept, Zenon DEF ElMoves
    <2>7. CASE AcquireFails(n) \/ WithLock(n)
      <3>1. faults' \in {faults, faults + 1} /\ UNCHANGED <<phase, cut, fallback, reg, queue, waiting, winner, believes>>
        BY <2>7, Zenon
           DEF AcquireFails, WithLock, Faulty, procVars, regVars, electVars, fixed
      <3>2. \A m \in Nodes : job'[m].todo # {} => job[m].todo # {} \/ m \in believes
        BY <1>0, <2>7, DoneShows, Zenon DEF AcquireFails, WithLock
      <3> QED
        BY <3>1, <3>2, ElKept, Zenon DEF ElMoves
    <2>8. CASE Deregister(n) \/ StopHeartbeat(n)
      <3>1. faults' = faults /\ phase[n] \notin {"up", "down"}
        BY <2>8, Zenon DEF Deregister, StopHeartbeat
      <3> QED
        BY <3>1, Zenon DEF Election, ElMoves
    <2> QED
      BY <1>2, <2>1, <2>2, <2>3, <2>4, <2>5, <2>6, <2>7, <2>8 DEF Steps
  <1>3. ASSUME NEW n \in Nodes, ReadOnly(n) PROVE UNCHANGED clVars
    BY <1>3 DEF ReadOnly
  <1>4. ASSUME NEW n \in Nodes, CampaignFails(n) PROVE ElMoves
    <2>1. faults' = faults + 1 \/ (n \in cut /\ faults' = faults)
      BY <1>4, Zenon DEF CampaignFails, Faulty
    <2>2. Election => n \notin cut
      BY DEF Election
    <2> QED
      BY <2>1, <2>2, Zenon DEF ElMoves
  <1>5. ASSUME NEW n \in Nodes,
               handleFenceNode(n) \/ handleClusterPromote(n) \/ CloseElection(n) \/ Disconnect(n)
        PROVE  faults' = faults + 1
    BY <1>5, Zenon DEF handleFenceNode, handleClusterPromote, CloseElection, Disconnect, Faulty
  <1>6. ASSUME NEW n \in Nodes, Crash(n) PROVE ElMoves
    BY <1>0, <1>6, CrashEl, Zenon DEF Crash, ElMoves
  <1>7. ASSUME NEW n \in Nodes, Start(n) PROVE ElMoves
    <2>1. PICK alone \in BOOLEAN, inMemory \in BOOLEAN :
             /\ NewLeaderElection(alone \/ inMemory) /\ Campaign(n, queue, alone)
             /\ fallback' = IF inMemory THEN fallback \cup {n} ELSE fallback \ {n}
      BY <1>7, Zenon DEF Start
    <2>2. CASE alone \/ inMemory
      BY <2>1, <2>2, Zenon DEF NewLeaderElection, Faulty, ElMoves
    <2>3. CASE alone = FALSE /\ inMemory = FALSE
      <3>1. faults' = faults /\ Campaign(n, queue, FALSE) /\ fallback' = fallback \ {n}
        BY <2>1, <2>3, Zenon DEF NewLeaderElection
      <3>2. /\ ~Up(n) /\ phase' = Clear(phase, n, "up") /\ reg' = Clear(reg, n, "online")
            /\ UNCHANGED <<cut, job>>
        BY <1>7, Zenon DEF Start, detectVars
      <3>3. Election => Election'
        BY <3>1, <3>2, StartEl, Zenon
      <3> QED
        BY <3>1, <3>3, Zenon DEF ElMoves
    <2> QED
      BY <2>2, <2>3
  <1>8. ASSUME NEW n \in Nodes, Reconnect(n) PROVE ElMoves
    BY <1>8, Zenon DEF Reconnect, Election, ElMoves
  <1>9. ASSUME NEW i, Expire(i) PROVE ElMoves
    BY <1>9, ExpireEl, Zenon DEF Expire, ElMoves
  <1>10. ASSUME NEW v, LockExpire(v) PROVE ElMoves
    <2>1. faults' = faults /\ UNCHANGED <<phase, cut, fallback, reg, queue, waiting, winner, believes, job>>
      BY <1>10, Zenon
         DEF LockExpire, procVars, regVars, electVars, detectVars, fixed
    <2> QED
      BY <2>1, Zenon DEF Election, ElMoves
  <1> QED
    BY <1>1, <1>2, <1>3, <1>4, <1>5, <1>6, <1>7, <1>8, <1>9, <1>10, Zenon
       DEF ClNext, ElMoves

\* So the invariant holds on: a fault leaves nothing to show of the election.
LEMMA ElStep == ElInv /\ [ClNext]_clVars => ElInv'
  <1> SUFFICES ASSUME ElInv, [ClNext]_clVars PROVE ElInv'
    OBVIOUS
  <1>1. LockInv' /\ DownIdle' /\ ElMoves
    BY LockStep, DownStep, ElSteps, Zenon DEF ElInv
  <1> QED
    BY <1>1 DEF ElInv, ElMoves

\* For any number of nodes and crashes: as long as nobody lost its session, gave
\* up its key, failed to campaign or started without etcd, one node at most acts
\* as the leader.
THEOREM OneActsAsLeader == ClSpec => []OneLeader
  <1> QED
    BY ElInit, ElStep, ElLeader, PTL DEF ClSpec

-----------------------------------------------------------------------------
(* OneMovePerCrash.                                                        *)

\* What holds while d is the only node that has crashed (0: none has).  Only d
\* falls silent, so only d is reported and only its VMs are to be moved; each
\* goes to another node, and none comes back to d.
Calm(d) ==
    /\ crashes = 0 => d = 0 /\ \A v \in VMs : moves[v] = 0
    /\ \A n \in Nodes : n # d => phase[n] = "up"
    /\ old \subseteq {d} \cap Nodes
    /\ calls \in [Nodes -> SUBSET ({d} \cap Nodes)]
    /\ \A m \in Nodes : job[m].todo # {} => job[m].target \in Nodes \ {d}
    /\ \A m \in Nodes : \A v \in job[m].todo : vmAt[v] = d
    /\ vmAt \in [VMs -> Nodes]
    /\ moves \in [VMs -> 0 .. 1]
    /\ \A v \in VMs : vmAt[v] = d => moves[v] = 0

\* The inductive invariant behind OneMovePerCrash.
CalmInv ==
    /\ ElInv
    /\ crashes \in Nat
    /\ faults = 0 /\ crashes <= 1 => \E d : Calm(d)

\* It gives the property.
LEMMA CalmOneMove == CalmInv => OneMovePerCrash
  <1> SUFFICES ASSUME CalmInv, faults = 0 /\ crashes <= 1, NEW v \in VMs
               PROVE  moves[v] <= crashes
    BY DEF OneMovePerCrash
  <1>1. PICK d : Calm(d)
    BY DEF CalmInv
  <1>2. crashes = 0 => moves[v] = 0
    BY <1>1, Zenon DEF Calm
  <1>3. moves[v] \in 0 .. 1
    BY <1>1, Zenon DEF Calm
  <1> QED
    BY <1>2, <1>3 DEF CalmInv

\* Nothing has crashed at first.
LEMMA CalmInit == ClInit => CalmInv
  <1> SUFFICES ASSUME ClInit PROVE CalmInv
    OBVIOUS
  <1>1. vmAt \in [VMs -> Nodes]
    <2>1. \A v \in VMs : 1 + ((v - 1) % N) \in Nodes
      BY ClusterConstants DEF VMs, Nodes
    <2> QED
      BY <2>1, Zenon DEF ClInit
  <1>2. Calm(0)
    BY <1>1 DEF Calm, ClInit, NoJob
  <1> QED
    BY <1>2, ElInit, Zenon DEF CalmInv, ClInit

\* The nodes of a report are one of Nodes.
LEMMA LeastNode ==
    ASSUME NEW S, S \subseteq Nodes, S # {}
    PROVE  Min(S) \in S
  <1>1. S \in SUBSET Nat
    BY ClusterConstants DEF Nodes
  <1>2. \E x \in S : \A y \in S : <<y, x>> \notin OpToRel(<, Nat)
    BY <1>1, WFMin, NatLessThanWellFounded, Zenon
  <1>3. \A x, y \in Nat : y < x => <<y, x>> \in OpToRel(<, Nat)
    BY DEF OpToRel
  <1>4. \A x, y \in Nat : ~(y < x) => x <= y
    OBVIOUS
  <1>5. \E x \in S : \A y \in S : x <= y
    BY <1>1, <1>2, <1>3, <1>4, Zenon
  <1> QED
    BY <1>5 DEF Min

\* Without faults every node is listed, as online.
LEMMA AllListed ==
    ASSUME Election, NEW m \in Nodes
    PROVE  /\ DOMAIN ListNodes(m) = Nodes
           /\ \A n \in Nodes : ListNodes(m)[n].old <=> n \in old
  <1>1. {n \in Nodes : reg[n] # "none"} = Nodes /\ Nodes # {} /\ cut = {}
    BY ClusterConstants, Zenon DEF Election, Nodes
  <1>2. ListNodes(m) = [n \in Nodes |-> [status |-> reg[n], old |-> n \in old]]
    BY <1>1, Zenon DEF ListNodes
  <1>3. DOMAIN ListNodes(m) = Nodes
    BY <1>2, Zenon
  <1>4. ASSUME NEW n \in Nodes PROVE ListNodes(m)[n].old <=> n \in old
    <2>1. ListNodes(m)[n] = [status |-> reg[n], old |-> n \in old]
      BY <1>2, Zenon
    <2>2. PICK b : b = (n \in old)
      BY Zenon
    <2>3. [status |-> reg[n], old |-> b].old = b
      OBVIOUS
    <2>4. ListNodes(m)[n].old = b
      BY <2>1, <2>2, <2>3, Zenon
    <2> QED
      BY <2>2, <2>4, Zenon
  <1> QED
    BY <1>3, <1>4, Zenon

\* A step that moves no VM and starts no job.
LEMMA CalmKept ==
    ASSUME NEW d, Calm(d), UNCHANGED <<phase, calls, vmAt, moves, crashes>>, old' \subseteq old \cup ({d} \cap Nodes),
           \A m \in Nodes : /\ job'[m].todo \subseteq job[m].todo
                            /\ job'[m].todo # {} => job'[m].target = job[m].target
    PROVE  Calm(d)'
  BY Zenon DEF Calm

\* A tick reports only a silent node, and the one that crashed is the only one.
LEMMA CalmChecks ==
    ASSUME NEW d, Calm(d), Election, NEW m \in Nodes, checkNodes(m)
    PROVE  Calm(d)'
  <1>1. UNCHANGED <<phase, old, job, vmAt, moves, crashes>>
    BY Zenon DEF checkNodes, procVars, regVars, vmVars, counts
  <1>2. PICK downs : /\ calls' = [calls EXCEPT ![m] = downs]
                     /\ downs \subseteq {n \in DOMAIN ListNodes(m) : ListNodes(m)[n].old}
    <2>1. PICK downs : downs = {n \in DOMAIN ListNodes(m) :
                                  ListNodes(m)[n].status = "online" /\ ListNodes(m)[n].old} \ failed[m]
      BY Zenon
    <2>2. calls' = [calls EXCEPT ![m] = downs]
      BY <2>1, Zenon DEF checkNodes
    <2>3. downs \subseteq {n \in DOMAIN ListNodes(m) : ListNodes(m)[n].old}
      BY <2>1, Zenon
    <2> QED
      BY <2>2, <2>3, Zenon
  <1>3. downs \subseteq {d} \cap Nodes
    <2>1. \A n \in downs : n \in Nodes /\ n \in old
      BY <1>2, AllListed, Zenon
    <2> QED
      BY <2>1, Zenon DEF Calm
  <1> QED
    BY <1>1, <1>2, <1>3, Zenon DEF Calm

\* The leader's job is to move the VMs of the node that crashed elsewhere.
LEMMA CalmHandles ==
    ASSUME NEW d, Calm(d), Election, JobsShaped, NEW m \in Nodes, HandleNodeDown(m)
    PROVE  Calm(d)'
  <1>1. UNCHANGED <<phase, old, vmAt, moves, crashes>>
    BY Zenon DEF HandleNodeDown, procVars, regVars, vmVars, counts
  <1>2. PICK n : n = Min(calls[m])
    OBVIOUS
  <1>3. n = d /\ d \in Nodes
    <2>1. calls[m] \subseteq Nodes /\ calls[m] # {} /\ calls[m] \subseteq {d}
      BY Zenon DEF Calm, HandleNodeDown
    <2>2. Min(calls[m]) \in calls[m]
      BY <2>1, LeastNode, Zenon
    <2> QED
      BY <1>2, <2>1, <2>2, Zenon
  <1>4. calls' = [calls EXCEPT ![m] = @ \ {n}]
    BY <1>2, Zenon DEF HandleNodeDown
  <1>5. calls' \in [Nodes -> SUBSET ({d} \cap Nodes)]
    BY <1>4, Zenon DEF Calm
  <1>6. CASE job' = job
    BY <1>1, <1>5, <1>6, Zenon DEF Calm
  <1>7. CASE job' # job
    <2>1. PICK todo : todo = {v \in {v \in VMs : vmAt[v] = n} : policy[v] # "never"}
      BY Zenon
    <2>2. PICK target : target = selectTargetNode(m, n)
      OBVIOUS
    <2>3. PICK r : r = [down |-> n, todo |-> todo, target |-> target, at |-> "idle"]
      BY Zenon
    <2>4. job' = [job EXCEPT ![m] = r] /\ target # 0
      BY <1>2, <1>7, <2>1, <2>2, <2>3, Zenon DEF HandleNodeDown
    <2>5. target \in Nodes \ {d}
      <3>1. PICK online : online = {k \in DOMAIN ListNodes(m) \ {n} : ListNodes(m)[k].status = "online"}
        BY Zenon
      <3>2. online \subseteq Nodes \ {d}
        BY <1>3, <3>1, AllListed, Zenon
      <3>3. target = IF online = {} THEN 0 ELSE Min(online)
        BY <2>2, <3>1, Zenon DEF selectTargetNode
      <3>4. online # {} => Min(online) \in online
        BY <3>2, LeastNode, Zenon
      <3> QED
        BY <2>4, <3>2, <3>3, <3>4
    <2>6. r.todo = todo /\ r.target = target /\ \A v \in todo : vmAt[v] = d
      BY <1>3, <2>1, <2>3, Zenon
    <2>7. job'[m] = r /\ \A k \in Nodes : k # m => job'[k] = job[k]
      BY <2>4, JobsShow, Zenon
    <2> QED
      BY <1>1, <1>5, <2>5, <2>6, <2>7, Zenon DEF Calm
  <1> QED
    BY <1>6, <1>7

\* A VM leaves the crashed node for good, and no other job is about it.
LEMMA CalmMoves ==
    ASSUME NEW d, Calm(d), ElInv, faults = 0, faults' = 0, NEW m \in Nodes, WithLock(m)
    PROVE  Calm(d)'
  <1>1. PICK v : v = Next1(m)
    OBVIOUS
  <1>2. JobsShaped /\ Election
    BY DEF ElInv, LockInv
  <1>3. v \in job[m].todo /\ v \in VMs
    <2>1. job[m].todo \subseteq VMs /\ job[m].todo # {}
      BY <1>2, Zenon DEF JobsShaped, JobShape, WithLock
    <2> QED
      BY <1>1, <2>1, NextIsTodo, Zenon DEF Next1
  <1>4. /\ vmAt' = [vmAt EXCEPT ![v] = job[m].target]
        /\ moves' = [moves EXCEPT ![v] = @ + 1]
        /\ UNCHANGED <<phase, old, calls, crashes>>
    BY <1>1 DEF WithLock, Faulty, counts, procVars, regVars
  <1>5. /\ job'[m].todo = job[m].todo \ {v}
        /\ job'[m].todo # {} => job'[m].target = job[m].target
        /\ \A k \in Nodes : k # m => job'[k] = job[k]
    BY <1>1, <1>2, DoneShows, Zenon DEF WithLock
  <1>6. \A k \in Nodes : k # m => job[k].todo = {}
    BY <1>2, <1>3, ElLeader, Zenon DEF Election, OneLeader
  <1>7. vmAt[v] = d /\ moves[v] = 0 /\ job[m].target \in Nodes \ {d}
    BY <1>3, Zenon DEF Calm
  <1>8. vmAt' \in [VMs -> Nodes] /\ vmAt'[v] # d /\ \A w \in VMs : w # v => vmAt'[w] = vmAt[w]
    BY <1>3, <1>4, <1>7, Zenon DEF Calm
  <1>9. moves' \in [VMs -> 0 .. 1] /\ \A w \in VMs : w # v => moves'[w] = moves[w]
    BY <1>3, <1>4, <1>7 DEF Calm
  <1>10. crashes # 0
    BY <1>3, <1>7 DEF Calm, Nodes
  <1>11. \A k \in Nodes : \A w \in job'[k].todo : vmAt'[w] = d
    BY <1>2, <1>5, <1>6, <1>8 DEF Calm, JobsShaped, JobShape
  <1>12. \A k \in Nodes : job'[k].todo # {} => job'[k].target \in Nodes \ {d}
    BY <1>5, Zenon DEF Calm
  <1> QED
    BY <1>4, <1>8, <1>9, <1>10, <1>11, <1>12, Zenon DEF Calm

\* The first crash: nothing was silent, reported or moved before it.
LEMMA CalmCrashes ==
    ASSUME NEW d, Calm(d), Election, JobsShaped, crashes \in Nat, NEW n \in Nodes, Crash(n),
           crashes' <= 1
    PROVE  Calm(n)'
  <1>1. /\ crashes = 0 /\ crashes' = 1 /\ phase' = [phase EXCEPT ![n] = "down"]
        /\ calls' = [calls EXCEPT ![n] = {}] /\ job' = [job EXCEPT ![n] = NoJob]
        /\ UNCHANGED <<old, vmAt, moves>>
    BY DEF Crash, Vanish, Clear, vmVars
  <1>2. d = 0 /\ d \notin Nodes /\ \A v \in VMs : moves[v] = 0
    BY <1>1 DEF Calm, Nodes
  <1>3. old' = {}
    BY <1>1, <1>2, Zenon DEF Calm
  <1>A. PICK j : j = NoJob
    OBVIOUS
  <1>4. job'[n] = NoJob /\ \A k \in Nodes : k # n => job'[k] = job[k]
    BY <1>1, <1>A, JobsShow, Zenon
  <1>5. \A k \in Nodes : job'[k].todo = {}
    <2>1. NoJob.todo = {}
      BY Zenon DEF NoJob
    <2>2. \A k \in Nodes : job[k].todo = {}
      BY <1>2 DEF Calm, JobsShaped, JobShape
    <2> QED
      BY <1>4, <2>1, <2>2, Zenon
  <1>6. \A k \in Nodes : k # n => phase'[k] = phase[k]
    BY <1>1, Zenon DEF Election
  <1> QED
    BY <1>1, <1>2, <1>3, <1>5, <1>6 DEF Calm

\* Every other step moves no VM, and starts no job and reports nothing.
LEMMA CalmSteps ==
    ASSUME NEW d, Calm(d), ElInv, [ClNext]_clVars, crashes \in Nat,
           faults = 0, faults' = 0, crashes' <= 1
    PROVE  \E e : Calm(e)'
  <1> USE DEF counts, procVars, regVars, detectVars, vmVars
  <1>0. Election /\ JobsShaped
    BY DEF ElInv, LockInv
  <1>A. ASSUME UNCHANGED <<phase, calls, job, vmAt, moves, crashes>>, old' \subseteq old \cup ({d} \cap Nodes)
        PROVE  Calm(d)'
    BY <1>A, CalmKept, Zenon
  <1>1. CASE UNCHANGED clVars
    BY <1>1, <1>A, Zenon DEF clVars
  <1>2. ASSUME NEW n \in Nodes, Steps(n) PROVE Calm(d)'
    <2>1. CASE register(n) \/ Elected(n) \/ StoreLeader(n)
      BY <1>A, <2>1, Zenon DEF register, Elected, StoreLeader
    <2>2. CASE Age(n)
      <3>1. n = d
        BY <1>0, <2>2, Zenon DEF Age, Up, Calm, Election
      <3> QED
        BY <1>A, <2>2, <3>1, Zenon DEF Age
    <2>3. CASE Acquire(n)
      BY <1>0, <2>3, AcquireShows, CalmKept DEF Acquire
    <2>4. CASE AcquireFails(n)
      BY <1>0, <2>4, DoneShows, CalmKept, Zenon DEF AcquireFails
    <2>5. CASE Deregister(n) \/ StopHeartbeat(n)
      BY <1>0, <2>5, Zenon DEF Deregister, StopHeartbeat, Election
    <2> QED
      BY <1>0, <1>2, <2>1, <2>2, <2>3, <2>4, <2>5, CalmChecks, CalmHandles, CalmMoves, Zenon
         DEF Steps
  <1>3. ASSUME NEW n \in Nodes, ReadOnly(n) PROVE UNCHANGED clVars
    BY <1>3, Zenon DEF ReadOnly
  <1>4. ASSUME NEW n \in Nodes, CampaignFails(n) PROVE FALSE
    BY <1>0, <1>4 DEF CampaignFails, Faulty, Election
  <1>5. ASSUME NEW n \in Nodes,
               handleFenceNode(n) \/ handleClusterPromote(n) \/ CloseElection(n) \/ Disconnect(n)
        PROVE  FALSE
    BY <1>5 DEF handleFenceNode, handleClusterPromote, CloseElection, Disconnect, Faulty
  <1>6. ASSUME NEW n \in Nodes, Crash(n) PROVE Calm(n)'
    BY <1>0, <1>6, CalmCrashes
  <1>7. ASSUME NEW n \in Nodes, Start(n) PROVE Calm(d)'
    <2>1. /\ phase' = [phase EXCEPT ![n] = "up"] /\ old' \subseteq old
          /\ UNCHANGED <<calls, job, vmAt, moves, crashes>>
      BY <1>7, Zenon DEF Start, Clear, NewLeaderElection, Faulty
    <2>2. \A k \in Nodes : k # d => phase'[k] = "up"
      BY <1>0, <2>1, Zenon DEF Calm, Election
    <2> QED
      BY <2>1, <2>2, Zenon DEF Calm
  <1>8. ASSUME NEW n \in Nodes, Reconnect(n) PROVE Calm(d)'
    BY <1>0, <1>8, Zenon DEF Reconnect, Election
  <1>9. ASSUME NEW i, Expire(i) PROVE Calm(d)'
    BY <1>9, <1>A, Zenon DEF Expire
  <1>10. ASSUME NEW v, LockExpire(v) PROVE Calm(d)'
    BY <1>10, <1>A, Zenon DEF LockExpire
  <1> QED
    BY <1>1, <1>2, <1>3, <1>4, <1>5, <1>6, <1>7, <1>8, <1>9, <1>10, Zenon DEF ClNext

\* A fault or a second crash ends what there is to show.
LEMMA CalmStep == CalmInv /\ [ClNext]_clVars => CalmInv'
  <1> SUFFICES ASSUME CalmInv, [ClNext]_clVars PROVE CalmInv'
    OBVIOUS
  <1>1. ElInv /\ ElInv' /\ ElMoves
    BY ElStep, ElSteps, Zenon DEF CalmInv, ElInv
  <1>2. crashes' \in {crashes, crashes + 1}
    <2>1. ASSUME NEW n, Steps(n) PROVE crashes' = crashes
      <3>1. CASE register(n) \/ Age(n) \/ Elected(n) \/ StoreLeader(n)
        BY <3>1, Zenon DEF register, Age, Elected, StoreLeader, counts
      <3>2. CASE checkNodes(n)
        BY <3>2, Zenon DEF checkNodes, counts
      <3>3. CASE HandleNodeDown(n)
        BY <3>3, Zenon DEF HandleNodeDown, counts
      <3>4. CASE Acquire(n) \/ AcquireFails(n)
        BY <3>4, Zenon DEF Acquire, AcquireFails, counts
      <3>5. CASE WithLock(n)
        BY <3>5, Zenon DEF WithLock, Faulty, counts
      <3>6. CASE Deregister(n) \/ StopHeartbeat(n)
        BY <3>6, Zenon DEF Deregister, StopHeartbeat, counts
      <3> QED
        BY <2>1, <3>1, <3>2, <3>3, <3>4, <3>5, <3>6, Zenon DEF Steps
    <2>2. ASSUME NEW n,
                 \/ handleFenceNode(n) \/ handleClusterPromote(n) \/ CampaignFails(n)
                 \/ ReadOnly(n) \/ Start(n) \/ CloseElection(n) \/ Disconnect(n) \/ Reconnect(n)
          PROVE  crashes' = crashes
      <3>1. CASE handleFenceNode(n)
        BY <3>1, Zenon DEF handleFenceNode, Faulty
      <3>2. CASE CampaignFails(n) \/ ReadOnly(n)
        BY <3>2, Zenon DEF CampaignFails, ReadOnly, Faulty, clVars, counts
      <3>3. CASE handleClusterPromote(n) \/ CloseElection(n) \/ Disconnect(n)
        BY <3>3, Zenon DEF handleClusterPromote, CloseElection, Disconnect, Faulty
      <3>4. CASE Start(n) \/ Reconnect(n)
        BY <3>4, Zenon DEF Start, NewLeaderElection, Faulty, Reconnect, counts
      <3> QED
        BY <2>2, <3>1, <3>2, <3>3, <3>4, Zenon
    <2>3. ASSUME NEW x, Expire(x) \/ LockExpire(x) PROVE crashes' = crashes
      BY <2>3, Zenon DEF Expire, LockExpire, Faulty, counts
    <2>4. ASSUME NEW n, Crash(n) PROVE crashes' = crashes + 1
      BY <2>4, Zenon DEF Crash
    <2> QED
      BY <2>1, <2>2, <2>3, <2>4, Zenon DEF ClNext, clVars, counts
  <1>3. ASSUME faults' = 0, crashes' <= 1 PROVE \E e : Calm(e)'
    <2>1. faults = 0 /\ crashes \in Nat /\ crashes <= 1
      BY <1>1, <1>2, <1>3 DEF CalmInv, ElMoves, ElInv
    <2>2. PICK d : Calm(d)
      BY <2>1 DEF CalmInv
    <2> QED
      BY <1>1, <1>3, <2>1, <2>2, CalmSteps
  <1> QED
    BY <1>1, <1>2, <1>3 DEF CalmInv

\* For any number of nodes and VMs, whichever node crashes and whoever leads:
\* as long as nothing else goes wrong, one crash moves no VM twice.
THEOREM CrashMovesOnce == ClSpec => []OneMovePerCrash
  <1> QED
    BY CalmInit, CalmStep, CalmOneMove, PTL DEF ClSpec
=============================================================================
