-------------------------------- MODULE Lxc ---------------------------------
(***************************************************************************)
(* The LXC backend: records of containers, keyed by handle, over host      *)
(* containers, keyed by NAME and driven with the lxc-* commands.  A record *)
(* and its host container change under the backend's lock, except that a   *)
(* container is created before the lock is taken and that exec and         *)
(* checkpoint run after it is released.                                    *)
(* A command that fails changes nothing on the host.  Calls that are       *)
(* refused and change nothing are stuttering steps.                        *)
(***************************************************************************)
EXTENDS Maps

CONSTANTS LCallers, CNames,     \* callers; names of containers
          MaxContainers         \* bound on handles ever taken

VARIABLES lxcEmulated,  \* no LXC: the records alone
          driverSet,    \* SetStorageDriver has been called
          boxes,        \* handle -> [name, state, node]
          shots,        \* handles with a snapshot (emulated)
          nextBox,
          host,         \* name -> state of the host container
          rootfs,       \* names with a rootfs volume
          making        \* caller -> call under way between two steps

lxVars == <<lxcEmulated, driverSet, boxes, shots, nextBox, host, rootfs, making>>
modeVars == <<lxcEmulated, driverSet>>
hostVars == <<host, rootfs>>
recordVars == <<boxes, shots>>

BoxHandles == 0 .. MaxContainers - 1        \* handle h stands for 20000 + h
NodesOf == {"local", "other"}

NewLXCBackend ==
    /\ lxcEmulated \in BOOLEAN /\ driverSet = FALSE
    /\ boxes = Empty /\ shots = {} /\ nextBox = 0
    /\ host = Empty /\ rootfs = {} /\ making = Empty

SetStorageDriver == /\ ~driverSet /\ driverSet' = TRUE
                    /\ UNCHANGED <<lxcEmulated, recordVars, nextBox, hostVars, making>>

\* The lxc-* commands: where each may succeed and what it leaves.
Commands == [start |-> [from |-> {"stopped"}, to |-> "running"],
             stop |-> [from |-> {"running", "frozen"}, to |-> "stopped"],
             freeze |-> [from |-> {"running"}, to |-> "frozen"],
             unfreeze |-> [from |-> {"frozen"}, to |-> "running"],
             checkpoint |-> [from |-> {"running"}, to |-> "stopped"],
             restore |-> [from |-> {"stopped"}, to |-> "running"]]

lxcExec(cmd, name) ==
    /\ name \in DOMAIN host /\ host[name] \in Commands[cmd].from
    /\ host' = Put(host, name, Commands[cmd].to) /\ UNCHANGED rootfs

-----------------------------------------------------------------------------
(* Creation. *)

Record(name) == [name |-> name, state |-> "configured", node |-> "local"]

TakeHandle(c, name, template) ==
    /\ c \notin DOMAIN making /\ nextBox < MaxContainers
    /\ nextBox' = nextBox + 1
    /\ making' = Put(making, c, [h |-> nextBox, name |-> name, at |->
                       IF lxcEmulated THEN "enter"
                       ELSE IF driverSet /\ ~template THEN "volume" ELSE "create"])
    /\ UNCHANGED <<modeVars, recordVars, hostVars>>

Fails(c) == making' = Del(making, c) /\ UNCHANGED hostVars

\* The volume of a name that has one already is refused; nothing is rolled
\* back when lxc-create fails afterwards.
CreateVolume(c) ==
    /\ c \in DOMAIN making /\ making[c].at = "volume"
    /\ \/ /\ making[c].name \notin rootfs
          /\ rootfs' = rootfs \cup {making[c].name} /\ UNCHANGED host
          /\ making' = [making EXCEPT ![c].at = "create"]
       \/ Fails(c)
    /\ UNCHANGED <<modeVars, recordVars, nextBox>>

lxcCreate(c) ==
    /\ c \in DOMAIN making /\ making[c].at = "create"
    /\ \/ /\ making[c].name \notin DOMAIN host
          /\ host' = Put(host, making[c].name, "stopped") /\ UNCHANGED rootfs
          /\ making' = [making EXCEPT ![c].at = "enter"]
       \/ Fails(c)
    /\ UNCHANGED <<modeVars, recordVars, nextBox>>

\* Mutant: lxc-create is best effort.
EnterBoxAnyway(c) ==
    /\ c \in DOMAIN making /\ making[c].at \in {"create", "enter"}
    /\ boxes' = Put(boxes, making[c].h, Record(making[c].name)) /\ making' = Del(making, c)
    /\ UNCHANGED <<modeVars, shots, nextBox, hostVars>>

EnterBox(c) ==
    /\ c \in DOMAIN making /\ making[c].at = "enter"
    /\ boxes' = Put(boxes, making[c].h, Record(making[c].name)) /\ making' = Del(making, c)
    /\ UNCHANGED <<modeVars, shots, nextBox, hostVars>>

CreateBox(c) == \/ \E name \in CNames : TakeHandle(c, name, FALSE)
                \/ CreateVolume(c) \/ lxcCreate(c) \/ EnterBox(c)
CreateVMWithTemplate(c) == \E name \in CNames : TakeHandle(c, name, TRUE)

-----------------------------------------------------------------------------
(* Operations on a record. *)

\* lxc-destroy refuses a container that is not stopped; the record goes anyway.
\* The volume id lacks its pool, so the driver never finds the rootfs.
DestroyBox(h) ==
    /\ h \in DOMAIN boxes
    /\ boxes' = Del(boxes, h) /\ shots' = shots \ {h}
    /\ LET name == boxes[h].name
       IN  \/ UNCHANGED host
           \/ /\ name \in DOMAIN host /\ host[name] = "stopped" /\ ~lxcEmulated
              /\ host' = Del(host, name)
    /\ UNCHANGED <<modeVars, nextBox, rootfs, making>>

lxcValidTransitions ==
    [configured |-> {"running", "stopped"}, running |-> {"paused", "stopped"},
     paused |-> {"running", "stopped"}, stopped |-> {}]

boxTransition(h, target, cmd) ==
    /\ h \in DOMAIN boxes /\ target \in lxcValidTransitions[boxes[h].state]
    /\ IF lxcEmulated THEN UNCHANGED hostVars ELSE lxcExec(cmd, boxes[h].name)
    /\ boxes' = [boxes EXCEPT ![h].state = target]
    /\ UNCHANGED <<modeVars, shots, nextBox, making>>

StartBox(h) == boxTransition(h, "running", "start")
StopBox(h) == boxTransition(h, "stopped", "stop")
PauseBox(h) == boxTransition(h, "paused", "freeze")
ResumeBox(h) == boxTransition(h, "running", "unfreeze")

\* On a host the driver does not find the volume either: nothing is recorded.
SnapshotContainer(h) ==
    /\ h \in DOMAIN boxes /\ lxcEmulated /\ shots' = shots \cup {h}
    /\ UNCHANGED <<modeVars, boxes, nextBox, hostVars, making>>

\* Source read under the lock, copy entered under a later one.
CloneContainer(c) ==
    \E h \in DOMAIN boxes, name \in CNames :
        /\ h \in shots /\ c \notin DOMAIN making /\ nextBox < MaxContainers
        /\ nextBox' = nextBox + 1
        /\ making' = Put(making, c, [h |-> nextBox, name |-> name, at |-> "enter"])
        /\ UNCHANGED <<modeVars, recordVars, hostVars>>

\* The checkpoint stops the container; only the node is recorded.
MigrateContainer(h) ==
    \E n \in NodesOf :
        /\ h \in DOMAIN boxes /\ boxes[h].state = "running" /\ boxes[h].node # n
        /\ IF lxcEmulated THEN UNCHANGED hostVars ELSE lxcExec("checkpoint", boxes[h].name)
        /\ boxes' = [boxes EXCEPT ![h].node = n]
        /\ UNCHANGED <<modeVars, shots, nextBox, making>>

\* The record is read, then the command runs outside the lock, by name.
CheckpointContainer(c) ==
    \/ /\ c \notin DOMAIN making
       /\ \E h \in DOMAIN boxes :
            making' = Put(making, c, [h |-> h, name |-> boxes[h].name, at |-> "checkpoint"])
       /\ UNCHANGED <<modeVars, recordVars, nextBox, hostVars>>
    \/ /\ c \in DOMAIN making /\ making[c].at = "checkpoint"
       /\ IF lxcEmulated THEN UNCHANGED hostVars
          ELSE lxcExec("checkpoint", making[c].name) \/ UNCHANGED hostVars
       /\ making' = Del(making, c) /\ UNCHANGED <<modeVars, recordVars, nextBox>>

RestoreContainer(h) ==
    /\ h \in DOMAIN boxes
    /\ IF lxcEmulated THEN UNCHANGED hostVars ELSE lxcExec("restore", boxes[h].name)
    /\ boxes' = [boxes EXCEPT ![h].state = "running"]
    /\ UNCHANGED <<modeVars, shots, nextBox, making>>

\* A command runs inside the container; its record is left alone.
ExecContainer(h) == h \in DOMAIN boxes /\ boxes[h].state = "running" /\ UNCHANGED lxVars
handleContainerExec == (\E h \in BoxHandles : ExecContainer(h)) \/ UNCHANGED lxVars
GetContainerStats(h) == h \in DOMAIN boxes /\ UNCHANGED lxVars
handleVMStats == (\E h \in BoxHandles : GetContainerStats(h)) \/ UNCHANGED lxVars
AvailableTemplates == UNCHANGED lxVars
handleLXCTemplates == AvailableTemplates
GetBox(h) == h \in DOMAIN boxes /\ UNCHANGED lxVars
ListBoxes == UNCHANGED lxVars

\* The container ends by itself; no record notices.
BoxExits(name) ==
    /\ name \in DOMAIN host /\ host[name] # "stopped"
    /\ host' = Put(host, name, "stopped")
    /\ UNCHANGED <<modeVars, recordVars, nextBox, rootfs, making>>

LxNext ==
    \/ \E c \in LCallers : \/ CreateBox(c) \/ CreateVMWithTemplate(c)
                           \/ CloneContainer(c) \/ CheckpointContainer(c)
    \/ \E h \in BoxHandles :
        \/ DestroyBox(h) \/ StartBox(h) \/ StopBox(h) \/ PauseBox(h) \/ ResumeBox(h)
        \/ SnapshotContainer(h) \/ MigrateContainer(h) \/ RestoreContainer(h) \/ GetBox(h)
    \/ \E name \in CNames : BoxExits(name)
    \/ SetStorageDriver \/ handleContainerExec \/ handleVMStats \/ handleLXCTemplates \/ ListBoxes

LxSpec == NewLXCBackend /\ [][LxNext]_lxVars

-----------------------------------------------------------------------------
(* Properties. *)

\* On a host, every record stands for a host container of its own: creation by
\* name, destruction by name and a reused name never give two records the same
\* container or leave a record without one.
RecordOwnsContainer ==
    ~lxcEmulated =>
        \A h \in DOMAIN boxes :
            /\ boxes[h].name \in DOMAIN host
            /\ \A g \in DOMAIN boxes \ {h} : boxes[g].name # boxes[h].name

\* On a host, a container that runs is recorded as running.  (The converse
\* fails: containers end, and are checkpointed, without their record.)
RunningIsRecorded ==
    ~lxcEmulated =>
        \A h \in DOMAIN boxes : host[boxes[h].name] = "running" => boxes[h].state = "running"
=============================================================================
