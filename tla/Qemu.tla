-------------------------------- MODULE Qemu --------------------------------
(***************************************************************************)
(* The QEMU backend: one child process per VM, commanded over its QMP      *)
(* socket through one circuit breaker for all of them, and a goroutine per *)
(* VM that looks at the process every 5 s.  The table of VMs is under one  *)
(* lock, commands included; launching a process and looking at it are not. *)
(* Calls that are refused and change nothing are stuttering steps.         *)
(***************************************************************************)
EXTENDS Maps

CONSTANTS QCallers,         \* callers that may be creating a VM
          MaxHandles        \* bound on VMs ever created

VARIABLES emulated,     \* no QEMU: the table alone
          qvms,         \* handle -> recorded state
          procs,        \* handles in b.processes
          os,           \* handle -> child not waited for: "live" or "dead"
          guest,        \* handle -> whether its CPUs run
          nextQ, building, \* next handle; caller -> creation under way
          watch,        \* handle -> its monitor goroutine
          fails,        \* failures in a row; Threshold: the breaker is open
          saved,        \* handles with a snapshot in their record
          blurred       \* handles whose record a mixed answer left in doubt

qvVars == <<emulated, qvms, procs, os, guest, nextQ, building, watch, fails, saved, blurred>>
tableVars == <<qvms, saved>>
childVars == <<procs, os, guest, watch>>
lineVars == <<fails, blurred>>
makeVars == <<nextQ, building>>

Threshold == 3
QHandles == 0 .. MaxHandles - 1     \* handle h stands for 10000 + h

NewQEMUBackend ==
    /\ emulated \in BOOLEAN
    /\ qvms = Empty /\ procs = {} /\ os = Empty /\ guest = Empty /\ nextQ = 0
    /\ building = Empty /\ watch = Empty /\ fails = 0 /\ saved = {} /\ blurred = {}

-----------------------------------------------------------------------------
(* QMP.  Execute takes whatever one read returns for the answer.  With an    *)
(* event glued to it, or after a timeout, it fails although QEMU obeyed; an  *)
(* event alone, or the answer to qmp_capabilities when an event was taken    *)
(* for that, is a success although QEMU refuses the command.                 *)

Obeyed == {[ok |-> TRUE, done |-> TRUE], [ok |-> FALSE, done |-> TRUE]}
Misread == [ok |-> TRUE, done |-> FALSE]
NotObeyed == [ok |-> FALSE, done |-> FALSE]

\* QMPDial connects and negotiates; it fails when the process is gone.
QMPDial(h) == h \in DOMAIN os /\ os[h] = "live"
Execute(h) == (IF QMPDial(h) THEN Obeyed \cup {Misread} ELSE {}) \cup {NotObeyed}

\* The process entry, then the breaker, then the socket.
qmpCommand(h, answer1) ==
    IF h \notin procs \/ fails = Threshold
    THEN answer1 = NotObeyed /\ UNCHANGED fails
    ELSE answer1 \in Execute(h) /\ fails' = IF answer1.ok THEN 0 ELSE fails + 1

\* 15 s later one command is let through: its failure opens the breaker again.
Cooldown == /\ fails = Threshold /\ fails' = Threshold - 1
            /\ UNCHANGED <<emulated, tableVars, childVars, makeVars, blurred>>

Answers == Obeyed \cup {Misread, NotObeyed}
Obeys(h, cmd) == CASE cmd = "cont" -> guest' = Put(guest, h, "running") /\ UNCHANGED os
                   [] cmd = "stop" -> guest' = Put(guest, h, "paused") /\ UNCHANGED os
                   [] cmd = "system_powerdown" -> UNCHANGED <<guest, os>>

\* What the record says is in doubt from an answer that is not the command's own
\* until a command is obeyed and answered.
Blurred(h, a) == CASE a.ok /\ a.done -> blurred \ {h}
                   [] a.ok # a.done -> blurred \cup {h}
                   [] OTHER -> blurred

-----------------------------------------------------------------------------
(* Creation: handle, process, connection, monitor, table. *)

CreateVM(c) ==
    /\ c \notin DOMAIN building /\ nextQ < MaxHandles
    /\ nextQ' = nextQ + 1
    /\ building' = Put(building, c, [h |-> nextQ, at |-> IF emulated THEN "enter" ELSE "launch"])
    /\ UNCHANGED <<emulated, tableVars, childVars, lineVars>>

\* No binary, or exec fails.
LaunchFails(c) ==
    /\ c \in DOMAIN building /\ building[c].at = "launch"
    /\ building' = Del(building, c)
    /\ UNCHANGED <<emulated, tableVars, childVars, lineVars, nextQ>>

\* The guest boots at once: QEMU is not started with -S.
Launch(c) ==
    /\ c \in DOMAIN building /\ building[c].at = "launch"
    /\ LET h == building[c].h
       IN  procs' = procs \cup {h} /\ os' = Put(os, h, "live") /\ guest' = Put(guest, h, "running")
    /\ building' = [building EXCEPT ![c].at = "dial"]
    /\ UNCHANGED <<emulated, tableVars, watch, lineVars, nextQ>>

\* Mutant: a QEMU that cannot be reached is left running.
DialFailsLeaving(c) ==
    /\ c \in DOMAIN building /\ building[c].at = "dial"
    /\ LET h == building[c].h
       IN  procs' = procs \ {h} /\ UNCHANGED <<os, guest>>
    /\ building' = Del(building, c)
    /\ UNCHANGED <<emulated, tableVars, watch, lineVars, nextQ>>

\* Five attempts, then the child is killed and waited for.
DialFails(c) ==
    /\ c \in DOMAIN building /\ building[c].at = "dial"
    /\ LET h == building[c].h
       IN  procs' = procs \ {h} /\ os' = Del(os, h) /\ guest' = Del(guest, h)
    /\ building' = Del(building, c)
    /\ UNCHANGED <<emulated, tableVars, watch, lineVars, nextQ>>

Dialed(c) ==
    /\ c \in DOMAIN building /\ building[c].at = "dial" /\ QMPDial(building[c].h)
    /\ watch' = Put(watch, building[c].h, "asleep")
    /\ building' = [building EXCEPT ![c].at = "enter"]
    /\ UNCHANGED <<emulated, tableVars, procs, os, guest, lineVars, nextQ>>

EnterVM(c) ==
    /\ c \in DOMAIN building /\ building[c].at = "enter"
    /\ qvms' = Put(qvms, building[c].h, "configured") /\ building' = Del(building, c)
    /\ UNCHANGED <<emulated, saved, childVars, lineVars, nextQ>>

qmpCreateVM(c) == LaunchFails(c) \/ Launch(c) \/ DialFails(c) \/ Dialed(c)

-----------------------------------------------------------------------------
(* Commands on a VM in the table. *)

qemuValidTransitions ==
    [configured |-> {"running", "stopped"}, running |-> {"paused", "stopped"},
     paused |-> {"running", "stopped"}, stopped |-> {}]

\* Mutant: the new state is recorded whether or not QEMU took the command.
transitionEarly(h, target, cmd) ==
    /\ h \in DOMAIN qvms /\ target \in qemuValidTransitions[qvms[h]]
    /\ qvms' = Put(qvms, h, target)
    /\ IF emulated THEN UNCHANGED <<os, guest, fails, blurred>>
       ELSE \E a \in Answers :
              /\ qmpCommand(h, a)
              /\ IF a.done THEN Obeys(h, cmd) ELSE UNCHANGED <<guest, os>>
              /\ blurred' = Blurred(h, a)
    /\ UNCHANGED <<emulated, saved, procs, watch, makeVars>>

transition(h, target, cmd) ==
    /\ h \in DOMAIN qvms /\ target \in qemuValidTransitions[qvms[h]]
    /\ IF emulated THEN qvms' = Put(qvms, h, target) /\ UNCHANGED <<os, guest, fails, blurred>>
       ELSE \E a \in Answers :
              /\ qmpCommand(h, a)
              /\ qvms' = IF a.ok THEN Put(qvms, h, target) ELSE qvms
              /\ IF a.done THEN Obeys(h, cmd) ELSE UNCHANGED <<guest, os>>
              /\ blurred' = Blurred(h, a)
    /\ UNCHANGED <<emulated, saved, procs, watch, makeVars>>

\* StartVM then asks for the status, and only logs a mismatch.
StartVM(h) == transition(h, "running", "cont")
StopVM(h) == transition(h, "stopped", "system_powerdown")
PauseVM(h) == transition(h, "paused", "stop")
ResumeVM(h) == transition(h, "running", "cont")

\* quit, whatever becomes of it, then kill and wait.
DestroyVM(h) ==
    /\ h \in DOMAIN qvms
    /\ qvms' = Del(qvms, h) /\ saved' = saved \ {h}
    /\ IF emulated THEN UNCHANGED fails ELSE \E a \in Answers : qmpCommand(h, a)
    /\ procs' = procs \ {h}
    /\ IF h \in procs THEN os' = Del(os, h) /\ guest' = Del(guest, h) ELSE UNCHANGED <<os, guest>>
    /\ blurred' = blurred \ {h} /\ UNCHANGED <<emulated, watch, makeVars>>

\* With QEMU the snapshot is QEMU's own; loadvm keeps the CPUs as they are.
SnapshotVM(h) ==
    /\ h \in DOMAIN qvms /\ emulated /\ saved' = saved \cup {h}
    /\ UNCHANGED <<emulated, qvms, childVars, lineVars, makeVars>>
RestoreSnapshot(h) == h \in DOMAIN qvms /\ (emulated => h \in saved) /\ UNCHANGED qvVars
GetVM(h) == h \in DOMAIN qvms /\ UNCHANGED qvVars
ListVMs == UNCHANGED qvVars

-----------------------------------------------------------------------------
(* The process on its own, and the goroutine that watches it. *)

\* QEMU exits: the guest shut down, or it crashed.  The child stays a zombie
\* until someone waits for it.
QemuExits(h) ==
    /\ h \in DOMAIN os /\ os[h] = "live"
    /\ os' = Put(os, h, "dead")
    /\ UNCHANGED <<emulated, tableVars, procs, guest, watch, makeVars, lineVars>>

\* The first look is 5 s after the start: the VM is in the table by then.
MonitorReads(h) ==
    /\ h \in DOMAIN watch /\ watch[h] = "asleep"
    /\ \A c \in DOMAIN building : building[c].h # h
    /\ watch' = IF h \in procs /\ h \in DOMAIN qvms THEN Put(watch, h, "signals") ELSE Del(watch, h)
    /\ UNCHANGED <<emulated, tableVars, procs, os, guest, makeVars, lineVars>>

\* Signal 0 reaches a zombie too: it fails only for a child already waited for.
monitorProcess(h) ==
    /\ h \in DOMAIN watch /\ watch[h] = "signals"
    /\ IF h \in DOMAIN os
       THEN watch' = Put(watch, h, "asleep") /\ UNCHANGED <<tableVars, procs>>
       ELSE /\ watch' = Del(watch, h) /\ procs' = procs \ {h}
            /\ qvms' = IF h \in DOMAIN qvms THEN Put(qvms, h, "stopped") ELSE qvms
            /\ UNCHANGED saved
    /\ UNCHANGED <<emulated, os, guest, makeVars, lineVars>>

QmNext ==
    \/ \E c \in QCallers : CreateVM(c) \/ qmpCreateVM(c) \/ EnterVM(c)
    \/ \E h \in QHandles :
        \/ StartVM(h) \/ StopVM(h) \/ PauseVM(h) \/ ResumeVM(h) \/ DestroyVM(h)
        \/ SnapshotVM(h) \/ RestoreSnapshot(h) \/ GetVM(h)
        \/ QemuExits(h) \/ MonitorReads(h) \/ monitorProcess(h)
    \/ Cooldown \/ ListVMs

QmFairness == \A h \in QHandles : WF_qvVars(MonitorReads(h)) /\ WF_qvVars(monitorProcess(h))
QmSpec == NewQEMUBackend /\ [][QmNext]_qvVars /\ QmFairness

-----------------------------------------------------------------------------
(* Properties. *)

\* Every QEMU child, zombies included, belongs to a VM in the table or to a
\* creation under way, and the backend still knows the process: neither a
\* failed creation nor a destruction whose quit got lost leaves one behind.
ProcessHasVM ==
    \A h \in DOMAIN os :
        /\ h \in procs
        /\ h \in DOMAIN qvms \/ \E c \in DOMAIN building : building[c].h = h

\* A VM is recorded as paused only while its CPUs stand still, unless the answer
\* read to a command was not that command's and none has been obeyed and
\* answered since.
PausedStandsStill ==
    \A h \in DOMAIN qvms \ blurred :
        qvms[h] = "paused" /\ h \in DOMAIN os /\ os[h] = "live" => guest[h] = "paused"

\* The goroutine that watches a VM ends once the VM is destroyed.
MonitorEnds ==
    \A h \in QHandles :
        (/\ h \in DOMAIN watch /\ h \notin DOMAIN qvms
         /\ \A c \in DOMAIN building : building[c].h # h) ~> h \notin DOMAIN watch

\* monitorProcess: when the process dies the VM's state becomes stopped.
DeadIsStopped ==
    \A h \in QHandles :
        (h \in DOMAIN os /\ os[h] = "dead") ~> (h \in DOMAIN qvms => qvms[h] = "stopped")
=============================================================================
