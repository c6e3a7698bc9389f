------------------------------ MODULE EventRing ------------------------------
(***************************************************************************)
(* The event ring of vmcore: a lock-free ring buffer that carries events   *)
(* from one producer thread (vmcore) to one consumer thread (the Go        *)
(* controller).  No lock is taken: a push or a pop is a sequence of atomic *)
(* loads and stores on head and tail around one plain access to a slot,    *)
(* and the two sides interleave between any two of them.  An index owned   *)
(* by the thread that loads it cannot change under it, so that load is     *)
(* joined to the step that follows.                                        *)
(***************************************************************************)
EXTENDS Integers, Sequences

CONSTANTS Event,        \* what can be pushed
          NoEvent,      \* what a slot holds before it is first written
          Capacity,     \* slots in the buffer
          MaxPush       \* bound: pushes the producer attempts to complete

ASSUME CapacityAssumption == Capacity \in Nat \ {0}
ASSUME EventAssumption == NoEvent \notin Event
ASSUME MaxPushAssumption == MaxPush \in Nat

VARIABLES buffer,       \* the slots
          head,         \* next position to write, stored by the producer
          tail,         \* next position to read, stored by the consumer
          ppc, event,   \* producer: step of push, the event it carries
          cpc, got,     \* consumer: step of pop or len, the slot's content
          seen,         \* consumer: the head that len loaded
          out,          \* the event the last successful pop returned
          length        \* what the last call of len returned

erVars == <<buffer, head, tail, ppc, event, cpc, got, seen, out, length>>
pvars == <<ppc, event>>
cvars == <<cpc, got, seen, out, length>>

Slots == 0 .. Capacity - 1

Slot(i) == i % Capacity

ErInit ==
    /\ buffer = [i \in Slots |-> NoEvent]
    /\ head = 0 /\ tail = 0
    /\ ppc = "idle" /\ event = NoEvent
    /\ cpc = "idle" /\ got = NoEvent
    /\ seen = 0 /\ out = NoEvent /\ length = 0

-----------------------------------------------------------------------------
(* The producer: push.                                                     *)

\* Mutant: one event too many is let in.
PushBeginOffByOne(e) ==
    /\ ppc = "idle"
    /\ head < MaxPush
    /\ head - tail <= Capacity
    /\ ppc' = "write" /\ event' = e
    /\ UNCHANGED <<buffer, head, tail, cvars>>

\* Load tail; a full ring refuses the event and changes nothing.
PushBegin(e) ==
    /\ ppc = "idle"
    /\ head < MaxPush
    /\ ~(head - tail >= Capacity)
    /\ ppc' = "write" /\ event' = e
    /\ UNCHANGED <<buffer, head, tail, cvars>>

\* Mutant: the slot is computed from the incremented head.
PushWriteNext ==
    /\ ppc = "write"
    /\ buffer' = [buffer EXCEPT ![Slot(head + 1)] = event]
    /\ ppc' = "publish"
    /\ UNCHANGED <<head, tail, event, cvars>>

PushWrite ==
    /\ ppc = "write"
    /\ buffer' = [buffer EXCEPT ![Slot(head)] = event]
    /\ ppc' = "publish"
    /\ UNCHANGED <<head, tail, event, cvars>>

PushPublish ==
    /\ ppc = "publish"
    /\ head' = head + 1
    /\ ppc' = "idle"
    /\ UNCHANGED <<buffer, tail, event, cvars>>

-----------------------------------------------------------------------------
(* The consumer: pop and len.                                              *)

\* Mutant: an empty ring is read all the same.
PopBeginOffByOne ==
    /\ cpc = "idle"
    /\ ~(tail > head)
    /\ cpc' = "read"
    /\ UNCHANGED <<buffer, head, tail, pvars, got, seen, out, length>>

\* Load head; an empty ring returns None and changes nothing.
PopBegin ==
    /\ cpc = "idle"
    /\ ~(tail >= head)
    /\ cpc' = "read"
    /\ UNCHANGED <<buffer, head, tail, pvars, got, seen, out, length>>

PopRead ==
    /\ cpc = "read"
    /\ got' = buffer[Slot(tail)]
    /\ cpc' = "release"
    /\ UNCHANGED <<buffer, head, tail, pvars, seen, out, length>>

PopRelease ==
    /\ cpc = "release"
    /\ tail' = tail + 1
    /\ out' = got
    /\ cpc' = "idle"
    /\ UNCHANGED <<buffer, head, pvars, got, seen, length>>

LenLoadHead ==
    /\ cpc = "idle"
    /\ seen' = head
    /\ cpc' = "len"
    /\ UNCHANGED <<buffer, head, tail, pvars, got, out, length>>

LenLoadTail ==
    /\ cpc = "len"
    /\ length' = seen - tail
    /\ cpc' = "idle"
    /\ UNCHANGED <<buffer, head, tail, pvars, got, seen, out>>

-----------------------------------------------------------------------------
Producer == PushWrite \/ PushPublish \/ \E e \in Event : PushBegin(e)

Consumer == PopBegin \/ PopRead \/ PopRelease \/ LenLoadHead \/ LenLoadTail

ErNext == Producer \/ Consumer

ErSpec == ErInit /\ [][ErNext]_erVars

-----------------------------------------------------------------------------
(* Properties.                                                             *)

\* Type invariant of the ring.
ErTypeOK ==
    /\ buffer \in [Slots -> Event \cup {NoEvent}]
    /\ head \in Nat /\ tail \in Nat
    /\ ppc \in {"idle", "write", "publish"}
    /\ event \in Event \cup {NoEvent}
    /\ cpc \in {"idle", "read", "release", "len"}
    /\ got \in Event \cup {NoEvent}
    /\ seen \in Nat /\ length \in Nat
    /\ out \in Event \cup {NoEvent}

\* The plain accesses to a slot never race: while push is writing its slot
\* the consumer is not between loading head and storing tail on that slot.
NoSlotRace ==
    ~(ppc \in {"write", "publish"} /\ cpc \in {"read", "release"}
        /\ Slot(head) = Slot(tail))

\* What len subtracts never underflows u64 and never exceeds the capacity,
\* although head and tail are loaded at different times.
LenInRange ==
    /\ cpc = "len" => tail <= seen /\ seen - tail <= Capacity
    /\ length <= Capacity

queueBar == [i \in 1 .. head - tail |-> buffer[Slot(tail + i - 1)]]

Queue == INSTANCE EventQueue WITH queue <- queueBar

\* Every event is delivered exactly once, in the order it was pushed, with the
\* content it was pushed with.
ImplementsEventQueue == Queue!Spec
=============================================================================
