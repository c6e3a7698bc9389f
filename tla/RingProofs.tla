----------------------------- MODULE RingProofs -----------------------------
(***************************************************************************)
(* The two rings of the Rust library, for every size of them: the event    *)
(* ring, on which no slot is raced for and which is a bounded FIFO queue,  *)
(* and the block device's, on which no head is lost.                       *)
(***************************************************************************)
EXTENDS EventRing, BlockIo, FiniteSetTheorems, SequenceTheorems, TLAPS

-----------------------------------------------------------------------------
(* EventRing.                                                              *)

(***************************************************************************)
(* The inductive invariant.  Each side's view of the other's index may be  *)
(* stale, but only on the safe side: a push in progress has its slot free, *)
(* a pop in progress has its slot filled.                                  *)
(***************************************************************************)
IInv ==
    /\ ErTypeOK
    /\ tail <= head /\ head - tail <= Capacity
    /\ ppc \in {"write", "publish"} => head - tail < Capacity
    /\ ppc \in {"write", "publish"} => event \in Event
    /\ cpc \in {"read", "release"} => tail < head
    /\ cpc = "len" => tail <= seen /\ seen <= head
    /\ length <= Capacity

\* Two positions less than a lap apart are in different slots.
LEMMA DistinctSlots ==
    ASSUME NEW a \in Nat, NEW b \in Nat, b < a, a - b < Capacity
    PROVE  Slot(a) # Slot(b)
<1> USE CapacityAssumption
<1> DEFINE qa == a \div Capacity
           qb == b \div Capacity
<1>1. qa \in Int /\ a = Capacity * qa + Slot(a) /\ Slot(a) \in Slots
    BY DEF Slot, Slots
<1>2. qb \in Int /\ b = Capacity * qb + Slot(b) /\ Slot(b) \in Slots
    BY DEF Slot, Slots
<1>3. SUFFICES ASSUME Slot(a) = Slot(b) PROVE FALSE
    OBVIOUS
<1> HIDE DEF qa, qb
<1>4. Slot(a) \in Int /\ Slot(b) \in Int
    BY <1>1, <1>2 DEF Slots
<1>5. a - b = Capacity * (qa - qb)
    BY <1>1, <1>2, <1>3, <1>4
<1>6. CASE qa - qb <= 0
    BY <1>1, <1>2, <1>5, <1>6
<1>7. CASE qa - qb >= 1
    BY <1>1, <1>2, <1>5, <1>7
<1>8. QED BY <1>1, <1>2, <1>6, <1>7

\* A position's slot is a slot.
LEMMA SlotInSlots == ASSUME NEW i \in Nat PROVE Slot(i) \in Slots
BY CapacityAssumption DEF Slot, Slots

\* The empty ring satisfies the invariant.
LEMMA InvInit == ErInit => IInv
BY CapacityAssumption DEF ErInit, IInv, ErTypeOK

\* Every step of push, pop and len preserves the invariant.
LEMMA InvNext == IInv /\ [ErNext]_erVars => IInv'
<1> SUFFICES ASSUME IInv, [ErNext]_erVars PROVE IInv'
    OBVIOUS
<1> USE CapacityAssumption DEF IInv, ErTypeOK, pvars, cvars
<1>1. ASSUME NEW e \in Event, PushBegin(e) PROVE IInv'
    BY <1>1 DEF PushBegin
<1>2. CASE PushWrite
    BY <1>2, SlotInSlots DEF PushWrite
<1>3. CASE PushPublish
    BY <1>3 DEF PushPublish
<1>4. CASE PopBegin
    BY <1>4 DEF PopBegin
<1>5. CASE PopRead
    BY <1>5, SlotInSlots DEF PopRead
<1>6. CASE PopRelease
    BY <1>6 DEF PopRelease
<1>7. CASE LenLoadHead
    BY <1>7 DEF LenLoadHead
<1>8. CASE LenLoadTail
    BY <1>8 DEF LenLoadTail
<1>9. CASE UNCHANGED erVars
    BY <1>9 DEF erVars
<1>10. QED
    BY <1>1, <1>2, <1>3, <1>4, <1>5, <1>6, <1>7, <1>8, <1>9, Zenon
       DEF ErNext, Producer, Consumer

\* The invariant holds in every reachable state.
THEOREM Invariance == ErSpec => []IInv
BY InvInit, InvNext, PTL DEF ErSpec

\* The unsynchronised slot accesses of push and pop never meet.
THEOREM RaceFree == ErSpec => []NoSlotRace
<1>1. IInv => NoSlotRace
    BY DistinctSlots DEF IInv, ErTypeOK, NoSlotRace
<1>2. QED BY <1>1, Invariance, PTL

\* The u64 subtraction of len neither underflows nor exceeds the capacity.
THEOREM LenSafe == ErSpec => []LenInRange
<1>1. IInv => LenInRange
    BY CapacityAssumption DEF IInv, ErTypeOK, LenInRange
<1>2. QED BY <1>1, Invariance, PTL

-----------------------------------------------------------------------------
(* The ring implements EventQueue. The events between tail and head are    *)
(* the queue: PushPublish appends to it, PopRelease takes its first,       *)
(* nothing else changes it.                                                *)

\* What a push in progress has written is there until it is published, and what
\* a pop in progress has read is still what its slot holds.
CarryInv ==
    /\ IInv
    /\ ppc = "publish" => buffer[Slot(head)] = event
    /\ cpc = "release" => got = buffer[Slot(tail)]

\* The consumer's slot and the published ones are not the one that is written.
LEMMA WriteElsewhere ==
    ASSUME IInv, ppc = "write", NEW i \in Nat, tail <= i, i < head
    PROVE  Slot(i) # Slot(head)
  <1>1. head \in Nat /\ head - i < Capacity
    BY CapacityAssumption DEF IInv, ErTypeOK
  <1> QED
    BY <1>1, DistinctSlots

\* Nothing is carried at first.
LEMMA CarryInit == ErInit => CarryInv
  BY InvInit DEF ErInit, CarryInv

\* Every step of push, pop and len keeps it.
LEMMA CarryNext == CarryInv /\ [ErNext]_erVars => CarryInv'
  <1> SUFFICES ASSUME CarryInv, [ErNext]_erVars PROVE CarryInv'
    OBVIOUS
  <1>0. IInv /\ IInv'
    BY InvNext DEF CarryInv
  <1>1. CASE PushWrite
    <2>1. Slot(head) \in Slots /\ buffer \in [Slots -> Event \cup {NoEvent}]
      BY <1>0, SlotInSlots DEF IInv, ErTypeOK
    <2>2. buffer'[Slot(head)] = event
      BY <1>1, <2>1 DEF PushWrite
    <2>3. cpc = "release" => buffer'[Slot(tail)] = buffer[Slot(tail)]
      <3>1. cpc = "release" => Slot(tail) # Slot(head)
        BY <1>0, <1>1, WriteElsewhere DEF IInv, ErTypeOK, PushWrite
      <3>2. Slot(tail) \in Slots
        BY <1>0, SlotInSlots DEF IInv, ErTypeOK
      <3> QED
        BY <1>1, <2>1, <3>1, <3>2 DEF PushWrite
    <2> QED
      BY <1>0, <1>1, <2>2, <2>3 DEF CarryInv, PushWrite, cvars, Slot
  <1>2. CASE ~PushWrite
    BY <1>0, <1>2 DEF CarryInv, erVars, pvars, cvars, ErNext, Producer, Consumer, PushBegin, PushPublish,
       PopBegin, PopRead, PopRelease, LenLoadHead, LenLoadTail
  <1> QED
    BY <1>1, <1>2

-----------------------------------------------------------------------------
\* The content of the slots from position t up to h.
Window(b, t, h) == [i \in 1 .. h - t |-> b[Slot(t + i - 1)]]

\* It is a sequence of events, of that length.
LEMMA WindowIs ==
    ASSUME NEW S, NEW b \in [Slots -> S], NEW t \in Nat, NEW h \in Nat, t <= h
    PROVE  Window(b, t, h) \in Seq(S) /\ Len(Window(b, t, h)) = h - t
  <1>1. PICK n \in Nat : n = h - t
    OBVIOUS
  <1>2. \A i \in 1 .. n : b[Slot(t + i - 1)] \in S
    BY SlotInSlots
  <1>3. PICK w : w = Window(b, t, h)
    OBVIOUS
  <1>4. w \in [1 .. n -> S]
    BY <1>1, <1>2, <1>3, Zenon DEF Window
  <1>5. w \in Seq(S) /\ Len(w) = n
    BY <1>4
  <1> QED
    BY <1>1, <1>3, <1>5

\* One position more is one event more.
LEMMA WindowGrows ==
    ASSUME NEW S, NEW b \in [Slots -> S], NEW t \in Nat, NEW h \in Nat, t <= h
    PROVE  Window(b, t, h + 1) = Append(Window(b, t, h), b[Slot(h)])
  <1>1. PICK s : s = Window(b, t, h)
    OBVIOUS
  <1>2. PICK w : w = Window(b, t, h + 1)
    OBVIOUS
  <1>3. PICK n \in Nat : n = h - t
    OBVIOUS
  <1>4. s \in Seq(S) /\ Len(s) = n /\ \A i \in 1 .. n : s[i] = b[Slot(t + i - 1)]
    <2>1. Window(b, t, h) \in Seq(S) /\ Len(Window(b, t, h)) = h - t
      BY WindowIs, Zenon
    <2>2. s \in Seq(S) /\ Len(s) = n
      BY <1>1, <1>3, <2>1, Zenon
    <2>3. \A i \in 1 .. n : s[i] = b[Slot(t + i - 1)]
      BY <1>1, <1>3 DEF Window
    <2> QED
      BY <2>2, <2>3
  <1>5. w \in Seq(S) /\ Len(w) = n + 1 /\ \A i \in 1 .. n + 1 : w[i] = b[Slot(t + i - 1)]
    <2>1. PICK k \in Nat : k = h + 1 /\ k - t = n + 1 /\ t <= k
      BY <1>3
    <2>2. Window(b, t, k) \in Seq(S) /\ Len(Window(b, t, k)) = k - t
      <3>1. t <= k
        BY <2>1
      <3> QED
        BY <3>1, WindowIs, Zenon
    <2>3. w \in Seq(S) /\ Len(w) = k - t
      BY <1>2, <2>1, <2>2, Zenon
    <2>4. \A i \in 1 .. k - t : w[i] = b[Slot(t + i - 1)]
      BY <1>2, <2>1 DEF Window
    <2> QED
      BY <2>1, <2>3, <2>4
  <1>6. PICK e \in S : e = b[Slot(h)]
    BY SlotInSlots
  <1>7. w[n + 1] = e
    <2>1. t + (n + 1) - 1 = h
      BY <1>3
    <2> QED
      BY <1>5, <1>6, <2>1
  <1>8. w = Append(s, e)
    <2>1. PICK a : a = Append(s, e)
      BY Zenon
    <2>2. a \in Seq(S) /\ Len(a) = n + 1 /\ a[n + 1] = e /\ \A i \in 1 .. n : a[i] = s[i]
      BY <1>4, <2>1
    <2>3. ASSUME NEW i \in 1 .. n + 1 PROVE w[i] = a[i]
      <3>1. CASE i = n + 1
        BY <1>7, <2>2, <3>1
      <3>2. CASE i \in 1 .. n
        <4>1. w[i] = b[Slot(t + i - 1)]
          BY <1>5, <3>2
        <4>2. a[i] = b[Slot(t + i - 1)]
          BY <1>4, <2>2, <3>2
        <4> QED
          BY <4>1, <4>2
      <3> QED
        BY <3>1, <3>2
    <2> QED
      BY <1>5, <2>1, <2>2, <2>3
  <1> QED
    BY <1>1, <1>2, <1>6, <1>8

\* One position less is one event less.
LEMMA WindowShrinks ==
    ASSUME NEW S, NEW b \in [Slots -> S], NEW t \in Nat, NEW h \in Nat, t < h
    PROVE  /\ Window(b, t, h) # << >> /\ Head(Window(b, t, h)) = b[Slot(t)]
           /\ Tail(Window(b, t, h)) = Window(b, t + 1, h)
  <1>1. PICK s : s = Window(b, t, h)
    OBVIOUS
  <1>2. PICK w : w = Window(b, t + 1, h)
    OBVIOUS
  <1>3. PICK n \in Nat : n = h - t /\ n > 0
    OBVIOUS
  <1>4. s \in Seq(S) /\ Len(s) = n /\ \A i \in 1 .. n : s[i] = b[Slot(t + i - 1)]
    <2>0. t <= h
      OBVIOUS
    <2>1. s \in Seq(S) /\ Len(s) = n
      <3>1. Window(b, t, h) \in Seq(S) /\ Len(Window(b, t, h)) = h - t
        BY <2>0, WindowIs, Zenon
      <3> QED
        BY <1>1, <1>3, <3>1, Zenon
    <2>2. \A i \in 1 .. n : s[i] = b[Slot(t + i - 1)]
      BY <1>1, <1>3 DEF Window
    <2> QED
      BY <2>1, <2>2
  <1>5. w \in Seq(S) /\ Len(w) = n - 1 /\ \A i \in 1 .. n - 1 : w[i] = b[Slot((t + 1) + i - 1)]
    <2>1. PICK k \in Nat : k = t + 1 /\ h - k = n - 1 /\ k <= h
      BY <1>3
    <2>2. w \in Seq(S) /\ Len(w) = h - k
      <3>0. k <= h
        BY <2>1
      <3>1. w = Window(b, k, h)
        BY <1>2, <2>1
      <3>2. Window(b, k, h) \in Seq(S) /\ Len(Window(b, k, h)) = h - k
        BY <3>0, WindowIs, Zenon
      <3> QED
        BY <3>1, <3>2
    <2>3. \A i \in 1 .. h - k : w[i] = b[Slot(k + i - 1)]
      BY <1>2, <2>1 DEF Window
    <2> QED
      BY <2>1, <2>2, <2>3
  <1>6. s # << >> /\ Head(s) = s[1] /\ s[1] = b[Slot(t)]
    <2>1. t + 1 - 1 = t
      OBVIOUS
    <2> QED
      BY <1>3, <1>4, <2>1
  <1>7. \A i \in 1 .. n - 1 : w[i] = s[i + 1]
    <2>1. \A i \in 1 .. n - 1 : (t + 1) + i - 1 = t + (i + 1) - 1 /\ i + 1 \in 1 .. n
      BY <1>3
    <2> QED
      BY <1>4, <1>5, <2>1, Zenon
  <1>8. Tail(s) \in Seq(S) /\ Len(Tail(s)) = n - 1 /\ \A i \in 1 .. n - 1 : Tail(s)[i] = s[i + 1]
    BY <1>3, <1>4, <1>6
  <1>9. Tail(s) = w
    <2>1. w \in Seq(S) /\ Len(w) = n - 1
      BY <1>5
    <2>2. \A i \in 1 .. n - 1 : Tail(s)[i] = w[i]
      BY <1>7, <1>8, Zenon
    <2> QED
      BY <1>8, <2>1, <2>2
  <1> QED
    BY <1>1, <1>2, <1>6, <1>9

-----------------------------------------------------------------------------
\* The write into a free slot shows in no entry of the queue.
LEMMA WriteHidden ==
    ASSUME IInv, PushWrite
    PROVE  queueBar' = queueBar
  <1>1. ASSUME NEW i \in 1 .. head - tail
        PROVE  buffer'[Slot(tail + i - 1)] = buffer[Slot(tail + i - 1)]
    <2>1. PICK p \in Nat : p = tail + i - 1 /\ tail <= p /\ p < head
      BY DEF IInv, ErTypeOK
    <2>2. Slot(p) # Slot(head) /\ Slot(p) \in Slots
      BY <2>1, WriteElsewhere, SlotInSlots DEF PushWrite
    <2>3. buffer'[Slot(p)] = buffer[Slot(p)]
      BY <2>2 DEF PushWrite, IInv, ErTypeOK
    <2> QED
      BY <2>1, <2>3
  <1> QED
    BY <1>1 DEF queueBar, PushWrite, cvars, Slot

\* Publishing appends the event that was written.
LEMMA PublishPushes ==
    ASSUME CarryInv, PushPublish
    PROVE  event \in Event /\ Queue!Push(event)
  <1>1. PICK b, h, t : b = buffer /\ h = head /\ t = tail
    OBVIOUS
  <1>2. /\ b \in [Slots -> Event \cup {NoEvent}] /\ h \in Nat /\ t \in Nat /\ t <= h
        /\ event \in Event /\ h - t < Capacity /\ b[Slot(h)] = event
    BY <1>1 DEF CarryInv, IInv, ErTypeOK, PushPublish
  <1>3. queueBar = Window(b, t, h)
    BY <1>1 DEF queueBar, Window
  <1>4. queueBar' = Window(b, t, h + 1)
    BY <1>1 DEF queueBar, Window, PushPublish
  <1>5. Len(queueBar) < Capacity
    <2>1. Len(Window(b, t, h)) = h - t
      BY <1>2, WindowIs, Zenon
    <2> QED
      BY <1>2, <1>3, <2>1, Zenon
  <1>6. queueBar' = Append(queueBar, event)
    BY <1>2, <1>3, <1>4, WindowGrows, Zenon
  <1> QED
    BY <1>2, <1>5, <1>6 DEF Queue!Push, PushPublish, cvars

\* Releasing takes off the event that was read.
LEMMA ReleasePops ==
    ASSUME CarryInv, PopRelease
    PROVE  Queue!Pop
  <1>1. PICK b, h, t : b = buffer /\ h = head /\ t = tail
    OBVIOUS
  <1>2. /\ b \in [Slots -> Event \cup {NoEvent}] /\ h \in Nat /\ t \in Nat /\ t < h
        /\ b[Slot(t)] = got
    BY <1>1 DEF CarryInv, IInv, ErTypeOK, PopRelease
  <1>3. queueBar = Window(b, t, h)
    BY <1>1 DEF queueBar, Window
  <1>4. queueBar' = Window(b, t + 1, h)
    BY <1>1, Zenon DEF queueBar, Window, PopRelease
  <1>5. queueBar # << >> /\ Head(queueBar) = got /\ Tail(queueBar) = queueBar'
    BY <1>2, <1>3, <1>4, WindowShrinks, Zenon
  <1> QED
    BY <1>5 DEF Queue!Pop, PopRelease

\* An empty ring is the empty queue.
LEMMA QueueInit == ErInit => Queue!Init
  <1> SUFFICES ASSUME ErInit PROVE Queue!Init
    OBVIOUS
  <1>1. 1 .. head - tail = {}
    BY DEF ErInit
  <1>2. queueBar = << >>
    BY <1>1 DEF queueBar
  <1> QED
    BY <1>2 DEF ErInit, Queue!Init

\* Every other step leaves the queue as it is.
LEMMA QueueNext == CarryInv /\ [ErNext]_erVars => [Queue!Next]_<<queueBar, out>>
  <1> SUFFICES ASSUME CarryInv, [ErNext]_erVars PROVE [Queue!Next]_<<queueBar, out>>
    OBVIOUS
  <1>1. CASE PushPublish
    BY <1>1, PublishPushes DEF Queue!Next
  <1>2. CASE PopRelease
    BY <1>2, ReleasePops DEF Queue!Next
  <1>3. CASE PushWrite
    BY <1>3, WriteHidden DEF PushWrite, cvars, CarryInv
  <1>4. CASE ~PushPublish /\ ~PopRelease /\ ~PushWrite
    <2>1. UNCHANGED <<buffer, head, tail, out>>
      BY <1>4, Zenon
         DEF erVars, pvars, cvars, ErNext, Producer, Consumer, PushBegin, PopBegin, PopRead,
         LenLoadHead, LenLoadTail
    <2> QED
      BY <2>1 DEF queueBar
  <1> QED
    BY <1>1, <1>2, <1>3, <1>4

\* For every capacity and any number of pushes, the ring is a bounded FIFO queue:
\* every event is delivered once, in the order of the pushes and as it was pushed.
THEOREM RingIsQueue == ErSpec => ImplementsEventQueue
  <1> QED
    BY CarryInit, CarryNext, QueueInit, QueueNext, PTL DEF ErSpec, ImplementsEventQueue, Queue!Spec

-----------------------------------------------------------------------------
(* BlockIo. The rings are windows of a circular array, addressed by free-  *)
(* running 16-bit indices: first the arithmetic of windows, then the four  *)
(* places a head can be in, then the kernel's requests.                    *)

-----------------------------------------------------------------------------
(* Arithmetic of indices that wrap.                                        *)

\* Dividing by the queue size: quotient and remainder.
LEMMA Division ==
    ASSUME NEW n \in Nat \ {0}, NEW a \in Int
    PROVE  \E q \in Int, r \in 0 .. n - 1 : a = n * q + r /\ r = (a % n)
  <1>1. a % n \in 0 .. n - 1 /\ a \div n \in Int
    OBVIOUS
  <1>2. a = n * (a \div n) + (a % n)
    OBVIOUS
  <1> QED
    BY <1>1, <1>2

\* The remainder of a number written with its quotient is the rest.
LEMMA Remainder ==
    ASSUME NEW n \in Nat \ {0}, NEW q \in Int, NEW r \in 0 .. n - 1
    PROVE  (n * q + r) % n = r
  OBVIOUS

\* Whole turns of the ring leave the slot where it is.
LEMMA WholeTurns ==
    ASSUME NEW n \in Nat \ {0}, NEW a \in Int, NEW k \in Int
    PROVE  (a + n * k) % n = (a % n)
  <1>1. PICK q \in Int, r \in 0 .. n - 1 : a = n * q + r /\ r = (a % n)
    BY Division, Zenon
  <1>2. a + n * k = n * (q + k) + r /\ q + k \in Int
    BY <1>1
  <1>3. (n * (q + k) + r) % n = r
    BY <1>2, Remainder
  <1> QED
    BY <1>1, <1>2, <1>3

\* n consecutive numbers have n remainders.
LEMMA Consecutive ==
    ASSUME NEW n \in Nat \ {0}, NEW a \in Int, NEW i \in 0 .. n - 1, NEW j \in 0 .. n - 1,
           (a + i) % n = ((a + j) % n)
    PROVE  i = j
  <1>0. a + i \in Int /\ a + j \in Int
    OBVIOUS
  <1>1. PICK q \in Int, r \in 0 .. n - 1 : a + i = n * q + r /\ r = ((a + i) % n)
    BY <1>0, Division, Zenon
  <1>2. PICK p \in Int, s \in 0 .. n - 1 : a + j = n * p + s /\ s = ((a + j) % n)
    BY <1>0, Division, Zenon
  <1>3. i - j = n * (q - p)
    BY <1>1, <1>2
  <1>4. CASE q - p >= 1
    <2>1. n * (q - p) >= n
      BY <1>4
    <2> QED
      BY <1>3, <2>1
  <1>5. CASE q - p <= -1
    <2>1. n * (q - p) <= -n
      BY <1>5
    <2> QED
      BY <1>3, <2>1
  <1>6. CASE q - p = 0
    BY <1>3, <1>6
  <1> QED
    BY <1>4, <1>5, <1>6

-----------------------------------------------------------------------------
(* A window of a ring: n entries from the index from.                      *)

\* The values of the 16-bit indices (IdxWord of them).
Idx == 0 .. IdxWord - 1
\* The slot of the i-th entry after an index.
SlotAt(from, i) == (from + i) % QueueSize
\* One of the n ring entries after an index holds the head h.
RingHolds(ring, from, n, h) == \E i \in 0 .. n - 1 : ring[SlotAt(from, i)] = h
\* The n ring entries after an index hold different heads.
Distinct(ring, from, n) ==
    \A i, j \in 0 .. n - 1 : ring[SlotAt(from, i)] = ring[SlotAt(from, j)] => i = j

\* How the index arithmetic goes, without the remainder.
LEMMA WrapIs ==
    ASSUME NEW a \in Idx, NEW b \in Idx
    PROVE  /\ Wrap(a - b) = IF a >= b THEN a - b ELSE a - b + IdxWord
           /\ Wrap(a + b) = IF a + b < IdxWord THEN a + b ELSE a + b - IdxWord
           /\ Wrap(a + 1) = IF a + 1 < IdxWord THEN a + 1 ELSE 0
  <1>1. IdxWord \in Nat \ {0}
    BY QueueAssumption
  <1>2. ASSUME NEW r \in Idx PROVE r % IdxWord = r /\ (r - IdxWord) % IdxWord = r /\ (r + IdxWord) % IdxWord = r
    BY <1>1 DEF Idx
  <1>3. Wrap(a - b) = IF a >= b THEN a - b ELSE a - b + IdxWord
    <2>1. CASE a >= b
      <3>1. a - b \in Idx
        BY <1>1, <2>1 DEF Idx
      <3> QED
        BY <1>2, <2>1, <3>1 DEF Wrap
    <2>2. CASE ~(a >= b)
      <3>1. PICK r \in Idx : r = a - b + IdxWord
        BY <1>1, <2>2 DEF Idx
      <3>2. a - b = r - IdxWord
        BY <1>1, <3>1 DEF Idx
      <3> QED
        BY <1>2, <2>2, <3>1, <3>2 DEF Wrap
    <2> QED
      BY <2>1, <2>2
  <1>4. ASSUME NEW c \in Idx \cup {1}
        PROVE  Wrap(a + c) = IF a + c < IdxWord THEN a + c ELSE a + c - IdxWord
    <2>0. c \in Int /\ c >= 0 /\ c <= IdxWord /\ a \in Int
      BY <1>1 DEF Idx
    <2>1. CASE a + c < IdxWord
      <3>1. a + c \in Idx
        BY <1>1, <2>0, <2>1 DEF Idx
      <3> QED
        BY <1>2, <2>1, <3>1 DEF Wrap
    <2>2. CASE ~(a + c < IdxWord)
      <3>1. PICK r \in Idx : r = a + c - IdxWord
        BY <1>1, <2>0, <2>2 DEF Idx
      <3>2. a + c = r + IdxWord
        BY <1>1, <2>0, <3>1 DEF Idx
      <3> QED
        BY <1>2, <2>2, <3>1, <3>2 DEF Wrap
    <2> QED
      BY <2>1, <2>2
  <1> QED
    BY <1>1, <1>3, <1>4 DEF Idx

\* The ring size divides the number of index values: slots go on in turn where
\* an index wraps.
LEMMA SlotIs ==
    ASSUME NEW from \in Idx, NEW to \in Idx, NEW i \in Nat
    PROVE  /\ SlotAt(from, i) \in RingSlots
           /\ SlotAt(Wrap(from + 1), i) = SlotAt(from, i + 1)
           /\ to % QueueSize = SlotAt(from, Wrap(to - from))
  <1>0. QueueSize \in Nat \ {0} /\ from \in Int /\ to \in Int
    BY QueueAssumption DEF Idx
  <1>1. PICK q \in Int : IdxWord = QueueSize * q
    BY QueueAssumption, Division
  <1>2. ASSUME NEW a \in Int PROVE (a + IdxWord) % QueueSize = (a % QueueSize)
    BY <1>0, <1>1, WholeTurns, Zenon
  <1>3. SlotAt(from, i) \in RingSlots
    BY <1>0 DEF SlotAt, RingSlots
  <1>4. SlotAt(Wrap(from + 1), i) = SlotAt(from, i + 1)
    <2>1. CASE from + 1 < IdxWord
      BY <1>0, <2>1, WrapIs DEF SlotAt
    <2>2. CASE ~(from + 1 < IdxWord)
      <3>1. from + (i + 1) = i + IdxWord
        BY <2>2, QueueAssumption DEF Idx
      <3>2. Wrap(from + 1) + i = i
        BY <2>2, WrapIs
      <3> QED
        BY <1>2, <3>1, <3>2 DEF SlotAt
    <2> QED
      BY <2>1, <2>2
  <1>5. to % QueueSize = SlotAt(from, Wrap(to - from))
    <2>1. CASE to >= from
      <3>1. from + Wrap(to - from) = to
        BY <1>0, <2>1, WrapIs
      <3> QED
        BY <3>1 DEF SlotAt
    <2>2. CASE ~(to >= from)
      <3>1. from + Wrap(to - from) = to + IdxWord
        BY <1>0, <2>2, WrapIs, QueueAssumption
      <3> QED
        BY <1>0, <1>2, <3>1 DEF SlotAt
    <2> QED
      BY <2>1, <2>2
  <1> QED
    BY <1>3, <1>4, <1>5

\* The ring with h in the n-th place from index from.
Entered(ring, from, n, h) == [ring EXCEPT ![SlotAt(from, n)] = h]

\* An entry written at the end of a window that is not full.
LEMMA WindowWidens ==
    ASSUME NEW ring \in [RingSlots -> Heads], NEW from \in Idx, NEW n \in 0 .. QueueSize - 1,
           NEW h \in Heads, Distinct(ring, from, n), ~RingHolds(ring, from, n, h),
           NEW new, new = Entered(ring, from, n, h)
    PROVE  /\ new \in [RingSlots -> Heads]
           /\ Distinct(new, from, n + 1)
           /\ \A x : RingHolds(new, from, n + 1, x) <=> RingHolds(ring, from, n, x) \/ x = h
  <1>0. QueueSize \in Nat \ {0} /\ from \in Int
    BY QueueAssumption DEF Idx
  <1>1. \A i \in 0 .. n : SlotAt(from, i) \in RingSlots
    BY <1>0, SlotIs
  <1>2. \A i \in 0 .. n - 1 : SlotAt(from, i) # SlotAt(from, n)
    <2> SUFFICES ASSUME NEW i \in 0 .. n - 1, SlotAt(from, i) = SlotAt(from, n)
                 PROVE  FALSE
      OBVIOUS
    <2>1. i \in 0 .. QueueSize - 1 /\ n \in 0 .. QueueSize - 1 /\ i # n
      BY <1>0
    <2> QED
      BY <1>0, <2>1, Consecutive, Zenon DEF SlotAt
  <1>3. new[SlotAt(from, n)] = h /\ \A i \in 0 .. n - 1 : new[SlotAt(from, i)] = ring[SlotAt(from, i)]
    BY <1>0, <1>1, <1>2 DEF Entered
  <1>4. \A i \in 0 .. (n + 1) - 1 : i \in 0 .. n - 1 \/ i = n
    BY <1>0
  <1>5. Distinct(new, from, n + 1)
    <2> SUFFICES ASSUME NEW i \in 0 .. (n + 1) - 1, NEW j \in 0 .. (n + 1) - 1,
                        new[SlotAt(from, i)] = new[SlotAt(from, j)]
                 PROVE  i = j
      BY Zenon DEF Distinct
    <2>1. \A k \in 0 .. n - 1 : ring[SlotAt(from, k)] # h
      BY Zenon DEF RingHolds
    <2>2. i \in 0 .. n - 1 /\ j \in 0 .. n - 1 => i = j
      BY <1>3, Zenon DEF Distinct
    <2> QED
      BY <1>3, <1>4, <2>1, <2>2, Zenon
  <1>6. \A x : RingHolds(new, from, n + 1, x) <=> RingHolds(ring, from, n, x) \/ x = h
    BY <1>0, <1>3, <1>4 DEF RingHolds
  <1>7. new \in [RingSlots -> Heads]
    BY <1>1 DEF Entered
  <1> QED
    BY <1>5, <1>6, <1>7, Zenon

\* The first entry of a window is taken.
LEMMA WindowNarrows ==
    ASSUME NEW ring, NEW from \in Idx, NEW n \in 1 .. QueueSize, NEW h,
           h = ring[SlotAt(from, 0)], Distinct(ring, from, n)
    PROVE  /\ Distinct(ring, Wrap(from + 1), n - 1)
           /\ ~RingHolds(ring, Wrap(from + 1), n - 1, h)
           /\ \A x : RingHolds(ring, from, n, x) <=> RingHolds(ring, Wrap(from + 1), n - 1, x) \/ x = h
  <1>0. QueueSize \in Nat \ {0}
    BY QueueAssumption
  <1>1. \A i \in 0 .. (n - 1) - 1 : SlotAt(Wrap(from + 1), i) = SlotAt(from, i + 1) /\ i + 1 \in 0 .. n - 1
    BY <1>0, SlotIs
  <1>2. 0 \in 0 .. n - 1
    BY <1>0
  <1>3. \A i \in 0 .. n - 1 : i = 0 \/ (i - 1 \in 0 .. (n - 1) - 1 /\ (i - 1) + 1 = i)
    BY <1>0
  <1>4. Distinct(ring, Wrap(from + 1), n - 1)
    BY <1>0, <1>1 DEF Distinct
  <1>5. ~RingHolds(ring, Wrap(from + 1), n - 1, h)
    BY <1>0, <1>1, <1>2 DEF Distinct, RingHolds
  <1>6. ASSUME NEW x, RingHolds(ring, from, n, x) PROVE RingHolds(ring, Wrap(from + 1), n - 1, x) \/ x = h
    BY <1>0, <1>1, <1>3, <1>6 DEF RingHolds
  <1>7. ASSUME NEW x, RingHolds(ring, Wrap(from + 1), n - 1, x) \/ x = h PROVE RingHolds(ring, from, n, x)
    BY <1>0, <1>1, <1>2, <1>7 DEF RingHolds
  <1> QED
    BY <1>4, <1>5, <1>6, <1>7, Zenon

\* Counting around the ring, without remainders.
LEMMA WrapCounts ==
    ASSUME NEW a \in Idx, NEW b \in Idx
    PROVE  /\ Wrap(a + 1) \in Idx /\ Wrap(a - b) \in Idx
           /\ Wrap(a - b) = 0 <=> a = b
           /\ Wrap(a - b) < IdxWord - 1 => Wrap(Wrap(a + 1) - b) = Wrap(a - b) + 1
           /\ a # b => Wrap(a - Wrap(b + 1)) = Wrap(a - b) - 1
           /\ Wrap(Wrap(a + b) + 1) = Wrap(Wrap(a + 1) + b)
           /\ b < IdxWord - 1 => Wrap(a + (b + 1)) = Wrap(Wrap(a + b) + 1)
  <1>0. IdxWord \in Nat /\ IdxWord > 1
    BY QueueAssumption
  <1>1. Wrap(a + 1) \in Idx /\ Wrap(a - b) \in Idx /\ Wrap(a + b) \in Idx /\ Wrap(b + 1) \in Idx
    BY <1>0, WrapIs DEF Idx
  <1>2. PICK c \in Idx, d \in Idx, e \in Idx :
           c = Wrap(a + 1) /\ d = Wrap(b + 1) /\ e = Wrap(a + b)
    BY <1>1
  <1>3. /\ a \in Int /\ b \in Int /\ c \in Int /\ d \in Int /\ e \in Int
        /\ a >= 0 /\ b >= 0 /\ a < IdxWord /\ b < IdxWord
        /\ c = IF a + 1 < IdxWord THEN a + 1 ELSE 0
        /\ d = IF b + 1 < IdxWord THEN b + 1 ELSE 0
        /\ e = IF a + b < IdxWord THEN a + b ELSE a + b - IdxWord
    BY <1>0, <1>2, WrapIs DEF Idx
  <1>4. /\ Wrap(a - b) = IF a >= b THEN a - b ELSE a - b + IdxWord
        /\ Wrap(c - b) = IF c >= b THEN c - b ELSE c - b + IdxWord
        /\ Wrap(a - d) = IF a >= d THEN a - d ELSE a - d + IdxWord
        /\ Wrap(e + 1) = IF e + 1 < IdxWord THEN e + 1 ELSE 0
        /\ Wrap(c + b) = IF c + b < IdxWord THEN c + b ELSE c + b - IdxWord
    BY WrapIs, Zenon
  <1>5. /\ Wrap(a - b) = 0 <=> a = b
        /\ Wrap(a - b) < IdxWord - 1 => Wrap(c - b) = Wrap(a - b) + 1
        /\ a # b => Wrap(a - d) = Wrap(a - b) - 1
        /\ Wrap(e + 1) = Wrap(c + b)
    BY ONLY <1>0, <1>3, <1>4
  <1>6. b < IdxWord - 1 => Wrap(a + (b + 1)) = Wrap(Wrap(a + b) + 1)
    <2>1. b < IdxWord - 1 => b + 1 \in Idx
      BY <1>0 DEF Idx
    <2>2. b < IdxWord - 1 =>
            Wrap(a + (b + 1)) = IF a + (b + 1) < IdxWord THEN a + (b + 1) ELSE a + (b + 1) - IdxWord
      BY <2>1, WrapIs, Zenon
    <2>3. b < IdxWord - 1 => Wrap(a + (b + 1)) = Wrap(e + 1)
      BY ONLY <1>0, <1>3, <1>4, <2>2
    <2> QED
      BY <1>2, <2>3, Zenon
  <1> QED
    BY <1>1, <1>2, <1>5, <1>6, Zenon

-----------------------------------------------------------------------------
(* Where a head is.                                                        *)

\* How many heads the guest has posted and the device has not popped.
Posts == Wrap(avail.idx - lastAvailIdx)
\* How many heads the device has answered and the guest has not reaped.
Answered == Wrap(used.idx - reaped)

\* Head h waits in the available ring.
IsPosted(h) == RingHolds(avail.ring, lastAvailIdx, Posts, h)
\* The requests the device has popped and not answered: in flight, or lost to a panic.
Held == inflight \cup lost
\* Head h is a request the device has popped and not answered.
IsServed(h) == \E r \in Held : r.head = h
\* Head h waits in the used ring.
IsAnswered(h) == RingHolds(used.ring, reaped, Answered, h)

\* Types of the two rings, their indices and the requests in flight.
BiShapes ==
    /\ avail \in [idx : Idx, ring : [RingSlots -> Heads]]
    /\ used \in [idx : Idx, ring : [RingSlots -> Heads]]
    /\ lastAvailIdx \in Idx /\ reaped \in Idx /\ mine \subseteq Heads
    /\ IsFiniteSet(Held) /\ \A r \in Held : r.head \in Heads

\* The guest keeps no more than a ring full outstanding, and the used index is
\* behind the available one by what is in flight.
BiCounts ==
    /\ Posts + Cardinality(Held) + Answered <= QueueSize
    /\ Wrap(used.idx + Cardinality(Held)) = lastAvailIdx

\* No place holds a head twice.
BiDistinct ==
    /\ Distinct(avail.ring, lastAvailIdx, Posts)
    /\ Distinct(used.ring, reaped, Answered)
    /\ \A r, s \in Held : r.head = s.head => r = s

\* Every head is in exactly one of the four places: with the guest, in the available
\* ring, in flight, in the used ring.
BiPlaces ==
    \A h \in Heads :
        /\ h \in mine \/ IsPosted(h) \/ IsServed(h) \/ IsAnswered(h)
        /\ h \in mine => ~IsPosted(h) /\ ~IsServed(h) /\ ~IsAnswered(h)
        /\ IsPosted(h) => ~IsServed(h) /\ ~IsAnswered(h)
        /\ IsServed(h) => ~IsAnswered(h)

\* The inductive invariant behind HeadsConserved.
HeadInv == BiShapes /\ BiCounts /\ BiDistinct /\ BiPlaces
\* A request is in flight or lost, not both.
LostApart == inflight \cap lost = {}

\* At first the guest has every head.
LEMMA HeadInit == BiInit => HeadInv
  <1> SUFFICES ASSUME BiInit PROVE HeadInv
    OBVIOUS
  <1>0. QueueSize \in Nat \ {0} /\ IdxWord \in Nat /\ IdxWord > QueueSize
    BY QueueAssumption
  <1>1. 0 \in Idx /\ 0 \in Heads /\ Wrap(0 - 0) = 0
    BY <1>0, WrapIs DEF Idx, Heads
  <1>2. Posts = 0 /\ Answered = 0
    BY <1>1, Zenon DEF BiInit, Posts, Answered
  <1>3. Held = {} /\ IsFiniteSet(Held) /\ Cardinality(Held) = 0
    <2>1. Held = {}
      BY DEF BiInit, Held
    <2> QED
      BY <2>1, FS_EmptySet, Zenon
  <1>4. BiShapes
    BY <1>0, <1>1, <1>3, Zenon DEF BiInit, BiShapes
  <1>5. BiCounts
    BY <1>0, <1>1, <1>2, <1>3, WrapIs DEF BiInit, BiCounts
  <1>6. BiDistinct
    BY <1>2, <1>3 DEF BiDistinct, Distinct
  <1>7. BiPlaces
    BY <1>2, <1>3 DEF BiInit, BiPlaces, IsPosted, IsServed, IsAnswered, RingHolds
  <1> QED
    BY <1>4, <1>5, <1>6, <1>7 DEF HeadInv

\* What the guest has outstanding is what is posted, in flight or answered.
LEMMA OutstandingIs ==
    ASSUME NEW a \in Idx, NEW l \in Idx, NEW u \in Idx, NEW r \in Idx, NEW k \in Nat,
           l = Wrap(u + k), Wrap(a - l) + k + Wrap(u - r) <= QueueSize
    PROVE  Wrap(a - r) = Wrap(a - l) + k + Wrap(u - r)
  <1>0. QueueSize \in Nat /\ IdxWord \in Nat /\ IdxWord > QueueSize
    BY QueueAssumption, Zenon
  <1>1. /\ a \in Int /\ l \in Int /\ u \in Int /\ r \in Int
        /\ a >= 0 /\ l >= 0 /\ u >= 0 /\ r >= 0
        /\ a < IdxWord /\ l < IdxWord /\ u < IdxWord /\ r < IdxWord
    BY <1>0 DEF Idx
  <1>2. /\ Wrap(a - l) = IF a >= l THEN a - l ELSE a - l + IdxWord
        /\ Wrap(u - r) = IF u >= r THEN u - r ELSE u - r + IdxWord
        /\ Wrap(a - r) = IF a >= r THEN a - r ELSE a - r + IdxWord
    BY WrapIs, Zenon
  <1>3. PICK p \in Int, w \in Int, t \in Int : p = Wrap(a - l) /\ w = Wrap(u - r) /\ t = Wrap(a - r)
    BY <1>0, <1>1, <1>2
  <1>4. /\ p >= 0 /\ w >= 0 /\ t >= 0 /\ t < IdxWord
        /\ p = a - l \/ p = a - l + IdxWord
        /\ w = u - r \/ w = u - r + IdxWord
        /\ t = a - r \/ t = a - r + IdxWord
        /\ p + k + w <= QueueSize
    BY <1>0, <1>1, <1>2, <1>3
  <1>5. k \in Idx
    BY <1>0, <1>4 DEF Idx
  <1>6. l = u + k \/ l = u + k - IdxWord
    BY <1>0, <1>5, WrapIs, Zenon
  <1>7. t = p + k + w
    BY ONLY <1>0, <1>1, <1>3, <1>4, <1>6, k \in Nat, p \in Int, w \in Int, t \in Int
  <1> QED
    BY <1>3, <1>7, Zenon

\* The numbers of HeadInv.
LEMMA HeadNumbers ==
    ASSUME HeadInv
    PROVE  /\ QueueSize \in Nat \ {0} /\ IdxWord \in Nat /\ IdxWord > QueueSize
           /\ avail.idx \in Idx /\ used.idx \in Idx /\ lastAvailIdx \in Idx /\ reaped \in Idx
           /\ avail.ring \in [RingSlots -> Heads] /\ used.ring \in [RingSlots -> Heads]
           /\ Posts \in Nat /\ Answered \in Nat /\ Cardinality(Held) \in Nat
           /\ Posts + Cardinality(Held) + Answered <= QueueSize
           /\ Wrap(avail.idx - reaped) = Posts + Cardinality(Held) + Answered
           /\ avail.idx % QueueSize = SlotAt(lastAvailIdx, Posts)
           /\ used.idx % QueueSize = SlotAt(reaped, Answered)
           /\ lastAvailIdx % QueueSize = SlotAt(lastAvailIdx, 0)
           /\ reaped % QueueSize = SlotAt(reaped, 0)
  <1>0. QueueSize \in Nat \ {0} /\ IdxWord \in Nat /\ IdxWord > QueueSize
    BY QueueAssumption
  <1>1. /\ avail.idx \in Idx /\ used.idx \in Idx /\ lastAvailIdx \in Idx /\ reaped \in Idx
        /\ avail.ring \in [RingSlots -> Heads] /\ used.ring \in [RingSlots -> Heads]
    BY Zenon DEF HeadInv, BiShapes
  <1>2. PICK a \in Idx, u \in Idx, l \in Idx, r \in Idx :
           a = avail.idx /\ u = used.idx /\ l = lastAvailIdx /\ r = reaped
    BY <1>1, Zenon
  <1>3. PICK k \in Nat : k = Cardinality(Held)
    BY FS_CardinalityType, Zenon DEF HeadInv, BiShapes
  <1>4. Wrap(a - l) \in Idx /\ Wrap(u - r) \in Idx
    BY WrapCounts, Zenon
  <1>5. Posts = Wrap(a - l) /\ Answered = Wrap(u - r) /\ Posts \in Nat /\ Answered \in Nat
    BY <1>0, <1>2, <1>4 DEF Posts, Answered, Idx
  <1>6. Wrap(a - r) = Wrap(a - l) + k + Wrap(u - r)
    BY <1>2, <1>3, <1>5, OutstandingIs DEF HeadInv, BiCounts
  <1>7. a % QueueSize = SlotAt(l, Wrap(a - l)) /\ u % QueueSize = SlotAt(r, Wrap(u - r))
    BY SlotIs, Zenon
  <1>8. l % QueueSize = SlotAt(l, 0) /\ r % QueueSize = SlotAt(r, 0)
    BY <1>0 DEF SlotAt, Idx
  <1> QED
    BY <1>0, <1>1, <1>2, <1>3, <1>5, <1>6, <1>7, <1>8, Zenon DEF HeadInv, BiCounts

\* Its counts alone.
LEMMA HeadCounts ==
    ASSUME HeadInv
    PROVE  /\ QueueSize \in Nat \ {0} /\ IdxWord \in Nat /\ IdxWord > QueueSize
           /\ Posts \in Nat /\ Answered \in Nat /\ Cardinality(Held) \in Nat
           /\ Posts + Cardinality(Held) + Answered <= QueueSize
  BY HeadNumbers, Zenon

\* The guest posts a head of its own.
LEMMA PostKeeps ==
    ASSUME HeadInv, NEW h \in Heads, NEW q, Post(h, q)
    PROVE  HeadInv'
  <1> USE DEF HeadInv
  <1>1. PICK a \in Idx, l \in Idx, n \in 0 .. QueueSize - 1, ring \in [RingSlots -> Heads], new \in [RingSlots -> Heads] :
           /\ a = avail.idx /\ l = lastAvailIdx /\ n = Posts /\ ring = avail.ring
           /\ new = Entered(ring, l, n, h)
    <2>1. Posts + Cardinality(Held) + Answered < QueueSize
      BY HeadNumbers, Zenon DEF Post, Outstanding
    <2>2. Posts \in 0 .. QueueSize - 1
      BY <2>1, HeadCounts
    <2> QED
      BY <2>2, HeadNumbers, Zenon DEF Entered
  <1>2. h \in mine /\ ~RingHolds(ring, l, n, h) /\ Distinct(ring, l, n)
    BY <1>1, Zenon DEF Post, BiPlaces, BiDistinct, IsPosted
  <1>3. /\ Distinct(new, l, n + 1)
        /\ \A x : RingHolds(new, l, n + 1, x) <=> RingHolds(ring, l, n, x) \/ x = h
    <2>1. new = Entered(ring, l, n, h)
      BY <1>1, Zenon
    <2> QED
      BY <1>2, <2>1, WindowWidens, Zenon
  <1>4. avail'.idx = Wrap(a + 1) /\ avail'.ring = new /\ mine' = mine \ {h}
    BY <1>1, HeadNumbers, Zenon DEF Post, Entered
  <1>5. UNCHANGED <<used, lastAvailIdx, reaped, Held>>
    BY Zenon DEF Post, Held
  <1>6. Wrap(a + 1) \in Idx /\ Wrap(Wrap(a + 1) - l) = n + 1
    <2>1. Wrap(a - l) = n /\ n < IdxWord - 1
      <3>1. Wrap(a - l) = n
        BY <1>1, Zenon DEF Posts
      <3> QED
        BY <3>1, HeadCounts
    <2> QED
      BY <2>1, WrapCounts, Zenon
  <1>7. Posts' = n + 1 /\ Answered' = Answered
    BY <1>1, <1>4, <1>5, <1>6, Zenon DEF Posts, Answered
  <1>8. BiShapes'
    BY <1>4, <1>5, <1>6, Zenon DEF BiShapes, Post
  <1>9. BiCounts'
    <2>1. n + Cardinality(Held) + Answered < QueueSize
      BY <1>1, HeadNumbers, Zenon DEF Post, Outstanding
    <2>2. (n + 1) + Cardinality(Held) + Answered <= QueueSize
      BY <2>1, HeadCounts
    <2> QED
      BY <1>5, <1>7, <2>2, Zenon DEF BiCounts
  <1>10. \A x : IsPosted(x)' <=> IsPosted(x) \/ x = h
    BY <1>1, <1>3, <1>4, <1>5, <1>7, Zenon DEF IsPosted
  <1>11. \A x : (IsServed(x)' <=> IsServed(x)) /\ (IsAnswered(x)' <=> IsAnswered(x))
    BY <1>5, <1>7, Zenon DEF IsServed, IsAnswered
  <1>12. BiDistinct'
    BY <1>1, <1>3, <1>4, <1>5, <1>7, Zenon DEF BiDistinct
  <1>13. BiPlaces'
    BY <1>2, <1>4, <1>10, <1>11, Zenon DEF BiPlaces
  <1> QED
    BY <1>8, <1>9, <1>12, <1>13, Zenon

\* The guest takes an answer.
LEMMA ReapKeeps ==
    ASSUME HeadInv, Reap
    PROVE  HeadInv'
  <1> USE DEF HeadInv
  <1>1. PICK u \in Idx, r \in Idx, n \in 1 .. QueueSize, ring \in [RingSlots -> Heads], h \in Heads :
           /\ u = used.idx /\ r = reaped /\ n = Answered /\ ring = used.ring
           /\ h = ring[SlotAt(r, 0)]
    <2>1. PICK u \in Idx, r \in Idx : u = used.idx /\ r = reaped
      BY HeadNumbers, Zenon
    <2>2. Wrap(u - r) # 0
      BY <2>1, WrapCounts, Zenon DEF Reap
    <2>3. Answered \in 1 .. QueueSize
      <3>1. Answered # 0
        BY <2>1, <2>2, Zenon DEF Answered
      <3> QED
        BY <3>1, HeadCounts
    <2>4. used.ring[SlotAt(r, 0)] \in Heads
      BY <2>1, HeadNumbers, SlotIs, Zenon
    <2> QED
      BY <2>1, <2>3, <2>4, HeadNumbers, Zenon
  <1>2. Distinct(ring, r, n) /\ RingHolds(ring, r, n, h)
    <2>1. 0 \in 0 .. n - 1
      BY HeadCounts
    <2> QED
      BY <1>1, <2>1, Zenon DEF BiDistinct, RingHolds
  <1>3. /\ Distinct(ring, Wrap(r + 1), n - 1)
        /\ ~RingHolds(ring, Wrap(r + 1), n - 1, h)
        /\ \A x : RingHolds(ring, r, n, x) <=> RingHolds(ring, Wrap(r + 1), n - 1, x) \/ x = h
    <2>1. h = ring[SlotAt(r, 0)]
      BY <1>1, Zenon
    <2> QED
      BY <1>2, <2>1, WindowNarrows, Zenon
  <1>4. reaped' = Wrap(r + 1) /\ mine' = mine \cup {h}
    BY <1>1, HeadNumbers, Zenon DEF Reap
  <1>5. UNCHANGED <<avail, used, lastAvailIdx, Held>>
    BY Zenon DEF Reap, ringVars, Held
  <1>6. Wrap(r + 1) \in Idx /\ Wrap(u - Wrap(r + 1)) = n - 1
    <2>1. u # r /\ Wrap(u - r) = n
      BY <1>1, Zenon DEF Reap, Answered
    <2> QED
      BY <2>1, WrapCounts, Zenon
  <1>7. Posts' = Posts /\ Answered' = n - 1
    BY <1>1, <1>4, <1>5, <1>6, Zenon DEF Posts, Answered
  <1>8. BiShapes'
    BY <1>4, <1>5, <1>6, Zenon DEF BiShapes
  <1>9. BiCounts'
    <2>1. Posts + Cardinality(Held) + (n - 1) <= QueueSize
      BY <1>1, HeadCounts
    <2> QED
      BY <1>5, <1>7, <2>1, Zenon DEF BiCounts
  <1>10. \A x : IsAnswered(x) <=> IsAnswered(x)' \/ x = h
    BY <1>1, <1>3, <1>4, <1>5, <1>7, Zenon DEF IsAnswered
  <1>11. ~IsAnswered(h)'
    BY <1>1, <1>3, <1>4, <1>5, <1>7, Zenon DEF IsAnswered
  <1>12. \A x : (IsServed(x)' <=> IsServed(x)) /\ (IsPosted(x)' <=> IsPosted(x))
    BY <1>5, <1>7, Zenon DEF IsServed, IsPosted
  <1>13. BiDistinct'
    BY <1>1, <1>3, <1>4, <1>5, <1>7, Zenon DEF BiDistinct
  <1>14. BiPlaces'
    BY <1>4, <1>10, <1>11, <1>12, Zenon DEF BiPlaces
  <1> QED
    BY <1>8, <1>9, <1>13, <1>14, Zenon

\* pop_avail takes the oldest head posted.
LEMMA PopTakes ==
    ASSUME HeadInv, has_available, lastAvailIdx' = Wrap(lastAvailIdx + 1), avail' = avail
    PROVE  /\ \E h \in Heads : /\ h = pop_avail /\ IsPosted(h) /\ ~IsPosted(h)'
                               /\ \A x : IsPosted(x) <=> IsPosted(x)' \/ x = h
           /\ Distinct(avail.ring, lastAvailIdx, Posts)'
           /\ Posts' = Posts - 1 /\ lastAvailIdx' \in Idx /\ Posts >= 1
  <1> USE DEF HeadInv
  <1>1. PICK a \in Idx, l \in Idx : a = avail.idx /\ l = lastAvailIdx
    BY HeadNumbers, Zenon
  <1>2. a # l /\ Wrap(a - l) # 0
    BY <1>1, WrapCounts, Zenon DEF has_available
  <1>3. Posts \in 1 .. QueueSize
    <2>1. Posts # 0
      BY <1>1, <1>2, Zenon DEF Posts
    <2> QED
      BY <2>1, HeadCounts
  <1>4. PICK n \in 1 .. QueueSize, ring \in [RingSlots -> Heads], h \in Heads :
           n = Posts /\ ring = avail.ring /\ h = ring[SlotAt(l, 0)] /\ h = pop_avail
    <2>1. avail.ring[SlotAt(l, 0)] \in Heads /\ avail.ring[SlotAt(l, 0)] = pop_avail
      BY <1>1, HeadNumbers, SlotIs, Zenon DEF pop_avail
    <2> QED
      BY <1>3, <2>1, HeadNumbers, Zenon
  <1>5. Distinct(ring, l, n) /\ RingHolds(ring, l, n, h)
    <2>1. 0 \in 0 .. n - 1
      OBVIOUS
    <2> QED
      BY <1>1, <1>4, <2>1, Zenon DEF BiDistinct, RingHolds
  <1>6. /\ Distinct(ring, Wrap(l + 1), n - 1)
        /\ ~RingHolds(ring, Wrap(l + 1), n - 1, h)
        /\ \A x : RingHolds(ring, l, n, x) <=> RingHolds(ring, Wrap(l + 1), n - 1, x) \/ x = h
    BY <1>4, <1>5, WindowNarrows, Zenon
  <1>7. Wrap(l + 1) \in Idx /\ Wrap(a - Wrap(l + 1)) = n - 1
    <2>1. Wrap(a - l) = n
      BY <1>1, <1>4, Zenon DEF Posts
    <2> QED
      BY <1>2, <2>1, WrapCounts, Zenon
  <1>8. Posts' = n - 1
    BY <1>1, <1>7, Zenon DEF Posts
  <1>9. \A x : (IsPosted(x) <=> RingHolds(ring, l, n, x)) /\ (IsPosted(x)' <=> RingHolds(ring, Wrap(l + 1), n - 1, x))
    BY <1>1, <1>4, <1>8, Zenon DEF IsPosted
  <1>10. Distinct(avail.ring, lastAvailIdx, Posts)'
    BY <1>1, <1>4, <1>6, <1>8, Zenon
  <1>11. h = pop_avail /\ IsPosted(h) /\ ~IsPosted(h)' /\ \A x : IsPosted(x) <=> IsPosted(x)' \/ x = h
    BY <1>4, <1>5, <1>6, <1>9, Zenon
  <1>12. Posts' = Posts - 1 /\ lastAvailIdx' \in Idx /\ Posts >= 1
    <2>1. Posts >= 1
      BY <1>3
    <2> QED
      BY <1>1, <1>4, <1>7, <1>8, <2>1, Zenon
  <1> QED
    BY <1>10, <1>11, <1>12, Zenon

\* The head pop_avail returns is one that waits.
LEMMA PoppedWaits == ASSUME HeadInv, has_available PROVE pop_avail \in Heads /\ IsPosted(pop_avail)
  <1> USE DEF HeadInv
  <1>1. PICK a \in Idx, l \in Idx : a = avail.idx /\ l = lastAvailIdx
    BY HeadNumbers, Zenon
  <1>2. Posts # 0
    BY <1>1, WrapCounts, Zenon DEF has_available, Posts
  <1>3. 0 \in 0 .. Posts - 1
    BY <1>2, HeadCounts
  <1>4. avail.ring[SlotAt(l, 0)] \in Heads /\ avail.ring[SlotAt(l, 0)] = pop_avail
    BY <1>1, HeadNumbers, SlotIs, Zenon DEF pop_avail
  <1> QED
    BY <1>1, <1>3, <1>4, Zenon DEF IsPosted, RingHolds

\* push_used gives a head back behind the others.
LEMMA PushGives ==
    ASSUME HeadInv, NEW h \in Heads, ~IsAnswered(h), Answered < QueueSize,
           used' = push_used(h), reaped' = reaped
    PROVE  /\ \A x : IsAnswered(x)' <=> IsAnswered(x) \/ x = h
           /\ Distinct(used.ring, reaped, Answered)'
           /\ Answered' = Answered + 1
           /\ used' \in [idx : Idx, ring : [RingSlots -> Heads]]
           /\ used'.idx = Wrap(used.idx + 1)
  <1> USE DEF HeadInv
  <1>1. PICK u \in Idx, r \in Idx, n \in 0 .. QueueSize - 1, ring \in [RingSlots -> Heads], new \in [RingSlots -> Heads] :
           /\ u = used.idx /\ r = reaped /\ n = Answered /\ ring = used.ring
           /\ new = Entered(ring, r, n, h)
    <2>1. Answered \in 0 .. QueueSize - 1
      BY HeadCounts
    <2> QED
      BY <2>1, HeadNumbers, Zenon DEF Entered
  <1>2. ~RingHolds(ring, r, n, h) /\ Distinct(ring, r, n)
    BY <1>1, Zenon DEF BiDistinct, IsAnswered
  <1>3. /\ Distinct(new, r, n + 1)
        /\ \A x : RingHolds(new, r, n + 1, x) <=> RingHolds(ring, r, n, x) \/ x = h
    <2>1. new = Entered(ring, r, n, h)
      BY <1>1, Zenon
    <2> QED
      BY <1>2, <2>1, WindowWidens, Zenon
  <1>4. used' = [idx |-> Wrap(u + 1), ring |-> new]
    BY <1>1, HeadNumbers, Zenon DEF push_used, Entered
  <1>5. Wrap(u + 1) \in Idx /\ Wrap(Wrap(u + 1) - r) = n + 1
    <2>1. Wrap(u - r) = n /\ n < IdxWord - 1
      <3>1. Wrap(u - r) = n
        BY <1>1, Zenon DEF Answered
      <3> QED
        BY <3>1, HeadCounts
    <2> QED
      BY <2>1, WrapCounts, Zenon
  <1>6. used'.idx = Wrap(u + 1) /\ used'.ring = new /\ Answered' = n + 1
    <2>1. used'.idx = Wrap(u + 1) /\ used'.ring = new
      BY <1>4
    <2> QED
      BY <1>1, <1>5, <2>1, Zenon DEF Answered
  <1>7. \A x : (IsAnswered(x) <=> RingHolds(ring, r, n, x)) /\ (IsAnswered(x)' <=> RingHolds(new, r, n + 1, x))
    BY <1>1, <1>6, Zenon DEF IsAnswered
  <1>8. Distinct(used.ring, reaped, Answered)'
    BY <1>1, <1>3, <1>6, Zenon
  <1>9. \A x : IsAnswered(x)' <=> IsAnswered(x) \/ x = h
    BY <1>3, <1>7, Zenon
  <1>10. used'.idx = Wrap(used.idx + 1) /\ used' \in [idx : Idx, ring : [RingSlots -> Heads]]
    BY <1>1, <1>4, <1>5
  <1> QED
    BY <1>1, <1>6, <1>8, <1>9, <1>10, Zenon

\* A request that is answered at once goes from one ring to the other.
LEMMA RejectKeeps ==
    ASSUME HeadInv, has_available, lastAvailIdx' = Wrap(lastAvailIdx + 1), used' = push_used(pop_avail),
           UNCHANGED <<avail, mine, reaped, Held>>
    PROVE  HeadInv'
  <1> USE DEF HeadInv
  <1>1. PICK h \in Heads : /\ h = pop_avail /\ IsPosted(h) /\ ~IsPosted(h)'
                           /\ \A x : IsPosted(x) <=> IsPosted(x)' \/ x = h
    BY PopTakes, Zenon
  <1>2. /\ Distinct(avail.ring, lastAvailIdx, Posts)'
        /\ Posts' = Posts - 1 /\ lastAvailIdx' \in Idx /\ Posts >= 1
    BY PopTakes, Zenon
  <1>3. ~IsAnswered(h) /\ Answered < QueueSize
    <2>1. ~IsAnswered(h)
      BY <1>1, Zenon DEF BiPlaces
    <2> QED
      BY <1>2, <2>1, HeadCounts
  <1>4. /\ \A x : IsAnswered(x)' <=> IsAnswered(x) \/ x = h
        /\ Distinct(used.ring, reaped, Answered)'
        /\ Answered' = Answered + 1
        /\ used' \in [idx : Idx, ring : [RingSlots -> Heads]]
        /\ used'.idx = Wrap(used.idx + 1)
    BY <1>1, <1>3, PushGives, Zenon
  <1>5. BiShapes'
    BY <1>2, <1>4, Zenon DEF BiShapes
  <1>6. BiCounts'
    <2>1. PICK u \in Idx, k \in Idx : u = used.idx /\ k = Cardinality(Held)
      <3>1. Cardinality(Held) \in Idx
        BY HeadCounts DEF Idx
      <3> QED
        BY <3>1, HeadNumbers, Zenon
    <2>2. Wrap(Wrap(u + k) + 1) = Wrap(Wrap(u + 1) + k)
      BY WrapCounts, Zenon
    <2>3. Wrap(used'.idx + Cardinality(Held)) = lastAvailIdx'
      BY <1>4, <2>1, <2>2, Zenon DEF BiCounts
    <2>4. Posts' + Cardinality(Held) + Answered' <= QueueSize
      BY <1>2, <1>4, HeadCounts
    <2> QED
      BY <2>3, <2>4, Zenon DEF BiCounts
  <1>7. BiDistinct'
    BY <1>2, <1>4, Zenon DEF BiDistinct
  <1>8. \A x : IsServed(x)' <=> IsServed(x)
    BY Zenon DEF IsServed
  <1>9. BiPlaces'
    BY <1>1, <1>4, <1>8, Zenon DEF BiPlaces
  <1> QED
    BY <1>5, <1>6, <1>7, <1>9, Zenon

\* A request that is submitted goes from the available ring to the list.
LEMMA SubmitKeeps ==
    ASSUME HeadInv, has_available, lastAvailIdx' = Wrap(lastAvailIdx + 1), NEW ud,
           Held' = Held \cup {[ud |-> ud, head |-> pop_avail]},
           UNCHANGED <<avail, used, mine, reaped>>
    PROVE  HeadInv'
  <1> USE DEF HeadInv
  <1>1. PICK h \in Heads : /\ h = pop_avail /\ IsPosted(h) /\ ~IsPosted(h)'
                           /\ \A x : IsPosted(x) <=> IsPosted(x)' \/ x = h
    BY PopTakes, Zenon
  <1>2. /\ Distinct(avail.ring, lastAvailIdx, Posts)'
        /\ Posts' = Posts - 1 /\ lastAvailIdx' \in Idx /\ Posts >= 1
    BY PopTakes, Zenon
  <1>3. ~IsServed(h)
    BY <1>1, Zenon DEF BiPlaces
  <1>4. PICK new : new = [ud |-> ud, head |-> h]
    BY Zenon
  <1>5. Held' = Held \cup {new} /\ new \notin Held /\ new.head = h
    BY <1>1, <1>3, <1>4, Zenon DEF IsServed
  <1>6. IsFiniteSet(Held') /\ Cardinality(Held') = Cardinality(Held) + 1
    <2>1. IsFiniteSet(Held)
      BY Zenon DEF BiShapes
    <2>2. /\ IsFiniteSet(Held \cup {new})
          /\ Cardinality(Held \cup {new}) =
                IF new \in Held THEN Cardinality(Held) ELSE Cardinality(Held) + 1
      BY ONLY <2>1, FS_AddElement, Zenon
    <2> QED
      BY <1>5, <2>2, Zenon
  <1>7. Answered' = Answered
    BY Zenon DEF Answered
  <1>8. BiShapes'
    BY <1>2, <1>5, <1>6, Zenon DEF BiShapes
  <1>9. BiCounts'
    <2>1. PICK u \in Idx, k \in Idx : u = used.idx /\ k = Cardinality(Held)
      <3>1. Cardinality(Held) \in Idx
        BY HeadCounts DEF Idx
      <3> QED
        BY <3>1, HeadNumbers, Zenon
    <2>2. k < IdxWord - 1
      BY <1>2, <2>1, HeadCounts
    <2>3. Wrap(u + (k + 1)) = Wrap(Wrap(u + k) + 1)
      BY <2>2, WrapCounts, Zenon
    <2>4. Wrap(used'.idx + Cardinality(Held')) = lastAvailIdx'
      BY <1>6, <2>1, <2>3, Zenon DEF BiCounts
    <2>5. Posts' + Cardinality(Held') + Answered' <= QueueSize
      BY <1>2, <1>6, <1>7, HeadCounts
    <2> QED
      BY <2>4, <2>5, Zenon DEF BiCounts
  <1>10. \A x : IsServed(x)' <=> IsServed(x) \/ x = h
    BY <1>5, Zenon DEF IsServed
  <1>11. \A x : IsAnswered(x)' <=> IsAnswered(x)
    BY <1>7, Zenon DEF IsAnswered
  <1>12. BiDistinct'
    <2>1. \A r \in Held : r.head # h
      BY <1>3, Zenon DEF IsServed
    <2>2. \A r, s \in Held' : r.head = s.head => r = s
      BY <1>5, <2>1, Zenon DEF BiDistinct
    <2> QED
      BY <1>2, <1>7, <2>2, Zenon DEF BiDistinct
  <1>13. BiPlaces'
    BY <1>1, <1>10, <1>11, Zenon DEF BiPlaces
  <1> QED
    BY <1>8, <1>9, <1>12, <1>13, Zenon

\* A request that is matched goes from the list to the used ring.
LEMMA MatchKeeps ==
    ASSUME HeadInv, NEW r \in Held, Held' = Held \ {r}, used' = push_used(r.head),
           UNCHANGED <<avail, lastAvailIdx, mine, reaped>>
    PROVE  HeadInv'
  <1> USE DEF HeadInv
  <1>1. PICK h \in Heads : h = r.head
    BY Zenon DEF BiShapes
  <1>2. IsServed(h) /\ ~IsAnswered(h) /\ ~IsPosted(h) /\ h \notin mine
    BY <1>1, Zenon DEF BiPlaces, IsServed
  <1>3. IsFiniteSet(Held') /\ Cardinality(Held') = Cardinality(Held) - 1
    BY FS_RemoveElement, Zenon DEF BiShapes
  <1>4. Cardinality(Held') \in Nat
    BY <1>3, FS_CardinalityType, Zenon
  <1>5. Answered < QueueSize
    BY <1>3, <1>4, HeadCounts
  <1>6. /\ \A x : IsAnswered(x)' <=> IsAnswered(x) \/ x = h
        /\ Distinct(used.ring, reaped, Answered)'
        /\ Answered' = Answered + 1
        /\ used' \in [idx : Idx, ring : [RingSlots -> Heads]]
        /\ used'.idx = Wrap(used.idx + 1)
    BY <1>1, <1>2, <1>5, PushGives, Zenon
  <1>7. Posts' = Posts
    BY Zenon DEF Posts
  <1>8. BiShapes'
    BY <1>3, <1>6, Zenon DEF BiShapes
  <1>9. BiCounts'
    <2>1. PICK u \in Idx, k \in Idx : u = used.idx /\ k = Cardinality(Held')
      <3>1. Cardinality(Held') \in Idx
        BY <1>3, <1>4, HeadCounts DEF Idx
      <3> QED
        BY <3>1, HeadNumbers, Zenon
    <2>2. k < IdxWord - 1
      BY <1>3, <1>4, <2>1, HeadCounts
    <2>3. Wrap(u + (k + 1)) = Wrap(Wrap(u + 1) + k)
      <3>1. Wrap(u + (k + 1)) = Wrap(Wrap(u + k) + 1)
        BY <2>2, WrapCounts, Zenon
      <3>2. Wrap(Wrap(u + k) + 1) = Wrap(Wrap(u + 1) + k)
        BY WrapCounts, Zenon
      <3> QED
        BY <3>1, <3>2, Zenon
    <2>4. Cardinality(Held) = k + 1
      BY <1>3, <1>4, <2>1, HeadCounts
    <2>5. Wrap(used'.idx + Cardinality(Held')) = lastAvailIdx'
      BY <1>6, <2>1, <2>3, <2>4, Zenon DEF BiCounts
    <2>6. Posts' + Cardinality(Held') + Answered' <= QueueSize
      BY <1>3, <1>6, <1>7, HeadCounts
    <2> QED
      BY <2>5, <2>6, Zenon DEF BiCounts
  <1>10. \A x : IsServed(x) <=> IsServed(x)' \/ x = h
    BY <1>1, Zenon DEF IsServed
  <1>11. ~IsServed(h)'
    BY <1>1, Zenon DEF IsServed, BiDistinct
  <1>12. \A x : IsPosted(x)' <=> IsPosted(x)
    BY <1>7, Zenon DEF IsPosted
  <1>13. BiDistinct'
    BY <1>6, <1>7, Zenon DEF BiDistinct
  <1>14. BiPlaces'
    BY <1>2, <1>6, <1>10, <1>11, <1>12, Zenon DEF BiPlaces
  <1> QED
    BY <1>8, <1>9, <1>13, <1>14, Zenon

\* Every step of guest, device and kernel.
LEMMA HeadNext == ASSUME HeadInv, LostApart, [BiNext]_biVars PROVE HeadInv'
  <1>1. ASSUME UNCHANGED <<avail, used, lastAvailIdx, mine, reaped, Held>>
        PROVE  HeadInv'
    BY <1>1, Zenon
       DEF HeadInv, BiShapes, BiCounts, BiDistinct, BiPlaces, Posts, Answered,
                IsPosted, IsServed, IsAnswered
  <1>2. ASSUME NEW h \in Heads, NEW q \in Requests, Post(h, q)
        PROVE  HeadInv'
    BY <1>2, PostKeeps
  <1>3. CASE Reap
    BY <1>3, ReapKeeps
  <1>4. CASE PopRequest
    <2>1. /\ has_available /\ lastAvailIdx' = Wrap(lastAvailIdx + 1)
          /\ UNCHANGED <<avail, mine, reaped>>
      BY <1>4, Zenon DEF PopRequest, guestVars
    <2>2. \/ used' = push_used(pop_avail) /\ UNCHANGED Held
          \/ /\ Held' = Held \cup {[ud |-> nextUserData, head |-> pop_avail]}
             /\ UNCHANGED used
      <3>1. lost' = lost
        BY <1>4, Zenon DEF PopRequest
      <3>2. \/ used' = push_used(pop_avail) /\ UNCHANGED inflight
            \/ /\ inflight' = inflight \cup {[ud |-> nextUserData, head |-> pop_avail]}
               /\ UNCHANGED used
        BY <1>4, Zenon DEF PopRequest
      <3> QED
        BY ONLY <3>1, <3>2, Zenon DEF Held
    <2>3. PICK ud : ud = nextUserData
      OBVIOUS
    <2> QED
      BY <2>1, <2>2, <2>3, RejectKeeps, SubmitKeeps, Zenon
  <1>5. CASE Match
    <2>1. UNCHANGED <<avail, lastAvailIdx, mine, reaped>>
      BY <1>5, Zenon DEF Match, guestVars
    <2>2. CASE UNCHANGED <<inflight, used>>
      BY <1>1, <1>5, <2>1, <2>2, Zenon DEF Held, Match
    <2>3. ASSUME NEW r \in inflight, inflight' = inflight \ {r}, used' = push_used(r.head)
          PROVE  HeadInv'
      <3>1. lost' = lost /\ r \notin lost
        BY <1>5, Zenon DEF Match, LostApart
      <3>2. r \in Held /\ Held' = Held \ {r}
        BY ONLY <2>3, <3>1, Zenon DEF Held
      <3> QED
        BY <2>1, <2>3, <3>2, MatchKeeps, Zenon
    <2> QED
      BY <1>5, <2>2, <2>3, Zenon DEF Match
  <1>6. CASE \/ Complete \/ ProcessCalled \/ Popped \/ EnterWait \/ WaitFails
             \/ wait_completions \/ Matched \/ UNCHANGED biVars
    BY <1>1, <1>6, Zenon
       DEF Complete, ProcessCalled, Popped, EnterWait, WaitFails, wait_completions,
                      Matched, biVars, ringVars, guestVars, Held
  <1>7. CASE PopPanics
    <2>1. /\ has_available /\ lastAvailIdx' = Wrap(lastAvailIdx + 1)
          /\ UNCHANGED <<avail, used, mine, reaped>>
      BY <1>7, Zenon DEF PopPanics, guestVars
    <2>2. PICK ud : ud = nextUserData
      OBVIOUS
    <2>3. Held' = Held \cup {[ud |-> ud, head |-> pop_avail]}
      BY <1>7, <2>2, Zenon DEF PopPanics, Held
    <2> QED
      BY <2>1, <2>3, SubmitKeeps, Zenon
  <1> QED
    BY <1>2, <1>3, <1>4, <1>5, <1>6, <1>7, Zenon DEF BiNext

\* A request is not in flight and lost: the two have numbers of their own.
LEMMA ApartNext == ASSUME HeadInv, LostApart, [BiNext]_biVars PROVE LostApart'
  <1>1. ASSUME inflight' \subseteq inflight, lost' = lost
        PROVE  LostApart'
    BY <1>1, Zenon DEF LostApart
  <1>2. ASSUME has_available, ~IsServed(pop_avail), NEW ud,
               \/ inflight' = inflight \cup {[ud |-> ud, head |-> pop_avail]} /\ lost' = lost
               \/ lost' = lost \cup {[ud |-> ud, head |-> pop_avail]} /\ inflight' = inflight
        PROVE  LostApart'
    <2>1. PICK new : new = [ud |-> ud, head |-> pop_avail]
      BY Zenon
    <2>2. new \notin inflight /\ new \notin lost
      <3>1. new.head = pop_avail
        BY <2>1
      <3> QED
        BY <1>2, <3>1, Zenon DEF IsServed, Held
    <2> QED
      BY <1>2, <2>1, <2>2, Zenon DEF LostApart
  <1>3. ASSUME has_available
        PROVE  ~IsServed(pop_avail)
    BY <1>3, PoppedWaits, Zenon DEF HeadInv, BiPlaces
  <1>4. CASE PopRequest
    <2>1. has_available /\ lost' = lost
      BY <1>4, Zenon DEF PopRequest
    <2>2. PICK ud : ud = nextUserData
      OBVIOUS
    <2>3. inflight' = inflight \/ inflight' = inflight \cup {[ud |-> ud, head |-> pop_avail]}
      BY <1>4, <2>2, Zenon DEF PopRequest
    <2> QED
      BY <1>1, <1>2, <1>3, <2>1, <2>3, Zenon
  <1>5. CASE PopPanics
    <2>1. PICK ud : ud = nextUserData
      OBVIOUS
    <2>2. /\ has_available /\ inflight' = inflight
          /\ lost' = lost \cup {[ud |-> ud, head |-> pop_avail]}
      BY <1>5, <2>1, Zenon DEF PopPanics
    <2> QED
      BY <1>2, <1>3, <2>2, Zenon
  <1>6. CASE Match
    BY <1>1, <1>6, Zenon DEF Match
  <1>7. CASE \/ \E h \in Heads, q \in Requests : Post(h, q)
             \/ Reap \/ Complete \/ ProcessCalled \/ Popped \/ EnterWait \/ WaitFails
             \/ wait_completions \/ Matched \/ UNCHANGED biVars
    BY <1>1, <1>7, Zenon
       DEF Post, Reap, Complete, ProcessCalled, Popped, EnterWait, WaitFails, wait_completions,
           Matched, biVars
  <1> QED
    BY <1>4, <1>5, <1>6, <1>7, Zenon DEF BiNext

\* A head is counted once where it is, and nowhere else.
LEMMA PlacesCount == ASSUME HeadInv, LostApart PROVE HeadsConserved
  <1> USE DEF HeadInv
  <1> SUFFICES ASSUME NEW h \in Heads
               PROVE  (IF h \in mine THEN 1 ELSE 0) + Waiting(h) + Serving(h) + Returned(h) + Dropped(h) = 1
    BY Zenon DEF HeadsConserved
  <1>1. ASSUME NEW ring, NEW from, NEW to, NEW n, n = Wrap(to - from), Distinct(ring, from, n)
        PROVE  Count(h, Between(ring, from, to)) = IF RingHolds(ring, from, n, h) THEN 1 ELSE 0
    <2> DEFINE S == {x \in Between(ring, from, to) : x[2] = h}
    <2>1. S = {<<i, h>> : i \in {j \in 0 .. n - 1 : ring[SlotAt(from, j)] = h}}
      BY <1>1 DEF Between, SlotAt
    <2>2. CASE ~RingHolds(ring, from, n, h)
      <3>1. S = {}
        BY <2>1, <2>2, Zenon DEF RingHolds
      <3> QED
        BY <2>2, <3>1, FS_EmptySet, Zenon DEF Count
    <2>3. CASE RingHolds(ring, from, n, h)
      <3>1. PICK i \in 0 .. n - 1 : ring[SlotAt(from, i)] = h
        BY <2>3, Zenon DEF RingHolds
      <3>2. S = {<<i, h>>}
        BY <1>1, <2>1, <3>1 DEF Distinct
      <3> QED
        BY <2>3, <3>2, FS_Singleton, Zenon DEF Count
    <2> QED
      BY <2>2, <2>3, Zenon
  <1>2. Waiting(h) = IF IsPosted(h) THEN 1 ELSE 0
    BY <1>1, Zenon DEF Waiting, IsPosted, Posts, BiDistinct
  <1>3. Returned(h) = IF IsAnswered(h) THEN 1 ELSE 0
    BY <1>1, Zenon DEF Returned, IsAnswered, Answered, BiDistinct
  <1>4. \/ IsServed(h) /\ Serving(h) = 1 /\ Dropped(h) = 0
        \/ IsServed(h) /\ Serving(h) = 0 /\ Dropped(h) = 1
        \/ ~IsServed(h) /\ Serving(h) = 0 /\ Dropped(h) = 0
    <2> DEFINE S == {r \in inflight : r.head = h}
               L == {r \in lost : r.head = h}
    <2>1. Serving(h) = Cardinality(S) /\ Dropped(h) = Cardinality(L)
      BY Zenon DEF Serving, Dropped
    <2>2. CASE ~IsServed(h)
      <3>1. S = {} /\ L = {}
        BY <2>2 DEF IsServed, Held
      <3> QED
        BY <2>1, <2>2, <3>1, FS_EmptySet, Zenon
    <2>3. ASSUME NEW r \in Held, r.head = h
          PROVE  (S = {r} /\ L = {}) \/ (S = {} /\ L = {r})
      <3>1. \A q \in Held : q.head = h => q = r
        BY <2>3, Zenon DEF BiDistinct
      <3>2. CASE r \in inflight
        BY <2>3, <3>1, <3>2, Zenon DEF Held, LostApart
      <3>3. CASE r \in lost
        BY <2>3, <3>1, <3>3, Zenon DEF Held, LostApart
      <3> QED
        BY <3>2, <3>3, Zenon DEF Held
    <2>4. CASE IsServed(h)
      <3>1. PICK r \in Held : r.head = h
        BY <2>4, Zenon DEF IsServed
      <3> QED
        <4>1. Cardinality({r}) = 1 /\ Cardinality({}) = 0
          BY FS_Singleton, FS_EmptySet, Zenon
        <4>2. (S = {r} /\ L = {}) \/ (S = {} /\ L = {r})
          BY <2>3, <3>1, Zenon
        <4> HIDE DEF S, L
        <4> QED
          BY <2>1, <2>4, <4>1, <4>2, Zenon
    <2> QED
      BY <2>2, <2>4, Zenon
  <1> QED
    BY <1>2, <1>3, <1>4 DEF BiPlaces

\* For a queue of any size, index words that wrap, any number of requests and
\* whatever the guest, the kernel and io_uring_enter do: every head is in one
\* place, so process_queue_async answers no request twice and drops none but
\* one whose handling panicked.
THEOREM NoHeadLost == BiSpec => []HeadsConserved
  <1>1. BiInit => LostApart
    BY Zenon DEF BiInit, LostApart
  <1> QED
    BY <1>1, HeadInit, HeadNext, ApartNext, PlacesCount, PTL DEF BiSpec

-----------------------------------------------------------------------------
(* The buffers.  A completed user_data is one that neither the kernel nor  *)
(* the submission queue still has.                                         *)

\* The numbers of requests the kernel is done with.
Settled == {u \in Nat : u < nextUserData} \ (running \cup sq)

\* The inductive invariant behind BuffersLive: user_data numbers are given out once,
\* and whatever has reached the completion queue has left the kernel.
UdInv ==
    /\ nextUserData \in Nat /\ broken \in BOOLEAN
    /\ \A u \in running \cup sq : u \in Nat /\ u < nextUserData
    /\ running \cap sq = {}
    /\ cq \in Seq(Settled) /\ completions \in Seq(Settled)
    /\ ~broken => sq = {}
    /\ BuffersLive

\* A sequence over a set is one over a larger set.
LEMMA SeqGrows ==
    ASSUME NEW S, NEW T, NEW s \in Seq(S), S \subseteq T
    PROVE  s \in Seq(T)
  OBVIOUS

\* Nothing is submitted at first.
LEMMA UdInit == BiInit => UdInv
  <1> SUFFICES ASSUME BiInit PROVE UdInv
    OBVIOUS
  <1>1. cq \in Seq(Settled) /\ completions \in Seq(Settled)
    BY DEF BiInit
  <1>2. nextUserData \in Nat /\ running = {} /\ sq = {} /\ broken \in BOOLEAN
    BY Zenon DEF BiInit
  <1>3. BuffersLive
    BY <1>2, Zenon DEF BuffersLive
  <1> QED
    BY <1>1, <1>2, <1>3, Zenon DEF UdInv

\* Up to n completions are taken off the queue.
LEMMA PollTakes ==
    ASSUME NEW S, NEW n \in Nat, cq \in Seq(S)
    PROVE  poll_completions(n).out \in Seq(S) /\ poll_completions(n).cq \in Seq(S)
  <1>1. Len(cq) \in Nat /\ \A i \in 1 .. Len(cq) : cq[i] \in S
    OBVIOUS
  <1>2. PICK m \in Nat : m = Min({n, Len(cq)}) /\ m <= Len(cq)
    <2>1. \E x \in {n, Len(cq)} : \A y \in {n, Len(cq)} : x =< y
      BY <1>1
    <2> QED
      BY <1>1, <2>1, Zenon DEF Min
  <1>3. PICK q : q = cq
    OBVIOUS
  <1>4. \A i \in 1 .. m : q[i] \in S
    BY <1>1, <1>2, <1>3
  <1>5. SubSeq(q, 1, m) \in Seq(S)
    BY <1>4, SubSeqProperties
  <1>6. PICK l \in Nat : l = Len(q)
    BY <1>1, <1>3, Zenon
  <1>7. n + 2 \in Int /\ \A i \in n + 2 .. l : q[i] \in S
    BY <1>1, <1>3, <1>6
  <1>8. SubSeq(q, n + 2, l) \in Seq(S)
    BY <1>7, SubSeqProperties
  <1> QED
    BY <1>2, <1>3, <1>5, <1>6, <1>8, Zenon DEF poll_completions, Taken

\* A turn of the first loop uses a user_data nobody has had.
LEMMA PopKeepsBuffers ==
    ASSUME UdInv, PopRequest
    PROVE  UdInv'
  <1> USE DEF UdInv
  <1>1. PICK ud \in Nat : ud = nextUserData
    OBVIOUS
  <1>2. cq' = cq /\ completions' = completions /\ nextUserData' \in {ud, ud + 1}
    BY <1>1, Zenon DEF PopRequest
  <1>3. \/ UNCHANGED <<sq, running, broken, inflight>>
        \/ /\ nextUserData' = ud + 1 /\ broken' = TRUE
           /\ sq' = sq \cup {ud} /\ running' = running
        \/ /\ nextUserData' = ud + 1 /\ broken' = broken
           /\ sq' = {} /\ running' = running \cup {ud} \cup sq
           /\ \E h : inflight' = inflight \cup {[ud |-> ud, head |-> h]}
    BY <1>1, Zenon DEF PopRequest, Submitted, SubmitFails
  <1>4. /\ \A u \in (running \cup sq)' : u \in Nat /\ u < nextUserData'
        /\ Settled \subseteq Settled'
        /\ (running \cap sq)' = {}
    BY <1>1, <1>2, <1>3 DEF Settled
  <1>5. cq' \in Seq(Settled') /\ completions' \in Seq(Settled')
    BY <1>2, <1>4, SeqGrows, Zenon
  <1>6. broken' \in BOOLEAN /\ (~broken' => sq' = {})
    BY <1>3, Zenon
  <1>7. BuffersLive'
    <2>1. CASE UNCHANGED <<sq, running, broken, inflight>>
      BY <2>1, Zenon DEF BuffersLive
    <2>2. CASE broken'
      BY <2>2, Zenon DEF BuffersLive
    <2>3. ASSUME NEW h, inflight' = inflight \cup {[ud |-> ud, head |-> h]}, ~broken,
                 sq' = {}, running' = running \cup {ud} \cup sq
          PROVE  BuffersLive'
      <3>1. \A u \in running' : u = ud \/ \E r \in inflight : r.ud = u
        BY <2>3, Zenon DEF BuffersLive
      <3>2. PICK new : new = [ud |-> ud, head |-> h]
        BY Zenon
      <3>3. new \in inflight' /\ new.ud = ud /\ inflight \subseteq inflight'
        BY <2>3, <3>2, Zenon
      <3>4. \A u \in running' : \E r \in inflight' : r.ud = u
        BY ONLY <3>1, <3>3, Zenon
      <3> QED
        BY <2>3, <3>4, Zenon DEF BuffersLive
    <2> QED
      BY <1>3, <2>1, <2>2, <2>3, Zenon
  <1> QED
    BY <1>1, <1>2, <1>4, <1>5, <1>6, <1>7

\* No step of the guest, the device or the kernel disturbs it.
LEMMA UdNext == ASSUME UdInv, HeadInv, [BiNext]_biVars PROVE UdInv'
  <1> USE DEF UdInv
  <1>1. ASSUME UNCHANGED <<nextUserData, running, sq, cq, completions, broken, inflight>>
        PROVE  UdInv'
    BY <1>1, Zenon DEF Settled, BuffersLive
  <1>2. CASE PopRequest
    BY <1>2, PopKeepsBuffers, Zenon
  <1>3. CASE Complete
    <2>1. PICK ud \in running : running' = running \ {ud} /\ cq' = Append(cq, ud)
      BY <1>3, Zenon DEF Complete
    <2>2. UNCHANGED <<nextUserData, sq, completions, broken, inflight>>
      BY <1>3, Zenon DEF Complete
    <2>3. Settled \subseteq Settled' /\ ud \in Settled'
      BY <2>1, <2>2, Zenon DEF Settled
    <2>4. PICK q : q = cq
      OBVIOUS
    <2>5. q \in Seq(Settled') /\ completions' \in Seq(Settled')
      BY <2>2, <2>3, <2>4, SeqGrows, Zenon
    <2>6. Append(q, ud) \in Seq(Settled')
      BY <2>3, <2>5
    <2>7. BuffersLive'
      BY <2>1, <2>2, Zenon DEF BuffersLive
    <2> QED
      BY <2>1, <2>2, <2>4, <2>5, <2>6, <2>7, Zenon
  <1>4. CASE EnterWait
    <2>1. /\ sq' = {} /\ running' = running \cup sq
          /\ UNCHANGED <<nextUserData, cq, completions, broken, inflight>>
      BY <1>4, Zenon DEF EnterWait
    <2>2. Settled' = Settled
      BY <2>1, Zenon DEF Settled
    <2>3. BuffersLive'
      BY <2>1, Zenon DEF BuffersLive
    <2> QED
      BY <2>1, <2>2, <2>3, Zenon
  <1>5. CASE wait_completions
    <2>1. PICK n \in Nat : n = Cardinality(inflight)
      <3>1. IsFiniteSet(Held) /\ inflight \subseteq Held
        BY Zenon DEF HeadInv, BiShapes, Held
      <3> QED
        BY ONLY <3>1, FS_Subset, FS_CardinalityType, Zenon
    <2>2. /\ cq' = poll_completions(n).cq /\ completions' = poll_completions(n).out
          /\ UNCHANGED <<nextUserData, running, sq, broken, inflight>>
      BY <1>5, <2>1, Zenon DEF wait_completions
    <2>3. PICK S : S = Settled
      OBVIOUS
    <2>4. cq' \in Seq(S) /\ completions' \in Seq(S)
      BY <2>2, <2>3, PollTakes, Zenon
    <2>5. Settled' = S /\ BuffersLive'
      BY <2>2, <2>3, Zenon DEF Settled, BuffersLive
    <2> QED
      BY <2>2, <2>4, <2>5, Zenon
  <1>6. CASE Match
    <2>1. /\ completions # << >> /\ completions' = Tail(completions)
          /\ UNCHANGED <<nextUserData, running, sq, cq, broken>>
      BY <1>6, Zenon DEF Match, uringVars
    <2>2. Settled' = Settled
      BY <2>1, Zenon DEF Settled
    <2>3. PICK S, c : S = Settled /\ c = completions /\ c \in Seq(S)
      OBVIOUS
    <2>4. Head(c) \in S /\ Tail(c) \in Seq(S)
      BY <2>1, <2>3, HeadTailProperties, Zenon
    <2>5. inflight' = inflight \/ \E r \in inflight : r.ud = Head(c) /\ inflight' = inflight \ {r}
      BY <1>6, <2>3, Zenon DEF Match
    <2>6. BuffersLive'
      <3>1. Head(c) \notin running \cup sq
        BY <2>3, <2>4, Zenon DEF Settled
      <3> QED
        BY <2>1, <2>5, <3>1, Zenon DEF BuffersLive
    <2> QED
      BY <2>1, <2>2, <2>3, <2>4, <2>6, Zenon
  <1>7. CASE \/ Reap \/ ProcessCalled \/ Popped \/ WaitFails \/ Matched \/ UNCHANGED biVars
    BY <1>1, <1>7, Zenon
       DEF Reap, ProcessCalled, Popped, WaitFails, Matched, biVars, uringVars
  <1>8. ASSUME NEW h, NEW q, Post(h, q)
        PROVE  UdInv'
    BY <1>1, <1>8, Zenon DEF Post, uringVars
  <1>9. CASE PopPanics
    <2>1. /\ nextUserData' = nextUserData + 1
          /\ UNCHANGED <<running, sq, cq, completions, broken, inflight>>
      BY <1>9, Zenon DEF PopPanics, uringVars
    <2>2. /\ Settled \subseteq Settled' /\ nextUserData' \in Nat
          /\ \A u \in running \cup sq : u < nextUserData'
      BY <2>1 DEF Settled
    <2>3. cq' \in Seq(Settled') /\ completions' \in Seq(Settled')
      BY <2>1, <2>2, SeqGrows, Zenon
    <2>4. BuffersLive'
      BY <2>1, Zenon DEF BuffersLive
    <2> QED
      BY <2>1, <2>2, <2>3, <2>4, Zenon
  <1> QED
    BY <1>2, <1>3, <1>4, <1>5, <1>6, <1>7, <1>8, <1>9, Zenon DEF BiNext

\* While no submission has failed, the buffer of every request that the kernel
\* has or is about to get is kept alive by its entry in the inflight list: the
\* completion an entry is removed for is its own.
THEOREM KernelBuffersLive == BiSpec => []BuffersLive
  <1>1. UdInv => BuffersLive
    BY Zenon DEF UdInv
  <1>2. HeadInv /\ LostApart /\ UdInv /\ [BiNext]_biVars => (HeadInv /\ LostApart /\ UdInv)'
    BY HeadNext, ApartNext, UdNext, Zenon
  <1>3. BiInit => LostApart
    BY Zenon DEF BiInit, LostApart
  <1> QED
    BY <1>1, <1>2, <1>3, HeadInit, UdInit, PTL DEF BiSpec
=============================================================================
