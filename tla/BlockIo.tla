------------------------------ MODULE BlockIo ------------------------------
(***************************************************************************)
(* A virtio block device served through io_uring: the guest's driver       *)
(* posts descriptor heads in the available ring, process_queue_async pops  *)
(* them, submits reads, writes and flushes, waits for completions and      *)
(* returns the heads in the used ring, one by one.  Guest, device thread   *)
(* and kernel run side by side; the ring indices are u16 counters that     *)
(* wrap.                                                                   *)
(*                                                                         *)
(* A request is its kind and whether it lies inside the disk; data and     *)
(* error numbers are left out, and of the lengths all but whether their    *)
(* sum fits u32.  The guest posts only heads it owns.  The kernel          *)
(* completes I/O in any order; io_uring_enter may fail MaxBlkFaults times. *)
(***************************************************************************)
EXTENDS Integers, Sequences, FiniteSetsExt

CONSTANTS QueueSize,     \* a power of two
          IdxWord,       \* values of a ring index, 2^16 in the code
          MaxRequests,   \* bound: requests the guest posts
          MaxBlkFaults   \* bound: failing io_uring_enter calls

ASSUME QueueAssumption ==
    /\ QueueSize \in Nat \ {0} /\ IdxWord \in Nat
    /\ IdxWord % QueueSize = 0 /\ IdxWord > QueueSize

VARIABLES avail, used,    \* the rings: [idx, ring]
          lastAvailIdx,
          disk,           \* guest: head -> request in its descriptors
          mine, reaped,   \* guest: heads it owns; how far it read the used ring
          inflight,       \* VirtioBlkIoBackend.inflight: records [ud, head]
          nextUserData,
          sq, running, cq,   \* io_uring: user_data queued, executing, completed
          completions,    \* process_queue_async: polled and not yet matched
          blkPc,          \* it is idle, submitting, waiting or matching;
                          \* none: new() failed, there is no device
          faults, broken, \* failed enters; some submission was among them
          lost            \* popped requests whose handling panicked

ringVars == <<avail, used, lastAvailIdx>>
guestVars == <<disk, mine, reaped>>
uringVars == <<sq, running, cq>>
biVars == <<ringVars, guestVars, inflight, nextUserData, uringVars, completions, blkPc, faults, broken, lost>>

Heads == 0 .. QueueSize        \* QueueSize stands for an index out of range
\* VIRTIO_BLK_T_IN, _OUT, _FLUSH and others; an overlong one has data of 2^32
\* bytes or more (what does not panic of those outside is an io outside).
Requests == [kind : {"io"}, inside : BOOLEAN]
            \cup [kind : {"overlong", "flush", "other"}, inside : {TRUE}]
Cleared == [kind |-> "other", inside |-> TRUE]
RingSlots == 0 .. QueueSize - 1
Wrap(i) == i % IdxWord

BiInit ==
    /\ avail = [idx |-> 0, ring |-> [s \in RingSlots |-> 0]]
    /\ used = [idx |-> 0, ring |-> [s \in RingSlots |-> 0]]
    /\ lastAvailIdx = 0 /\ reaped = 0 /\ mine = Heads
    /\ disk = [h \in Heads |-> Cleared]
    /\ inflight = {} /\ nextUserData = 1
    /\ sq = {} /\ running = {} /\ cq = << >> /\ completions = << >>
    /\ blkPc \in {"idle", "none"} /\ faults = 0 /\ broken = FALSE /\ lost = {}

-----------------------------------------------------------------------------
(* The guest.                                                              *)

Outstanding == Wrap(avail.idx - reaped)
Post(h, r) ==
    /\ blkPc # "none" /\ h \in mine /\ Outstanding < QueueSize /\ nextUserData <= MaxRequests
    /\ disk' = [disk EXCEPT ![h] = r] /\ mine' = mine \ {h}
    /\ avail' = [idx |-> Wrap(avail.idx + 1),
                 ring |-> [avail.ring EXCEPT ![avail.idx % QueueSize] = h]]
    /\ UNCHANGED <<used, lastAvailIdx, reaped, inflight, nextUserData, uringVars, completions, blkPc, faults, broken, lost>>

Reap ==
    /\ reaped # used.idx /\ reaped' = Wrap(reaped + 1)
    /\ LET h == used.ring[reaped % QueueSize]
       IN  mine' = mine \cup {h} /\ disk' = [disk EXCEPT ![h] = Cleared]
    /\ UNCHANGED <<ringVars, inflight, nextUserData, uringVars, completions, blkPc, faults, broken, lost>>

-----------------------------------------------------------------------------
(* SplitVirtqueue.                                                         *)

has_available == avail.idx # lastAvailIdx
pop_avail == avail.ring[lastAvailIdx % QueueSize]

\* The chain at h is empty when h is out of range; a loop is cut off.
walk_chain(h) == IF h >= QueueSize THEN << >> ELSE <<disk[h]>>

push_used(h) == [idx |-> Wrap(used.idx + 1),
                 ring |-> [used.ring EXCEPT ![used.idx % QueueSize] = h]]

-----------------------------------------------------------------------------
(* IoEngine.                                                               *)

\* submit_read, submit_write and submit_flush: push an entry, then enter the
\* kernel with all that is queued.  A full queue refuses; a failed enter
\* leaves the entry queued.
Submitted(ud) ==
    /\ Cardinality(sq) < QueueSize /\ sq' = {}
    /\ running' = running \cup {ud} \cup sq /\ UNCHANGED <<faults, broken>>
SubmitFails(ud) ==
    \/ Cardinality(sq) >= QueueSize /\ UNCHANGED <<sq, running, faults, broken>>
    \/ /\ Cardinality(sq) < QueueSize /\ faults < MaxBlkFaults /\ faults' = faults + 1
       /\ broken' = TRUE /\ sq' = sq \cup {ud} /\ UNCHANGED running

Taken(n) == SubSeq(cq, 1, Min({n, Len(cq)}))

\* Mutant: the array is one entry short.
poll_completionsShort(n) == [out |-> Taken(n - 1), cq |-> SubSeq(cq, n + 1, Len(cq))]

\* Up to n completions; the iterator has then taken one more off the queue.
poll_completions(n) == [out |-> Taken(n), cq |-> SubSeq(cq, n + 2, Len(cq))]

\* The kernel finishes some I/O.
Complete ==
    /\ \E ud \in running : running' = running \ {ud} /\ cq' = Append(cq, ud)
    /\ UNCHANGED <<ringVars, guestVars, inflight, nextUserData, sq, completions, blkPc, faults, broken, lost>>

-----------------------------------------------------------------------------
(* VirtioBlkIoBackend.                                                     *)

ProcessCalled ==
    /\ blkPc = "idle" /\ blkPc' = "submitting"
    /\ UNCHANGED <<ringVars, guestVars, inflight, nextUserData, uringVars, completions, faults, broken, lost>>

\* Answered at once: nothing in the chain, outside the disk, not supported.
Rejected(r) == r.kind = "other" \/ ~r.inside

\* Mutant: an answer outside the disk falls through to the submission.
PopRequestThrough ==
    LET h == pop_avail
        ud == nextUserData
    IN  /\ blkPc = "submitting" /\ has_available /\ lastAvailIdx' = Wrap(lastAvailIdx + 1)
        /\ walk_chain(h) # << >> /\ nextUserData' = ud + 1
        /\ Submitted(ud) /\ inflight' = inflight \cup {[ud |-> ud, head |-> h]}
        /\ used' = IF Rejected(Head(walk_chain(h))) THEN push_used(h) ELSE used
        /\ UNCHANGED <<avail, guestVars, cq, completions, blkPc, lost>>

\* Mutant: the record takes its user_data after the counter has moved on.
PopRequestLate ==
    LET h == pop_avail
        ud == nextUserData
    IN  /\ blkPc = "submitting" /\ has_available /\ lastAvailIdx' = Wrap(lastAvailIdx + 1)
        /\ walk_chain(h) # << >> /\ nextUserData' = ud + 1
        /\ Submitted(ud) /\ inflight' = inflight \cup {[ud |-> ud + 1, head |-> h]}
        /\ UNCHANGED <<avail, used, guestVars, cq, completions, blkPc, lost>>

\* One turn of the first loop.  The length of an overlong read wraps in a build
\* without overflow checks: it is then served like any other.
PopRequest ==
    LET h == pop_avail
        ud == nextUserData
    IN  /\ blkPc = "submitting" /\ has_available /\ lastAvailIdx' = Wrap(lastAvailIdx + 1)
        /\ \/ /\ walk_chain(h) = << >> /\ used' = push_used(h)
              /\ UNCHANGED <<inflight, nextUserData, sq, running, faults, broken>>
           \/ /\ walk_chain(h) # << >> /\ nextUserData' = ud + 1
              /\ \/ /\ Rejected(Head(walk_chain(h))) /\ used' = push_used(h)
                    /\ UNCHANGED <<inflight, sq, running, faults, broken>>
                 \/ /\ ~Rejected(Head(walk_chain(h)))
                    /\ \/ /\ SubmitFails(ud) /\ used' = push_used(h) /\ UNCHANGED inflight
                       \/ /\ Submitted(ud) /\ UNCHANGED used
                          /\ inflight' = inflight \cup {[ud |-> ud, head |-> h]}
        /\ UNCHANGED <<avail, guestVars, cq, completions, blkPc, lost>>

\* The data of an overlong write do not fit the buffer of the wrapped length,
\* and with overflow checks the sum itself panics: the head has been popped,
\* and panic_barrier ends the call with nothing said about it.
PopPanics ==
    LET h == pop_avail
    IN  /\ blkPc = "submitting" /\ has_available /\ lastAvailIdx' = Wrap(lastAvailIdx + 1)
        /\ walk_chain(h) # << >> /\ Head(walk_chain(h)).kind = "overlong"
        /\ nextUserData' = nextUserData + 1 /\ blkPc' = "idle"
        /\ lost' = lost \cup {[ud |-> nextUserData, head |-> h]}
        /\ UNCHANGED <<avail, used, guestVars, inflight, uringVars, completions, faults, broken>>

Popped ==
    /\ blkPc = "submitting" /\ ~has_available
    /\ blkPc' = IF inflight = {} THEN "idle" ELSE "waiting"
    /\ UNCHANGED <<ringVars, guestVars, inflight, nextUserData, uringVars, completions, faults, broken, lost>>

\* submit_and_wait(1) hands over what a failed submission left.
EnterWait ==
    /\ blkPc = "waiting" /\ sq # {} /\ sq' = {} /\ running' = running \cup sq
    /\ UNCHANGED <<ringVars, guestVars, inflight, nextUserData, cq, completions, blkPc, faults, broken, lost>>

WaitFails ==
    /\ blkPc = "waiting" /\ faults < MaxBlkFaults /\ faults' = faults + 1 /\ blkPc' = "idle"
    /\ UNCHANGED <<ringVars, guestVars, inflight, nextUserData, uringVars, completions, broken, lost>>

\* The array for the completions is as long as the inflight list.
wait_completions ==
    LET polled == poll_completions(Cardinality(inflight))
    IN  /\ blkPc = "waiting" /\ cq # << >> /\ sq = {} /\ blkPc' = "matching"
        /\ cq' = polled.cq /\ completions' = polled.out
        /\ UNCHANGED <<ringVars, guestVars, inflight, nextUserData, sq, running, faults, broken, lost>>

\* The request a completion belongs to is returned; one of none is skipped.
Match ==
    /\ blkPc = "matching" /\ completions # << >> /\ completions' = Tail(completions)
    /\ \/ /\ \A r \in inflight : r.ud # Head(completions)
          /\ UNCHANGED <<inflight, used>>
       \/ \E r \in inflight :
             /\ r.ud = Head(completions)
             /\ inflight' = inflight \ {r} /\ used' = push_used(r.head)
    /\ UNCHANGED <<avail, lastAvailIdx, guestVars, nextUserData, uringVars, blkPc, faults, broken, lost>>

Matched ==
    /\ blkPc = "matching" /\ completions = << >> /\ blkPc' = "idle"
    /\ UNCHANGED <<ringVars, guestVars, inflight, nextUserData, uringVars, completions, faults, broken, lost>>

BiNext == \/ \E h \in Heads, r \in Requests : Post(h, r)
          \/ Reap \/ Complete
          \/ ProcessCalled \/ PopRequest \/ PopPanics \/ Popped \/ EnterWait \/ WaitFails
          \/ wait_completions \/ Match \/ Matched

\* The kernel finishes I/O as long as it has some, and a call that waits for it
\* goes on.  Nothing is assumed of the guest, nor that the device is processed
\* at all: nothing outside the tests calls hcv_virtio_blk_io_process.
BiFairness ==
    /\ WF_biVars(Complete)
    /\ WF_biVars(EnterWait \/ wait_completions \/ Match \/ Matched)
BiSpec == BiInit /\ [][BiNext]_biVars /\ BiFairness

-----------------------------------------------------------------------------
Between(ring, from, to) == {<<i, ring[(from + i) % QueueSize]>> : i \in 0 .. Wrap(to - from) - 1}
Count(h, S) == Cardinality({x \in S : x[2] = h})
Waiting(h) == Count(h, Between(avail.ring, lastAvailIdx, avail.idx))
Serving(h) == Cardinality({r \in inflight : r.head = h})
Returned(h) == Count(h, Between(used.ring, reaped, used.idx))
Dropped(h) == Cardinality({r \in lost : r.head = h})

\* process_queue_async and the rings over any wrap of the indices: a head
\* is with the guest, waiting, in flight, returned or lost to a panic, and only
\* one of these.  No request is answered twice, and whatever io_uring fails at,
\* none is dropped but one whose own handling panicked.
HeadsConserved ==
    \A h \in Heads :
        (IF h \in mine THEN 1 ELSE 0) + Waiting(h) + Serving(h) + Returned(h) + Dropped(h) = 1

\* InflightRequest.buffer: while the kernel may touch a request's buffer the
\* request is in the inflight list, unless a submission has failed (the
\* request is then answered and its buffer freed, the entry stays queued).
BuffersLive ==
    broken \/ running \cup sq \subseteq {r.ud : r \in inflight}

\* poll_completions sized by the inflight list: no completion is thrown away
\* that a later call would wait for, so a call of process_queue_async that waits
\* comes to its end, unless a submission has failed (its late completion may then
\* push another one off the end of the array).
WaitEnds == blkPc = "waiting" ~> (blkPc = "idle" \/ broken)
=============================================================================
