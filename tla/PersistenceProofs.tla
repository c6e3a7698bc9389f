------------------------- MODULE PersistenceProofs --------------------------
(***************************************************************************)
(* PersistentComputeService, for any number of callers, VMs and failing    *)
(* store operations. Neither property is inductive: the invariant follows  *)
(* every call from its change of the service's own table to its write.     *)
(***************************************************************************)
EXTENDS Persistence, FiniteSetTheorems, TLAPS

\* The record of a VM.
IsVM(r) == r = [vm |-> r.vm, state |-> r.state, node |-> r.node, policy |-> r.policy]

\* The record of a call under way.
IsCall(r) == r = [at |-> r.at, h |-> r.h, kind |-> r.kind, code |-> r.code,
                  stored |-> r.stored, val |-> r.val]

\* Types of the objects, the store and the calls.
PsShapes ==
    /\ next \in Nat \ {0} /\ restarts \in Nat
    /\ DOMAIN obj \subseteq 1 .. (next - 1)
    /\ \A h \in DOMAIN obj : IsVM(obj[h])
    /\ IsFiniteSet(DOMAIN etcd) /\ DOMAIN etcd \subseteq Int
    /\ listed \subseteq DOMAIN obj /\ migrating \subseteq DOMAIN obj
    /\ \A c \in DOMAIN pcalls : IsCall(pcalls[c]) /\ pcalls[c].h \in DOMAIN obj

\* The steps, by what they do to the calls.
Starts(c, h, pc) ==
    /\ c \notin DOMAIN pcalls
    /\ DOMAIN pcalls' = DOMAIN pcalls \cup {c}
    /\ \A w \in DOMAIN pcalls : pcalls'[w] = pcalls[w]
    /\ IsCall(pcalls'[c]) /\ pcalls'[c].at = pc /\ pcalls'[c].h = h
    /\ pcalls'[c].stored = FALSE
    /\ spoiled' = IF Touched(h) THEN spoiled \cup {h} ELSE spoiled

\* A call goes on.
Goes(c, pc) ==
    /\ c \in DOMAIN pcalls
    /\ DOMAIN pcalls' = DOMAIN pcalls
    /\ \A w \in DOMAIN pcalls : w # c => pcalls'[w] = pcalls[w]
    /\ IsCall(pcalls'[c]) /\ pcalls'[c].at = pc /\ pcalls'[c].h = pcalls[c].h

\* A call is answered.
Ends(c) ==
    /\ c \in DOMAIN pcalls
    /\ DOMAIN pcalls' = DOMAIN pcalls \ {c}
    /\ \A w \in DOMAIN pcalls' : pcalls'[w] = pcalls[w]

\* Begin starts a call.
LEMMA BeginStarts ==
    ASSUME NEW c, NEW h, NEW kind, NEW pc, NEW code, CallFree(c), Begin(c, h, kind, pc, code)
    PROVE  Starts(c, h, pc)
  <1>1. PICK r : r = [at |-> pc, h |-> h, kind |-> kind, code |-> code,
                      stored |-> FALSE, val |-> << >>]
    BY Zenon
  <1>2. IsCall(r) /\ r.at = pc /\ r.h = h /\ r.stored = FALSE
    BY <1>1 DEF IsCall
  <1>3. pcalls' = Put(pcalls, c, r) /\ c \notin DOMAIN pcalls
    BY <1>1 DEF Begin, CallFree
  <1>4. /\ DOMAIN pcalls' = DOMAIN pcalls \cup {c} /\ pcalls'[c] = r
        /\ \A w \in DOMAIN pcalls : pcalls'[w] = pcalls[w]
    BY <1>3 DEF Put
  <1> QED
    BY <1>2, <1>3, <1>4, Zenon DEF Begin, Starts

\* End ends it.
LEMMA EndEnds ==
    ASSUME NEW c \in DOMAIN pcalls, NEW code, End(c, code)
    PROVE  Ends(c)
  BY DEF End, Ends, Del, Restrict

\* A call that goes on as s.
LEMMA GoesAs ==
    ASSUME NEW c \in DOMAIN pcalls, NEW s, IsCall(s), s.h = pcalls[c].h,
           pcalls' = [pcalls EXCEPT ![c] = s]
    PROVE  Goes(c, s.at) /\ pcalls'[c] = s
  BY DEF Goes

-----------------------------------------------------------------------------
\* Until the first restart a handle, its key and the VM's identity agree.
FirstNames ==
    /\ durable /\ next = born + 1
    /\ \A h \in DOMAIN obj : obj[h].vm = h
    /\ DOMAIN etcd \subseteq DOMAIN obj
    /\ \A h \in DOMAIN etcd : etcd[h].vm = h
    /\ \A c \in DOMAIN pcalls : pcalls[c].at = "write" => pcalls[c].val.vm = pcalls[c].h

\* What was owed is in the store; only a destroyed VM's key is deleted.
FirstOwed ==
    /\ \A c \in DOMAIN pcalls :
          /\ pcalls[c].at \in {"delete", "deleted"} => pcalls[c].h \notin listed
          /\ pcalls[c].stored /\ pcalls[c].h \in listed => pcalls[c].h \in DOMAIN etcd
    /\ \A h \in listed : h \in owed => h \in DOMAIN etcd

\* Service and store agree on VM h.
VMSettled(h) ==
    /\ h \in listed <=> h \in DOMAIN etcd
    /\ h \in listed => etcd[h].state = obj[h].state /\ etcd[h].node = obj[h].node

\* A call alone on its VM will leave it settled.
VMOnCourse(c) ==
    LET call == pcalls[c]
    IN  /\ \A w \in DOMAIN pcalls : pcalls[w].h = call.h => w = c
        /\ call.at \in {"encode", "write", "policy", "read", "delete", "deleted"}
        /\ call.at \in {"encode", "write", "read"} => call.h \in listed
        /\ call.at = "write" =>
              call.val.state = obj[call.h].state /\ call.val.node = obj[call.h].node
        /\ call.at \in {"policy", "deleted"} => VMSettled(call.h)

\* Before the first restart: a VM no call is about is settled, and one that a call is
\* about is on the way to it, unless concurrent calls have spoiled it.
FirstQuiet ==
    /\ migrating \subseteq spoiled
    /\ \A h \in DOMAIN obj \ spoiled : ~Touched(h) => VMSettled(h)
    /\ \A c \in DOMAIN pcalls : pcalls[c].h \notin spoiled => VMOnCourse(c)

\* The inductive invariant.
PsInv ==
    /\ PsShapes /\ OwedIsListed
    /\ restarts = 0 => FirstNames /\ FirstOwed /\ FirstQuiet

\* There are no VMs at first.
LEMMA PsInitInv == PsInit => PsInv
  BY FS_EmptySet DEF PsInit, PsInv, PsShapes, OwedIsListed, FirstNames, FirstOwed, FirstQuiet, Empty

\* A step that is about h leaves the rest alone.
Elsewhere(h) ==
    /\ spoiled \subseteq spoiled'
    /\ \A g : g # h => /\ g \in listed' <=> g \in listed
                       /\ g \in DOMAIN etcd' <=> g \in DOMAIN etcd
                       /\ g \in DOMAIN etcd => etcd'[g] = etcd[g]
                       /\ g \in DOMAIN obj' <=> g \in DOMAIN obj
                       /\ g \in DOMAIN obj => obj'[g] = obj[g]
    /\ \A w \in DOMAIN pcalls : pcalls[w].h # h => w \in DOMAIN pcalls'
    /\ \A w \in DOMAIN pcalls' : pcalls'[w].h # h => w \in DOMAIN pcalls /\ pcalls[w].h # h
    /\ \A w \in DOMAIN pcalls : pcalls[w].h # h => pcalls'[w] = pcalls[w]

\* A step about VM h leaves the others as they were.
LEMMA QuietElsewhere ==
    ASSUME PsShapes, FirstQuiet, NEW h, Elsewhere(h), migrating' \subseteq spoiled',
           h \in DOMAIN obj' \ spoiled' /\ ~Touched(h)' => VMSettled(h)',
           \A w \in DOMAIN pcalls' : pcalls'[w].h = h /\ h \notin spoiled' => VMOnCourse(w)'
    PROVE  FirstQuiet'
  <1>1. ASSUME NEW g \in DOMAIN obj' \ spoiled', g # h, ~Touched(g)'
        PROVE  VMSettled(g)'
    <2>1. g \in DOMAIN obj \ spoiled /\ ~Touched(g)
      BY <1>1 DEF Elsewhere, Touched
    <2>2. VMSettled(g)
      BY <2>1 DEF FirstQuiet
    <2> QED
      BY <1>1, <2>1, <2>2 DEF VMSettled, Elsewhere
  <1>2. ASSUME NEW w \in DOMAIN pcalls', pcalls'[w].h # h, pcalls'[w].h \notin spoiled'
        PROVE  VMOnCourse(w)'
    <2>1. w \in DOMAIN pcalls /\ pcalls'[w] = pcalls[w] /\ pcalls[w].h # h
          /\ pcalls[w].h \notin spoiled /\ pcalls[w].h \in DOMAIN obj
      BY <1>2 DEF Elsewhere, PsShapes
    <2>2. PICK g : g = pcalls[w].h
      OBVIOUS
    <2>3. VMOnCourse(w)
      BY <2>1 DEF FirstQuiet
    <2>4. VMSettled(g) => VMSettled(g)'
      BY <2>1, <2>2 DEF VMSettled, Elsewhere
    <2>5. g \in listed' <=> g \in listed
      BY <2>1, <2>2 DEF Elsewhere
    <2>6. obj'[g] = obj[g]
      BY <2>1, <2>2 DEF Elsewhere
    <2>7. \A x \in DOMAIN pcalls' : pcalls'[x].h = g => x = w
      BY <2>1, <2>2, <2>3 DEF Elsewhere, VMOnCourse
    <2> QED
      BY <2>1, <2>2, <2>3, <2>4, <2>5, <2>6, <2>7 DEF VMOnCourse
  <1> QED
    BY <1>1, <1>2 DEF FirstQuiet

-----------------------------------------------------------------------------
\* CreateVM.
LEMMA CreateInv ==
    ASSUME PsInv, NEW c, NEW kind, NEW code, CreateVM(c, kind, code)
    PROVE  PsInv'
  <1>1. PICK n \in Nat \ {0} : n = next
    BY DEF PsInv, PsShapes
  <1>2. PICK pc : pc = IF durable THEN "encode" ELSE "policy"
    OBVIOUS
  <1>3. Starts(c, n, pc)
    BY <1>1, <1>2, BeginStarts DEF CreateVM
  <1>4. PICK r : r = NewVM(born + 1)
    OBVIOUS
  <1>5. IsVM(r) /\ r.vm = born + 1
    BY <1>4 DEF NewVM, IsVM
  <1>6. /\ next' = n + 1 /\ born' = born + 1 /\ listed' = listed \cup {n}
        /\ obj' = Put(obj, n, r)
        /\ UNCHANGED <<etcd, durable, migrating, restarts, owed>>
    BY <1>1, <1>4 DEF CreateVM
  <1>7. /\ DOMAIN obj \subseteq 1 .. (n - 1) /\ n \notin DOMAIN obj
        /\ DOMAIN obj' = DOMAIN obj \cup {n} /\ obj'[n] = r
        /\ \A h \in DOMAIN obj : obj'[h] = obj[h] /\ h # n
    BY <1>1, <1>6 DEF Put, PsInv, PsShapes
  <1>8. PsShapes'
    BY <1>3, <1>5, <1>6, <1>7 DEF PsInv, PsShapes, Starts
  <1>9. OwedIsListed'
    BY <1>6, <1>7 DEF PsInv, PsShapes, OwedIsListed
  <1>10. ASSUME restarts' = 0
         PROVE  FirstNames' /\ FirstOwed' /\ FirstQuiet'
    <2>1. FirstNames /\ FirstOwed /\ FirstQuiet
      BY <1>6, <1>10 DEF PsInv
    <2>2. pc = "encode" /\ n = born + 1
      BY <1>1, <1>2, <2>1 DEF FirstNames
    <2>3. FirstNames'
      BY <1>3, <1>5, <1>6, <1>7, <2>1, <2>2 DEF FirstNames, Starts
    <2>4. FirstOwed'
      <3>1. n \notin owed
        BY <1>7, <2>1 DEF PsInv, PsShapes, OwedIsListed, FirstNames
      <3>2. \A w \in DOMAIN pcalls : pcalls[w].h # n
        BY <1>7 DEF PsInv, PsShapes
      <3> QED
        BY <1>3, <1>6, <2>1, <2>2, <3>1, <3>2 DEF FirstOwed, Starts
    <2>5. Elsewhere(n)
      BY <1>3, <1>6, <1>7 DEF Elsewhere, Starts
    <2>6. Touched(n)' /\ migrating' \subseteq spoiled'
      BY <1>3, <1>6, <2>1, Zenon DEF Touched, Starts, FirstQuiet
    <2>7. ASSUME NEW w \in DOMAIN pcalls', pcalls'[w].h = n PROVE VMOnCourse(w)'
      <3>1. \A x \in DOMAIN pcalls : pcalls[x].h # n
        BY <1>7 DEF PsInv, PsShapes
      <3>2. w = c
        BY <1>3, <2>7, <3>1 DEF Starts
      <3> QED
        BY <1>3, <1>6, <2>2, <3>1, <3>2, Zenon DEF VMOnCourse, Starts
    <2>8. FirstQuiet'
      BY <2>1, <2>5, <2>6, <2>7, QuietElsewhere DEF PsInv
    <2> QED
      BY <2>3, <2>4, <2>8
  <1> QED
    BY <1>8, <1>9, <1>10 DEF PsInv

\* A creation that fails uses up a handle and changes nothing else.
LEMMA CreateFailsInv ==
    ASSUME PsInv, NEW c, NEW code, CreateFails(c, code)
    PROVE  PsInv'
  <1>1. /\ next \in Nat \ {0} /\ next' = next + 1 /\ born' = born + 1
        /\ UNCHANGED <<etcd, durable, obj, listed, migrating, pcalls, restarts, spoiled, owed>>
    BY DEF CreateFails, ghosts, PsInv, PsShapes
  <1>2. PsShapes' /\ OwedIsListed'
    BY <1>1 DEF PsInv, PsShapes, OwedIsListed
  <1>3. FirstNames => FirstNames'
    BY <1>1 DEF FirstNames
  <1>4. FirstOwed => FirstOwed'
    BY <1>1, Zenon DEF FirstOwed
  <1>5. /\ \A h : Touched(h)' = Touched(h) /\ VMSettled(h)' = VMSettled(h)
        /\ \A w : VMOnCourse(w)' = VMOnCourse(w)
    BY <1>1, Zenon DEF VMSettled, VMOnCourse, Touched
  <1>6. FirstQuiet => FirstQuiet'
    BY <1>1, <1>5, Zenon DEF FirstQuiet
  <1> QED
    BY <1>1, <1>2, <1>3, <1>4, <1>6, Zenon DEF PsInv

\* The steps that take a copy of the VM to be written.
LEMMA CopyInv ==
    ASSUME PsInv, NEW c \in DOMAIN pcalls, NEW pc, NEW r, NEW h,
           h = pcalls[c].h, r = obj[h],
           pcalls[c].at \in {"encode", "read"}, durable => pc = "write",
           Goes(c, pc), pcalls'[c].stored = pcalls[c].stored, pcalls'[c].val = r,
           UNCHANGED <<etcd, durable, memory, born, restarts, spoiled, owed>>
    PROVE  PsInv'
  <1>1. h \in DOMAIN obj
    BY DEF PsInv, PsShapes
  <1>2. /\ Goes(c, pc) /\ pcalls'[c].stored = pcalls[c].stored /\ pcalls'[c].val = r
        /\ UNCHANGED <<etcd, durable, memory, born, restarts, spoiled, owed>>
    OBVIOUS
  <1>3. PsShapes'
    BY <1>2, Zenon DEF PsInv, PsShapes, Goes, memory
  <1>4. OwedIsListed'
    BY <1>2, Zenon DEF PsInv, OwedIsListed, memory
  <1>5. ASSUME restarts' = 0
        PROVE  FirstNames' /\ FirstOwed' /\ FirstQuiet'
    <2>1. FirstNames /\ FirstOwed /\ FirstQuiet
      BY <1>2, <1>5 DEF PsInv
    <2>2. pc = "write"
      BY <2>1, Zenon DEF FirstNames
    <2>3. FirstNames'
      BY <1>1, <1>2, <2>1, <2>2 DEF FirstNames, Goes, memory
    <2>4. FirstOwed'
      BY <1>1, <1>2, <2>1, <2>2, Zenon DEF FirstOwed, Goes, memory
    <2>5. Elsewhere(h)
      BY <1>2, Zenon DEF Elsewhere, Goes, memory
    <2>6. Touched(h)' /\ migrating' \subseteq spoiled'
      BY <1>2, <2>1, Zenon DEF Touched, Goes, FirstQuiet, memory
    <2>7. ASSUME NEW w \in DOMAIN pcalls', pcalls'[w].h = h, h \notin spoiled' PROVE VMOnCourse(w)'
      <3>1. VMOnCourse(c)
        BY <1>1, <1>2, <2>1, <2>7, Zenon DEF FirstQuiet
      <3>2. w = c
        BY <1>2, <2>7, <3>1, Zenon DEF Goes, VMOnCourse
      <3> QED
        BY <1>1, <1>2, <2>2, <3>1, <3>2, Zenon DEF VMOnCourse, Goes, memory
    <2>8. FirstQuiet'
      BY <2>1, <2>5, <2>6, <2>7, QuietElsewhere, Zenon DEF PsInv
    <2> QED
      BY <2>3, <2>4, <2>8
  <1> QED
    BY <1>3, <1>4, <1>5 DEF PsInv

\* The record is encoded as the VM is then.
LEMMA EncodeInv ==
    ASSUME PsInv, NEW c, Encode(c)
    PROVE  PsInv'
  <1>1. PICK k : k = pcalls[c] /\ IsCall(k) /\ c \in DOMAIN pcalls /\ k.at = "encode"
    BY DEF Encode, At, CallFree, PsInv, PsShapes
  <1>2. PICK r : r = obj[k.h]
    OBVIOUS
  <1>3. PICK s : s = [k EXCEPT !.at = "write", !.val = r]
    OBVIOUS
  <1>4. IsCall(s) /\ s.at = "write" /\ s.h = k.h /\ s.stored = k.stored /\ s.val = r
    BY <1>1, <1>3, Zenon DEF IsCall
  <1>5. pcalls' = [pcalls EXCEPT ![c] = s]
    BY <1>1, <1>2, <1>3, Zenon DEF Encode
  <1>6. Goes(c, "write") /\ pcalls'[c] = s
    BY <1>1, <1>4, <1>5, GoesAs, Zenon
  <1>7. UNCHANGED <<etcd, durable, memory, born, restarts, spoiled, owed>>
    BY DEF Encode, ghosts
  <1> QED
    BY <1>1, <1>2, <1>4, <1>6, <1>7, CopyInv

\* What ends a call without anything else.
LEMMA LetGoInv ==
    ASSUME PsInv, NEW c, Ends(c),
           UNCHANGED <<etcd, durable, memory, born, restarts, spoiled, owed>>,
           restarts = 0 /\ pcalls[c].h \notin spoiled => pcalls[c].at \in {"policy", "deleted"}
    PROVE  PsInv'
  <1>1. PICK h : h = pcalls[c].h /\ c \in DOMAIN pcalls
    BY DEF Ends
  <1>2. PsShapes'
    BY DEF PsInv, PsShapes, Ends, memory
  <1>3. OwedIsListed'
    BY DEF PsInv, OwedIsListed, memory
  <1>4. ASSUME restarts' = 0
        PROVE  FirstNames' /\ FirstOwed' /\ FirstQuiet'
    <2>1. FirstNames /\ FirstOwed /\ FirstQuiet
      BY <1>4 DEF PsInv
    <2>2. FirstNames'
      BY <2>1 DEF FirstNames, Ends, memory
    <2>3. FirstOwed'
      BY <2>1 DEF FirstOwed, Ends, memory
    <2>4. Elsewhere(h)
      BY <1>1 DEF Elsewhere, Ends, memory
    <2>5. migrating' \subseteq spoiled'
      BY <2>1 DEF FirstQuiet, memory
    <2>6. ASSUME h \notin spoiled'
          PROVE  VMSettled(h)' /\ \A w \in DOMAIN pcalls' : pcalls'[w].h # h
      <3>1. VMOnCourse(c) /\ pcalls[c].at \in {"policy", "deleted"}
        BY <1>1, <1>4, <2>1, <2>6, Zenon DEF FirstQuiet
      <3>2. VMSettled(h)
        BY <1>1, <3>1, Zenon DEF VMOnCourse
      <3> QED
        BY <1>1, <3>1, <3>2, Zenon DEF VMOnCourse, VMSettled, Ends, memory
    <2>7. FirstQuiet'
      BY <2>1, <2>4, <2>5, <2>6, QuietElsewhere, Zenon DEF PsInv
    <2> QED
      BY <2>2, <2>3, <2>7
  <1> QED
    BY <1>2, <1>3, <1>4 DEF PsInv

\* The handler reads the VM again for its answer.
LEMMA ReadBackInv ==
    ASSUME PsInv, NEW c, ReadBack(c)
    PROVE  PsInv'
  <1>1. PICK k : k = pcalls[c] /\ IsCall(k) /\ c \in DOMAIN pcalls /\ k.at = "read"
    BY DEF ReadBack, At, CallFree, PsInv, PsShapes
  <1>2. UNCHANGED <<etcd, durable, memory, born, restarts, spoiled, owed>>
    BY DEF ReadBack, ghosts
  <1>3. CASE k.h \notin listed /\ End(c, 404)
    <2>1. Ends(c)
      BY <1>1, <1>3, EndEnds
    <2>2. restarts = 0 => k.h \in spoiled
      BY <1>1, <1>3 DEF PsInv, FirstQuiet, VMOnCourse
    <2> QED
      BY <1>1, <1>2, <2>1, <2>2, LetGoInv
  <1>4. CASE pcalls' = [pcalls EXCEPT ![c].at = IF durable THEN "write" ELSE "policy",
                                      ![c].val = obj[k.h]]
    <2>1. PICK r : r = obj[k.h]
      OBVIOUS
    <2>2. PICK pc : pc = IF durable THEN "write" ELSE "policy"
      OBVIOUS
    <2>3. PICK s : s = [k EXCEPT !.at = pc, !.val = r]
      OBVIOUS
    <2>4. IsCall(s) /\ s.at = pc /\ s.h = k.h /\ s.stored = k.stored /\ s.val = r
      BY <1>1, <2>3, Zenon DEF IsCall
    <2>5. pcalls' = [pcalls EXCEPT ![c] = s]
      BY <1>1, <1>4, <2>1, <2>2, <2>3, Zenon
    <2>6. Goes(c, pc) /\ pcalls'[c] = s
      BY <1>1, <2>4, <2>5, GoesAs, Zenon
    <2>7. durable => pc = "write"
      BY <2>2
    <2> QED
      BY <1>1, <1>2, <2>1, <2>4, <2>6, <2>7, CopyInv, Zenon
  <1> QED
    BY <1>1, <1>3, <1>4 DEF ReadBack

\* The write, which may fail.
LEMMA PutStoreInv ==
    ASSUME PsInv, NEW c, PutStore(c)
    PROVE  PsInv'
  <1>1. PICK k : k = pcalls[c] /\ IsCall(k) /\ c \in DOMAIN pcalls /\ k.at = "write"
    BY DEF PutStore, At, CallFree, PsInv, PsShapes
  <1>2. PICK h : h = k.h /\ h \in DOMAIN obj
    BY <1>1 DEF PsInv, PsShapes
  <1>3. UNCHANGED <<durable, memory, born, restarts, owed>>
    BY DEF PutStore
  <1>4. /\ Goes(c, "policy") /\ spoiled \subseteq spoiled'
        /\ \/ etcd' = Put(etcd, h, k.val)
           \/ etcd' = etcd /\ h \in spoiled' /\ pcalls'[c].stored = k.stored
    <2>1. CASE /\ etcd' = Put(etcd, h, k.val) /\ UNCHANGED spoiled
               /\ pcalls' = [pcalls EXCEPT ![c].at = "policy", ![c].stored = TRUE]
      <3>1. PICK s : s = [k EXCEPT !.at = "policy", !.stored = TRUE]
        OBVIOUS
      <3>2. IsCall(s) /\ s.at = "policy" /\ s.h = k.h
        BY <1>1, <3>1, Zenon DEF IsCall
      <3>3. pcalls' = [pcalls EXCEPT ![c] = s]
        BY <1>1, <2>1, <3>1, Zenon
      <3>4. Goes(c, "policy") /\ pcalls'[c] = s
        BY <1>1, <3>2, <3>3, GoesAs, Zenon
      <3> QED
        BY <2>1, <3>2, <3>4
    <2>2. CASE /\ etcd' \in {etcd, Put(etcd, h, k.val)} /\ spoiled' = spoiled \cup {h}
               /\ pcalls' = [pcalls EXCEPT ![c].at = "policy"]
      <3>1. PICK s : s = [k EXCEPT !.at = "policy"]
        BY Zenon
      <3>2. IsCall(s) /\ s.at = "policy" /\ s.h = k.h /\ s.stored = k.stored
        BY <1>1, <3>1 DEF IsCall
      <3>3. pcalls' = [pcalls EXCEPT ![c] = s]
        BY <1>1, <2>2, <3>1
      <3>4. Goes(c, "policy") /\ pcalls'[c] = s
        BY <1>1, <3>2, <3>3, GoesAs, Zenon
      <3> QED
        BY <2>2, <3>2, <3>4, Zenon
    <2> QED
      BY <1>1, <1>2, <2>1, <2>2 DEF PutStore
  <1>5. /\ DOMAIN etcd \subseteq DOMAIN etcd' /\ DOMAIN etcd' \subseteq DOMAIN etcd \cup {h}
        /\ \A g \in DOMAIN etcd : g # h => etcd'[g] = etcd[g]
        /\ \/ h \in DOMAIN etcd' /\ etcd'[h] = k.val
           \/ etcd' = etcd /\ h \in spoiled' /\ pcalls'[c].stored = k.stored
    BY <1>4 DEF Put
  <1>6. PsShapes'
    <2>1. IsFiniteSet(DOMAIN etcd') /\ DOMAIN etcd' \subseteq Int
      <3>1. PICK E : E = DOMAIN etcd \cup {h}
        BY Zenon
      <3>2. IsFiniteSet(E) /\ E \subseteq Int
        BY <1>2, <3>1, FS_AddElement DEF PsInv, PsShapes
      <3>3. PICK D \in SUBSET E : D = DOMAIN etcd'
        BY <1>5, <3>1, Zenon
      <3> QED
        BY <3>2, <3>3, FS_Subset, Zenon
    <2> QED
      BY <1>3, <1>4, <2>1, Zenon DEF PsInv, PsShapes, Goes, memory
  <1>7. OwedIsListed'
    BY <1>3 DEF PsInv, OwedIsListed, memory
  <1>8. ASSUME restarts' = 0
        PROVE  FirstNames' /\ FirstOwed' /\ FirstQuiet'
    <2>1. FirstNames /\ FirstOwed /\ FirstQuiet
      BY <1>3, <1>8 DEF PsInv
    <2>2. FirstNames'
      <3>1. durable' /\ next' = born' + 1 /\ \A g \in DOMAIN obj' : obj'[g].vm = g
        BY <1>3, <2>1, Zenon DEF FirstNames, memory
      <3>2. k.val.vm = h /\ h \in DOMAIN obj
        BY <1>1, <1>2, <2>1, Zenon DEF FirstNames
      <3>3. DOMAIN etcd' \subseteq DOMAIN obj'
        BY <1>3, <1>5, <2>1, <3>2 DEF FirstNames, memory
      <3>4. \A g \in DOMAIN etcd' : etcd'[g].vm = g
        BY <1>5, <2>1, <3>2 DEF FirstNames
      <3>5. \A w \in DOMAIN pcalls' : pcalls'[w].at = "write" => pcalls'[w].val.vm = pcalls'[w].h
        BY <1>4, <2>1, Zenon DEF FirstNames, Goes
      <3> QED
        BY <3>1, <3>3, <3>4, <3>5, Zenon DEF FirstNames
    <2>3. FirstOwed'
      BY <1>1, <1>2, <1>3, <1>4, <1>5, <2>1 DEF FirstOwed, Goes, memory
    <2>4. Elsewhere(h)
      BY <1>1, <1>2, <1>3, <1>4, <1>5, Zenon DEF Elsewhere, Goes, memory
    <2>5. Touched(h)' /\ migrating' \subseteq spoiled'
      BY <1>1, <1>2, <1>3, <1>4, <2>1, Zenon DEF Touched, Goes, FirstQuiet, memory
    <2>6. ASSUME NEW w \in DOMAIN pcalls', pcalls'[w].h = h, h \notin spoiled' PROVE VMOnCourse(w)'
      <3>1. VMOnCourse(c)
        BY <1>1, <1>2, <1>4, <2>1, <2>6, Zenon DEF FirstQuiet
      <3>2. w = c /\ \A x \in DOMAIN pcalls' : pcalls'[x].h = h => x = c
        BY <1>1, <1>2, <1>4, <2>6, <3>1, Zenon DEF Goes, VMOnCourse
      <3>3. VMSettled(h)'
        BY <1>1, <1>2, <1>3, <1>5, <2>6, <3>1, Zenon
           DEF VMOnCourse, VMSettled, memory
      <3> QED
        BY <1>1, <1>2, <1>4, <3>2, <3>3, Zenon DEF VMOnCourse, Goes
    <2>7. FirstQuiet'
      BY <2>1, <2>4, <2>5, <2>6, QuietElsewhere, Zenon DEF PsInv
    <2> QED
      BY <2>2, <2>3, <2>7
  <1> QED
    BY <1>6, <1>7, <1>8 DEF PsInv

\* A VM that changes and stays the same VM.
Changes(h) ==
    /\ DOMAIN obj' = DOMAIN obj
    /\ \A g \in DOMAIN obj : g # h => obj'[g] = obj[g]
    /\ IsVM(obj'[h]) /\ obj'[h].vm = obj[h].vm

\* An update of one field of one VM.
LEMMA ChangesShown ==
    ASSUME PsShapes, NEW h \in DOMAIN obj, NEW x,
           \/ obj' = obj
           \/ obj' = [obj EXCEPT ![h].state = x]
           \/ obj' = [obj EXCEPT ![h].node = x]
           \/ obj' = [obj EXCEPT ![h].policy = x]
    PROVE  Changes(h)
  <1>1. PICK r : r = obj[h] /\ IsVM(r)
    BY DEF PsShapes
  <1>2. CASE obj' = obj
    BY <1>1, <1>2 DEF Changes
  <1>3. CASE obj' = [obj EXCEPT ![h].state = x]
    <2>1. PICK s : s = [r EXCEPT !.state = x]
      BY Zenon
    <2>2. IsVM(s) /\ s.vm = r.vm
      BY <1>1, <2>1 DEF IsVM
    <2>3. obj' = [obj EXCEPT ![h] = s]
      BY <1>1, <1>3, <2>1
    <2> QED
      BY <1>1, <2>2, <2>3 DEF Changes
  <1>4. CASE obj' = [obj EXCEPT ![h].node = x]
    <2>1. PICK s : s = [r EXCEPT !.node = x]
      BY Zenon
    <2>2. IsVM(s) /\ s.vm = r.vm
      BY <1>1, <2>1 DEF IsVM
    <2>3. obj' = [obj EXCEPT ![h] = s]
      BY <1>1, <1>4, <2>1
    <2> QED
      BY <1>1, <2>2, <2>3 DEF Changes
  <1>5. CASE obj' = [obj EXCEPT ![h].policy = x]
    <2>1. PICK s : s = [r EXCEPT !.policy = x]
      BY Zenon
    <2>2. IsVM(s) /\ s.vm = r.vm
      BY <1>1, <2>1 DEF IsVM
    <2>3. obj' = [obj EXCEPT ![h] = s]
      BY <1>1, <1>5, <2>1
    <2> QED
      BY <1>1, <2>2, <2>3 DEF Changes
  <1> QED
    BY <1>2, <1>3, <1>4, <1>5

\* The first step of ActionVM and MigrateVM.
LEMMA ChangeInv ==
    ASSUME PsInv, NEW c, NEW h \in listed, Starts(c, h, "read"), Changes(h),
           UNCHANGED <<etcd, durable, listed, next, migrating, born, restarts, owed>>
    PROVE  PsInv'
  <1>1. h \in DOMAIN obj
    BY Zenon DEF PsInv, PsShapes
  <1>2. PsShapes'
    BY <1>1, Zenon DEF PsInv, PsShapes, Starts, Changes
  <1>3. OwedIsListed'
    <2>1. \A g \in listed : g \in DOMAIN obj /\ obj'[g].vm = obj[g].vm
      BY Zenon DEF PsInv, PsShapes, Changes
    <2> QED
      BY <2>1, Zenon DEF PsInv, OwedIsListed
  <1>4. ASSUME restarts' = 0
        PROVE  FirstNames' /\ FirstOwed' /\ FirstQuiet'
    <2>1. FirstNames /\ FirstOwed /\ FirstQuiet
      BY <1>4, Zenon DEF PsInv
    <2>2. FirstNames'
      BY <1>1, <2>1 DEF FirstNames, Starts, Changes
    <2>3. FirstOwed'
      BY <1>1, <2>1, Zenon DEF FirstOwed, Starts
    <2>4. Elsewhere(h)
      BY <1>1, Zenon DEF Elsewhere, Starts, Changes
    <2>5. Touched(h)' /\ migrating' \subseteq spoiled'
      BY <2>1, Zenon DEF Touched, Starts, FirstQuiet
    <2>6. ASSUME NEW w \in DOMAIN pcalls', pcalls'[w].h = h, h \notin spoiled' PROVE VMOnCourse(w)'
      <3>1. \A x \in DOMAIN pcalls : pcalls[x].h # h
        BY <2>6, Zenon DEF Starts, Touched
      <3>2. w = c /\ \A x \in DOMAIN pcalls' : pcalls'[x].h = h => x = c
        BY <2>6, <3>1, Zenon DEF Starts
      <3> QED
        BY <3>2, Zenon DEF VMOnCourse, Starts
    <2>7. FirstQuiet'
      BY <2>1, <2>4, <2>5, <2>6, QuietElsewhere, Zenon DEF PsInv
    <2> QED
      BY <2>2, <2>3, <2>7
  <1> QED
    BY <1>2, <1>3, <1>4 DEF PsInv

\* The answer of a call that stored its VM.
LEMMA AnswerInv ==
    ASSUME PsInv, NEW c, Answer(c)
    PROVE  PsInv'
  <1>1. PICK k : k = pcalls[c] /\ c \in DOMAIN pcalls /\ k.at = "policy"
    BY DEF Answer, At, CallFree
  <1>2. PICK h \in DOMAIN obj : h = k.h
    BY <1>1 DEF PsInv, PsShapes
  <1>3. Ends(c)
    BY <1>1, EndEnds DEF Answer
  <1>4. UNCHANGED <<etcd, durable, listed, next, migrating, born, restarts, spoiled>>
    BY DEF Answer
  <1>5. Changes(h) /\ obj'[h].state = obj[h].state /\ obj'[h].node = obj[h].node
    <2>1. PICK x : obj' = [obj EXCEPT ![h].policy = x]
      BY <1>1, <1>2, Zenon DEF Answer
    <2>2. PICK r : r = obj[h] /\ IsVM(r)
      BY Zenon DEF PsInv, PsShapes
    <2>3. PICK s : s = [r EXCEPT !.policy = x]
      BY Zenon
    <2>4. IsVM(s) /\ s.vm = r.vm /\ s.state = r.state /\ s.node = r.node
      BY <2>2, <2>3 DEF IsVM
    <2>5. obj' = [obj EXCEPT ![h] = s]
      BY <2>1, <2>2, <2>3
    <2> QED
      BY <2>2, <2>4, <2>5, Zenon DEF Changes
  <1>6. \/ owed' = owed
        \/ owed' = owed \cup {obj[h].vm} /\ k.stored /\ h \in listed
    BY <1>1, <1>2 DEF Answer
  <1>7. PsShapes'
    BY <1>3, <1>4, <1>5, Zenon DEF PsInv, PsShapes, Ends, Changes
  <1>8. OwedIsListed'
    <2>1. \A g \in listed : g \in DOMAIN obj /\ obj'[g].vm = obj[g].vm
      BY <1>5, Zenon DEF PsInv, PsShapes, Changes
    <2> QED
      BY <1>4, <1>6, <2>1 DEF PsInv, OwedIsListed
  <1>9. ASSUME restarts' = 0
        PROVE  FirstNames' /\ FirstOwed' /\ FirstQuiet'
    <2>1. FirstNames /\ FirstOwed /\ FirstQuiet
      BY <1>4, <1>9 DEF PsInv
    <2>2. FirstNames'
      BY <1>3, <1>4, <1>5, <2>1, Zenon DEF FirstNames, Ends, Changes
    <2>3. FirstOwed'
      <3>1. h \in listed /\ k.stored => h \in DOMAIN etcd
        BY <1>1, <1>2, <2>1 DEF FirstOwed
      <3>2. \A g \in listed : g \in owed' => g \in DOMAIN etcd
        BY <1>6, <2>1, <3>1 DEF FirstOwed, FirstNames
      <3> QED
        BY <1>3, <1>4, <2>1, <3>2, Zenon DEF FirstOwed, Ends
    <2>4. Elsewhere(h)
      BY <1>1, <1>2, <1>3, <1>4, <1>5, Zenon DEF Elsewhere, Ends, Changes
    <2>5. migrating' \subseteq spoiled'
      BY <1>4, <2>1 DEF FirstQuiet
    <2>6. ASSUME h \notin spoiled'
          PROVE  VMSettled(h)' /\ \A w \in DOMAIN pcalls' : pcalls'[w].h # h
      <3>1. VMOnCourse(c)
        BY <1>1, <1>2, <1>4, <2>1, <2>6, Zenon DEF FirstQuiet
      <3>2. VMSettled(h)
        BY <1>1, <1>2, <3>1, Zenon DEF VMOnCourse
      <3> QED
        BY <1>1, <1>2, <1>3, <1>4, <1>5, <3>1, <3>2, Zenon
           DEF VMOnCourse, VMSettled, Ends
    <2>7. FirstQuiet'
      BY <2>1, <2>4, <2>5, <2>6, QuietElsewhere DEF PsInv
    <2> QED
      BY <2>2, <2>3, <2>7
  <1> QED
    BY <1>7, <1>8, <1>9, Zenon DEF PsInv

\* MigrateLive and the change of node that follows it.
LEMMA LiveInv ==
    ASSUME PsInv, NEW h \in DOMAIN obj, Changes(h),
           UNCHANGED <<etcd, durable, listed, next, pcalls, born, restarts, owed>>,
           \/ migrating' = migrating \cup {h} /\ spoiled' = spoiled \cup {h}
           \/ h \in migrating /\ migrating' = migrating \ {h} /\ UNCHANGED spoiled
    PROVE  PsInv'
  <1>1. PsShapes'
    BY Zenon DEF PsInv, PsShapes, Changes
  <1>2. OwedIsListed'
    <2>1. \A g \in listed : g \in DOMAIN obj /\ obj'[g].vm = obj[g].vm
      BY Zenon DEF PsInv, PsShapes, Changes
    <2> QED
      BY <2>1, Zenon DEF PsInv, OwedIsListed
  <1>3. ASSUME restarts' = 0
        PROVE  FirstNames' /\ FirstOwed' /\ FirstQuiet'
    <2>1. FirstNames /\ FirstOwed /\ FirstQuiet
      BY <1>3 DEF PsInv
    <2>2. FirstNames'
      BY <2>1, Zenon DEF FirstNames, Changes
    <2>3. FirstOwed'
      BY <2>1, Zenon DEF FirstOwed
    <2>4. Elsewhere(h)
      BY Zenon DEF Elsewhere, Changes
    <2>5. migrating' \subseteq spoiled' /\ h \in spoiled'
      BY <2>1, Zenon DEF FirstQuiet
    <2>6. FirstQuiet'
      BY <2>1, <2>4, <2>5, QuietElsewhere, Zenon DEF PsInv
    <2> QED
      BY <2>2, <2>3, <2>6
  <1> QED
    BY <1>1, <1>2, <1>3 DEF PsInv

\* DestroyVM.
LEMMA DestroyInv ==
    ASSUME PsInv, NEW c, NEW h \in listed, NEW pc, Starts(c, h, pc),
           pc \in {"delete", "deleted"}, durable => pc = "delete",
           listed' = listed \ {h}, owed' = owed \ {obj[h].vm},
           UNCHANGED <<etcd, durable, obj, next, migrating, born, restarts>>
    PROVE  PsInv'
  <1>1. h \in DOMAIN obj
    BY Zenon DEF PsInv, PsShapes
  <1>2. PsShapes'
    BY <1>1, Zenon DEF PsInv, PsShapes, Starts
  <1>3. OwedIsListed'
    BY DEF PsInv, OwedIsListed
  <1>4. ASSUME restarts' = 0
        PROVE  FirstNames' /\ FirstOwed' /\ FirstQuiet'
    <2>1. FirstNames /\ FirstOwed /\ FirstQuiet
      BY <1>4 DEF PsInv
    <2>2. pc = "delete"
      BY <2>1 DEF FirstNames
    <2>3. FirstNames'
      BY <2>1, <2>2, Zenon DEF FirstNames, Starts
    <2>4. FirstOwed'
      BY <2>1, Zenon DEF FirstOwed, Starts
    <2>5. Elsewhere(h)
      BY <1>1, Zenon DEF Elsewhere, Starts
    <2>6. Touched(h)' /\ migrating' \subseteq spoiled'
      BY <2>1, Zenon DEF Touched, Starts, FirstQuiet
    <2>7. ASSUME NEW w \in DOMAIN pcalls', pcalls'[w].h = h, h \notin spoiled' PROVE VMOnCourse(w)'
      <3>1. \A x \in DOMAIN pcalls : pcalls[x].h # h
        BY <2>7, Zenon DEF Starts, Touched
      <3>2. w = c /\ \A x \in DOMAIN pcalls' : pcalls'[x].h = h => x = c
        BY <2>7, <3>1, Zenon DEF Starts
      <3> QED
        BY <2>2, <3>2, Zenon DEF VMOnCourse, Starts
    <2>8. FirstQuiet'
      BY <2>1, <2>5, <2>6, <2>7, QuietElsewhere, Zenon DEF PsInv
    <2> QED
      BY <2>3, <2>4, <2>8
  <1> QED
    BY <1>2, <1>3, <1>4 DEF PsInv

\* The key is deleted.
LEMMA DeleteStoreInv ==
    ASSUME PsInv, NEW c, DeleteStore(c)
    PROVE  PsInv'
  <1>1. PICK k : k = pcalls[c] /\ IsCall(k) /\ c \in DOMAIN pcalls /\ k.at = "delete"
    BY Zenon DEF DeleteStore, At, CallFree, PsInv, PsShapes
  <1>2. PICK h : h = k.h /\ h \in DOMAIN obj
    BY <1>1, Zenon DEF PsInv, PsShapes
  <1>3. UNCHANGED <<durable, memory, born, restarts, owed>>
    BY DEF DeleteStore
  <1>4. Goes(c, "deleted") /\ pcalls'[c].stored = k.stored
    <2>1. PICK s : s = [k EXCEPT !.at = "deleted"]
      BY Zenon
    <2>2. IsCall(s) /\ s.at = "deleted" /\ s.h = k.h /\ s.stored = k.stored
      BY <1>1, <2>1 DEF IsCall
    <2>3. pcalls' = [pcalls EXCEPT ![c] = s]
      BY <1>1, <2>1 DEF DeleteStore, Goto
    <2>4. Goes(c, "deleted") /\ pcalls'[c] = s
      BY <1>1, <2>2, <2>3, GoesAs, Zenon
    <2> QED
      BY <2>2, <2>4, Zenon
  <1>5. /\ spoiled \subseteq spoiled'
        /\ DOMAIN etcd' \subseteq DOMAIN etcd
        /\ \A g \in DOMAIN etcd : g # h => g \in DOMAIN etcd'
        /\ \A g \in DOMAIN etcd' : etcd'[g] = etcd[g]
        /\ h \in DOMAIN etcd' => h \in spoiled'
    BY <1>1, <1>2 DEF DeleteStore, Del, Restrict
  <1>6. PsShapes'
    <2>1. IsFiniteSet(DOMAIN etcd') /\ DOMAIN etcd' \subseteq Int
      <3>1. PICK E : E = DOMAIN etcd
        OBVIOUS
      <3>2. PICK D \in SUBSET E : D = DOMAIN etcd'
        BY <1>5, <3>1
      <3> QED
        BY <3>1, <3>2, FS_Subset, Zenon DEF PsInv, PsShapes
    <2> QED
      BY <1>3, <1>4, <2>1, Zenon DEF PsInv, PsShapes, Goes, memory
  <1>7. OwedIsListed'
    BY <1>3 DEF PsInv, OwedIsListed, memory
  <1>8. ASSUME restarts' = 0
        PROVE  FirstNames' /\ FirstOwed' /\ FirstQuiet'
    <2>1. FirstNames /\ FirstOwed /\ FirstQuiet
      BY <1>3, <1>8 DEF PsInv
    <2>2. FirstNames'
      BY <1>1, <1>2, <1>3, <1>4, <1>5, <2>1 DEF FirstNames, Goes, memory
    <2>3. FirstOwed'
      <3>1. h \notin listed
        BY <1>1, <1>2, <2>1, Zenon DEF FirstOwed
      <3> QED
        BY <1>1, <1>2, <1>3, <1>4, <1>5, <2>1, <3>1, Zenon
           DEF FirstOwed, Goes, memory
    <2>4. Elsewhere(h)
      BY <1>1, <1>2, <1>3, <1>4, <1>5, Zenon DEF Elsewhere, Goes, memory
    <2>5. Touched(h)' /\ migrating' \subseteq spoiled'
      BY <1>1, <1>2, <1>3, <1>4, <1>5, <2>1, Zenon
         DEF Touched, Goes, FirstQuiet, memory
    <2>6. ASSUME NEW w \in DOMAIN pcalls', pcalls'[w].h = h, h \notin spoiled' PROVE VMOnCourse(w)'
      <3>1. VMOnCourse(c) /\ h \notin listed
        BY <1>1, <1>2, <1>5, <2>1, <2>6, Zenon DEF FirstQuiet, FirstOwed
      <3>2. w = c /\ \A x \in DOMAIN pcalls' : pcalls'[x].h = h => x = c
        BY <1>1, <1>2, <1>4, <2>6, <3>1, Zenon DEF Goes, VMOnCourse
      <3>3. VMSettled(h)'
        BY <1>3, <1>5, <2>6, <3>1, Zenon DEF VMSettled, memory
      <3> QED
        BY <1>1, <1>2, <1>4, <3>2, <3>3, Zenon DEF VMOnCourse, Goes
    <2>7. FirstQuiet'
      BY <2>1, <2>4, <2>5, <2>6, QuietElsewhere, Zenon DEF PsInv
    <2> QED
      BY <2>2, <2>3, <2>7
  <1> QED
    BY <1>6, <1>7, <1>8 DEF PsInv

\* The answer of DestroyVM.
LEMMA DestroyAnswerInv ==
    ASSUME PsInv, NEW c, DestroyAnswer(c)
    PROVE  PsInv'
  <1>1. c \in DOMAIN pcalls /\ pcalls[c].at = "deleted"
    BY Zenon DEF DestroyAnswer, At, CallFree
  <1>2. Ends(c)
    BY <1>1, EndEnds, Zenon DEF DestroyAnswer
  <1> QED
    BY <1>1, <1>2, LetGoInv, Zenon DEF DestroyAnswer

-----------------------------------------------------------------------------
\* LoadFromStore: every key that took a handle has a rank of its own.
LEMMA RankIs ==
    ASSUME NEW K, K \subseteq Int, IsFiniteSet(K), NEW k \in K
    PROVE  /\ Rank(K, k) \in 1 .. Cardinality(K)
           /\ \A m \in K : Rank(K, m) = Rank(K, k) => m = k
  <1>1. ASSUME NEW m \in K
        PROVE  /\ IsFiniteSet({j \in K : j <= m})
               /\ Cardinality({j \in K : j <= m}) \in Nat
               /\ Cardinality({j \in K : j <= m}) <= Cardinality(K)
    <2>1. PICK T \in SUBSET K : T = {j \in K : j <= m}
      BY Zenon
    <2>2. IsFiniteSet(T) /\ Cardinality(T) <= Cardinality(K)
      BY FS_Subset, Zenon
    <2> QED
      BY <2>1, <2>2, FS_CardinalityType
  <1>2. Cardinality({j \in K : j <= k}) # 0
    BY <1>1, FS_EmptySet
  <1>3. Cardinality(K) \in Nat
    BY FS_CardinalityType, Zenon
  <1>4. ASSUME NEW m \in K, NEW n \in K, m < n
        PROVE  Cardinality({j \in K : j <= m}) # Cardinality({j \in K : j <= n})
    <2>1. PICK S : S = {j \in K : j <= n}
      BY Zenon
    <2>2. PICK T : T = {j \in K : j <= m}
      BY Zenon
    <2>3. IsFiniteSet(S) /\ T \in SUBSET S /\ T # S
      <3>1. IsFiniteSet(S)
        BY <1>1, <2>1
      <3>2. m \in Int /\ n \in Int /\ n \in S /\ n \notin T
        BY <1>4, <2>1, <2>2
      <3>3. \A j \in T : j \in S
        BY <1>4, <2>1, <2>2
      <3> QED
        BY <3>1, <3>2, <3>3
    <2> QED
      BY <2>1, <2>2, <2>3, FS_Subset
  <1> QED
    BY <1>1, <1>2, <1>3, <1>4 DEF Rank

\* What LoadFromStore makes of the keys that took a handle and of those created.
LEMMA LoadedIs ==
    ASSUME NEW taken, taken \subseteq Int, IsFiniteSet(taken), NEW made \in SUBSET taken
    PROVE  /\ DOMAIN LoadFromStore(taken, made) \subseteq 1 .. Cardinality(taken)
           /\ \A i \in DOMAIN LoadFromStore(taken, made) : IsVM(LoadFromStore(taken, made)[i])
           /\ \A k \in made : \E i \in DOMAIN LoadFromStore(taken, made) :
                 LoadFromStore(taken, made)[i].vm = etcd[k].vm
  <1>1. \A vm : IsVM(NewVM(vm)) /\ NewVM(vm).vm = vm
    BY DEF NewVM, IsVM
  <1>2. \A k \in taken : /\ Rank(taken, k) \in 1 .. Cardinality(taken)
                         /\ \A m \in taken : Rank(taken, m) = Rank(taken, k) => m = k
    BY RankIs
  <1>3. DOMAIN LoadFromStore(taken, made) = {Rank(taken, k) : k \in made}
    BY Zenon DEF LoadFromStore
  <1>4. \A i \in {Rank(taken, k) : k \in made} :
           LoadFromStore(taken, made)[i] = NewVM(etcd[CHOOSE k \in made : Rank(taken, k) = i].vm)
    BY Zenon DEF LoadFromStore
  <1>5. ASSUME NEW k \in made
        PROVE  \E i \in DOMAIN LoadFromStore(taken, made) :
                  LoadFromStore(taken, made)[i].vm = etcd[k].vm
    <2>1. PICK i : i = Rank(taken, k)
      OBVIOUS
    <2>2. (CHOOSE m \in made : Rank(taken, m) = i) = k
      BY <1>2, <2>1
    <2> QED
      BY <1>1, <1>3, <1>4, <2>1, <2>2
  <1>6. DOMAIN LoadFromStore(taken, made) \subseteq 1 .. Cardinality(taken)
    BY <1>2, <1>3
  <1>7. \A i \in DOMAIN LoadFromStore(taken, made) : IsVM(LoadFromStore(taken, made)[i])
    BY <1>1, <1>3, <1>4
  <1> QED
    BY <1>5, <1>6, <1>7

\* After a restart what could be loaded of the store is listed, under new handles.
LEMMA RestartInv ==
    ASSUME PsInv, Restart
    PROVE  PsInv'
  <1>1. restarts \in Nat /\ restarts' = restarts + 1 /\ DOMAIN pcalls' = {}
        /\ migrating' = {} /\ listed' = DOMAIN obj'
        /\ IsFiniteSet(DOMAIN etcd') /\ DOMAIN etcd' \subseteq Int
    BY Zenon DEF Restart, Empty, PsInv, PsShapes
  <1>2. CASE StartEmpty
    <2>1. DOMAIN obj' = {} /\ next' = 1 /\ owed' = {}
      BY <1>2 DEF StartEmpty, Empty
    <2> QED
      BY <1>1, <2>1 DEF PsInv, PsShapes, OwedIsListed
  <1>3. CASE Reload
    <2>1. IsFiniteSet(DOMAIN etcd) /\ DOMAIN etcd \subseteq Int
      BY Zenon DEF PsInv, PsShapes
    <2>2. PICK taken \in SUBSET DOMAIN etcd : \E made \in SUBSET taken :
             /\ obj' = LoadFromStore(taken, made) /\ next' = Cardinality(taken) + 1
             /\ owed' = IF restarts = 0
                        THEN owed \ {etcd[k].vm : k \in DOMAIN etcd \ made} ELSE {}
      BY <1>3, Zenon DEF Reload
    <2>3. PICK made \in SUBSET taken :
             /\ obj' = LoadFromStore(taken, made) /\ next' = Cardinality(taken) + 1
             /\ owed' = IF restarts = 0
                        THEN owed \ {etcd[k].vm : k \in DOMAIN etcd \ made} ELSE {}
      BY <2>2, Zenon
    <2>4. taken \subseteq Int /\ IsFiniteSet(taken) /\ Cardinality(taken) \in Nat
      BY <2>1, FS_Subset, FS_CardinalityType
    <2>5. /\ DOMAIN obj' \subseteq 1 .. Cardinality(taken)
          /\ \A i \in DOMAIN obj' : IsVM(obj'[i])
          /\ \A k \in made : \E i \in DOMAIN obj' : obj'[i].vm = etcd[k].vm
      <3>1. PICK f : f = LoadFromStore(taken, made)
        OBVIOUS
      <3>2. /\ DOMAIN f \subseteq 1 .. Cardinality(taken)
            /\ \A i \in DOMAIN f : IsVM(f[i])
            /\ \A k \in made : \E i \in DOMAIN f : f[i].vm = etcd[k].vm
        BY ONLY <2>4, <3>1, made \in SUBSET taken, LoadedIs, Zenon
      <3>3. obj' = f
        BY <2>3, <3>1, Zenon
      <3> QED
        BY ONLY <3>2, <3>3, Zenon
    <2>6. PsShapes'
      <3>1. PICK n \in Nat : n = Cardinality(taken)
        BY <2>4
      <3>2. next' \in Nat \ {0} /\ DOMAIN obj' \subseteq 1 .. (next' - 1)
        BY <2>3, <2>5, <3>1
      <3> QED
        BY <1>1, <2>5, <3>2 DEF PsShapes
    <2>7. OwedIsListed'
      <3>1. CASE restarts = 0
        <4>1. FirstNames /\ FirstOwed
          BY <3>1 DEF PsInv
        <4>2. ASSUME NEW v \in owed'
              PROVE  \E i \in DOMAIN obj' : obj'[i].vm = v
          <5>1. v \in owed /\ v \notin {etcd[k].vm : k \in DOMAIN etcd \ made}
            BY <2>3, <3>1, <4>2, Zenon
          <5>2. PICK h \in listed : h = v
            BY <4>1, <5>1 DEF PsInv, PsShapes, OwedIsListed, FirstNames
          <5>3. h \in DOMAIN etcd /\ etcd[h].vm = v
            BY <4>1, <5>1, <5>2, Zenon DEF FirstNames, FirstOwed
          <5>4. h \in made
            BY <5>1, <5>3, Zenon
          <5> QED
            BY <2>5, <5>3, <5>4, Zenon
        <4> QED
          BY <1>1, <4>2, Zenon DEF OwedIsListed
      <3>2. CASE restarts # 0
        BY <2>3, <3>2, Zenon DEF OwedIsListed
      <3> QED
        BY <3>1, <3>2
    <2> QED
      BY <1>1, <2>6, <2>7 DEF PsInv
  <1> QED
    BY <1>2, <1>3 DEF Restart

-----------------------------------------------------------------------------
\* Steps that change nothing here.
LEMMA StillInv ==
    ASSUME PsInv, UNCHANGED <<etcd, durable, memory, pcalls, born, restarts, spoiled, owed>>
    PROVE  PsInv'
  <1>1. PsShapes' /\ OwedIsListed'
    BY Zenon DEF PsInv, PsShapes, OwedIsListed, memory
  <1>2. FirstNames => FirstNames'
    BY Zenon DEF FirstNames, memory
  <1>3. FirstOwed => FirstOwed'
    BY Zenon DEF FirstOwed, memory
  <1>4. /\ \A h : Touched(h)' = Touched(h) /\ VMSettled(h)' = VMSettled(h)
        /\ \A c : VMOnCourse(c)' = VMOnCourse(c)
    BY Zenon DEF VMSettled, VMOnCourse, Touched, memory
  <1>5. FirstQuiet => FirstQuiet'
    BY <1>4, Zenon DEF FirstQuiet, memory
  <1> QED
    BY <1>1, <1>2, <1>3, <1>5 DEF PsInv

\* ActionVM, all the ways it may take.
LEMMA ActionInv ==
    ASSUME PsInv, NEW c, NEW h, NEW a, NEW x, NEW y, NEW z, ActionVM(c, h, a, x, y, z)
    PROVE  PsInv'
  <1>1. ASSUME NEW code, Refused(c, code) PROVE PsInv'
    BY <1>1, StillInv DEF Refused, ghosts
  <1>2. CASE /\ CallFree(c) /\ h \in listed
             /\ obj' = [obj EXCEPT ![h].state = Target(a)]
             /\ Begin(c, h, "other", "read", z)
             /\ UNCHANGED <<etcd, durable, listed, next, migrating, born, restarts, owed, gone>>
    <2>1. PICK s : s = Target(a)
      OBVIOUS
    <2>2. PsShapes /\ h \in DOMAIN obj
      BY <1>2 DEF PsInv, PsShapes
    <2>3. Changes(h)
      BY <1>2, <2>1, <2>2, ChangesShown, Zenon
    <2>4. Starts(c, h, "read")
      BY <1>2, BeginStarts
    <2> QED
      BY <1>2, <2>3, <2>4, ChangeInv
  <1> QED
    BY <1>1, <1>2 DEF ActionVM

\* MigrateVM, and a live migration and its end.
LEMMA MigrateInv ==
    ASSUME PsInv, NEW c, NEW h, MigrateVM(c, h) \/ MigrateLive(c, h) \/ LiveMoved(h)
    PROVE  PsInv'
  <1>1. ASSUME NEW code, Refused(c, code) PROVE PsInv'
    BY <1>1, StillInv DEF Refused, ghosts
  <1>2. PsShapes
    BY DEF PsInv
  <1>3. CASE /\ CallFree(c) /\ h \in listed
             /\ obj' \in {obj, [obj EXCEPT ![h].node = Remote]}
             /\ Begin(c, h, "other", "read", GrpcOK)
             /\ UNCHANGED <<etcd, durable, listed, next, migrating, born, restarts, owed, gone>>
    <2>1. Changes(h)
      BY <1>2, <1>3, ChangesShown, Zenon DEF PsShapes
    <2>2. Starts(c, h, "read")
      BY <1>3, BeginStarts
    <2> QED
      BY <1>3, <2>1, <2>2, ChangeInv
  <1>4. CASE /\ h \in listed
             /\ migrating' = migrating \cup {h} /\ spoiled' = spoiled \cup {h}
             /\ UNCHANGED <<etcd, durable, obj, listed, next, pcalls, born, restarts, owed, gone>>
    <2>1. Changes(h) /\ h \in DOMAIN obj
      BY <1>2, <1>4, Zenon DEF PsShapes, Changes
    <2> QED
      BY <1>4, <2>1, LiveInv, Zenon
  <1>5. CASE LiveMoved(h)
    <2>1. h \in DOMAIN obj /\ h \in migrating /\ migrating' = migrating \ {h}
          /\ UNCHANGED <<etcd, durable, listed, next, pcalls, born, restarts, spoiled, owed>>
      BY <1>2, <1>5 DEF LiveMoved, ghosts, PsShapes
    <2>2. Changes(h)
      BY <1>2, <1>5, <2>1, ChangesShown DEF LiveMoved
    <2> QED
      BY <2>1, <2>2, LiveInv, Zenon
  <1> QED
    BY <1>1, <1>3, <1>4, <1>5 DEF MigrateVM, MigrateLive

\* DestroyVM, all the ways it may take.
LEMMA DestroyVMInv ==
    ASSUME PsInv, NEW c, NEW h, NEW x, NEW y, DestroyVM(c, h, x, y)
    PROVE  PsInv'
  <1>1. CASE h \notin listed
    BY <1>1, StillInv, Zenon DEF DestroyVM, Refused, ghosts
  <1>2. CASE h \in listed
    <2>1. PICK pc : pc = IF durable THEN "delete" ELSE "deleted"
      OBVIOUS
    <2>2. Starts(c, h, pc)
      BY <1>2, <2>1, BeginStarts, Zenon DEF DestroyVM
    <2>3. pc \in {"delete", "deleted"} /\ (durable => pc = "delete")
      BY <2>1
    <2> QED
      BY <1>2, <2>2, <2>3, DestroyInv, Zenon DEF DestroyVM
  <1> QED
    BY <1>1, <1>2

\* No step of a caller and no restart disturbs it.
LEMMA PsStepInv == PsInv /\ [PsNext]_psVars => PsInv'
  <1> SUFFICES ASSUME PsInv, [PsNext]_psVars PROVE PsInv'
    OBVIOUS
  <1>1. CASE UNCHANGED psVars
    BY <1>1, StillInv DEF psVars, ghosts
  <1>2. ASSUME NEW c, NEW code, Refused(c, code) PROVE PsInv'
    BY <1>2, StillInv DEF Refused, ghosts
  <1>3. ASSUME NEW c \in Callers, Step(c) PROVE PsInv'
    BY <1>3, EncodeInv, PutStoreInv, AnswerInv, ReadBackInv, DeleteStoreInv, DestroyAnswerInv DEF Step
  <1>4. ASSUME NEW c \in Callers,
               \/ handleCreateVM(c) \/ handleDeployTemplate(c) \/ GrpcCreateVM(c)
        PROVE  PsInv'
    BY <1>2, <1>4, CreateInv, CreateFailsInv DEF handleCreateVM, handleDeployTemplate, GrpcCreateVM
  <1>5. ASSUME NEW c \in Callers,
               \/ handleVMAction(c) \/ GrpcStartVM(c) \/ GrpcStopVM(c) \/ GrpcPauseVM(c) \/ GrpcResumeVM(c)
        PROVE  PsInv'
    BY <1>2, <1>5, ActionInv
    DEF handleVMAction, GrpcStartVM, GrpcStopVM, GrpcPauseVM, GrpcResumeVM, GrpcAction
  <1>6. ASSUME NEW c \in Callers, handleDeleteVM(c) \/ GrpcDestroyVM(c)
        PROVE  PsInv'
    BY <1>2, <1>6, DestroyVMInv DEF handleDeleteVM, GrpcDestroyVM
  <1>7. ASSUME NEW c \in Callers, handleMigrateVM(c) \/ GrpcLiveMigrate(c)
        PROVE  PsInv'
    BY <1>2, <1>7, MigrateInv DEF handleMigrateVM, GrpcLiveMigrate
  <1>8. ASSUME NEW c \in Callers,
               \/ handleGetVM(c) \/ handleListVMs(c) \/ handleListBackends(c)
               \/ GrpcListVMs(c) \/ GrpcGetVM(c)
        PROVE  PsInv'
    BY <1>2, <1>8 DEF handleGetVM, handleListVMs, handleListBackends, GrpcListVMs, GrpcGetVM
  <1>9. ASSUME NEW h \in migrating, LiveMoved(h) PROVE PsInv'
    BY <1>9, MigrateInv
  <1> QED
    BY <1>1, <1>3, <1>4, <1>5, <1>6, <1>7, <1>8, <1>9, RestartInv, Zenon DEF PsNext

\* QuietIsStored
THEOREM QuietVMsAreStored == PsSpec => []QuietIsStored
  <1>1. PsInv => QuietIsStored
    BY Zenon DEF PsInv, QuietIsStored, FirstQuiet, VMSettled
  <1> QED
    BY <1>1, PsInitInv, PsStepInv, PTL DEF PsSpec

\* OwedIsListed
THEOREM StoredVMsComeBack == PsSpec => []OwedIsListed
  <1>1. PsInv => OwedIsListed
    BY DEF PsInv
  <1> QED
    BY <1>1, PsInitInv, PsStepInv, PTL DEF PsSpec
=============================================================================
