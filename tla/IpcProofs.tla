----------------------------- MODULE IpcProofs -----------------------------
(***************************************************************************)
(* Proofs about the IPC FIFO for every depth, every set of words and every *)
(* set of control writes.  The status bits alone are not inductive: that a *)
(* buffer is full or empty after a step depends on its size, and its size  *)
(* on the ring indices staying in range, so the three invariants of module *)
(* Ipc are proved together as IInv.                                        *)
(***************************************************************************)
EXTENDS Ipc, SequenceTheorems, TLAPS

IInv == TypeOK /\ RingsConsistent /\ StatusBitsExact

-----------------------------------------------------------------------------
(* The code's proc^1 is an involution on the two CPUs.                     *)
LEMMA RemoteFacts ==
    \A p \in Procs : /\ Remote(p) \in Procs
                     /\ Remote(p) # p
                     /\ Remote(Remote(p)) = p
                     /\ \A q \in Procs : q = p \/ q = Remote(p)
<1> SUFFICES ASSUME NEW p \in Procs
             PROVE  /\ Remote(p) \in Procs /\ Remote(p) # p
                    /\ Remote(Remote(p)) = p
                    /\ \A q \in Procs : q = p \/ q = Remote(p)
    OBVIOUS
<1>1. PICK a, b \in Procs : a # b /\ Procs = {a, b}
    BY ProcsAssumption
<1>2. \A q \in Procs : Remote(q) \in Procs /\ Remote(q) # q
    BY <1>1 DEF Remote
<1>3. QED
    BY <1>1, <1>2

(* Storing a word in a buffer with room advances tail and size together.   *)
LEMMA PushFacts ==
    ASSUME NEW f \in Fifos, RingOK(f), f.size <= Depth - 1, NEW w \in Words
    PROVE  /\ Push(f, w) \in Fifos
           /\ RingOK(Push(f, w))
           /\ Push(f, w).size = f.size + 1
<1>1. /\ f.buf \in [Slots -> Words] /\ f.head \in Slots /\ f.tail \in Slots
      /\ f.size \in 0 .. Depth - 1
    BY DepthAssumption DEF Fifos
<1>2. Wrap(f.tail + 1) \in Slots
    BY <1>1, DepthAssumption DEF Wrap, Slots
<1>3. [f.buf EXCEPT ![f.tail] = w] \in [Slots -> Words] /\ f.size + 1 \in 0 .. Depth
    BY <1>1, DepthAssumption
<1>4. Push(f, w) \in Fifos
    BY <1>1, <1>2, <1>3 DEF Push, Fifos
<1>5. RingOK(Push(f, w))
    BY <1>1, DepthAssumption DEF Push, RingOK, Wrap, Slots
<1>6. QED
    BY <1>4, <1>5 DEF Push

(* Taking the oldest word advances head and leaves tail.                   *)
LEMMA PopFacts ==
    ASSUME NEW f \in Fifos, RingOK(f), f.size # 0
    PROVE  /\ Pop(f) \in Fifos
           /\ RingOK(Pop(f))
           /\ Pop(f).size = f.size - 1
           /\ f.buf[f.head] \in Words
<1>1. /\ f.buf \in [Slots -> Words] /\ f.head \in Slots /\ f.tail \in Slots
      /\ f.size \in 1 .. Depth
    BY DepthAssumption DEF Fifos
<1>2. Wrap(f.head + 1) \in Slots
    BY <1>1, DepthAssumption DEF Wrap, Slots
<1>3. Pop(f) \in Fifos
    BY <1>1, <1>2, DepthAssumption DEF Pop, Fifos
<1>4. RingOK(Pop(f))
    BY <1>1, DepthAssumption DEF Pop, RingOK, Wrap, Slots
<1>5. QED
    BY <1>1, <1>3, <1>4 DEF Pop

(* SENDCLEAR leaves an empty buffer, whatever was in it.                   *)
LEMMA ClearedFacts ==
    ASSUME NEW f \in Fifos
    PROVE  /\ Cleared(f) \in Fifos
           /\ RingOK(Cleared(f))
           /\ Cleared(f).size = 0
BY DepthAssumption DEF Cleared, Fifos, RingOK, Slots

(* The buffer of IPC_FIFOinit.                                             *)
LEMMA EmptyFacts ==
    EmptyFifo \in Fifos /\ RingOK(EmptyFifo) /\ EmptyFifo.size = 0
BY DepthAssumption, WordsAssumption DEF EmptyFifo, Fifos, RingOK, Slots

-----------------------------------------------------------------------------
(* After IPC_FIFOinit both buffers are empty and both registers say so.    *)
LEMMA InitIInv == Init => IInv
<1> SUFFICES ASSUME Init PROVE IInv
    OBVIOUS
<1>1. TypeOK
    BY EmptyFacts, WordsAssumption DEF Init, TypeOK, CntBits, StatusBits
<1>2. RingsConsistent
    BY EmptyFacts DEF Init, RingsConsistent
<1>3. StatusBitsExact
    BY EmptyFacts, RemoteFacts, DepthAssumption DEF Init, StatusBitsExact
<1>4. QED
    BY <1>1, <1>2, <1>3 DEF IInv

(* A send, accepted or refused by IPC_FIFOsend, keeps the invariant.       *)
LEMMA SendIInv ==
    ASSUME IInv, NEW p \in Procs, NEW w \in Words, IPC_FIFOsend(p, w)
    PROVE  IInv'
<1> DEFINE r == Remote(p)
<1>0. /\ fifo \in [Procs -> Fifos] /\ cnt \in [Procs -> SUBSET CntBits]
      /\ reg_IF \in [Procs -> SUBSET IpcIrqs] /\ readVal \in Words
      /\ r \in Procs /\ r # p /\ Remote(r) = p
      /\ \A q \in Procs : q = p \/ q = r
      /\ \A q \in Procs : RingOK(fifo[q]) /\ fifo[q].size \in 0 .. Depth
    BY RemoteFacts DEF IInv, TypeOK, RingsConsistent, Fifos
<1>1. CASE SendRefused(p)
    <2>1. TypeOK'
        BY <1>0, <1>1 DEF SendRefused, TypeOK, CntBits
    <2>2. RingsConsistent'
        BY <1>0, <1>1 DEF SendRefused, RingsConsistent
    <2>3. StatusBitsExact'
        BY <1>0, <1>1 DEF SendRefused, StatusBitsExact, IInv
    <2>4. QED
        BY <2>1, <2>2, <2>3 DEF IInv
<1>2. CASE fifo[p].size <= Depth - 1 /\ SendAccepted(p, w)
    <2> DEFINE f == Push(fifo[p], w)
    <2>1. f \in Fifos /\ RingOK(f) /\ f.size = fifo[p].size + 1
        BY <1>0, <1>2, PushFacts
    <2>2. fifo' = [fifo EXCEPT ![p] = f]
        BY <1>0, <1>2 DEF SendAccepted
    <2>3. TypeOK'
        <3>1. fifo' \in [Procs -> Fifos]
            BY <1>0, <2>1, <2>2
        <3>2. cnt' \in [Procs -> SUBSET CntBits]
            BY <1>0, <1>2 DEF SendAccepted, MaskBFFC, MaskBCFF, Bits, CntBits, StatusBits
        <3>3. reg_IF' \in [Procs -> SUBSET IpcIrqs]
            BY <1>0, <1>2 DEF SendAccepted, setIF, Bits, IpcIrqs
        <3>4. QED
            BY <1>0, <1>2, <3>1, <3>2, <3>3 DEF TypeOK, SendAccepted
    <2>4. RingsConsistent'
        BY <1>0, <2>1, <2>2 DEF RingsConsistent
    <2>5. /\ cnt'[p] = MaskBFFC(cnt[p]) \cup Bits(fifo[p].size + 1 > Depth - 1, {"SENDFULL"})
          /\ cnt'[r] = MaskBCFF(cnt[r]) \cup Bits(fifo[p].size + 1 > Depth - 1, {"RECVFULL"})
        BY <1>0, <1>2 DEF SendAccepted
    <2>6. StatusBitsExact'
        <3>1. fifo'[p].size = fifo[p].size + 1 /\ fifo'[r] = fifo[r]
            BY <1>0, <2>1, <2>2
        <3>2. /\ "SENDEMPTY" \in cnt'[p] <=> fifo'[p].size = 0
              /\ "SENDFULL" \in cnt'[p] <=> fifo'[p].size = Depth
              /\ "RECVEMPTY" \in cnt'[p] <=> fifo'[r].size = 0
              /\ "RECVFULL" \in cnt'[p] <=> fifo'[r].size = Depth
            BY <1>0, <1>2, <2>5, <3>1, DepthAssumption DEF MaskBFFC, Bits, IInv, StatusBitsExact
        <3>3. /\ "SENDEMPTY" \in cnt'[r] <=> fifo'[r].size = 0
              /\ "SENDFULL" \in cnt'[r] <=> fifo'[r].size = Depth
              /\ "RECVEMPTY" \in cnt'[r] <=> fifo'[p].size = 0
              /\ "RECVFULL" \in cnt'[r] <=> fifo'[p].size = Depth
            BY <1>0, <1>2, <2>5, <3>1, DepthAssumption DEF MaskBCFF, Bits, IInv, StatusBitsExact
        <3>4. QED
            BY <1>0, <3>2, <3>3 DEF StatusBitsExact
    <2>7. QED
        BY <2>3, <2>4, <2>6 DEF IInv
<1>3. QED
    BY <1>1, <1>2 DEF IPC_FIFOsend

(* A read of the receive port, in each of the three ways IPC_FIFOrecv can  *)
(* end, keeps it.                                                          *)
LEMMA RecvIInv ==
    ASSUME IInv, NEW p \in Procs, IPC_FIFOrecv(p)
    PROVE  IInv'
<1> DEFINE r == Remote(p)
<1>0. /\ fifo \in [Procs -> Fifos] /\ cnt \in [Procs -> SUBSET CntBits]
      /\ reg_IF \in [Procs -> SUBSET IpcIrqs] /\ readVal \in Words
      /\ r \in Procs /\ r # p /\ Remote(r) = p
      /\ \A q \in Procs : q = p \/ q = r
      /\ \A q \in Procs : RingOK(fifo[q]) /\ fifo[q].size \in 0 .. Depth
    BY RemoteFacts DEF IInv, TypeOK, RingsConsistent, Fifos
<1>1. CASE RecvDisabled(p) \/ RecvRefused(p)
    <2>1. fifo' = fifo /\ reg_IF' = reg_IF /\ readVal' \in Words
        BY <1>1, WordsAssumption DEF RecvDisabled, RecvRefused
    <2>2. cnt' = cnt \/ cnt' = [cnt EXCEPT ![p] = @ \cup {"FIFOERROR"}]
        BY <1>1 DEF RecvDisabled, RecvRefused
    <2>3. TypeOK'
        BY <1>0, <2>1, <2>2 DEF TypeOK, CntBits
    <2>4. RingsConsistent'
        BY <1>0, <2>1 DEF RingsConsistent
    <2>5. StatusBitsExact'
        BY <1>0, <2>1, <2>2 DEF StatusBitsExact, IInv
    <2>6. QED
        BY <2>3, <2>4, <2>5 DEF IInv
<1>2. CASE fifo[r].size # 0 /\ RecvAccepted(p)
    <2> DEFINE f == Pop(fifo[r])
    <2>1. /\ f \in Fifos /\ RingOK(f) /\ f.size = fifo[r].size - 1
          /\ fifo[r].buf[fifo[r].head] \in Words
        BY <1>0, <1>2, PopFacts
    <2>2. fifo' = [fifo EXCEPT ![r] = f]
        BY <1>0, <1>2 DEF RecvAccepted
    <2>3. TypeOK'
        <3>1. fifo' \in [Procs -> Fifos]
            BY <1>0, <2>1, <2>2
        <3>2. cnt' \in [Procs -> SUBSET CntBits]
            BY <1>0, <1>2 DEF RecvAccepted, MaskBFFC, MaskBCFF, Bits, CntBits, StatusBits
        <3>3. reg_IF' \in [Procs -> SUBSET IpcIrqs]
            BY <1>0, <1>2 DEF RecvAccepted, setIF, Bits, IpcIrqs
        <3>4. QED
            BY <1>2, <2>1, <3>1, <3>2, <3>3 DEF TypeOK, RecvAccepted
    <2>4. RingsConsistent'
        BY <1>0, <2>1, <2>2 DEF RingsConsistent
    <2>5. /\ cnt'[p] = MaskBCFF(cnt[p]) \cup Bits(fifo[r].size - 1 = 0, {"RECVEMPTY"})
          /\ cnt'[r] = MaskBFFC(cnt[r]) \cup Bits(fifo[r].size - 1 = 0, {"SENDEMPTY"})
        BY <1>0, <1>2 DEF RecvAccepted
    <2>6. StatusBitsExact'
        <3>1. fifo'[r].size = fifo[r].size - 1 /\ fifo'[p] = fifo[p]
            BY <1>0, <2>1, <2>2
        <3>2. /\ "SENDEMPTY" \in cnt'[p] <=> fifo'[p].size = 0
              /\ "SENDFULL" \in cnt'[p] <=> fifo'[p].size = Depth
              /\ "RECVEMPTY" \in cnt'[p] <=> fifo'[r].size = 0
              /\ "RECVFULL" \in cnt'[p] <=> fifo'[r].size = Depth
            BY <1>0, <1>2, <2>5, <3>1, DepthAssumption DEF MaskBCFF, Bits, IInv, StatusBitsExact
        <3>3. /\ "SENDEMPTY" \in cnt'[r] <=> fifo'[r].size = 0
              /\ "SENDFULL" \in cnt'[r] <=> fifo'[r].size = Depth
              /\ "RECVEMPTY" \in cnt'[r] <=> fifo'[p].size = 0
              /\ "RECVFULL" \in cnt'[r] <=> fifo'[p].size = Depth
            BY <1>0, <1>2, <2>5, <3>1, DepthAssumption DEF MaskBFFC, Bits, IInv, StatusBitsExact
        <3>4. QED
            BY <1>0, <3>2, <3>3 DEF StatusBitsExact
    <2>7. QED
        BY <2>3, <2>4, <2>6 DEF IInv
<1>3. QED
    BY <1>1, <1>2 DEF IPC_FIFOrecv

(* A write of IPCFIFOCNT keeps it, also one that empties the send buffer.  *)
LEMMA CntIInv ==
    ASSUME IInv, NEW p \in Procs, NEW val \in CntWrites, IPC_FIFOcnt(p, val)
    PROVE  IInv'
<1> DEFINE r == Remote(p)
           c == CntAfter(cnt[p], val)
<1>0. /\ fifo \in [Procs -> Fifos] /\ cnt \in [Procs -> SUBSET CntBits]
      /\ reg_IF \in [Procs -> SUBSET IpcIrqs] /\ readVal \in Words
      /\ r \in Procs /\ r # p /\ Remote(r) = p
      /\ \A q \in Procs : q = p \/ q = r
      /\ \A q \in Procs : RingOK(fifo[q]) /\ fifo[q].size \in 0 .. Depth
    BY RemoteFacts DEF IInv, TypeOK, RingsConsistent, Fifos
<1>1. /\ Cleared(fifo[p]) \in Fifos /\ RingOK(Cleared(fifo[p])) /\ Cleared(fifo[p]).size = 0
    BY <1>0, ClearedFacts
<1>2. fifo' = IF "SENDCLEAR" \in val THEN [fifo EXCEPT ![p] = Cleared(fifo[p])] ELSE fifo
    BY DEF IPC_FIFOcnt
<1>3. cnt' = [q \in Procs |-> IF q = p THEN c ELSE RemoteCntAfter(cnt[q], val)]
    BY DEF IPC_FIFOcnt
<1>4. TypeOK'
    <2>1. fifo' \in [Procs -> Fifos]
        BY <1>0, <1>1, <1>2
    <2>2. c \subseteq CntBits
        BY <1>0 DEF CntAfter, CntBits, StatusBits
    <2>3. \A q \in Procs : RemoteCntAfter(cnt[q], val) \subseteq CntBits
        BY <1>0 DEF RemoteCntAfter, CntBits, StatusBits
    <2>4. cnt' \in [Procs -> SUBSET CntBits]
        BY <1>3, <2>2, <2>3
    <2>5. reg_IF' \in [Procs -> SUBSET IpcIrqs]
        BY <1>0 DEF IPC_FIFOcnt, setIF, CntIrqs, Bits, IpcIrqs
    <2>6. QED
        BY <1>0, <2>1, <2>4, <2>5 DEF TypeOK, IPC_FIFOcnt
<1>5. RingsConsistent'
    BY <1>0, <1>1, <1>2 DEF RingsConsistent
<1>6. StatusBitsExact'
    <2>1. /\ cnt'[p] = c /\ cnt'[r] = RemoteCntAfter(cnt[r], val)
          /\ fifo'[p].size = IF "SENDCLEAR" \in val THEN 0 ELSE fifo[p].size
          /\ fifo'[r] = fifo[r]
        BY <1>0, <1>1, <1>2, <1>3
    <2>2. /\ "SENDEMPTY" \in cnt'[p] <=> fifo'[p].size = 0
          /\ "SENDFULL" \in cnt'[p] <=> fifo'[p].size = Depth
          /\ "RECVEMPTY" \in cnt'[p] <=> fifo'[r].size = 0
          /\ "RECVFULL" \in cnt'[p] <=> fifo'[r].size = Depth
        BY <1>0, <2>1, DepthAssumption DEF CntAfter, Writeable, IInv, StatusBitsExact
    <2>3. /\ "SENDEMPTY" \in cnt'[r] <=> fifo'[r].size = 0
          /\ "SENDFULL" \in cnt'[r] <=> fifo'[r].size = Depth
          /\ "RECVEMPTY" \in cnt'[r] <=> fifo'[p].size = 0
          /\ "RECVFULL" \in cnt'[r] <=> fifo'[p].size = Depth
        BY <1>0, <2>1, DepthAssumption DEF RemoteCntAfter, IInv, StatusBitsExact
    <2>4. QED
        BY <1>0, <2>2, <2>3 DEF StatusBitsExact
<1>7. QED
    BY <1>4, <1>5, <1>6 DEF IInv

(* MMU_Reset establishes it again.                                         *)
LEMMA ResetIInv == IInv /\ MMU_Reset => IInv'
<1> SUFFICES ASSUME IInv, MMU_Reset PROVE IInv'
    OBVIOUS
<1>1. TypeOK'
    BY EmptyFacts DEF IInv, MMU_Reset, TypeOK, CntBits, StatusBits
<1>2. RingsConsistent'
    BY EmptyFacts DEF MMU_Reset, RingsConsistent
<1>3. StatusBitsExact'
    BY EmptyFacts, RemoteFacts, DepthAssumption DEF MMU_Reset, StatusBitsExact
<1>4. QED
    BY <1>1, <1>2, <1>3 DEF IInv

(* Acknowledging an interrupt touches neither buffers nor status bits.     *)
LEMMA AckIInv ==
    ASSUME IInv, NEW p \in Procs, NEW irq \in IpcIrqs, REG_IF_Write(p, {irq})
    PROVE  IInv'
<1>1. fifo' = fifo /\ cnt' = cnt /\ readVal' = readVal
    BY DEF REG_IF_Write
<1>2. reg_IF' \in [Procs -> SUBSET IpcIrqs]
    BY DEF REG_IF_Write, IInv, TypeOK
<1>3. QED
    BY <1>1, <1>2 DEF IInv, TypeOK, RingsConsistent, StatusBitsExact

(* The invariant is inductive: every access of either CPU keeps it.        *)
LEMMA NextIInv == IInv /\ [Next]_vars => IInv'
<1> SUFFICES ASSUME IInv, [Next]_vars PROVE IInv'
    OBVIOUS
<1>1. CASE UNCHANGED vars
    BY <1>1 DEF vars, IInv, TypeOK, RingsConsistent, StatusBitsExact
<1>2. CASE Next
    BY <1>2, SendIInv, RecvIInv, CntIInv, AckIInv, ResetIInv DEF Next
<1>3. QED
    BY <1>1, <1>2

(* The joint invariant holds in every reachable state, for every depth of   *)
(* the rings and every sequence of register accesses by the two CPUs.      *)
THEOREM Invariance == Spec => []IInv
BY InitIInv, NextIInv, PTL DEF Spec

(* Registers, buffers and indices keep their types: in particular head and *)
(* tail never leave buf[16].                                               *)
THEOREM TypeCorrect == Spec => []TypeOK
<1>1. IInv => TypeOK
    BY DEF IInv
<1>2. QED
    BY <1>1, Invariance, PTL

(* The cached status bits of both CPUs are exact after every access.       *)
THEOREM StatusBitsAlwaysExact == Spec => []StatusBitsExact
<1>1. IInv => StatusBitsExact
    BY DEF IInv
<1>2. QED
    BY <1>1, Invariance, PTL

(* Head, tail and size of each ring buffer always describe the same words. *)
THEOREM RingsAlwaysConsistent == Spec => []RingsConsistent
<1>1. IInv => RingsConsistent
    BY DEF IInv
<1>2. QED
    BY <1>1, Invariance, PTL

-----------------------------------------------------------------------------
(* Every step that makes an interrupt condition true latches its flag.     *)
LEMMA EdgeStepLemma == IInv /\ [Next]_vars => [EdgeStep]_vars
<1> SUFFICES ASSUME IInv, Next, NEW q \in Procs
             PROVE  /\ ~SendIrqCondition(q) /\ SendIrqCondition(q)' => "SENDEMPTY" \in reg_IF'[q]
                    /\ ~RecvIrqCondition(q) /\ RecvIrqCondition(q)' => "RECVNONEMPTY" \in reg_IF'[q]
    BY DEF EdgeStep
<1>0. /\ fifo \in [Procs -> Fifos] /\ cnt \in [Procs -> SUBSET CntBits]
      /\ reg_IF \in [Procs -> SUBSET IpcIrqs]
      /\ \A p \in Procs : fifo[p].size \in 0 .. Depth
      /\ \A p \in Procs : fifo'[p].size \in 0 .. Depth
      /\ fifo' \in [Procs -> Fifos]
    BY NextIInv DEF IInv, TypeOK, Fifos
<1>1. /\ "SENDEMPTY" \in cnt'[q] <=> fifo'[q].size = 0
      /\ "RECVEMPTY" \in cnt'[q] <=> fifo'[Remote(q)].size = 0
    BY NextIInv DEF IInv, StatusBitsExact
<1>2. ASSUME NEW p \in Procs, NEW w \in Words, IPC_FIFOsend(p, w)
      PROVE  /\ ~SendIrqCondition(q) /\ SendIrqCondition(q)' => "SENDEMPTY" \in reg_IF'[q]
             /\ ~RecvIrqCondition(q) /\ RecvIrqCondition(q)' => "RECVNONEMPTY" \in reg_IF'[q]
    <2>1. CASE SendRefused(p)
        BY <1>0, <2>1, RemoteFacts DEF SendRefused, SendIrqCondition, RecvIrqCondition
    <2>2. CASE fifo[p].size <= Depth - 1 /\ SendAccepted(p, w)
        <3>1. /\ fifo' = [fifo EXCEPT ![p] = Push(fifo[p], w)]
              /\ Push(fifo[p], w).size = fifo[p].size + 1
            BY <1>0, <2>2, PushFacts DEF SendAccepted, IInv, RingsConsistent
        <3>2. "SENDIRQEN" \in cnt'[q] => "SENDIRQEN" \in cnt[q]
            BY <1>0, <2>2 DEF SendAccepted, MaskBFFC, MaskBCFF, Bits
        <3>3. "RECVIRQEN" \in cnt'[q] => "RECVIRQEN" \in cnt[q]
            BY <1>0, <2>2 DEF SendAccepted, MaskBFFC, MaskBCFF, Bits
        <3>4. ~SendIrqCondition(q) => ~SendIrqCondition(q)'
            BY <1>0, <3>1, <3>2 DEF SendIrqCondition
        <3>5. CASE q = Remote(p)
            <4>1. Remote(q) = p
                BY <3>5, RemoteFacts
            <4>2. "RECVIRQEN" \in cnt[q] => "RECVNONEMPTY" \in reg_IF'[q]
                BY <1>0, <2>2, <3>5 DEF SendAccepted, setIF, Bits
            <4>3. QED
                BY <3>3, <3>4, <4>2 DEF RecvIrqCondition
        <3>6. CASE q = p
            <4>1. fifo'[Remote(q)] = fifo[Remote(q)]
                BY <1>0, <3>1, <3>6, RemoteFacts
            <4>2. QED
                BY <3>3, <3>4, <4>1 DEF RecvIrqCondition
        <3>7. QED
            BY <3>5, <3>6, RemoteFacts
    <2>3. QED
        BY <1>2, <2>1, <2>2 DEF IPC_FIFOsend
<1>3. ASSUME NEW p \in Procs, IPC_FIFOrecv(p)
      PROVE  /\ ~SendIrqCondition(q) /\ SendIrqCondition(q)' => "SENDEMPTY" \in reg_IF'[q]
             /\ ~RecvIrqCondition(q) /\ RecvIrqCondition(q)' => "RECVNONEMPTY" \in reg_IF'[q]
    <2>1. CASE RecvDisabled(p) \/ RecvRefused(p)
        BY <1>0, <2>1, RemoteFacts
           DEF RecvDisabled, RecvRefused, SendIrqCondition, RecvIrqCondition
    <2>2. CASE fifo[Remote(p)].size # 0 /\ RecvAccepted(p)
        <3> DEFINE r == Remote(p)
        <3>0. r \in Procs /\ r # p /\ Remote(r) = p /\ (q = p \/ q = r)
            BY RemoteFacts
        <3>1. /\ fifo' = [fifo EXCEPT ![r] = Pop(fifo[r])]
              /\ Pop(fifo[r]).size = fifo[r].size - 1
            BY <1>0, <2>2, <3>0, PopFacts DEF RecvAccepted, IInv, RingsConsistent
        <3>2. "SENDIRQEN" \in cnt'[q] => "SENDIRQEN" \in cnt[q]
            BY <1>0, <2>2 DEF RecvAccepted, MaskBFFC, MaskBCFF, Bits
        <3>3. "RECVIRQEN" \in cnt'[q] => "RECVIRQEN" \in cnt[q]
            BY <1>0, <2>2 DEF RecvAccepted, MaskBFFC, MaskBCFF, Bits
        <3>4. CASE q = p
            BY <1>0, <3>0, <3>1, <3>2, <3>3, <3>4 DEF SendIrqCondition, RecvIrqCondition
        <3>5. CASE q = r
            <4>1. fifo[r].size - 1 = 0 /\ "SENDIRQEN" \in cnt[r] => "SENDEMPTY" \in reg_IF'[r]
                BY <1>0, <2>2, <3>0 DEF RecvAccepted, setIF, Bits
            <4>2. fifo'[r].size = fifo[r].size - 1 /\ fifo'[p] = fifo[p]
                BY <1>0, <3>0, <3>1
            <4>3. QED
                BY <3>0, <3>2, <3>3, <3>5, <4>1, <4>2 DEF SendIrqCondition, RecvIrqCondition
        <3>6. QED
            BY <3>0, <3>4, <3>5
    <2>3. QED
        BY <1>3, <2>1, <2>2 DEF IPC_FIFOrecv
<1>4. ASSUME NEW p \in Procs, NEW val \in CntWrites, IPC_FIFOcnt(p, val)
      PROVE  /\ ~SendIrqCondition(q) /\ SendIrqCondition(q)' => "SENDEMPTY" \in reg_IF'[q]
             /\ ~RecvIrqCondition(q) /\ RecvIrqCondition(q)' => "RECVNONEMPTY" \in reg_IF'[q]
    <2>1. CASE q = p
        <3>1. cnt'[q] = CntAfter(cnt[p], val)
            BY <1>0, <1>4, <2>1 DEF IPC_FIFOcnt
        <3>2. CntIrqs(cnt'[q]) \subseteq reg_IF'[q]
            BY <1>0, <1>4, <2>1, <3>1 DEF IPC_FIFOcnt, setIF
        <3>3. QED
            BY <1>1, <3>2 DEF CntIrqs, Bits, SendIrqCondition, RecvIrqCondition
    <2>2. CASE q = Remote(p)
        <3>0. Remote(q) = p /\ q # p
            BY <2>2, RemoteFacts
        <3>1. cnt'[q] = RemoteCntAfter(cnt[q], val) /\ fifo'[q] = fifo[q]
            BY <1>0, <1>4, <3>0 DEF IPC_FIFOcnt
        <3>2. fifo'[p].size = fifo[p].size \/ fifo'[p].size = 0
            BY <1>0, <1>4, ClearedFacts DEF IPC_FIFOcnt
        <3>3. QED
            BY <3>0, <3>1, <3>2 DEF RemoteCntAfter, SendIrqCondition, RecvIrqCondition
    <2>3. QED
        BY <2>1, <2>2, RemoteFacts
<1>5. ASSUME NEW p \in Procs, NEW irq \in IpcIrqs, REG_IF_Write(p, {irq})
      PROVE  /\ ~SendIrqCondition(q) /\ SendIrqCondition(q)' => "SENDEMPTY" \in reg_IF'[q]
             /\ ~RecvIrqCondition(q) /\ RecvIrqCondition(q)' => "RECVNONEMPTY" \in reg_IF'[q]
    BY <1>5 DEF REG_IF_Write, SendIrqCondition, RecvIrqCondition
<1>6. CASE MMU_Reset
    BY <1>6 DEF MMU_Reset, SendIrqCondition, RecvIrqCondition
<1>7. QED
    BY <1>2, <1>3, <1>4, <1>5, <1>6 DEF Next

(* However an interrupt condition comes to hold, its flag is latched.      *)
THEOREM EdgesAlwaysLatched == Spec => EdgesLatched
BY Invariance, EdgeStepLemma, PTL DEF Spec, EdgesLatched

-----------------------------------------------------------------------------
(* Refinement: the contents of a ring buffer as a sequence.                *)

(* Slot of the i-th oldest word.                                           *)
Slot(f, i) == IF f.head + i - 1 > Depth - 1 THEN f.head + i - 1 - Depth ELSE f.head + i - 1

(* The words of a ring buffer form a sequence as long as its size.         *)
LEMMA ContentsSeq ==
    ASSUME NEW f \in Fifos
    PROVE  /\ Contents(f) \in Seq(Words)
           /\ Len(Contents(f)) = f.size
           /\ \A i \in 1 .. f.size : Slot(f, i) \in Slots /\ Contents(f)[i] = f.buf[Slot(f, i)]
<1>1. /\ f.buf \in [Slots -> Words] /\ f.head \in 0 .. Depth - 1 /\ f.size \in 0 .. Depth
    BY DEF Fifos, Slots
<1>2. \A i \in 1 .. f.size : Slot(f, i) \in Slots
    BY <1>1, DepthAssumption DEF Slot, Slots
<1>3. Contents(f) = [i \in 1 .. f.size |-> f.buf[Slot(f, i)]]
    BY DEF Contents, Slot
<1>4. Contents(f) \in [1 .. f.size -> Words]
    BY <1>1, <1>2, <1>3
<1>5. f.size \in Nat
    BY <1>1, DepthAssumption
<1>6. Contents(f) \in Seq(Words) /\ Len(Contents(f)) = f.size
    BY <1>4, <1>5
<1>7. QED
    BY <1>2, <1>3, <1>6

(* Storing at the tail appends to the words of the buffer, across a wrap   *)
(* of the index.                                                           *)
LEMMA ContentsPush ==
    ASSUME NEW f \in Fifos, RingOK(f), f.size <= Depth - 1, NEW w \in Words
    PROVE  Contents(Push(f, w)) = Append(Contents(f), w)
<1> DEFINE g == Push(f, w)
<1>1. /\ f.buf \in [Slots -> Words] /\ f.head \in 0 .. Depth - 1 /\ f.size \in 0 .. Depth
      /\ f.tail \in Slots /\ f.size \in Nat
    BY DepthAssumption DEF Fifos, Slots
<1>2. g \in Fifos /\ g.size = f.size + 1 /\ g.head = f.head
    BY PushFacts DEF Push
<1>3. g.buf = [f.buf EXCEPT ![f.tail] = w]
    BY DEF Push
<1>4. ASSUME NEW i \in 1 .. f.size
      PROVE  Contents(g)[i] = Contents(f)[i]
    <2>1. Slot(g, i) = Slot(f, i)
        BY <1>2 DEF Slot
    <2>2. Slot(f, i) # f.tail
        BY <1>1, DepthAssumption DEF Slot, RingOK
    <2>3. Slot(f, i) \in Slots
        BY ContentsSeq
    <2>4. g.buf[Slot(f, i)] = f.buf[Slot(f, i)]
        BY <1>1, <1>3, <2>2, <2>3
    <2>5. i \in 1 .. g.size
        BY <1>1, <1>2
    <2>6. QED
        BY <1>2, <2>1, <2>4, <2>5, ContentsSeq
<1>5. Contents(g)[f.size + 1] = w
    <2>1. Slot(g, f.size + 1) = f.tail
        BY <1>1, <1>2, DepthAssumption DEF Slot, RingOK
    <2>2. f.size + 1 \in 1 .. g.size
        BY <1>1, <1>2
    <2>3. Contents(g)[f.size + 1] = g.buf[f.tail]
        BY <1>2, <2>1, <2>2, ContentsSeq
    <2>4. QED
        BY <1>1, <1>3, <2>3
<1>6. /\ Contents(f) \in Seq(Words) /\ Len(Contents(f)) = f.size
      /\ Contents(g) \in Seq(Words) /\ Len(Contents(g)) = f.size + 1
    BY <1>2, ContentsSeq
<1>7. /\ Append(Contents(f), w) \in Seq(Words)
      /\ Len(Append(Contents(f), w)) = f.size + 1
      /\ \A i \in 1 .. f.size : Append(Contents(f), w)[i] = Contents(f)[i]
      /\ Append(Contents(f), w)[f.size + 1] = w
    BY <1>6, AppendProperties
<1>8. \A i \in 1 .. f.size + 1 : Contents(g)[i] = Append(Contents(f), w)[i]
    BY <1>1, <1>4, <1>5, <1>7
<1>9. QED
    BY <1>6, <1>7, <1>8, SeqEqual

(* Advancing the head removes the oldest word, which is the one that is    *)
(* read.                                                                   *)
LEMMA ContentsPop ==
    ASSUME NEW f \in Fifos, RingOK(f), f.size # 0
    PROVE  /\ Contents(f) # << >>
           /\ Head(Contents(f)) = f.buf[f.head]
           /\ Contents(Pop(f)) = Tail(Contents(f))
<1> DEFINE g == Pop(f)
<1>1. /\ f.buf \in [Slots -> Words] /\ f.head \in 0 .. Depth - 1 /\ f.size \in 1 .. Depth
      /\ f.size \in Nat
    BY DepthAssumption DEF Fifos, Slots
<1>2. g \in Fifos /\ g.size = f.size - 1 /\ g.head = Wrap(f.head + 1) /\ g.buf = f.buf
    BY PopFacts DEF Pop
<1>3. /\ Contents(f) \in Seq(Words) /\ Len(Contents(f)) = f.size
      /\ Contents(g) \in Seq(Words) /\ Len(Contents(g)) = f.size - 1
    BY <1>2, ContentsSeq
<1>4. Contents(f) # << >>
    BY <1>1, <1>3, EmptySeq
<1>5. Contents(f)[1] = f.buf[f.head]
    <2>1. Slot(f, 1) = f.head
        BY <1>1, DepthAssumption DEF Slot
    <2>2. 1 \in 1 .. f.size
        BY <1>1
    <2>3. QED
        BY <2>1, <2>2, ContentsSeq
<1>6. Head(Contents(f)) = f.buf[f.head]
    BY <1>3, <1>4, <1>5
<1>7. /\ Tail(Contents(f)) \in Seq(Words) /\ Len(Tail(Contents(f))) = f.size - 1
      /\ \A i \in 1 .. f.size - 1 : Tail(Contents(f))[i] = Contents(f)[i + 1]
    BY <1>3, <1>4, HeadTailProperties
<1>8. ASSUME NEW i \in 1 .. f.size - 1
      PROVE  Contents(g)[i] = Contents(f)[i + 1]
    <2>1. Slot(g, i) = Slot(f, i + 1)
        BY <1>1, <1>2, DepthAssumption DEF Slot, Wrap
    <2>2. i + 1 \in 1 .. f.size /\ i \in 1 .. g.size
        BY <1>1, <1>2
    <2>3. QED
        BY <1>2, <2>1, <2>2, ContentsSeq
<1>9. Contents(g) = Tail(Contents(f))
    BY <1>3, <1>7, <1>8, SeqEqual
<1>10. QED
    BY <1>4, <1>6, <1>9

(* A buffer of size 0 holds no words, wherever its indices are.            *)
LEMMA ContentsEmpty ==
    ASSUME NEW f \in Fifos, f.size = 0
    PROVE  Contents(f) = << >>
<1>1. Contents(f) \in Seq(Words) /\ Len(Contents(f)) = 0
    BY ContentsSeq
<1>2. QED
    BY <1>1, EmptySeq

(* The mapped channels.                                                    *)
Chan == [p \in Procs |-> Contents(fifo[p])]

(* The reset state maps to two empty channels.                             *)
LEMMA RefineInit == Init => AbstractChannel!ChanInit
<1> SUFFICES ASSUME Init PROVE AbstractChannel!ChanInit
    OBVIOUS
<1>1. \A p \in Procs : Contents(fifo[p]) = << >>
    BY EmptyFacts, ContentsEmpty DEF Init
<1>2. QED
    BY <1>1, WordsAssumption DEF Init, AbstractChannel!ChanInit

(* Each access maps to one step of the abstract channels or to none.       *)
LEMMA RefineNext == IInv /\ [Next]_vars => [AbstractChannel!ChanNext]_(AbstractChannel!chanVars)
<1> SUFFICES ASSUME IInv, [Next]_vars
             PROVE  AbstractChannel!ChanNext \/ (Chan' = Chan /\ readVal' = readVal)
    BY DEF AbstractChannel!chanVars, Chan
<1>0. /\ fifo \in [Procs -> Fifos]
      /\ \A p \in Procs : fifo[p] \in Fifos /\ RingOK(fifo[p]) /\ fifo[p].size \in 0 .. Depth
    BY DEF IInv, TypeOK, RingsConsistent, Fifos
<1>1. CASE UNCHANGED vars
    BY <1>1 DEF vars, Chan
<1>2. ASSUME NEW p \in Procs, NEW w \in Words, IPC_FIFOsend(p, w)
      PROVE  AbstractChannel!ChanNext \/ (Chan' = Chan /\ readVal' = readVal)
    <2>1. CASE SendRefused(p)
        BY <2>1 DEF SendRefused, Chan
    <2>2. CASE fifo[p].size <= Depth - 1 /\ SendAccepted(p, w)
        <3>1. fifo' = [fifo EXCEPT ![p] = Push(fifo[p], w)] /\ readVal' = readVal
            BY <1>0, <2>2 DEF SendAccepted
        <3>2. Contents(Push(fifo[p], w)) = Append(Contents(fifo[p]), w)
            BY <1>0, <2>2, ContentsPush
        <3>3. Len(Chan[p]) < Depth
            BY <1>0, <2>2, ContentsSeq, DepthAssumption DEF Chan
        <3>4. Chan' = [Chan EXCEPT ![p] = Append(Chan[p], w)]
            BY <1>0, <3>1, <3>2 DEF Chan
        <3>5. AbstractChannel!ChanSend(p, w)
            BY <3>1, <3>3, <3>4 DEF AbstractChannel!ChanSend, Chan
        <3>6. QED
            BY <3>5 DEF AbstractChannel!ChanNext
    <2>3. QED
        BY <1>2, <2>1, <2>2 DEF IPC_FIFOsend
<1>3. ASSUME NEW p \in Procs, IPC_FIFOrecv(p)
      PROVE  AbstractChannel!ChanNext \/ (Chan' = Chan /\ readVal' = readVal)
    <2>1. CASE RecvDisabled(p) \/ RecvRefused(p)
        <3>1. AbstractChannel!ChanReadNothing
            BY <2>1 DEF RecvDisabled, RecvRefused, AbstractChannel!ChanReadNothing
        <3>2. QED
            BY <3>1 DEF AbstractChannel!ChanNext
    <2>2. CASE fifo[Remote(p)].size # 0 /\ RecvAccepted(p)
        <3> DEFINE r == Remote(p)
        <3>0. r \in Procs
            BY RemoteFacts
        <3>1. /\ fifo' = [fifo EXCEPT ![r] = Pop(fifo[r])]
              /\ readVal' = fifo[r].buf[fifo[r].head]
            BY <1>0, <2>2, <3>0 DEF RecvAccepted
        <3>2. /\ Contents(fifo[r]) # << >>
              /\ Head(Contents(fifo[r])) = fifo[r].buf[fifo[r].head]
              /\ Contents(Pop(fifo[r])) = Tail(Contents(fifo[r]))
            BY <1>0, <2>2, <3>0, ContentsPop
        <3>3. Chan' = [Chan EXCEPT ![r] = Tail(Chan[r])]
            BY <1>0, <3>0, <3>1, <3>2 DEF Chan
        <3>4. Chan[r] = Contents(fifo[r])
            BY <3>0 DEF Chan
        <3>5. AbstractChannel!ChanRecv(r)
            BY <3>0, <3>1, <3>2, <3>3, <3>4 DEF AbstractChannel!ChanRecv, Chan
        <3>6. QED
            BY <3>0, <3>5 DEF AbstractChannel!ChanNext
    <2>3. QED
        BY <1>3, <2>1, <2>2 DEF IPC_FIFOrecv
<1>4. ASSUME NEW p \in Procs, NEW val \in CntWrites, IPC_FIFOcnt(p, val)
      PROVE  AbstractChannel!ChanNext \/ (Chan' = Chan /\ readVal' = readVal)
    <2>1. CASE "SENDCLEAR" \in val
        <3>1. fifo' = [fifo EXCEPT ![p] = Cleared(fifo[p])] /\ readVal' = readVal
            BY <1>4, <2>1 DEF IPC_FIFOcnt
        <3>2. Contents(Cleared(fifo[p])) = << >>
            BY <1>0, ClearedFacts, ContentsEmpty
        <3>3. Chan' = [Chan EXCEPT ![p] = << >>]
            BY <1>0, <3>1, <3>2 DEF Chan
        <3>4. AbstractChannel!ChanClear(p)
            BY <3>1, <3>3 DEF AbstractChannel!ChanClear, Chan
        <3>5. QED
            BY <3>4 DEF AbstractChannel!ChanNext
    <2>2. CASE "SENDCLEAR" \notin val
        BY <1>4, <2>2 DEF IPC_FIFOcnt, Chan
    <2>3. QED
        BY <2>1, <2>2
<1>5. ASSUME NEW p \in Procs, NEW irq \in IpcIrqs, REG_IF_Write(p, {irq})
      PROVE  AbstractChannel!ChanNext \/ (Chan' = Chan /\ readVal' = readVal)
    BY <1>5 DEF REG_IF_Write, Chan
<1>6. CASE MMU_Reset
    <2>1. \A p \in Procs : Contents(fifo'[p]) = << >>
        BY <1>6, EmptyFacts, ContentsEmpty DEF MMU_Reset
    <2>2. AbstractChannel!ChanReset
        BY <1>6, <2>1 DEF MMU_Reset, AbstractChannel!ChanReset
    <2>3. QED
        BY <2>2 DEF AbstractChannel!ChanNext
<1>7. QED
    BY <1>1, <1>2, <1>3, <1>4, <1>5, <1>6 DEF Next

(* The ring buffers and registers of FIFO.cpp implement the abstract       *)
(* channels: no accepted word is lost, duplicated or reordered.            *)
THEOREM ImplementsChannel == Spec => ChannelSpec
BY Invariance, RefineInit, RefineNext, PTL DEF Spec, ChannelSpec, AbstractChannel!ChanSpec
=============================================================================
