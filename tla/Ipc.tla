-------------------------------- MODULE Ipc --------------------------------
(***************************************************************************)
(* The inter-processor FIFO between the ARM9 and the ARM7 (FIFO.cpp):      *)
(* one ring buffer per sending CPU, and one IPCFIFOCNT register per CPU    *)
(* whose status bits cache the state of both buffers.                      *)
(*                                                                         *)
(* A register is the set of its bits that are set, so that the code's      *)
(* masks become set difference and its ORs become union.  Every action is  *)
(* one register access by a CPU, which the emulator runs to completion;    *)
(* accesses of the two CPUs interleave in any order.                       *)
(***************************************************************************)
EXTENDS Naturals, Sequences

CONSTANTS Procs,      \* the two CPUs (ARMCPU_ARM9, ARMCPU_ARM7)
          Words,      \* the 32-bit values software sends
          Depth,      \* slots of a ring buffer: 16 in the code
          CntWrites   \* the values software writes to IPCFIFOCNT

(* The code's proc^1 is the CPU that is not proc: there are exactly two.   *)
ASSUME ProcsAssumption == \E a, b \in Procs : a # b /\ Procs = {a, b}
ASSUME DepthAssumption == Depth \in Nat \ {0}
ASSUME WordsAssumption == 0 \in Words /\ Words \subseteq Nat

Writeable == {"SENDIRQEN", "RECVIRQEN", "FIFOENABLE"}
StatusBits == {"SENDEMPTY", "SENDFULL", "RECVEMPTY", "RECVFULL"}
CntBits == Writeable \cup StatusBits \cup {"FIFOERROR"}
CntCommands == Writeable \cup {"FIFOERROR", "SENDCLEAR"}
IpcIrqs == {"SENDEMPTY", "RECVNONEMPTY"}

ASSUME CntWritesAssumption == CntWrites \subseteq SUBSET CntCommands

VARIABLES fifo,     \* ipc_fifo[p]: the words p sent (buf, head, tail, size)
          cnt,      \* REG_IPCFIFOCNT of p: the bits that are set
          reg_IF,   \* MMU.reg_IF_bits[p], restricted to the two IPC interrupts
          readVal   \* what the last read of REG_IPCFIFORECV returned

vars == <<fifo, cnt, reg_IF, readVal>>

Remote(p) == CHOOSE q \in Procs : q # p

Slots == 0 .. Depth - 1
EmptyFifo == [buf |-> [i \in Slots |-> 0], head |-> 0, tail |-> 0, size |-> 0]

Fifos == [buf : [Slots -> Words], head : Slots, tail : Slots, size : 0 .. Depth]

(* IPC_FIFOinit, and MMU_Reset's clearing of the interrupt registers.      *)
Init ==
    /\ fifo = [p \in Procs |-> EmptyFifo]
    /\ cnt = [p \in Procs |-> {"SENDEMPTY", "RECVEMPTY"}]
    /\ reg_IF = [p \in Procs |-> {}]
    /\ readVal = 0

-----------------------------------------------------------------------------
(* A faulty Wrap, one slot late.                                           *)
WrapLate(i) == IF i > Depth THEN 0 ELSE i

Wrap(i) == IF i > Depth - 1 THEN 0 ELSE i

(* The two masks of IPC_FIFOsend and IPC_FIFOrecv.  Both also clear bit 14.*)
MaskBFFC(c) == c \ {"SENDEMPTY", "SENDFULL", "FIFOERROR"}
MaskBCFF(c) == c \ {"RECVEMPTY", "RECVFULL", "FIFOERROR"}

Bits(cond, bits) == IF cond THEN bits ELSE {}

(* setIF, through NDS_makeIrq.                                             *)
setIF(p, irqs) == reg_IF' = [reg_IF EXCEPT ![p] = @ \cup irqs]

Push(f, w) ==
    [buf |-> [f.buf EXCEPT ![f.tail] = w], head |-> f.head,
     tail |-> Wrap(f.tail + 1), size |-> f.size + 1]

Pop(f) ==
    [buf |-> f.buf, head |-> Wrap(f.head + 1), tail |-> f.tail, size |-> f.size - 1]

(* A SENDCLEAR that forgets one of the two indices.                        *)
ClearedKeepsHead(f) == [buf |-> f.buf, head |-> f.head, tail |-> 0, size |-> 0]

Cleared(f) == [buf |-> f.buf, head |-> 0, tail |-> 0, size |-> 0]

SendAccepted(p, w) ==
    LET r == Remote(p)
        full == fifo[p].size + 1 > Depth - 1
    IN  /\ fifo' = [fifo EXCEPT ![p] = Push(@, w)]
        /\ cnt' = [q \in Procs |->
                     IF q = p THEN MaskBFFC(cnt[p]) \cup Bits(full, {"SENDFULL"})
                              ELSE MaskBCFF(cnt[q]) \cup Bits(full, {"RECVFULL"})]
        /\ setIF(r, Bits("RECVIRQEN" \in cnt[r], {"RECVNONEMPTY"}))
        /\ UNCHANGED readVal

SendRefused(p) ==
    /\ cnt' = [cnt EXCEPT ![p] = @ \cup {"FIFOERROR"}]
    /\ UNCHANGED <<fifo, reg_IF, readVal>>

IPC_FIFOsend(p, w) ==
    /\ "FIFOENABLE" \in cnt[p]
    /\ \/ fifo[p].size > Depth - 1 /\ SendRefused(p)
       \/ fifo[p].size <= Depth - 1 /\ SendAccepted(p, w)

RecvAccepted(p) ==
    LET r == Remote(p)
        empty == fifo[r].size - 1 = 0
    IN  /\ readVal' = fifo[r].buf[fifo[r].head]
        /\ fifo' = [fifo EXCEPT ![r] = Pop(@)]
        /\ cnt' = [q \in Procs |->
                     IF q = p THEN MaskBCFF(cnt[p]) \cup Bits(empty, {"RECVEMPTY"})
                              ELSE MaskBFFC(cnt[q]) \cup Bits(empty, {"SENDEMPTY"})]
        /\ setIF(r, Bits(empty /\ "SENDIRQEN" \in cnt[r], {"SENDEMPTY"}))

RecvRefused(p) ==
    /\ cnt' = [cnt EXCEPT ![p] = @ \cup {"FIFOERROR"}]
    /\ readVal' = 0
    /\ UNCHANGED <<fifo, reg_IF>>

RecvDisabled(p) ==
    /\ "FIFOENABLE" \notin cnt[p]
    /\ readVal' = 0
    /\ UNCHANGED <<fifo, cnt, reg_IF>>

IPC_FIFOrecv(p) ==
    \/ RecvDisabled(p)
    \/ /\ "FIFOENABLE" \in cnt[p]
       /\ \/ fifo[Remote(p)].size = 0 /\ RecvRefused(p)
          \/ fifo[Remote(p)].size # 0 /\ RecvAccepted(p)

(* The control register written with val: acknowledge the error, empty the *)
(* own send buffer, set the writeable bits, and raise the interrupts whose *)
(* condition now holds.                                                    *)
CntAfter(c, val) ==
    LET acked == c \ (val \cap {"FIFOERROR"})
        cleared == IF "SENDCLEAR" \in val
                     THEN (acked \cup {"SENDEMPTY"}) \ {"SENDFULL"} ELSE acked
    IN  (cleared \ Writeable) \cup (val \cap Writeable)

(* A SENDCLEAR that leaves the status bits of the other CPU stale.         *)
RemoteCntStale(c, val) == c

RemoteCntAfter(c, val) ==
    IF "SENDCLEAR" \in val THEN (c \cup {"RECVEMPTY"}) \ {"RECVFULL"} ELSE c

(* The interrupts raised at once only for words that are already waiting.  *)
CntIrqsRecvOnly(c) ==
    Bits("RECVIRQEN" \in c /\ "RECVEMPTY" \notin c, {"RECVNONEMPTY"})

CntIrqs(c) ==
    Bits({"SENDIRQEN", "SENDEMPTY"} \subseteq c, {"SENDEMPTY"})
      \cup Bits("RECVIRQEN" \in c /\ "RECVEMPTY" \notin c, {"RECVNONEMPTY"})

IPC_FIFOcnt(p, val) ==
    LET c == CntAfter(cnt[p], val)
    IN  /\ fifo' = IF "SENDCLEAR" \in val
                     THEN [fifo EXCEPT ![p] = Cleared(@)] ELSE fifo
        /\ cnt' = [q \in Procs |-> IF q = p THEN c ELSE RemoteCntAfter(cnt[q], val)]
        /\ setIF(p, CntIrqs(c))
        /\ UNCHANGED readVal

(* REG_IF_WriteLong: writing ones clears interrupt flags, and only software *)
(* clears them.                                                            *)
REG_IF_Write(p, val) ==
    /\ reg_IF' = [reg_IF EXCEPT ![p] = @ \ val]
    /\ UNCHANGED <<fifo, cnt, readVal>>

(* MMU_Reset, the part of it the IPC sees.                                 *)
MMU_Reset ==
    /\ fifo' = [p \in Procs |-> EmptyFifo]
    /\ cnt' = [p \in Procs |-> {"SENDEMPTY", "RECVEMPTY"}]
    /\ reg_IF' = [p \in Procs |-> {}]
    /\ UNCHANGED readVal

Next ==
    \/ \E p \in Procs :
         \/ \E w \in Words : IPC_FIFOsend(p, w)
         \/ IPC_FIFOrecv(p)
         \/ \E val \in CntWrites : IPC_FIFOcnt(p, val)
         \/ \E irq \in IpcIrqs : REG_IF_Write(p, {irq})
    \/ MMU_Reset

Spec == Init /\ [][Next]_vars

-----------------------------------------------------------------------------
TypeOK ==
    /\ fifo \in [Procs -> Fifos]
    /\ cnt \in [Procs -> SUBSET CntBits]
    /\ reg_IF \in [Procs -> SUBSET IpcIrqs]
    /\ readVal \in Words

(* The indices of a ring buffer describe one run of size slots: the tail   *)
(* IPC_FIFOsend writes to is size slots after the head IPC_FIFOrecv reads. *)
RingOK(f) ==
    f.tail = IF f.head + f.size > Depth - 1 THEN f.head + f.size - Depth
                                            ELSE f.head + f.size
RingsConsistent == \A p \in Procs : RingOK(fifo[p])

(* The four status bits are cached in two registers and updated by masks   *)
(* in three handlers; they always tell both CPUs the true fill of both     *)
(* buffers, whatever sends, receives and clears happened in which order.   *)
StatusBitsExact ==
    \A p \in Procs :
        /\ "SENDEMPTY" \in cnt[p] <=> fifo[p].size = 0
        /\ "SENDFULL" \in cnt[p] <=> fifo[p].size = Depth
        /\ "RECVEMPTY" \in cnt[p] <=> fifo[Remote(p)].size = 0
        /\ "RECVFULL" \in cnt[p] <=> fifo[Remote(p)].size = Depth

SendIrqCondition(p) == "SENDIRQEN" \in cnt[p] /\ fifo[p].size = 0
RecvIrqCondition(p) == "RECVIRQEN" \in cnt[p] /\ fifo[Remote(p)].size # 0

(* However an interrupt condition comes to hold (the other CPU moves a     *)
(* word, or the own CPU enables the interrupt or clears its buffer), the   *)
(* step that makes it hold latches the interrupt flag: a driver that waits *)
(* for the flag misses no edge.                                            *)
EdgeStep ==
    \A p \in Procs :
        /\ ~SendIrqCondition(p) /\ SendIrqCondition(p)' => "SENDEMPTY" \in reg_IF'[p]
        /\ ~RecvIrqCondition(p) /\ RecvIrqCondition(p)' => "RECVNONEMPTY" \in reg_IF'[p]
EdgesLatched == [][EdgeStep]_vars

(* The words of a ring buffer, oldest first.                               *)
Contents(f) ==
    [i \in 1 .. f.size |->
        f.buf[IF f.head + i - 1 > Depth - 1 THEN f.head + i - 1 - Depth ELSE f.head + i - 1]]

AbstractChannel == INSTANCE Channel WITH chan <- [p \in Procs |-> Contents(fifo[p])]

(* The two ring buffers with their registers implement two bounded FIFO    *)
(* channels: no word is lost, duplicated or reordered by wrap-around,      *)
(* overflow, underflow or a clear between a send and its receive.          *)
ChannelSpec == AbstractChannel!ChanSpec
=============================================================================
