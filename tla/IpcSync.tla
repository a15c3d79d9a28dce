------------------------------ MODULE IpcSync -------------------------------
(***************************************************************************)
(* IPCSYNC (MMU_IPCSync): the register of each CPU shows what it sends and *)
(* what the other one sent last; a write updates halves of both and may    *)
(* interrupt the other CPU.  16 and 32 bit writes; byte writes go to plain *)
(* memory.                                                                 *)
(***************************************************************************)
EXTENDS Integers

CONSTANT SyncValues  \* what is sent: 0 .. 15
ASSUME SyncAssumption == 0 \in SyncValues /\ SyncValues \subseteq 0 .. 15

VARIABLES
    sync,           \* the register of each CPU: both nibbles and bits 13 and 14
    syncIrq,        \* IRQ_BIT_IPCSYNC in IF of each CPU
    ensata,         \* ensataEmulation
    ensataCounter,  \* ensataIpcSyncCounter
    sent            \* what each CPU sent last

syncVars == <<sync, syncIrq, ensata, ensataCounter, sent>>

SyncCpus == {"arm9", "arm7"}
Peer(p) == IF p = "arm9" THEN "arm7" ELSE "arm9"

SyncInit ==
    /\ sync = [p \in SyncCpus |-> [in |-> 0, out |-> 0, send |-> FALSE, recv |-> FALSE]]
    /\ syncIrq = [p \in SyncCpus |-> FALSE]
    /\ ensata \in BOOLEAN /\ ensataCounter = 0
    /\ sent = [p \in SyncCpus |-> 0]

(* The handshake that is completed on behalf of ARM9 in an Ensata.         *)
Handshake(p) == ensata /\ p = "arm7" /\ ensataCounter < 9

(* The half of the writer's register that it cannot write is lost.         *)
WriterLoses(p, v) == IF Handshake(p) THEN v ELSE 0

InputKept(p, v) == IF Handshake(p) THEN v ELSE sync[p].in
PeerOutput(p, v) == IF Handshake(p) THEN v ELSE sync[Peer(p)].out

MMU_IPCSync(p, v, strobe, enable) ==
    /\ sync' = [sync EXCEPT
          ![p] = [in |-> InputKept(p, v), out |-> v, send |-> strobe, recv |-> enable],
          ![Peer(p)] = [in |-> v, out |-> PeerOutput(p, v),
                          send |-> sync[Peer(p)].send, recv |-> sync[Peer(p)].recv]]
    /\ syncIrq' = [syncIrq EXCEPT ![Peer(p)] = @ \/ (strobe /\ sync[Peer(p)].recv)]
    /\ ensataCounter' = IF Handshake(p) /\ v = 8 - ensataCounter THEN ensataCounter + 1 ELSE ensataCounter
    /\ sent' = IF Handshake(p) THEN [q \in SyncCpus |-> v] ELSE [sent EXCEPT ![p] = v]
    /\ UNCHANGED ensata

AckSync(p) ==
    /\ syncIrq[p]
    /\ syncIrq' = [syncIrq EXCEPT ![p] = FALSE]
    /\ UNCHANGED <<sync, ensata, ensataCounter, sent>>

SyncNext ==
    \E p \in SyncCpus :
        \/ \E v \in SyncValues, strobe, enable \in BOOLEAN : MMU_IPCSync(p, v, strobe, enable)
        \/ AckSync(p)

SyncSpec == SyncInit /\ [][SyncNext]_syncVars

-----------------------------------------------------------------------------
SyncTypeOK ==
    /\ sync \in [SyncCpus -> [in : SyncValues, out : SyncValues, send : BOOLEAN, recv : BOOLEAN]]
    /\ syncIrq \in [SyncCpus -> BOOLEAN] /\ ensata \in BOOLEAN /\ ensataCounter \in 0 .. 9

(* However the writes of the two CPUs interleave, each CPU reads what the  *)
(* other one sent last and what it sent itself.                            *)
SyncMirrored ==
    \A p \in SyncCpus : sync[p].in = sent[Peer(p)] /\ sync[p].out = sent[p]
=============================================================================
