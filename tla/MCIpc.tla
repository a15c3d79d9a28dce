------------------------------- MODULE MCIpc -------------------------------
(***************************************************************************)
(* The IPC FIFO with rings of two slots: they wrap, fill and empty after   *)
(* two words.                                                              *)
(***************************************************************************)
EXTENDS Ipc, TLC

CONSTANTS arm9, arm7

MCWords == {0, 1}

(* The FIFO off, the FIFO on with both interrupts (with and without the    *)
(* error acknowledge), and a clear that leaves only the send interrupt on. *)
MCCntWrites ==
    LET on == {"FIFOENABLE", "SENDIRQEN", "RECVIRQEN"}
    IN  {{}, on, on \cup {"FIFOERROR"}, {"FIFOENABLE", "SENDIRQEN", "SENDCLEAR"}}

CPUs == Permutations({arm9, arm7})
=============================================================================
