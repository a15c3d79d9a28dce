------------------------------ MODULE IntrWait ------------------------------
(***************************************************************************)
(* The BIOS call IntrWait of one CPU (intrWaitARM, bios.cpp).  It is not   *)
(* one call: an unsatisfied call halts the CPU and points the program      *)
(* counter back at the instruction, so that the call is executed again     *)
(* after every interrupt, with one flag of the CPU to tell the first       *)
(* execution from the later ones.                                          *)
(*                                                                         *)
(* The interrupt handler is the operating system's: it acknowledges what   *)
(* it serves and reports it in the flags that IntrWait reads.              *)
(***************************************************************************)
EXTENDS Integers, FiniteSets

CONSTANTS Irqs,     \* the interrupt sources
          WaitSets  \* the sets of sources that the program waits for (R1)

ASSUME IntrWaitAssumption == WaitSets \subseteq (SUBSET Irqs) \ {{}}

VARIABLES
    reg_IE, reg_IF,
    reg_IME, irqMask,  \* REG_IME and the I bit of the program's CPSR
    osFlags,           \* the flags at 0x380FFF8 or in the DTCM
    intrWaitARM_state, \* 1 while a call has been executed and not returned
    pc,                \* "program", at the "swi", or to execute it "again"
    R0, R1,            \* the arguments: discard old flags, what to wait for
    halted,            \* waitIRQ and halt_IE_and_IF
    serving,           \* the sources that the running handler serves
    reported           \* what was reported since the call

intrVars == <<reg_IE, reg_IF, reg_IME, irqMask, osFlags, intrWaitARM_state, pc, R0, R1, halted,
              serving, reported>>
call == <<intrWaitARM_state, pc, R0, R1>>

InHandler == serving # {}
Running == ~halted /\ ~InHandler

IntrInit ==
    /\ reg_IE = {} /\ reg_IF = {} /\ reg_IME = FALSE /\ irqMask = FALSE
    /\ osFlags = {} /\ intrWaitARM_state = 0
    /\ pc = "program" /\ R0 = 0 /\ R1 = {}
    /\ halted = FALSE /\ serving = {} /\ reported = {}

-----------------------------------------------------------------------------
(* The program enables and masks interrupts, and calls IntrWait.           *)
Configure ==
    /\ Running /\ pc = "program"
    /\ \/ reg_IE' \in SUBSET Irqs /\ UNCHANGED <<reg_IME, irqMask>>
       \/ reg_IME' = ~reg_IME /\ UNCHANGED <<reg_IE, irqMask>>
       \/ irqMask' = ~irqMask /\ UNCHANGED <<reg_IE, reg_IME>>
    /\ UNCHANGED <<reg_IF, osFlags, call, halted, serving, reported>>

Call(discard, irqs) ==
    /\ Running /\ pc = "program"
    /\ pc' = "swi" /\ R0' = discard /\ R1' = irqs
    /\ UNCHANGED <<reg_IE, reg_IF, reg_IME, irqMask, osFlags, intrWaitARM_state, halted, serving,
                   reported>>

(* A return that leaves the state machine as it is.                        *)
StateKept == 1

StateAfterReturn == 0

(* intrWaitARM.  The flags that are discarded or answered are cleared, and *)
(* REG_IME is set.                                                         *)
intrWaitARM ==
    /\ Running /\ pc # "program"
    /\ LET discarded == intrWaitARM_state = 0 /\ R0 = 1
           intrFlag == IF discarded THEN {} ELSE R1 \cap osFlags
       IN  /\ osFlags' = IF discarded THEN osFlags \ R1 ELSE osFlags \ intrFlag
           /\ \/ /\ intrFlag # {}
                 /\ intrWaitARM_state' = StateAfterReturn
                 /\ pc' = "program"
                 /\ UNCHANGED halted
              \/ /\ intrFlag = {}
                 /\ intrWaitARM_state' = 1
                 /\ halted' = TRUE
                 /\ pc' = "again"
    /\ reg_IME' = TRUE
    /\ reported' = IF pc = "swi" THEN {} ELSE reported
    /\ UNCHANGED <<reg_IE, reg_IF, irqMask, R0, R1, serving>>

-----------------------------------------------------------------------------
(* A device asks for an interrupt, whatever the CPU is doing.              *)
Raise(i) ==
    /\ i \notin reg_IF
    /\ reg_IF' = reg_IF \cup {i}
    /\ UNCHANGED <<reg_IE, reg_IME, irqMask, osFlags, call, halted, serving, reported>>

(* execHardware_interrupts_core wakes a halted CPU for an enabled          *)
(* interrupt, and starts the handler unless interrupts are masked.         *)
execHardware_interrupts ==
    LET masked == reg_IE \cap reg_IF
        taken == reg_IME /\ ~irqMask
    IN  /\ ~InHandler /\ masked # {} /\ (halted \/ taken)
        /\ halted' = FALSE
        /\ \/ taken /\ \E S \in (SUBSET masked) \ {{}} : serving' = S
           \/ ~taken /\ UNCHANGED serving
        /\ UNCHANGED <<reg_IE, reg_IF, reg_IME, irqMask, osFlags, call, reported>>

(* The handler acknowledges, reports and returns.                          *)
HandlerReturns ==
    /\ InHandler
    /\ reg_IF' = reg_IF \ serving
    /\ osFlags' = osFlags \cup serving
    /\ reported' = reported \cup serving
    /\ serving' = {}
    /\ UNCHANGED <<reg_IE, reg_IME, irqMask, call, halted>>

IntrNext ==
    \/ Configure
    \/ \E discard \in {0, 1}, irqs \in WaitSets : Call(discard, irqs)
    \/ intrWaitARM
    \/ \E i \in Irqs : Raise(i)
    \/ execHardware_interrupts
    \/ HandlerReturns

IntrSpec == IntrInit /\ [][IntrNext]_intrVars

-----------------------------------------------------------------------------
IntrTypeOK ==
    /\ {reg_IE, reg_IF, osFlags, serving, reported} \subseteq SUBSET Irqs
    /\ {reg_IME, irqMask, halted} \subseteq BOOLEAN
    /\ intrWaitARM_state \in {0, 1} /\ pc \in {"program", "swi", "again"}
    /\ R0 \in {0, 1} /\ R1 \in WaitSets \cup {{}}

(* What may end the call: the flags that it finds and is not to discard,  *)
(* and then what is reported while it waits.                               *)
Reports == IF pc = "again" THEN reported ELSE IF R0 = 1 THEN {} ELSE osFlags

(* "be sure to only do this only on the first run through": each execution *)
(* of IntrWait returns exactly if an interrupt it waits for was reported   *)
(* since the call, or before it when old flags are not to be discarded.  A *)
(* wake-up by another interrupt, or by a masked one, ends nothing, and no  *)
(* report is lost between two executions.                                  *)
ReturnsWhenReported == [][intrWaitARM => (pc' = "program" <=> Reports \cap R1 # {})]_intrVars
=============================================================================
