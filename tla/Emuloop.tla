------------------------------ MODULE Emuloop ------------------------------
(***************************************************************************)
(* The emulation loop of NDSSystem.cpp: NDS_exec runs hardware events that *)
(* are due (Sequencer::execHardware), delivers interrupts, looks for the   *)
(* next event and lets the two CPUs run until it (armInnerLoop), once per  *)
(* frame.                                                                  *)
(*                                                                         *)
(* Times are relative to nds_timer_base, the value of nds_timer when the   *)
(* inner loop was entered; `now' is nds_timer itself.  When the loop is    *)
(* left every time is rebased, so no bound on time is needed.  An          *)
(* interrupt register is the set of CPUs for which the interrupt is there: *)
(* one interrupt per CPU stands for all of them.                           *)
(***************************************************************************)
EXTENDS Integers, FiniteSets

CONSTANTS Ops,          \* the kinds of instructions the programs execute
          DispIrqs,     \* the CPUs that enable the display interrupts in DISPSTAT
          Costs,        \* Costs[p]: cycles of one instruction (or JIT block) of CPU p
          MaxWork,      \* kMaxWork
          IrqWait,      \* kIrqWait
          Duration,     \* cycles from each display event to the next one
          Lines,        \* scanlines of a frame: 263
          VBlankLine,   \* first line of the vertical blank: 192
          LastLine,     \* the line at which the vertical blank ends: 262
          UnitCycles,   \* cycles of a division or square root
          DmaCycles,    \* cycles a DMA copy may take
          FlushCycles,  \* cycles until the geometry engine goes on after a flush: 392*2
          Full,         \* entries from which the geometry FIFO freezes the bus: 255
          Batch,        \* geometry commands executed at once: 64
          Bursts,       \* geometry commands one instruction may send
          MaxFifo       \* bound: entries of the geometry FIFO (HACK_GXIFO_SIZE)

Procs == {"arm9", "arm7"}
Events == {"HStart", "HStartIRQ", "HDraw", "HBlank"}
Remote(p) == IF p = "arm9" THEN "arm7" ELSE "arm9"

ASSUME CostsAssumption == \A p \in Procs : Costs[p] \subseteq Nat \ {0} /\ Costs[p] # {}
ASSUME LongestAssumption == \* there is a longest instruction
    \E c \in UNION {Costs[p] : p \in Procs} : \A p \in Procs : \A d \in Costs[p] : d <= c
ASSUME WorkAssumption == MaxWork \in Nat \ {0} /\ IrqWait \in Nat /\ IrqWait >= MaxWork
ASSUME DurationAssumption == Duration \in [Events -> Nat \ {0}]
ASSUME LinesAssumption ==
    Lines \in Nat /\ VBlankLine \in 1 .. LastLine - 1 /\ LastLine \in 1 .. Lines - 1

ASSUME DevicesAssumption ==
    /\ DispIrqs \subseteq Procs
    /\ UnitCycles \subseteq Nat /\ DmaCycles \subseteq Nat /\ FlushCycles \in Nat
    /\ Full \in Nat /\ Batch \in Nat \ {0} /\ Bursts \subseteq Nat /\ MaxFifo \in Nat

VARIABLES
    pc,            \* where NDS_exec is
    doarm7,        \* the template parameter of armInnerLoop: ARM7 still runs in it
    now,           \* nds_timer
    timer,         \* the local copy of it in armInnerLoop
    s32next,       \* time up to which the CPUs may run
    arm,           \* nds_arm9_timer and nds_arm7_timer
    reschedule, nds_vblankEnded, sleeping,
    VCount,
    dispcnt,       \* the display event item: the next event and its time
    unit,          \* the divider item
    dma,           \* the item of one DMA channel of ARM9: off, triggered or copying
    gxfifo,        \* the geometry engine item and the fill of its FIFO
    isSwapBuffers,
    freezeBus,     \* who has frozen the bus
    IF_bits, IF_pending, IE,
    open,          \* CPUs with IME set and CPSR.I clear
    waitIRQ, halt_IE_and_IF,
    gxfifo_irq     \* the geometry FIFO interrupts when it is empty

times == <<now, timer, s32next, arm>>
irqs == <<IF_bits, IF_pending, IE, open, waitIRQ, halt_IE_and_IF, gxfifo_irq>>
items == <<dispcnt, unit, dma, gxfifo>>
devices == <<VCount, items, isSwapBuffers, freezeBus>>
vars == <<pc, doarm7, times, reschedule, nds_vblankEnded, sleeping, devices, irqs>>

Least(S) == CHOOSE t \in S : \A u \in S : t <= u
Lower(a, b) == Least({a, b})

Init ==
    /\ pc = "call" /\ doarm7 = TRUE
    /\ now = 0 /\ timer = 0 /\ s32next = 0 /\ arm = [p \in Procs |-> 0]
    /\ reschedule = FALSE /\ nds_vblankEnded = FALSE /\ sleeping = FALSE
    /\ VCount = Lines - 1
    /\ dispcnt = [param |-> "HStart", at |-> 0]
    /\ unit = [running |-> FALSE, at |-> 0]
    /\ dma = [state |-> "off", at |-> 0]
    /\ gxfifo = [enabled |-> FALSE, at |-> 0, size |-> 0]
    /\ isSwapBuffers = FALSE /\ freezeBus = {}
    /\ IF_bits = {} /\ IF_pending = {} /\ IE = {} /\ open = {}
    /\ waitIRQ = {} /\ halt_IE_and_IF = {} /\ gxfifo_irq = FALSE

-----------------------------------------------------------------------------
(* gen_IF: the geometry FIFO interrupt is a level, not a latched flag.     *)
gen_IF == IF_bits \cup IF gxfifo_irq /\ gxfifo.size = 0 THEN {"arm9"} ELSE {}

NDS_exec ==
    /\ pc = "call"
    /\ nds_vblankEnded' = FALSE
    /\ \/ sleeping /\ sleeping' = ("arm7" \notin IE \cap gen_IF) /\ UNCHANGED pc
       \/ ~sleeping /\ pc' = "dispcnt" /\ UNCHANGED sleeping
    /\ UNCHANGED <<doarm7, times, reschedule, devices, irqs>>

(* Between two frames the frontend applies the user's input, which may     *)
(* raise the key interrupt, or on ARM7 that of the lid.                    *)
UserInput ==
    /\ pc = "call" /\ "irq" \in Ops
    /\ \E p \in Procs : IF_bits' = IF_bits \cup {p}
    /\ reschedule' = TRUE
    /\ UNCHANGED <<pc, doarm7, times, nds_vblankEnded, sleeping, devices, IF_pending, IE, open,
                   waitIRQ, halt_IE_and_IF, gxfifo_irq>>

-----------------------------------------------------------------------------
(* Sequencer::execHardware, one item after the other                       *)

(* NDS_RescheduleGXFIFO.                                                   *)
RescheduleGXFIFO(gx, cost) ==
    [enabled |-> TRUE, at |-> (IF gx.enabled THEN gx.at ELSE now) + cost, size |-> gx.size]

(* The line counter without its roll-over.                                 *)
NextLineNoWrap(line) == line + 1

NextLine(line) == IF line + 1 = Lines THEN 0 ELSE line + 1

(* A flush after which nobody restarts the geometry engine.                *)
NotRestarted(gx) == gx

(* At the vertical blank the engine goes on, with or without a swap.       *)
Restarted(gx) == RescheduleGXFIFO(gx, FlushCycles + IF isSwapBuffers THEN 1 ELSE 0)

Display(next) ==
    /\ pc' = "items"
    /\ dispcnt' = [param |-> next, at |-> dispcnt.at + Duration[dispcnt.param]]
    /\ UNCHANGED <<doarm7, times, sleeping, unit, dma, freezeBus, IE, open, waitIRQ,
                   halt_IE_and_IF, gxfifo_irq>>

(* execHardware_hstart: the next line begins.  DISPSTAT decides for which  *)
(* CPUs an interrupt becomes pending.                                      *)
HStart ==
    /\ dispcnt.param = "HStart"
    /\ VCount' = NextLine(VCount)
    /\ \E S \in SUBSET DispIrqs : IF_pending' = IF_pending \cup S
    /\ nds_vblankEnded' = (nds_vblankEnded \/ VCount' = LastLine)
    /\ reschedule' = (reschedule \/ VCount' \in {LastLine, VBlankLine})
    /\ \/ /\ VCount' = VBlankLine
          /\ isSwapBuffers' = FALSE
          /\ gxfifo' = Restarted(gxfifo)
       \/ VCount' # VBlankLine /\ UNCHANGED <<isSwapBuffers, gxfifo>>
    /\ UNCHANGED IF_bits
    /\ Display("HStartIRQ")

(* execHardware_hstart_irq: what became pending is raised.                 *)
HStartIRQ ==
    /\ dispcnt.param = "HStartIRQ"
    /\ IF_bits' = IF_bits \cup IF_pending
    /\ IF_pending' = {}
    /\ reschedule' = TRUE
    /\ UNCHANGED <<VCount, nds_vblankEnded, isSwapBuffers, gxfifo>>
    /\ Display("HDraw")

HDraw ==
    /\ dispcnt.param = "HDraw"
    /\ UNCHANGED <<VCount, nds_vblankEnded, isSwapBuffers, gxfifo, IF_bits, IF_pending, reschedule>>
    /\ Display("HBlank")

HBlank ==
    /\ dispcnt.param = "HBlank"
    /\ \E S \in SUBSET DispIrqs :
         IF_bits' = IF_bits \cup S /\ reschedule' = (reschedule \/ S # {})
    /\ UNCHANGED <<VCount, nds_vblankEnded, isSwapBuffers, gxfifo, IF_pending>>
    /\ Display("HStart")

execHardware_dispcnt ==
    /\ pc = "dispcnt"
    /\ \/ now >= dispcnt.at /\ (HStart \/ HStartIRQ \/ HDraw \/ HBlank)
       \/ now < dispcnt.at /\ pc' = "items"
          /\ UNCHANGED <<doarm7, times, reschedule, nds_vblankEnded, sleeping, devices, irqs>>

(* gfx3d_execute3D: while a swap is pending nothing is executed and the    *)
(* item is left disabled.                                                  *)
Executed == IF isSwapBuffers THEN 0 ELSE Lower(Batch, gxfifo.size)

execHardware_gxfifo ==
    IF gxfifo.enabled /\ now >= gxfifo.at
      THEN /\ gxfifo' = [enabled |-> Executed > 0, at |-> IF Executed > 0 THEN now + 1 ELSE 0,
                         size |-> gxfifo.size - Executed]
           /\ isSwapBuffers' \in (IF Executed > 0 THEN BOOLEAN ELSE {isSwapBuffers})
      ELSE UNCHANGED <<gxfifo, isSwapBuffers>>

(* The end of a DMA that leaves the bus frozen.                            *)
StillFrozen == freezeBus

Unfrozen == freezeBus \ {"dma"}

(* DmaController::exec of an immediate transfer: it is copied at once, the *)
(* bus is frozen for as long as the copy should take, and then it stops.   *)
execHardware_dma ==
    IF dma.state # "off" /\ now >= dma.at
      THEN \/ /\ dma.state = "start"
              /\ \E t \in DmaCycles : dma' = [state |-> "copy", at |-> now + t]
              /\ freezeBus' = freezeBus \cup {"dma"}
              /\ UNCHANGED IF_bits
           \/ /\ dma.state = "copy"
              /\ dma' = [state |-> "off", at |-> 0]
              /\ freezeBus' = Unfrozen
              /\ IF_bits' \in {IF_bits, IF_bits \cup {"arm9"}}
      ELSE UNCHANGED <<dma, freezeBus, IF_bits>>

execHardware_items ==
    /\ pc = "items"
    /\ unit' = IF unit.running /\ now >= unit.at THEN [running |-> FALSE, at |-> 0] ELSE unit
    /\ execHardware_gxfifo
    /\ execHardware_dma
    /\ reschedule' = (reschedule \/ gxfifo'.enabled \/ dma'.state = "copy" \/ IF_bits' # IF_bits)
    /\ pc' = IF nds_vblankEnded THEN "call" ELSE "interrupts"
    /\ UNCHANGED <<doarm7, times, nds_vblankEnded, sleeping, VCount, dispcnt,
                   IF_pending, IE, open, waitIRQ, halt_IE_and_IF, gxfifo_irq>>

(* The time of the next event, the geometry engine forgotten.              *)
findNextNoGx ==
    Least({dispcnt.at} \cup (IF unit.running THEN {unit.at} ELSE {})
                       \cup (IF dma.state # "off" THEN {dma.at} ELSE {}))

findNext ==
    Least({dispcnt.at} \cup (IF unit.running THEN {unit.at} ELSE {})
                       \cup (IF gxfifo.enabled THEN {gxfifo.at} ELSE {})
                       \cup (IF dma.state # "off" THEN {dma.at} ELSE {}))

(* Waking a halted CPU only when it also takes the interrupt.              *)
WokenIfOpen == halt_IE_and_IF \cap gen_IF \cap IE \cap open

(* CPUs that leave a halt: any enabled interrupt, whether taken or not.    *)
Woken == halt_IE_and_IF \cap gen_IF \cap IE

(* execHardware_interrupts, findNext and the entry of armInnerLoop.        *)
execHardware_interrupts ==
    /\ pc = "interrupts"
    /\ LET masked == gen_IF \cap IE
       IN  /\ halt_IE_and_IF' = halt_IE_and_IF \ Woken
           /\ waitIRQ' = waitIRQ \ (Woken \cup (masked \cap open))
           /\ open' = open \ masked
    /\ s32next' = Lower(findNext, now + MaxWork)
    /\ reschedule' = FALSE
    /\ doarm7' = TRUE
    /\ timer' = Lower(arm["arm9"], arm["arm7"])
    /\ pc' = "arm9"
    /\ UNCHANGED <<now, arm, nds_vblankEnded, sleeping, devices, IF_bits, IF_pending, IE, gxfifo_irq>>

-----------------------------------------------------------------------------
(* armInnerLoop                                                            *)

Running == timer < s32next /\ ~reschedule

(* Every CPU runs in every iteration, ahead or not.                        *)
AlwaysTurn(p) == TRUE

(* The CPU that is behind, or both.                                        *)
Turn(p) == arm[p] <= timer

Idle(p) == p \in waitIRQ \/ freezeBus # {}

(* An instruction that halts until an interrupt, or puts the NDS to sleep. *)
Halt(p) ==
    /\ waitIRQ' = waitIRQ \cup {p} /\ halt_IE_and_IF' = halt_IE_and_IF \cup {p}
    /\ UNCHANGED <<reschedule, sleeping, items, isSwapBuffers, freezeBus, IF_bits, IE, open, gxfifo_irq>>

Sleep ==
    /\ sleeping' = TRUE
    /\ UNCHANGED <<reschedule, items, isSwapBuffers, freezeBus, IF_bits, IE, open, waitIRQ,
                   halt_IE_and_IF, gxfifo_irq>>

(* A write of IE, and one of IME or of the I flag of CPSR.                 *)
WriteIE(p) ==
    /\ IE' \in {IE \cup {p}, IE \ {p}}
    /\ reschedule' = TRUE
    /\ UNCHANGED <<sleeping, items, isSwapBuffers, freezeBus, IF_bits, open, waitIRQ, halt_IE_and_IF, gxfifo_irq>>

WriteIME(p) ==
    /\ open' \in {open \cup {p}, open \ {p}}
    /\ reschedule' = TRUE
    /\ UNCHANGED <<sleeping, items, isSwapBuffers, freezeBus, IF_bits, IE, waitIRQ, halt_IE_and_IF, gxfifo_irq>>

(* A write of REG_IF, and an access that raises an interrupt on the other  *)
(* CPU (IPC FIFO, IPCSYNC).                                                *)
Acknowledge(p) ==
    /\ IF_bits' = IF_bits \ {p} /\ reschedule' = TRUE
    /\ UNCHANGED <<sleeping, items, isSwapBuffers, freezeBus, IE, open, waitIRQ, halt_IE_and_IF, gxfifo_irq>>

(* setIF without the reschedule.                                           *)
SignalSilently(p) ==
    /\ IF_bits' = IF_bits \cup {Remote(p)} /\ UNCHANGED reschedule
    /\ UNCHANGED <<sleeping, items, isSwapBuffers, freezeBus, IE, open, waitIRQ, halt_IE_and_IF, gxfifo_irq>>

Signal(p) ==
    /\ IF_bits' = IF_bits \cup {Remote(p)} /\ reschedule' = TRUE
    /\ UNCHANGED <<sleeping, items, isSwapBuffers, freezeBus, IE, open, waitIRQ, halt_IE_and_IF, gxfifo_irq>>

(* ARM9 only: start the divider, enable an immediate DMA (once more, when  *)
(* it was enabled and has not begun), send geometry commands, and write    *)
(* GXSTAT, which does not reschedule.                                      *)
execdiv ==
    /\ \E t \in UnitCycles : unit' = [running |-> TRUE, at |-> now + t]
    /\ reschedule' = TRUE
    /\ UNCHANGED <<sleeping, dispcnt, dma, gxfifo, isSwapBuffers, freezeBus, IF_bits, IE, open, waitIRQ,
                   halt_IE_and_IF, gxfifo_irq>>

WriteDma ==
    /\ dma' = [state |-> "start", at |-> now]
    /\ reschedule' = TRUE
    /\ UNCHANGED <<sleeping, dispcnt, unit, gxfifo, isSwapBuffers, freezeBus, IF_bits, IE, open, waitIRQ,
                   halt_IE_and_IF, gxfifo_irq>>

(* Only the ports of single commands freeze the bus when the FIFO is full; *)
(* the port of packed commands does not.                                   *)
GFX_FIFOsend ==
    /\ \E n \in Bursts :
         /\ gxfifo.size + n <= MaxFifo
         /\ gxfifo' = [RescheduleGXFIFO(gxfifo, n) EXCEPT !.size = gxfifo.size + n]
         /\ \/ UNCHANGED freezeBus
            \/ gxfifo.size + n - 1 >= Full /\ freezeBus' = freezeBus \cup {"gx"}
    /\ reschedule' = TRUE
    /\ UNCHANGED <<sleeping, dispcnt, unit, dma, isSwapBuffers, IF_bits, IE, open, waitIRQ,
                   halt_IE_and_IF, gxfifo_irq>>

WriteGxstat ==
    /\ gxfifo_irq' \in BOOLEAN
    /\ UNCHANGED <<reschedule, sleeping, items, isSwapBuffers, freezeBus, IF_bits, IE, open, waitIRQ,
                   halt_IE_and_IF>>

Plain == UNCHANGED <<reschedule, sleeping, items, isSwapBuffers, freezeBus, IF_bits, IE, open, waitIRQ,
                     halt_IE_and_IF, gxfifo_irq>>

Instruction(p) ==
    \/ Plain
    \/ "halt" \in Ops /\ Halt(p)
    \/ "ie" \in Ops /\ WriteIE(p)
    \/ "ime" \in Ops /\ WriteIME(p)
    \/ "irq" \in Ops /\ (Acknowledge(p) \/ Signal(p))
    \/ "div" \in Ops /\ p = "arm9" /\ execdiv
    \/ "dma" \in Ops /\ p = "arm9" /\ WriteDma
    \/ "gx" \in Ops /\ p = "arm9" /\ (GFX_FIFOsend \/ WriteGxstat)
    \/ "sleep" \in Ops /\ p = "arm7" /\ Sleep

armcpu_exec(p) ==
    /\ ~Idle(p)
    /\ \E c \in Costs[p] : arm' = [arm EXCEPT ![p] = @ + c]
    /\ Instruction(p)
    /\ UNCHANGED <<nds_vblankEnded, VCount, IF_pending>>

(* A waiting CPU for which no time passes.                                 *)
NoIdling(p) == arm[p]

IdleUntil(p) == Lower(s32next, arm[p] + IrqWait)

(* An idle ARM9 is also what notices that the geometry FIFO has room.      *)
arm9_idle ==
    /\ Idle("arm9")
    /\ arm' = [arm EXCEPT !["arm9"] = IdleUntil("arm9")]
    /\ freezeBus' = IF gxfifo.size < Full THEN freezeBus \ {"gx"} ELSE freezeBus
    /\ UNCHANGED <<reschedule, nds_vblankEnded, sleeping, VCount, items, isSwapBuffers, irqs>>

(* First half of an iteration: ARM9 runs if it is not ahead.               *)
InnerArm9 ==
    /\ pc = "arm9" /\ Running
    /\ pc' = "arm7"
    /\ IF ~doarm7 \/ Turn("arm9")
         THEN armcpu_exec("arm9") \/ arm9_idle
         ELSE UNCHANGED <<arm, reschedule, nds_vblankEnded, sleeping, devices, irqs>>
    /\ UNCHANGED <<doarm7, now, timer, s32next>>

NextIteration ==
    /\ pc' = "arm9"
    /\ timer' = IF doarm7 THEN Lower(arm'["arm9"], arm'["arm7"]) ELSE arm'["arm9"]
    /\ now' = timer'
    /\ UNCHANGED doarm7

(* Second half: ARM7, while it takes part.  Idle up to the next event, it  *)
(* leaves the loop to ARM9 alone.                                          *)
InnerArm7 ==
    /\ pc = "arm7"
    /\ \/ /\ doarm7 /\ Turn("arm7")
          /\ \/ armcpu_exec("arm7") /\ NextIteration
             \/ /\ Idle("arm7")
                /\ arm' = [arm EXCEPT !["arm7"] = IdleUntil("arm7")]
                /\ \/ /\ arm'["arm7"] = s32next
                      /\ doarm7' = FALSE
                      /\ now' = arm["arm9"] /\ timer' = arm["arm9"]
                      /\ pc' = "arm9"
                   \/ arm'["arm7"] # s32next /\ NextIteration
                /\ UNCHANGED <<reschedule, nds_vblankEnded, sleeping, devices, irqs>>
       \/ /\ ~(doarm7 /\ Turn("arm7"))
          /\ UNCHANGED <<arm, reschedule, nds_vblankEnded, sleeping, devices, irqs>>
          /\ NextIteration
    /\ UNCHANGED s32next

(* A CPU that waits for an interrupt is rolled back to the present.        *)
RolledBack(p) == IF p \in waitIRQ THEN now ELSE arm[p]

(* armInnerLoop returns; every time is taken relative to the new base.     *)
InnerReturn ==
    /\ pc = "arm9" /\ ~Running
    /\ pc' = "dispcnt"
    /\ arm' = [p \in Procs |-> RolledBack(p) - now]
    /\ dispcnt' = [dispcnt EXCEPT !.at = @ - now]
    /\ unit' = [unit EXCEPT !.at = IF unit.running THEN @ - now ELSE 0]
    /\ dma' = [dma EXCEPT !.at = IF dma.state # "off" THEN @ - now ELSE 0]
    /\ gxfifo' = [gxfifo EXCEPT !.at = IF gxfifo.enabled THEN @ - now ELSE 0]
    /\ now' = 0 /\ timer' = 0 /\ s32next' = 0 /\ doarm7' = TRUE
    /\ UNCHANGED <<reschedule, nds_vblankEnded, sleeping, VCount, isSwapBuffers, freezeBus, irqs>>

Loop ==
    \/ NDS_exec
    \/ execHardware_dispcnt \/ execHardware_items \/ execHardware_interrupts
    \/ InnerArm9 \/ InnerArm7 \/ InnerReturn

Next == Loop \/ UserInput

(* The frontend calls NDS_exec again and again, and it is one thread.      *)
Spec == Init /\ [][Next]_vars /\ WF_vars(Loop)

-----------------------------------------------------------------------------
MaxCost == CHOOSE c \in UNION {Costs[p] : p \in Procs} : \A p \in Procs : \A d \in Costs[p] : d <= c

TypeOK ==
    /\ pc \in {"call", "dispcnt", "items", "interrupts", "arm9", "arm7"}
    /\ doarm7 \in BOOLEAN /\ reschedule \in BOOLEAN /\ nds_vblankEnded \in BOOLEAN
    /\ sleeping \in BOOLEAN /\ isSwapBuffers \in BOOLEAN /\ gxfifo_irq \in BOOLEAN
    /\ now \in Int /\ timer \in Int /\ s32next \in Int /\ arm \in [Procs -> Int]
    /\ VCount \in 0 .. Lines - 1
    /\ dispcnt \in [param : Events, at : Int]
    /\ unit \in [running : BOOLEAN, at : Int]
    /\ dma \in [state : {"off", "start", "copy"}, at : Int]
    /\ gxfifo \in [enabled : BOOLEAN, at : Int, size : 0 .. MaxFifo]
    /\ freezeBus \subseteq {"gx", "dma"}
    /\ IF_bits \subseteq Procs /\ IF_pending \subseteq Procs /\ IE \subseteq Procs
    /\ open \subseteq Procs /\ waitIRQ \subseteq Procs /\ halt_IE_and_IF \subseteq Procs

InLoop == pc \in {"arm9", "arm7"}

(* Whatever makes a latched interrupt deliverable (the flag, IE, IME or    *)
(* CPSR.I; by either CPU) ends the inner loop: neither CPU starts another  *)
(* iteration while an interrupt waits to be taken.                         *)
PromptDelivery == InLoop /\ IF_bits \cap IE \cap open # {} => reschedule

ItemTimes ==
    {dispcnt.at} \cup (IF unit.running THEN {unit.at} ELSE {})
      \cup (IF gxfifo.enabled THEN {gxfifo.at} ELSE {})
      \cup (IF dma.state # "off" THEN {dma.at} ELSE {})

(* No hardware event is handled later than one instruction (or JIT block)  *)
(* after its time, whatever the two CPUs and the events schedule: a        *)
(* display event waits at most for the rest of the instruction during      *)
(* which it is due, another one at most for the one that scheduled it.     *)
EventsOnTime ==
    pc = "dispcnt" => /\ now - dispcnt.at < MaxCost
                      /\ \A t \in ItemTimes : now - t <= MaxCost

(* When the loop is left the two CPUs are in step: neither is further from *)
(* nds_timer than one instruction behind or one work unit ahead, so the    *)
(* differences of the 64-bit timers fit the 32 bits they are cast to.      *)
CpusInStep ==
    pc = "dispcnt" => \A p \in Procs : -MaxCost < arm[p] /\ arm[p] <= MaxWork + MaxCost

(* A frozen bus stops both CPUs, so it is never frozen by a DMA without    *)
(* the event that will thaw it.                                            *)
FrozenHasEvent == "dma" \in freezeBus => dma.state = "copy"

(* A CPU that waits while an enabled interrupt is there is woken, also     *)
(* when it does not take the interrupt (IME clear or CPSR.I set).          *)
WaitersWake ==
    \A p \in Procs : (p \in waitIRQ /\ p \in IE \cap IF_bits /\ ~sleeping) ~> (p \notin waitIRQ \/ sleeping)

(* The bus never stays frozen: DMA ends, and a full geometry FIFO drains,  *)
(* at the latest after the vertical blank has completed a pending swap.    *)
BusThaws == freezeBus # {} ~> (freezeBus = {} \/ sleeping)

(* NDS_exec comes back once per frame.                                     *)
FramesEnd == pc # "call" ~> pc = "call"

(* "whichever instruction setup this counter should advance nds_timer":    *)
(* the time software sees never runs backwards.                            *)
TimeNeverRunsBack == [][InLoop /\ pc' \in {"arm9", "arm7"} => now' >= now]_vars
=============================================================================
