--------------------------- MODULE EmuloopProofs ---------------------------
(***************************************************************************)
(* Proofs about the emulation loop, for any program, any instruction costs *)
(* and any duration of the hardware events.                                *)
(***************************************************************************)
EXTENDS Emuloop, TLAPS

IInv == TypeOK /\ PromptDelivery /\ FrozenHasEvent

-----------------------------------------------------------------------------
(* Minimum of times                                                        *)

(* The lower of two times is one of them and not above either.             *)
LEMMA LowerFacts ==
    ASSUME NEW a \in Int, NEW b \in Int
    PROVE  Lower(a, b) \in {a, b} /\ Lower(a, b) <= a /\ Lower(a, b) <= b
<1>1. \E t \in {a, b} : \A u \in {a, b} : t <= u
  <2>1. CASE a <= b
    BY <2>1
  <2>2. CASE b <= a
    BY <2>2
  <2>. QED  BY <2>1, <2>2
<1>. QED  BY <1>1 DEF Lower, Least

(* A set of at most four times has a least element.                        *)
LEMMA LeastFacts ==
    ASSUME NEW a \in Int, NEW b \in Int, NEW c \in Int, NEW d \in Int,
           NEW S, S \subseteq {a, b, c, d}, a \in S
    PROVE  Least(S) \in S /\ \A u \in S : Least(S) <= u
<1>1. \E t \in S : \A u \in S : t <= u
  BY SMTT(30)
<1>. QED  BY <1>1 DEF Least

(* findNext finds the earliest of the scheduled events.                    *)
LEMMA FindNextFacts ==
    ASSUME TypeOK
    PROVE  findNext \in ItemTimes /\ findNext \in Int /\ \A t \in ItemTimes : findNext <= t
<1>1. /\ dispcnt.at \in Int /\ unit.at \in Int /\ gxfifo.at \in Int /\ dma.at \in Int
      /\ ItemTimes \subseteq {dispcnt.at, unit.at, gxfifo.at, dma.at}
      /\ dispcnt.at \in ItemTimes
  BY DEF TypeOK, ItemTimes
<1>2. findNext = Least(ItemTimes)
  BY DEF findNext, ItemTimes
<1>3. Least(ItemTimes) \in ItemTimes /\ \A u \in ItemTimes : Least(ItemTimes) <= u
  BY <1>1, LeastFacts
<1>. QED  BY <1>1, <1>2, <1>3

-----------------------------------------------------------------------------
(* The inductive invariant                                                 *)

(* The state after a reset satisfies the invariant.                        *)
LEMMA InitIInv == Init => IInv
<1>. SUFFICES ASSUME Init PROVE IInv
  OBVIOUS
<1>1. VCount \in 0 .. Lines - 1 /\ gxfifo.size \in 0 .. MaxFifo
  BY LinesAssumption, DevicesAssumption DEF Init
<1>2. TypeOK
  <2>1. dispcnt \in [param : Events, at : Int] /\ unit \in [running : BOOLEAN, at : Int]
    BY DEF Init, Events
  <2>2. dma \in [state : {"off", "start", "copy"}, at : Int]
    BY DEF Init
  <2>3. gxfifo \in [enabled : BOOLEAN, at : Int, size : 0 .. MaxFifo]
    BY <1>1 DEF Init
  <2>4. arm \in [Procs -> Int]
    BY DEF Init
  <2>. QED  BY <1>1, <2>1, <2>2, <2>3, <2>4 DEF Init, TypeOK
<1>3. PromptDelivery /\ FrozenHasEvent
  BY DEF Init, PromptDelivery, FrozenHasEvent, InLoop
<1>. QED  BY <1>2, <1>3 DEF IInv

(* Entering NDS_exec, or waking the sleeping machine there.                *)
LEMMA ExecIInv == IInv /\ NDS_exec => IInv'
  BY DEF NDS_exec, IInv, TypeOK, PromptDelivery, FrozenHasEvent, InLoop, times, devices, irqs, items

(* Input between two frames.                                               *)
LEMMA InputIInv == IInv /\ UserInput => IInv'
  BY DEF UserInput, IInv, TypeOK, PromptDelivery, FrozenHasEvent, InLoop, times, devices, items, Procs

(* A display event.                                                        *)
LEMMA DispcntIInv == IInv /\ execHardware_dispcnt => IInv'
<1>. SUFFICES ASSUME IInv, execHardware_dispcnt PROVE IInv'
  OBVIOUS
<1>. USE DurationAssumption, LinesAssumption, DevicesAssumption
       DEF IInv, TypeOK, PromptDelivery, FrozenHasEvent, InLoop, times, items, Events
<1>1. CASE HStart /\ now >= dispcnt.at
  <2>1. VCount' \in 0 .. Lines - 1
    BY <1>1 DEF HStart, NextLine
  <2>2. Restarted(gxfifo) \in [enabled : BOOLEAN, at : Int, size : 0 .. MaxFifo]
    BY DEF Restarted, RescheduleGXFIFO
  <2>3. gxfifo' \in [enabled : BOOLEAN, at : Int, size : 0 .. MaxFifo] /\ isSwapBuffers' \in BOOLEAN
    BY <1>1, <2>2 DEF HStart
  <2>4. /\ IF_pending' \subseteq Procs /\ UNCHANGED IF_bits
        /\ nds_vblankEnded' \in BOOLEAN /\ reschedule' \in BOOLEAN
    BY <1>1 DEF HStart
  <2>5. /\ pc' = "items" /\ dispcnt' \in [param : Events, at : Int]
        /\ UNCHANGED <<doarm7, times, sleeping, unit, dma, freezeBus, IE, open, waitIRQ,
                       halt_IE_and_IF, gxfifo_irq>>
    BY <1>1 DEF HStart, Display
  <2>. QED  BY <2>1, <2>3, <2>4, <2>5
<1>2. CASE HStartIRQ /\ now >= dispcnt.at
  BY <1>2 DEF HStartIRQ, Display
<1>3. CASE HDraw /\ now >= dispcnt.at
  BY <1>3 DEF HDraw, Display
<1>4. CASE HBlank /\ now >= dispcnt.at
  BY <1>4 DEF HBlank, Display
<1>5. CASE /\ now < dispcnt.at /\ pc' = "items"
           /\ UNCHANGED <<doarm7, times, reschedule, nds_vblankEnded, sleeping, devices, irqs>>
  BY <1>5 DEF devices, irqs
<1>. QED  BY <1>1, <1>2, <1>3, <1>4, <1>5 DEF execHardware_dispcnt

(* The other hardware items, executed one after the other.                 *)
LEMMA ItemsIInv == IInv /\ execHardware_items => IInv'
<1>. SUFFICES ASSUME IInv, execHardware_items PROVE IInv'
  OBVIOUS
<1>. USE DevicesAssumption DEF IInv, TypeOK, FrozenHasEvent
<1>1. Executed \in 0 .. gxfifo.size
  BY LowerFacts DEF Executed
<1>2. gxfifo' \in [enabled : BOOLEAN, at : Int, size : 0 .. MaxFifo] /\ isSwapBuffers' \in BOOLEAN
  <2>1. CASE gxfifo.enabled /\ now >= gxfifo.at /\ Executed > 0
    BY <1>1, <2>1 DEF execHardware_items, execHardware_gxfifo
  <2>2. CASE gxfifo.enabled /\ now >= gxfifo.at /\ Executed = 0
    <3>1. (Executed > 0) = FALSE /\ gxfifo.size - Executed = gxfifo.size
      BY <2>2
    <3>2. gxfifo' = [enabled |-> FALSE, at |-> 0, size |-> gxfifo.size] /\ UNCHANGED isSwapBuffers
      BY <2>2, <3>1, Zenon DEF execHardware_items, execHardware_gxfifo
    <3>. QED  BY <3>2
  <2>3. CASE ~(gxfifo.enabled /\ now >= gxfifo.at)
    BY <2>3 DEF execHardware_items, execHardware_gxfifo
  <2>. QED  BY <1>1, <2>1, <2>2, <2>3
<1>3. /\ dma' \in [state : {"off", "start", "copy"}, at : Int]
      /\ freezeBus' \subseteq {"gx", "dma"} /\ IF_bits' \subseteq Procs
      /\ "dma" \in freezeBus' => dma'.state = "copy"
  <2>1. CASE dma.state = "start" /\ now >= dma.at
    <3>1. PICK t \in DmaCycles : dma' = [state |-> "copy", at |-> now + t]
      BY <2>1 DEF execHardware_items, execHardware_dma
    <3>2. dma' \in [state : {"off", "start", "copy"}, at : Int] /\ dma'.state = "copy"
      BY <3>1
    <3>3. freezeBus' \subseteq {"gx", "dma"} /\ UNCHANGED IF_bits
      BY <2>1 DEF execHardware_items, execHardware_dma
    <3>. QED  BY <3>2, <3>3
  <2>2. CASE dma.state = "copy" /\ now >= dma.at
    <3>1. dma' = [state |-> "off", at |-> 0] /\ freezeBus' = freezeBus \ {"dma"}
      BY <2>2 DEF execHardware_items, execHardware_dma, Unfrozen
    <3>2. dma' \in [state : {"off", "start", "copy"}, at : Int]
      BY <3>1
    <3>3. IF_bits' \subseteq Procs
      BY <2>2 DEF execHardware_items, execHardware_dma, Procs
    <3>. QED  BY <3>1, <3>2, <3>3
  <2>3. CASE dma.state = "off" \/ ~(now >= dma.at)
    BY <2>3 DEF execHardware_items, execHardware_dma
  <2>. QED  BY <2>1, <2>2, <2>3
<1>4. unit' \in [running : BOOLEAN, at : Int]
  BY DEF execHardware_items
<1>. QED
  BY <1>2, <1>3, <1>4 DEF execHardware_items, PromptDelivery, InLoop, times

(* Delivering interrupts leaves none that could still be taken.            *)
LEMMA InterruptsIInv == IInv /\ execHardware_interrupts => IInv'
<1>. SUFFICES ASSUME IInv, execHardware_interrupts PROVE IInv'
  OBVIOUS
<1>. USE DEF IInv, TypeOK, FrozenHasEvent
<1>1. s32next' \in Int /\ timer' \in Int
  BY FindNextFacts, LowerFacts, WorkAssumption DEF execHardware_interrupts, Procs
<1>2. IF_bits' \cap IE' \cap open' = {}
  BY DEF execHardware_interrupts, gen_IF
<1>. QED
  BY <1>1, <1>2 DEF execHardware_interrupts, PromptDelivery, devices, items, gen_IF

-----------------------------------------------------------------------------
(* The inner loop                                                          *)

(* What an instruction may leave behind: whatever makes an interrupt       *)
(* deliverable also asks for a reschedule, and no instruction touches the  *)
(* part of the bus that a DMA has frozen.                                  *)
InstructionPost ==
    /\ reschedule' \in BOOLEAN /\ sleeping' \in BOOLEAN
    /\ UNCHANGED <<dispcnt, isSwapBuffers>>
    /\ unit' \in [running : BOOLEAN, at : Int]
    /\ dma' \in [state : {"off", "start", "copy"}, at : Int]
    /\ gxfifo' \in [enabled : BOOLEAN, at : Int, size : 0 .. MaxFifo]
    /\ freezeBus' \subseteq {"gx"}
    /\ IF_bits' \subseteq Procs /\ IE' \subseteq Procs /\ open' \subseteq Procs
    /\ waitIRQ' \subseteq Procs /\ halt_IE_and_IF' \subseteq Procs /\ gxfifo_irq' \in BOOLEAN
    /\ IF_bits' \cap IE' \cap open' # {} => reschedule'

(* Every kind of instruction satisfies it.                                 *)
LEMMA InstructionFacts ==
    ASSUME TypeOK, NEW p \in Procs, Instruction(p), freezeBus = {},
           IF_bits \cap IE \cap open # {} => reschedule
    PROVE  InstructionPost
<1>. USE DEF TypeOK, InstructionPost
<1>1. CASE Plain
  BY <1>1 DEF Plain, items
<1>2. CASE Halt(p)
  BY <1>2 DEF Halt, items
<1>3. CASE WriteIE(p)
  BY <1>3 DEF WriteIE, items
<1>4. CASE WriteIME(p)
  BY <1>4 DEF WriteIME, items
<1>5. CASE Acknowledge(p)
  BY <1>5 DEF Acknowledge, items
<1>6. CASE Signal(p)
  BY <1>6 DEF Signal, items, Remote, Procs
<1>7. CASE execdiv
  <2>1. unit' \in [running : BOOLEAN, at : Int]
    BY <1>7, DevicesAssumption DEF execdiv
  <2>. QED  BY <1>7, <2>1 DEF execdiv
<1>8. CASE WriteDma
  <2>1. dma' \in [state : {"off", "start", "copy"}, at : Int]
    BY <1>8 DEF WriteDma
  <2>. QED  BY <1>8, <2>1 DEF WriteDma
<1>9. CASE GFX_FIFOsend
  <2>1. PICK n \in Bursts :
          /\ gxfifo.size + n <= MaxFifo
          /\ gxfifo' = [RescheduleGXFIFO(gxfifo, n) EXCEPT !.size = gxfifo.size + n]
          /\ freezeBus' \subseteq freezeBus \cup {"gx"}
    BY <1>9 DEF GFX_FIFOsend
  <2>2. RescheduleGXFIFO(gxfifo, n) \in [enabled : BOOLEAN, at : Int, size : 0 .. MaxFifo]
    BY DevicesAssumption DEF RescheduleGXFIFO
  <2>3. gxfifo.size + n \in 0 .. MaxFifo
    BY <2>1, DevicesAssumption
  <2>4. gxfifo' \in [enabled : BOOLEAN, at : Int, size : 0 .. MaxFifo]
    BY <2>1, <2>2, <2>3
  <2>. QED  BY <1>9, <2>1, <2>4 DEF GFX_FIFOsend
<1>10. CASE WriteGxstat
  BY <1>10 DEF WriteGxstat, items
<1>11. CASE Sleep
  BY <1>11 DEF Sleep, items
<1>. QED
  BY <1>1, <1>2, <1>3, <1>4, <1>5, <1>6, <1>7, <1>8, <1>9, <1>10, <1>11 DEF Instruction

(* The turn of one CPU inside the loop, whether it runs or idles.          *)
TurnPost ==
    /\ arm' \in [Procs -> Int]
    /\ UNCHANGED <<nds_vblankEnded, VCount, IF_pending>>
    /\ reschedule' \in BOOLEAN /\ sleeping' \in BOOLEAN
    /\ UNCHANGED <<dispcnt, isSwapBuffers>>
    /\ unit' \in [running : BOOLEAN, at : Int]
    /\ dma' \in [state : {"off", "start", "copy"}, at : Int]
    /\ gxfifo' \in [enabled : BOOLEAN, at : Int, size : 0 .. MaxFifo]
    /\ freezeBus' \subseteq {"gx", "dma"} /\ FrozenHasEvent'
    /\ IF_bits' \subseteq Procs /\ IE' \subseteq Procs /\ open' \subseteq Procs
    /\ waitIRQ' \subseteq Procs /\ halt_IE_and_IF' \subseteq Procs /\ gxfifo_irq' \in BOOLEAN
    /\ IF_bits' \cap IE' \cap open' # {} => reschedule'

(* A CPU that executes does so on a bus that is not frozen.                *)
LEMMA ExecFacts ==
    ASSUME IInv, InLoop, NEW p \in Procs, armcpu_exec(p)
    PROVE  TurnPost
<1>1. freezeBus = {} /\ Instruction(p)
  BY DEF armcpu_exec, Idle
<1>2. IF_bits \cap IE \cap open # {} => reschedule
  BY DEF IInv, PromptDelivery
<1>3. InstructionPost
  BY <1>1, <1>2, InstructionFacts DEF IInv
<1>4. arm' \in [Procs -> Int]
  BY CostsAssumption DEF armcpu_exec, IInv, TypeOK
<1>. QED  BY <1>3, <1>4 DEF TurnPost, InstructionPost, armcpu_exec, FrozenHasEvent

(* An idle CPU passes its time.                                            *)
LEMMA IdleFacts ==
    ASSUME TypeOK, NEW p \in Procs
    PROVE  IdleUntil(p) \in Int
  BY LowerFacts, WorkAssumption DEF TypeOK, IdleUntil

(* The half of an iteration that belongs to ARM9.                          *)
LEMMA InnerArm9IInv == IInv /\ InnerArm9 => IInv'
<1>. SUFFICES ASSUME IInv, InnerArm9 PROVE IInv'
  OBVIOUS
<1>1. TurnPost
  <2>1. CASE armcpu_exec("arm9")
    BY <2>1, ExecFacts DEF InnerArm9, InLoop, Procs
  <2>2. CASE arm9_idle
    <3>1. arm' \in [Procs -> Int]
      BY <2>2, IdleFacts DEF arm9_idle, IInv, TypeOK, Procs
    <3>. QED
      BY <2>2, <3>1
      DEF arm9_idle, TurnPost, IInv, TypeOK, PromptDelivery, FrozenHasEvent, InnerArm9, InLoop, items, irqs
  <2>3. CASE UNCHANGED <<arm, reschedule, nds_vblankEnded, sleeping, devices, irqs>>
    BY <2>3
    DEF TurnPost, IInv, TypeOK, PromptDelivery, FrozenHasEvent, InnerArm9, InLoop, devices, items, irqs
  <2>. QED  BY <2>1, <2>2, <2>3 DEF InnerArm9
<1>2. pc' = "arm7" /\ UNCHANGED <<doarm7, now, timer, s32next>>
  BY DEF InnerArm9
<1>. QED  BY <1>1, <1>2 DEF TurnPost, IInv, TypeOK, PromptDelivery, InLoop

(* The half of ARM7, and the step to the next iteration.                   *)
LEMMA InnerArm7IInv == IInv /\ InnerArm7 => IInv'
<1>. SUFFICES ASSUME IInv, InnerArm7 PROVE IInv'
  OBVIOUS
<1>0. InLoop
  BY DEF InnerArm7, InLoop
<1>1. TurnPost
  <2>1. CASE armcpu_exec("arm7")
    BY <1>0, <2>1, ExecFacts DEF Procs
  <2>2. CASE /\ arm' = [arm EXCEPT !["arm7"] = IdleUntil("arm7")]
             /\ UNCHANGED <<reschedule, nds_vblankEnded, sleeping, devices, irqs>>
    <3>1. arm' \in [Procs -> Int]
      BY <2>2, IdleFacts DEF IInv, TypeOK, Procs
    <3>. QED
      BY <1>0, <2>2, <3>1
      DEF TurnPost, IInv, TypeOK, PromptDelivery, FrozenHasEvent, devices, items, irqs
  <2>3. CASE UNCHANGED <<arm, reschedule, nds_vblankEnded, sleeping, devices, irqs>>
    BY <1>0, <2>3
    DEF TurnPost, IInv, TypeOK, PromptDelivery, FrozenHasEvent, devices, items, irqs
  <2>. QED  BY <2>1, <2>2, <2>3 DEF InnerArm7
<1>2. /\ pc' = "arm9" /\ UNCHANGED s32next
      /\ doarm7' \in BOOLEAN /\ timer' \in Int /\ now' \in Int
  <2>1. CASE NextIteration
    <3>1. Lower(arm'["arm9"], arm'["arm7"]) \in Int /\ arm'["arm9"] \in Int
      BY <1>1, LowerFacts DEF TurnPost, Procs
    <3>. QED  BY <2>1, <3>1 DEF NextIteration, InnerArm7, IInv, TypeOK
  <2>2. CASE doarm7' = FALSE /\ now' = arm["arm9"] /\ timer' = arm["arm9"] /\ pc' = "arm9"
    BY <2>2 DEF InnerArm7, IInv, TypeOK, Procs
  <2>. QED  BY <2>1, <2>2 DEF InnerArm7
<1>. QED  BY <1>1, <1>2 DEF TurnPost, IInv, TypeOK, PromptDelivery, InLoop

(* Leaving the loop.                                                       *)
LEMMA InnerReturnIInv == IInv /\ InnerReturn => IInv'
<1>. SUFFICES ASSUME IInv, InnerReturn PROVE IInv'
  OBVIOUS
<1>. USE DEF IInv, TypeOK
<1>1. arm' \in [Procs -> Int]
  BY DEF InnerReturn, RolledBack
<1>2. dispcnt' \in [param : Events, at : Int] /\ unit' \in [running : BOOLEAN, at : Int]
  BY DEF InnerReturn
<1>3. dma' \in [state : {"off", "start", "copy"}, at : Int] /\ dma'.state = dma.state
  BY DEF InnerReturn
<1>4. gxfifo' \in [enabled : BOOLEAN, at : Int, size : 0 .. MaxFifo]
  BY DEF InnerReturn
<1>. QED
  BY <1>1, <1>2, <1>3, <1>4 DEF InnerReturn, PromptDelivery, FrozenHasEvent, InLoop, irqs

(* Every step preserves the invariant.                                     *)
LEMMA NextIInv == IInv /\ [Next]_vars => IInv'
<1>1. IInv /\ UNCHANGED vars => IInv'
  BY DEF IInv, TypeOK, PromptDelivery, FrozenHasEvent, InLoop, vars, times, devices, items, irqs
<1>. QED
  BY <1>1, ExecIInv, InputIInv, DispcntIInv, ItemsIInv, InterruptsIInv, InnerArm9IInv,
     InnerArm7IInv, InnerReturnIInv
  DEF Next, Loop

-----------------------------------------------------------------------------
(* The inductive invariant holds in every behaviour of the loop.           *)
THEOREM Invariance == Spec => []IInv
  BY InitIInv, NextIInv, PTL DEF Spec

(* Type correctness of the loop: the line counter stays below the number   *)
(* of lines, and the geometry FIFO within its bound.                       *)
THEOREM TypeCorrect == Spec => []TypeOK
<1>1. IInv => TypeOK
  BY DEF IInv
<1>. QED  BY <1>1, Invariance, PTL

(* For every program: no CPU starts another iteration of armInnerLoop      *)
(* while a latched interrupt is enabled and can be taken.                  *)
THEOREM InterruptsPrompt == Spec => []PromptDelivery
<1>1. IInv => PromptDelivery
  BY DEF IInv
<1>. QED  BY <1>1, Invariance, PTL

(* For every program: a bus that a DMA has frozen has the event that will  *)
(* thaw it.                                                                *)
THEOREM FrozenBusHasEvent == Spec => []FrozenHasEvent
<1>1. IInv => FrozenHasEvent
  BY DEF IInv
<1>. QED  BY <1>1, Invariance, PTL

-----------------------------------------------------------------------------
(* The invariant of time                                                   *)

(* ARM9 is less than an instruction past every hardware event; or, when an *)
(* event is already due that the last instruction scheduled, no more than  *)
(* that instruction.                                                       *)
CaughtUp == \A t \in ItemTimes : arm["arm9"] < t + MaxCost

JustMissed ==
    \A t \in ItemTimes : arm["arm9"] < t + MaxCost \/ (t < now /\ arm["arm9"] <= t + MaxCost)

(* ARM9 is never behind nds_timer, and one CPU is there.                   *)
Level == arm["arm9"] >= now /\ now \in {arm["arm9"], arm["arm7"]}

OutsideTimes ==
    /\ now = 0 /\ Level
    /\ \A p \in Procs : -MaxCost < arm[p] /\ arm[p] < MaxWork + MaxCost

LoopTimes ==
    /\ -MaxCost < timer /\ s32next <= MaxWork
    /\ arm["arm9"] < s32next + MaxCost
    /\ \A p \in Procs : arm[p] < timer + MaxWork + MaxCost
    /\ IF doarm7 THEN timer <= arm["arm7"] ELSE arm["arm7"] = s32next
    /\ ~reschedule => CaughtUp /\ \A t \in ItemTimes : s32next <= t

Arm9Times ==
    /\ Level /\ JustMissed
    /\ timer <= now /\ now \in {timer, 0} /\ timer <= arm["arm9"]
    /\ ~doarm7 => timer = arm["arm9"] /\ now = timer

Arm7Times ==
    /\ timer < s32next /\ timer < arm["arm9"]
    /\ \A t \in ItemTimes :
         arm["arm9"] < t + MaxCost \/ (t <= timer /\ arm["arm9"] <= t + MaxCost)

TimeInv ==
    /\ arm["arm9"] < dispcnt.at + MaxCost
    /\ ~InLoop => OutsideTimes
    /\ pc \in {"call", "interrupts"} => CaughtUp
    /\ pc \in {"dispcnt", "items"} => JustMissed
    /\ InLoop => LoopTimes
    /\ pc = "arm9" => Arm9Times
    /\ pc = "arm7" => Arm7Times

TInv == IInv /\ TimeInv

(* The cost of the longest instruction bounds all of them.                 *)
LEMMA MaxCostFacts == MaxCost \in Nat \ {0} /\ \A p \in Procs : \A d \in Costs[p] : d <= MaxCost
<1>1. MaxCost \in UNION {Costs[p] : p \in Procs} /\ \A p \in Procs : \A d \in Costs[p] : d <= MaxCost
  BY LongestAssumption DEF MaxCost
<1>. QED  BY <1>1, CostsAssumption

(* After a reset.                                                          *)
LEMMA InitTime == Init => TInv
<1>. SUFFICES ASSUME Init PROVE TInv
  OBVIOUS
<1>1. IInv
  BY InitIInv
<1>2. ItemTimes = {0}
  BY DEF Init, ItemTimes
<1>. QED
  BY <1>1, <1>2, MaxCostFacts, WorkAssumption
  DEF Init, TInv, TimeInv, OutsideTimes, Level, CaughtUp, InLoop, Procs

(* Steps between the frames and without a due display event.               *)
LEMMA ExecTime == TInv /\ NDS_exec => TInv'
<1>. SUFFICES ASSUME TInv, NDS_exec PROVE TInv'
  OBVIOUS
<1>1. IInv'
  BY ExecIInv DEF TInv
<1>2. UNCHANGED <<now, arm, dispcnt, unit, dma, gxfifo>> /\ pc = "call" /\ pc' \in {"call", "dispcnt"}
  BY DEF NDS_exec, times, devices, items
<1>. QED
  BY <1>1, <1>2
  DEF TInv, TimeInv, OutsideTimes, Level, CaughtUp, JustMissed, InLoop, ItemTimes

LEMMA InputTime == TInv /\ UserInput => TInv'
<1>. SUFFICES ASSUME TInv, UserInput PROVE TInv'
  OBVIOUS
<1>1. IInv'
  BY InputIInv DEF TInv
<1>2. UNCHANGED <<now, arm, dispcnt, unit, dma, gxfifo, pc>> /\ pc = "call"
  BY DEF UserInput, times, devices, items
<1>. QED
  BY <1>1, <1>2
  DEF TInv, TimeInv, OutsideTimes, Level, CaughtUp, JustMissed, InLoop, ItemTimes

(* A display event is due at most once before the CPUs run, and whatever   *)
(* it schedules comes later than it.                                       *)
LEMMA DispcntTime == TInv /\ execHardware_dispcnt => TInv'
<1>. SUFFICES ASSUME TInv, execHardware_dispcnt PROVE TInv'
  OBVIOUS
<1>1. IInv'
  BY DispcntIInv DEF TInv
<1>2. /\ UNCHANGED <<now, arm, unit, dma>> /\ pc = "dispcnt" /\ pc' = "items"
      /\ arm["arm9"] < dispcnt.at + MaxCost /\ OutsideTimes /\ JustMissed
      /\ arm["arm9"] \in Int /\ now = 0 /\ dispcnt.at \in Int /\ unit.at \in Int /\ dma.at \in Int
      /\ gxfifo.at \in Int
  BY DEF execHardware_dispcnt, HStart, HStartIRQ, HDraw, HBlank, Display, times, devices, items,
         TInv, TimeInv, InLoop, OutsideTimes, IInv, TypeOK, Procs
<1>3. dispcnt'.at \in Int /\ dispcnt'.at >= dispcnt.at
  BY <1>2, DurationAssumption
  DEF execHardware_dispcnt, HStart, HStartIRQ, HDraw, HBlank, Display, devices, items, TInv, IInv, TypeOK
<1>4. \/ UNCHANGED gxfifo
      \/ /\ now >= dispcnt.at /\ gxfifo'.enabled /\ gxfifo'.at \in Int
         /\ gxfifo'.at >= (IF gxfifo.enabled THEN gxfifo.at ELSE 0)
  BY <1>2, DevicesAssumption
  DEF execHardware_dispcnt, HStart, HStartIRQ, HDraw, HBlank, devices, items, Restarted, RescheduleGXFIFO
<1>5. JustMissed'
  <2>. SUFFICES ASSUME NEW t \in ItemTimes'
                PROVE  arm["arm9"] < t + MaxCost \/ (t < 0 /\ arm["arm9"] <= t + MaxCost)
    BY <1>2 DEF JustMissed
  <2>1. CASE t = dispcnt'.at
    BY <2>1, <1>2, <1>3, MaxCostFacts
  <2>2. CASE t \in ItemTimes
    BY <2>2, <1>2 DEF JustMissed
  <2>3. CASE now >= dispcnt.at /\ gxfifo.enabled /\ t \in Int /\ t >= gxfifo.at
    <3>1. gxfifo.at \in ItemTimes
      BY <2>3 DEF ItemTimes
    <3>. QED  BY <3>1, <2>3, <1>2, MaxCostFacts DEF JustMissed
  <2>4. CASE now >= dispcnt.at /\ t \in Int /\ t >= 0
    BY <2>4, <1>2, MaxCostFacts
  <2>. QED  BY <2>1, <2>2, <2>3, <2>4, <1>2, <1>4 DEF ItemTimes
<1>. QED
  BY <1>1, <1>2, <1>3, <1>5, MaxCostFacts DEF TInv, TimeInv, OutsideTimes, Level, InLoop

(* Of the other items those that are due are handled, and what they        *)
(* schedule is not yet due.                                                *)
LEMMA ItemsTime == TInv /\ execHardware_items => TInv'
<1>. SUFFICES ASSUME TInv, execHardware_items PROVE TInv'
  OBVIOUS
<1>1. IInv'
  BY ItemsIInv DEF TInv
<1>2. /\ UNCHANGED <<now, arm, dispcnt>> /\ pc = "items" /\ pc' \in {"call", "interrupts"}
      /\ arm["arm9"] < dispcnt.at + MaxCost /\ OutsideTimes /\ JustMissed
      /\ arm["arm9"] \in Int /\ now = 0 /\ dispcnt.at \in Int
  BY DEF execHardware_items, times, TInv, TimeInv, InLoop, OutsideTimes, IInv, TypeOK, Procs
<1>3. \A t \in ItemTimes' : t = dispcnt.at \/ (t \in ItemTimes /\ 0 <= t) \/ (t \in Nat /\ \E u \in ItemTimes : u <= 0)
  <2>1. unit'.running => unit' = unit /\ 0 < unit.at
    BY <1>2 DEF execHardware_items, TInv, IInv, TypeOK
  <2>2. gxfifo'.enabled => \/ gxfifo' = gxfifo /\ 0 < gxfifo.at
                           \/ gxfifo.enabled /\ gxfifo.at <= 0 /\ gxfifo'.at = 1
    <3>1. CASE gxfifo.enabled /\ now >= gxfifo.at /\ Executed > 0
      BY <1>2, <3>1 DEF execHardware_items, execHardware_gxfifo
    <3>2. CASE gxfifo.enabled /\ now >= gxfifo.at /\ ~(Executed > 0)
      <4>1. (Executed > 0) = FALSE
        BY <3>2
      <4>2. gxfifo' = [enabled |-> FALSE, at |-> 0, size |-> gxfifo.size - Executed]
        BY <3>2, <4>1, Zenon DEF execHardware_items, execHardware_gxfifo
      <4>. QED  BY <4>2
    <3>3. CASE ~(gxfifo.enabled /\ now >= gxfifo.at)
      BY <1>2, <3>3 DEF execHardware_items, execHardware_gxfifo, TInv, IInv, TypeOK
    <3>. QED  BY <3>1, <3>2, <3>3, <1>2 DEF TInv, IInv, TypeOK
  <2>3. dma'.state # "off" => \/ dma' = dma /\ 0 < dma.at
                              \/ dma.state # "off" /\ dma.at <= 0 /\ dma'.at \in Nat
    BY <1>2, DevicesAssumption DEF execHardware_items, execHardware_dma, TInv, IInv, TypeOK
  <2>. QED
    BY <1>2, <2>1, <2>2, <2>3 DEF ItemTimes, TInv, IInv, TypeOK
<1>4. CaughtUp'
  <2>1. ItemTimes \subseteq Int
    BY DEF ItemTimes, TInv, IInv, TypeOK
  <2>2. SUFFICES ASSUME NEW t \in ItemTimes' PROVE arm["arm9"] < t + MaxCost
    BY <1>2 DEF CaughtUp
  <2>3. CASE t \in ItemTimes /\ 0 <= t
    BY <2>1, <2>3, <1>2 DEF JustMissed
  <2>4. CASE t \in Nat /\ \E u \in ItemTimes : u <= 0
    <3>1. PICK u \in ItemTimes : u <= 0
      BY <2>4
    <3>2. arm["arm9"] < MaxCost
      BY <2>1, <3>1, <1>2, MaxCostFacts DEF JustMissed
    <3>. QED  BY <2>4, <3>2, <1>2, MaxCostFacts
  <2>. QED  BY <1>2, <1>3, <2>3, <2>4
<1>. QED
  BY <1>1, <1>2, <1>4, MaxCostFacts DEF TInv, TimeInv, OutsideTimes, Level, InLoop

(* The loop is entered with the time of the next event.                    *)
LEMMA InterruptsTime == TInv /\ execHardware_interrupts => TInv'
<1>. SUFFICES ASSUME TInv, execHardware_interrupts PROVE TInv'
  OBVIOUS
<1>1. IInv' /\ TypeOK
  BY InterruptsIInv DEF TInv, IInv
<1>2. /\ UNCHANGED <<now, arm, dispcnt, unit, dma, gxfifo>> /\ pc = "interrupts" /\ pc' = "arm9"
      /\ ~reschedule' /\ doarm7' = TRUE /\ now = 0
      /\ arm["arm9"] < dispcnt.at + MaxCost /\ OutsideTimes /\ CaughtUp
      /\ arm["arm9"] \in Int /\ arm["arm7"] \in Int
  BY DEF execHardware_interrupts, devices, items, TInv, TimeInv, InLoop, OutsideTimes, IInv, TypeOK, Procs
<1>3. /\ s32next' \in {findNext, MaxWork} /\ s32next' <= findNext /\ s32next' <= MaxWork
      /\ findNext \in ItemTimes /\ findNext \in Int /\ \A t \in ItemTimes : findNext <= t
  BY <1>1, <1>2, FindNextFacts, LowerFacts, WorkAssumption DEF execHardware_interrupts
<1>4. timer' \in {arm["arm9"], arm["arm7"]} /\ timer' <= arm["arm9"] /\ timer' <= arm["arm7"]
  BY <1>2, LowerFacts DEF execHardware_interrupts
<1>5. ItemTimes' = ItemTimes /\ ItemTimes \subseteq Int
  BY <1>1, <1>2 DEF ItemTimes, TypeOK
<1>6. LoopTimes'
  <2>1. -MaxCost < timer'
    BY <1>2, <1>4 DEF OutsideTimes, Procs
  <2>2. arm["arm9"] < s32next' + MaxCost
    BY <1>2, <1>3, WorkAssumption, MaxCostFacts DEF OutsideTimes, CaughtUp, Procs
  <2>3. \A p \in Procs : arm[p] < timer' + MaxWork + MaxCost
    BY <1>2, <1>4, WorkAssumption, MaxCostFacts DEF OutsideTimes, Level, Procs
  <2>4. CaughtUp' /\ \A t \in ItemTimes' : s32next' <= t
    BY <1>2, <1>3, <1>5, WorkAssumption DEF CaughtUp
  <2>. QED  BY <1>2, <1>3, <1>4, <2>1, <2>2, <2>3, <2>4 DEF LoopTimes
<1>7. Arm9Times'
  BY <1>2, <1>4, <1>5 DEF Arm9Times, OutsideTimes, Level, CaughtUp, JustMissed
<1>. QED  BY <1>1, <1>2, <1>6, <1>7 DEF TInv, TimeInv, InLoop

(* While no item changes the set of the event times stays.                 *)
LEMMA ItemsKept == UNCHANGED items => ItemTimes' = ItemTimes
  BY DEF items, ItemTimes

(* An instruction schedules nothing earlier than nds_timer, only ARM9      *)
(* schedules anything, and the loop is left after it.                      *)
LEMMA InstructionTimes ==
    ASSUME TypeOK, NEW p \in Procs, Instruction(p)
    PROVE  /\ UNCHANGED <<dispcnt, isSwapBuffers>>
           /\ reschedule => reschedule'
           /\ ~reschedule' \/ p = "arm7" => UNCHANGED items
           /\ \A t \in ItemTimes' : t \in Int /\ (t >= now \/ \E u \in ItemTimes : u <= t)
<1>. USE DEF TypeOK
<1>0. ItemTimes \subseteq Int
  BY DEF ItemTimes
<1>1. CASE UNCHANGED <<items, isSwapBuffers>> /\ (reschedule => reschedule')
  BY <1>0, <1>1 DEF items, ItemTimes
<1>2. CASE execdiv /\ p = "arm9"
  <2>1. /\ UNCHANGED <<dispcnt, dma, gxfifo, isSwapBuffers>> /\ reschedule'
        /\ unit'.at \in Int /\ unit'.at >= now
    BY <1>2, DevicesAssumption DEF execdiv
  <2>. QED  BY <1>0, <1>2, <2>1 DEF ItemTimes, items
<1>3. CASE WriteDma /\ p = "arm9"
  <2>1. /\ UNCHANGED <<dispcnt, unit, gxfifo, isSwapBuffers>> /\ reschedule'
        /\ dma'.at = now
    BY <1>3 DEF WriteDma
  <2>. QED  BY <1>0, <1>3, <2>1 DEF ItemTimes, items
<1>4. CASE GFX_FIFOsend /\ p = "arm9"
  <2>1. UNCHANGED <<dispcnt, unit, dma, isSwapBuffers>> /\ reschedule'
    BY <1>4 DEF GFX_FIFOsend
  <2>2. PICK n \in Bursts : gxfifo' = [RescheduleGXFIFO(gxfifo, n) EXCEPT !.size = gxfifo.size + n]
    BY <1>4 DEF GFX_FIFOsend
  <2>3. gxfifo'.at = (IF gxfifo.enabled THEN gxfifo.at ELSE now) + n /\ n \in Nat
    BY <2>2, DevicesAssumption DEF RescheduleGXFIFO
  <2>4. gxfifo'.at \in Int /\ (gxfifo'.at >= now \/ \E u \in ItemTimes : u <= gxfifo'.at)
    <3>1. CASE gxfifo.enabled
      <4>1. gxfifo.at \in ItemTimes
        BY <3>1 DEF ItemTimes
      <4>. QED  BY <2>3, <3>1, <4>1
    <3>. QED  BY <2>3, <3>1
  <2>. QED  BY <1>0, <1>4, <2>1, <2>4 DEF ItemTimes, items
<1>. QED
  BY <1>1, <1>2, <1>3, <1>4
  DEF Instruction, Plain, Halt, WriteIE, WriteIME, Acknowledge, Signal, Sleep, WriteGxstat, Procs

(* What is known when one half of an iteration begins.                     *)
LEMMA LoopFacts ==
    ASSUME TInv, InLoop
    PROVE  /\ TypeOK /\ LoopTimes /\ ItemTimes \subseteq Int /\ dispcnt.at \in ItemTimes
           /\ arm["arm9"] \in Int /\ arm["arm7"] \in Int /\ now \in Int /\ timer \in Int /\ s32next \in Int
           /\ arm["arm9"] < dispcnt.at + MaxCost
  BY DEF TInv, TimeInv, IInv, TypeOK, ItemTimes, Procs

(* A CPU that executes moves by the cost of one instruction.               *)
LEMMA ExecAdvance ==
    ASSUME TypeOK, NEW p \in Procs, arm[p] = timer,
           \E c \in Costs[p] : arm' = [arm EXCEPT ![p] = @ + c]
    PROVE  /\ \A q \in Procs \ {p} : arm'[q] = arm[q]
           /\ arm'[p] \in Int /\ timer < arm'[p] /\ arm'[p] <= timer + MaxCost
  BY CostsAssumption, MaxCostFacts DEF TypeOK

(* One that idles moves too, at most to the next event.                    *)
LEMMA IdleAdvance ==
    ASSUME TypeOK, NEW p \in Procs, arm[p] = timer, timer < s32next,
           arm' = [arm EXCEPT ![p] = IdleUntil(p)]
    PROVE  /\ \A q \in Procs \ {p} : arm'[q] = arm[q]
           /\ arm'[p] \in Int /\ timer < arm'[p] /\ arm'[p] <= s32next
<1>1. /\ IdleUntil(p) \in {s32next, arm[p] + IrqWait}
      /\ IdleUntil(p) <= s32next /\ IrqWait \in Nat \ {0} /\ arm[p] \in Int
  BY LowerFacts, WorkAssumption DEF IdleUntil, TypeOK
<1>. QED  BY <1>1 DEF TypeOK

(* The half of ARM9.                                                       *)
LEMMA InnerArm9Time == TInv /\ InnerArm9 => TInv'
<1>. SUFFICES ASSUME TInv, InnerArm9 PROVE TInv'
  OBVIOUS
<1>1. IInv'
  BY InnerArm9IInv DEF TInv
<1>2. /\ pc = "arm9" /\ pc' = "arm7" /\ InLoop /\ ~reschedule /\ timer < s32next
      /\ UNCHANGED <<doarm7, now, timer, s32next>> /\ Arm9Times
      /\ \A t \in ItemTimes : s32next <= t
  BY DEF InnerArm9, Running, InLoop, TInv, TimeInv, LoopTimes
<1>3. /\ TypeOK /\ LoopTimes /\ ItemTimes \subseteq Int /\ dispcnt.at \in ItemTimes
      /\ arm["arm9"] \in Int /\ arm["arm7"] \in Int /\ now \in Int /\ timer \in Int /\ s32next \in Int
      /\ arm["arm9"] < dispcnt.at + MaxCost
      /\ MaxCost \in Nat \ {0} /\ MaxWork \in Nat \ {0}
  BY <1>2, LoopFacts, MaxCostFacts, WorkAssumption
<1>4. /\ UNCHANGED dispcnt
      /\ ~reschedule' => UNCHANGED items
      /\ \A t \in ItemTimes' : t \in Int /\ (t >= now \/ \E u \in ItemTimes : u <= t)
  <2>1. CASE armcpu_exec("arm9")
    <3>1. "arm9" \in Procs /\ Instruction("arm9")
      BY <2>1 DEF armcpu_exec, Procs
    <3>. QED  BY <1>2, <1>3, <3>1, InstructionTimes
  <2>2. CASE UNCHANGED <<items, reschedule>>
    <3>1. ItemTimes' = ItemTimes /\ UNCHANGED dispcnt
      BY <2>2, ItemsKept DEF items
    <3>. QED  BY <1>3, <2>2, <3>1
  <2>. QED  BY <2>1, <2>2 DEF InnerArm9, arm9_idle, devices
<1>5. /\ timer < arm'["arm9"] /\ arm'["arm9"] \in Int /\ arm'["arm7"] = arm["arm7"]
      /\ \/ arm'["arm9"] <= timer + MaxCost
         \/ (arm'["arm9"] <= s32next \/ UNCHANGED arm) /\ UNCHANGED items
  <2>1. CASE /\ UNCHANGED <<arm, reschedule, nds_vblankEnded, sleeping, devices, irqs>>
             /\ doarm7 /\ ~Turn("arm9")
    BY <1>2, <1>3, <2>1 DEF Turn, Arm9Times, devices
  <2>2. CASE armcpu_exec("arm9") /\ arm["arm9"] = timer
    BY <1>3, <2>2, ExecAdvance DEF armcpu_exec, Procs
  <2>3. CASE arm9_idle /\ arm["arm9"] = timer
    BY <1>2, <1>3, <2>3, IdleAdvance DEF arm9_idle, Procs
  <2>4. ~doarm7 \/ Turn("arm9") => arm["arm9"] = timer
    BY <1>2, <1>3 DEF Turn, Arm9Times
  <2>. QED  BY <2>1, <2>2, <2>3, <2>4 DEF InnerArm9
<1>6. arm'["arm9"] < s32next + MaxCost
  BY <1>2, <1>3, <1>5 DEF LoopTimes
<1>7. arm'["arm9"] < dispcnt'.at + MaxCost
  <2>1. dispcnt'.at = dispcnt.at /\ dispcnt.at \in Int /\ s32next <= dispcnt.at
    BY <1>2, <1>3, <1>4
  <2>. QED  BY <2>1, <1>3, <1>5, <1>6
<1>8. \A t \in ItemTimes' :
        arm'["arm9"] < t + MaxCost \/ (t <= timer /\ arm'["arm9"] <= t + MaxCost)
  <2>. SUFFICES ASSUME NEW t \in ItemTimes'
                PROVE  arm'["arm9"] < t + MaxCost \/ (t <= timer /\ arm'["arm9"] <= t + MaxCost)
    OBVIOUS
  <2>1. CASE \E u \in ItemTimes : u <= t
    <3>1. PICK u \in ItemTimes : u <= t
      BY <2>1
    <3>2. s32next <= u /\ u \in Int /\ t \in Int
      BY <1>2, <1>3, <1>4
    <3>. QED  BY <1>3, <1>5, <1>6, <3>1, <3>2
  <2>2. CASE UNCHANGED items
    <3>1. t \in ItemTimes
      BY <2>2, ItemsKept
    <3>2. s32next <= t /\ t \in Int
      BY <1>2, <1>3, <3>1
    <3>. QED  BY <1>3, <1>5, <1>6, <3>2
  <2>3. CASE t >= now /\ arm'["arm9"] <= timer + MaxCost
    BY <1>2, <1>3, <1>4, <1>5, <2>3 DEF Arm9Times
  <2>. QED  BY <1>4, <1>5, <2>1, <2>2, <2>3
<1>9. LoopTimes'
  <2>1. ~reschedule' => ItemTimes' = ItemTimes
    BY <1>4, ItemsKept
  <2>2. ~reschedule' => CaughtUp'
    <3>. SUFFICES ASSUME ~reschedule', NEW t \in ItemTimes PROVE arm'["arm9"] < t + MaxCost
      BY <2>1 DEF CaughtUp
    <3>1. s32next <= t /\ t \in Int
      BY <1>2, <1>3
    <3>. QED  BY <1>3, <1>5, <1>6, <3>1
  <2>3. \A p \in Procs : arm'[p] < timer' + MaxWork + MaxCost
    BY <1>2, <1>3, <1>5 DEF LoopTimes, Procs
  <2>. QED  BY <1>2, <1>3, <1>5, <1>6, <2>1, <2>2, <2>3 DEF LoopTimes
<1>10. Arm7Times'
  BY <1>2, <1>5, <1>8 DEF Arm7Times
<1>. QED  BY <1>1, <1>2, <1>7, <1>9, <1>10 DEF TInv, TimeInv, InLoop

(* The half of ARM7 schedules nothing, and nds_timer moves on.             *)
LEMMA InnerArm7Time == TInv /\ InnerArm7 => TInv'
<1>. SUFFICES ASSUME TInv, InnerArm7 PROVE TInv'
  OBVIOUS
<1>1. IInv'
  BY InnerArm7IInv DEF TInv
<1>2. pc = "arm7" /\ InLoop /\ Arm7Times /\ UNCHANGED s32next /\ pc' = "arm9"
  BY DEF InnerArm7, NextIteration, InLoop, TInv, TimeInv
<1>3. /\ TypeOK /\ LoopTimes /\ ItemTimes \subseteq Int /\ dispcnt.at \in ItemTimes
      /\ arm["arm9"] \in Int /\ arm["arm7"] \in Int /\ now \in Int /\ timer \in Int /\ s32next \in Int
      /\ arm["arm9"] < dispcnt.at + MaxCost
      /\ MaxCost \in Nat \ {0} /\ MaxWork \in Nat \ {0}
  BY <1>2, LoopFacts, MaxCostFacts, WorkAssumption
<1>4. UNCHANGED items /\ (reschedule => reschedule')
  <2>1. CASE armcpu_exec("arm7")
    <3>1. "arm7" \in Procs /\ Instruction("arm7")
      BY <2>1 DEF armcpu_exec, Procs
    <3>. QED  BY <1>3, <3>1, InstructionTimes
  <2>2. CASE UNCHANGED <<items, reschedule>>
    BY <2>2
  <2>. QED  BY <2>1, <2>2 DEF InnerArm7, devices
<1>5. ItemTimes' = ItemTimes /\ UNCHANGED dispcnt
  BY <1>4, ItemsKept DEF items
<1>6. /\ arm'["arm9"] = arm["arm9"] /\ arm'["arm7"] \in Int
      /\ IF doarm7 THEN timer < arm'["arm7"] ELSE arm'["arm7"] = arm["arm7"]
      /\ arm'["arm7"] < timer + MaxWork + MaxCost
  <2>1. CASE UNCHANGED arm /\ ~(doarm7 /\ Turn("arm7"))
    BY <1>3, <2>1 DEF LoopTimes, Turn, Procs
  <2>2. CASE doarm7 /\ Turn("arm7") /\ armcpu_exec("arm7")
    <3>1. arm["arm7"] = timer
      BY <1>3, <2>2 DEF Turn, LoopTimes
    <3>2. \E c \in Costs["arm7"] : arm' = [arm EXCEPT !["arm7"] = @ + c]
      BY <2>2 DEF armcpu_exec
    <3>3. /\ \A q \in Procs \ {"arm7"} : arm'[q] = arm[q]
          /\ arm'["arm7"] \in Int /\ timer < arm'["arm7"] /\ arm'["arm7"] <= timer + MaxCost
      BY <1>3, <3>1, <3>2, ExecAdvance DEF Procs
    <3>. QED  BY <1>3, <2>2, <3>3 DEF Procs
  <2>3. CASE doarm7 /\ Turn("arm7") /\ arm' = [arm EXCEPT !["arm7"] = IdleUntil("arm7")]
    <3>1. arm["arm7"] = timer
      BY <1>3, <2>3 DEF Turn, LoopTimes
    <3>. QED  BY <1>2, <1>3, <2>3, <3>1, IdleAdvance DEF Arm7Times, LoopTimes, Procs
  <2>. QED  BY <2>1, <2>2, <2>3 DEF InnerArm7
<1>7. /\ now' = timer' /\ timer' \in {arm["arm9"], arm'["arm7"]} /\ timer' <= arm["arm9"]
      /\ timer < timer'
      /\ IF doarm7' THEN timer' <= arm'["arm7"] ELSE arm'["arm7"] = s32next /\ timer' = arm["arm9"]
  <2>1. CASE NextIteration
    <3>1. /\ Lower(arm'["arm9"], arm'["arm7"]) \in {arm'["arm9"], arm'["arm7"]}
          /\ Lower(arm'["arm9"], arm'["arm7"]) <= arm'["arm9"]
          /\ Lower(arm'["arm9"], arm'["arm7"]) <= arm'["arm7"]
      BY <1>3, <1>6, LowerFacts
    <3>2. timer < arm["arm9"] /\ UNCHANGED doarm7 /\ now' = timer'
      BY <1>2, <2>1 DEF NextIteration, Arm7Times
    <3>3. timer' = IF doarm7 THEN Lower(arm'["arm9"], arm'["arm7"]) ELSE arm'["arm9"]
      BY <2>1 DEF NextIteration
    <3>4. CASE doarm7
      BY <1>3, <1>6, <3>1, <3>2, <3>3, <3>4
    <3>5. CASE ~doarm7
      BY <1>3, <1>6, <3>2, <3>3, <3>5 DEF LoopTimes
    <3>. QED  BY <3>4, <3>5
  <2>2. CASE /\ arm'["arm7"] = s32next /\ doarm7' = FALSE
             /\ now' = arm["arm9"] /\ timer' = arm["arm9"]
    BY <1>2, <1>3, <2>2 DEF Arm7Times
  <2>. QED  BY <2>1, <2>2 DEF InnerArm7
<1>8. LoopTimes'
  <2>1. -MaxCost < timer' /\ s32next' <= MaxWork /\ arm'["arm9"] < s32next' + MaxCost
    BY <1>2, <1>3, <1>6, <1>7 DEF LoopTimes
  <2>2. \A p \in Procs : arm'[p] < timer' + MaxWork + MaxCost
    <3>1. arm["arm9"] < timer + MaxWork + MaxCost
      BY <1>3 DEF LoopTimes, Procs
    <3>. QED  BY <1>3, <1>6, <1>7, <3>1 DEF Procs
  <2>3. ~reschedule' => CaughtUp' /\ \A t \in ItemTimes' : s32next' <= t
    BY <1>2, <1>3, <1>4, <1>5, <1>6 DEF LoopTimes, CaughtUp
  <2>. QED  BY <1>2, <1>7, <2>1, <2>2, <2>3 DEF LoopTimes
<1>9. Arm9Times'
  <2>1. JustMissed'
    <3>. SUFFICES ASSUME NEW t \in ItemTimes
                  PROVE  arm["arm9"] < t + MaxCost \/ (t < now' /\ arm["arm9"] <= t + MaxCost)
      BY <1>5, <1>6 DEF JustMissed
    <3>1. t \in Int /\ (arm["arm9"] < t + MaxCost \/ (t <= timer /\ arm["arm9"] <= t + MaxCost))
      BY <1>2, <1>3 DEF Arm7Times
    <3>2. timer < now' /\ now' \in Int
      BY <1>3, <1>6, <1>7
    <3>. QED  BY <1>3, <3>1, <3>2
  <2>. QED  BY <1>3, <1>6, <1>7, <2>1 DEF Arm9Times, Level
<1>10. arm'["arm9"] < dispcnt'.at + MaxCost
  BY <1>3, <1>5, <1>6
<1>. QED  BY <1>1, <1>2, <1>8, <1>9, <1>10 DEF TInv, TimeInv, InLoop

(* Leaving the loop.                                                       *)
LEMMA InnerReturnTime == TInv /\ InnerReturn => TInv'
<1>. SUFFICES ASSUME TInv, InnerReturn PROVE TInv'
  OBVIOUS
<1>1. IInv'
  BY InnerReturnIInv DEF TInv
<1>2. /\ pc = "arm9" /\ InLoop /\ Arm9Times /\ pc' = "dispcnt" /\ now' = 0
      /\ arm' = [p \in Procs |-> RolledBack(p) - now]
  BY DEF InnerReturn, InLoop, TInv, TimeInv
<1>3. /\ TypeOK /\ LoopTimes /\ ItemTimes \subseteq Int /\ dispcnt.at \in ItemTimes
      /\ arm["arm9"] \in Int /\ arm["arm7"] \in Int /\ now \in Int /\ timer \in Int /\ s32next \in Int
      /\ arm["arm9"] < dispcnt.at + MaxCost
      /\ MaxCost \in Nat \ {0} /\ MaxWork \in Nat \ {0}
  BY <1>2, LoopFacts, MaxCostFacts, WorkAssumption
<1>4. \A p \in Procs : arm'[p] = 0 \/ arm'[p] = arm[p] - now
  BY <1>2, <1>3 DEF RolledBack, TypeOK
<1>5. dispcnt'.at = dispcnt.at - now
  BY <1>3 DEF InnerReturn, TypeOK
<1>6. \A t \in ItemTimes' : \E u \in ItemTimes : t = u - now
  <2>1. unit'.running => unit.running /\ unit'.at = unit.at - now
    BY <1>3 DEF InnerReturn, TypeOK
  <2>2. dma'.state # "off" => dma.state # "off" /\ dma'.at = dma.at - now
    BY <1>3 DEF InnerReturn, TypeOK
  <2>3. gxfifo'.enabled => gxfifo.enabled /\ gxfifo'.at = gxfifo.at - now
    BY <1>3 DEF InnerReturn, TypeOK
  <2>. SUFFICES ASSUME NEW t \in ItemTimes' PROVE \E u \in ItemTimes : t = u - now
    OBVIOUS
  <2>4. \/ t = dispcnt'.at
        \/ unit'.running /\ t = unit'.at
        \/ gxfifo'.enabled /\ t = gxfifo'.at
        \/ dma'.state # "off" /\ t = dma'.at
    BY DEF ItemTimes
  <2>5. /\ dispcnt.at \in ItemTimes
        /\ unit.running => unit.at \in ItemTimes
        /\ gxfifo.enabled => gxfifo.at \in ItemTimes
        /\ dma.state # "off" => dma.at \in ItemTimes
    BY DEF ItemTimes
  <2>. QED  BY <1>5, <2>1, <2>2, <2>3, <2>4, <2>5
<1>7. arm'["arm9"] \in Int /\ 0 <= arm'["arm9"] /\ arm'["arm9"] <= arm["arm9"] - now
  BY <1>2, <1>3, <1>4 DEF Arm9Times, Level, Procs
<1>8. JustMissed'
  <2>. SUFFICES ASSUME NEW t \in ItemTimes'
                PROVE  arm'["arm9"] < t + MaxCost \/ (t < 0 /\ arm'["arm9"] <= t + MaxCost)
    BY <1>2 DEF JustMissed
  <2>1. PICK u \in ItemTimes : t = u - now
    BY <1>6
  <2>2. u \in Int /\ (arm["arm9"] < u + MaxCost \/ (u < now /\ arm["arm9"] <= u + MaxCost))
    BY <1>2, <1>3 DEF Arm9Times, JustMissed
  <2>. QED  BY <1>3, <1>7, <2>1, <2>2
<1>9. OutsideTimes'
  <2>1. 0 \in {arm'["arm9"], arm'["arm7"]}
    BY <1>2, <1>3, <1>4 DEF Arm9Times, Level, Procs
  <2>2. \A p \in Procs : arm[p] - now < MaxWork + MaxCost
    BY <1>2, <1>3 DEF LoopTimes, Arm9Times, Procs
  <2>3. \A p \in Procs : -MaxCost < arm[p] - now
    <3>1. CASE doarm7
      BY <1>2, <1>3, <3>1 DEF LoopTimes, Arm9Times, Procs
    <3>2. CASE ~doarm7
      BY <1>2, <1>3, <3>2 DEF LoopTimes, Arm9Times, Procs
    <3>. QED  BY <3>1, <3>2
  <2>4. \A p \in Procs : -MaxCost < arm'[p] /\ arm'[p] < MaxWork + MaxCost
    BY <1>3, <1>4, <2>2, <2>3
  <2>. QED  BY <1>2, <1>7, <2>1, <2>4 DEF OutsideTimes, Level
<1>10. arm'["arm9"] < dispcnt'.at + MaxCost
  BY <1>3, <1>5, <1>7 DEF TypeOK
<1>. QED  BY <1>1, <1>2, <1>8, <1>9, <1>10 DEF TInv, TimeInv, InLoop

(* Every step preserves the invariant of time.                             *)
LEMMA NextTime == TInv /\ [Next]_vars => TInv'
<1>1. TInv /\ UNCHANGED vars => TInv'
  <2>. SUFFICES ASSUME TInv, UNCHANGED vars PROVE TInv'
    OBVIOUS
  <2>1. IInv'
    BY NextIInv DEF TInv
  <2>2. ItemTimes' = ItemTimes
    BY ItemsKept DEF vars, devices
  <2>. QED
    BY <2>1, <2>2 DEF TInv, TimeInv, InLoop, OutsideTimes, Level, CaughtUp, JustMissed,
       LoopTimes, Arm9Times, Arm7Times, vars, times, devices, items
<1>. QED
  BY <1>1, ExecTime, InputTime, DispcntTime, ItemsTime, InterruptsTime, InnerArm9Time,
     InnerArm7Time, InnerReturnTime
  DEF Next, Loop

(* The invariant of time holds in every behaviour of the loop.             *)
THEOREM TimeInvariance == Spec => []TInv
  BY InitTime, NextTime, PTL DEF Spec

(* For every program, every cost of the instructions and every device      *)
(* time: no hardware event is handled later than one instruction after it  *)
(* was due.                                                                *)
THEOREM EventsHandledOnTime == Spec => []EventsOnTime
<1>1. TInv => EventsOnTime
  <2>. SUFFICES ASSUME TInv, pc = "dispcnt"
                PROVE  now - dispcnt.at < MaxCost /\ \A t \in ItemTimes : now - t <= MaxCost
    BY DEF EventsOnTime
  <2>1. /\ now = 0 /\ arm["arm9"] >= 0 /\ JustMissed /\ arm["arm9"] < dispcnt.at + MaxCost
        /\ arm["arm9"] \in Int /\ dispcnt.at \in Int /\ MaxCost \in Nat /\ ItemTimes \subseteq Int
    BY MaxCostFacts DEF TInv, TimeInv, InLoop, OutsideTimes, Level, IInv, TypeOK, ItemTimes, Procs
  <2>2. \A t \in ItemTimes : 0 - t <= MaxCost
    BY <2>1 DEF JustMissed
  <2>. QED  BY <2>1, <2>2
<1>. QED  BY <1>1, TimeInvariance, PTL

(* For every program: when the loop is left the two CPUs are in step.      *)
THEOREM TimersInStep == Spec => []CpusInStep
<1>1. TInv => CpusInStep
  <2>. SUFFICES ASSUME TInv, pc = "dispcnt", NEW p \in Procs
                PROVE  -MaxCost < arm[p] /\ arm[p] <= MaxWork + MaxCost
    BY DEF CpusInStep
  <2>1. -MaxCost < arm[p] /\ arm[p] < MaxWork + MaxCost
    BY DEF TInv, TimeInv, InLoop, OutsideTimes
  <2>2. arm[p] \in Int /\ MaxCost \in Nat /\ MaxWork \in Nat
    BY MaxCostFacts, WorkAssumption DEF TInv, IInv, TypeOK
  <2>. QED  BY <2>1, <2>2
<1>. QED  BY <1>1, TimeInvariance, PTL
=============================================================================
