---------------------------- MODULE GeometryDma ----------------------------
(***************************************************************************)
(* The DMA channels (DmaController, MMU.cpp), the geometry FIFO they feed  *)
(* (FIFO.cpp), the geometry engine that drains it (gfx3d_execute3D) and    *)
(* the display events that trigger transfers, in the order in which        *)
(* Sequencer::execHardware runs them.                                      *)
(*                                                                         *)
(* Times are abstracted: an event scheduled for nds_timer is due at once,  *)
(* one scheduled for later becomes due at the end of some later slice of   *)
(* the CPUs.  `turn' is the item of execHardware that runs next, 0 while   *)
(* the CPUs run.                                                           *)
(***************************************************************************)
EXTENDS Integers, Sequences, FiniteSets

CONSTANTS Order,       \* the DMA channels, in the order in which they run
          Arm9Dma,     \* those of ARM9
          Programs,    \* what software may do; a behaviour follows one of them
          Rewriters,   \* channels whose control software rewrites at any time
          Drawn,       \* lines drawn in a frame: 192
          Low,         \* entries up to which the FIFO asks for more: 127
          Full,        \* entries from which the bus is frozen: 255
          DmaBatch,    \* words a channel sends to the FIFO at once: 112
          FifoBatch,   \* commands executed at once: 64
          LineWords,   \* words of a displayed line: 128
          MaxCount,    \* the word count that 0 stands for on ARM9: 2^21
          WordSpace,   \* 2^32
          MaxFifo,     \* bound: entries of the FIFO up to which software sends without waiting
          Packed       \* Packed[n]: the commands that n words sent to the packed port may become

Channels == {Order[i] : i \in 1 .. Len(Order)}
Modes == {"Immediate", "VBlank", "HBlank", "HStart", "MemDisplay", "Card", "GXFifo"}
Modes7 == {"Immediate", "VBlank", "Card"}
Items == <<"display", "gxfifo">> \o Order
ItemSet == {"display", "gxfifo"} \cup Channels
Commands == {"cmd", "swap"}

(* The control word of a transfer; not valid: with an address mode that    *)
(* doCopy refuses.  port: its destination is the packed port of the        *)
(* geometry engine, in whatever mode it starts.                            *)
Request ==
    [startmode : Modes, wordcount : 0 .. WordSpace - 1, repeatMode : BOOLEAN, valid : BOOLEAN, port : BOOLEAN]

(* The registers of a DmaController.                                       *)
Controller ==
    [enable : BOOLEAN, running : BOOLEAN, paused : BOOLEAN, triggered : BOOLEAN, dmaCheck : BOOLEAN,
     repeatMode : BOOLEAN, valid : BOOLEAN, port : BOOLEAN, wordcount : 0 .. WordSpace - 1,
     written : Modes, startmode : Modes]

(* What a program writes to the control of each channel, the commands it   *)
(* writes at once to the direct ports (bursts) and to the packed port of   *)
(* the geometry engine, and the words of the blocks it reads from the      *)
(* game card.                                                              *)
Program ==
    [controls : [Channels -> SUBSET Request], bursts : SUBSET Seq(Commands),
     packets : SUBSET Seq(Commands), cards : SUBSET (1 .. WordSpace - 1)]

ASSUME OrderAssumption ==
    /\ Order \in Seq(Channels)
    /\ Channels \cap {"display", "gxfifo", "gx"} = {}
ASSUME ChannelsAssumption ==
    /\ Arm9Dma \subseteq Channels /\ Rewriters \subseteq Channels
    /\ Programs \subseteq Program
    /\ \A R \in Programs, c \in Channels \ Arm9Dma :
         \A r \in R.controls[c] : r.startmode \in Modes7 /\ ~r.port
ASSUME SizesAssumption ==
    /\ Drawn \in Nat \ {0}
    /\ Low \in Nat /\ Full \in Nat \ {0} /\ Low < Full
    /\ FifoBatch \in Nat \ {0} /\ MaxFifo \in Nat
    /\ WordSpace \in Nat \ {0} /\ LineWords \in 0 .. WordSpace - 1
    /\ DmaBatch \in 1 .. WordSpace - 1 /\ MaxCount \in 1 .. WordSpace - 1
    /\ Packed \in [0 .. WordSpace - 1 -> SUBSET Seq(Commands)]

VARIABLES
    program,        \* what software does in this behaviour
    turn,           \* what runs: the CPUs (0) or an item of execHardware
    due,            \* the items whose time has come
    phase,          \* the next display event (dispcnt.param and VCount)
    dma,            \* the DmaController of each channel
    gxFIFO,         \* the queue of commands
    gxfifo_enabled, \* sequencer.gxfifo.enabled
    isSwapBuffers,
    freezeBus,      \* who has frozen the bus
    transfer_count, \* words left of the card transfer of each CPU
    owed,           \* words the current transfer of a channel still has to move
    since           \* channels that were triggered in their mode since they were enabled

dmaVars == <<program, turn, due, phase, dma, gxFIFO, gxfifo_enabled, isSwapBuffers, freezeBus,
             transfer_count, owed, since>>

Procs == {"arm9", "arm7"}
Cpu(c) == IF c \in Arm9Dma THEN "arm9" ELSE "arm7"
Fewer(a, b) == IF a < b THEN a ELSE b

DmaInit ==
    /\ program \in Programs
    /\ turn = 0 /\ due = {} /\ phase = 1
    /\ dma = [c \in Channels |->
                [enable |-> FALSE, running |-> FALSE, paused |-> FALSE, triggered |-> FALSE,
                 dmaCheck |-> FALSE, repeatMode |-> FALSE, valid |-> TRUE, port |-> FALSE, wordcount |-> 0,
                 written |-> "Immediate", startmode |-> "Immediate"]]
    /\ gxFIFO = <<>> /\ gxfifo_enabled = FALSE /\ isSwapBuffers = FALSE
    /\ freezeBus = {} /\ transfer_count = [p \in Procs |-> 0]
    /\ owed = [c \in Channels |-> 0] /\ since = {}

-----------------------------------------------------------------------------
(* DmaController::tryTrigger for every channel.  A channel is triggered by *)
(* the mode it has latched, not by the one that was written last.          *)
Triggers(d, mode) == d.startmode = mode /\ d.enable /\ ~(d.running /\ ~d.paused)

Hit(d, mode) == {c \in Channels : Triggers(d[c], mode)}

triggerDma(d, mode) ==
    [c \in Channels |-> IF Triggers(d[c], mode)
                          THEN [d[c] EXCEPT !.triggered = TRUE, !.dmaCheck = TRUE]
                          ELSE d[c]]

(* Channels whose software asked for this mode: for them it is a trigger.  *)
Asked(d, mode) == {c \in Channels : d[c].enable /\ d[c].written = mode}

(* GFX_FIFOsend of the commands `new': handleEvents asks for more whenever *)
(* the FIFO is low, and the engine is scheduled for later.                 *)
FifoSend(d, new) ==
    LET low == new # <<>> /\ Len(gxFIFO) + 1 <= Low
    IN  /\ gxFIFO' = gxFIFO \o new
        /\ dma' = IF low THEN triggerDma(d, "GXFifo") ELSE d
        /\ due' = (IF new # <<>> THEN due \ {"gxfifo"} ELSE due)
                    \cup (IF low THEN Hit(d, "GXFifo") ELSE {})
        /\ gxfifo_enabled' = (gxfifo_enabled \/ new # <<>>)

-----------------------------------------------------------------------------
(* Software, while the bus is free                                         *)

(* Software that waits for a transfer to end before it writes the control  *)
(* of its channel again, except to disable one that has not begun.         *)
Polite(d, e) == ~d.running /\ (d.enable => ~e)

(* A trigger from before the channel was enabled is kept.                  *)
KeptTrigger(d, e) == d.triggered

(* "make sure we don't get any old triggers".                              *)
FreshTrigger(d, e) == d.triggered /\ (d.enable \/ ~e)

(* The words that a count stands for.                                      *)
Count(c, n) == IF n = 0 /\ c \in Arm9Dma THEN MaxCount ELSE n

(* DmaController::write32: the channel has a chance to start at once,      *)
(* unless it was enabled and waits for an event.                           *)
write32(c, r, e) ==
    LET d == dma[c]
        schedule == d.startmode \in {"Immediate", "GXFifo"} \/ ~d.enable
    IN  /\ dma' = [dma EXCEPT ![c] =
                     [d EXCEPT !.enable = e, !.repeatMode = r.repeatMode, !.valid = r.valid,
                               !.port = r.port, !.wordcount = r.wordcount, !.written = r.startmode,
                               !.triggered = FreshTrigger(d, e),
                               !.dmaCheck = d.dmaCheck \/ schedule]]
        /\ due' = IF schedule THEN due \cup {c} ELSE due
        /\ owed' = [owed EXCEPT ![c] = IF e THEN Count(c, r.wordcount) ELSE 0]
        /\ since' = since \ {c}

Cleared ==
    [startmode |-> "Immediate", wordcount |-> 0, repeatMode |-> FALSE, valid |-> TRUE, port |-> FALSE]

(* A transfer to the packed port that does not wait for the FIFO.          *)
Overdrives(r) == r.port /\ r.startmode # "GXFifo"

WriteControl(c) ==
    /\ turn = 0 /\ freezeBus = {}
    /\ \/ \E r \in program.controls[c] :
            /\ c \in Rewriters \/ Polite(dma[c], TRUE)
            /\ Overdrives(r) => Len(gxFIFO) <= MaxFifo
            /\ write32(c, r, TRUE)
       \/ /\ dma[c].enable
          /\ c \in Rewriters \/ Polite(dma[c], FALSE)
          /\ write32(c, Cleared, FALSE)
    /\ UNCHANGED <<program, turn, phase, gxFIFO, gxfifo_enabled, isSwapBuffers, freezeBus, transfer_count>>

(* Commands written to the direct ports: from the 255th entry on they      *)
(* freeze the bus, but a block of instructions goes on to its end.         *)
WriteCommands ==
    /\ turn = 0 /\ freezeBus = {}
    /\ \E b \in program.bursts :
         /\ FifoSend(dma, b)
         /\ freezeBus' = IF Len(gxFIFO) + Len(b) > Full THEN {"gx"} ELSE {}
    /\ UNCHANGED <<program, turn, phase, isSwapBuffers, transfer_count, owed, since>>

(* Commands written to the packed port: the bus is not frozen, however     *)
(* full the FIFO is.                                                       *)
WritePacked ==
    /\ turn = 0 /\ freezeBus = {} /\ Len(gxFIFO) <= MaxFifo
    /\ \E b \in program.packets : FifoSend(dma, b)
    /\ UNCHANGED <<program, turn, phase, isSwapBuffers, freezeBus, transfer_count, owed, since>>

(* MMU_writeToGCControl: the card is ready to send a block, whatever is    *)
(* left of the block before.  Channels of both CPUs are triggered.         *)
WriteGCControl(p) ==
    /\ turn = 0 /\ freezeBus = {}
    /\ \E n \in program.cards : transfer_count' = [transfer_count EXCEPT ![p] = n]
    /\ dma' = triggerDma(dma, "Card")
    /\ due' = due \cup Hit(dma, "Card")
    /\ since' = since \cup Asked(dma, "Card")
    /\ UNCHANGED <<program, turn, phase, gxFIFO, gxfifo_enabled, isSwapBuffers, freezeBus, owed>>

(* A frozen ARM9 idles, and thaws the bus once the FIFO has room.          *)
Thaw ==
    /\ turn = 0 /\ "gx" \in freezeBus /\ Len(gxFIFO) < Full
    /\ freezeBus' = freezeBus \ {"gx"}
    /\ UNCHANGED <<program, turn, due, phase, dma, gxFIFO, gxfifo_enabled, isSwapBuffers, transfer_count,
                   owed, since>>

-----------------------------------------------------------------------------
(* Sequencer::execHardware                                                 *)

(* The next item whose time has come, or back to the CPUs.                 *)
NextTurn(D) ==
    LET later == {i \in turn + 1 .. Len(Items) : Items[i] \in D}
    IN  IF later = {} THEN 0 ELSE CHOOSE i \in later : \A j \in later : i <= j

Scheduled ==
    {"display"} \cup (IF gxfifo_enabled THEN {"gxfifo"} ELSE {}) \cup {c \in Channels : dma[c].dmaCheck}

(* Time passes, and the time of the items in S has come.                   *)
EndSlice(S) ==
    /\ turn = 0
    /\ due' = due \cup S
    /\ turn' = NextTurn(due')
    /\ UNCHANGED <<program, phase, dma, gxFIFO, gxfifo_enabled, isSwapBuffers, freezeBus, transfer_count,
                   owed, since>>

Runs(item) == turn # 0 /\ Items[turn] = item

(* Events 2i-1 and 2i are the start of drawn line i and its blanking, the  *)
(* last two the start of line 192 and the vertical blank interrupt.        *)
EventModes(e) ==
    CASE e = 2 * Drawn + 2                -> {"VBlank"}
      [] e = 2 * Drawn + 1                -> {"HStart"}
      [] e <= 2 * Drawn /\ e % 2 = 1      -> {"HStart", "MemDisplay"}
      [] OTHER                            -> {"HBlank"}

OnLastDrawn == phase \in {2 * Drawn, 2 * Drawn + 1}

(* The start of line 192 (gfx3d_VBlankSignal) also completes a swap and    *)
(* lets the engine go on later.                                            *)
Display ==
    /\ Runs("display")
    /\ LET ms == EventModes(phase)
           hit == UNION {Hit(dma, m) : m \in ms}
           flush == phase = 2 * Drawn + 1
       IN  /\ dma' = [c \in Channels |-> IF c \in hit THEN triggerDma(dma, dma[c].startmode)[c]
                                                     ELSE dma[c]]
           /\ due' = (due \ ({"display"} \cup IF flush THEN {"gxfifo"} ELSE {})) \cup hit
           /\ since' = since \cup UNION {Asked(dma, m) : m \in ms}
           /\ isSwapBuffers' = (isSwapBuffers /\ ~flush)
           /\ gxfifo_enabled' = (gxfifo_enabled \/ flush)
    /\ phase' = 1 + (phase % (2 * Drawn + 2))
    /\ turn' = NextTurn(due')
    /\ UNCHANGED <<program, gxFIFO, freezeBus, transfer_count, owed>>

(* gfx3d_execute3D: a batch of commands, also those behind a swap, but     *)
(* none while a swap was already pending.                                  *)
Executed == IF isSwapBuffers THEN 0 ELSE Fewer(FifoBatch, Len(gxFIFO))

execute3D ==
    /\ Runs("gxfifo")
    /\ LET low == ~isSwapBuffers /\ Len(gxFIFO) - Executed <= Low
       IN  /\ gxFIFO' = SubSeq(gxFIFO, Executed + 1, Len(gxFIFO))
           /\ isSwapBuffers' = (isSwapBuffers \/ \E i \in 1 .. Executed : gxFIFO[i] = "swap")
           /\ gxfifo_enabled' = (Executed > 0)
           /\ dma' = IF low THEN triggerDma(dma, "GXFifo") ELSE dma
           /\ due' = (due \ {"gxfifo"}) \cup IF low THEN Hit(dma, "GXFifo") ELSE {}
    /\ turn' = NextTurn(due')
    /\ UNCHANGED <<program, phase, freezeBus, transfer_count, owed, since>>

(* A transfer to the geometry FIFO that is sent as a whole.                *)
WholeTodo(c, d) ==
    CASE d.startmode = "MemDisplay" -> LineWords
      [] d.startmode = "Card"       -> transfer_count[Cpu(c)]
      [] OTHER                      -> Count(c, d.wordcount)

(* doCopy: how many words are copied now.                                  *)
Todo(c, d) ==
    CASE d.startmode = "MemDisplay" -> LineWords
      [] d.startmode = "Card"       -> transfer_count[Cpu(c)]
      [] d.startmode = "GXFifo"     -> Fewer(Count(c, d.wordcount), DmaBatch)
      [] OTHER                      -> Count(c, d.wordcount)

(* A word count that is signed.                                            *)
SignedRemaining(d, todo) == IF d.repeatMode THEN d.wordcount ELSE d.wordcount - todo

(* What is left of the word count: nothing is taken off when repeating.    *)
Remaining(d, todo) ==
    IF d.repeatMode THEN d.wordcount
    ELSE IF d.startmode = "Card" THEN 0
    ELSE (d.wordcount - todo) % WordSpace

(* The end of a transfer that leaves the bus frozen.                       *)
StillFrozenBy(c) == freezeBus

UnfrozenBy(c) == freezeBus \ {c}

(* What n words become that are written to the destination of a transfer.  *)
Sent(d, n) == IF d.port THEN Packed[n] ELSE {<<>>}

(* doCopy of channel c in state d.  With an invalid address mode it gives  *)
(* up: the channel stays running, and nothing is scheduled.  Every word    *)
(* for the packed port is sent at once; only the mode GXFifo limits how    *)
(* many there are.                                                         *)
doCopy(c, d) ==
    LET todo == Todo(c, d)
        shown == [d EXCEPT !.enable = @ /\ ~(d.startmode = "MemDisplay" /\ OnLastDrawn)]
        after == [shown EXCEPT !.dmaCheck = TRUE, !.wordcount = Remaining(d, todo)]
    IN  \/ /\ ~d.valid
          /\ dma' = [dma EXCEPT ![c] = shown]
          /\ due' = due \ {c}
          /\ freezeBus' = UnfrozenBy(c)
          /\ UNCHANGED <<gxFIFO, gxfifo_enabled, transfer_count, owed>>
       \/ /\ d.valid
          /\ \E new \in Sent(d, todo) :
               LET low == new # <<>> /\ Len(gxFIFO) + 1 <= Low
                   others == IF low THEN Hit(dma, "GXFifo") \ {c} ELSE {}
               IN  /\ gxFIFO' = gxFIFO \o new
                   /\ gxfifo_enabled' = (gxfifo_enabled \/ new # <<>>)
                   /\ dma' = [x \in Channels |->
                                IF x = c THEN after
                                ELSE IF x \in others THEN triggerDma(dma, "GXFifo")[x]
                                ELSE dma[x]]
                   /\ due' = ((IF todo > 0 THEN due \ {c} ELSE due)
                                \ IF new # <<>> THEN {"gxfifo"} ELSE {}) \cup others
          /\ transfer_count' = IF d.startmode = "Card"
                                 THEN [transfer_count EXCEPT ![Cpu(c)] = 0] ELSE transfer_count
          /\ freezeBus' = IF c \in Arm9Dma THEN freezeBus \cup {c} ELSE freezeBus
          /\ owed' = [owed EXCEPT ![c] = @ - todo]

(* doStop: the transfer is complete; a repeating channel stays enabled.    *)
doStop(c, d) ==
    /\ dma' = [dma EXCEPT ![c] = [d EXCEPT !.running = FALSE, !.enable = @ /\ d.repeatMode]]
    /\ due' = due \ {c}
    /\ freezeBus' = UnfrozenBy(c)
    /\ owed' = [owed EXCEPT ![c] = IF d.repeatMode /\ d.enable THEN Count(c, d.wordcount) ELSE 0]
    /\ UNCHANGED <<gxFIFO, gxfifo_enabled, transfer_count>>

(* A channel that has been paused waits for the next trigger.              *)
TriggeredByEventOnly(d) == d.triggered \/ d.startmode = "Immediate"

(* The conditions that start a channel without an event.                   *)
TriggeredNow(d) ==
    \/ d.triggered
    \/ d.startmode = "Immediate"
    \/ d.startmode = "GXFifo" /\ Len(gxFIFO) <= Low

(* A channel that always stops when its time is over.                      *)
AlwaysFinished(d) == d.running

(* Only a transfer to the geometry FIFO goes on with what is left of it.   *)
Finished(d) == d.running /\ (d.startmode # "GXFifo" \/ d.wordcount = 0)

(* DmaController::exec.                                                    *)
Paused(d) == IF d.running THEN [d EXCEPT !.triggered = FALSE, !.paused = TRUE] ELSE d

Latched(d) == [d EXCEPT !.startmode = d.written]

exec(c) ==
    /\ Runs(c)
    /\ LET d == [dma[c] EXCEPT !.dmaCheck = FALSE]
           w == Latched(Paused(d))
           s == [w EXCEPT !.triggered = TriggeredNow(w)]
       IN  \/ Finished(d) /\ doStop(c, d)
           \/ /\ ~Finished(d)
              /\ \/ /\ d.enable /\ s.triggered
                    /\ doCopy(c, [s EXCEPT !.running = TRUE, !.paused = FALSE])
                 \/ /\ ~(d.enable /\ s.triggered)
                    /\ dma' = [dma EXCEPT ![c] = IF d.enable THEN s ELSE Paused(d)]
                    /\ due' = due \ {c}
                    /\ freezeBus' = UnfrozenBy(c)
                    /\ UNCHANGED <<gxFIFO, gxfifo_enabled, transfer_count, owed>>
    /\ turn' = NextTurn(due')
    /\ UNCHANGED <<program, phase, isSwapBuffers, since>>

DmaNext ==
    \/ \E c \in Channels : WriteControl(c)
    \/ WriteCommands
    \/ WritePacked
    \/ \E p \in Procs : WriteGCControl(p)
    \/ Thaw
    \/ \E S \in SUBSET Scheduled : EndSlice(S)
    \/ Display
    \/ execute3D
    \/ \E c \in Channels : exec(c)

(* Time passes, so what is scheduled becomes due (no delay is as long as a *)
(* frame, so not always together with a display event), and the hardware   *)
(* runs what is due.  Nothing is assumed of the software.                  *)
DmaSpec ==
    /\ DmaInit /\ [][DmaNext]_dmaVars
    /\ WF_dmaVars(Thaw) /\ WF_dmaVars(Display) /\ WF_dmaVars(execute3D)
    /\ \A c \in Channels : WF_dmaVars(exec(c))
    /\ \A i \in ItemSet : SF_dmaVars(\E S \in SUBSET Scheduled :
                                       i \in S /\ (i # "display" => "display" \notin S) /\ EndSlice(S))

-----------------------------------------------------------------------------
DmaTypeOK ==
    /\ program \in Programs /\ turn \in 0 .. Len(Items) /\ due \subseteq ItemSet /\ phase \in 1 .. 2 * Drawn + 2
    /\ dma \in [Channels -> Controller]
    /\ gxFIFO \in Seq(Commands) /\ gxfifo_enabled \in BOOLEAN /\ isSwapBuffers \in BOOLEAN
    /\ freezeBus \subseteq Arm9Dma \cup {"gx"} /\ transfer_count \in [Procs -> 0 .. WordSpace - 1]
    /\ owed \in [Channels -> Int] /\ since \subseteq Channels

(* The words of the transfers whose length the control word gives.         *)
Counted(d) == d.startmode \notin {"Card", "MemDisplay"}

(* Channels with which software does not interfere, and with which it asks *)
(* for no geometry transfer that repeats or has the count 0.               *)
Exact ==
    {c \in Channels \ Rewriters : \A r \in program.controls[c] :
       r.startmode = "GXFifo" => r.wordcount > 0 /\ ~r.repeatMode}

(* A transfer that ends (running is cleared, enable is cleared or the      *)
(* channel waits for its next start, the interrupt is raised) has moved    *)
(* exactly the words that were asked for, however often it was paused for  *)
(* the geometry FIFO.  (A geometry transfer of 2^21 words, asked for with  *)
(* a count of 0, or a repeating one never gets there: see Remaining.)      *)
CompletionMeansMoved ==
    [][\A c \in Exact :
         dma[c].running /\ ~dma'[c].running /\ Counted(dma[c]) => owed[c] = 0]_dmaVars

GxDma == {c \in Channels : \E r \in program.controls[c] : r.startmode = "GXFifo"}
Longest(S) == CHOOSE n \in {Len(s) : s \in S \cup {<<>>}} : \A s \in S : Len(s) <= n

(* Software that writes commands to the direct ports only, and transfers   *)
(* to the packed port in the mode GXFifo only.                             *)
Throttled ==
    program.packets = {} /\ \A c \in Channels : \A r \in program.controls[c] : ~Overdrives(r)

(* Although GFX_FIFOsend does not check, the frozen bus and the low mark   *)
(* bound what such software and all its channels together can have in the  *)
(* geometry FIFO.  Nothing else does: the packed port never freezes the    *)
(* bus, and an immediate transfer sends all its words ("moon seems to      *)
(* overdrive the fifo with immediate dmas", FIFO.h:45).                    *)
FifoBounded ==
    Throttled =>
      Len(gxFIFO) <= Full + Longest(program.bursts)
                       + Cardinality(GxDma) * Longest(UNION {Packed[n] : n \in 0 .. DmaBatch})

(* A channel that has frozen the bus, which stops both CPUs, has an event  *)
(* scheduled that thaws it.                                                *)
FrozenUntilEvent == \A c \in Channels : c \in freezeBus => dma[c].dmaCheck

(* A transfer that is enabled ends.  One to the geometry FIFO may have to  *)
(* be paused again and again: the low mark that resumes it is never missed *)
(* if it is reached (software that writes commands as fast as they are     *)
(* executed can keep the FIFO above it).                                   *)
Ends(c, modes) ==
    (dma[c].enable /\ ~dma[c].repeatMode /\ dma[c].written \in modes) ~> ~dma[c].enable

TransfersEnd ==
    \A c \in Channels \ Rewriters :
      /\ Ends(c, Modes \ {"Card", "GXFifo"})
      /\ []<>(Len(gxFIFO) <= Low) => Ends(c, {"GXFifo"})

(* "make sure we don't get any old triggers": a channel that waits for an  *)
(* event starts only after that event has occurred since it was enabled,   *)
(* also when it is enabled again while a trigger of its last use is left.  *)
(* The mode is the one it has latched: until the channel has had a turn,   *)
(* the mode of its previous use still counts.                              *)
NoOldTriggers ==
    [][\A c \in Channels \ Rewriters : ~dma[c].running /\ dma'[c].running
         /\ dma[c].written \notin {"Immediate", "GXFifo"} /\ dma[c].startmode = dma[c].written
         => c \in since]_dmaVars
=============================================================================
