-------------------------- MODULE GeometryDmaProofs -------------------------
(***************************************************************************)
(* Proofs about the DMA channels and the geometry FIFO, for any number of  *)
(* channels, any programs and any sizes.                                   *)
(***************************************************************************)
EXTENDS GeometryDma, TLAPS, WellFoundedInduction

-----------------------------------------------------------------------------
(* The inductive invariant                                                 *)

(* What is due, or keeps the bus frozen, has an event; what runs is due.   *)
HasEvent(c) == c \in due \cup freezeBus => dma[c].dmaCheck
TurnDue == turn # 0 => Items[turn] \in due

(* A trigger that a channel is about to act upon has occurred since it was *)
(* enabled.                                                                *)
FreshlyTriggered(c) ==
    /\ dma[c].enable /\ dma[c].triggered /\ dma[c].dmaCheck /\ ~dma[c].running
    /\ dma[c].startmode = dma[c].written /\ dma[c].written \notin {"Immediate", "GXFifo"}
    => c \in since

(* What a channel owes is what its word count says; a transfer that was    *)
(* given up stays running and never gets a turn again.                     *)
OwesItsCount(c) ==
    LET d == dma[c]
    IN  /\ d.enable /\ ~d.running =>
             owed[c] = Count(c, d.wordcount) /\ (d.written = "GXFifo" => d.wordcount > 0 /\ ~d.repeatMode)
        /\ d.running => d.startmode = d.written
        /\ d.running /\ ~d.valid => ~d.dmaCheck /\ ~d.paused
        /\ d.running /\ d.valid /\ d.startmode = "GXFifo" => owed[c] = d.wordcount /\ ~d.repeatMode
        /\ d.running /\ d.valid /\ Counted(d) /\ d.startmode # "GXFifo" => owed[c] = 0

ChannelOK(c) ==
    /\ HasEvent(c)
    /\ c \notin Rewriters => FreshlyTriggered(c)
    /\ c \in Exact => OwesItsCount(c)

IInv == DmaTypeOK /\ TurnDue /\ \A c \in Channels : ChannelOK(c)

-----------------------------------------------------------------------------
(* Registers of a controller                                               *)

(* A controller of which one register is written is still one.             *)
LEMMA SetEnable == ASSUME NEW d \in Controller, NEW v \in BOOLEAN PROVE [d EXCEPT !.enable = v] \in Controller
  BY DEF Controller
LEMMA SetRunning == ASSUME NEW d \in Controller, NEW v \in BOOLEAN PROVE [d EXCEPT !.running = v] \in Controller
  BY DEF Controller
LEMMA SetPaused == ASSUME NEW d \in Controller, NEW v \in BOOLEAN PROVE [d EXCEPT !.paused = v] \in Controller
  BY DEF Controller
LEMMA SetTriggered == ASSUME NEW d \in Controller, NEW v \in BOOLEAN PROVE [d EXCEPT !.triggered = v] \in Controller
  BY DEF Controller
LEMMA SetCheck == ASSUME NEW d \in Controller, NEW v \in BOOLEAN PROVE [d EXCEPT !.dmaCheck = v] \in Controller
  BY DEF Controller
LEMMA SetRepeat == ASSUME NEW d \in Controller, NEW v \in BOOLEAN PROVE [d EXCEPT !.repeatMode = v] \in Controller
  BY DEF Controller
LEMMA SetValid == ASSUME NEW d \in Controller, NEW v \in BOOLEAN PROVE [d EXCEPT !.valid = v] \in Controller
  BY DEF Controller
LEMMA SetPort == ASSUME NEW d \in Controller, NEW v \in BOOLEAN PROVE [d EXCEPT !.port = v] \in Controller
  BY DEF Controller
LEMMA SetCount == ASSUME NEW d \in Controller, NEW v \in 0 .. WordSpace - 1 PROVE [d EXCEPT !.wordcount = v] \in Controller
  BY DEF Controller
LEMMA SetWritten == ASSUME NEW d \in Controller, NEW v \in Modes PROVE [d EXCEPT !.written = v] \in Controller
  BY DEF Controller
LEMMA SetStartmode == ASSUME NEW d \in Controller, NEW v \in Modes PROVE [d EXCEPT !.startmode = v] \in Controller
  BY DEF Controller

(* The values of the registers.                                            *)
LEMMA Registers ==
    ASSUME NEW d \in Controller
    PROVE  /\ d.enable \in BOOLEAN /\ d.running \in BOOLEAN /\ d.paused \in BOOLEAN
           /\ d.triggered \in BOOLEAN /\ d.dmaCheck \in BOOLEAN /\ d.repeatMode \in BOOLEAN
           /\ d.valid \in BOOLEAN /\ d.wordcount \in 0 .. WordSpace - 1
           /\ d.written \in Modes /\ d.startmode \in Modes
  BY DEF Controller

(* Two controllers that agree on everything but their trigger.             *)
SameTransfer(x, d) ==
    /\ x.enable = d.enable /\ x.running = d.running /\ x.paused = d.paused
    /\ x.repeatMode = d.repeatMode /\ x.valid = d.valid /\ x.wordcount = d.wordcount
    /\ x.written = d.written /\ x.startmode = d.startmode

(* A channel after a trigger.                                              *)
Poked(d) == [d EXCEPT !.triggered = TRUE, !.dmaCheck = TRUE]

LEMMA PokedFacts ==
    ASSUME NEW d \in Controller
    PROVE  Poked(d) \in Controller /\ SameTransfer(Poked(d), d) /\ Poked(d).triggered /\ Poked(d).dmaCheck
<1>1. Poked(d) \in Controller
  BY SetTriggered, SetCheck, Zenon DEF Poked
<1>2. SameTransfer(Poked(d), d) /\ Poked(d).triggered = TRUE /\ Poked(d).dmaCheck = TRUE
  BY DEF Poked, SameTransfer, Controller
<1>. QED  BY <1>1, <1>2

(* Triggering pokes the channels that it hits.                             *)
LEMMA TriggerFacts ==
    ASSUME NEW d, NEW mode
    PROVE  /\ triggerDma(d, mode) = [c \in Channels |-> IF c \in Hit(d, mode) THEN Poked(d[c]) ELSE d[c]]
           /\ \A c \in Hit(d, mode) : c \in Channels /\ d[c].startmode = mode /\ d[c].enable
                                      /\ ~(d[c].running /\ ~d[c].paused)
  BY Zenon DEF triggerDma, Hit, Triggers, Poked

(* The least of a set of numbers.                                          *)
LEMMA LeastNumber ==
    ASSUME NEW X, X \subseteq Nat, X # {} PROVE \E x \in X : \A y \in X : x <= y
<1>1. IsWellFoundedOn({ss \in Nat \X Nat : ss[1] < ss[2]}, Nat)
  BY NatLessThanWellFounded DEF OpToRel
<1>2. PICK x \in X : \A y \in X : <<y, x>> \notin {ss \in Nat \X Nat : ss[1] < ss[2]}
  BY <1>1, WFMin, Zenon
<1>3. \A y \in X : ~(y < x)
  <2>. SUFFICES ASSUME NEW y \in X, y < x PROVE FALSE
    OBVIOUS
  <2>1. <<y, x>> \in Nat \X Nat /\ <<y, x>>[1] < <<y, x>>[2]
    OBVIOUS
  <2>. QED  BY <2>1, <1>2, Zenon
<1>. QED  BY <1>3

(* The item that runs next is one of those that are due.                   *)
LEMMA TurnFacts ==
    ASSUME turn \in Nat, NEW D
    PROVE  NextTurn(D) \in 0 .. Len(Items) /\ (NextTurn(D) # 0 => Items[NextTurn(D)] \in D)
<1>. DEFINE later == {i \in turn + 1 .. Len(Items) : Items[i] \in D}
<1>1. Len(Items) \in Nat
  BY OrderAssumption DEF Items
<1>2. CASE later = {}
  BY <1>1, <1>2 DEF NextTurn
<1>3. CASE later # {}
  <2>1. \E i \in later : \A j \in later : i <= j
    <3>1. later \subseteq Nat
      BY <1>1
    <3>. HIDE DEF later
    <3>. QED  BY <1>3, <3>1, LeastNumber
  <2>2. (CHOOSE i \in later : \A j \in later : i <= j) \in later
    BY <2>1
  <2>3. NextTurn(D) \in later
    BY <1>3, <2>2, Zenon DEF NextTurn
  <2>. QED  BY <1>1, <2>3
<1>. QED  BY <1>2, <1>3

-----------------------------------------------------------------------------
(* Steps of others                                                         *)

(* A step of which channel c sees a trigger in its mode at most.           *)
Bystander(c) ==
    /\ UNCHANGED program /\ owed'[c] = owed[c]
    /\ c \in since => c \in since'
    /\ c \in freezeBus' => c \in freezeBus
    /\ \/ dma'[c] = dma[c] /\ (c \in due' => c \in due)
       \/ /\ dma'[c] = Poked(dma[c])
          /\ dma[c].enable /\ ~(dma[c].running /\ ~dma[c].paused)
          /\ dma[c].startmode = dma[c].written /\ dma[c].written \notin {"Immediate", "GXFifo"} => c \in since'

LEMMA BystanderOK ==
    ASSUME NEW c \in Channels, dma[c] \in Controller, ChannelOK(c), Bystander(c)
    PROVE  ChannelOK(c)' /\ dma'[c] \in Controller
<1>1. Exact' = Exact
  BY DEF Bystander, Exact
<1>2. CASE dma'[c] = dma[c] /\ (c \in due' => c \in due)
  BY <1>1, <1>2 DEF Bystander, ChannelOK, HasEvent, FreshlyTriggered, OwesItsCount, Counted
<1>3. CASE /\ dma'[c] = Poked(dma[c])
           /\ dma[c].enable /\ ~(dma[c].running /\ ~dma[c].paused)
           /\ dma[c].startmode = dma[c].written /\ dma[c].written \notin {"Immediate", "GXFifo"} => c \in since'
  <2>1. dma'[c] \in Controller /\ SameTransfer(dma'[c], dma[c]) /\ dma'[c].triggered /\ dma'[c].dmaCheck
    BY <1>3, PokedFacts
  <2>2. HasEvent(c)' /\ FreshlyTriggered(c)'
    BY <1>3, <2>1 DEF HasEvent, FreshlyTriggered, SameTransfer
  <2>3. c \in Exact => OwesItsCount(c)'
    BY <1>3, <2>1 DEF Bystander, ChannelOK, OwesItsCount, SameTransfer, Counted
  <2>. QED  BY <1>1, <2>1, <2>2, <2>3 DEF ChannelOK
<1>. QED  BY <1>2, <1>3 DEF Bystander

(* A step that neither starts nor stops the channel.                       *)
SameRunning(c) == dma'[c].running = dma[c].running

LEMMA BystanderRuns ==
    ASSUME NEW c \in Channels, dma[c] \in Controller, Bystander(c) PROVE SameRunning(c)
  BY PokedFacts DEF Bystander, SameRunning, SameTransfer

(* Types of a step that touches no more than a bystander's part.           *)
LEMMA BystandersOK ==
    ASSUME IInv, DOMAIN dma' = Channels, dma' = [c \in Channels |-> dma'[c]],
           \A c \in Channels : Bystander(c)
    PROVE  dma' \in [Channels -> Controller] /\ \A c \in Channels : ChannelOK(c)' /\ SameRunning(c)
<1>1. \A c \in Channels : ChannelOK(c)' /\ dma'[c] \in Controller /\ SameRunning(c)
  BY BystanderOK, BystanderRuns DEF IInv, DmaTypeOK
<1>. QED  BY <1>1

-----------------------------------------------------------------------------
(* The steps of software                                                   *)

LEMMA InitIInv == DmaInit => IInv
<1>. SUFFICES ASSUME DmaInit PROVE IInv
  OBVIOUS
<1>1. DmaTypeOK
  <2>1. dma \in [Channels -> Controller]
    BY SizesAssumption DEF DmaInit, Controller, Modes
  <2>2. 0 \in 0 .. Len(Items) /\ 1 \in 1 .. 2 * Drawn + 2
    BY OrderAssumption, SizesAssumption DEF Items
  <2>3. gxFIFO \in Seq(Commands)
    BY DEF DmaInit
  <2>4. owed \in [Channels -> Int] /\ transfer_count \in [Procs -> 0 .. WordSpace - 1]
    BY SizesAssumption DEF DmaInit
  <2>5. turn \in 0 .. Len(Items) /\ phase \in 1 .. 2 * Drawn + 2
    BY <2>2 DEF DmaInit
  <2>6. /\ program \in Programs /\ due \subseteq ItemSet /\ gxfifo_enabled \in BOOLEAN /\ isSwapBuffers \in BOOLEAN
        /\ freezeBus \subseteq Arm9Dma \cup {"gx"} /\ since \subseteq Channels
    BY DEF DmaInit
  <2>. QED  BY <2>1, <2>3, <2>4, <2>5, <2>6 DEF DmaTypeOK
<1>2. TurnDue /\ \A c \in Channels : ChannelOK(c)
  BY DEF DmaInit, TurnDue, ChannelOK, HasEvent, FreshlyTriggered, OwesItsCount
<1>. QED  BY <1>1, <1>2 DEF IInv

(* Commands that reach the geometry FIFO trigger channels that wait for    *)
(* room in it, and only those.                                             *)
LEMMA TriggerBystanders ==
    ASSUME DmaTypeOK, NEW mode, dma' = triggerDma(dma, mode), UNCHANGED <<program, owed>>,
           freezeBus' \cap Channels \subseteq freezeBus, NEW S, due' = S \cup Hit(dma, mode), S \cap Channels \subseteq due,
           since \subseteq since', mode \in {"Immediate", "GXFifo"} \/ Asked(dma, mode) \subseteq since'
    PROVE  /\ \A c \in Channels : Bystander(c)
           /\ DOMAIN dma' = Channels /\ dma' = [c \in Channels |-> dma'[c]]
<1>1. dma' = [c \in Channels |-> IF c \in Hit(dma, mode) THEN Poked(dma[c]) ELSE dma[c]]
  BY TriggerFacts
<1>2. ASSUME NEW c \in Channels PROVE Bystander(c)
  <2>1. CASE c \in Hit(dma, mode)
    <3>1. dma'[c] = Poked(dma[c])
      BY <1>1, <2>1
    <3>2. dma[c].startmode = mode /\ dma[c].enable /\ ~(dma[c].running /\ ~dma[c].paused)
      BY <2>1, TriggerFacts
    <3>3. dma[c].startmode = dma[c].written /\ dma[c].written \notin {"Immediate", "GXFifo"} => c \in since'
      BY <3>2 DEF Asked
    <3>. QED  BY <3>1, <3>2, <3>3 DEF Bystander
  <2>2. CASE c \notin Hit(dma, mode)
    BY <1>1, <2>2 DEF Bystander
  <2>. QED  BY <2>1, <2>2
<1>3. DOMAIN dma' = Channels /\ dma' = [c \in Channels |-> dma'[c]]
  BY <1>1
<1>. QED  BY <1>2, <1>3

(* What is written to the control of a channel.                            *)
Rewritten(d, r, e, t, k) ==
    [d EXCEPT !.enable = e, !.repeatMode = r.repeatMode, !.valid = r.valid, !.port = r.port,
              !.wordcount = r.wordcount, !.written = r.startmode, !.triggered = t, !.dmaCheck = k]

LEMMA RewrittenFacts ==
    ASSUME NEW d \in Controller, NEW r \in Request, NEW e \in BOOLEAN, NEW t \in BOOLEAN, NEW k \in BOOLEAN
    PROVE  LET x == Rewritten(d, r, e, t, k)
           IN  /\ x \in Controller
               /\ x.enable = e /\ x.repeatMode = r.repeatMode /\ x.valid = r.valid
               /\ x.wordcount = r.wordcount /\ x.written = r.startmode /\ x.triggered = t
               /\ x.dmaCheck = k /\ x.running = d.running /\ x.startmode = d.startmode
<1>1. /\ r.repeatMode \in BOOLEAN /\ r.valid \in BOOLEAN /\ r.startmode \in Modes
      /\ r.wordcount \in 0 .. WordSpace - 1 /\ r.port \in BOOLEAN
  BY DEF Request
<1>. DEFINE x == Rewritten(d, r, e, t, k)
<1>2. x \in Controller
  BY <1>1, SetEnable, SetRepeat, SetValid, SetPort, SetCount, SetWritten, SetTriggered, SetCheck, Zenon DEF Rewritten
<1>3. /\ x.enable = e /\ x.repeatMode = r.repeatMode /\ x.valid = r.valid
      /\ x.wordcount = r.wordcount /\ x.written = r.startmode /\ x.triggered = t
      /\ x.dmaCheck = k /\ x.running = d.running /\ x.startmode = d.startmode
  BY <1>1 DEF Controller, Rewritten
<1>. QED  BY <1>2, <1>3

LEMMA WriteIInv ==
    ASSUME IInv, NEW c \in Channels, WriteControl(c)
    PROVE  IInv' /\ \A y \in Channels : SameRunning(y)
<1>0. /\ turn = 0 /\ freezeBus = {} /\ dma[c] \in Controller /\ \A x \in Channels : ChannelOK(x)
      /\ UNCHANGED <<program, turn, phase, gxFIFO, gxfifo_enabled, isSwapBuffers, freezeBus, transfer_count>>
  BY DEF IInv, DmaTypeOK, WriteControl
<1>1. PICK r \in Request, e \in BOOLEAN :
        /\ c \in Rewriters \/ Polite(dma[c], e)
        /\ e => r \in program.controls[c]
        /\ write32(c, r, e)
  <2>1. CASE \E r \in program.controls[c] : (c \in Rewriters \/ Polite(dma[c], TRUE)) /\ write32(c, r, TRUE)
    <3>1. program.controls[c] \subseteq Request
      BY ChannelsAssumption DEF IInv, DmaTypeOK, Program
    <3>. QED  BY <2>1, <3>1
  <2>2. CASE (c \in Rewriters \/ Polite(dma[c], FALSE)) /\ write32(c, Cleared, FALSE)
    <3>1. Cleared \in Request
      BY SizesAssumption DEF Cleared, Request, Modes
    <3>. QED  BY <2>2, <3>1
  <2>. QED  BY <2>1, <2>2 DEF WriteControl
<1>. DEFINE d == dma[c]
            schedule == d.startmode \in {"Immediate", "GXFifo"} \/ ~d.enable
            t == FreshTrigger(d, e)
            k == d.dmaCheck \/ schedule
            x == Rewritten(d, r, e, t, k)
<1>2. /\ dma' = [dma EXCEPT ![c] = x]
      /\ due' = IF schedule THEN due \cup {c} ELSE due
      /\ owed' = [owed EXCEPT ![c] = IF e THEN Count(c, r.wordcount) ELSE 0]
      /\ since' = since \ {c}
  BY <1>1, Zenon DEF write32, Rewritten
<1>3. /\ r.repeatMode \in BOOLEAN /\ r.valid \in BOOLEAN /\ r.startmode \in Modes
      /\ r.wordcount \in 0 .. WordSpace - 1
  BY DEF Request
<1>4. t \in BOOLEAN /\ k \in BOOLEAN
  BY <1>0, Registers DEF FreshTrigger
<1>. HIDE DEF t, k
<1>5. /\ x \in Controller
      /\ x.enable = e /\ x.repeatMode = r.repeatMode /\ x.valid = r.valid /\ x.wordcount = r.wordcount
      /\ x.written = r.startmode /\ x.triggered = t /\ x.dmaCheck = k
      /\ x.running = d.running /\ x.startmode = d.startmode
  BY <1>0, <1>4, RewrittenFacts
<1>. HIDE DEF x
<1>6. dma' \in [Channels -> Controller] /\ dma'[c] = x
  BY <1>0, <1>2, <1>5 DEF IInv, DmaTypeOK
<1>7. Count(c, r.wordcount) \in Int
  BY <1>3, SizesAssumption DEF Count
<1>8. DmaTypeOK'
  <2>1. due' \subseteq ItemSet /\ since' \subseteq Channels
    BY <1>2 DEF IInv, DmaTypeOK, ItemSet
  <2>2. owed' \in [Channels -> Int]
    BY <1>2, <1>7 DEF IInv, DmaTypeOK
  <2>. QED  BY <1>0, <1>6, <2>1, <2>2 DEF IInv, DmaTypeOK
<1>9. TurnDue'
  BY <1>0 DEF TurnDue
<1>10. ASSUME NEW y \in Channels, y # c PROVE ChannelOK(y)' /\ SameRunning(y)
  <2>1. Bystander(y)
    BY <1>0, <1>2, <1>10 DEF Bystander, IInv, DmaTypeOK
  <2>. QED  BY <1>0, <2>1, BystanderOK, BystanderRuns DEF IInv, DmaTypeOK
<1>11. ChannelOK(c)'
  <2>1. HasEvent(c)'
    BY <1>0, <1>2, <1>5, <1>6 DEF ChannelOK, HasEvent, k
  <2>2. c \notin Rewriters => FreshlyTriggered(c)'
    BY <1>1, <1>5, <1>6 DEF Polite, FreshlyTriggered, FreshTrigger, t
  <2>3. c \in Exact' => OwesItsCount(c)'
    <3>. SUFFICES ASSUME c \in Exact' PROVE OwesItsCount(c)'
      OBVIOUS
    <3>1. Polite(d, e) /\ (e => (r.startmode = "GXFifo" => r.wordcount > 0 /\ ~r.repeatMode))
      BY <1>0, <1>1 DEF Exact
    <3>2. ~x.running /\ (e => owed'[c] = Count(c, x.wordcount))
      BY <1>2, <1>5, <3>1 DEF Polite, IInv, DmaTypeOK
    <3>. QED  BY <1>5, <1>6, <3>1, <3>2 DEF OwesItsCount
  <2>. QED  BY <2>1, <2>2, <2>3 DEF ChannelOK
<1>12. SameRunning(c)
  BY <1>5, <1>6 DEF SameRunning
<1>. QED  BY <1>8, <1>9, <1>10, <1>11, <1>12 DEF IInv

(* Items of the hardware.                                                  *)
LEMMA ItemFacts ==
    /\ Len(Items) \in Nat /\ Channels \subseteq ItemSet /\ "gx" \notin Channels
    /\ "display" \notin Channels /\ "gxfifo" \notin Channels
  BY OrderAssumption DEF Items, ItemSet

(* Commands that software writes to any port.                              *)
LEMMA FifoSendIInv ==
    ASSUME IInv, NEW b \in Seq(Commands), FifoSend(dma, b), turn = 0,
           freezeBus' \cap Channels \subseteq freezeBus, freezeBus' \subseteq Arm9Dma \cup {"gx"},
           UNCHANGED <<program, turn, phase, isSwapBuffers, transfer_count, owed, since>>
    PROVE  IInv' /\ \A y \in Channels : SameRunning(y)
<1>. DEFINE low == b # <<>> /\ Len(gxFIFO) + 1 <= Low
            S == IF b # <<>> THEN due \ {"gxfifo"} ELSE due
<1>1. /\ gxFIFO' = gxFIFO \o b
      /\ dma' = IF low THEN triggerDma(dma, "GXFifo") ELSE dma
      /\ due' = S \cup (IF low THEN Hit(dma, "GXFifo") ELSE {})
      /\ gxfifo_enabled' = (gxfifo_enabled \/ b # <<>>)
  BY Zenon DEF FifoSend
<1>2. S \cap Channels \subseteq due /\ S \subseteq ItemSet
  BY DEF IInv, DmaTypeOK
<1>. HIDE DEF low, S
<1>3. /\ \A c \in Channels : Bystander(c)
      /\ DOMAIN dma' = Channels /\ dma' = [c \in Channels |-> dma'[c]]
  <2>1. CASE low
    <3>1. dma' = triggerDma(dma, "GXFifo") /\ due' = S \cup Hit(dma, "GXFifo")
      BY <1>1, <2>1
    <3>. QED  BY <1>2, <3>1, TriggerBystanders DEF IInv
  <2>2. CASE ~low
    <3>1. dma' = dma /\ due' = S
      BY <1>1, <2>2
    <3>. QED  BY <1>2, <3>1 DEF IInv, DmaTypeOK, Bystander
  <2>. QED  BY <2>1, <2>2
<1>4. dma' \in [Channels -> Controller] /\ \A c \in Channels : ChannelOK(c)' /\ SameRunning(c)
  BY <1>3, BystandersOK
<1>5. DmaTypeOK'
  <2>1. gxFIFO' \in Seq(Commands)
    BY <1>1 DEF IInv, DmaTypeOK
  <2>2. Hit(dma, "GXFifo") \subseteq ItemSet
    BY ItemFacts DEF Hit
  <2>3. due' \subseteq ItemSet
    BY <1>1, <1>2, <2>2
  <2>4. gxfifo_enabled' \in BOOLEAN
    BY <1>1
  <2>. QED  BY <1>4, <2>1, <2>3, <2>4 DEF IInv, DmaTypeOK
<1>. QED  BY <1>4, <1>5 DEF IInv, TurnDue

LEMMA WriteCommandsIInv ==
    ASSUME IInv, WriteCommands
    PROVE  IInv' /\ \A y \in Channels : SameRunning(y)
<1>1. PICK b \in program.bursts : /\ FifoSend(dma, b)
                                  /\ freezeBus' = IF Len(gxFIFO) + Len(b) > Full THEN {"gx"} ELSE {}
  BY DEF WriteCommands
<1>2. b \in Seq(Commands)
  BY <1>1, ChannelsAssumption DEF IInv, DmaTypeOK, Program
<1>3. freezeBus' \cap Channels \subseteq freezeBus /\ freezeBus' \subseteq Arm9Dma \cup {"gx"}
  BY <1>1, ItemFacts
<1>4. /\ turn = 0
      /\ UNCHANGED <<program, turn, phase, isSwapBuffers, transfer_count, owed, since>>
  BY DEF WriteCommands
<1>. QED  BY <1>1, <1>2, <1>3, <1>4, FifoSendIInv

LEMMA WritePackedIInv ==
    ASSUME IInv, WritePacked
    PROVE  IInv' /\ \A y \in Channels : SameRunning(y)
<1>1. PICK b \in program.packets : FifoSend(dma, b)
  BY DEF WritePacked
<1>2. b \in Seq(Commands)
  BY <1>1, ChannelsAssumption DEF IInv, DmaTypeOK, Program
<1>3. /\ turn = 0 /\ freezeBus' = freezeBus
      /\ UNCHANGED <<program, turn, phase, isSwapBuffers, transfer_count, owed, since>>
  BY DEF WritePacked
<1>4. freezeBus' \cap Channels \subseteq freezeBus /\ freezeBus' \subseteq Arm9Dma \cup {"gx"}
  BY <1>3 DEF IInv, DmaTypeOK
<1>. QED  BY <1>1, <1>2, <1>3, <1>4, FifoSendIInv

LEMMA WriteGCControlIInv ==
    ASSUME IInv, NEW p \in Procs, WriteGCControl(p)
    PROVE  IInv' /\ \A y \in Channels : SameRunning(y)
<1>1. /\ turn = 0 /\ dma' = triggerDma(dma, "Card") /\ due' = due \cup Hit(dma, "Card")
      /\ since' = since \cup Asked(dma, "Card")
      /\ UNCHANGED <<program, turn, phase, gxFIFO, gxfifo_enabled, isSwapBuffers, freezeBus, owed>>
  BY DEF WriteGCControl
<1>2. /\ \A c \in Channels : Bystander(c)
      /\ DOMAIN dma' = Channels /\ dma' = [c \in Channels |-> dma'[c]]
  BY <1>1, TriggerBystanders DEF IInv
<1>3. dma' \in [Channels -> Controller] /\ \A c \in Channels : ChannelOK(c)' /\ SameRunning(c)
  BY <1>2, BystandersOK
<1>4. transfer_count' \in [Procs -> 0 .. WordSpace - 1]
  <2>1. program.cards \subseteq 1 .. WordSpace - 1
    BY ChannelsAssumption DEF IInv, DmaTypeOK, Program
  <2>. QED  BY <2>1 DEF WriteGCControl, IInv, DmaTypeOK
<1>5. due' \subseteq ItemSet /\ since' \subseteq Channels
  BY <1>1, ItemFacts DEF IInv, DmaTypeOK, Hit, Asked
<1>. QED  BY <1>1, <1>3, <1>4, <1>5 DEF IInv, DmaTypeOK, TurnDue

LEMMA ThawIInv ==
    ASSUME IInv, Thaw
    PROVE  IInv' /\ \A y \in Channels : SameRunning(y)
<1>1. /\ turn = 0 /\ freezeBus' = freezeBus \ {"gx"}
      /\ UNCHANGED <<program, turn, due, phase, dma, gxFIFO, gxfifo_enabled, isSwapBuffers, transfer_count,
                     owed, since>>
  BY DEF Thaw
<1>2. /\ \A c \in Channels : Bystander(c)
      /\ DOMAIN dma' = Channels /\ dma' = [c \in Channels |-> dma'[c]]
  BY <1>1 DEF IInv, DmaTypeOK, Bystander
<1>3. \A c \in Channels : ChannelOK(c)' /\ SameRunning(c)
  BY <1>2, BystandersOK
<1>. QED  BY <1>1, <1>3 DEF IInv, DmaTypeOK, TurnDue

-----------------------------------------------------------------------------
(* The steps of the hardware                                               *)

(* The item that runs next has an event.                                   *)
LEMMA TurnStep ==
    ASSUME DmaTypeOK, turn' = NextTurn(due')
    PROVE  turn' \in 0 .. Len(Items) /\ TurnDue'
<1>1. turn \in Nat
  BY ItemFacts DEF DmaTypeOK
<1>. QED  BY <1>1, TurnFacts DEF TurnDue

(* Only channels with an event become due at the end of a slice.           *)
LEMMA EndSliceIInv ==
    ASSUME IInv, NEW S \in SUBSET Scheduled, EndSlice(S)
    PROVE  IInv' /\ \A y \in Channels : SameRunning(y)
<1>1. /\ due' = due \cup S /\ turn' = NextTurn(due')
      /\ UNCHANGED <<program, phase, dma, gxFIFO, gxfifo_enabled, isSwapBuffers, freezeBus, transfer_count,
                     owed, since>>
  BY DEF EndSlice
<1>2. turn' \in 0 .. Len(Items) /\ TurnDue'
  BY <1>1, TurnStep DEF IInv
<1>3. S \subseteq ItemSet /\ \A c \in Channels : c \in S => dma[c].dmaCheck
  BY ItemFacts DEF Scheduled, ItemSet
<1>4. ASSUME NEW c \in Channels PROVE ChannelOK(c)'
  <2>1. Exact' = Exact
    BY <1>1 DEF Exact
  <2>2. HasEvent(c) /\ (c \notin Rewriters => FreshlyTriggered(c)) /\ (c \in Exact => OwesItsCount(c))
    BY DEF IInv, ChannelOK
  <2>3. HasEvent(c)'
    BY <1>1, <1>3, <2>2 DEF HasEvent
  <2>4. FreshlyTriggered(c)' = FreshlyTriggered(c) /\ OwesItsCount(c)' = OwesItsCount(c)
    BY <1>1, Zenon DEF FreshlyTriggered, OwesItsCount, Counted
  <2>. QED  BY <2>1, <2>2, <2>3, <2>4 DEF ChannelOK
<1>5. due' \subseteq ItemSet
  BY <1>1, <1>3 DEF IInv, DmaTypeOK
<1>. QED  BY <1>1, <1>2, <1>4, <1>5 DEF IInv, DmaTypeOK, SameRunning

LEMMA DisplayIInv ==
    ASSUME IInv, Display
    PROVE  IInv' /\ \A y \in Channels : SameRunning(y)
<1>. DEFINE ms == EventModes(phase)
            hit == UNION {Hit(dma, m) : m \in ms}
            flush == phase = 2 * Drawn + 1
<1>1. /\ dma' = [c \in Channels |-> IF c \in hit THEN triggerDma(dma, dma[c].startmode)[c] ELSE dma[c]]
      /\ due' = (due \ ({"display"} \cup IF flush THEN {"gxfifo"} ELSE {})) \cup hit
      /\ since' = since \cup UNION {Asked(dma, m) : m \in ms}
      /\ isSwapBuffers' = (isSwapBuffers /\ ~flush)
      /\ gxfifo_enabled' = (gxfifo_enabled \/ flush)
      /\ phase' = 1 + (phase % (2 * Drawn + 2)) /\ turn' = NextTurn(due')
      /\ UNCHANGED <<program, gxFIFO, freezeBus, transfer_count, owed>>
  BY Zenon DEF Display
<1>. HIDE DEF ms, flush
<1>2. turn' \in 0 .. Len(Items) /\ TurnDue'
  BY <1>1, TurnStep DEF IInv
<1>3. ASSUME NEW c \in hit
      PROVE  /\ c \in Channels /\ dma'[c] = Poked(dma[c])
             /\ dma[c].enable /\ ~(dma[c].running /\ ~dma[c].paused)
             /\ dma[c].startmode = dma[c].written => c \in since'
  <2>1. PICK m \in ms : c \in Hit(dma, m)
    BY <1>3
  <2>2. c \in Channels /\ dma[c].startmode = m /\ dma[c].enable /\ ~(dma[c].running /\ ~dma[c].paused)
    BY <2>1, TriggerFacts
  <2>3. triggerDma(dma, dma[c].startmode)[c] = Poked(dma[c])
    BY <2>1, <2>2, TriggerFacts
  <2>4. dma[c].startmode = dma[c].written => c \in Asked(dma, m)
    BY <2>2 DEF Asked
  <2>. QED  BY <1>1, <2>1, <2>2, <2>3, <2>4
<1>. HIDE DEF hit
<1>4. ASSUME NEW c \in Channels PROVE Bystander(c)
  <2>1. CASE c \in hit
    <3>1. c \in since => c \in since'
      BY <1>1
    <3>. QED  BY <1>1, <1>3, <2>1, <3>1 DEF Bystander
  <2>2. CASE c \notin hit
    BY <1>1, <2>2 DEF Bystander
  <2>. QED  BY <2>1, <2>2
<1>5. dma' \in [Channels -> Controller] /\ \A c \in Channels : ChannelOK(c)' /\ SameRunning(c)
  <2>1. DOMAIN dma' = Channels /\ dma' = [c \in Channels |-> dma'[c]]
    BY <1>1
  <2>. QED  BY <1>4, <2>1, BystandersOK
<1>6. due' \subseteq ItemSet /\ since' \subseteq Channels
  <2>1. hit \subseteq Channels /\ UNION {Asked(dma, m) : m \in ms} \subseteq Channels
    BY <1>3 DEF Asked
  <2>. QED  BY <1>1, <2>1, ItemFacts DEF IInv, DmaTypeOK
<1>7. phase' \in 1 .. 2 * Drawn + 2
  <2>. DEFINE n == 2 * Drawn + 2
  <2>1. n \in Nat /\ n > 0 /\ phase \in 1 .. n
    BY SizesAssumption DEF IInv, DmaTypeOK
  <2>2. phase' = 1 + (phase % n)
    BY <1>1
  <2>. HIDE DEF n
  <2>3. phase % n \in 0 .. n - 1
    BY <2>1
  <2>. QED  BY <2>1, <2>2, <2>3 DEF n
<1>8. isSwapBuffers' \in BOOLEAN /\ gxfifo_enabled' \in BOOLEAN
  BY <1>1
<1>. QED  BY <1>1, <1>2, <1>5, <1>6, <1>7, <1>8 DEF IInv, DmaTypeOK

LEMMA Execute3DIInv ==
    ASSUME IInv, execute3D
    PROVE  IInv' /\ \A y \in Channels : SameRunning(y)
<1>. DEFINE low == ~isSwapBuffers /\ Len(gxFIFO) - Executed <= Low
<1>1. /\ gxFIFO' = SubSeq(gxFIFO, Executed + 1, Len(gxFIFO))
      /\ isSwapBuffers' = (isSwapBuffers \/ \E i \in 1 .. Executed : gxFIFO[i] = "swap")
      /\ gxfifo_enabled' = (Executed > 0)
      /\ dma' = IF low THEN triggerDma(dma, "GXFifo") ELSE dma
      /\ due' = (due \ {"gxfifo"}) \cup IF low THEN Hit(dma, "GXFifo") ELSE {}
      /\ turn' = NextTurn(due')
      /\ UNCHANGED <<program, phase, freezeBus, transfer_count, owed, since>>
  BY Zenon DEF execute3D
<1>. HIDE DEF low
<1>2. turn' \in 0 .. Len(Items) /\ TurnDue'
  BY <1>1, TurnStep DEF IInv
<1>3. /\ \A c \in Channels : Bystander(c)
      /\ DOMAIN dma' = Channels /\ dma' = [c \in Channels |-> dma'[c]]
  <2>1. CASE low
    <3>1. dma' = triggerDma(dma, "GXFifo") /\ due' = (due \ {"gxfifo"}) \cup Hit(dma, "GXFifo")
      BY <1>1, <2>1
    <3>. QED  BY <1>1, <3>1, TriggerBystanders DEF IInv
  <2>2. CASE ~low
    <3>1. dma' = dma /\ due' = due \ {"gxfifo"}
      BY <1>1, <2>2
    <3>. QED  BY <1>1, <3>1 DEF IInv, DmaTypeOK, Bystander
  <2>. QED  BY <2>1, <2>2
<1>4. dma' \in [Channels -> Controller] /\ \A c \in Channels : ChannelOK(c)' /\ SameRunning(c)
  BY <1>3, BystandersOK
<1>5. gxFIFO' \in Seq(Commands)
  <2>1. gxFIFO \in Seq(Commands) /\ Executed \in 0 .. Len(gxFIFO)
    BY SizesAssumption DEF IInv, DmaTypeOK, Executed, Fewer
  <2>. QED  BY <1>1, <2>1
<1>6. due' \subseteq ItemSet
  <2>1. Hit(dma, "GXFifo") \subseteq ItemSet
    BY ItemFacts DEF Hit
  <2>. QED  BY <1>1, <2>1 DEF IInv, DmaTypeOK
<1>7. isSwapBuffers' \in BOOLEAN /\ gxfifo_enabled' \in BOOLEAN
  BY <1>1, SizesAssumption DEF IInv, DmaTypeOK, Executed, Fewer
<1>. QED  BY <1>1, <1>2, <1>4, <1>5, <1>6, <1>7 DEF IInv, DmaTypeOK

-----------------------------------------------------------------------------
(* The turn of a channel                                                   *)

Taken(d) == [d EXCEPT !.dmaCheck = FALSE]

Resumed(d) ==
    LET w == Latched(Paused(d)) IN [w EXCEPT !.triggered = TriggeredNow(w)]

Started(d) == [d EXCEPT !.running = TRUE, !.paused = FALSE]

(* Two controllers with the same control word.                             *)
SameControl(x, d) ==
    /\ x.repeatMode = d.repeatMode /\ x.valid = d.valid /\ x.wordcount = d.wordcount
    /\ x.written = d.written

LEMMA TakenFacts ==
    ASSUME NEW d \in Controller
    PROVE  Taken(d) \in Controller /\ SameTransfer(Taken(d), d) /\ ~Taken(d).dmaCheck
<1>1. Taken(d) \in Controller
  BY SetCheck, Zenon DEF Taken
<1>2. SameTransfer(Taken(d), d) /\ Taken(d).dmaCheck = FALSE
  BY DEF Taken, SameTransfer, Controller
<1>. QED  BY <1>1, <1>2

LEMMA PausedFacts ==
    ASSUME NEW d \in Controller
    PROVE  /\ Paused(d) \in Controller /\ SameControl(Paused(d), d) /\ Paused(d).enable = d.enable
           /\ Paused(d).running = d.running /\ Paused(d).startmode = d.startmode
           /\ Paused(d).dmaCheck = d.dmaCheck
<1>1. Paused(d) \in Controller
  BY SetTriggered, SetPaused, Zenon DEF Paused
<1>2. CASE d.running
  BY <1>2 DEF Paused, SameControl, Controller
<1>3. CASE ~d.running
  BY <1>1, <1>3 DEF Paused, SameControl
<1>. QED  BY <1>1, <1>2, <1>3

LEMMA ResumedFacts ==
    ASSUME NEW d \in Controller
    PROVE  /\ Resumed(d) \in Controller /\ SameControl(Resumed(d), d) /\ Resumed(d).enable = d.enable
           /\ Resumed(d).running = d.running /\ Resumed(d).startmode = d.written
           /\ Resumed(d).dmaCheck = d.dmaCheck
<1>. DEFINE p == Paused(d)
            w == Latched(p)
            t == TriggeredNow(w)
<1>1. /\ p \in Controller /\ SameControl(p, d) /\ p.enable = d.enable /\ p.running = d.running
      /\ p.dmaCheck = d.dmaCheck
  BY PausedFacts
<1>. HIDE DEF p
<1>2. w \in Controller
  BY <1>1, SetStartmode, Registers, Zenon DEF Latched
<1>3. /\ SameControl(w, p) /\ w.enable = p.enable /\ w.running = p.running /\ w.startmode = p.written
      /\ w.dmaCheck = p.dmaCheck
  BY <1>1 DEF Latched, SameControl, Controller
<1>4. t \in BOOLEAN
  BY <1>2, Registers DEF TriggeredNow
<1>5. Resumed(d) = [w EXCEPT !.triggered = t]
  BY Zenon DEF Resumed, p
<1>. HIDE DEF w, t
<1>6. Resumed(d) \in Controller
  BY <1>2, <1>4, <1>5, SetTriggered, Zenon
<1>7. LET x == Resumed(d)
      IN  /\ SameControl(x, w) /\ x.enable = w.enable /\ x.running = w.running
          /\ x.startmode = w.startmode /\ x.dmaCheck = w.dmaCheck
  BY <1>2, <1>5 DEF SameControl, Controller
<1>. QED  BY <1>1, <1>3, <1>6, <1>7 DEF SameControl

LEMMA StartedFacts ==
    ASSUME NEW d \in Controller
    PROVE  /\ Started(d) \in Controller /\ SameControl(Started(d), d) /\ Started(d).enable = d.enable
           /\ Started(d).running /\ ~Started(d).paused /\ Started(d).startmode = d.startmode
           /\ Started(d).dmaCheck = d.dmaCheck
<1>1. Started(d) \in Controller
  BY SetRunning, SetPaused, Zenon DEF Started
<1>2. /\ SameControl(Started(d), d) /\ Started(d).enable = d.enable
      /\ Started(d).running = TRUE /\ Started(d).paused = FALSE /\ Started(d).startmode = d.startmode
      /\ Started(d).dmaCheck = d.dmaCheck
  BY DEF Started, SameControl, Controller
<1>. QED  BY <1>1, <1>2

(* What the turn of channel c may do.                                      *)
ExecOK(c) ==
    /\ dma' \in [Channels -> Controller] /\ ChannelOK(c)' /\ \A y \in Channels \ {c} : Bystander(y)
    /\ gxFIFO' \in Seq(Commands) /\ gxfifo_enabled' \in BOOLEAN /\ due' \subseteq ItemSet
    /\ freezeBus' \subseteq Arm9Dma \cup {"gx"} /\ transfer_count' \in [Procs -> 0 .. WordSpace - 1]
    /\ owed' \in [Channels -> Int]

(* A step that leaves the queues alone.                                    *)
LEMMA OwnTurn ==
    ASSUME IInv, NEW c \in Channels, NEW x \in Controller, dma' = [dma EXCEPT ![c] = x],
           NEW o \in Int, owed' = [owed EXCEPT ![c] = o], UNCHANGED <<program, since>>,
           due' \subseteq due, freezeBus' \subseteq freezeBus \cup (Arm9Dma \cap {c})
    PROVE  /\ dma' \in [Channels -> Controller] /\ dma'[c] = x
           /\ owed' \in [Channels -> Int] /\ owed'[c] = o /\ Exact' = Exact
           /\ due' \subseteq ItemSet /\ freezeBus' \subseteq Arm9Dma \cup {"gx"}
           /\ \A y \in Channels \ {c} : Bystander(y)
<1>1. /\ dma \in [Channels -> Controller] /\ owed \in [Channels -> Int] /\ due \subseteq ItemSet
      /\ freezeBus \subseteq Arm9Dma \cup {"gx"}
  BY DEF IInv, DmaTypeOK
<1>2. dma' \in [Channels -> Controller] /\ dma'[c] = x /\ \A y \in Channels \ {c} : dma'[y] = dma[y]
  BY <1>1
<1>3. owed' \in [Channels -> Int] /\ owed'[c] = o /\ \A y \in Channels \ {c} : owed'[y] = owed[y]
  BY <1>1
<1>4. due' \subseteq ItemSet /\ freezeBus' \subseteq Arm9Dma \cup {"gx"}
  BY <1>1
<1>5. \A y \in Channels \ {c} : Bystander(y)
  BY <1>2, <1>3 DEF Bystander
<1>6. Exact' = Exact
  BY DEF Exact
<1>. QED  BY <1>2, <1>3, <1>4, <1>5, <1>6

(* A channel whose turn it is and whose state is d (dmaCheck is cleared).  *)
HasTurn(c, d) ==
    /\ c \in Channels /\ d \in Controller /\ SameTransfer(d, dma[c]) /\ ~d.dmaCheck
    /\ dma[c].dmaCheck /\ UNCHANGED <<program, since>>

LEMMA StopOK ==
    ASSUME IInv, NEW c, NEW d, HasTurn(c, d), Finished(d), doStop(c, d)
    PROVE  ExecOK(c)
<1>. DEFINE e == d.enable /\ d.repeatMode
            x == [d EXCEPT !.running = FALSE, !.enable = e]
            o == IF d.repeatMode /\ d.enable THEN Count(c, d.wordcount) ELSE 0
<1>1. /\ dma' = [dma EXCEPT ![c] = x] /\ due' = due \ {c} /\ freezeBus' = freezeBus \ {c}
      /\ owed' = [owed EXCEPT ![c] = o] /\ UNCHANGED <<gxFIFO, gxfifo_enabled, transfer_count>>
  BY DEF doStop, UnfrozenBy
<1>2. /\ c \in Channels /\ d \in Controller /\ SameTransfer(d, dma[c]) /\ ~d.dmaCheck
      /\ dma[c].dmaCheck /\ UNCHANGED <<program, since>>
  BY DEF HasTurn
<1>3. e \in BOOLEAN
  OBVIOUS
<1>. HIDE DEF e
<1>4. x \in Controller
  BY <1>2, <1>3, SetRunning, SetEnable, Zenon
<1>5. SameControl(x, d) /\ x.enable = e /\ x.running = FALSE /\ x.dmaCheck = d.dmaCheck
  BY <1>2, <1>3, <1>4 DEF SameControl, Controller
<1>6. o \in Int
  <2>1. d.wordcount \in 0 .. WordSpace - 1
    BY <1>2, Registers
  <2>. QED  BY <2>1, SizesAssumption DEF Count
<1>. HIDE DEF x
<1>7. /\ dma' \in [Channels -> Controller] /\ dma'[c] = x
      /\ owed' \in [Channels -> Int] /\ owed'[c] = o /\ Exact' = Exact
      /\ due' \subseteq ItemSet /\ freezeBus' \subseteq Arm9Dma \cup {"gx"}
      /\ \A y \in Channels \ {c} : Bystander(y)
  BY <1>1, <1>2, <1>4, <1>6, OwnTurn
<1>8. HasEvent(c)' /\ FreshlyTriggered(c)'
  BY <1>1, <1>2, <1>5, <1>7 DEF HasEvent, FreshlyTriggered
<1>9. c \in Exact => OwesItsCount(c)'
  <2>. SUFFICES ASSUME c \in Exact PROVE OwesItsCount(c)'
    OBVIOUS
  <2>1. OwesItsCount(c)
    BY <1>2 DEF IInv, ChannelOK
  <2>2. /\ dma[c].running /\ dma[c].valid /\ dma[c].startmode = dma[c].written
        /\ d.written = "GXFifo" => ~d.repeatMode
    BY <1>2, <2>1 DEF OwesItsCount, Finished, SameTransfer
  <2>3. e => owed'[c] = Count(c, x.wordcount) /\ x.written # "GXFifo"
    BY <1>5, <1>7, <2>2 DEF SameControl, e
  <2>. QED  BY <1>5, <1>7, <2>3 DEF OwesItsCount
<1>. QED  BY <1>1, <1>2, <1>7, <1>8, <1>9 DEF ExecOK, ChannelOK, IInv, DmaTypeOK

(* A channel that does not start, whether it waits for its event or is     *)
(* disabled.                                                               *)
LEMMA WaitOK ==
    ASSUME IInv, NEW c, NEW d, HasTurn(c, d), NEW x \in Controller,
           x = Resumed(d) \/ (x = Paused(d) /\ ~d.enable),
           dma' = [dma EXCEPT ![c] = x], due' = due \ {c}, freezeBus' = UnfrozenBy(c),
           UNCHANGED <<gxFIFO, gxfifo_enabled, transfer_count, owed>>
    PROVE  ExecOK(c)
<1>1. /\ c \in Channels /\ d \in Controller /\ SameTransfer(d, dma[c]) /\ ~d.dmaCheck
      /\ dma[c].dmaCheck /\ UNCHANGED <<program, since>>
  BY DEF HasTurn
<1>2. /\ SameControl(x, d) /\ x.enable = d.enable /\ x.running = d.running /\ x.dmaCheck = d.dmaCheck
      /\ x.startmode = d.written \/ x.startmode = d.startmode
  BY <1>1, PausedFacts, ResumedFacts
<1>3. owed[c] \in Int /\ owed' = [owed EXCEPT ![c] = owed[c]] /\ freezeBus' = freezeBus \ {c}
  BY <1>1 DEF IInv, DmaTypeOK, UnfrozenBy
<1>4. /\ dma' \in [Channels -> Controller] /\ dma'[c] = x
      /\ owed' \in [Channels -> Int] /\ owed'[c] = owed[c] /\ Exact' = Exact
      /\ due' \subseteq ItemSet /\ freezeBus' \subseteq Arm9Dma \cup {"gx"}
      /\ \A y \in Channels \ {c} : Bystander(y)
  BY <1>1, <1>3, OwnTurn
<1>5. HasEvent(c)' /\ FreshlyTriggered(c)'
  BY <1>1, <1>2, <1>3, <1>4 DEF HasEvent, FreshlyTriggered
<1>6. c \in Exact => OwesItsCount(c)'
  <2>. SUFFICES ASSUME c \in Exact PROVE OwesItsCount(c)'
    OBVIOUS
  <2>1. OwesItsCount(c)
    BY <1>1 DEF IInv, ChannelOK
  <2>2. dma[c].running => dma[c].valid /\ dma[c].startmode = dma[c].written
    BY <1>1, <2>1 DEF OwesItsCount
  <2>3. x.running => x.startmode = dma[c].startmode
    BY <1>1, <1>2, <2>2 DEF SameTransfer
  <2>4. /\ x.enable = dma[c].enable /\ x.running = dma[c].running /\ x.repeatMode = dma[c].repeatMode
        /\ x.valid = dma[c].valid /\ x.wordcount = dma[c].wordcount /\ x.written = dma[c].written
    BY <1>1, <1>2 DEF SameTransfer, SameControl
  <2>. QED  BY <1>4, <2>1, <2>2, <2>3, <2>4 DEF OwesItsCount, Counted
<1>. QED  BY <1>1, <1>4, <1>5, <1>6 DEF ExecOK, ChannelOK, IInv, DmaTypeOK

(* A channel as doCopy leaves it.                                          *)
Shown(d) == [d EXCEPT !.enable = @ /\ ~(d.startmode = "MemDisplay" /\ OnLastDrawn)]
Copied(d, n) == [Shown(d) EXCEPT !.dmaCheck = TRUE, !.wordcount = Remaining(d, n)]

LEMMA ShownFacts ==
    ASSUME NEW d \in Controller
    PROVE  /\ Shown(d) \in Controller /\ SameControl(Shown(d), d) /\ (Shown(d).enable => d.enable)
           /\ Shown(d).running = d.running /\ Shown(d).paused = d.paused
           /\ Shown(d).startmode = d.startmode /\ Shown(d).dmaCheck = d.dmaCheck
<1>. DEFINE e == d.enable /\ ~(d.startmode = "MemDisplay" /\ OnLastDrawn)
<1>1. e \in BOOLEAN /\ Shown(d) = [d EXCEPT !.enable = e]
  BY Zenon DEF Shown
<1>2. Shown(d) \in Controller
  BY <1>1, SetEnable, Zenon
<1>3. e => d.enable
  OBVIOUS
<1>. HIDE DEF e
<1>4. /\ SameControl(Shown(d), d) /\ Shown(d).enable = e
      /\ Shown(d).running = d.running /\ Shown(d).paused = d.paused
      /\ Shown(d).startmode = d.startmode /\ Shown(d).dmaCheck = d.dmaCheck
  BY <1>1, <1>2 DEF SameControl, Controller
<1>. QED  BY <1>2, <1>3, <1>4

LEMMA CopiedFacts ==
    ASSUME NEW d \in Controller, NEW n \in Int
    PROVE  LET x == Copied(d, n)
           IN  /\ x \in Controller /\ x.running = d.running /\ x.startmode = d.startmode
               /\ x.written = d.written /\ x.valid = d.valid /\ x.repeatMode = d.repeatMode
               /\ x.dmaCheck /\ x.wordcount = Remaining(d, n)
<1>. DEFINE s == Shown(d)
            m == Remaining(d, n)
            x == Copied(d, n)
<1>1. /\ s \in Controller /\ SameControl(s, d) /\ s.running = d.running /\ s.startmode = d.startmode
  BY ShownFacts
<1>2. m \in 0 .. WordSpace - 1
  <2>1. d.wordcount \in 0 .. WordSpace - 1
    BY Registers
  <2>2. (d.wordcount - n) \in Int /\ WordSpace \in Nat /\ WordSpace > 0
    BY <2>1, SizesAssumption
  <2>3. (d.wordcount - n) % WordSpace \in 0 .. WordSpace - 1
    BY <2>2
  <2>. QED  BY <2>1, <2>2, <2>3 DEF Remaining
<1>3. x = [s EXCEPT !.dmaCheck = TRUE, !.wordcount = m]
  BY Zenon DEF Copied
<1>. HIDE DEF s, m, x
<1>4. x \in Controller
  BY <1>1, <1>2, <1>3, SetCheck, SetCount, Zenon
<1>5. /\ x.running = s.running /\ x.startmode = s.startmode
      /\ x.written = s.written /\ x.valid = s.valid /\ x.repeatMode = s.repeatMode
      /\ x.dmaCheck = TRUE /\ x.wordcount = m
  BY <1>1, <1>2, <1>3, <1>4 DEF Controller
<1>. QED  BY <1>1, <1>4, <1>5 DEF SameControl, x, m

(* The words that are copied.                                              *)
LEMMA TodoFacts ==
    ASSUME DmaTypeOK, NEW c \in Channels, NEW d \in Controller
    PROVE  /\ Todo(c, d) \in 0 .. WordSpace - 1
           /\ d.startmode = "GXFifo" => Todo(c, d) = Fewer(Count(c, d.wordcount), DmaBatch)
           /\ Counted(d) /\ d.startmode # "GXFifo" => Todo(c, d) = Count(c, d.wordcount)
<1>1. Count(c, d.wordcount) \in 0 .. WordSpace - 1
  <2>1. d.wordcount \in 0 .. WordSpace - 1
    BY Registers
  <2>. QED  BY <2>1, SizesAssumption DEF Count
<1>2. Fewer(Count(c, d.wordcount), DmaBatch) \in 0 .. WordSpace - 1
  BY <1>1, SizesAssumption DEF Fewer
<1>3. transfer_count[Cpu(c)] \in 0 .. WordSpace - 1
  BY DEF DmaTypeOK, Cpu, Procs
<1>4. LineWords \in 0 .. WordSpace - 1
  BY SizesAssumption
<1>. QED  BY <1>1, <1>2, <1>3, <1>4 DEF Todo, Counted

(* A channel starts, or goes on, in the mode that was written last, and    *)
(* owes what its word count says.                                          *)
LEMMA StartedOwes ==
    ASSUME IInv, NEW c \in Exact, NEW d, HasTurn(c, d), d.enable, ~Finished(d),
           NEW s, s = Started(Resumed(d))
    PROVE  /\ s \in Controller /\ s.running /\ s.startmode = s.written /\ ~s.dmaCheck /\ ~s.paused
           /\ s.valid /\ Counted(s) => owed[c] = Count(c, s.wordcount)
           /\ s.valid /\ s.startmode = "GXFifo" => s.wordcount > 0 /\ ~s.repeatMode
<1>1. /\ c \in Channels /\ d \in Controller /\ SameTransfer(d, dma[c]) /\ ~d.dmaCheck
      /\ dma[c].dmaCheck
  BY DEF HasTurn
<1>2. /\ s \in Controller /\ SameControl(s, d) /\ s.running /\ s.startmode = d.written /\ ~s.paused
      /\ ~s.dmaCheck
  BY <1>1, ResumedFacts, StartedFacts DEF SameControl
<1>3. OwesItsCount(c)
  BY <1>1 DEF IInv, ChannelOK
<1>4. /\ s.valid = dma[c].valid /\ s.wordcount = dma[c].wordcount /\ s.written = dma[c].written
      /\ s.repeatMode = dma[c].repeatMode /\ dma[c].enable
  BY <1>1, <1>2 DEF SameControl, SameTransfer
<1>5. CASE ~dma[c].running
  BY <1>1, <1>2, <1>3, <1>4, <1>5 DEF OwesItsCount, SameControl
<1>6. CASE dma[c].running
  <2>1. dma[c].startmode = "GXFifo" /\ dma[c].wordcount # 0 /\ s.startmode = "GXFifo"
    BY <1>1, <1>2, <1>3, <1>6 DEF Finished, SameTransfer, OwesItsCount
  <2>2. s.wordcount \in 0 .. WordSpace - 1
    BY <1>2, Registers
  <2>3. s.valid => owed[c] = s.wordcount /\ ~s.repeatMode
    BY <1>3, <1>4, <1>6, <2>1 DEF OwesItsCount
  <2>. QED  BY <1>2, <1>4, <2>1, <2>2, <2>3, SizesAssumption DEF Count, SameControl
<1>. QED  BY <1>5, <1>6

(* The states of a channel that gives up, or has copied n words.           *)
LEMMA CopierOwes ==
    ASSUME IInv, NEW c \in Exact, NEW d, HasTurn(c, d), d.enable, ~Finished(d),
           NEW s, s = Started(Resumed(d)), Exact' = Exact, NEW n, n = Todo(c, s),
           \/ ~s.valid /\ dma'[c] = Shown(s)
           \/ s.valid /\ dma'[c] = Copied(s, n) /\ owed'[c] = owed[c] - n
    PROVE  OwesItsCount(c)'
<1>1. /\ s \in Controller /\ s.running /\ s.startmode = s.written /\ ~s.dmaCheck /\ ~s.paused
      /\ s.valid /\ Counted(s) => owed[c] = Count(c, s.wordcount)
      /\ s.valid /\ s.startmode = "GXFifo" => s.wordcount > 0 /\ ~s.repeatMode
  BY StartedOwes
<1>2. CASE ~s.valid /\ dma'[c] = Shown(s)
  BY <1>1, <1>2, ShownFacts DEF SameControl, OwesItsCount
<1>3. CASE s.valid /\ dma'[c] = Copied(s, n) /\ owed'[c] = owed[c] - n
  <2>1. c \in Channels
    BY DEF HasTurn
  <2>2. /\ n \in 0 .. WordSpace - 1 /\ n \in Int
        /\ s.startmode = "GXFifo" => n = Fewer(Count(c, s.wordcount), DmaBatch)
        /\ Counted(s) /\ s.startmode # "GXFifo" => n = Count(c, s.wordcount)
    BY <1>1, <2>1, TodoFacts, SizesAssumption DEF IInv
  <2>. DEFINE x == Copied(s, n)
  <2>3. /\ x.running /\ x.startmode = s.startmode /\ x.written = s.written /\ x.valid = s.valid
        /\ x.repeatMode = s.repeatMode /\ x.dmaCheck /\ x.wordcount = Remaining(s, n)
    BY <1>1, <2>2, CopiedFacts
  <2>. HIDE DEF x
  <2>4. s.wordcount \in 0 .. WordSpace - 1
    BY <1>1, Registers
  <2>5. CASE s.startmode = "GXFifo"
    <3>1. owed[c] = s.wordcount /\ n \in 0 .. s.wordcount
      BY <1>1, <1>3, <2>2, <2>4, <2>5, SizesAssumption DEF Counted, Count, Fewer
    <3>2. Remaining(s, n) = (s.wordcount - n) % WordSpace
      BY <1>1, <1>3, <2>5 DEF Remaining
    <3>3. Remaining(s, n) = s.wordcount - n
      <4>1. s.wordcount - n \in 0 .. WordSpace - 1
        BY <2>4, <3>1, SizesAssumption
      <4>. QED  BY <3>2, <4>1, SizesAssumption
    <3>. QED  BY <1>1, <1>3, <2>3, <2>5, <3>1, <3>3 DEF OwesItsCount, x
  <2>6. CASE s.startmode # "GXFifo"
    <3>1. Counted(s) => owed[c] - n = 0
      <4>1. Count(c, s.wordcount) \in Int
        BY <2>4, SizesAssumption DEF Count
      <4>. QED  BY <1>1, <1>3, <2>2, <2>6, <4>1
    <3>. QED  BY <1>1, <1>3, <2>3, <2>6, <3>1 DEF OwesItsCount, Counted, x
  <2>. QED  BY <2>5, <2>6
<1>. QED  BY <1>2, <1>3

(* The outcomes of doCopy: it gives up, or it copies n words, which become *)
(* the commands `new' for the geometry FIFO, and pokes `others'.           *)
GivesUp(c, s) ==
    /\ ~s.valid /\ dma' = [dma EXCEPT ![c] = Shown(s)] /\ due' = due \ {c}
    /\ freezeBus' = UnfrozenBy(c) /\ UNCHANGED <<gxFIFO, gxfifo_enabled, transfer_count, owed>>

Copies(c, s, n, new, others) ==
    /\ s.valid /\ owed' = [owed EXCEPT ![c] = @ - n]
    /\ freezeBus' = IF c \in Arm9Dma THEN freezeBus \cup {c} ELSE freezeBus
    /\ transfer_count' = IF s.startmode = "Card" THEN [transfer_count EXCEPT ![Cpu(c)] = 0] ELSE transfer_count
    /\ gxFIFO' = gxFIFO \o new /\ gxfifo_enabled' = (gxfifo_enabled \/ new # <<>>)
    /\ dma' = [x \in Channels |-> IF x = c THEN Copied(s, n)
                                  ELSE IF x \in others THEN triggerDma(dma, "GXFifo")[x] ELSE dma[x]]
    /\ due' \subseteq due \cup others

LEMMA GiveUpOK ==
    ASSUME IInv, NEW c, NEW d, HasTurn(c, d), d.enable, ~Finished(d), NEW s, s = Started(Resumed(d)),
           GivesUp(c, s)
    PROVE  ExecOK(c)
<1>0. /\ ~s.valid /\ dma' = [dma EXCEPT ![c] = Shown(s)] /\ due' = due \ {c}
      /\ freezeBus' = UnfrozenBy(c) /\ UNCHANGED <<gxFIFO, gxfifo_enabled, transfer_count, owed>>
  BY DEF GivesUp
<1>1. c \in Channels /\ d \in Controller /\ ~d.dmaCheck /\ UNCHANGED <<program, since>>
  BY DEF HasTurn
<1>2. s \in Controller /\ ~s.dmaCheck
  BY <1>1, ResumedFacts, StartedFacts
<1>3. Shown(s) \in Controller /\ ~Shown(s).dmaCheck
  BY <1>2, ShownFacts
<1>4. owed[c] \in Int /\ owed' = [owed EXCEPT ![c] = owed[c]] /\ freezeBus' = freezeBus \ {c}
  BY <1>0, <1>1 DEF IInv, DmaTypeOK, UnfrozenBy
<1>5. /\ dma' \in [Channels -> Controller] /\ dma'[c] = Shown(s)
      /\ owed' \in [Channels -> Int] /\ owed'[c] = owed[c] /\ Exact' = Exact
      /\ due' \subseteq ItemSet /\ freezeBus' \subseteq Arm9Dma \cup {"gx"}
      /\ \A y \in Channels \ {c} : Bystander(y)
  BY <1>0, <1>1, <1>3, <1>4, OwnTurn
<1>6. HasEvent(c)' /\ FreshlyTriggered(c)'
  BY <1>0, <1>3, <1>4, <1>5 DEF HasEvent, FreshlyTriggered
<1>7. c \in Exact => OwesItsCount(c)'
  BY <1>0, <1>5, CopierOwes
<1>. QED  BY <1>0, <1>1, <1>5, <1>6, <1>7 DEF ExecOK, ChannelOK, IInv, DmaTypeOK

(* Words for the geometry FIFO trigger the other channels that wait for    *)
(* room in it, when there still is some.                                   *)
LEMMA CopyOK ==
    ASSUME IInv, NEW c, NEW d, HasTurn(c, d), d.enable, ~Finished(d), NEW s, s = Started(Resumed(d)),
           NEW new \in Sent(s, Todo(c, s)), NEW others \in SUBSET (Hit(dma, "GXFifo") \ {c}),
           Copies(c, s, Todo(c, s), new, others)
    PROVE  ExecOK(c)
<1>. DEFINE n == Todo(c, s)
            x == Copied(s, n)
<1>0. /\ s.valid /\ gxFIFO' = gxFIFO \o new
      /\ gxfifo_enabled' = (gxfifo_enabled \/ new # <<>>)
      /\ dma' = [y \in Channels |-> IF y = c THEN x
                                    ELSE IF y \in others THEN triggerDma(dma, "GXFifo")[y] ELSE dma[y]]
      /\ due' \subseteq due \cup others
      /\ freezeBus' = IF c \in Arm9Dma THEN freezeBus \cup {c} ELSE freezeBus
      /\ transfer_count' = IF s.startmode = "Card" THEN [transfer_count EXCEPT ![Cpu(c)] = 0] ELSE transfer_count
      /\ owed' = [owed EXCEPT ![c] = @ - n]
  BY Zenon DEF Copies
<1>1. c \in Channels /\ d \in Controller /\ UNCHANGED <<program, since>>
  BY DEF HasTurn
<1>2. s \in Controller /\ s.running
  BY <1>1, ResumedFacts, StartedFacts
<1>3. n \in 0 .. WordSpace - 1 /\ n \in Int
  BY <1>0, <1>1, <1>2, TodoFacts, SizesAssumption DEF IInv
<1>. HIDE DEF n
<1>4. x \in Controller /\ x.dmaCheck /\ x.running
  BY <1>2, <1>3, CopiedFacts
<1>5. dma'[c] = x
  BY <1>0, <1>1
<1>. HIDE DEF x
<1>6. ASSUME NEW y \in Channels \ {c} PROVE Bystander(y)
  <2>1. owed'[y] = owed[y] /\ (y \in freezeBus' => y \in freezeBus) /\ (y \in since => y \in since')
    BY <1>0, <1>1 DEF IInv, DmaTypeOK
  <2>2. CASE y \in others
    <3>1. dma[y].startmode = "GXFifo" /\ dma[y].enable /\ ~(dma[y].running /\ ~dma[y].paused)
      BY <2>2, TriggerFacts
    <3>2. dma'[y] = Poked(dma[y])
      BY <1>0, <2>2, TriggerFacts
    <3>. QED  BY <1>1, <2>1, <3>1, <3>2 DEF Bystander
  <2>3. CASE y \notin others
    BY <1>0, <1>1, <2>1, <2>3 DEF Bystander
  <2>. QED  BY <2>2, <2>3
<1>7. dma' \in [Channels -> Controller]
  <2>1. \A y \in Channels \ {c} : dma'[y] \in Controller
    BY <1>6, BystanderOK DEF IInv, DmaTypeOK
  <2>2. \A y \in Channels : dma'[y] \in Controller
    BY <1>4, <1>5, <2>1
  <2>3. dma' = [y \in Channels |-> dma'[y]]
    BY <1>0
  <2>. QED  BY <2>2, <2>3
<1>8. owed' \in [Channels -> Int] /\ owed'[c] = owed[c] - n
  BY <1>0, <1>1, <1>3 DEF IInv, DmaTypeOK
<1>9. HasEvent(c)' /\ FreshlyTriggered(c)'
  BY <1>4, <1>5 DEF HasEvent, FreshlyTriggered
<1>10. Exact' = Exact
  BY <1>1 DEF Exact
<1>11. c \in Exact => OwesItsCount(c)'
  BY <1>0, <1>5, <1>8, <1>10, CopierOwes DEF x, n
<1>12. gxFIFO' \in Seq(Commands)
  <2>1. new \in Seq(Commands)
    <3>1. CASE s.port
      <4>1. new \in Packed[n]
        BY <3>1, Zenon DEF n, Sent
      <4>. QED  BY <1>3, <4>1, SizesAssumption
    <3>2. CASE ~s.port
      BY <3>2 DEF Sent
    <3>. QED  BY <3>1, <3>2
  <2>. QED  BY <1>0, <2>1 DEF IInv, DmaTypeOK
<1>13. due' \subseteq ItemSet
  BY <1>0, ItemFacts DEF IInv, DmaTypeOK, Hit
<1>14. freezeBus' \subseteq Arm9Dma \cup {"gx"} /\ gxfifo_enabled' \in BOOLEAN
  BY <1>0 DEF IInv, DmaTypeOK
<1>15. transfer_count' \in [Procs -> 0 .. WordSpace - 1]
  <2>1. transfer_count \in [Procs -> 0 .. WordSpace - 1] /\ 0 \in 0 .. WordSpace - 1
    BY SizesAssumption DEF IInv, DmaTypeOK
  <2>. DEFINE p == Cpu(c)
              cleared == [transfer_count EXCEPT ![p] = 0]
  <2>2. transfer_count' = cleared \/ transfer_count' = transfer_count
    BY <1>0
  <2>. HIDE DEF p
  <2>3. cleared \in [Procs -> 0 .. WordSpace - 1]
    BY <2>1
  <2>. QED  BY <2>1, <2>2, <2>3
<1>16. ChannelOK(c)'
  BY <1>9, <1>10, <1>11 DEF ChannelOK
<1>17. owed' \in [Channels -> Int]
  BY <1>8
<1>. QED  BY <1>6, <1>7, <1>12, <1>13, <1>14, <1>15, <1>16, <1>17, Zenon DEF ExecOK

(* The outcomes of a turn, and of a copy.                                  *)
LEMMA ExecCases ==
    ASSUME NEW c, exec(c), NEW d, d = Taken(dma[c])
    PROVE  /\ turn # 0 /\ Items[turn] = c
           /\ turn' = NextTurn(due') /\ UNCHANGED <<program, phase, isSwapBuffers, since>>
           /\ \/ Finished(d) /\ doStop(c, d)
              \/ ~Finished(d) /\ d.enable /\ Resumed(d).triggered /\ doCopy(c, Started(Resumed(d)))
              \/ /\ ~Finished(d) /\ dma' = [dma EXCEPT ![c] = IF d.enable THEN Resumed(d) ELSE Paused(d)]
                 /\ due' = due \ {c} /\ freezeBus' = UnfrozenBy(c)
                 /\ UNCHANGED <<gxFIFO, gxfifo_enabled, transfer_count, owed>>
<1>. DEFINE w == Latched(Paused(d))
            s == [w EXCEPT !.triggered = TriggeredNow(w)]
<1>1. /\ turn # 0 /\ Items[turn] = c
      /\ turn' = NextTurn(due') /\ UNCHANGED <<program, phase, isSwapBuffers, since>>
      /\ \/ Finished(d) /\ doStop(c, d)
         \/ /\ ~Finished(d)
            /\ \/ /\ d.enable /\ s.triggered
                  /\ doCopy(c, [s EXCEPT !.running = TRUE, !.paused = FALSE])
               \/ /\ ~(d.enable /\ s.triggered)
                  /\ dma' = [dma EXCEPT ![c] = IF d.enable THEN s ELSE Paused(d)]
                  /\ due' = due \ {c}
                  /\ freezeBus' = UnfrozenBy(c)
                  /\ UNCHANGED <<gxFIFO, gxfifo_enabled, transfer_count, owed>>
  BY Zenon DEF exec, Runs, Taken
<1>2. s = Resumed(d) /\ [s EXCEPT !.running = TRUE, !.paused = FALSE] = Started(Resumed(d))
  BY Zenon DEF Resumed, Started
<1>. HIDE DEF s
<1>. QED  BY <1>1, <1>2, Zenon

LEMMA CopyCases ==
    ASSUME NEW c, NEW s, doCopy(c, s)
    PROVE  \/ GivesUp(c, s)
           \/ \E new \in Sent(s, Todo(c, s)), others \in SUBSET (Hit(dma, "GXFifo") \ {c}) :
                Copies(c, s, Todo(c, s), new, others)
<1>1. CASE ~s.valid
  BY <1>1, Zenon DEF doCopy, Shown, GivesUp
<1>2. CASE s.valid
  <2>1. /\ owed' = [owed EXCEPT ![c] = @ - Todo(c, s)]
        /\ freezeBus' = IF c \in Arm9Dma THEN freezeBus \cup {c} ELSE freezeBus
        /\ transfer_count' = IF s.startmode = "Card"
                               THEN [transfer_count EXCEPT ![Cpu(c)] = 0] ELSE transfer_count
    BY <1>2, Zenon DEF doCopy
  <2>2. PICK new \in Sent(s, Todo(c, s)) :
          LET low == new # <<>> /\ Len(gxFIFO) + 1 <= Low
              others == IF low THEN Hit(dma, "GXFifo") \ {c} ELSE {}
          IN  /\ gxFIFO' = gxFIFO \o new
              /\ gxfifo_enabled' = (gxfifo_enabled \/ new # <<>>)
              /\ dma' = [x \in Channels |-> IF x = c THEN Copied(s, Todo(c, s))
                                            ELSE IF x \in others THEN triggerDma(dma, "GXFifo")[x]
                                            ELSE dma[x]]
              /\ due' = ((IF Todo(c, s) > 0 THEN due \ {c} ELSE due)
                           \ IF new # <<>> THEN {"gxfifo"} ELSE {}) \cup others
    BY <1>2, Zenon DEF doCopy, Shown, Copied
  <2>. DEFINE low == new # <<>> /\ Len(gxFIFO) + 1 <= Low
              others == IF low THEN Hit(dma, "GXFifo") \ {c} ELSE {}
  <2>3. others \in SUBSET (Hit(dma, "GXFifo") \ {c})
    OBVIOUS
  <2>4. due' \subseteq due \cup others
    BY <2>2
  <2>5. Copies(c, s, Todo(c, s), new, others)
    BY <1>2, <2>1, <2>2, <2>4, Zenon DEF Copies
  <2>. QED  BY <2>3, <2>5, Zenon
<1>. QED  BY <1>1, <1>2, Zenon

LEMMA ExecTurn ==
    ASSUME IInv, NEW c \in Channels, exec(c)
    PROVE  HasTurn(c, Taken(dma[c]))
<1>1. turn # 0 /\ Items[turn] = c /\ UNCHANGED <<program, since>>
  BY ExecCases
<1>2. c \in due /\ dma[c] \in Controller
  BY <1>1 DEF IInv, TurnDue, DmaTypeOK
<1>3. dma[c].dmaCheck
  BY <1>2 DEF IInv, ChannelOK, HasEvent
<1>. QED  BY <1>1, <1>2, <1>3, TakenFacts DEF HasTurn

LEMMA ExecIInv ==
    ASSUME IInv, NEW c \in Channels, exec(c)
    PROVE  IInv' /\ \A y \in Channels \ {c} : SameRunning(y)
<1>. DEFINE d == Taken(dma[c])
            s == Started(Resumed(d))
<1>1. HasTurn(c, d) /\ d \in Controller
  BY ExecTurn DEF HasTurn
<1>2. /\ turn' = NextTurn(due') /\ UNCHANGED <<program, phase, isSwapBuffers, since>>
      /\ \/ Finished(d) /\ doStop(c, d)
         \/ ~Finished(d) /\ d.enable /\ Resumed(d).triggered /\ doCopy(c, s)
         \/ /\ ~Finished(d) /\ dma' = [dma EXCEPT ![c] = IF d.enable THEN Resumed(d) ELSE Paused(d)]
            /\ due' = due \ {c} /\ freezeBus' = UnfrozenBy(c)
            /\ UNCHANGED <<gxFIFO, gxfifo_enabled, transfer_count, owed>>
  BY ExecCases
<1>. HIDE DEF d
<1>3. ExecOK(c)
  <2>1. CASE Finished(d) /\ doStop(c, d)
    BY <1>1, <2>1, StopOK
  <2>2. CASE ~Finished(d) /\ d.enable /\ Resumed(d).triggered /\ doCopy(c, s)
    <3>. HIDE DEF s
    <3>1. s = Started(Resumed(d))
      BY DEF s
    <3>2. CASE GivesUp(c, s)
      BY <1>1, <2>2, <3>1, <3>2, GiveUpOK
    <3>3. CASE \E new \in Sent(s, Todo(c, s)), others \in SUBSET (Hit(dma, "GXFifo") \ {c}) :
                 Copies(c, s, Todo(c, s), new, others)
      BY <1>1, <2>2, <3>1, <3>3, CopyOK
    <3>. QED  BY <2>2, <3>2, <3>3, CopyCases
  <2>3. CASE /\ ~Finished(d) /\ dma' = [dma EXCEPT ![c] = IF d.enable THEN Resumed(d) ELSE Paused(d)]
             /\ due' = due \ {c} /\ freezeBus' = UnfrozenBy(c)
             /\ UNCHANGED <<gxFIFO, gxfifo_enabled, transfer_count, owed>>
    <3>. DEFINE x == IF d.enable THEN Resumed(d) ELSE Paused(d)
    <3>1. Resumed(d) \in Controller /\ Paused(d) \in Controller
      BY <1>1, ResumedFacts, PausedFacts
    <3>2. x \in Controller /\ (x = Resumed(d) \/ (x = Paused(d) /\ ~d.enable))
      BY <3>1, Zenon
    <3>. HIDE DEF x
    <3>3. dma' = [dma EXCEPT ![c] = x]
      BY <2>3 DEF x
    <3>. QED  BY <1>1, <2>3, <3>2, <3>3, WaitOK
  <2>. QED  BY <1>2, <2>1, <2>2, <2>3
<1>4. turn' \in 0 .. Len(Items) /\ TurnDue'
  BY <1>2, TurnStep DEF IInv
<1>5. DmaTypeOK'
  BY <1>2, <1>3, <1>4 DEF ExecOK, IInv, DmaTypeOK
<1>6. \A y \in Channels : ChannelOK(y)'
  <2>1. ASSUME NEW y \in Channels \ {c} PROVE ChannelOK(y)'
    BY <1>3, BystanderOK DEF ExecOK, IInv, DmaTypeOK
  <2>. QED  BY <1>3, <2>1 DEF ExecOK
<1>7. \A y \in Channels \ {c} : SameRunning(y)
  BY <1>3, BystanderRuns DEF ExecOK, IInv, DmaTypeOK
<1>. QED  BY <1>4, <1>5, <1>6, <1>7 DEF IInv

-----------------------------------------------------------------------------
(* The steps together                                                      *)

LEMMA NextIInv ==
    ASSUME IInv, [DmaNext]_dmaVars
    PROVE  IInv' /\ \A y \in Channels : SameRunning(y) \/ exec(y)
<1>1. CASE \E c \in Channels : WriteControl(c)
  BY <1>1, WriteIInv
<1>2. CASE WriteCommands \/ WritePacked
  BY <1>2, WriteCommandsIInv, WritePackedIInv
<1>3. CASE \E p \in Procs : WriteGCControl(p)
  BY <1>3, WriteGCControlIInv
<1>4. CASE Thaw
  BY <1>4, ThawIInv
<1>5. CASE \E S \in SUBSET Scheduled : EndSlice(S)
  BY <1>5, EndSliceIInv
<1>6. CASE Display
  BY <1>6, DisplayIInv
<1>7. CASE execute3D
  BY <1>7, Execute3DIInv
<1>8. CASE \E c \in Channels : exec(c)
  <2>1. PICK c \in Channels : exec(c)
    BY <1>8
  <2>. QED  BY <2>1, ExecIInv
<1>9. CASE UNCHANGED dmaVars
  <2>1. UNCHANGED <<program, turn, due, phase, dma, gxFIFO, gxfifo_enabled, isSwapBuffers, freezeBus,
                    transfer_count, owed, since>>
    BY <1>9 DEF dmaVars
  <2>2. Exact' = Exact
    BY <2>1 DEF Exact
  <2>3. \A c \in Channels : ChannelOK(c)'
    BY <2>1, <2>2 DEF IInv, ChannelOK, HasEvent, FreshlyTriggered, OwesItsCount, Counted
  <2>. QED  BY <2>1, <2>3 DEF IInv, DmaTypeOK, TurnDue, SameRunning
<1>. QED  BY <1>1, <1>2, <1>3, <1>4, <1>5, <1>6, <1>7, <1>8, <1>9 DEF DmaNext

(* The inductive invariant.                                                *)
THEOREM DmaInvariance == DmaSpec => []IInv
<1>1. DmaInit => IInv
  BY InitIInv
<1>2. IInv /\ [DmaNext]_dmaVars => IInv'
  BY NextIInv
<1>. QED  BY <1>1, <1>2, PTL DEF DmaSpec

(* The registers, queues and events keep their types, whatever software    *)
(* writes to the channels.                                                 *)
THEOREM DmaTypes == DmaSpec => []DmaTypeOK
<1>1. IInv => DmaTypeOK
  BY DEF IInv
<1>. QED  BY <1>1, DmaInvariance, PTL

(* A channel that keeps the bus frozen has an event that thaws it.         *)
THEOREM FrozenBusThaws == DmaSpec => []FrozenUntilEvent
<1>1. IInv => FrozenUntilEvent
  BY DEF IInv, ChannelOK, HasEvent, FrozenUntilEvent
<1>. QED  BY <1>1, DmaInvariance, PTL

(* A channel starts only after the event it waits for has occurred since   *)
(* it was enabled.                                                         *)
THEOREM OldTriggersForgotten == DmaSpec => NoOldTriggers
<1>1. ASSUME IInv, [DmaNext]_dmaVars, NEW c \in Channels \ Rewriters,
             ~dma[c].running, dma'[c].running, dma[c].written \notin {"Immediate", "GXFifo"},
             dma[c].startmode = dma[c].written
      PROVE  c \in since
  <2>1. exec(c)
    BY <1>1, NextIInv DEF SameRunning
  <2>. DEFINE d == Taken(dma[c])
  <2>2. HasTurn(c, d)
    BY <1>1, <2>1, ExecTurn
  <2>3. d \in Controller /\ SameTransfer(d, dma[c]) /\ dma[c].dmaCheck
    BY <2>2 DEF HasTurn
  <2>4. d.triggered = dma[c].triggered
    BY <1>1 DEF Taken, IInv, DmaTypeOK, Controller
  <2>5. ~d.running /\ d.written = dma[c].written
    BY <1>1, <2>3 DEF SameTransfer
  <2>. HIDE DEF d
  <2>6. Resumed(d).triggered => d.triggered
    <3>1. Paused(d) = d
      BY <2>5, Zenon DEF Paused
    <3>. DEFINE w == Latched(d)
    <3>2. w \in Controller /\ w.startmode = d.written /\ w.triggered = d.triggered
      BY <2>3 DEF Latched, Controller
    <3>3. Resumed(d) = [w EXCEPT !.triggered = TriggeredNow(w)]
      BY <3>1, Zenon DEF Resumed
    <3>. HIDE DEF w
    <3>4. TriggeredNow(w) = w.triggered
      BY <1>1, <2>5, <3>2 DEF TriggeredNow, Controller
    <3>. QED  BY <3>2, <3>3, <3>4 DEF Controller
  <2>7. d.enable /\ Resumed(d).triggered
    <3>1. CASE ~Finished(d) /\ dma' = [dma EXCEPT ![c] = IF d.enable THEN Resumed(d) ELSE Paused(d)]
      <4>1. dma'[c] = Resumed(d) \/ dma'[c] = Paused(d)
        BY <1>1, <3>1 DEF IInv, DmaTypeOK
      <4>. QED  BY <1>1, <2>3, <2>5, <4>1, ResumedFacts, PausedFacts
    <3>. QED  BY <2>1, <2>5, <3>1, ExecCases DEF Finished, d
  <2>8. FreshlyTriggered(c)
    BY <1>1 DEF IInv, ChannelOK
  <2>. QED  BY <1>1, <2>3, <2>4, <2>6, <2>7, <2>8 DEF FreshlyTriggered, SameTransfer
<1>2. IInv /\ [DmaNext]_dmaVars =>
        [\A c \in Channels \ Rewriters : ~dma[c].running /\ dma'[c].running
           /\ dma[c].written \notin {"Immediate", "GXFifo"} /\ dma[c].startmode = dma[c].written
           => c \in since]_dmaVars
  BY <1>1
<1>. QED  BY <1>2, DmaInvariance, PTL DEF DmaSpec, NoOldTriggers

(* A transfer that ends has moved the words that it was asked for.         *)
THEOREM CompletedTransfersMoved == DmaSpec => CompletionMeansMoved
<1>1. ASSUME IInv, [DmaNext]_dmaVars, NEW c \in Exact, dma[c].running, ~dma'[c].running, Counted(dma[c])
      PROVE  owed[c] = 0
  <2>1. c \in Channels
    BY DEF Exact
  <2>2. exec(c)
    BY <1>1, <2>1, NextIInv DEF SameRunning
  <2>. DEFINE d == Taken(dma[c])
              s == Started(Resumed(d))
  <2>3. HasTurn(c, d)
    BY <1>1, <2>1, <2>2, ExecTurn
  <2>4. d \in Controller /\ SameTransfer(d, dma[c]) /\ dma[c].dmaCheck
    BY <2>3 DEF HasTurn
  <2>5. d.running
    BY <1>1, <2>4 DEF SameTransfer
  <2>6. /\ Resumed(d).running /\ Paused(d).running
        /\ Shown(s).running /\ \A n \in Int : Copied(s, n).running
    <3>1. Resumed(d) \in Controller /\ Resumed(d).running /\ Paused(d).running
      BY <2>4, <2>5, ResumedFacts, PausedFacts
    <3>2. s \in Controller /\ s.running
      BY <3>1, StartedFacts
    <3>. HIDE DEF s
    <3>. QED  BY <3>1, <3>2, ShownFacts, CopiedFacts
  <2>7. Todo(c, s) \in Int
    BY <1>1, <2>1, <2>4, ResumedFacts, StartedFacts, TodoFacts DEF IInv
  <2>8. \/ Finished(d)
        \/ doCopy(c, s)
        \/ dma' = [dma EXCEPT ![c] = IF d.enable THEN Resumed(d) ELSE Paused(d)]
    BY <2>2, ExecCases
  <2>. HIDE DEF d, s
  <2>9. Finished(d)
    <3>1. CASE doCopy(c, s)
      <4>1. dma'[c] = Shown(s) \/ dma'[c] = Copied(s, Todo(c, s))
        BY <1>1, <2>1, <3>1, CopyCases DEF GivesUp, Copies, IInv, DmaTypeOK
      <4>. QED  BY <1>1, <2>6, <2>7, <4>1
    <3>2. CASE dma' = [dma EXCEPT ![c] = IF d.enable THEN Resumed(d) ELSE Paused(d)]
      <4>1. dma'[c] = Resumed(d) \/ dma'[c] = Paused(d)
        BY <1>1, <2>1, <3>2 DEF IInv, DmaTypeOK
      <4>. QED  BY <1>1, <2>6, <4>1
    <3>. QED  BY <2>8, <3>1, <3>2
  <2>10. OwesItsCount(c)
    BY <1>1, <2>1 DEF IInv, ChannelOK
  <2>. QED  BY <1>1, <2>4, <2>9, <2>10 DEF Finished, OwesItsCount, SameTransfer
<1>2. IInv /\ [DmaNext]_dmaVars =>
        [\A c \in Exact : dma[c].running /\ ~dma'[c].running /\ Counted(dma[c]) => owed[c] = 0]_dmaVars
  BY <1>1
<1>. QED  BY <1>2, DmaInvariance, PTL DEF DmaSpec, CompletionMeansMoved
=============================================================================
