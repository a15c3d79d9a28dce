# A TLA+ model of DeSmuME (desmume2015)

This directory models the control of the Nintendo DS emulator in
`desmume/src`: how its two emulated CPUs, its hardware events and its real
threads are interleaved. Pixel, sound and instruction arithmetic is left out.
All paths below are relative to `desmume/src`.

## 1. Inventory

The emulator is one *emulation thread* that interleaves two emulated CPUs and
a set of hardware items, plus *rasterizer threads* that draw the 3D layer.
So there are two kinds of concurrency: between ARM9 and ARM7 (every register
access runs to completion, but accesses interleave in any order), and between
real threads.

| part | state | operations | interacts with | what makes it correct |
|---|---|---|---|---|
| IPC FIFO (`FIFO.cpp`) | two rings, two control registers that cache their fill, interrupt flags | send, receive, control write, reset | both CPUs, interrupt registers | FIFO order, exact status bits, no missed interrupt edge |
| Task (`utils/task.cpp`) | work slot, result, exit flag, mutex, one condition variable | start, execute, finish, shutdown, taskProc | rasterizer | no lost wake-up, finish means done, no thread after shutdown |
| Software rasterizer (`rasterize.cpp`, `render3D.cpp`) | jobs of the threads, two "needs finish" flags, framebuffer | BeginRender, RenderGeometry, RenderFinish, Reset, core change | geometry engine, GPU, Task | a displayed layer is one whole frame, inputs are stable while read, nothing is freed in use |
| Emulation loop (`NDSSystem.cpp`) | three clocks, reschedule flag, item times, line counter, frozen bus | NDS_exec, execHardware, interrupts, armInnerLoop | everything | events on time, interrupts prompt, CPUs in step, progress |
| DMA (`MMU.cpp`) | per channel: enable, running, triggered, latched mode, event | control write, trigger, exec, doCopy, pause, stop | bus, geometry FIFO, display, card | a transfer that ends has moved its words, every transfer ends, a frozen bus thaws, no old trigger starts it |
| Geometry engine (`gfx3d.cpp`, `FIFO.cpp`) | packed port, FIFO, pending swap, vertex and polygon lists | port writes, execute3D, begin, vertex, swap, flush | DMA, bus, rasterizer | the list handed over is the frame software sent |
| Timers, divider (`NDSSystem.cpp`, `MMU.cpp`) | reload, cached value, time of the next overflow | control write, read, exec of the event | emulation loop, interrupts | a read shows what a stepped counter would hold |
| CPU halt state, BIOS wait (`armcpu.cpp`, `bios.cpp`) | waitIRQ, halt_IE_and_IF, IME, CPSR.I, intrWaitARM_state | halt, IntrWait, interrupt entry | emulation loop | a waiting CPU wakes; a wait ends when, and only when, its interrupt was reported |
| IPCSYNC (`MMU.cpp`) | a register per CPU, the Ensata handshake | register write | both CPUs | each half shows what the other CPU sent last |
| Backup memory (`mc.cpp`) | SPI automaton, guessed address width, file with footer, stream position | a byte, end of transfer, growth, reset, save and load of states, restart | ARM7, file | it is a memory |
| Game card (`MMU.cpp`, `slot1comp_protocol.cpp`, `slot1comp_rom.cpp`) | transfer count and busy bit per CPU, protocol mode, operation, ROM address | control write, read of a word | both CPUs, DMA | words are those of the present command |
| Real time clock (`rtc.cpp`) | wires, state, bits so far, command, data, registers | one register write | ARM7 | transfers reach the right register, a date is of one moment |
| Texture cache, VRAM mapping (`texcache.cpp`, `MMU.cpp`) | cached textures with copies of their source, two flags each; the map of banks | scan, invalidate, evict, reset, VRAMCNT write | rasterizer | no stale texture is drawn, none is deleted in use |
| Sound (`SPU.cpp`) | per channel: key, format, length, position, ADPCM decoder and its loop state | register writes, mixing of a sample, savestate | ARM7 | samples in order through every loop, position within the sound |
| Save states (`saves.cpp`) | a file of chunks | save, load | every part | what is not in the file is recomputed |
| 2D pixels, interpreters, JIT, OpenGL, wifi, firmware, frontend | data | data processing and I/O | | not control; see section 7 |

Hard behaviours: one condition variable for two kinds of sleepers; flags that
say "threads may still run" and are cleared early; state handed from the
emulation thread to the threads by pointer; cached status bits; interrupts
that become deliverable in the middle of a time slice; instructions that
overshoot events; a bus that stops both CPUs; transfers paused and resumed by
the level of a FIFO; positions, widths and values that are cached, guessed or
kept in step instead of being computed; calls that are executed again after
each interrupt. `PROJECT.json` lists the main ones
at its line under `hazards`, with the properties about it or the reason why
there is none yet.

## 2. Modules

`Channel` <- `Ipc` <- `MCIpc`, `IpcProofs`. **IPC FIFO.** `fifo[p]` is
`ipc_fifo[p]` (buf, head, tail, size), `cnt[p]` the set of bits of
`IPCFIFOCNT` that are set, so the code's masks are set operations; `reg_IF`
holds the two IPC interrupts; `readVal` is what the last read returned.
`IPC_FIFOsend`, `IPC_FIFOrecv`, `IPC_FIFOcnt`, `REG_IF_Write` and `MMU_Reset`
are the handlers, each with its early returns as disjuncts. A send to a
disabled FIFO changes nothing and is no step. `Channel` is the abstract
specification: two bounded channels, without registers.

`Mailbox` <- `Task` <- `MCTask`, `TaskProofs`. **Worker thread.** One client
thread (the emulation thread, the only user) and the worker. A critical
section is one step taken when the mutex is free; `taskProc` holds the mutex
while the work runs, so the work lies between `WorkerTake` and `WorkerDone`.
`scond_signal` wakes any one sleeper or nobody. The loop condition
`!exitThread`, read without the mutex, is a step of its own. `Mailbox` is the
abstract one-slot mailbox.

`SoftRasterizer` <- `MCSoftRasterizer`, `RendererProofs`. **Frame protocol of the renderer.**
Threads are used as the mailboxes that `Task` was shown to implement. The
emulation thread's position in a blocking call is `pc`; `renderState` and
`building` are what `gfx3d_doFlush` hands over; `begun` is what `BeginRender`
took; `fb` and `layer` hold, per scanline, the frame drawn and whether it was
post-processed. Vertical blank, its end, line 0, reset, savestate and core
change are the actions. The scanline mask of the threads is the constant
`BitAnd`, which `MCBitAnd` gives its value.

`Emuloop` <- `MCEmuloop`, `EmuloopProofs`. **Emulation loop.** One action
per stage of `NDS_exec`: the display event, the other items, interrupt
delivery with `findNext`, the ARM9 half and the ARM7 half of one iteration of
`armInnerLoop`, and its return. Times are relative to `nds_timer_base` and
rebased on return, exactly as the code keeps them in 32 bits, so the state
space is finite without a bound on time. An instruction has a cost from
`Costs[p]` and one effect on shared hardware: none, halt, sleep, a write of
IE, of IME (or CPSR.I), of IF, an interrupt for the other CPU, a division, an
immediate DMA, a geometry command, or GXSTAT. One interrupt per CPU stands
for all of them. The two 64 bit CPU timers, `waitIRQ`, `halt_IE_and_IF`,
`freezeBus` and `isSwapBuffers` keep their names.

`GeometryDma` <- `MCGeometryDma`, `GeometryDmaProofs`. **DMA and the geometry FIFO.** It composes
the channels of both CPUs, the FIFO, the engine that drains it, the display
and the card. `dma[c]` is a `DmaController` (`written` and `startmode` are the
mode in the control word and the one that was latched), `freezeBus` the
channels that hold the bus, and the actions are the handlers: a control
write, the direct ports (which freeze the bus of a full FIFO) and the packed
port (which does not), and the card register for software, and `Display`,
`execute3D` and `exec(c)` in the order of `Sequencer::execHardware`; `exec`
includes `doCopy`, `doPause`, `doStop` and `tryTrigger`. A transfer in any
mode may have the packed port as its destination (`port`); only the mode
GXFifo sends its words in batches. `turn` is the item
that runs next. Times are abstracted to "due at once" and "due at the end of
a later slice", so software may write any number of registers in between.
`owed` counts what a transfer has still to move, independently of the code's
word counts. Addresses and data are left out.

`MCDevices` extends the modules of the devices that do not interact and
explores each one alone: a behaviour chooses its device at the start and
leaves the others as they are. So its states are the sum, not the product, of
the devices' states. Each module has its own specification (`BackupSpec`,
`TimersSpec`, `TexSpec`, `IntrSpec`, `CardSpec`, `SyncSpec`, `SoundSpec`, `RtcSpec`), which
is what the theorems are about: `TimerProofs` (`Timers`), `RendererProofs`
(`TexCache`), `CartridgeProofs` (`Card` and `Backup`) and `DeviceProofs`
(`IpcSync`, `IntrWait`, `Sound` and `Rtc`). The modules are:

* `GeometryEngine`: `GXF_Hardware` (`gxport`), the FIFO, batches of commands,
  `gfx3d_glBegin`, vertices and `SetVertex` in the four formats with the index
  map of the strips, the list limits, swap and vertical blank. Software
  computes in `wanted` the polygons it means, vertex by vertex.
* `Backup`: `backup` is a `BackupDevice`, `backupFile` its file with the
  footer as one negative entry, `fp` the stream position, `mem` the memory
  that it promises to be. Software sends any byte at any time; the console
  may be closed, in an orderly way, and opened again between any two bytes
  (`Reopen`).
* `Timers`: `timer` is what the code keeps, with `left` the cycles to the
  event and `mode` the cycles per tick, one of `Units` (1 << `prescaler`); the
  mode of a chained timer has no unit. `clock` is the reference: the same
  timers stepped cycle by cycle (`Cycle`, `Ticked`). `Elapse(d)` lets the CPUs
  run and then executes every timer that is due, up to `MaxLate` cycles late,
  in the order of `execHardware` (`Executed`).
* `TexCache`: a bank holds one value; `index` is the cache, each texture with
  the copies it is compared with; `MMU_VRAMmapControl` invalidates;
  `BeginSetup`, `SetTexture` and `EndSetup` are the setup of a frame,
  `TexRenderFinish` evicts after it.
* `IntrWait`: one CPU, its interrupt registers, the call with its
  re-execution, and the handler of the operating system, which reports what
  it serves.
* `Card`: the registers of both CPUs, the modes RAW, KEY1 and NORMAL, and the
  ROM; a word is named by its place, so `Word(op, a, i)` is what the i-th word
  of a command has to be. Either CPU starts a transfer at any time, also over
  an unfinished one (`StartTransfer`), or writes the control register without
  the start bit (`StopTransfer`), which clears the busy bits and keeps the
  count; every access of the data register counts, also when no word is left
  (`Counts`). `due` is what a CPU waits for, independently of the count.
* `IpcSync`: the registers of both CPUs with the Ensata
  handshake.
* `Rtc`: `rtcWrite` with the state of `_RTC` (`cmdStat`, `bitsCount`, `cmd`,
  `data`), the wires, and an external driver that sends transfers bit by bit
  in either order, or gives one up. `last` is what whole transfers amount to.
* `Sound`: one channel. A sample is data, but the ADPCM decoder's state is
  named by the nibbles it has decoded, which is what loops and savestates can
  get wrong.

## 3. Runs

| run | checks | shows |
|---|---|---|
| `ipc` | TypeOK, RingsConsistent, StatusBitsExact, EdgesLatched, ChannelSpec | cached bits are exact, edges are latched, FIFO order is kept in every interleaving |
| `task` | TypeOK, NoLostWakeup, DeadAfterShutdown, CallsReturn, MailboxSpec | one signalled condition variable is enough for one client |
| `softrast` | ShownLayerWhole, RasterAfterSetup, ReplacedWhenIdle, NoJobOverwritten, EmulationGoesOn | the displayed layer is whole, threads are idle when their state is replaced |
| `softrast_inputs` | RenderInputsKept (violated) | a flush overwrites the inputs of running threads when the 3D layer is off |
| `softrast_capture` | CapturedLayerWhole (violated) | a capture of the 3D screen does not wait for it |
| `emuloop_irq` | TypeOK, PromptDelivery, WaitersWake, FramesEnd | interrupts are prompt, halted CPUs wake, frames end |
| `emuloop_bus` | EventsOnTime, CpusInStep, FrozenHasEvent, BusThaws | events are late by one instruction at most, a frozen bus thaws |
| `emuloop_time` | TimeNeverRunsBack (violated) | `nds_timer` can step backwards |
| `dma` | DmaTypeOK, FifoBounded, FrozenUntilEvent, CompletionMeansMoved, TransfersEnd, NoOldTriggers | transfers move their words and end, through pauses, rewriting, repetition and invalid modes; the FIFO stays bounded unless software overdrives it; the bus thaws |
| `devices` | DevicesTypeOK, BackupReads, TimersExact, PolygonsExact, TexturesFresh, FrameTexturesKept, ReturnsWhenReported, CardDataExact, SyncMirrored, RtcTransfersExact, PlaysInOrder | each device does what it promises, after any sequence of register accesses |
| `sound_header` | LoopRecovered (violated) | after a state was loaded a loop is decoded from the header without the nibbles of the header that the passes before it had decoded |
| `geometry_swap` | PolygonsExact (violated) | polygons of the next frame get into the list of the last one, when software does not wait |

**Bounds.** Rings of two slots wrap, fill and empty within two words; the
proofs cover every depth. Two words suffice to tell order. `CntWrites` has
one value per branch of `IPC_FIFOcnt`. Two works tell a stale result from a
new one; two spurious wake-ups (`MaxSpurious`) hit both sleepers. Core counts
1, 3 and 4 are the three code paths (inline, threads with inline setup,
threads with setup jobs), and 3 is no power of two; five lines do not divide
evenly; three flushes (`MaxFrames`) let a frame be overtaken by two. A frame
of three lines has a drawn line, the vertical blank and the last line; cycles
are scaled down so that an instruction can overshoot an event, a DMA is
shorter or longer than a time slice (`MaxWork`), and the geometry FIFO of
three (`MaxFifo`) fills (`Full` = 2). The two passing loop runs divide the
kinds of instructions (`Ops`) between them; `halt` and `ie` are in both.

`dma`: two channels of ARM9 compete for the geometry FIFO, and one of ARM7
runs beside them. A behaviour follows one of four programs (`MCPrograms`):
geometry transfers of two words and of one word with swaps written to the
direct ports between them; a geometry transfer beside an immediate transfer to
the packed port and writes to it, up to a FIFO of `MaxFifo` entries before
each; a display and a vertical blank transfer beside an immediate one with a word
count of 0 and one of an invalid mode; and a horizontal blank transfer beside
a repeating and a card transfer of ARM7. `Packed` gives the commands in the
words of a transfer, one per word. Sizes are scaled so that a
transfer needs two batches (`DmaBatch` 1 of 2 words), and the low mark (1) and
the freezing mark (3) are crossed in both directions. As in the code (64 and
112 of 128), a batch, executed (`FifoBatch` 1) or sent, is smaller than the
distance of the marks, so that the program can refill the FIFO again and again
before it is low: TransfersEnd promises the end of a geometry transfer when
the FIFO is low infinitely often, and without that condition TLC finds the
transfer starved. `WordSpace` 4 lets an unsigned count wrap.

`devices`: bytes of two values (`Base`) make two-byte addresses of 4; save
sizes 2 and 4 let the file grow and need a second padding; first commands of
up to 7 bytes give the widths 1 to 3 (`MaxDetect`), of which the last takes
addresses up to `MaxAddr` only; one stored byte at a time
(`MaxStored`) tells a wrong address. Three timers chain through a middle one;
counters of 2 values overflow after one or two ticks; with instructions of up
to 2 cycles (`MaxLate`) an overflow is noticed at once or a cycle late, never
a whole period late, so several overflows of one timer at once are covered by
the proof only. Packed words of two commands, batches of
2, six vertices and a list of 2 polygons give two polygons of a strip and a
full list; software waits for an empty FIFO (`MaxQueue` 0), so that what a
batch does behind a swap is not shown here but in `geometry_swap`. A state of the
backup memory is saved in the middle of a read with writing enabled, where
what is read next shows the stream. Disabling a timer keeps its mode. Banks F, A and B bring palette, texture and index table, and A and
B overlap; a cache of 2 for 3 textures evicts. The card has a partial last
block (19 words of 32, in blocks of 4); transfers have no or two words
(`BlockSizes`), up to 5 words are read for one command (`MaxWords`), so over
the end of a block and by both CPUs, and the count falls to one word below 0
(`MaxExtra`). IPCSYNC values 0, 7 and 8 are the two
first steps of the handshake and a value that is not one. Three kinds of
clock transfers (a status register, the whole date, the alarm with its two
sizes), two bytes, and two moments at the turn of a year, when every byte of
the date changes. A sound with a loop shorter than a step (rates 4 and 5 over
`Fraction` 2), and one with a loop behind the header.
`sound_header` has the bounds of `devices`, with the sound alone.
`CHECK_DEADLOCK FALSE` in `devices`, `sound_header` and `geometry_swap`: a CPU
that halts with no interrupt enabled really stops, and bounded software ends.

The inputs leave out what the code is known or documented not to handle, and
each is named in section 7: rewritten channels (`Rewriters`) in
CompletionMeansMoved and TransfersEnd, software that overdrives the geometry
FIFO in FifoBounded, timers after a "yikes" in TimersExact, a backup device of
width 0 in BackupReads, and states of another size than the backup file.

**Fairness.** `Task`: weak fairness of worker and client, that is, the
operating system runs both threads and work functions return. No call is
assumed to be made. `SoftRasterizer`: weak fairness of every thread's job
and of the emulation thread inside a call. `Emuloop`: weak fairness of the
loop as a whole, because the frontend calls `NDS_exec` again and it is one
sequential thread; which instruction is executed is never fair. Liveness
properties exclude a sleeping machine (`sleeping`), which only the user's
input ends. `GeometryDma`: weak fairness of the hardware's steps, which one
thread runs in a fixed order, and of the idle ARM9 that thaws the geometry
bus; strong fairness that the time of each scheduled event comes, because
cycle counts only grow. Nothing is assumed of software. `MCDevices` states no
fairness and checks safety only.

## 4. Findings

`PROJECT.json` quotes the lines. In short: the ADPCM decoder decodes nibbles
of its header as samples, but not when it recovers a loop after a state was
loaded; `gfx3d_doFlush` does not wait for the threads; display capture
does not call `RenderFinish`; `nds_timer` can run back when an idle ARM7
leaves the inner loop behind an ARM9 that has overshot; and
`gfx3d_execute3D` looks at a pending swap only before a batch of 64 commands,
so that commands behind the swap in the same batch are executed into the old
list, although the comment at `gfx3d.cpp:62-66` says that such commands have
to be queued (`geometry_swap`; under software that waits for the vertical
blank, `devices` shows PolygonsExact to hold).

## 5. Proofs

Checked by TLAPS for every value of the constants.

* `IpcProofs`, from: two CPUs, a positive depth, 0 among the words, and
  control writes made of the command bits. The inductive invariant is
  `TypeOK /\ RingsConsistent /\ StatusBitsExact`. The parts need each other:
  IPC_FIFOcnt raises interrupts by looking at the cached bits, so
  EdgesLatched needs StatusBitsExact, and an accepted send keeps the bits
  exact only if the size never passes the depth. Proved: the type invariant,
  both safety invariants, EdgesLatched, and that `Spec` implements `Channel`
  with `chan[p]` mapped to the words from head to tail. The lemmas
  `ContentsPush` and `ContentsPop` carry the wrap-around.
* `TaskProofs`, from: the null value is no work. `NoLostWakeup` alone is not
  inductive: a step of the client would have to know that the worker holds
  the mutex exactly between test and done, that a thread in the waiting set
  is at its wait, and that nobody but the joining client sees an exited
  worker. `Protocol` says this. Central lemma: at most one of the two threads
  is asleep and unsignalled (`OneSleeper`), hence a signal finds the right
  one. Proved: type invariant, NoLostWakeup, DeadAfterShutdown, and that
  `Spec` implements `Mailbox`.
* `EmuloopProofs`, from: positive instruction costs with a longest one,
  positive event durations, `IrqWait >= MaxWork`, lines in order. `IInv` is
  `TypeOK /\ PromptDelivery /\ FrozenHasEvent`: a CPU executes only on a bus
  that is not frozen, which is why no instruction can restart a DMA that is
  being copied. `TInv` adds `TimeInv`, which says for each stage of
  `NDS_exec` where the two CPUs and the events stand: behind `nds_timer` by
  less than one instruction, or ahead of it only as far as the slice lets them
  run. EventsOnTime alone is not inductive, because an event is late by what
  a CPU was ahead when it was scheduled. Proved: type invariant,
  PromptDelivery, FrozenHasEvent, EventsOnTime and CpusInStep for every
  program.
* `GeometryDmaProofs`, from: an order of the channels (`OrderAssumption`),
  controls of ARM7 with modes that it has, and sizes for which a batch
  fits (`SizesAssumption`); nothing is assumed of where a transfer goes or what
  is written to the ports. `IInv` says per channel that what is due or
  freezes the bus has an event, that a trigger about to be acted upon is
  fresh, and that what is owed is what the word count says; these need each
  other, because a transfer that was given up stays running and must never
  get a turn again. Proved: the type invariant, FrozenUntilEvent,
  NoOldTriggers and CompletionMeansMoved, for any channels and programs
  outside `Rewriters`.
* `RendererProofs`, the frame protocol, from: a set of core counts with a largest one, at
  least four cores for setup jobs, and a mask that yields a thread
  (`BitAndAssumption`; the code uses powers of two, the theorem does not need
  them). The invariant lists what the threads may have as a job at each stage
  of a frame and which lines are finished; a stage is told by `pc` and the two
  flags together. Proved: ShownLayerWhole, RasterAfterSetup, ReplacedWhenIdle
  and NoJobOverwritten. The lemmas on scanlines show that the threads' lines
  cover the frame.
* `RendererProofs`, the texture cache, from: the banks are mapped in a fixed order, and textures
  and purposes are of their kinds. A cached texture is trusted in two ways:
  its copies are those of memory while it is not suspected, because a bank can
  be written only while nobody sees it, and mapping it again suspects
  everything; and the palette of a 4x4 texture while it is not assumed
  invalid, because palette memory is watched from the first mapping on.
  `TexInv` says so. Proved: TexturesFresh and FrameTexturesKept.
* `TimerProofs`, from: `TimersAssumption` (at least one timer, counters of at
  least one value, reloads that a counter can hold, positive units, and a
  longest instruction). The code computes a counter from the time of its next
  event, and an overflow reloads from that time plus the period, not from the
  moment it is noticed; the hardware counts. `TimersInv` says that the two
  agree: while nothing was lost ("yikes"), the event of a timer that runs by
  itself is as many cycles away as the clock's counter needs to overflow, a
  chained or stopped timer shows the clock's counter, and both have raised the
  same interrupts. `TimersExact` is about what is read; the time of the event
  is what carries it through a step. Each step is followed twice: the clock
  cycle by cycle (`TickedTo`), the code timer by timer (`HandledTo`), and both
  meet in the number of overflows in the time that has passed, which is unique
  (`Times`) for any unit, reload and lateness. Both recursions are functions
  on numbers, so that induction is the existence of a least counterexample.
  Proved: the type invariant and TimersExact, for any number of timers.
* `CartridgeProofs`, from: `CardAssumption` (the size of the card is a
  multiple of the block size, as `cardSize` is 128 KB times a power of two at
  `NDSSystem.cpp:426`; the read area and the secure area lie on the card),
  and `BackupAssumption`. `CardInv` says where the ROM's one address stands
  after a number of words of each command, and needs lemmas about remainders
  for the wrap within a block; it also says that a count which is not due any
  more belongs to a transfer whose busy bits are clear (`Counted`): words that
  are due are the count, and busy means that some are due. No order of starts,
  stops, reads and writes of the two CPUs is excluded, and a command that has
  no answer leaves the answer of the one before. `BackupInv` says where the
  stream of the file
  is when a byte of data comes next (`InPlace`), what the file holds as
  compared with the memory (`FileWhole`, `Holds`), and the same of a saved
  state; BackupReads alone is about reads only, while the position goes
  wrong earlier, in writes, growth and loads. First commands have any length;
  a device of width 0 keeps its types and its footer, and BackupReads promises
  nothing of it, since no address is ever sent and each command goes on where
  the stream is. Proved: CardDataExact and BackupReads.
* `DeviceProofs`. SyncMirrored, from: 0 is among the values; it is inductive
  with the type invariant, and the lemma `RegistersWritten` says what a write
  does to both registers. ReturnsWhenReported: the invariant `Waiting` says
  that while a call is to be executed again, the operating system's flags show
  of the awaited sources just what was reported since. PlaysInOrder, which is
  about the nibbles behind the header, from: sounds with a loop of no length
  start at 0. `SoundInv` adds to it that the
  latched length is that of the registers, that the decoder follows the
  position except at the header (`DecoderBehind`), and that the state kept
  for the start of the loop was decoded behind the header and before the
  present place (`LoopKept`); the last one is why a loop is never kept twice.
  RtcTransfersExact, from: transfers of registers 0 to 7, and at least one
  moment. `RtcInv` follows the driver's half cycles: after `step` of them the
  chip has seen `Edges` falling edges, so that `cmd` has the first bits of the
  command (`Commanding`), or `data` the first bits of the byte (`Written`), or
  the driver the first bits of the answer (`Received`). `CommandDecoded` shows
  that either order of the command's bits names the register and direction
  that the driver means, also for the one command (a write of register 3) that
  has the code 0110 at both ends.

Only model-checked: all liveness (CallsReturn, EmulationGoesOn, WaitersWake,
FramesEnd, BusThaws, TransfersEnd), since fairness is out of this prover's
reach; FifoBounded, which is a fact about the throttled programs of `dma` and not of
all (software that changes the mode of a channel between display and geometry
transfers again and again can pass any bound); PolygonsExact, whose reference
folds the commands of a packed word and of a batch into lists of polygons of
any length, so that a proof has to follow that list through the port, the FIFO
and the assembly of strips at once (it is not finished); and DevicesTypeOK as a
whole.

## 6. Plan

1. Done: all modules of section 2, model-checked, with the findings.
2. Done: the theorems of section 5, two refinements among them.
3. Next, proofs: PolygonsExact, for software that waits for the swap, and the
   type invariants of the devices, which the invariants of section 5 state in
   part.
4. Then the NAND and CompactFlash devices, and the motion and infrared
   commands of the backup memory.

## 7. Not modelled

Instruction semantics (interpreters, JIT, CP15), pixel and sound arithmetic,
the OpenGL renderers, the disassembler, firmware and encryption, cheats,
movies, debugger stalls and the `execute` flag in `NDS_exec`, and the
platform layer: they are data processing, tools or I/O. They are most of the
192,000 lines of the repository, with the vendored AsmJit and
libretro-common, so the modules cover the control but a small share of the
lines. Byte writes of the interrupt and IPC registers, which bypass the
handlers, are listed as a hazard.

What the modules leave out:

* `Emuloop`: the square root unit (a copy of the divider), the wireless item
  (not compiled by default), the timers (`Timers`) and the DMA modes
  (`GeometryDma`). Interrupt entry is its effect on the I flag.
* `GeometryDma`: card reads and writes by software (they would lower the count
  that a card transfer uses, even below 0, which `doCopy` takes for a very
  large one), blocks without words, DMA to the direct ports (which freezes the
  bus for ARM9 like a write of it), the slot 2 mode (nothing triggers it), and
  repeating geometry transfers, which `MMU.cpp:2430` pauses for ever. The
  packed port and immediate transfers to it are in the module, and nothing in
  the code bounds what they put into the FIFO: the ring has 200,000 entries
  (`FIFO.h:44-47`, "moon seems to overdrive the fifo with immediate dmas"), and
  its overrun (`FIFO.cpp:213`) is not modelled; FifoBounded is about software
  that uses neither. A channel is triggered by the mode it
  last latched, not by the one just written (`MMU.cpp:2450`); NoOldTriggers
  is stated accordingly.
* `GeometryEngine`: matrix, light, texture and test commands.
* `Timers`: 32 bit reads, which return a stale value (`MMU.cpp:4538`, a
  hazard), and chains whose first timer overflows more than once between two
  events: the code prints "yikes" and loses ticks (`NDSSystem.cpp:929`).
* `Backup`: status, motion and infrared commands, import and export, a type
  chosen by the user or by the game code (`mc.cpp:616-656`). A first command of
  8, 12 or more bytes gives a width of 0 (`mc.cpp:652`): the module has it, the
  run does not reach it, and nothing is promised of it. What follows a stream
  that ran into the footer with that width is left out, and so are states of
  another size than the file, which leave
  an old footer behind the new one (`mc.cpp:205`).
* `Card`: encryption, the R4 and debug cards, slot 2. 16 bit writes of the
  control register take the start bit from the register (`MMU.cpp:3671`), so
  they amount to a StartTransfer or a StopTransfer. Writes of the data register
  without a transfer make the count negative, and reads then go on for ever
  (`MMU.cpp:1401`, `1422`); the run follows the count to -`MaxExtra`.
* `IntrWait`: nested callers. An interrupt handler that calls IntrWait itself
  clobbers the one flag of the CPU (`bios.cpp:280`); other BIOS calls are
  sequential data processing.
* `TexCache`: sizes and formats beyond three classes, the second format of
  the OpenGL renderers, and frames with textures before any texture bank was
  mapped (`texturesMapped`).
* `Rtc`: a transfer given up in its data phase leaves the chip in that phase,
  since only the clock wire is looked at there; the driver gives up only
  while it sends the command. In 12-hour mode the reduced hour never sets the
  PM flag (`rtc.cpp:135-137`); the model computes the byte as the code does.
  There are no alarms or interrupts in this code.
* `Sound`: mixing, volume, the PSG, and capture (part of the advanced mixer,
  which nothing in this build switches on). LEN and PNT are written only while
  the channel is stopped; a loop of no length would keep `TestForLoop` from
  ending. ADPCM of less than four words, which hangs on its first sample, is
  in the module but in no run. PlaysInOrder is about the nibbles behind the
  header of an ADPCM sound; that some of the header are decoded before them is
  a finding (`sound_header`).
