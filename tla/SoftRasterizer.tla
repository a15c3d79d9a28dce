--------------------------- MODULE SoftRasterizer ---------------------------
(***************************************************************************)
(* The frame protocol of the software 3D renderer (rasterize.cpp) between  *)
(* the emulation thread and its rasterizer threads.  At the vertical blank *)
(* gfx3d_doFlush hands the display lists over, at its end Render starts    *)
(* the threads, and RenderFinish, called when a line is drawn, waits for   *)
(* them, post-processes and publishes the 3D layer.                        *)
(*                                                                         *)
(* A thread is the mailbox of module Mailbox: execute fills its job,       *)
(* finish waits until the job is done.  Images are modelled per scanline   *)
(* by the number of the frame they show.                                   *)
(***************************************************************************)
EXTENDS Naturals

CONSTANTS CoreCounts,  \* the values of the setting num_cores
          SetupCores,  \* cores from which setup runs on threads: 4 in the code
          Height,      \* scanlines of the framebuffer
          MaxFrames,   \* bound: display list flushes in a behaviour
          BitAnd(_, _) \* the operator & on the numbers of scanlines and cores

MaxCores == CHOOSE n \in CoreCounts : \A m \in CoreCounts : m <= n
Cores == 0 .. MaxCores - 1
Lines == 0 .. Height - 1
SetupJobs == {"vertices", "textures", "tables", "clear"}
Jobs == SetupJobs \cup {"raster", "post"}

(* The places where the emulation thread may block in finish().            *)
Places == {"run", "begin", "geometry", "finishRaster", "finishPost"}

(* The settings offer a largest number of cores, four setup tasks need as  *)
(* many threads, and a masked number does not exceed the mask.             *)
ASSUME CoresAssumption ==
    /\ CoreCounts \subseteq Nat \ {0} /\ \E n \in CoreCounts : \A m \in CoreCounts : m <= n
    /\ SetupCores \in Nat /\ SetupCores >= 4
ASSUME SizesAssumption == Height \in Nat /\ MaxFrames \in Nat
ASSUME BitAndAssumption == \A y \in Lines, n \in CoreCounts : BitAnd(y, n - 1) \in 0 .. n - 1

VARIABLES
    phase,        \* "start": before line 0, "draw": lines 0..191, "vblank"
    pc, after,    \* where the emulation thread is, and what RenderFinish returns to
    frame,        \* display list flushes so far
    renderState,  \* gfx3d.renderState: the frame it belongs to, post-processing on
    building,     \* listTwiddle: the display list being built
    isSwapBuffers, drawPending,
    is3DEnabled,  \* GPUEngineA::is3DEnabled, latched at line 0
    capture3D,    \* dispCapCnt.enabled, latched at line 0, with srcA the 3D screen
    cores,        \* rasterizerCores
    job,          \* the job of each thread
    setupNeedsFinish, geometryNeedsFinish,
    begun,        \* the frame and the list the last BeginRender took
    ready,        \* the setup steps completed for it
    fb,           \* the renderer's framebuffer
    layer         \* the 3D layer the display reads

vars == <<phase, pc, after, frame, renderState, building, isSwapBuffers, drawPending,
          is3DEnabled, capture3D, cores, job, setupNeedsFinish, geometryNeedsFinish, begun, ready,
          fb, layer>>
geometry == <<frame, renderState, building, isSwapBuffers>>
render == <<job, setupNeedsFinish, geometryNeedsFinish, begun, ready, fb>>

(* The pool loop `for (i = 0; i < rasterizerCores; i++)`.                   *)
Threads == IF cores > 1 THEN 0 .. cores - 1 ELSE {}
Idle(i) == job[i] = "none"
AllIdle == \A i \in Cores : Idle(i)

(* Waiting for the pool, one thread short.                                 *)
ThreadsFinishedFromOne == \A i \in Threads \ {0} : Idle(i)

(* The loops that call finish() on every thread have come to their end.    *)
ThreadsFinished == \A i \in Threads : Idle(i)

(* Waiting for three of the four setup tasks.                              *)
SetupFinishedButClear == setupNeedsFinish => \A i \in 0 .. 2 : Idle(i)

SetupFinished == setupNeedsFinish => \A i \in 0 .. 3 : Idle(i)

(* The other one of the two display lists.                                 *)
Twiddle(list) == (list + 1) % 2

(* A thread that does not take its work off the mailbox.                   *)
PostAgain(j) == IF j = "post" THEN j ELSE "none"

JobAfter(j) == "none"

Blank == [frame |-> 0, post |-> FALSE]

(* What the constructor, Reset and SetFramebufferSize leave behind.        *)
FreshRenderer ==
    /\ job' = [i \in Cores |-> "none"]
    /\ setupNeedsFinish' = FALSE /\ geometryNeedsFinish' = FALSE
    /\ ready' = {}

Init ==
    /\ phase = "start" /\ pc = "run" /\ after = "run"
    /\ frame = 0
    /\ renderState = Blank
    /\ building = 0
    /\ isSwapBuffers = FALSE /\ drawPending = FALSE /\ is3DEnabled = FALSE
    /\ capture3D = FALSE
    /\ cores \in CoreCounts
    /\ job = [i \in Cores |-> "none"]
    /\ setupNeedsFinish = FALSE /\ geometryNeedsFinish = FALSE
    /\ begun = [frame |-> 0, list |-> 0]
    /\ ready = {}
    /\ fb = [y \in Lines |-> Blank]
    /\ layer = [y \in Lines |-> Blank]

-----------------------------------------------------------------------------
(* The threads                                                             *)

(* The scanlines of rasterizer unit i: (Y & SLI_MASK) == SLI_VALUE.        *)
OwnLines(i) == {y \in Lines : BitAnd(y, cores - 1) = i}

(* The band of scanlines of post-processing unit i.                        *)
PostLines(i) ==
    LET linesPerThread == Height \div cores
        startLine == i * linesPerThread
        endLine == IF i < cores - 1 THEN (i + 1) * linesPerThread ELSE Height
    IN  {y \in Lines : startLine <= y /\ y < endLine}

Rasterized(ys) ==
    [y \in Lines |-> IF y \in ys THEN [frame |-> begun.frame, post |-> FALSE] ELSE fb[y]]

PostProcessed(ys) == [y \in Lines |-> IF y \in ys THEN [fb[y] EXCEPT !.post = TRUE] ELSE fb[y]]

(* Thread i completes its job.                                             *)
ThreadDone(i) ==
    /\ job[i] # "none"
    /\ job' = [job EXCEPT ![i] = JobAfter(@)]
    /\ ready' = ready \cup (SetupJobs \cap {job[i]})
    /\ fb' = CASE job[i] = "clear" -> [y \in Lines |-> Blank]
               [] job[i] = "raster" -> Rasterized(OwnLines(i))
               [] job[i] = "post" -> PostProcessed(PostLines(i))
               [] OTHER -> fb
    /\ UNCHANGED <<phase, pc, after, geometry, drawPending, is3DEnabled, capture3D, cores,
                   setupNeedsFinish, geometryNeedsFinish, begun, layer>>

-----------------------------------------------------------------------------
(* The geometry engine and the vertical blank                              *)

(* gfx3d_glFlush, and any command that writes the list being built.        *)
gfx3d_glFlush ==
    /\ pc = "run" /\ ~isSwapBuffers /\ frame < MaxFrames
    /\ isSwapBuffers' = TRUE
    /\ UNCHANGED <<phase, pc, after, frame, renderState, building, drawPending, is3DEnabled, capture3D,
                   cores, render, layer>>

(* gfx3d_doFlush: the lists and the render state are handed over and the   *)
(* other list is emptied to build the next frame in.                       *)
gfx3d_VBlankSignal ==
    /\ pc = "run" /\ phase = "draw"
    /\ phase' = "vblank"
    /\ \/ /\ isSwapBuffers
          /\ frame' = frame + 1
          /\ \E post \in BOOLEAN : renderState' = [frame |-> frame + 1, post |-> post]
          /\ building' = Twiddle(building)
          /\ drawPending' = TRUE
          /\ isSwapBuffers' = FALSE
       \/ ~isSwapBuffers /\ UNCHANGED <<geometry, drawPending>>
    /\ UNCHANGED <<pc, after, is3DEnabled, capture3D, cores, render, layer>>

(* gfx3d_VBlankEndSignal: a skipped frame stays pending, a frame for a     *)
(* hidden screen blanks the layer, any other is rendered.                  *)
gfx3d_VBlankEndSignal ==
    /\ pc = "run" /\ phase = "vblank"
    /\ phase' = "start"
    /\ \/ UNCHANGED <<drawPending, pc, layer>>
       \/ /\ drawPending
          /\ drawPending' = FALSE
          /\ \/ layer' = [y \in Lines |-> Blank] /\ UNCHANGED pc
             \/ pc' = "begin" /\ UNCHANGED layer
    /\ UNCHANGED <<after, geometry, is3DEnabled, capture3D, cores, render>>

-----------------------------------------------------------------------------
(* SoftRasterizerRenderer::Render                                          *)

SetupTask == [i \in 0 .. 3 |-> <<"vertices", "textures", "tables", "clear">>[i + 1]]

BeginRender ==
    /\ pc = "begin"
    /\ ThreadsFinished
    /\ begun' = [frame |-> renderState.frame, list |-> Twiddle(building)]
    /\ \/ /\ cores >= SetupCores
          /\ job' = [i \in Cores |-> IF i < 4 THEN SetupTask[i] ELSE job[i]]
          /\ ready' = {}
          /\ setupNeedsFinish' = TRUE
          /\ UNCHANGED fb
       \/ /\ cores < SetupCores
          /\ ready' = SetupJobs
          /\ fb' = [y \in Lines |-> Blank]
          /\ setupNeedsFinish' = FALSE
          /\ UNCHANGED job
    /\ pc' = "geometry"
    /\ UNCHANGED <<phase, after, geometry, drawPending, is3DEnabled, capture3D, cores,
                   geometryNeedsFinish, layer>>

(* RenderGeometry and EndRender.  On one core the frame is drawn, post-    *)
(* processed and published here.                                           *)
RenderGeometry ==
    /\ pc = "geometry"
    /\ SetupFinished
    /\ setupNeedsFinish' = FALSE
    /\ \/ /\ cores > 1
          /\ job' = [i \in Cores |-> IF i \in Threads THEN "raster" ELSE job[i]]
          /\ geometryNeedsFinish' = TRUE
          /\ UNCHANGED <<fb, layer>>
       \/ /\ cores = 1
          /\ fb' = [y \in Lines |-> [frame |-> begun.frame, post |-> renderState.post]]
          /\ layer' = fb'
          /\ geometryNeedsFinish' = FALSE
          /\ UNCHANGED job
    /\ pc' = "run"
    /\ UNCHANGED <<phase, after, geometry, drawPending, is3DEnabled, capture3D, cores, begun, ready>>

-----------------------------------------------------------------------------
(* SoftRasterizerRenderer::RenderFinish, called to continue at "next"      *)
RenderFinish(next) ==
    /\ after' = next
    /\ \/ ~geometryNeedsFinish /\ pc' = next /\ UNCHANGED geometryNeedsFinish
       \/ geometryNeedsFinish /\ pc' = "finishRaster" /\ geometryNeedsFinish' = FALSE

(* All threads have rasterized: publish the frame, or post-process it on   *)
(* the threads first.                                                      *)
FinishRaster ==
    /\ pc = "finishRaster"
    /\ ThreadsFinished
    /\ \/ /\ renderState.post
          /\ job' = [i \in Cores |-> IF i \in Threads THEN "post" ELSE job[i]]
          /\ pc' = "finishPost"
          /\ UNCHANGED layer
       \/ ~renderState.post /\ layer' = fb /\ pc' = after /\ UNCHANGED job
    /\ UNCHANGED <<phase, after, geometry, drawPending, is3DEnabled, capture3D, cores, setupNeedsFinish,
                   geometryNeedsFinish, begun, ready, fb>>

(* A RenderFinish that publishes without waiting for the post-processing.  *)
FinishPostEarly ==
    /\ pc = "finishPost"
    /\ layer' = fb
    /\ pc' = after
    /\ UNCHANGED <<phase, after, geometry, drawPending, is3DEnabled, capture3D, cores, render>>

FinishPost ==
    /\ pc = "finishPost"
    /\ ThreadsFinished
    /\ layer' = fb
    /\ pc' = after
    /\ UNCHANGED <<phase, after, geometry, drawPending, is3DEnabled, capture3D, cores, render>>

-----------------------------------------------------------------------------
(* Line 0: UpdateVRAM3DUsageProperties latches whether the 3D layer is     *)
(* shown in this frame, and waits for it only then.  Display capture is    *)
(* latched too, with the 3D screen as its source or not.                   *)
RenderLine0 ==
    /\ pc = "run" /\ phase = "start"
    /\ phase' = "draw"
    /\ \E on \in BOOLEAN :
         /\ is3DEnabled' = on /\ capture3D' \in BOOLEAN
         /\ \/ on /\ RenderFinish("run")
            \/ ~on /\ UNCHANGED <<pc, after, geometryNeedsFinish>>
    /\ UNCHANGED <<geometry, drawPending, cores, job, setupNeedsFinish, begun, ready, fb, layer>>

(* gfx3d_reset and the 3D part of GPUEngineA::Reset.                       *)
gfx3d_reset ==
    /\ pc = "run"
    /\ RenderFinish("reset")
    /\ UNCHANGED <<phase, geometry, drawPending, is3DEnabled, capture3D, cores, job, setupNeedsFinish,
                   begun, ready, fb, layer>>

ResetDone ==
    /\ pc = "reset"
    /\ ThreadsFinished
    /\ pc' = "run" /\ after' = "run"
    /\ isSwapBuffers' = FALSE /\ drawPending' = FALSE /\ building' = 0
    /\ is3DEnabled' = FALSE /\ capture3D' = FALSE
    /\ FreshRenderer
    /\ layer' = [y \in Lines |-> Blank]
    /\ UNCHANGED <<phase, frame, renderState, cores, begun, fb>>

(* gfx3d_savestate.                                                        *)
gfx3d_savestate ==
    /\ pc = "run"
    /\ RenderFinish("run")
    /\ UNCHANGED <<phase, geometry, drawPending, is3DEnabled, capture3D, cores, job, setupNeedsFinish,
                   begun, ready, fb, layer>>

(* NDS_3D_ChangeCore: the renderer is destroyed, which ends its threads,   *)
(* and a new one is built for the current num_cores.                       *)
NDS_3D_ChangeCore ==
    /\ pc = "run"
    /\ RenderFinish("change")
    /\ UNCHANGED <<phase, geometry, drawPending, is3DEnabled, capture3D, cores, job, setupNeedsFinish,
                   begun, ready, fb, layer>>

CoreChanged ==
    /\ pc = "change"
    /\ ThreadsFinished
    /\ pc' = "run" /\ after' = "run"
    /\ cores' \in CoreCounts
    /\ FreshRenderer
    /\ fb' = [y \in Lines |-> Blank]
    /\ UNCHANGED <<phase, geometry, drawPending, is3DEnabled, capture3D, begun, layer>>

Blocked == BeginRender \/ RenderGeometry \/ FinishRaster \/ FinishPost \/ ResetDone \/ CoreChanged

Next ==
    \/ \E i \in Cores : ThreadDone(i)
    \/ Blocked
    \/ gfx3d_glFlush \/ gfx3d_VBlankSignal \/ gfx3d_VBlankEndSignal
    \/ RenderLine0
    \/ gfx3d_reset \/ gfx3d_savestate \/ NDS_3D_ChangeCore

(* The threads run and their work functions return; the emulation thread   *)
(* goes on where it can.                                                   *)
Spec ==
    /\ Init /\ [][Next]_vars
    /\ \A i \in Cores : WF_vars(ThreadDone(i))
    /\ WF_vars(Blocked)

-----------------------------------------------------------------------------
TypeOK ==
    /\ phase \in {"start", "draw", "vblank"}
    /\ pc \in Places \cup {"reset", "change"}
    /\ after \in {"run", "reset", "change"}
    /\ frame \in 0 .. MaxFrames
    /\ renderState \in [frame : 0 .. MaxFrames, post : BOOLEAN]
    /\ building \in {0, 1}
    /\ {isSwapBuffers, drawPending, is3DEnabled, capture3D, setupNeedsFinish,
        geometryNeedsFinish} \subseteq BOOLEAN
    /\ cores \in CoreCounts
    /\ job \in [Cores -> Jobs \cup {"none"}]
    /\ begun \in [frame : 0 .. MaxFrames, list : {0, 1}]
    /\ ready \subseteq SetupJobs
    /\ fb \in [Lines -> [frame : 0 .. MaxFrames, post : BOOLEAN]]
    /\ layer \in [Lines -> [frame : 0 .. MaxFrames, post : BOOLEAN]]

LayerWhole ==
    /\ \A y, z \in Lines : layer[y] = layer[z]
    /\ \A y \in Lines : layer[y].frame \in {0, begun.frame}

(* When a line of the 3D layer is drawn (is3DEnabled after line 0), the    *)
(* layer is one whole frame, the last one rendered or a blank one, with    *)
(* every scanline rasterized by some unit and all or none post-processed.  *)
ShownLayerWhole == pc = "run" /\ phase = "draw" /\ is3DEnabled => LayerWhole

(* execute() overwrites work that has not run: no thread is given a job    *)
(* while it has one.                                                       *)
NoJobOverwritten ==
    [][\A i \in Cores : job[i] # "none" /\ job'[i] # job[i] => job'[i] = "none"]_vars

(* Rasterization starts from complete setup: vertices, textures, tables    *)
(* and the cleared framebuffer of its own frame.                           *)
RasterAfterSetup ==
    \A i \in Cores : job[i] \in {"raster", "post"} => ready = SetupJobs

(* The framebuffers, the texture cache and the threads' renderer pointer   *)
(* are only replaced while no thread has a job: RenderFinish returns early *)
(* on a flag, and the flag never hides a busy thread.                      *)
ReplacedWhenIdle == pc \in {"reset", "change"} => AllIdle

(* The emulation thread is never blocked for ever.                         *)
EmulationGoesOn == pc # "run" ~> pc = "run"

(* "Keep the current render states for later use": while the threads work  *)
(* on a frame its render state and its display list stay as they were when *)
(* BeginRender took them.                                                  *)
RenderInputsKept ==
    \A i \in Cores : job[i] # "none" =>
        renderState.frame = begun.frame /\ building # begun.list

(* "Before reading the 3D layer, be sure to always call this function":    *)
(* a display capture of the 3D screen reads the last frame rendered.       *)
CapturedLayerWhole == pc = "run" /\ phase = "draw" /\ capture3D => LayerWhole
=============================================================================
