--------------------------- MODULE RendererProofs ---------------------------
(***************************************************************************)
(* The frame protocol of the software renderer, for any numbers of cores   *)
(* and scanlines, and its textures, for any banks, mappings, textures and  *)
(* sizes of the cache: those of a frame are fresh and kept.                *)
(*                                                                         *)
(* A cached texture is trusted in two ways.  Its copies are those of       *)
(* memory as long as it is not suspected, because a bank can be written    *)
(* only while nobody sees it, and mapping it again suspects everything.    *)
(* The palette of a 4x4 texture is that of memory as long as it is not     *)
(* assumed invalid, because palette memory is watched from the first       *)
(* mapping on.                                                             *)
(***************************************************************************)
EXTENDS SoftRasterizer, TexCache, TLAPS, WellFoundedInduction

-----------------------------------------------------------------------------
(* The inductive invariant                                                 *)

(* The jobs the threads may have at each stage of a frame: `stage' is what *)
(* they were last given.                                                   *)
Preparing == pc = "geometry" /\ setupNeedsFinish
Rasterizing == pc = "finishRaster" \/ (geometryNeedsFinish /\ pc # "geometry")
PostProcessing == pc = "finishPost"

OutsidersIdle == \A i \in Cores : i \notin Threads => Idle(i)

SetupOnTheWay ==
    Preparing =>
      /\ cores >= SetupCores
      /\ \A i \in Cores : IF i < 4 THEN Idle(i) => SetupTask[i] \in ready
                                   ELSE Idle(i)
      /\ \A i \in 0 .. 3 : Idle(i) \/ job[i] = SetupTask[i]

SetupComplete == (pc = "geometry" /\ ~setupNeedsFinish) \/ Rasterizing \/ PostProcessing => ready = SetupJobs

RasterOnTheWay ==
    Rasterizing =>
      /\ cores > 1
      /\ \A i \in Threads :
           \/ job[i] = "raster"
           \/ Idle(i) /\ \A y \in OwnLines(i) : fb[y] = [frame |-> begun.frame, post |-> FALSE]

PostOnTheWay ==
    PostProcessing =>
      /\ cores > 1 /\ \A y \in Lines : fb[y].frame = begun.frame
      /\ \A i \in Threads :
           \/ job[i] = "post"
           \/ Idle(i) /\ \A y \in PostLines(i) : fb[y].post

NothingOnTheWay == ~Preparing /\ ~Rasterizing /\ ~PostProcessing => AllIdle

Flags ==
    /\ setupNeedsFinish => pc = "geometry"
    /\ pc \in {"finishRaster", "finishPost", "reset", "change"} => ~geometryNeedsFinish

(* Between the frames nothing is late: the layer is whole.                 *)
LayerPublished ==
    ~Rasterizing /\ ~PostProcessing /\ pc # "geometry" => LayerWhole

ShownFinished ==
    /\ pc \in {"begin", "geometry"} => phase = "start"
    /\ phase = "draw" /\ is3DEnabled => ~geometryNeedsFinish

SwapBounded == isSwapBuffers => frame < MaxFrames

Stages == SetupOnTheWay /\ SetupComplete /\ RasterOnTheWay /\ PostOnTheWay /\ NothingOnTheWay

IInv ==
    /\ TypeOK /\ Flags /\ ShownFinished /\ SwapBounded
    /\ OutsidersIdle /\ Stages /\ LayerPublished

-----------------------------------------------------------------------------
(* The scanlines                                                           *)

Image == [frame : 0 .. MaxFrames, post : BOOLEAN]

(* The least of a set of numbers.                                          *)
LEMMA LeastNumber ==
    ASSUME NEW X, X \subseteq Nat, X # {} PROVE \E x \in X : \A y \in X : x <= y
<1>1. IsWellFoundedOn({ss \in Nat \X Nat : ss[1] < ss[2]}, Nat)
  BY NatLessThanWellFounded DEF OpToRel
<1>2. PICK x \in X : \A y \in X : <<y, x>> \notin {ss \in Nat \X Nat : ss[1] < ss[2]}
  BY <1>1, WFMin, Zenon
<1>3. \A y \in X : ~(y < x)
  <2>. SUFFICES ASSUME NEW y \in X, y < x PROVE FALSE
    OBVIOUS
  <2>1. <<y, x>> \in Nat \X Nat /\ <<y, x>>[1] < <<y, x>>[2]
    OBVIOUS
  <2>. QED  BY <2>1, <1>2, Zenon
<1>. QED  BY <1>3

(* Numbers of cores and threads.                                           *)
LEMMA CoreFacts ==
    /\ MaxCores \in CoreCounts /\ \A m \in CoreCounts : m <= MaxCores
    /\ cores \in CoreCounts => cores \in Nat /\ cores > 0 /\ Threads \subseteq Cores
<1>1. MaxCores \in CoreCounts /\ \A m \in CoreCounts : m <= MaxCores
  BY CoresAssumption DEF MaxCores
<1>2. MaxCores \in Nat
  BY <1>1, CoresAssumption
<1>3. ASSUME cores \in CoreCounts PROVE cores \in Nat /\ cores > 0 /\ cores <= MaxCores
  BY <1>1, <1>3, CoresAssumption
<1>. QED  BY <1>1, <1>2, <1>3 DEF Threads, Cores

(* Every scanline is rasterized by one of the threads.                     *)
LEMMA LinesRasterized ==
    ASSUME cores \in CoreCounts, cores > 1, NEW y \in Lines
    PROVE  \E i \in Threads : y \in OwnLines(i)
<1>1. BitAnd(y, cores - 1) \in Threads
  BY BitAndAssumption, CoreFacts DEF Threads
<1>. QED  BY <1>1 DEF OwnLines

(* Every scanline is post-processed by one of the threads: the bands of    *)
(* the first ones end where the next one begins, and the last one gets     *)
(* what is left.                                                           *)
LEMMA LinesPostProcessed ==
    ASSUME cores \in CoreCounts, cores > 1, NEW y \in Lines
    PROVE  \E i \in Threads : y \in PostLines(i)
<1>. DEFINE n == Height \div cores
            X == {i \in 0 .. cores - 2 : y < (i + 1) * n}
<1>1. cores \in Nat /\ y \in Nat /\ y < Height /\ Height \in Nat
  BY CoreFacts, SizesAssumption DEF Lines
<1>2. n \in Int
  BY <1>1
<1>. HIDE DEF n
<1>3. CASE X = {}
  <2>1. ~(y < ((cores - 2) + 1) * n)
    <3>1. \A i \in 0 .. cores - 2 : ~(y < (i + 1) * n)
      BY <1>3, Zenon
    <3>2. cores - 2 \in 0 .. cores - 2
      BY <1>1
    <3>. QED  BY <3>1, <3>2, Zenon
  <2>2. (cores - 1) * n <= y
    <3>1. (cores - 2) + 1 = cores - 1
      BY <1>1
    <3>. QED  BY <1>1, <1>2, <2>1, <3>1
  <2>3. cores - 1 \in Threads /\ ~(cores - 1 < cores - 1)
    BY <1>1 DEF Threads
  <2>4. y \in PostLines(cores - 1)
    BY <1>1, <2>2, <2>3 DEF PostLines, n
  <2>. QED  BY <2>3, <2>4
<1>4. CASE X # {}
  <2>1. PICK i \in X : \A j \in X : i <= j
    <3>1. X \subseteq Nat
      BY <1>1
    <3>. HIDE DEF X
    <3>. QED  BY <1>4, <3>1, LeastNumber
  <2>2. i \in 0 .. cores - 2 /\ y < (i + 1) * n
    BY <2>1
  <2>3. i * n <= y
    <3>1. CASE i = 0
      BY <1>1, <1>2, <3>1
    <3>2. CASE i # 0
      <4>1. i - 1 \in 0 .. cores - 2 /\ (i - 1) + 1 = i /\ i - 1 \notin X
        BY <1>1, <2>1, <2>2, <3>2
      <4>2. ~(y < i * n)
        BY <4>1
      <4>. QED  BY <1>1, <1>2, <2>2, <4>2
    <3>. QED  BY <3>1, <3>2
  <2>4. i \in Threads /\ i < cores - 1
    BY <1>1, <2>2 DEF Threads
  <2>5. y \in PostLines(i)
    BY <2>2, <2>3, <2>4 DEF PostLines, n
  <2>. QED  BY <2>4, <2>5
<1>. QED  BY <1>3, <1>4

-----------------------------------------------------------------------------
(* The steps                                                               *)

LEMMA BlankImage == Blank \in Image /\ [y \in Lines |-> Blank] \in [Lines -> Image]
  BY SizesAssumption DEF Blank, Image

LEMMA OtherList == \A list \in {0, 1} : Twiddle(list) \in {0, 1}
<1>1. Twiddle(0) = 1 /\ Twiddle(1) = 0
  BY DEF Twiddle
<1>. QED  BY <1>1

LEMMA InitIInv == Init => IInv
<1>. SUFFICES ASSUME Init PROVE IInv
  OBVIOUS
<1>1. TypeOK
  <2>1. fb \in [Lines -> Image] /\ layer \in [Lines -> Image] /\ renderState \in Image
    BY BlankImage DEF Init
  <2>2. begun \in [frame : 0 .. MaxFrames, list : {0, 1}] /\ frame \in 0 .. MaxFrames
    BY SizesAssumption DEF Init
  <2>3. job \in [Cores -> Jobs \cup {"none"}] /\ cores \in CoreCounts
    BY DEF Init
  <2>. QED  BY <2>1, <2>2, <2>3 DEF Init, TypeOK, Image, Places
<1>2. Flags /\ ShownFinished /\ SwapBounded /\ OutsidersIdle
  BY DEF Init, Flags, ShownFinished, SwapBounded, OutsidersIdle, Idle
<1>3. Stages
  BY DEF Init, Stages, SetupOnTheWay, SetupComplete, RasterOnTheWay, PostOnTheWay, NothingOnTheWay,
         Preparing, Rasterizing, PostProcessing, AllIdle, Idle
<1>4. LayerPublished
  BY DEF Init, LayerPublished, LayerWhole, Blank
<1>. QED  BY <1>1, <1>2, <1>3, <1>4 DEF IInv

(* Everybody is idle once the loops over the threads have ended.           *)
LEMMA AllFinished ==
    ASSUME OutsidersIdle, ThreadsFinished PROVE AllIdle
  BY DEF OutsidersIdle, ThreadsFinished, AllIdle

(* The four setup jobs are those of the first four threads.                *)
LEMMA SetupTasks ==
    /\ \A i \in 0 .. 3 : SetupTask[i] \in SetupJobs /\ SetupTask[i] # "none" /\ SetupTask[i] # "raster"
                         /\ SetupTask[i] # "post"
    /\ SetupJobs = {SetupTask[i] : i \in 0 .. 3}
<1>1. /\ SetupTask[0] = "vertices" /\ SetupTask[1] = "textures" /\ SetupTask[2] = "tables"
      /\ SetupTask[3] = "clear"
  BY DEF SetupTask
<1>2. \A i \in 0 .. 3 : i = 0 \/ i = 1 \/ i = 2 \/ i = 3
  OBVIOUS
<1>. HIDE DEF SetupTask
<1>. QED  BY <1>1, <1>2 DEF SetupJobs

(* With the setup finished everybody is idle and everything is set up.     *)
LEMMA AllSetUp ==
    ASSUME IInv, pc = "geometry", SetupFinished
    PROVE  AllIdle /\ ready = SetupJobs
<1>1. CASE setupNeedsFinish
  <2>1. /\ cores >= SetupCores
        /\ \A i \in Cores : IF i < 4 THEN Idle(i) => SetupTask[i] \in ready ELSE Idle(i)
        /\ \A i \in 0 .. 3 : Idle(i)
    BY <1>1 DEF IInv, Stages, SetupOnTheWay, Preparing, SetupFinished
  <2>2. 0 .. 3 \subseteq Cores /\ Cores \subseteq Nat
    BY <2>1, CoreFacts, CoresAssumption DEF IInv, TypeOK, Cores
  <2>3. AllIdle
    BY <2>1, <2>2 DEF AllIdle
  <2>4. \A i \in 0 .. 3 : SetupTask[i] \in ready
    BY <2>1, <2>2
  <2>. QED  BY <2>3, <2>4, SetupTasks DEF IInv, TypeOK
<1>2. CASE ~setupNeedsFinish
  BY <1>2 DEF IInv, Stages, SetupComplete, NothingOnTheWay, Preparing, Rasterizing, PostProcessing
<1>. QED  BY <1>1, <1>2

(* A thread that ends its job.                                             *)
LEMMA ThreadDoneIInv ==
    ASSUME IInv, NEW i \in Cores, ThreadDone(i)
    PROVE  IInv'
<1>1. /\ job[i] # "none" /\ job' = [job EXCEPT ![i] = "none"]
      /\ ready' = ready \cup (SetupJobs \cap {job[i]})
      /\ fb' = CASE job[i] = "clear" -> [y \in Lines |-> Blank]
                 [] job[i] = "raster" -> Rasterized(OwnLines(i))
                 [] job[i] = "post" -> PostProcessed(PostLines(i))
                 [] OTHER -> fb
      /\ UNCHANGED <<phase, pc, after, frame, renderState, building, isSwapBuffers, drawPending, is3DEnabled,
                     capture3D, cores, setupNeedsFinish, geometryNeedsFinish, begun, layer>>
  BY DEF ThreadDone, JobAfter, geometry
<1>2. /\ job \in [Cores -> Jobs \cup {"none"}] /\ fb \in [Lines -> Image]
      /\ begun.frame \in 0 .. MaxFrames /\ ready \subseteq SetupJobs
  BY DEF IInv, TypeOK, Image
<1>3. /\ job' \in [Cores -> Jobs \cup {"none"}] /\ job'[i] = "none"
      /\ \A j \in Cores \ {i} : job'[j] = job[j]
  BY <1>1, <1>2
<1>4. /\ job[i] = "raster" => fb' = Rasterized(OwnLines(i))
      /\ job[i] = "post" => fb' = PostProcessed(PostLines(i))
  BY <1>1
<1>5. fb' \in [Lines -> Image]
  <2>1. Rasterized(OwnLines(i)) \in [Lines -> Image]
    BY <1>2 DEF Rasterized, Image
  <2>2. PostProcessed(PostLines(i)) \in [Lines -> Image]
    BY <1>2 DEF PostProcessed, Image
  <2>. QED  BY <1>1, <1>2, <2>1, <2>2, BlankImage
<1>6. Threads' = Threads /\ \A j : OwnLines(j)' = OwnLines(j) /\ PostLines(j)' = PostLines(j)
  BY <1>1 DEF Threads, OwnLines, PostLines
<1>7. Preparing' = Preparing /\ Rasterizing' = Rasterizing /\ PostProcessing' = PostProcessing
  BY <1>1 DEF Preparing, Rasterizing, PostProcessing
<1>8. OutsidersIdle'
  BY <1>3, <1>6 DEF IInv, OutsidersIdle, Idle
<1>9. SetupOnTheWay'
  <2>. SUFFICES ASSUME Preparing PROVE SetupOnTheWay'
    BY <1>7 DEF SetupOnTheWay
  <2>1. /\ cores >= SetupCores
        /\ \A j \in Cores : IF j < 4 THEN job[j] = "none" => SetupTask[j] \in ready ELSE job[j] = "none"
        /\ \A j \in 0 .. 3 : job[j] = "none" \/ job[j] = SetupTask[j]
    BY DEF IInv, Stages, SetupOnTheWay, Idle
  <2>2. Cores \subseteq Nat /\ 0 .. 3 \subseteq Cores
    BY <2>1, CoreFacts, CoresAssumption DEF IInv, TypeOK, Cores
  <2>3. i \in 0 .. 3 /\ job[i] = SetupTask[i]
    BY <1>1, <2>1, <2>2
  <2>4. SetupTask[i] \in ready' /\ ready \subseteq ready'
    BY <1>1, <2>3, SetupTasks
  <2>5. \A j \in Cores : IF j < 4 THEN job'[j] = "none" => SetupTask[j] \in ready' ELSE job'[j] = "none"
    BY <1>3, <2>1, <2>4
  <2>6. \A j \in 0 .. 3 : job'[j] = "none" \/ job'[j] = SetupTask[j]
    BY <1>3, <2>1, <2>2
  <2>. QED  BY <1>1, <2>1, <2>5, <2>6 DEF SetupOnTheWay, Idle
<1>10. SetupComplete'
  BY <1>1, <1>2, <1>7 DEF IInv, Stages, SetupComplete
<1>11. RasterOnTheWay'
  <2>. SUFFICES ASSUME Rasterizing PROVE RasterOnTheWay'
    BY <1>7 DEF RasterOnTheWay
  <2>1. /\ cores > 1
        /\ \A j \in Threads : \/ job[j] = "raster"
                              \/ job[j] = "none" /\ \A y \in OwnLines(j) : fb[y] = [frame |-> begun.frame, post |-> FALSE]
    BY DEF IInv, Stages, RasterOnTheWay, Idle
  <2>2. i \in Threads /\ job[i] = "raster"
    BY <1>1, <2>1 DEF IInv, OutsidersIdle, Idle
  <2>3. \A y \in Lines : fb'[y] = IF y \in OwnLines(i) THEN [frame |-> begun.frame, post |-> FALSE] ELSE fb[y]
    BY <1>4, <2>2 DEF Rasterized
  <2>4. \A j \in Threads : OwnLines(j) \subseteq Lines
    BY DEF OwnLines
  <2>5. ASSUME NEW j \in Threads
        PROVE  \/ job'[j] = "raster"
               \/ job'[j] = "none" /\ \A y \in OwnLines(j) : fb'[y] = [frame |-> begun.frame, post |-> FALSE]
    <3>1. j \in Cores
      BY CoreFacts DEF IInv, TypeOK
    <3>2. CASE j = i
      BY <1>3, <2>3, <2>4, <3>2
    <3>3. CASE j # i
      <4>1. job'[j] = job[j]
        BY <1>3, <3>1, <3>3
      <4>2. \A y \in OwnLines(j) : y \in Lines
        BY <2>4
      <4>. QED  BY <2>1, <2>3, <4>1, <4>2
    <3>. QED  BY <3>2, <3>3
  <2>. QED  BY <1>1, <1>6, <2>1, <2>5 DEF RasterOnTheWay, Idle
<1>12. PostOnTheWay'
  <2>. SUFFICES ASSUME PostProcessing PROVE PostOnTheWay'
    BY <1>7 DEF PostOnTheWay
  <2>1. /\ cores > 1 /\ \A y \in Lines : fb[y].frame = begun.frame
        /\ \A j \in Threads : job[j] = "post" \/ (job[j] = "none" /\ \A y \in PostLines(j) : fb[y].post)
    BY DEF IInv, Stages, PostOnTheWay, Idle
  <2>2. i \in Threads /\ job[i] = "post"
    BY <1>1, <2>1 DEF IInv, OutsidersIdle, Idle
  <2>3. \A y \in Lines : fb'[y] = IF y \in PostLines(i) THEN [fb[y] EXCEPT !.post = TRUE] ELSE fb[y]
    BY <1>4, <2>2 DEF PostProcessed
  <2>4. \A y \in Lines : /\ fb'[y].frame = fb[y].frame /\ (fb[y].post => fb'[y].post)
                         /\ y \in PostLines(i) => fb'[y].post
    BY <1>2, <2>3 DEF Image
  <2>5. \A j \in Threads : PostLines(j) \subseteq Lines
    BY DEF PostLines
  <2>6. ASSUME NEW j \in Threads
        PROVE  job'[j] = "post" \/ (job'[j] = "none" /\ \A y \in PostLines(j) : fb'[y].post)
    <3>1. j \in Cores
      BY CoreFacts DEF IInv, TypeOK
    <3>2. CASE j = i
      BY <1>3, <2>4, <2>5, <3>2
    <3>3. CASE j # i
      BY <1>3, <2>1, <2>4, <2>5, <3>1, <3>3
    <3>. QED  BY <3>2, <3>3
  <2>. QED  BY <1>1, <1>6, <2>1, <2>4, <2>6 DEF PostOnTheWay, Idle
<1>13. NothingOnTheWay'
  BY <1>1, <1>7 DEF IInv, Stages, NothingOnTheWay, AllIdle, Idle
<1>14. Flags' /\ ShownFinished' /\ SwapBounded'
  BY <1>1 DEF IInv, Flags, ShownFinished, SwapBounded
<1>15. LayerPublished'
  BY <1>1, <1>7 DEF IInv, LayerPublished, LayerWhole
<1>16. TypeOK'
  BY <1>1, <1>2, <1>3, <1>5 DEF IInv, TypeOK, Image
<1>. QED
  BY <1>8, <1>9, <1>10, <1>11, <1>12, <1>13, <1>14, <1>15, <1>16 DEF IInv, Stages

(* The parts of the invariant that a step of the geometry engine or of the *)
(* display disturbs at most where the emulation thread is.                 *)
LEMMA StagesKept ==
    ASSUME IInv, UNCHANGED <<cores, job, begun, ready, fb>>, Preparing' = Preparing,
           Rasterizing' = Rasterizing, PostProcessing' = PostProcessing,
           pc' = "geometry" <=> pc = "geometry", UNCHANGED setupNeedsFinish
    PROVE  OutsidersIdle' /\ Stages'
<1>1. Threads' = Threads /\ \A j : OwnLines(j)' = OwnLines(j) /\ PostLines(j)' = PostLines(j)
  BY DEF Threads, OwnLines, PostLines
<1>2. OutsidersIdle' /\ NothingOnTheWay' /\ SetupComplete'
  BY <1>1 DEF IInv, Stages, OutsidersIdle, NothingOnTheWay, SetupComplete, AllIdle, Idle
<1>3. SetupOnTheWay'
  BY DEF IInv, Stages, SetupOnTheWay, Idle
<1>4. RasterOnTheWay' /\ PostOnTheWay'
  BY <1>1 DEF IInv, Stages, RasterOnTheWay, PostOnTheWay, Idle
<1>. QED  BY <1>2, <1>3, <1>4 DEF Stages

LEMMA GlFlushIInv == ASSUME IInv, gfx3d_glFlush PROVE IInv'
<1>1. /\ pc = "run" /\ frame < MaxFrames /\ isSwapBuffers' = TRUE
      /\ UNCHANGED <<phase, pc, after, frame, renderState, building, drawPending, is3DEnabled, capture3D,
                     cores, job, setupNeedsFinish, geometryNeedsFinish, begun, ready, fb, layer>>
  BY DEF gfx3d_glFlush, render
<1>2. OutsidersIdle' /\ Stages'
  BY <1>1, StagesKept DEF Preparing, Rasterizing, PostProcessing
<1>3. Flags' /\ ShownFinished' /\ SwapBounded' /\ LayerPublished'
  BY <1>1 DEF IInv, Flags, ShownFinished, SwapBounded, LayerPublished, LayerWhole, Rasterizing, PostProcessing
<1>4. TypeOK'
  BY <1>1 DEF IInv, TypeOK
<1>. QED  BY <1>2, <1>3, <1>4 DEF IInv

LEMMA VBlankSignalIInv == ASSUME IInv, gfx3d_VBlankSignal PROVE IInv'
<1>1. /\ pc = "run" /\ phase' = "vblank"
      /\ \/ /\ isSwapBuffers /\ frame' = frame + 1 /\ isSwapBuffers' = FALSE /\ drawPending' = TRUE
            /\ \E post \in BOOLEAN : renderState' = [frame |-> frame + 1, post |-> post]
            /\ building' = Twiddle(building)
         \/ UNCHANGED <<frame, renderState, building, isSwapBuffers, drawPending>>
      /\ UNCHANGED <<pc, after, is3DEnabled, capture3D,
                     cores, job, setupNeedsFinish, geometryNeedsFinish, begun, ready, fb, layer>>
  BY DEF gfx3d_VBlankSignal, render, geometry
<1>2. OutsidersIdle' /\ Stages'
  BY <1>1, StagesKept DEF Preparing, Rasterizing, PostProcessing
<1>3. Flags' /\ ShownFinished' /\ SwapBounded' /\ LayerPublished'
  BY <1>1 DEF IInv, Flags, ShownFinished, SwapBounded, LayerPublished, LayerWhole, Rasterizing, PostProcessing
<1>4. frame' \in 0 .. MaxFrames /\ renderState' \in [frame : 0 .. MaxFrames, post : BOOLEAN]
  BY <1>1, SizesAssumption DEF IInv, TypeOK, SwapBounded
<1>5. building' \in {0, 1}
  BY <1>1, OtherList DEF IInv, TypeOK
<1>6. TypeOK'
  BY <1>1, <1>4, <1>5 DEF IInv, TypeOK
<1>. QED  BY <1>2, <1>3, <1>6 DEF IInv

LEMMA VBlankEndSignalIInv == ASSUME IInv, gfx3d_VBlankEndSignal PROVE IInv'
<1>1. /\ pc = "run" /\ phase' = "start" /\ drawPending' \in BOOLEAN
      /\ pc' \in {"run", "begin"} /\ (layer' = layer \/ layer' = [y \in Lines |-> Blank])
      /\ UNCHANGED <<after, frame, renderState, building, isSwapBuffers, is3DEnabled, capture3D,
                     cores, job, setupNeedsFinish, geometryNeedsFinish, begun, ready, fb>>
  BY DEF gfx3d_VBlankEndSignal, render, geometry, IInv, TypeOK
<1>2. OutsidersIdle' /\ Stages'
  BY <1>1, StagesKept DEF Preparing, Rasterizing, PostProcessing
<1>3. LayerWhole => LayerWhole'
  <2>1. CASE layer' = layer
    BY <1>1, <2>1 DEF LayerWhole
  <2>2. CASE layer' = [y \in Lines |-> Blank]
    BY <2>2 DEF LayerWhole, Blank
  <2>. QED  BY <1>1, <2>1, <2>2
<1>4. Flags' /\ ShownFinished' /\ SwapBounded' /\ LayerPublished'
  BY <1>1, <1>3 DEF IInv, Flags, ShownFinished, SwapBounded, LayerPublished, Rasterizing, PostProcessing
<1>5. layer' \in [Lines -> [frame : 0 .. MaxFrames, post : BOOLEAN]]
  BY <1>1, BlankImage DEF IInv, TypeOK, Image
<1>6. TypeOK'
  BY <1>1, <1>5 DEF IInv, TypeOK, Places
<1>. QED  BY <1>2, <1>4, <1>6 DEF IInv

(* Render begins once the threads of the last frame are done.              *)
LEMMA BeginRenderIInv == ASSUME IInv, BeginRender PROVE IInv' /\ AllIdle
<1>1. /\ pc = "begin" /\ ThreadsFinished /\ pc' = "geometry"
      /\ begun' = [frame |-> renderState.frame, list |-> Twiddle(building)]
      /\ \/ /\ cores >= SetupCores
            /\ job' = [i \in Cores |-> IF i < 4 THEN SetupTask[i] ELSE job[i]]
            /\ ready' = {} /\ setupNeedsFinish' = TRUE /\ UNCHANGED fb
         \/ /\ cores < SetupCores
            /\ ready' = SetupJobs /\ fb' = [y \in Lines |-> Blank]
            /\ setupNeedsFinish' = FALSE /\ UNCHANGED job
      /\ UNCHANGED <<phase, after, frame, renderState, building, isSwapBuffers, drawPending, is3DEnabled,
                     capture3D, cores, geometryNeedsFinish, layer>>
  BY DEF BeginRender, geometry
<1>2. AllIdle
  BY <1>1, AllFinished DEF IInv
<1>3. ~Rasterizing' /\ ~PostProcessing' /\ (Preparing' <=> setupNeedsFinish')
  BY <1>1 DEF Rasterizing, PostProcessing, Preparing
<1>4. begun' \in [frame : 0 .. MaxFrames, list : {0, 1}] /\ fb' \in [Lines -> Image]
  BY <1>1, BlankImage, OtherList DEF IInv, TypeOK, Image
<1>5. Flags' /\ ShownFinished' /\ SwapBounded' /\ LayerPublished'
  BY <1>1 DEF IInv, Flags, ShownFinished, SwapBounded, LayerPublished
<1>6. Threads' = Threads
  BY <1>1 DEF Threads
<1>7. CASE cores < SetupCores /\ ready' = SetupJobs /\ setupNeedsFinish' = FALSE /\ UNCHANGED job
  <2>1. AllIdle' /\ OutsidersIdle'
    BY <1>2, <1>7 DEF AllIdle, OutsidersIdle, Idle
  <2>2. Stages'
    BY <1>3, <1>7, <2>1 DEF Stages, SetupOnTheWay, SetupComplete, RasterOnTheWay, PostOnTheWay, NothingOnTheWay
  <2>3. TypeOK'
    BY <1>1, <1>4, <1>7 DEF IInv, TypeOK, Image, Places
  <2>. QED  BY <1>2, <1>5, <2>1, <2>2, <2>3 DEF IInv
<1>8. CASE /\ cores >= SetupCores
           /\ job' = [i \in Cores |-> IF i < 4 THEN SetupTask[i] ELSE job[i]]
           /\ ready' = {} /\ setupNeedsFinish' = TRUE
  <2>1. 0 .. 3 \subseteq Threads /\ Cores \subseteq Nat /\ Threads \subseteq Cores
    BY <1>8, CoreFacts, CoresAssumption DEF IInv, TypeOK, Threads, Cores
  <2>2. \A i \in Cores : job'[i] = IF i < 4 THEN SetupTask[i] ELSE job[i]
    BY <1>8
  <2>3. OutsidersIdle'
    BY <1>2, <1>6, <2>1, <2>2 DEF OutsidersIdle, AllIdle, Idle
  <2>4. \A i \in Cores : IF i < 4 THEN i \in 0 .. 3 /\ job'[i] = SetupTask[i] ELSE job'[i] = "none"
    BY <1>2, <2>1, <2>2 DEF AllIdle, Idle
  <2>5. \A i \in 0 .. 3 : job'[i] = SetupTask[i]
    BY <2>1, <2>2
  <2>6. SetupOnTheWay'
    BY <1>1, <1>8, <2>4, <2>5, SetupTasks DEF SetupOnTheWay, Idle
  <2>7. Stages'
    BY <1>1, <1>3, <1>8, <2>6 DEF Stages, SetupComplete, RasterOnTheWay, PostOnTheWay, NothingOnTheWay
  <2>8. job' \in [Cores -> Jobs \cup {"none"}]
    <3>1. \A i \in Cores : job'[i] \in Jobs \cup {"none"}
      BY <2>4, SetupTasks DEF Jobs
    <3>. QED  BY <1>8, <3>1
  <2>9. TypeOK'
    BY <1>1, <1>4, <1>8, <2>8 DEF IInv, TypeOK, Image, Places
  <2>. QED  BY <1>2, <1>5, <2>3, <2>7, <2>9 DEF IInv
<1>. QED  BY <1>1, <1>7, <1>8

LEMMA RenderGeometryIInv == ASSUME IInv, RenderGeometry PROVE IInv' /\ AllIdle
<1>1. /\ pc = "geometry" /\ SetupFinished /\ setupNeedsFinish' = FALSE /\ pc' = "run"
      /\ \/ /\ cores > 1 /\ job' = [i \in Cores |-> IF i \in Threads THEN "raster" ELSE job[i]]
            /\ geometryNeedsFinish' = TRUE /\ UNCHANGED <<fb, layer>>
         \/ /\ cores = 1
            /\ fb' = [y \in Lines |-> [frame |-> begun.frame, post |-> renderState.post]]
            /\ layer' = fb' /\ geometryNeedsFinish' = FALSE /\ UNCHANGED job
      /\ UNCHANGED <<phase, after, frame, renderState, building, isSwapBuffers, drawPending, is3DEnabled,
                     capture3D, cores, begun, ready>>
  BY DEF RenderGeometry, geometry
<1>2. AllIdle /\ ready = SetupJobs
  BY <1>1, AllSetUp
<1>3. /\ ~Preparing' /\ ~PostProcessing' /\ (Rasterizing' <=> geometryNeedsFinish')
      /\ phase = "start" /\ Threads' = Threads
  BY <1>1 DEF Preparing, PostProcessing, Rasterizing, IInv, ShownFinished, Threads
<1>4. Flags' /\ ShownFinished' /\ SwapBounded'
  BY <1>1, <1>3 DEF IInv, Flags, ShownFinished, SwapBounded
<1>5. CASE /\ cores > 1 /\ job' = [i \in Cores |-> IF i \in Threads THEN "raster" ELSE job[i]]
           /\ geometryNeedsFinish' = TRUE /\ UNCHANGED <<fb, layer>>
  <2>1. \A i \in Cores : job'[i] = IF i \in Threads THEN "raster" ELSE "none"
    BY <1>2, <1>5 DEF AllIdle, Idle
  <2>2. OutsidersIdle' /\ \A i \in Threads : job'[i] = "raster"
    BY <1>3, <2>1, CoreFacts DEF OutsidersIdle, Idle, IInv, TypeOK
  <2>3. Stages'
    BY <1>1, <1>2, <1>3, <1>5, <2>2
    DEF Stages, SetupOnTheWay, SetupComplete, RasterOnTheWay, PostOnTheWay, NothingOnTheWay
  <2>4. LayerPublished'
    BY <1>3, <1>5 DEF LayerPublished
  <2>5. job' \in [Cores -> Jobs \cup {"none"}]
    BY <1>5, <2>1 DEF Jobs
  <2>6. TypeOK'
    BY <1>1, <1>5, <2>5 DEF IInv, TypeOK, Places
  <2>. QED  BY <1>2, <1>4, <2>2, <2>3, <2>4, <2>6 DEF IInv
<1>6. CASE /\ cores = 1
           /\ fb' = [y \in Lines |-> [frame |-> begun.frame, post |-> renderState.post]]
           /\ layer' = fb' /\ geometryNeedsFinish' = FALSE /\ UNCHANGED job
  <2>1. AllIdle' /\ OutsidersIdle'
    BY <1>2, <1>6 DEF AllIdle, OutsidersIdle, Idle
  <2>2. Stages'
    BY <1>1, <1>2, <1>3, <1>6, <2>1
    DEF Stages, SetupOnTheWay, SetupComplete, RasterOnTheWay, PostOnTheWay, NothingOnTheWay
  <2>3. LayerPublished'
    BY <1>1, <1>6 DEF LayerPublished, LayerWhole
  <2>4. fb' \in [Lines -> [frame : 0 .. MaxFrames, post : BOOLEAN]]
    BY <1>6 DEF IInv, TypeOK
  <2>5. TypeOK'
    BY <1>1, <1>6, <2>4 DEF IInv, TypeOK, Places
  <2>. QED  BY <1>2, <1>4, <2>1, <2>2, <2>3, <2>5 DEF IInv
<1>. QED  BY <1>1, <1>5, <1>6

(* RenderFinish, which is called while the emulation thread runs.          *)
LEMMA RenderFinishIInv ==
    ASSUME IInv, pc = "run", NEW next, next \in {"run", "reset", "change"}, RenderFinish(next),
           UNCHANGED <<frame, renderState, building, isSwapBuffers, drawPending, cores, job,
                       setupNeedsFinish, begun, ready, fb, layer>>,
           phase' \in {"start", "draw", "vblank"}, is3DEnabled' \in BOOLEAN, capture3D' \in BOOLEAN
    PROVE  IInv'
<1>1. /\ after' = next /\ geometryNeedsFinish' = FALSE
      /\ IF geometryNeedsFinish THEN pc' = "finishRaster" ELSE pc' = next
  BY DEF RenderFinish, IInv, TypeOK
<1>2. OutsidersIdle' /\ Stages'
  BY <1>1, StagesKept DEF IInv, Flags, Preparing, Rasterizing, PostProcessing
<1>3. Flags' /\ ShownFinished' /\ SwapBounded'
  BY <1>1 DEF IInv, Flags, ShownFinished, SwapBounded
<1>4. LayerPublished'
  BY <1>1 DEF IInv, LayerPublished, LayerWhole, Rasterizing, PostProcessing
<1>5. TypeOK'
  BY <1>1 DEF IInv, TypeOK, Places
<1>. QED  BY <1>2, <1>3, <1>4, <1>5 DEF IInv

LEMMA RenderLine0IInv == ASSUME IInv, RenderLine0 PROVE IInv'
<1>1. /\ pc = "run" /\ phase' = "draw" /\ is3DEnabled' \in BOOLEAN /\ capture3D' \in BOOLEAN
      /\ \/ RenderFinish("run")
         \/ is3DEnabled' = FALSE /\ UNCHANGED <<pc, after, geometryNeedsFinish>>
      /\ UNCHANGED <<frame, renderState, building, isSwapBuffers, drawPending, cores, job,
                     setupNeedsFinish, begun, ready, fb, layer>>
  BY DEF RenderLine0, geometry
<1>2. CASE RenderFinish("run")
  BY <1>1, <1>2, RenderFinishIInv
<1>3. CASE is3DEnabled' = FALSE /\ UNCHANGED <<pc, after, geometryNeedsFinish>>
  <2>1. OutsidersIdle' /\ Stages'
    BY <1>1, <1>3, StagesKept DEF Preparing, Rasterizing, PostProcessing
  <2>2. Flags' /\ ShownFinished' /\ SwapBounded' /\ LayerPublished'
    BY <1>1, <1>3
    DEF IInv, Flags, ShownFinished, SwapBounded, LayerPublished, LayerWhole, Rasterizing, PostProcessing
  <2>3. TypeOK'
    BY <1>1, <1>3 DEF IInv, TypeOK
  <2>. QED  BY <2>1, <2>2, <2>3 DEF IInv
<1>. QED  BY <1>1, <1>2, <1>3

LEMMA CallsIInv == ASSUME IInv, gfx3d_reset \/ gfx3d_savestate \/ NDS_3D_ChangeCore PROVE IInv'
<1>1. PICK next \in {"run", "reset", "change"} : RenderFinish(next)
  BY DEF gfx3d_reset, gfx3d_savestate, NDS_3D_ChangeCore
<1>2. /\ pc = "run"
      /\ UNCHANGED <<phase, frame, renderState, building, isSwapBuffers, drawPending, is3DEnabled, capture3D,
                     cores, job, setupNeedsFinish, begun, ready, fb, layer>>
  BY DEF gfx3d_reset, gfx3d_savestate, NDS_3D_ChangeCore, geometry
<1>3. phase' \in {"start", "draw", "vblank"} /\ is3DEnabled' \in BOOLEAN /\ capture3D' \in BOOLEAN
  BY <1>2 DEF IInv, TypeOK
<1>. QED  BY <1>1, <1>2, <1>3, RenderFinishIInv

(* A frame that all threads have rasterized is whole.                      *)
LEMMA FinishRasterIInv == ASSUME IInv, FinishRaster PROVE IInv' /\ AllIdle
<1>1. /\ pc = "finishRaster" /\ ThreadsFinished
      /\ \/ /\ job' = [i \in Cores |-> IF i \in Threads THEN "post" ELSE job[i]]
            /\ pc' = "finishPost" /\ UNCHANGED layer
         \/ layer' = fb /\ pc' = after /\ UNCHANGED job
      /\ UNCHANGED <<phase, after, frame, renderState, building, isSwapBuffers, drawPending, is3DEnabled,
                     capture3D, cores, setupNeedsFinish, geometryNeedsFinish, begun, ready, fb>>
  BY DEF FinishRaster, geometry
<1>2. AllIdle
  BY <1>1, AllFinished DEF IInv
<1>3. /\ ready = SetupJobs /\ cores > 1 /\ ~setupNeedsFinish /\ ~geometryNeedsFinish
      /\ after \in {"run", "reset", "change"} /\ cores \in CoreCounts
  BY <1>1 DEF IInv, Stages, SetupComplete, RasterOnTheWay, Rasterizing, Flags, TypeOK
<1>4. \A y \in Lines : fb[y] = [frame |-> begun.frame, post |-> FALSE]
  <2>. SUFFICES ASSUME NEW y \in Lines PROVE fb[y] = [frame |-> begun.frame, post |-> FALSE]
    OBVIOUS
  <2>1. PICK i \in Threads : y \in OwnLines(i)
    BY <1>3, LinesRasterized
  <2>2. job[i] = "none"
    BY <1>1 DEF ThreadsFinished, Idle
  <2>. QED  BY <1>1, <2>1, <2>2 DEF IInv, Stages, RasterOnTheWay, Rasterizing
<1>5. Threads' = Threads
  BY <1>1 DEF Threads
<1>6. CASE /\ job' = [i \in Cores |-> IF i \in Threads THEN "post" ELSE job[i]]
           /\ pc' = "finishPost" /\ UNCHANGED layer
  <2>1. \A i \in Cores : job'[i] = IF i \in Threads THEN "post" ELSE "none"
    BY <1>2, <1>6 DEF AllIdle, Idle
  <2>2. OutsidersIdle' /\ \A i \in Threads : job'[i] = "post"
    BY <1>5, <2>1, CoreFacts DEF OutsidersIdle, Idle, IInv, TypeOK
  <2>3. ~Preparing' /\ ~Rasterizing' /\ PostProcessing'
    BY <1>1, <1>3, <1>6 DEF Preparing, Rasterizing, PostProcessing
  <2>4. \A y \in Lines : fb'[y].frame = begun'.frame
    BY <1>1, <1>4
  <2>5. Stages'
    BY <1>1, <1>3, <1>5, <2>2, <2>3, <2>4
    DEF Stages, SetupOnTheWay, SetupComplete, RasterOnTheWay, PostOnTheWay, NothingOnTheWay
  <2>6. Flags' /\ ShownFinished' /\ SwapBounded' /\ LayerPublished'
    BY <1>1, <1>3, <1>6, <2>3 DEF IInv, Flags, ShownFinished, SwapBounded, LayerPublished
  <2>7. job' \in [Cores -> Jobs \cup {"none"}]
    BY <1>6, <2>1 DEF Jobs
  <2>8. TypeOK'
    BY <1>1, <1>6, <2>7 DEF IInv, TypeOK, Places
  <2>. QED  BY <1>2, <2>2, <2>5, <2>6, <2>8 DEF IInv
<1>7. CASE layer' = fb /\ pc' = after /\ UNCHANGED job
  <2>1. AllIdle' /\ OutsidersIdle'
    BY <1>2, <1>7 DEF AllIdle, OutsidersIdle, Idle
  <2>2. ~Preparing' /\ ~Rasterizing' /\ ~PostProcessing'
    BY <1>1, <1>3, <1>7 DEF Preparing, Rasterizing, PostProcessing
  <2>3. Stages'
    BY <1>1, <1>3, <1>7, <2>1, <2>2
    DEF Stages, SetupOnTheWay, SetupComplete, RasterOnTheWay, PostOnTheWay, NothingOnTheWay
  <2>4. Flags' /\ ShownFinished' /\ SwapBounded'
    BY <1>1, <1>3, <1>7 DEF IInv, Flags, ShownFinished, SwapBounded
  <2>5. LayerPublished'
    BY <1>1, <1>4, <1>7 DEF LayerPublished, LayerWhole
  <2>6. TypeOK'
    BY <1>1, <1>3, <1>7 DEF IInv, TypeOK, Places
  <2>. QED  BY <1>2, <2>1, <2>3, <2>4, <2>5, <2>6 DEF IInv
<1>. QED  BY <1>1, <1>6, <1>7

LEMMA FinishPostIInv == ASSUME IInv, FinishPost PROVE IInv'
<1>1. /\ pc = "finishPost" /\ ThreadsFinished /\ layer' = fb /\ pc' = after
      /\ UNCHANGED <<phase, after, frame, renderState, building, isSwapBuffers, drawPending, is3DEnabled,
                     capture3D, cores, job, setupNeedsFinish, geometryNeedsFinish, begun, ready, fb>>
  BY DEF FinishPost, geometry, render
<1>2. AllIdle
  BY <1>1, AllFinished DEF IInv
<1>3. /\ ready = SetupJobs /\ cores > 1 /\ ~setupNeedsFinish /\ ~geometryNeedsFinish
      /\ after \in {"run", "reset", "change"} /\ cores \in CoreCounts
  BY <1>1 DEF IInv, Stages, SetupComplete, PostOnTheWay, PostProcessing, Flags, TypeOK
<1>4. \A y \in Lines : fb[y] = [frame |-> begun.frame, post |-> TRUE]
  <2>. SUFFICES ASSUME NEW y \in Lines PROVE fb[y] = [frame |-> begun.frame, post |-> TRUE]
    OBVIOUS
  <2>1. PICK i \in Threads : y \in PostLines(i)
    BY <1>3, LinesPostProcessed
  <2>2. job[i] = "none"
    BY <1>1 DEF ThreadsFinished, Idle
  <2>3. fb[y].frame = begun.frame /\ fb[y].post
    BY <1>1, <2>1, <2>2 DEF IInv, Stages, PostOnTheWay, PostProcessing
  <2>4. fb[y] \in [frame : 0 .. MaxFrames, post : BOOLEAN]
    BY DEF IInv, TypeOK
  <2>. QED  BY <2>3, <2>4
<1>5. AllIdle' /\ OutsidersIdle'
  BY <1>1, <1>2 DEF AllIdle, OutsidersIdle, Idle
<1>6. ~Preparing' /\ ~Rasterizing' /\ ~PostProcessing'
  BY <1>1, <1>3 DEF Preparing, Rasterizing, PostProcessing
<1>7. Stages'
  BY <1>1, <1>3, <1>5, <1>6
  DEF Stages, SetupOnTheWay, SetupComplete, RasterOnTheWay, PostOnTheWay, NothingOnTheWay
<1>8. Flags' /\ ShownFinished' /\ SwapBounded'
  BY <1>1, <1>3 DEF IInv, Flags, ShownFinished, SwapBounded
<1>9. LayerPublished'
  BY <1>1, <1>4 DEF LayerPublished, LayerWhole
<1>10. TypeOK'
  BY <1>1, <1>3 DEF IInv, TypeOK, Places
<1>. QED  BY <1>5, <1>7, <1>8, <1>9, <1>10 DEF IInv

(* The renderer is reset or replaced.                                      *)
LEMMA RendererReplacedIInv == ASSUME IInv, ResetDone \/ CoreChanged PROVE IInv'
<1>1. /\ pc \in {"reset", "change"} /\ ThreadsFinished /\ pc' = "run" /\ after' = "run" /\ FreshRenderer
      /\ UNCHANGED <<phase, frame, renderState, begun>>
      /\ isSwapBuffers' \in BOOLEAN /\ (isSwapBuffers' => isSwapBuffers) /\ drawPending' \in BOOLEAN
      /\ building' \in {0, 1} /\ is3DEnabled' \in BOOLEAN /\ capture3D' \in BOOLEAN /\ cores' \in CoreCounts
      /\ fb' = fb \/ fb' = [y \in Lines |-> Blank]
      /\ layer' = layer \/ layer' = [y \in Lines |-> Blank]
  <2>1. CASE ResetDone
    <3>1. cores \in CoreCounts
      BY DEF IInv, TypeOK
    <3>. QED  BY <2>1, <3>1 DEF ResetDone
  <2>2. CASE CoreChanged
    <3>1. /\ isSwapBuffers \in BOOLEAN /\ drawPending \in BOOLEAN /\ building \in {0, 1}
          /\ is3DEnabled \in BOOLEAN /\ capture3D \in BOOLEAN
      BY DEF IInv, TypeOK
    <3>. QED  BY <2>2, <3>1 DEF CoreChanged, geometry
  <2>. QED  BY <2>1, <2>2
<1>2. /\ job' = [i \in Cores |-> "none"] /\ setupNeedsFinish' = FALSE /\ geometryNeedsFinish' = FALSE
      /\ ready' = {}
  BY <1>1 DEF FreshRenderer
<1>3. AllIdle' /\ OutsidersIdle'
  BY <1>2 DEF AllIdle, OutsidersIdle, Idle
<1>4. ~Preparing' /\ ~Rasterizing' /\ ~PostProcessing'
  BY <1>1, <1>2 DEF Preparing, Rasterizing, PostProcessing
<1>5. Stages'
  BY <1>1, <1>3, <1>4 DEF Stages, SetupOnTheWay, SetupComplete, RasterOnTheWay, PostOnTheWay, NothingOnTheWay
<1>6. Flags' /\ ShownFinished' /\ SwapBounded'
  BY <1>1, <1>2 DEF IInv, Flags, ShownFinished, SwapBounded
<1>7. LayerPublished'
  <2>1. LayerWhole
    BY <1>1 DEF IInv, LayerPublished, Flags, Rasterizing, PostProcessing
  <2>2. CASE layer' = layer
    BY <1>1, <2>1, <2>2 DEF LayerPublished, LayerWhole
  <2>3. CASE layer' = [y \in Lines |-> Blank]
    BY <2>3 DEF LayerPublished, LayerWhole, Blank
  <2>. QED  BY <1>1, <2>2, <2>3
<1>8. fb' \in [Lines -> Image] /\ layer' \in [Lines -> Image]
  BY <1>1, BlankImage DEF IInv, TypeOK, Image
<1>9. TypeOK'
  BY <1>1, <1>2, <1>8 DEF IInv, TypeOK, Places, Image
<1>. QED  BY <1>3, <1>5, <1>6, <1>7, <1>9 DEF IInv

LEMMA NextIInv == ASSUME IInv, [Next]_vars PROVE IInv'
<1>1. CASE \E i \in Cores : ThreadDone(i)
  BY <1>1, ThreadDoneIInv
<1>2. CASE Blocked
  BY <1>2, BeginRenderIInv, RenderGeometryIInv, FinishRasterIInv, FinishPostIInv, RendererReplacedIInv
  DEF Blocked
<1>3. CASE gfx3d_glFlush \/ gfx3d_VBlankSignal \/ gfx3d_VBlankEndSignal
  BY <1>3, GlFlushIInv, VBlankSignalIInv, VBlankEndSignalIInv
<1>4. CASE RenderLine0
  BY <1>4, RenderLine0IInv
<1>5. CASE gfx3d_reset \/ gfx3d_savestate \/ NDS_3D_ChangeCore
  BY <1>5, CallsIInv
<1>6. CASE UNCHANGED vars
  <2>1. UNCHANGED <<phase, pc, after, frame, renderState, building, isSwapBuffers, drawPending, is3DEnabled,
                    capture3D, cores, job, setupNeedsFinish, geometryNeedsFinish, begun, ready, fb, layer>>
    BY <1>6 DEF vars
  <2>2. OutsidersIdle' /\ Stages'
    BY <2>1, StagesKept DEF Preparing, Rasterizing, PostProcessing
  <2>3. Flags' /\ ShownFinished' /\ SwapBounded' /\ LayerPublished'
    BY <2>1
    DEF IInv, Flags, ShownFinished, SwapBounded, LayerPublished, LayerWhole, Rasterizing, PostProcessing
  <2>4. TypeOK'
    BY <2>1 DEF IInv, TypeOK
  <2>. QED  BY <2>2, <2>3, <2>4 DEF IInv
<1>. QED  BY <1>1, <1>2, <1>3, <1>4, <1>5, <1>6 DEF Next

-----------------------------------------------------------------------------
(* What follows                                                            *)

(* The inductive invariant.                                                *)
THEOREM FrameInvariance == Spec => []IInv
<1>1. Init => IInv
  BY InitIInv
<1>2. IInv /\ [Next]_vars => IInv'
  BY NextIInv
<1>. QED  BY <1>1, <1>2, PTL DEF Spec

(* The flags, jobs and images keep their types.                            *)
THEOREM TypeCorrect == Spec => []TypeOK
<1>1. IInv => TypeOK
  BY DEF IInv
<1>. QED  BY <1>1, FrameInvariance, PTL

(* What a displayed line shows of the 3D layer is one whole frame.         *)
THEOREM ShownLayersWhole == Spec => []ShownLayerWhole
<1>1. IInv => ShownLayerWhole
  BY DEF IInv, ShownLayerWhole, ShownFinished, LayerPublished, Rasterizing, PostProcessing
<1>. QED  BY <1>1, FrameInvariance, PTL

(* Rasterization starts from complete setup.                               *)
THEOREM RasterizedAfterSetup == Spec => []RasterAfterSetup
<1>1. ASSUME IInv PROVE RasterAfterSetup
  <2>. SUFFICES ASSUME NEW i \in Cores, job[i] \in {"raster", "post"} PROVE ready = SetupJobs
    BY DEF RasterAfterSetup
  <2>1. CASE Preparing
    <3>1. Cores \subseteq Nat /\ \A j \in Cores : j < 4 => j \in 0 .. 3
      BY CoreFacts, CoresAssumption DEF Cores
    <3>2. job[i] = "none" \/ (i \in 0 .. 3 /\ job[i] = SetupTask[i])
      BY <1>1, <2>1, <3>1 DEF IInv, Stages, SetupOnTheWay, Idle
    <3>. QED  BY <3>2, SetupTasks
  <2>2. CASE Rasterizing \/ PostProcessing
    BY <1>1, <2>2 DEF IInv, Stages, SetupComplete
  <2>3. CASE ~Preparing /\ ~Rasterizing /\ ~PostProcessing
    BY <1>1, <2>3 DEF IInv, Stages, NothingOnTheWay, AllIdle, Idle
  <2>. QED  BY <2>1, <2>2, <2>3
<1>. QED  BY <1>1, FrameInvariance, PTL

(* The renderer is only replaced while no thread has a job.                *)
THEOREM IdleWhenReplaced == Spec => []ReplacedWhenIdle
<1>1. IInv => ReplacedWhenIdle
  BY DEF IInv, Stages, ReplacedWhenIdle, NothingOnTheWay, Flags, Preparing, Rasterizing, PostProcessing
<1>. QED  BY <1>1, FrameInvariance, PTL

(* No thread is given a job while it has one.                              *)
THEOREM JobsNeverOverwritten == Spec => NoJobOverwritten
<1>1. ASSUME IInv, [Next]_vars, NEW i \in Cores, job[i] # "none", job'[i] # job[i]
      PROVE  job'[i] = "none"
  <2>1. ~AllIdle
    BY <1>1 DEF AllIdle, Idle
  <2>2. CASE \E j \in Cores : ThreadDone(j)
    BY <1>1, <2>2 DEF ThreadDone, JobAfter, IInv, TypeOK
  <2>3. CASE Blocked
    <3>1. ResetDone \/ CoreChanged \/ FinishPost
      BY <1>1, <2>1, <2>3, BeginRenderIInv, RenderGeometryIInv, FinishRasterIInv DEF Blocked
    <3>. QED  BY <1>1, <3>1 DEF ResetDone, CoreChanged, FinishPost, FreshRenderer, render
  <2>4. ~(\E j \in Cores : ThreadDone(j)) /\ ~Blocked => job' = job
    BY <1>1 DEF Next, vars, render, gfx3d_glFlush, gfx3d_VBlankSignal, gfx3d_VBlankEndSignal, RenderLine0,
                gfx3d_reset, gfx3d_savestate, NDS_3D_ChangeCore
  <2>. QED  BY <1>1, <2>2, <2>3, <2>4
<1>2. IInv /\ [Next]_vars =>
        [\A i \in Cores : job[i] # "none" /\ job'[i] # job[i] => job'[i] = "none"]_vars
  BY <1>1
<1>. QED  BY <1>2, FrameInvariance, PTL DEF Spec, NoJobOverwritten

-----------------------------------------------------------------------------
(* The textures                                                            *)
Copies == [texture : Texels, index : Texels, palette : Texels]
Decodings == [dump : Copies, all : [PalSlots -> Texels] \cup {<<>>}]
CachedTexture == [suspectedInvalid : BOOLEAN, assumedInvalid : BOOLEAN, decoded : Decodings]
Slots == TexPurpose \cup PalPurpose

Typed ==
    /\ bankMemory \in [Banks -> Texels]
    /\ purpose \in [Banks -> Slots \cup {Lcdc}]
    /\ index \in [Cached -> CachedTexture]
    /\ setup \in BOOLEAN /\ texturesMapped \in BOOLEAN

(* Nothing is cached before the mapping has changed for the first time,    *)
(* and from then on the copy of palette memory is exact.                   *)
PaletteWatched ==
    /\ texturesMapped => paletteDump = Palette(purpose)
    /\ ~texturesMapped => Cached = {} /\ ~setup

(* The textures of the frame are not evicted.                              *)
FrameCached == Cached \subseteq TexKeys /\ polyTexKeys \subseteq Cached

(* The copies of a texture that is not suspected are what memory holds.    *)
UnsuspectedExact == \A k \in Cached : ~index[k].suspectedInvalid => index[k].decoded.dump = Dump(k)

(* So is the palette of a 4x4 texture that is not assumed invalid.         *)
PalettesExact ==
    \A k \in Cached : /\ k.mode # "4x4" => index[k].decoded.all = <<>>
                      /\ k.mode = "4x4" /\ ~index[k].assumedInvalid => index[k].decoded.all = paletteDump

TexInv == Typed /\ PaletteWatched /\ FrameCached /\ UnsuspectedExact /\ PalettesExact /\ TexturesFresh

-----------------------------------------------------------------------------
(* Every bounded nonempty set of numbers has a greatest one.               *)
LEMMA GreatestNumber ==
    ASSUME NEW n \in Nat, NEW S \in SUBSET (1 .. n), S # {}
    PROVE  \E i \in S : \A j \in S : j <= i
<1> DEFINE T == {n - i : i \in S}
<1>0. \A i \in S : i \in Nat /\ n - i \in Nat
  OBVIOUS
<1>1. T \subseteq Nat /\ T # {}
  BY <1>0
<1>2. PICK m \in T : \A k \in T : ~(k < m)
  <2>1. IsWellFoundedOn(OpToRel(<, Nat), Nat)
    BY NatLessThanWellFounded
  <2>2. \E m \in T : \A k \in T : ~(<<k, m>> \in OpToRel(<, Nat))
    BY <1>1, <2>1, WFMin, Zenon
  <2> QED
    BY <1>1, <2>2 DEF OpToRel
<1>3. PICK i \in S : m = n - i
  BY <1>2
<1>4. ASSUME NEW j \in S PROVE j <= i
  <2>1. n - j \in T
    OBVIOUS
  <2>2. ~(n - j < n - i)
    BY <1>2, <1>3, <2>1
  <2> QED
    BY <1>0, <2>2
<1> QED
  BY <1>4

(* MMU.texInfo names, for each slot, a bank that is mapped there.          *)
LEMMA BankSeen ==
    ASSUME NEW ps, NEW x \in Slots, TexInfo(ps)[x] # "blank"
    PROVE  TexInfo(ps)[x] \in Banks /\ ps[TexInfo(ps)[x]] = x
<1> DEFINE here == {i \in 1 .. Len(BankOrder) : ps[BankOrder[i]] = x}
           last == CHOOSE i \in here : \A j \in here : j <= i
<1>1. TexInfo(ps)[x] = IF here = {} THEN "blank" ELSE BankOrder[last]
  BY DEF TexInfo, Slots
<1>2. here # {}
  BY <1>1
<1>3. Len(BankOrder) \in Nat
  BY BankOrderAssumption
<1>4. \E i \in here : \A j \in here : j <= i
  BY <1>2, <1>3, GreatestNumber
<1>5. last \in here
  BY <1>4
<1> QED
  BY <1>1, <1>2, <1>5 DEF Banks

(* What is seen in a slot is one value of a bank, or 0.                    *)
LEMMA SeenTyped ==
    ASSUME Typed, NEW ps, NEW x \in Slots
    PROVE  Seen(ps, x) \in Texels
  BY BankSeen, TexCacheAssumption DEF Seen, Typed

LEMMA SlotsOfTexture ==
    ASSUME NEW k \in TexKeys
    PROVE  /\ [use |-> "texture", slot |-> k.slot] \in Slots
           /\ [use |-> "texture", slot |-> IndexSlot] \in Slots
           /\ k.pal \in PalSlots
  BY DEF Slots, TexPurpose, TexSlots, PalSlots

LEMMA PaletteSlots == \A s \in PalSlots : [use |-> "palette", slot |-> s] \in Slots
  BY DEF Slots, PalPurpose

(* Palette memory and copies have their types.                             *)
LEMMA CopiesTyped ==
    ASSUME Typed
    PROVE  /\ \A ps : Palette(ps) \in [PalSlots -> Texels]
           /\ \A k \in TexKeys : Dump(k) \in Copies /\ Decoded(k) \in Decodings
<1>1. ASSUME NEW ps PROVE Palette(ps) \in [PalSlots -> Texels]
  BY SeenTyped, PaletteSlots DEF Palette
<1>2. ASSUME NEW k \in TexKeys PROVE Dump(k) \in Copies
  <2>1. Texture(purpose, k.slot) \in Texels /\ Texture(purpose, IndexSlot) \in Texels
    BY SeenTyped, SlotsOfTexture DEF Texture
  <2>2. Palette(purpose)[k.pal] \in Texels
    BY <1>1, SlotsOfTexture
  <2> QED
    BY <2>1, <2>2, TexCacheAssumption DEF Dump, Copies
<1>3. ASSUME NEW k \in TexKeys PROVE Decoded(k) \in Decodings
  BY <1>1, <1>2, <1>3 DEF Decoded, Decodings
<1> QED
  BY <1>1, <1>2, <1>3

(* As long as the same is seen in all slots, so are palettes and copies.   *)
LEMMA SameView ==
    ASSUME \A x \in Slots : Seen(purpose, x)' = Seen(purpose, x)
    PROVE  /\ Palette(purpose)' = Palette(purpose)
           /\ \A k \in TexKeys : Dump(k)' = Dump(k) /\ Decoded(k)' = Decoded(k)
<1>1. Palette(purpose)' = Palette(purpose)
  BY PaletteSlots DEF Palette
<1>2. ASSUME NEW k \in TexKeys PROVE Dump(k)' = Dump(k)
  BY <1>1, SlotsOfTexture DEF Dump, Texture
<1>3. ASSUME NEW k \in TexKeys PROVE Decoded(k)' = Decoded(k)
  BY <1>1, <1>2 DEF Decoded
<1> QED
  BY <1>1, <1>2, <1>3

(* A bank that is in no slot may be filled without being seen.             *)
LEMMA UnmappedUnseen ==
    ASSUME Typed, NEW b \in Banks, NEW v \in Texels, WriteBank(b, v), NEW x \in Slots
    PROVE  Seen(purpose, x)' = Seen(purpose, x)
<1> DEFINE c == TexInfo(purpose)[x]
<1>1. TexInfo(purpose)' = TexInfo(purpose)
  BY DEF WriteBank, TexInfo
<1>2. CASE c = "blank"
  BY <1>1, <1>2 DEF Seen
<1>3. CASE c # "blank"
  <2>1. c \in Banks /\ purpose[c] = x
    BY <1>3, BankSeen
  <2>2. x # Lcdc
    BY DEF Slots, TexPurpose, PalPurpose, Lcdc
  <2>3. c # b
    BY <2>1, <2>2 DEF WriteBank
  <2>4. bankMemory'[c] = bankMemory[c]
    BY <2>1, <2>3 DEF WriteBank, Typed
  <2> QED
    BY <1>1, <1>3, <2>4 DEF Seen
<1> QED
  BY <1>2, <1>3

(* What changes in no slot of the mapping changes in nobody's view.        *)
LEMMA SameMapSameView ==
    ASSUME TexInfo(purpose)' = TexInfo(purpose), bankMemory' = bankMemory, NEW x \in Slots
    PROVE  Seen(purpose, x)' = Seen(purpose, x)
  BY DEF Seen

(* Suspicion keeps the decoded texture.                                    *)
LEMMA SuspectedTexture ==
    ASSUME NEW item \in CachedTexture, NEW k \in TexKeys, NEW dirty \in BOOLEAN
    PROVE  /\ Suspected(item, k, dirty) \in CachedTexture
           /\ Suspected(item, k, dirty).decoded = item.decoded
           /\ Suspected(item, k, dirty).suspectedInvalid = TRUE
           /\ Suspected(item, k, dirty).assumedInvalid = (item.assumedInvalid \/ (k.mode = "4x4" /\ dirty))
  BY DEF Suspected, CachedTexture

-----------------------------------------------------------------------------
(* Software fills a bank.                                                  *)
LEMMA WriteBankStep ==
    ASSUME TexInv, NEW b \in Banks, NEW v \in Texels, WriteBank(b, v)
    PROVE  TexInv'
<1>1. /\ Palette(purpose)' = Palette(purpose)
      /\ \A k \in TexKeys : Dump(k)' = Dump(k) /\ Decoded(k)' = Decoded(k)
  BY UnmappedUnseen, SameView DEF TexInv
<1>2. Typed'
  BY DEF WriteBank, Typed, TexInv, Cached
<1>3. PaletteWatched' /\ FrameCached' /\ PalettesExact'
  BY <1>1 DEF WriteBank, PaletteWatched, FrameCached, PalettesExact, TexInv, Cached
<1>4. UnsuspectedExact'
  BY <1>1 DEF WriteBank, UnsuspectedExact, FrameCached, TexInv, Cached
<1>5. TexturesFresh'
  BY DEF WriteBank, TexturesFresh
<1> QED
  BY <1>2, <1>3, <1>4, <1>5 DEF TexInv

(* A bank is mapped.                                                       *)
LEMMA MapStep ==
    ASSUME TexInv, NEW b \in Banks, NEW p \in Purposes[b] \cup {Lcdc}, MMU_VRAMmapControl(b, p)
    PROVE  TexInv'
<1> DEFINE ps == [purpose EXCEPT ![b] = p]
           dirty == Palette(ps) # paletteDump
<1>1. p \in Slots \cup {Lcdc}
  BY TexCacheAssumption DEF Slots
<1>2. /\ ~setup /\ purpose' = ps
      /\ UNCHANGED <<bankMemory, setup, polyTexKeys>>
  BY DEF MMU_VRAMmapControl
<1>3. purpose' \in [Banks -> Slots \cup {Lcdc}]
  BY <1>1, <1>2 DEF Typed, TexInv
<1>4. Palette(purpose)' = Palette(ps)
  BY <1>2 DEF Palette, Seen
<1>0. dirty \in BOOLEAN /\ TexInfo(purpose)' = TexInfo(ps)
  <2> HIDE DEF ps
  <2> QED
    BY <1>2 DEF TexInfo
<1>5. TexturesFresh'
  BY <1>2 DEF TexturesFresh
<1>6. CASE TexInfo(ps) = TexInfo(purpose)
  <2>1. UNCHANGED <<index, paletteDump, texturesMapped>>
    BY <1>6 DEF MMU_VRAMmapControl
  <2>2. TexInfo(purpose)' = TexInfo(purpose)
    BY <1>0, <1>6
  <2>3. /\ Palette(purpose)' = Palette(purpose)
        /\ \A k \in TexKeys : Dump(k)' = Dump(k)
    BY <1>2, <2>2, SameMapSameView, SameView
  <2>4. Typed' /\ PaletteWatched' /\ FrameCached' /\ PalettesExact'
    BY <1>2, <1>3, <2>1, <2>3 DEF Typed, PaletteWatched, FrameCached, PalettesExact, TexInv, Cached
  <2>5. UnsuspectedExact'
    BY <2>1, <2>3 DEF UnsuspectedExact, FrameCached, TexInv, Cached
  <2> QED
    BY <1>5, <2>4, <2>5 DEF TexInv
<1>7. CASE TexInfo(ps) # TexInfo(purpose)
  <2>1. /\ index' = [k \in Cached |-> Suspected(index[k], k, dirty)]
        /\ paletteDump' = Palette(ps) /\ texturesMapped' = TRUE
    BY <1>7 DEF MMU_VRAMmapControl
  <2>2. Cached' = Cached
    BY <2>1 DEF Cached
  <2>3. ASSUME NEW k \in Cached
        PROVE  /\ index'[k] \in CachedTexture /\ index'[k].decoded = index[k].decoded
               /\ index'[k].suspectedInvalid = TRUE
               /\ index'[k].assumedInvalid = (index[k].assumedInvalid \/ (k.mode = "4x4" /\ dirty))
    <3>1. index[k] \in CachedTexture /\ k \in TexKeys
      BY DEF Typed, FrameCached, TexInv
    <3>2. index'[k] = Suspected(index[k], k, dirty)
      BY <2>1
    <3> QED
      <4> HIDE DEF dirty
      <4>1. /\ Suspected(index[k], k, dirty) \in CachedTexture
            /\ Suspected(index[k], k, dirty).decoded = index[k].decoded
            /\ Suspected(index[k], k, dirty).suspectedInvalid = TRUE
            /\ Suspected(index[k], k, dirty).assumedInvalid
                 = (index[k].assumedInvalid \/ (k.mode = "4x4" /\ dirty))
        BY <1>0, <3>1, SuspectedTexture, Zenon
      <4> QED
        BY <3>2, <4>1, Zenon
  <2>4. index' \in [Cached' -> CachedTexture]
    BY <2>1, <2>2, <2>3
  <2>5. Typed' /\ PaletteWatched' /\ FrameCached'
    BY <1>2, <1>3, <1>4, <2>1, <2>2, <2>4 DEF Typed, PaletteWatched, FrameCached, TexInv
  <2>6. UnsuspectedExact'
    BY <2>2, <2>3 DEF UnsuspectedExact
  <2>7. PalettesExact'
    BY <2>1, <2>2, <2>3 DEF PalettesExact, TexInv
  <2> QED
    BY <1>5, <2>5, <2>6, <2>7 DEF TexInv
<1> QED
  BY <1>6, <1>7

(* A texture that scan accepts is what decoding it again would give.       *)
LEMMA AcceptedFresh ==
    ASSUME TexInv, setup, NEW k \in TexKeys, Accepted(k)
    PROVE  index[k].decoded = Decoded(k)
<1>1. k \in Cached /\ index[k] \in CachedTexture /\ ~index[k].assumedInvalid
  BY DEF Accepted, TexInv, Typed
<1>2. index[k].decoded.dump = Dump(k)
  BY <1>1 DEF Accepted, TexInv, UnsuspectedExact
<1>3. index[k].decoded.all = IF k.mode = "4x4" THEN Palette(purpose) ELSE <<>>
  BY <1>1 DEF TexInv, PalettesExact, PaletteWatched
<1>4. index[k].decoded = [dump |-> index[k].decoded.dump, all |-> index[k].decoded.all]
  BY <1>1 DEF CachedTexture, Decodings
<1> QED
  BY <1>2, <1>3, <1>4 DEF Decoded

FreshTexture(k) == [suspectedInvalid |-> FALSE, assumedInvalid |-> FALSE, decoded |-> Decoded(k)]

LEMMA FreshTyped ==
    ASSUME Typed, NEW k \in TexKeys
    PROVE  FreshTexture(k) \in CachedTexture
  BY CopiesTyped DEF FreshTexture, CachedTexture

(* Cached textures with equal fields are equal.                            *)
LEMMA SameTexture ==
    ASSUME NEW r \in CachedTexture, NEW s \in CachedTexture, r.decoded = s.decoded,
           r.suspectedInvalid = s.suspectedInvalid, r.assumedInvalid = s.assumedInvalid
    PROVE  r = s
  BY DEF CachedTexture

(* Either way scan leaves the texture fresh and the others alone.          *)
LEMMA Scanned ==
    ASSUME TexInv, NEW k \in TexKeys, SetTexture(k)
    PROVE  /\ Cached' = Cached \cup {k}
           /\ index' = [x \in Cached \cup {k} |-> IF x = k THEN FreshTexture(k) ELSE index[x]]
<1>1. CASE Accepted(k)
  <2>1. /\ index' = [index EXCEPT ![k].suspectedInvalid = FALSE]
        /\ k \in Cached /\ ~index[k].assumedInvalid
    BY <1>1 DEF SetTexture, Scan, Accepted
  <2>2. index[k] \in CachedTexture /\ index = [x \in Cached |-> index[x]]
    BY <2>1 DEF TexInv, Typed
  <2>3. index[k].decoded = Decoded(k)
    BY <1>1, AcceptedFresh DEF SetTexture
  <2>4. [index[k] EXCEPT !.suspectedInvalid = FALSE] = FreshTexture(k)
    <3> DEFINE r == [index[k] EXCEPT !.suspectedInvalid = FALSE]
    <3>1. r \in CachedTexture
      BY <2>2 DEF CachedTexture
    <3>2. r.suspectedInvalid = FALSE /\ r.assumedInvalid = FALSE /\ r.decoded = Decoded(k)
      BY <2>1, <2>2, <2>3 DEF CachedTexture
    <3>3. /\ FreshTexture(k) \in CachedTexture
          /\ FreshTexture(k).suspectedInvalid = FALSE /\ FreshTexture(k).assumedInvalid = FALSE
          /\ FreshTexture(k).decoded = Decoded(k)
      BY FreshTyped DEF FreshTexture, TexInv
    <3> QED
      BY <3>1, <3>2, <3>3, SameTexture
  <2>5. index' = [x \in Cached |-> IF x = k THEN FreshTexture(k) ELSE index[x]]
    BY <2>1, <2>2, <2>4
  <2> QED
    BY <2>1, <2>5 DEF Cached
<1>2. CASE ~Accepted(k)
  BY <1>2 DEF SetTexture, Scan, With, FreshTexture, Cached
<1> QED
  BY <1>1, <1>2

(* A texture of the frame is collected.                                    *)
LEMMA SetTextureStep ==
    ASSUME TexInv, NEW k \in TexKeys, SetTexture(k)
    PROVE  TexInv'
<1>1. /\ setup /\ polyTexKeys' = polyTexKeys \cup {k}
      /\ UNCHANGED <<bankMemory, purpose, paletteDump, setup, texturesMapped>>
  BY DEF SetTexture
<1>2. /\ Palette(purpose)' = Palette(purpose)
      /\ \A x \in TexKeys : Dump(x)' = Dump(x) /\ Decoded(x)' = Decoded(x)
  BY <1>1, SameView DEF Seen, TexInfo
<1>3. /\ Cached' = Cached \cup {k} /\ Cached \subseteq TexKeys
      /\ index' = [x \in Cached' |-> IF x = k THEN FreshTexture(k) ELSE index[x]]
  BY Scanned DEF TexInv, FrameCached
<1>4. /\ index'[k] = FreshTexture(k)
      /\ \A x \in Cached : x # k => index'[x] = index[x]
  BY <1>3
<1>5. /\ ~FreshTexture(k).suspectedInvalid /\ ~FreshTexture(k).assumedInvalid
      /\ FreshTexture(k).decoded = Decoded(k) /\ Decoded(k).dump = Dump(k)
      /\ Decoded(k).all = IF k.mode = "4x4" THEN Palette(purpose) ELSE <<>>
  BY DEF FreshTexture, Decoded
<1>6. Typed'
  <2>1. index' \in [Cached' -> CachedTexture]
    BY <1>3, FreshTyped DEF TexInv, Typed
  <2> QED
    BY <1>1, <2>1 DEF TexInv, Typed
<1>7. PaletteWatched'
  BY <1>1, <1>2 DEF TexInv, PaletteWatched
<1>8. FrameCached'
  BY <1>1, <1>3 DEF TexInv, FrameCached
<1>9. UnsuspectedExact'
  BY <1>2, <1>3, <1>4, <1>5 DEF TexInv, UnsuspectedExact
<1>10. PalettesExact'
  BY <1>1, <1>3, <1>4, <1>5 DEF TexInv, PalettesExact, PaletteWatched
<1>11. TexturesFresh'
  BY <1>1, <1>2, <1>3, <1>4, <1>5 DEF TexInv, TexturesFresh
<1> QED
  BY <1>6, <1>7, <1>8, <1>9, <1>10, <1>11 DEF TexInv

(* Only the stage of the frame changes.                                    *)
LEMMA StageStep ==
    ASSUME TexInv, BeginSetup \/ EndSetup \/ UNCHANGED texVars
    PROVE  TexInv'
<1>1. /\ UNCHANGED <<bankMemory, purpose, index, paletteDump, polyTexKeys, texturesMapped>>
      /\ setup' \in BOOLEAN
      /\ setup' => (setup \/ (polyTexKeys = {} /\ texturesMapped))
  <2>1. CASE BeginSetup
    BY <2>1 DEF BeginSetup
  <2>2. CASE EndSetup
    BY <2>2 DEF EndSetup
  <2>3. CASE UNCHANGED texVars
    BY <2>3 DEF texVars, TexInv, Typed
  <2> QED
    BY <2>1, <2>2, <2>3
<1>2. /\ Palette(purpose)' = Palette(purpose)
      /\ \A x \in TexKeys : Dump(x)' = Dump(x) /\ Decoded(x)' = Decoded(x)
  BY <1>1, SameView DEF Seen, TexInfo
<1>3. Typed' /\ FrameCached' /\ PalettesExact' /\ PaletteWatched'
  BY <1>1, <1>2 DEF TexInv, Typed, FrameCached, PalettesExact, PaletteWatched, Cached
<1>4. UnsuspectedExact' /\ TexturesFresh'
  BY <1>1, <1>2 DEF TexInv, UnsuspectedExact, TexturesFresh, FrameCached, Cached
<1> QED
  BY <1>3, <1>4 DEF TexInv

(* The frame is finished, and textures are evicted.                        *)
LEMMA TexRenderFinishStep ==
    ASSUME TexInv, TexRenderFinish
    PROVE  TexInv'
<1>1. PICK D \in Evicted(Cached, MaxCacheSize) : index' = [k \in D |-> index[k]]
  BY DEF TexRenderFinish
<1>2. D \subseteq Cached
  BY DEF Evicted
<1>3. /\ ~setup /\ polyTexKeys' = {} /\ Cached' = D
      /\ UNCHANGED <<bankMemory, purpose, paletteDump, setup, texturesMapped>>
      /\ \A k \in D : index'[k] = index[k]
  BY <1>1 DEF TexRenderFinish, Cached
<1>4. /\ Palette(purpose)' = Palette(purpose)
      /\ \A x \in TexKeys : Dump(x)' = Dump(x) /\ Decoded(x)' = Decoded(x)
  BY <1>3, SameView DEF Seen, TexInfo
<1>5. Typed' /\ FrameCached' /\ PalettesExact' /\ PaletteWatched'
  BY <1>1, <1>2, <1>3, <1>4 DEF TexInv, Typed, FrameCached, PalettesExact, PaletteWatched
<1>6. UnsuspectedExact' /\ TexturesFresh'
  BY <1>2, <1>3, <1>4 DEF TexInv, UnsuspectedExact, TexturesFresh, FrameCached
<1> QED
  BY <1>5, <1>6 DEF TexInv

(* The machine is reset.                                                   *)
LEMMA TexResetStep ==
    ASSUME TexInv, TexReset
    PROVE  TexInv'
<1>1. /\ bankMemory' = [b \in Banks |-> 0] /\ purpose' = [b \in Banks |-> Lcdc]
      /\ index' = [k \in {} |-> 0] /\ Cached' = {} /\ ~texturesMapped' /\ texturesMapped' \in BOOLEAN
      /\ setup' = setup /\ ~setup /\ polyTexKeys' = {}
  BY DEF TexReset, Cached
<1>2. index' \in [Cached' -> CachedTexture]
  BY <1>1
<1> QED
  BY <1>1, <1>2, TexCacheAssumption
     DEF TexInv, Typed, FrameCached, PalettesExact, PaletteWatched, UnsuspectedExact, TexturesFresh

(* What is trusted of a cached texture is right, and what the mapping has  *)
(* seen of memory is exact, after every write, mapping, frame and reset    *)
(* (TexCache::scan, invalidate and evict).                                 *)
THEOREM TexInvariance == TexSpec => []TexInv
<1>1. TexInit => TexInv
  <2> SUFFICES ASSUME TexInit PROVE TexInv
    OBVIOUS
  <2>1. Cached = {} /\ index \in [Cached -> CachedTexture]
    BY DEF TexInit, Cached
  <2> QED
    BY <2>1, TexCacheAssumption
       DEF TexInit, TexInv, Typed, FrameCached, PalettesExact, PaletteWatched, UnsuspectedExact, TexturesFresh
<1>2. TexInv /\ [TexNext]_texVars => TexInv'
  BY WriteBankStep, MapStep, StageStep, SetTextureStep, TexRenderFinishStep, TexResetStep DEF TexNext
<1> QED
  BY <1>1, <1>2, PTL DEF TexSpec

(* The textures collected for a frame are what decoding them from memory   *)
(* gives, however scan, invalidate, evict and the mapping followed.        *)
THEOREM FrameTexturesFresh == TexSpec => []TexturesFresh
  BY TexInvariance, PTL DEF TexInv

(* No texture of the frame is deleted or decoded to something else while   *)
(* it is collected or drawn.                                               *)
THEOREM FrameTexturesStay == TexSpec => FrameTexturesKept
<1>1. TexInv /\ [TexNext]_texVars
        => [\A k \in polyTexKeys \cap polyTexKeys' :
              k \in DOMAIN index' /\ index'[k].decoded = index[k].decoded]_texVars
  <2> SUFFICES ASSUME TexInv, TexNext, NEW k \in polyTexKeys, k \in polyTexKeys'
               PROVE  k \in DOMAIN index' /\ index'[k].decoded = index[k].decoded
    OBVIOUS
  <2>1. k \in Cached /\ k \in TexKeys
    BY DEF TexInv, FrameCached
  <2>2. CASE index' = index
    BY <2>1, <2>2 DEF Cached
  <2>3. ASSUME NEW b \in Banks, NEW p \in Purposes[b] \cup {Lcdc}, MMU_VRAMmapControl(b, p)
        PROVE  k \in DOMAIN index' /\ index'[k].decoded = index[k].decoded
    <3> DEFINE dirty == Palette([purpose EXCEPT ![b] = p]) # paletteDump
    <3>1. index' = index \/ index' = [x \in Cached |-> Suspected(index[x], x, dirty)]
      BY <2>3 DEF MMU_VRAMmapControl
    <3>2. index[k] \in CachedTexture /\ dirty \in BOOLEAN
      BY <2>1 DEF TexInv, Typed
    <3> HIDE DEF dirty
    <3>3. Suspected(index[k], k, dirty).decoded = index[k].decoded
      BY <2>1, <3>2, SuspectedTexture, Zenon
    <3> QED
      BY <2>1, <2>2, <3>1, <3>3
  <2>4. ASSUME NEW x \in TexKeys, SetTexture(x)
        PROVE  k \in DOMAIN index' /\ index'[k].decoded = index[k].decoded
    <3>1. index[k].decoded = Decoded(k)
      BY <2>4 DEF TexInv, TexturesFresh, SetTexture
    <3>2. FreshTexture(k).decoded = Decoded(k)
      BY DEF FreshTexture
    <3>3. /\ DOMAIN index' = Cached \cup {x}
          /\ index'[k] = IF k = x THEN FreshTexture(x) ELSE index[k]
      BY <2>1, <2>4, Scanned
    <3> QED
      BY <2>1, <3>1, <3>2, <3>3
  <2>5. ASSUME TexRenderFinish \/ TexReset PROVE FALSE
    BY <2>5 DEF TexRenderFinish, TexReset
  <2>6. ASSUME NEW b \in Banks, NEW v \in Texels, WriteBank(b, v) PROVE index' = index
    BY <2>6 DEF WriteBank
  <2>7. ASSUME BeginSetup \/ EndSetup PROVE index' = index
    BY <2>7 DEF BeginSetup, EndSetup
  <2> QED
    BY <2>2, <2>3, <2>4, <2>5, <2>6, <2>7 DEF TexNext
<1> QED
  BY <1>1, TexInvariance, PTL DEF TexSpec, FrameTexturesKept
=============================================================================
