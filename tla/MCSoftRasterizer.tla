-------------------------- MODULE MCSoftRasterizer --------------------------
(***************************************************************************)
(* One, three and four rasterizer cores: inline rendering, threads with    *)
(* inline setup and an idle unit (three is no power of two), and threads   *)
(* with setup tasks.  Five lines do not divide evenly among the threads.   *)
(***************************************************************************)
EXTENDS SoftRasterizer, Bitwise

MCCoreCounts == {1, 3, 4}
MCBitAnd(x, y) == x & y
=============================================================================
