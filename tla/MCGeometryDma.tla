--------------------------- MODULE MCGeometryDma ---------------------------
(***************************************************************************)
(* Two channels of ARM9 that compete for the geometry FIFO, and one of     *)
(* ARM7; sizes scaled down.                                                *)
(***************************************************************************)
EXTENDS GeometryDma

(* To the packed port if it waits for the geometry FIFO.                   *)
Once(mode, n) ==
    [startmode |-> mode, wordcount |-> n, repeatMode |-> FALSE, valid |-> TRUE, port |-> mode = "GXFifo"]

MCOrder == <<"dma_0_0", "dma_0_1", "dma_1_0">>

Use(c0, c1, c7, bursts, packets, cards) ==
    [controls |-> [c \in Channels |-> CASE c = "dma_0_0" -> c0 [] c = "dma_0_1" -> c1 [] OTHER -> c7],
     bursts |-> bursts, packets |-> packets, cards |-> cards]

(* Two channels and the program feed the geometry engine, the program at   *)
(* the direct ports; the program feeds it at the packed port, one channel  *)
(* when there is room and one at once; one channel serves the display      *)
(* while the other starts at once; and one copies at a horizontal blank    *)
(* while ARM7 copies at every vertical blank or from a card.               *)
MCPrograms == {
    Use({Once("GXFifo", 2)}, {Once("GXFifo", 1)}, {}, {<<"swap">>}, {}, {}),
    Use({Once("GXFifo", 2)}, {[Once("Immediate", 2) EXCEPT !.port = TRUE]}, {}, {}, {<<"cmd", "swap">>}, {}),
    Use({Once("MemDisplay", 1), Once("VBlank", 1)},
        {Once("Immediate", 0), [Once("Immediate", 1) EXCEPT !.valid = FALSE]}, {}, {}, {}, {}),
    Use({Once("HBlank", 1)}, {},
        {[Once("VBlank", 1) EXCEPT !.repeatMode = TRUE], Once("Card", 1)}, {}, {}, {2})}

(* A command per word.                                                     *)
MCPacked == [n \in 0 .. WordSpace - 1 |-> {[i \in 1 .. n |-> "cmd"]}]
=============================================================================
