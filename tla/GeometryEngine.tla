--------------------------- MODULE GeometryEngine ---------------------------
(***************************************************************************)
(* From the packed command port to the display list (gfx3d.cpp): the port  *)
(* (GXF_Hardware) takes words of up to four commands and then their        *)
(* parameters, the FIFO queues a command with each parameter, the engine   *)
(* executes them in batches and assembles vertices to polygons, and at the *)
(* vertical blank after a swap the list is handed to the renderer.         *)
(*                                                                         *)
(* A vertex is the pair of its two parameters; software numbers the        *)
(* vertices of a frame and computes the polygons it means to draw.         *)
(***************************************************************************)
EXTENDS Integers, Sequences, SequencesExt

CONSTANTS GxSlots,     \* commands in a word of the packed port: 4
          GxFormats,   \* the vertex formats software uses
          GxBatch,     \* commands executed at once: 64
          PolyListSize,
          MaxVertices, \* bound: vertices of a frame
          MaxQueue,    \* bound: entries of the FIFO from which software waits
          WaitsForSwap \* whether software waits for the swap before it goes on

Formats == {"TRIANGLES", "QUADS", "TRIANGLE_STRIP", "QUAD_STRIP"}
ASSUME GeometryAssumption ==
    /\ GxSlots \in Nat \ {0} /\ GxFormats \subseteq Formats /\ GxBatch \in Nat \ {0}
    /\ PolyListSize \in Nat \ {0} /\ MaxVertices \in Nat /\ MaxQueue \in Nat /\ WaitsForSwap \in BOOLEAN

VARIABLES gxport,    \* the commands of the word that are left, and parameters the first one lacks
          gxpending, \* parameters software still owes to the port
          gxqueue,   \* gxFIFO
          engine,    \* the state of the geometry engine
          polylist,  \* the list under construction: vertex indices of each polygon
          vertlist,  \* its vertices
          soft,      \* the primitive software is drawing
          wanted,    \* the polygons of each frame that software has sent
          built      \* the frame whose list is under construction

gxVars == <<gxport, gxpending, gxqueue, engine, polylist, vertlist, soft, wanted, built>>

(* gfx3d_commandTypes: the number of parameters.                           *)
Ops == {"nop", "undefined", "begin", "vtx16", "end", "swap"}
Params(op) == CASE op = "vtx16" -> 2 [] op \in {"begin", "swap"} -> 1 [] OTHER -> 0

VertListSize == 4 * PolyListSize
EmptyVertList == [count |-> 0, list |-> [i \in 0 .. VertListSize - 1 |-> <<0, 0>>]]

NewPrimitive(e, format) ==
    [e EXCEPT !.format = format, !.toggle = FALSE, !.count = 0, !.first = TRUE]

GxInit ==
    /\ gxport = [shift |-> <<>>, lacks |-> 0] /\ gxpending = <<>> /\ gxqueue = <<>>
    /\ engine = [format |-> "TRIANGLES", toggle |-> FALSE, count |-> 0, first |-> FALSE,
                 map |-> <<0, 0, 0, 0>>, coord |-> <<>>, swap |-> FALSE]
    /\ polylist = <<>> /\ vertlist = EmptyVertList
    /\ soft = [prim |-> "none", sent |-> <<>>, next |-> 1, frame |-> 0]
    /\ wanted = [f \in 0 .. 1 |-> <<>>] /\ built = 0

-----------------------------------------------------------------------------
(* Software: it draws between begin and end and swaps outside.             *)

(* The polygon that the last vertex of the sequence s completes, if any.   *)
Completed(format, s) ==
    LET n == Len(s)
    IN  CASE format = "TRIANGLES" /\ n % 3 = 0 -> << <<s[n - 2], s[n - 1], s[n]>> >>
          [] format = "QUADS" /\ n % 4 = 0 -> << <<s[n - 3], s[n - 2], s[n - 1], s[n]>> >>
          [] format = "TRIANGLE_STRIP" /\ n >= 3 ->
               IF n % 2 = 1 THEN << <<s[n - 2], s[n - 1], s[n]>> >>
                            ELSE << <<s[n - 1], s[n - 2], s[n]>> >>
          [] format = "QUAD_STRIP" /\ n >= 4 /\ n % 2 = 0 ->
               << <<s[n - 3], s[n - 2], s[n], s[n - 1]>> >>
          [] OTHER -> <<>>

(* Software's side w = [legal, soft, params, want] after one more command. *)
Meant(format, w, op) ==
    LET id == w.soft.next + MaxVertices * w.soft.frame
        sent == Append(w.soft.sent, <<id, id>>)
    IN  CASE op = "begin" -> [w EXCEPT !.soft.prim = format, !.soft.sent = <<>>,
                                       !.params = Append(@, format)]
          [] op = "vtx16" ->
               [legal |-> w.legal /\ w.soft.prim # "none" /\ w.soft.next <= MaxVertices,
                soft |-> [w.soft EXCEPT !.sent = sent, !.next = @ + 1],
                params |-> w.params \o <<id, id>>,
                want |-> w.want \o Completed(w.soft.prim, sent)]
          [] op = "end"  -> [w EXCEPT !.soft.prim = "none", !.soft.sent = <<>>]
          [] op = "swap" -> [w EXCEPT !.legal = @ /\ w.soft.prim = "none" /\ w.soft.next > 1,
                                      !.soft.prim = "swapped", !.params = Append(@, 0)]
          [] OTHER -> w

-----------------------------------------------------------------------------
(* GXF_Hardware::receive                                                   *)

(* Leading commands without parameters are sent at once; others wait.      *)
Leading(s) ==
    CHOOSE n \in 0 .. Len(s) : (\A i \in 1 .. n : Params(s[i]) = 0)
                               /\ (n < Len(s) => Params(s[n + 1]) > 0)

Analyzed(s) ==
    LET n == Leading(s)
    IN  [port |-> [shift |-> SubSeq(s, n + 1, Len(s)), lacks |-> IF n < Len(s) THEN Params(s[n + 1]) ELSE 0],
         sent |-> [i \in 1 .. Len(SelectSeq(SubSeq(s, 1, n), LAMBDA op : op = "end")) |-> <<"end", 0>>]]

(* A word when no command is left is a new packed word.                    *)
ReceiveWord(s) == Analyzed(s)

ReceiveParam(v) ==
    LET op == gxport.shift[1]
        rest == IF gxport.lacks > 1 THEN [port |-> [gxport EXCEPT !.lacks = @ - 1], sent |-> <<>>]
                                    ELSE Analyzed(Tail(gxport.shift))
    IN  [rest EXCEPT !.sent = << <<op, v>> >> \o @]

SendPacked(word, format) ==
    /\ gxpending = <<>> /\ soft.prim # "swapped" /\ Len(gxqueue) <= MaxQueue
    /\ LET w == FoldLeft(LAMBDA a, op : Meant(format, a, op),
                         [legal |-> TRUE, soft |-> soft, params |-> <<>>, want |-> wanted[soft.frame]], word)
           r == ReceiveWord(word)
       IN  /\ w.legal /\ \A i \in 1 .. Len(word) - 1 : word[i] # "swap"
           /\ soft' = w.soft /\ gxpending' = w.params
           /\ wanted' = [wanted EXCEPT ![soft.frame] = w.want]
           /\ gxport' = r.port /\ gxqueue' = gxqueue \o r.sent
    /\ UNCHANGED <<engine, polylist, vertlist, built>>

SendParam ==
    /\ gxpending # <<>>
    /\ LET r == ReceiveParam(Head(gxpending))
       IN  gxport' = r.port /\ gxqueue' = gxqueue \o r.sent
    /\ gxpending' = Tail(gxpending)
    /\ UNCHANGED <<engine, polylist, vertlist, soft, wanted, built>>

(* After a swap software goes on with the next frame, having waited for    *)
(* the vertical blank or not (but no further than one frame ahead).        *)
NextFrame ==
    /\ soft.prim = "swapped" /\ gxpending = <<>>
    /\ WaitsForSwap => ~engine.swap /\ gxqueue = <<>>
    /\ wanted[1 - soft.frame] = <<>>
    /\ soft' = [prim |-> "none", sent |-> <<>>, next |-> 1, frame |-> 1 - soft.frame]
    /\ UNCHANGED <<gxport, gxpending, gxqueue, engine, polylist, vertlist, wanted, built>>

-----------------------------------------------------------------------------
(* gfx3d_glBegin that forgets the primitive before only in part.           *)
BeginKeepsFirst(e, format) == [e EXCEPT !.format = format, !.toggle = FALSE, !.count = 0]

gfx3d_glBegin(e, format) == NewPrimitive(e, format)

(* Places of the map that make up the polygon.                             *)
Corners(format) ==
    CASE format \in {"TRIANGLES", "TRIANGLE_STRIP"} -> <<1, 2, 3>>
      [] format = "QUADS" -> <<1, 2, 3, 4>>
      [] OTHER -> <<1, 2, 4, 3>>

Strip(format) == format \in {"TRIANGLE_STRIP", "QUAD_STRIP"}

(* The map of a strip starts with the last vertices of its last polygon.   *)
NextMap(e, map, base) ==
    CASE e.format = "TRIANGLE_STRIP" -> [map EXCEPT ![IF e.toggle THEN 2 ELSE 1] = base + 2]
      [] e.format = "QUAD_STRIP" -> [map EXCEPT ![1] = base + 2, ![2] = base + 3]
      [] OTHER -> map

(* SetVertex: a vertex is put behind those that are counted, and a strip   *)
(* shares two with the polygon before.  A full list takes nothing.         *)
SetVertex(d, v) ==
    LET e == d.engine
        base == d.vertlist.count - IF Strip(e.format) /\ ~e.first THEN 2 ELSE 0
        map == [e.map EXCEPT ![e.count + 1] = base + e.count]
        placed == [d EXCEPT !.engine.map = map, !.engine.count = @ + 1,
                            !.vertlist.list = [@ EXCEPT ![base + e.count] = v]]
        corners == Corners(e.format)
    IN  IF d.vertlist.count >= VertListSize \/ Len(d.polylist) >= PolyListSize THEN d
        ELSE IF e.count + 1 # Len(corners) THEN placed
        ELSE [placed EXCEPT
                !.polylist = Append(@, [i \in DOMAIN corners |-> map[corners[i]]]),
                !.vertlist.count = base + Len(corners),
                !.engine = [@ EXCEPT !.map = NextMap(e, map, base),
                                     !.count = IF Strip(e.format) THEN 2 ELSE 0,
                                     !.first = @ /\ ~Strip(e.format),
                                     !.toggle = IF e.format = "TRIANGLE_STRIP" THEN ~@ ELSE @]]

(* gfx3d_execute                                                           *)
Executed3D(d, entry) ==
    CASE entry[1] = "begin" -> [d EXCEPT !.engine = gfx3d_glBegin(@, entry[2])]
      [] entry[1] = "end"   -> [d EXCEPT !.engine.count = 0]
      [] entry[1] = "swap"  -> [d EXCEPT !.engine.swap = TRUE]
      [] entry[1] = "vtx16" /\ d.engine.coord = <<>> -> [d EXCEPT !.engine.coord = <<entry[2]>>]
      [] OTHER -> SetVertex([d EXCEPT !.engine.coord = <<>>], Append(d.engine.coord, entry[2]))

(* A batch goes on to its end, whatever is in it.                          *)
gfx3d_execute3D ==
    /\ gxqueue # <<>> /\ ~engine.swap
    /\ LET n == IF Len(gxqueue) < GxBatch THEN Len(gxqueue) ELSE GxBatch
           d == FoldLeft(Executed3D, [engine |-> engine, polylist |-> polylist, vertlist |-> vertlist],
                         SubSeq(gxqueue, 1, n))
       IN  /\ engine' = d.engine /\ polylist' = d.polylist /\ vertlist' = d.vertlist
           /\ gxqueue' = SubSeq(gxqueue, n + 1, Len(gxqueue))
    /\ UNCHANGED <<gxport, gxpending, soft, wanted, built>>

(* gfx3d_doFlush at the vertical blank: the list is handed over, and the   *)
(* other one is emptied.                                                   *)
gfx3d_VBlank ==
    /\ engine.swap
    /\ engine' = [engine EXCEPT !.swap = FALSE]
    /\ polylist' = <<>> /\ vertlist' = EmptyVertList
    /\ built' = 1 - built /\ wanted' = [wanted EXCEPT ![built] = <<>>]
    /\ UNCHANGED <<gxport, gxpending, gxqueue, soft>>

Words == UNION {[1 .. n -> Ops] : n \in 1 .. GxSlots}

GxNext ==
    \/ \E word \in Words, format \in GxFormats : SendPacked(word, format)
    \/ SendParam
    \/ NextFrame
    \/ gfx3d_execute3D
    \/ gfx3d_VBlank

GxSpec == GxInit /\ [][GxNext]_gxVars

-----------------------------------------------------------------------------
GxTypeOK ==
    /\ gxport.lacks \in 0 .. 2 /\ Len(gxport.shift) <= GxSlots
    /\ engine.format \in Formats /\ engine.count \in 0 .. 3 /\ engine.swap \in BOOLEAN
    /\ Len(polylist) <= PolyListSize
    /\ vertlist.count \in 0 .. VertListSize /\ DOMAIN vertlist.list = 0 .. VertListSize - 1
    /\ built \in 0 .. 1 /\ soft.frame \in 0 .. 1

Resolved == [k \in DOMAIN polylist |-> [i \in DOMAIN polylist[k] |-> vertlist.list[polylist[k][i]]]]

(* The list under construction holds the polygons of its frame as software *)
(* meant them, corner by corner and in order, as many as fit in the list:  *)
(* however they were packed into words and batches.  When the frame is     *)
(* handed over it is complete.  No polygon refers outside the vertex list. *)
PolygonsExact ==
    /\ \A k \in DOMAIN polylist : \A i \in DOMAIN polylist[k] : polylist[k][i] \in DOMAIN vertlist.list
    /\ IsPrefix(Resolved, wanted[built])
    /\ engine.swap => Len(polylist) = Len(wanted[built]) \/ Len(polylist) = PolyListSize
=============================================================================
