----------------------------- MODULE MCEmuloop -----------------------------
(***************************************************************************)
(* The emulation loop with a frame of three lines (drawn, vertical blank,  *)
(* last) and times scaled down.  ARM7 instructions cost twice their cycles.*)
(***************************************************************************)
EXTENDS Emuloop

MCCosts == [p \in Procs |-> IF p = "arm9" THEN {1, 3} ELSE {2}]

(* A block transfer of ARM9 takes several ARM7 instructions.               *)
MCLongCosts == [p \in Procs |-> IF p = "arm9" THEN {1, 6} ELSE {2}]

MCDuration == [e \in Events |->
    CASE e = "HStart" -> 1 [] e = "HStartIRQ" -> 1 [] e = "HDraw" -> 3 [] e = "HBlank" -> 2]
=============================================================================
