------------------------------- MODULE Sound --------------------------------
(***************************************************************************)
(* A sound channel (SPU.cpp): its registers, the key, and the sample        *)
(* position that SPU_MixAudio moves on, loops or ends.  The channels do not *)
(* interact.                                                               *)
(*                                                                         *)
(* Samples are data.  An ADPCM sample follows from the one before, so the   *)
(* state of the decoder (pcm16b and index) is named by the nibbles that     *)
(* were decoded since the header was read.                                 *)
(***************************************************************************)
EXTENDS Integers, Sequences

CONSTANTS Sounds,   \* contents of the registers LEN and PNT (in words), with a format
          Rates,    \* values of sampinc, in fractions of a sample
          Fraction  \* the fractions of a sample

(* A loop of no length behind a start that is not zero never ends in       *)
(* TestForLoop, so software must not use one.                              *)
ASSUME SoundAssumption ==
    /\ \A s \in Sounds : /\ s.format \in {"pcm8", "pcm16", "adpcm"}
                         /\ s.length \in Nat /\ s.loopstart \in Nat
                         /\ s.length = 0 => s.loopstart = 0
    /\ Rates \subseteq Nat \ {0} /\ Fraction \in Nat \ {0}

VARIABLES
    masteren, keyon,
    repeat,         \* 1, or another value
    sound,          \* format, length and loopstart
    sampinc,
    playing,        \* status = CHANSTAT_PLAY
    totlength,      \* as latched when the channel was started
    sampcnt,        \* in fractions of a sample
    adpcm           \* lastsampcnt, the decoder, its state at the start of the loop, and
                    \* whether "over-snagging" was printed

settings == <<masteren, keyon, repeat, sound, sampinc>>
position == <<totlength, sampcnt, adpcm>>
soundVars == <<settings, playing, position>>

Recovery == <<0>>   \* K_ADPCM_LOOPING_RECOVERY_INDEX; nibble 0 is never decoded

Shift == CASE sound.format = "pcm8" -> 4 [] sound.format = "pcm16" -> 2 [] OTHER -> 8
SoundEnd == totlength * Shift * Fraction

(* SPU_struct::reset.  A timer of 0 is the slowest rate.                   *)
SoundInit ==
    /\ masteren = FALSE /\ keyon = FALSE /\ repeat = "one-shot" /\ playing = FALSE
    /\ sound = [format |-> "pcm8", length |-> 0, loopstart |-> 0]
    /\ sampinc \in Rates /\ \A r \in Rates : sampinc <= r
    /\ totlength = 0 /\ sampcnt = 0
    /\ adpcm = [last |-> 0, decoded |-> <<>>, loop |-> <<>>, overSnagged |-> FALSE]

-----------------------------------------------------------------------------
(* The loop state of the last sound is kept.                               *)
HeaderKeepsLoop(a) == [a EXCEPT !.last = 7, !.decoded = <<>>]

(* The header is read; loop_index is marked as unknown.                    *)
Header(a) == [a EXCEPT !.last = 7, !.decoded = <<>>, !.loop = Recovery]

(* KeyOn.  The length of the registers is latched; without any the channel *)
(* stops at once.                                                          *)
KeyOn ==
    /\ totlength' = sound.length + sound.loopstart
    /\ sampcnt' = -3 * Fraction
    /\ adpcm' = IF sound.format = "adpcm" THEN Header(adpcm) ELSE adpcm
    /\ playing' = (totlength' > 0)

(* KeyProbe, after the registers were written.                             *)
KeyProbe ==
    \/ ~playing /\ keyon' /\ masteren' /\ KeyOn
    \/ playing /\ ~(keyon' /\ masteren') /\ playing' = FALSE /\ UNCHANGED position
    \/ (playing <=> (keyon' /\ masteren')) /\ UNCHANGED <<playing, position>>

(* Writes of the control register and of SOUNDCNT.  The end of a sound     *)
(* does not clear keyon: the next write of SOUNDCNT starts it again.       *)
WriteControl ==
    /\ keyon' \in BOOLEAN /\ repeat' \in {"loop", "one-shot"}
    /\ UNCHANGED <<masteren, sound, sampinc>>
    /\ KeyProbe

WriteSoundcnt ==
    /\ masteren' \in BOOLEAN
    /\ UNCHANGED <<keyon, repeat, sound, sampinc>>
    /\ KeyProbe

(* LEN, PNT and the format are written while the channel is stopped, the   *)
(* timer at any time.                                                      *)
WriteSound ==
    /\ ~playing
    /\ sound' \in Sounds
    /\ UNCHANGED <<masteren, keyon, repeat, sampinc, playing, position>>

WriteTimer ==
    /\ sampinc' \in Rates
    /\ UNCHANGED <<masteren, keyon, repeat, sound, playing, position>>

-----------------------------------------------------------------------------
LoopNibble == 8 * sound.loopstart
Nibbles(from, to) == [i \in 1 .. to - from |-> from + i]

(* FetchADPCMData: the nibbles up to the position; on the way the state at *)
(* the start of the loop is kept.                                          *)
Fetched(a, pos) ==
    LET snags == a.last < LoopNibble /\ LoopNibble <= pos
    IN  [last        |-> pos,
         decoded     |-> a.decoded \o Nibbles(a.last, pos),
         loop        |-> IF snags THEN a.decoded \o Nibbles(a.last, LoopNibble) ELSE a.loop,
         overSnagged |-> a.overSnagged \/ (snags /\ a.loop # Recovery)]

(* Back to the state kept or, if there is none, to the header.             *)
Restored(a) ==
    IF a.loop = Recovery THEN [a EXCEPT !.last = 7, !.decoded = <<>>]
    ELSE [a EXCEPT !.last = LoopNibble, !.decoded = a.loop]

(* TestForLoop: back by as many loops as it takes.                         *)
Loops == repeat = "loop"

LoopLength == sound.length * Shift * Fraction
Back(cnt) == cnt - LoopLength * ((cnt - SoundEnd + LoopLength - 1) \div LoopLength)

(* ADPCM of less than four words hangs on its first sample.                *)
Hangs == sound.format = "adpcm" /\ totlength < 4

(* One sample of ____SPU_ChanUpdate.                                       *)
MixSample ==
    LET pos     == sampcnt \div Fraction
        next    == IF Hangs THEN sampcnt ELSE sampcnt + sampinc
        over    == ~Hangs /\ next > SoundEnd
        fetched == IF sound.format = "adpcm" /\ sampcnt >= 0 /\ pos # adpcm.last
                     THEN Fetched(adpcm, pos) ELSE adpcm
    IN  /\ playing /\ masteren
        /\ sampcnt' = IF over /\ Loops THEN Back(next) ELSE next
        /\ adpcm' = IF over /\ Loops /\ sound.format = "adpcm" THEN Restored(fetched) ELSE fetched
        /\ playing' = (over => Loops)
        /\ UNCHANGED <<settings, totlength>>

(* spu_savestate and spu_loadstate: the loop state is not in the file, and *)
(* the length is computed from the registers.                              *)
SaveAndLoad ==
    /\ totlength' = sound.length + sound.loopstart
    /\ adpcm' = [adpcm EXCEPT !.loop = Recovery]
    /\ UNCHANGED <<settings, playing, sampcnt>>

SoundReset ==
    /\ masteren' = FALSE /\ keyon' = FALSE /\ repeat' = "one-shot" /\ playing' = FALSE
    /\ sound' = [format |-> "pcm8", length |-> 0, loopstart |-> 0]
    /\ sampinc' \in Rates /\ \A r \in Rates : sampinc' <= r
    /\ totlength' = 0 /\ sampcnt' = 0
    /\ adpcm' = [last |-> 0, decoded |-> <<>>, loop |-> <<>>, overSnagged |-> FALSE]

SoundNext ==
    \/ WriteControl \/ WriteSoundcnt \/ WriteSound \/ WriteTimer
    \/ MixSample \/ SaveAndLoad \/ SoundReset

SoundSpec == SoundInit /\ [][SoundNext]_soundVars

-----------------------------------------------------------------------------
(* The values, and that a channel plays only with both switches on.        *)
SoundTypeOK ==
    /\ {masteren, keyon, playing} \subseteq BOOLEAN /\ (playing => keyon /\ masteren)
    /\ repeat \in {"loop", "one-shot"}
    /\ sound \in Sounds \cup {[format |-> "pcm8", length |-> 0, loopstart |-> 0]}
    /\ sampinc \in Rates /\ totlength \in Nat /\ sampcnt \in Int
    /\ adpcm.last \in Nat /\ adpcm.decoded \in Seq(Nat) /\ adpcm.overSnagged \in BOOLEAN

(* A playing channel reads at most one sample behind its end, however      *)
(* large its steps are compared with the loop; and of the nibbles behind   *)
(* the header (from 8 on) the ADPCM decoder has decoded those up to its    *)
(* place, each once and in order: in the first pass, after any number of   *)
(* loops, at any rate, after a state was loaded in the middle, and when    *)
(* the loop state of an earlier sound is still around.  Before them come   *)
(* nibbles of the header itself, up to seven (`from'): KeyOn and the       *)
(* recovery set the place to 7, but the first sample sets it back to the   *)
(* position.  LoopRecovered says what comes of that.  The start of a loop  *)
(* is passed once only ("over-snagging" is never printed).                 *)
PlaysInOrder ==
    /\ playing => sampcnt <= SoundEnd
    /\ sound.format = "adpcm" /\ playing /\ adpcm.last > 7 =>
         \E from \in 0 .. 7 : adpcm.decoded = Nibbles(from, adpcm.last)
    /\ ~adpcm.overSnagged

(* The recovery of the loop after a state was loaded (SPU.cpp:1573) starts *)
(* again from the header, and the decoder is then as it was when the pass  *)
(* before it stood there: it had decoded the same nibbles of the header.   *)
(* So the loop that was recovered sounds as the one before.                *)
LoopRecovered ==
    [][playing /\ playing' /\ adpcm.last > 7 /\ adpcm'.last = 7
         => adpcm'.decoded = SelectSeq(adpcm.decoded, LAMBDA n : n <= 7)]_soundVars
=============================================================================
