---------------------------- MODULE DeviceProofs -----------------------------
(***************************************************************************)
(* IPCSYNC, the waiting calls of the BIOS, the sound channels and the real *)
(* time clock, for every set of values, interrupts, sounds and moments.    *)
(*                                                                         *)
(* SyncMirrored: its two conjuncts of a CPU are about the same `sent'.  A  *)
(* write sets one half of each register from it, and the half that the     *)
(* writer may not write is kept.  In an Ensata the handshake sets all four *)
(* halves at once.                                                         *)
(*                                                                         *)
(* ReturnsWhenReported: the call remembers with one flag of the CPU that   *)
(* it was executed before, and the rest is in the flags of the operating   *)
(* system, which any interrupt handler changes.                            *)
(*                                                                         *)
(* PlaysInOrder: the decoder follows the position but for the samples of   *)
(* the header, and what it keeps for the start of the loop was decoded     *)
(* behind the header and before its present place.                         *)
(*                                                                         *)
(* RtcTransfersExact: the invariant follows the driver by half cycles of   *)
(* its clock, and says how many bits the chip has taken or shown.          *)
(***************************************************************************)
EXTENDS IpcSync, IntrWait, Sound, Rtc, TLAPS, SequenceTheorems

(* There are two CPUs.                                                    *)
LEMMA PeerOfPeer == \A p \in SyncCpus : Peer(p) \in SyncCpus /\ Peer(p) # p /\ Peer(Peer(p)) = p
  BY DEF SyncCpus, Peer

(* A write replaces the register of the writer, and the half of the other  *)
(* register that shows what was sent.                                      *)
LEMMA RegistersWritten ==
    ASSUME SyncTypeOK, NEW p \in SyncCpus, NEW v \in SyncValues, NEW strobe \in BOOLEAN,
           NEW enable \in BOOLEAN, MMU_IPCSync(p, v, strobe, enable)
    PROVE  sync' = [q \in SyncCpus |->
                      IF q = p THEN [in |-> InputKept(p, v), out |-> v, send |-> strobe, recv |-> enable]
                      ELSE [in |-> v, out |-> PeerOutput(p, v),
                            send |-> sync[q].send, recv |-> sync[q].recv]]
<1>1. Peer(p) \in SyncCpus /\ Peer(p) # p /\ \A q \in SyncCpus : q = p \/ q = Peer(p)
  BY PeerOfPeer DEF SyncCpus, Peer
<1> QED
  BY <1>1 DEF MMU_IPCSync, SyncTypeOK

(* The registers hold values that were sent, and the handshake's counter   *)
(* stops at its end.                                                       *)
THEOREM SyncTypeCorrect == SyncSpec => []SyncTypeOK
<1>1. SyncInit => SyncTypeOK
  BY SyncAssumption DEF SyncInit, SyncTypeOK
<1>2. SyncTypeOK /\ [SyncNext]_syncVars => SyncTypeOK'
  <2> SUFFICES ASSUME SyncTypeOK, [SyncNext]_syncVars PROVE SyncTypeOK'
    OBVIOUS
  <2>1. ASSUME NEW p \in SyncCpus, NEW v \in SyncValues, NEW strobe \in BOOLEAN, NEW enable \in BOOLEAN,
               MMU_IPCSync(p, v, strobe, enable)
        PROVE  SyncTypeOK'
    <3>1. Peer(p) \in SyncCpus
      BY PeerOfPeer
    <3>2. InputKept(p, v) \in SyncValues /\ PeerOutput(p, v) \in SyncValues
      BY <3>1 DEF SyncTypeOK, InputKept, PeerOutput
    <3>3. sync' \in [SyncCpus -> [in : SyncValues, out : SyncValues, send : BOOLEAN, recv : BOOLEAN]]
      BY <2>1, <3>2, RegistersWritten DEF SyncTypeOK
    <3>4. syncIrq' \in [SyncCpus -> BOOLEAN]
      BY <2>1, <3>1 DEF SyncTypeOK, MMU_IPCSync
    <3>5. ensataCounter' \in 0 .. 9
      BY <2>1 DEF SyncTypeOK, MMU_IPCSync, Handshake
    <3> QED
      BY <2>1, <3>3, <3>4, <3>5 DEF SyncTypeOK, MMU_IPCSync
  <2>2. ASSUME NEW p \in SyncCpus, AckSync(p)
        PROVE  SyncTypeOK'
    BY <2>2 DEF SyncTypeOK, AckSync
  <2>3. CASE UNCHANGED syncVars
    BY <2>3 DEF SyncTypeOK, syncVars
  <2> QED
    BY <2>1, <2>2, <2>3 DEF SyncNext
<1> QED
  BY <1>1, <1>2, PTL DEF SyncSpec

(* Each CPU reads what the other one sent last and what it sent itself, in *)
(* every interleaving of the writes of MMU_IPCSync, in an Ensata or not.   *)
THEOREM SyncAlwaysMirrored == SyncSpec => []SyncMirrored
<1>1. SyncInit => sent \in [SyncCpus -> SyncValues] /\ SyncMirrored
  BY SyncAssumption, PeerOfPeer DEF SyncInit, SyncMirrored
<1>2. SyncTypeOK /\ sent \in [SyncCpus -> SyncValues] /\ SyncMirrored /\ [SyncNext]_syncVars
        => (sent \in [SyncCpus -> SyncValues] /\ SyncMirrored)'
  <2> SUFFICES ASSUME SyncTypeOK, sent \in [SyncCpus -> SyncValues], SyncMirrored, [SyncNext]_syncVars
               PROVE  (sent \in [SyncCpus -> SyncValues])' /\ SyncMirrored'
    OBVIOUS
  <2>1. ASSUME NEW p \in SyncCpus, NEW v \in SyncValues, NEW strobe \in BOOLEAN, NEW enable \in BOOLEAN,
               MMU_IPCSync(p, v, strobe, enable)
        PROVE  (sent \in [SyncCpus -> SyncValues])' /\ SyncMirrored'
    <3>1. /\ Peer(p) \in SyncCpus /\ Peer(p) # p /\ Peer(Peer(p)) = p
          /\ \A q \in SyncCpus : q = p \/ q = Peer(p)
      BY PeerOfPeer DEF SyncCpus, Peer
    <3>2. /\ sync'[p].in = InputKept(p, v) /\ sync'[p].out = v
          /\ sync'[Peer(p)].in = v
          /\ sync'[Peer(p)].out = PeerOutput(p, v)
      BY <2>1, <3>1, RegistersWritten
    <3>3. CASE Handshake(p)
      <4>1. sent' = [q \in SyncCpus |-> v]
        BY <2>1, <3>3 DEF MMU_IPCSync
      <4>2. /\ sync'[p].in = v /\ sync'[p].out = v
            /\ sync'[Peer(p)].in = v /\ sync'[Peer(p)].out = v
        BY <3>2, <3>3 DEF InputKept, PeerOutput
      <4> QED
        BY <3>1, <4>1, <4>2 DEF SyncMirrored
    <3>4. CASE ~Handshake(p)
      <4>1. sent' = [sent EXCEPT ![p] = v]
        BY <2>1, <3>4 DEF MMU_IPCSync
      <4>2. sync'[p].in = sent[Peer(p)] /\ sync'[Peer(p)].out = sent[Peer(p)]
        BY <3>1, <3>2, <3>4 DEF InputKept, PeerOutput, SyncMirrored
      <4> QED
        BY <3>1, <3>2, <4>1, <4>2 DEF SyncMirrored
    <3> QED
      BY <3>3, <3>4
  <2>2. ASSUME NEW p \in SyncCpus, AckSync(p)
        PROVE  (sent \in [SyncCpus -> SyncValues])' /\ SyncMirrored'
    BY <2>2 DEF AckSync, SyncMirrored
  <2>3. CASE UNCHANGED syncVars
    BY <2>3 DEF SyncMirrored, syncVars
  <2> QED
    BY <2>1, <2>2, <2>3 DEF SyncNext
<1> QED
  BY <1>1, <1>2, SyncTypeCorrect, PTL DEF SyncSpec

-----------------------------------------------------------------------------
(* While a call waits, the one flag of the CPU says so, and what the       *)
(* operating system's flags show of the awaited sources is what was        *)
(* reported since the call: older flags were discarded, or there were none.*)
Waiting ==
    /\ intrWaitARM_state = IF pc = "again" THEN 1 ELSE 0
    /\ pc = "again" => osFlags \cap R1 = reported \cap R1

(* The registers of the call and the interrupts keep their types.          *)
THEOREM IntrTypeCorrect == IntrSpec => []IntrTypeOK
<1>1. IntrInit => IntrTypeOK
  BY DEF IntrInit, IntrTypeOK
<1>2. IntrTypeOK /\ [IntrNext]_intrVars => IntrTypeOK'
  <2> SUFFICES ASSUME IntrTypeOK, [IntrNext]_intrVars PROVE IntrTypeOK'
    OBVIOUS
  <2> USE DEF IntrTypeOK, call
  <2>1. CASE Configure
    BY <2>1 DEF Configure
  <2>2. ASSUME NEW discard \in {0, 1}, NEW irqs \in WaitSets, Call(discard, irqs) PROVE IntrTypeOK'
    BY <2>2 DEF Call
  <2>3. CASE intrWaitARM
    BY <2>3 DEF intrWaitARM, StateAfterReturn
  <2>4. ASSUME NEW i \in Irqs, Raise(i) PROVE IntrTypeOK'
    BY <2>4 DEF Raise
  <2>5. CASE execHardware_interrupts
    BY <2>5 DEF execHardware_interrupts
  <2>6. CASE HandlerReturns
    BY <2>6 DEF HandlerReturns
  <2>7. CASE UNCHANGED intrVars
    BY <2>7 DEF intrVars
  <2> QED
    BY <2>1, <2>2, <2>3, <2>4, <2>5, <2>6, <2>7 DEF IntrNext
<1> QED
  BY <1>1, <1>2, PTL DEF IntrSpec

(* What a call finds when it is executed again is exactly what has been    *)
(* reported since its first execution.                                     *)
THEOREM WaitingInvariant == IntrSpec => []Waiting
<1>1. IntrInit => Waiting
  BY DEF IntrInit, Waiting
<1>2. IntrTypeOK /\ Waiting /\ [IntrNext]_intrVars => Waiting'
  <2> SUFFICES ASSUME IntrTypeOK, Waiting, [IntrNext]_intrVars PROVE Waiting'
    OBVIOUS
  <2> USE DEF Waiting, call
  <2>1. CASE Configure
    BY <2>1 DEF Configure
  <2>2. ASSUME NEW discard \in {0, 1}, NEW irqs \in WaitSets, Call(discard, irqs) PROVE Waiting'
    BY <2>2 DEF Call, Running
  <2>3. CASE intrWaitARM
    <3>1. CASE pc' = "program"
      BY <2>3, <3>1 DEF intrWaitARM, StateAfterReturn
    <3>2. CASE pc' = "again" /\ pc = "again"
      BY <2>3, <3>2 DEF intrWaitARM
    <3>3. CASE pc' = "again" /\ pc = "swi"
      <4>1. osFlags' \cap R1 = {}
        BY <2>3, <3>3 DEF intrWaitARM
      <4> QED
        BY <2>3, <3>3, <4>1 DEF intrWaitARM
    <3> QED
      BY <2>3, <3>1, <3>2, <3>3 DEF intrWaitARM, IntrTypeOK
  <2>4. ASSUME NEW i \in Irqs, Raise(i) PROVE Waiting'
    BY <2>4 DEF Raise
  <2>5. CASE execHardware_interrupts
    BY <2>5 DEF execHardware_interrupts
  <2>6. CASE HandlerReturns
    BY <2>6 DEF HandlerReturns
  <2>7. CASE UNCHANGED intrVars
    BY <2>7 DEF intrVars
  <2> QED
    BY <2>1, <2>2, <2>3, <2>4, <2>5, <2>6, <2>7 DEF IntrNext
<1> QED
  BY <1>1, <1>2, IntrTypeCorrect, PTL DEF IntrSpec

(* An execution of intrWaitARM returns exactly if one of the awaited       *)
(* interrupts was reported, for any sources and any order of interrupts,   *)
(* maskings and wake-ups.                                                  *)
THEOREM WaitsEndWhenReported == IntrSpec => ReturnsWhenReported
<1>1. Waiting /\ IntrTypeOK /\ [IntrNext]_intrVars
        => [intrWaitARM => (pc' = "program" <=> Reports \cap R1 # {})]_intrVars
  <2> SUFFICES ASSUME Waiting, IntrTypeOK, intrWaitARM
               PROVE  pc' = "program" <=> Reports \cap R1 # {}
    OBVIOUS
  <2> DEFINE discarded == intrWaitARM_state = 0 /\ R0 = 1
             intrFlag == IF discarded THEN {} ELSE R1 \cap osFlags
  <2>1. pc' = "program" <=> intrFlag # {}
    BY DEF intrWaitARM
  <2>2. CASE pc = "again"
    BY <2>1, <2>2 DEF Waiting, Reports
  <2>3. CASE pc = "swi"
    BY <2>1, <2>3 DEF Waiting, Reports
  <2> QED
    BY <2>2, <2>3 DEF intrWaitARM, IntrTypeOK
<1> QED
  BY <1>1, WaitingInvariant, IntrTypeCorrect, PTL DEF IntrSpec, ReturnsWhenReported

-----------------------------------------------------------------------------
(* The sound channel: the values.                                          *)
Decoder == [last : Nat, decoded : Seq(Nat), loop : Seq(Nat), overSnagged : BOOLEAN]

SoundTyped ==
    /\ sound.format \in {"pcm8", "pcm16", "adpcm"} /\ sound.length \in Nat /\ sound.loopstart \in Nat
    /\ (sound.length = 0 => sound.loopstart = 0)
    /\ sampinc \in Nat \ {0} /\ totlength \in Nat /\ sampcnt \in Int
    /\ adpcm \in Decoder /\ playing \in BOOLEAN

(* The latched length of a playing channel is that of its registers, and   *)
(* the position has not passed the end.                                    *)
Latched ==
    playing => totlength = sound.length + sound.loopstart /\ totlength > 0 /\ sampcnt <= SoundEnd

(* The decoder has decoded what lies between a nibble of the header and    *)
(* its place,                                                              *)
DecodedInOrder(a) ==
    \E from \in 0 .. 7 : from <= a.last /\ a.decoded = Nibbles(from, a.last)

(* which the position has reached, unless the decoder is at the header;    *)
DecoderBehind(a, cnt) ==
    \/ cnt >= Fraction * a.last
    \/ a.last = 7 /\ a.decoded = <<>>

(* and the state that was kept, if any, is that of the start of the loop,  *)
(* which lies behind the header and has been passed.                       *)
LoopKept(a) ==
    \/ a.loop = Recovery
    \/ /\ 8 <= LoopNibble /\ LoopNibble <= a.last
       /\ \E from \in 0 .. 7 : a.loop = Nibbles(from, LoopNibble)

DecoderExact(a, cnt) == DecodedInOrder(a) /\ DecoderBehind(a, cnt) /\ LoopKept(a)

SoundInv == 
    /\ SoundTyped /\ Latched /\ adpcm.overSnagged = FALSE
    /\ sound.format = "adpcm" /\ playing => DecoderExact(adpcm, sampcnt)

-----------------------------------------------------------------------------
LEMMA Product ==
    ASSUME NEW b \in Nat \ {0}, NEW x \in Int, NEW y \in Int
    PROVE  /\ b * x \in Int /\ b * y \in Int /\ b * (x + y) = b * x + b * y
           /\ (x <= y => b * x <= b * y) /\ (x < y => b * x + b <= b * y)
  OBVIOUS

LEMMA ProductNat == ASSUME NEW x \in Nat, NEW y \in Nat PROVE x * y \in Nat
  OBVIOUS

(* The sample of a position.                                               *)
LEMMA SampleOf ==
    ASSUME NEW x \in Int, NEW b \in Nat \ {0}
    PROVE  /\ x \div b \in Int /\ b * (x \div b) <= x /\ x < b * (x \div b) + b
           /\ \A k \in Int : b * k <= x => k <= x \div b
<1> DEFINE q == x \div b
           r == x % b
<1>1. q \in Int /\ r \in 0 .. b - 1 /\ x = b * q + r
  OBVIOUS
<1> HIDE DEF q, r
<1>2. b * q \in Int /\ b * q <= x /\ x < b * q + b
  BY <1>1
<1>3. ASSUME NEW k \in Int, b * k <= x PROVE k <= q
  <2>1. SUFFICES ASSUME q < k PROVE FALSE
    BY <1>1
  <2>2. b * q + b <= b * k
    BY <1>1, <2>1, Product
  <2>3. b * k \in Int
    BY Product
  <2> QED
    BY <1>2, <1>3, <2>2, <2>3
<1> QED
  BY <1>1, <1>2, <1>3 DEF q

(* Going back by whole loops ends within the last one.                     *)
LEMMA BackInLoop ==
    ASSUME NEW x \in Int, NEW end \in Int, NEW len \in Nat \ {0}, x > end
    PROVE  LET y == x - len * ((x - end + len - 1) \div len)
           IN  y \in Int /\ y <= end /\ y > end - len
<1> DEFINE z == x - end + len - 1
           q == z \div len
<1>1. z \in Int
  OBVIOUS
<1>2. q \in Int /\ len * q <= z /\ z < len * q + len
  BY <1>1, SampleOf
<1>3. len * q \in Int
  BY <1>2
<1> QED
  <2> DEFINE p == len * q
  <2>1. p \in Int /\ p <= z /\ z < p + len
    BY <1>2, <1>3
  <2> HIDE DEF p, q
  <2>2. x - p \in Int /\ x - p <= end /\ x - p > end - len
    BY <2>1
  <2> QED
    BY <2>2 DEF p, q

LEMMA NibblesJoined ==
    ASSUME NEW from \in Nat, NEW via \in Nat, NEW to \in Nat, from <= via, via <= to
    PROVE  Nibbles(from, via) \o Nibbles(via, to) = Nibbles(from, to)
<1> DEFINE p == Nibbles(from, via)
           q == Nibbles(via, to)
           m == via - from
           n == to - via
<1>1. m \in Nat /\ n \in Nat /\ to - from = m + n /\ via = from + m
  OBVIOUS
<1>2. p = [i \in 1 .. m |-> from + i] /\ q = [i \in 1 .. n |-> via + i]
  BY DEF Nibbles
<1> HIDE DEF p, q, m, n
<1>3. /\ p \in Seq(Nat) /\ Len(p) = m /\ \A i \in 1 .. m : p[i] = from + i
      /\ q \in Seq(Nat) /\ Len(q) = n /\ \A i \in 1 .. n : q[i] = via + i
  BY <1>1, <1>2
<1> DEFINE s == p \o q
<1>4. s \in Seq(Nat) /\ Len(s) = m + n
  BY <1>1, <1>3, ConcatProperties
<1>s. \A i \in 1 .. m + n : s[i] = IF i <= m THEN p[i] ELSE q[i - m]
  BY <1>1, <1>3, ConcatProperties
<1> HIDE DEF s
<1>5. ASSUME NEW i \in 1 .. m + n PROVE s[i] = from + i
  <2>1. CASE i <= m
    <3>1. i \in 1 .. m
      BY <1>1, <2>1
    <3> QED
      BY <1>3, <1>s, <2>1, <3>1
  <2>2. CASE i > m
    <3>1. i - m \in 1 .. n /\ s[i] = q[i - m]
      BY <1>1, <1>s, <2>2
    <3>2. q[i - m] = via + (i - m)
      BY <1>3, <3>1
    <3> QED
      BY <1>1, <3>1, <3>2
  <2> QED
    BY <1>1, <2>1, <2>2
<1> HIDE DEF s
<1>6. s = [i \in 1 .. m + n |-> from + i]
  <2>1. s = [i \in 1 .. Len(s) |-> s[i]]
    BY <1>4
  <2> QED
    BY <1>4, <1>5, <2>1
<1>7. Nibbles(from, to) = [i \in 1 .. m + n |-> from + i]
  BY <1>1 DEF Nibbles
<1> QED
  BY <1>6, <1>7 DEF s, p, q

LEMMA NoNibbles ==
    ASSUME NEW from \in Nat, NEW to \in Nat, to <= from PROVE Nibbles(from, to) = <<>>
  BY DEF Nibbles

LEMMA NibblesType ==
    ASSUME NEW from \in Nat, NEW to \in Nat PROVE Nibbles(from, to) \in Seq(Nat)
<1>1. CASE to <= from
  <2>1. Nibbles(from, to) = <<>>
    BY <1>1, NoNibbles
  <2> QED
    BY <2>1
<1>2. CASE from < to
  <2> DEFINE n == to - from
  <2>1. n \in Nat
    BY <1>2
  <2>2. Nibbles(from, to) = [i \in 1 .. n |-> from + i]
    BY DEF Nibbles
  <2> HIDE DEF n
  <2> DEFINE s == [i \in 1 .. n |-> from + i]
  <2>3. s = [i \in 1 .. n |-> s[i]] /\ \A i \in 1 .. n : s[i] \in Nat
    BY <2>1
  <2> HIDE DEF s
  <2>4. s \in Seq(Nat)
    BY <2>1, <2>3
  <2>5. s = Nibbles(from, to)
    BY <2>2 DEF s
  <2> QED
    BY <2>4, <2>5
<1> QED
  BY <1>1, <1>2

(* Decoding on to a position keeps the order.                              *)
LEMMA FetchedFacts ==
    ASSUME SoundTyped, DecoderExact(adpcm, sampcnt), adpcm.overSnagged = FALSE, sampcnt >= 0
    PROVE  LET a == Fetched(adpcm, sampcnt \div Fraction)
           IN  a \in Decoder /\ a.overSnagged = FALSE /\ DecoderExact(a, sampcnt)
<1> DEFINE pos == sampcnt \div Fraction
           old == adpcm.last
           snags == old < LoopNibble /\ LoopNibble <= pos
           decoded == adpcm.decoded \o Nibbles(old, pos)
           loop == IF snags THEN adpcm.decoded \o Nibbles(old, LoopNibble) ELSE adpcm.loop
           over == adpcm.overSnagged \/ (snags /\ adpcm.loop # Recovery)
           a == Fetched(adpcm, pos)
<1>1. Fraction \in Nat \ {0} /\ sampcnt \in Int /\ old \in Nat /\ LoopNibble \in Nat
      /\ adpcm.decoded \in Seq(Nat) /\ adpcm.loop \in Seq(Nat)
  BY SoundAssumption DEF SoundTyped, LoopNibble, Decoder
<1>2. pos \in Nat /\ Fraction * pos <= sampcnt /\ \A k \in Int : Fraction * k <= sampcnt => k <= pos
  <2>1. pos \in Int /\ Fraction * pos <= sampcnt /\ \A k \in Int : Fraction * k <= sampcnt => k <= pos
    BY <1>1, SampleOf
  <2>2. 0 <= pos
    BY <1>1, <2>1
  <2> QED
    BY <2>1, <2>2
<1>3. PICK from \in 0 .. 7 : from <= old /\ adpcm.decoded = Nibbles(from, old)
  BY DEF DecodedInOrder, DecoderExact
<1>4. a = [last |-> pos, decoded |-> decoded, loop |-> loop, overSnagged |-> over]
  BY DEF Fetched
<1> HIDE DEF pos, a
<1>5. old <= pos \/ (old = 7 /\ adpcm.decoded = <<>> /\ pos < 7)
  <2>1. CASE sampcnt >= Fraction * old
    <3>1. old \in Int /\ Fraction * old \in Int
      BY <1>1
    <3>2. Fraction * old <= sampcnt
      BY <1>1, <2>1, <3>1
    <3>3. old <= pos
      BY <1>2, <3>1, <3>2, Zenon
    <3> QED
      BY <3>3
  <2>2. CASE old = 7 /\ adpcm.decoded = <<>>
    BY <1>2, <2>2
  <2> QED
    BY <2>1, <2>2 DEF DecoderBehind, DecoderExact
<1>6. \E f \in 0 .. 7 : f <= pos /\ decoded = Nibbles(f, pos)
  <2>1. CASE old <= pos
    <3>1. decoded = Nibbles(from, pos)
      <4>1. from \in Nat
        BY <1>3
      <4> QED
        <5>1. Nibbles(from, old) \o Nibbles(old, pos) = Nibbles(from, pos)
          BY <1>1, <1>2, <1>3, <2>1, <4>1, NibblesJoined, Zenon
        <5> QED
          BY <1>3, <5>1
    <3> QED
      BY <1>1, <1>2, <1>3, <2>1, <3>1
  <2>2. CASE old = 7 /\ adpcm.decoded = <<>> /\ pos < 7
    <3>1. Nibbles(old, pos) = <<>> /\ Nibbles(pos, pos) = <<>>
      BY <1>1, <1>2, <2>2, NoNibbles
    <3>2. decoded = Nibbles(pos, pos)
      BY <2>2, <3>1
    <3>3. pos \in 0 .. 7 /\ pos <= pos
      BY <1>2, <2>2
    <3> QED
      BY <3>2, <3>3
  <2> QED
    BY <1>5, <2>1, <2>2
<1>7. over = FALSE
  BY <1>1 DEF LoopKept, DecoderExact
<1>8. \/ loop = Recovery
      \/ 8 <= LoopNibble /\ LoopNibble <= pos /\ \E f \in 0 .. 7 : loop = Nibbles(f, LoopNibble)
  <2>1. CASE snags
    <3>1. old <= pos
      BY <1>1, <1>2, <1>5, <2>1
    <3>2. loop = Nibbles(from, LoopNibble)
      <4>1. from \in Nat /\ old <= LoopNibble
        BY <1>1, <1>3, <2>1
      <4>2. Nibbles(from, old) \o Nibbles(old, LoopNibble) = Nibbles(from, LoopNibble)
        BY <1>1, <1>3, <4>1, NibblesJoined, Zenon
      <4> QED
        BY <1>3, <2>1, <4>2
    <3>3. adpcm.loop = Recovery /\ 8 <= LoopNibble
      <4>1. adpcm.loop = Recovery
        BY <1>7, <2>1
      <4>2. LoopNibble # 0
        BY <1>1, <2>1
      <4> QED
        BY <1>1, <4>1, <4>2 DEF LoopNibble, SoundTyped
    <3> QED
      BY <2>1, <3>2, <3>3
  <2>2. CASE ~snags
    <3>1. CASE adpcm.loop = Recovery
      BY <2>2, <3>1
    <3>2. CASE adpcm.loop # Recovery
      <4>1. 8 <= LoopNibble /\ LoopNibble <= old
        BY <3>2 DEF LoopKept, DecoderExact
      <4>2. LoopNibble <= pos
        BY <1>1, <1>2, <1>5, <4>1
      <4> QED
        BY <2>2, <3>2, <4>1, <4>2 DEF LoopKept, DecoderExact
    <3> QED
      BY <3>1, <3>2
  <2> QED
    BY <2>1, <2>2
<1>9. decoded \in Seq(Nat) /\ loop \in Seq(Nat)
  <2>1. Nibbles(old, pos) \in Seq(Nat) /\ Nibbles(old, LoopNibble) \in Seq(Nat)
    BY <1>1, <1>2, NibblesType
  <2> QED
    BY <1>1, <2>1
<1> HIDE DEF decoded, loop, over
<1>10. a \in Decoder /\ a.last = pos /\ a.overSnagged = FALSE /\ a.decoded = decoded /\ a.loop = loop
  BY <1>2, <1>4, <1>7, <1>9 DEF Decoder
<1> QED
  <2>1. DecodedInOrder(a) /\ LoopKept(a)
    BY <1>6, <1>8, <1>10 DEF DecodedInOrder, LoopKept
  <2>2. DecoderBehind(a, sampcnt)
    BY <1>1, <1>2, <1>10 DEF DecoderBehind
  <2> QED
    BY <1>10, <2>1, <2>2 DEF DecoderExact, a, pos

-----------------------------------------------------------------------------
(* After the header was read.                                              *)
LEMMA AtHeader ==
    ASSUME NEW a \in Decoder, NEW b \in Decoder, b.last = 7, b.decoded = <<>>, b.loop = Recovery,
           NEW cnt
    PROVE  DecoderExact(b, cnt)
<1>1. Nibbles(7, 7) = <<>>
  BY NoNibbles
<1> QED
  BY <1>1 DEF DecoderExact, DecodedInOrder, DecoderBehind, LoopKept

(* Setting a field of the decoder.                                         *)
LEMMA SetLast == ASSUME NEW a \in Decoder, NEW v \in Nat PROVE [a EXCEPT !.last = v] \in Decoder
  BY DEF Decoder
LEMMA SetDecoded == ASSUME NEW a \in Decoder, NEW v \in Seq(Nat) PROVE [a EXCEPT !.decoded = v] \in Decoder
  BY DEF Decoder
LEMMA SetLoop == ASSUME NEW a \in Decoder, NEW v \in Seq(Nat) PROVE [a EXCEPT !.loop = v] \in Decoder
  BY DEF Decoder

LEMMA SetKept ==
    ASSUME NEW a \in Decoder, NEW t \in Seq(Nat), NEW b, b = [a EXCEPT !.loop = t]
    PROVE  /\ b \in Decoder /\ b.last = a.last /\ b.decoded = a.decoded /\ b.loop = t
           /\ b.overSnagged = a.overSnagged
  BY SetLoop DEF Decoder

LEMMA ShiftType == Shift \in {2, 4, 8} /\ (sound.format = "adpcm" => Shift = 8)
  BY DEF Shift

LEMMA KeyProbeStep ==
    ASSUME SoundInv, KeyProbe, UNCHANGED sound, sampinc' \in Nat \ {0}
    PROVE  SoundInv'
<1> USE DEF SoundInv
<1>1. CASE playing' = FALSE /\ UNCHANGED position
  BY <1>1 DEF position, SoundTyped, Latched
<1>2. CASE UNCHANGED <<playing, position>>
  <2>1. UNCHANGED <<playing, totlength, sampcnt, adpcm, sound>>
    BY <1>2 DEF position
  <2>2. SoundTyped'
    BY <2>1 DEF SoundTyped
  <2>3. Latched'
    BY <2>1 DEF Latched, SoundEnd, Shift
  <2>4. (sound.format = "adpcm" /\ playing => DecoderExact(adpcm, sampcnt))'
    BY <2>1 DEF DecoderExact, DecodedInOrder, DecoderBehind, LoopKept, Nibbles, LoopNibble, Recovery
  <2> QED
    BY <2>1, <2>2, <2>3, <2>4
<1>3. CASE KeyOn
  <2>1. /\ sound.length \in Nat /\ sound.loopstart \in Nat /\ Fraction \in Nat \ {0}
        /\ adpcm \in Decoder /\ Recovery \in Seq(Nat)
    BY SoundAssumption DEF SoundTyped, Recovery
  <2>2. /\ totlength' = sound.length + sound.loopstart /\ sampcnt' = -3 * Fraction
        /\ playing' = (totlength' > 0)
        /\ adpcm' = IF sound.format = "adpcm" THEN Header(adpcm) ELSE adpcm
    BY <1>3 DEF KeyOn
  <2>3. adpcm' \in Decoder /\ adpcm'.overSnagged = FALSE
        /\ (sound.format = "adpcm" => adpcm'.last = 7 /\ adpcm'.decoded = <<>> /\ adpcm'.loop = Recovery)
    <3>1. CASE sound.format # "adpcm"
      BY <2>1, <2>2, <3>1
    <3>2. CASE sound.format = "adpcm"
      <4> DEFINE a == [adpcm EXCEPT !.last = 7, !.decoded = <<>>]
      <4>1. 7 \in Nat /\ <<>> \in Seq(Nat)
        OBVIOUS
      <4>e. a = [[adpcm EXCEPT !.last = 7] EXCEPT !.decoded = <<>>]
        BY <2>1 DEF Decoder
      <4> HIDE DEF a
      <4>2. /\ a \in Decoder /\ a.last = 7 /\ a.decoded = <<>> /\ a.loop = adpcm.loop
            /\ a.overSnagged = adpcm.overSnagged
        <5>1. [adpcm EXCEPT !.last = 7] \in Decoder
          BY <2>1, <4>1, SetLast, Zenon
        <5>2. [[adpcm EXCEPT !.last = 7] EXCEPT !.decoded = <<>>] \in Decoder
          BY <4>1, <5>1, SetDecoded, Zenon
        <5> QED
          BY <2>1, <4>e, <5>2 DEF Decoder
      <4>3. adpcm' = [a EXCEPT !.loop = Recovery]
        BY <2>1, <2>2, <3>2 DEF Header, Decoder, a
      <4> QED
        BY <2>1, <4>2, <4>3, SetKept
    <3> QED
      BY <3>1, <3>2
  <2>4. totlength' \in Nat /\ sampcnt' \in Int /\ sampcnt' <= 0
    BY <2>1, <2>2
  <2>5. SoundTyped'
    BY <2>2, <2>3, <2>4 DEF SoundTyped
  <2>6. Latched'
    <3>1. Shift' \in Nat
      BY ShiftType DEF Shift
    <3>2. totlength' * Shift' \in Nat
      BY <2>4, <3>1, ProductNat
    <3>3. (totlength' * Shift') * Fraction \in Nat
      BY <2>1, <3>2, ProductNat
    <3>4. SoundEnd' \in Nat
      BY <3>3 DEF SoundEnd
    <3> HIDE DEF SoundInv
    <3>5. sampcnt' <= SoundEnd'
      BY <2>4, <3>4
    <3> QED
      BY <2>2, <3>5 DEF Latched
  <2>7. (sound.format = "adpcm" => DecoderExact(adpcm, sampcnt))'
    <3>1. SUFFICES ASSUME sound.format = "adpcm" PROVE DecoderExact(adpcm, sampcnt)'
      OBVIOUS
    <3>2. DecoderExact(adpcm', sampcnt')
      BY <2>3, <3>1, AtHeader
    <3> QED
      BY <3>2 DEF DecoderExact, DecodedInOrder, DecoderBehind, LoopKept, Nibbles, LoopNibble, Recovery
  <2> QED
    BY <2>3, <2>5, <2>6, <2>7
<1> QED
  BY <1>1, <1>2, <1>3 DEF KeyProbe

(* Where a channel goes on after a loop or, without one, ends.             *)
LEMMA MixSampleStep ==
    ASSUME SoundInv, MixSample PROVE SoundInv'
<1> DEFINE pos     == sampcnt \div Fraction
           next    == IF Hangs THEN sampcnt ELSE sampcnt + sampinc
           over    == ~Hangs /\ next > SoundEnd
           fetched == IF sound.format = "adpcm" /\ sampcnt >= 0 /\ pos # adpcm.last
                        THEN Fetched(adpcm, pos) ELSE adpcm
<1>1. /\ playing /\ UNCHANGED <<masteren, keyon, repeat, sound, sampinc, totlength>>
      /\ sampcnt' = IF over /\ Loops THEN Back(next) ELSE next
      /\ adpcm' = IF over /\ Loops /\ sound.format = "adpcm" THEN Restored(fetched) ELSE fetched
      /\ playing' = (over => Loops)
  BY DEF MixSample, settings
<1>2. /\ SoundTyped /\ adpcm.overSnagged = FALSE /\ totlength = sound.length + sound.loopstart
      /\ totlength > 0 /\ sampcnt <= SoundEnd
      /\ sound.format = "adpcm" => DecoderExact(adpcm, sampcnt)
  BY <1>1 DEF SoundInv, Latched
<1>3. /\ Fraction \in Nat \ {0} /\ Shift \in Nat \ {0} /\ sound.length \in Nat \ {0}
      /\ sound.loopstart \in Nat /\ sampcnt \in Int /\ sampinc \in Nat /\ adpcm \in Decoder
  BY <1>2, ShiftType, SoundAssumption DEF SoundTyped
<1> DEFINE unit == Shift * Fraction
<1>4. unit \in Nat \ {0}
  BY <1>3
<1>5. /\ LoopLength = sound.length * unit /\ SoundEnd = totlength * unit
      /\ LoopLength \in Nat \ {0} /\ SoundEnd \in Nat
      /\ SoundEnd - LoopLength = sound.loopstart * unit
  <2>1. LoopLength = sound.length * unit /\ SoundEnd = totlength * unit
    BY <1>2, <1>3 DEF LoopLength, SoundEnd
  <2> HIDE DEF unit
  <2>2. sound.length * unit \in Nat \ {0} /\ totlength * unit \in Nat
    BY <1>2, <1>3, <1>4
  <2>3. totlength * unit - sound.length * unit = sound.loopstart * unit
    BY <1>2, <1>3, <1>4
  <2> QED
    BY <2>1, <2>2, <2>3
<1>6. next \in Int /\ next >= sampcnt /\ (~over => next <= SoundEnd)
  BY <1>2, <1>3, <1>5
<1> HIDE DEF next
<1>7. over => /\ Back(next) \in Int /\ Back(next) <= SoundEnd
              /\ Back(next) > sound.loopstart * unit
  <2>1. over => next > SoundEnd
    OBVIOUS
  <2>2. sound.loopstart * unit = SoundEnd - LoopLength
    BY <1>5
  <2> DEFINE end == SoundEnd
             len == LoopLength
  <2>3. end \in Int /\ len \in Nat \ {0}
    BY <1>5
  <2>4. Back(next) = next - len * ((next - end + len - 1) \div len)
    BY DEF Back
  <2> HIDE DEF unit, over, end, len
  <2>5. ASSUME next > end
        PROVE  LET y == next - len * ((next - end + len - 1) \div len)
               IN  y \in Int /\ y <= end /\ y > end - len
    BY <1>6, <2>3, <2>5, BackInLoop
  <2> QED
    BY <2>1, <2>2, <2>4, <2>5 DEF end, len
<1>8. fetched \in Decoder /\ fetched.overSnagged = FALSE
      /\ (sound.format = "adpcm" => DecoderExact(fetched, sampcnt))
  <2>1. CASE sound.format = "adpcm" /\ sampcnt >= 0 /\ pos # adpcm.last
    BY <1>2, <2>1, FetchedFacts
  <2>2. CASE ~(sound.format = "adpcm" /\ sampcnt >= 0 /\ pos # adpcm.last)
    BY <1>2, <1>3, <2>2
  <2> QED
    BY <2>1, <2>2
<1> HIDE DEF fetched
<1>9. sound.format = "adpcm" => DecoderExact(fetched, next)
  <2>1. fetched.last \in Nat
    BY <1>8 DEF Decoder
  <2>2. Fraction * fetched.last \in Nat
    BY <1>3, <2>1, ProductNat
  <2> QED
    BY <1>3, <1>6, <1>8, <2>2 DEF DecoderExact, DecoderBehind
<1> HIDE DEF over
<1>10. ASSUME over, Loops, sound.format = "adpcm"
       PROVE  /\ Restored(fetched) \in Decoder /\ Restored(fetched).overSnagged = FALSE
              /\ DecoderExact(Restored(fetched), Back(next))
  <2> DEFINE a == Restored(fetched)
  <2>1. CASE fetched.loop = Recovery
    <3>1. a = [[fetched EXCEPT !.last = 7] EXCEPT !.decoded = <<>>]
      BY <1>8, <2>1 DEF Restored, Decoder
    <3>2. 7 \in Nat /\ <<>> \in Seq(Nat)
      OBVIOUS
    <3> HIDE DEF a
    <3>3. /\ a \in Decoder /\ a.last = 7 /\ a.decoded = <<>> /\ a.loop = fetched.loop
          /\ a.overSnagged = fetched.overSnagged
      <4>1. [fetched EXCEPT !.last = 7] \in Decoder
        BY <1>8, <3>2, SetLast, Zenon
      <4>2. [[fetched EXCEPT !.last = 7] EXCEPT !.decoded = <<>>] \in Decoder
        BY <3>2, <4>1, SetDecoded, Zenon
      <4> QED
        BY <1>8, <3>1, <4>2 DEF Decoder
    <3>4. DecoderExact(a, Back(next))
      BY <2>1, <3>3, AtHeader
    <3> QED
      BY <1>8, <3>3, <3>4 DEF a
  <2>2. CASE fetched.loop # Recovery
    <3>1. a = [[fetched EXCEPT !.last = LoopNibble] EXCEPT !.decoded = fetched.loop]
      BY <1>8, <2>2 DEF Restored, Decoder
    <3>2. 8 <= LoopNibble /\ \E from \in 0 .. 7 : fetched.loop = Nibbles(from, LoopNibble)
      BY <1>8, <1>10, <2>2 DEF DecoderExact, LoopKept
    <3>3. LoopNibble \in Nat /\ fetched.loop \in Seq(Nat)
      BY <1>3, <1>8 DEF LoopNibble, Decoder
    <3> HIDE DEF a
    <3>4. /\ a \in Decoder /\ a.last = LoopNibble /\ a.decoded = fetched.loop
          /\ a.loop = fetched.loop /\ a.overSnagged = fetched.overSnagged
      <4>1. [fetched EXCEPT !.last = LoopNibble] \in Decoder
        BY <1>8, <3>3, SetLast, Zenon
      <4>2. [[fetched EXCEPT !.last = LoopNibble] EXCEPT !.decoded = fetched.loop] \in Decoder
        BY <3>3, <4>1, SetDecoded, Zenon
      <4> QED
        BY <1>8, <3>1, <4>2 DEF Decoder
    <3>5. DecodedInOrder(a) /\ LoopKept(a)
      BY <3>2, <3>3, <3>4 DEF DecodedInOrder, LoopKept
    <3>6. sound.loopstart * unit = Fraction * LoopNibble
      BY <1>3, <1>10, ShiftType DEF LoopNibble
    <3>7. DecoderBehind(a, Back(next))
      <4>1. Fraction * LoopNibble \in Nat
        BY <1>3, <3>3, ProductNat
      <4> HIDE DEF unit
      <4> QED
        BY <1>7, <1>10, <3>4, <3>6, <4>1 DEF DecoderBehind
    <3> QED
      BY <1>8, <3>4, <3>5, <3>7 DEF a, DecoderExact
  <2> QED
    BY <2>1, <2>2
<1>11. /\ adpcm' \in Decoder /\ adpcm'.overSnagged = FALSE /\ sampcnt' \in Int
       /\ (playing' => sampcnt' <= SoundEnd)
       /\ (sound.format = "adpcm" /\ playing' => DecoderExact(adpcm', sampcnt'))
  <2>1. CASE over /\ Loops
    <3>1. CASE sound.format = "adpcm"
      BY <1>1, <1>7, <1>10, <2>1, <3>1
    <3>2. CASE sound.format # "adpcm"
      BY <1>1, <1>7, <1>8, <2>1, <3>2
    <3> QED
      BY <3>1, <3>2
  <2>2. CASE ~(over /\ Loops)
    <3>1. sampcnt' = next /\ adpcm' = fetched
      BY <1>1, <2>2
    <3>2. playing' => ~over
      BY <1>1, <2>2
    <3> QED
      BY <1>6, <1>8, <1>9, <3>1, <3>2 DEF over
  <2> QED
    BY <2>1, <2>2
<1>12. SoundTyped'
  <2>1. playing' \in BOOLEAN
    BY <1>1
  <2> QED
    BY <1>1, <1>2, <1>11, <2>1 DEF SoundTyped
<1>13. Latched'
  <2>1. SoundEnd' = SoundEnd
    BY <1>1 DEF SoundEnd, Shift
  <2> QED
    BY <1>1, <1>2, <1>11, <2>1 DEF Latched
<1>14. (sound.format = "adpcm" /\ playing => DecoderExact(adpcm, sampcnt))'
  <2>1. sound.format = "adpcm" /\ playing' => DecoderExact(adpcm', sampcnt')
    BY <1>11
  <2> QED
    BY <1>1, <2>1
       DEF DecoderExact, DecodedInOrder, DecoderBehind, LoopKept, Nibbles, LoopNibble, Recovery
<1> QED
  BY <1>11, <1>12, <1>13, <1>14 DEF SoundInv

LEMMA SaveAndLoadStep ==
    ASSUME SoundInv, SaveAndLoad PROVE SoundInv'
<1>1. /\ totlength' = sound.length + sound.loopstart /\ UNCHANGED <<sound, sampinc, playing, sampcnt>>
      /\ adpcm' = [adpcm EXCEPT !.loop = Recovery] /\ adpcm \in Decoder /\ SoundTyped
      /\ adpcm.overSnagged = FALSE
  BY DEF SaveAndLoad, settings, SoundInv, SoundTyped
<1>2. Recovery \in Seq(Nat)
  BY DEF Recovery
<1>3. /\ adpcm' \in Decoder /\ adpcm'.last = adpcm.last /\ adpcm'.decoded = adpcm.decoded
      /\ adpcm'.loop = Recovery /\ adpcm'.overSnagged = adpcm.overSnagged
  BY <1>1, <1>2, SetKept
<1>4. SoundTyped'
  BY <1>1, <1>3 DEF SoundTyped
<1>5. Latched'
  <2>1. CASE playing
    <3>1. totlength' = totlength
      BY <1>1, <2>1 DEF SoundInv, Latched
    <3> QED
      BY <1>1, <3>1 DEF SoundInv, Latched, SoundEnd, Shift
  <2>2. CASE ~playing
    BY <1>1, <2>2 DEF Latched
  <2> QED
    BY <2>1, <2>2
<1>6. (sound.format = "adpcm" /\ playing => DecoderExact(adpcm, sampcnt))'
  BY <1>1, <1>3 DEF SoundInv, DecoderExact, DecodedInOrder, DecoderBehind, LoopKept, Nibbles, LoopNibble, Recovery
<1> QED
  BY <1>1, <1>3, <1>4, <1>5, <1>6 DEF SoundInv

(* The latched length, the position, and what the decoder has decoded fit  *)
(* together, however software and the mixer follow each other.             *)
THEOREM SoundInvariance == SoundSpec => []SoundInv
<1>1. SoundInit => SoundInv
  <2> SUFFICES ASSUME SoundInit PROVE SoundInv
    OBVIOUS
  <2>1. adpcm \in Decoder /\ adpcm.overSnagged = FALSE
    BY DEF SoundInit, Decoder
  <2>2. /\ playing = FALSE /\ sound.format = "pcm8" /\ sound.length = 0 /\ sound.loopstart = 0
        /\ sampinc \in Rates /\ totlength = 0 /\ sampcnt = 0
    BY DEF SoundInit
  <2>3. sampinc \in Nat \ {0} /\ playing \in BOOLEAN
    BY <2>2, SoundAssumption
  <2>4. SoundTyped
    <3>1. sound.format = "pcm8" /\ sound.length = 0 /\ sound.loopstart = 0 /\ totlength = 0 /\ sampcnt = 0
      BY <2>2
    <3> QED
      BY <2>1, <2>3, <3>1 DEF SoundTyped
  <2> QED
    BY <2>1, <2>2, <2>4 DEF SoundInv, Latched
<1>2. SoundInv /\ [SoundNext]_soundVars => SoundInv'
  <2> SUFFICES ASSUME SoundInv, [SoundNext]_soundVars PROVE SoundInv'
    OBVIOUS
  <2>0. sampinc \in Nat \ {0} /\ playing \in BOOLEAN
    BY DEF SoundInv, SoundTyped
  <2>1. CASE WriteControl
    BY <2>0, <2>1, KeyProbeStep DEF WriteControl
  <2>2. CASE WriteSoundcnt
    BY <2>0, <2>2, KeyProbeStep DEF WriteSoundcnt
  <2>3. CASE WriteSound
    <3>1. /\ ~playing /\ sound' \in Sounds
          /\ UNCHANGED <<sampinc, playing, totlength, sampcnt, adpcm>>
      BY <2>3 DEF WriteSound, position
    <3>2. SoundTyped'
      BY <3>1, SoundAssumption DEF SoundInv, SoundTyped
    <3> QED
      BY <3>1, <3>2 DEF SoundInv, Latched
  <2>4. CASE WriteTimer
    <3>1. sampinc' \in Nat \ {0} /\ UNCHANGED <<sound, playing, totlength, sampcnt, adpcm>>
      BY <2>4, SoundAssumption DEF WriteTimer, position
    <3> QED
      BY <3>1 DEF SoundInv, SoundTyped, Latched, SoundEnd, Shift, DecoderExact, DecodedInOrder,
                  DecoderBehind, LoopKept, Nibbles, LoopNibble, Recovery
  <2>5. CASE MixSample
    BY <2>5, MixSampleStep
  <2>6. CASE SaveAndLoad
    BY <2>6, SaveAndLoadStep
  <2>7. CASE SoundReset
    <3>1. /\ playing' = FALSE /\ sound' = [format |-> "pcm8", length |-> 0, loopstart |-> 0]
          /\ sampinc' \in Rates /\ totlength' = 0 /\ sampcnt' = 0
          /\ adpcm' = [last |-> 0, decoded |-> <<>>, loop |-> <<>>, overSnagged |-> FALSE]
      BY <2>7 DEF SoundReset
    <3>2. adpcm' \in Decoder /\ adpcm'.overSnagged = FALSE
      BY <3>1 DEF Decoder
    <3>3. sampinc' \in Nat \ {0}
      BY <3>1, SoundAssumption
    <3>4. /\ sound'.format = "pcm8" /\ sound'.length = 0 /\ sound'.loopstart = 0
          /\ totlength' = 0 /\ sampcnt' = 0
      BY <3>1
    <3>5. playing' \in BOOLEAN
      BY <3>1
    <3>6. SoundTyped'
      BY <3>2, <3>3, <3>4, <3>5 DEF SoundTyped
    <3> QED
      BY <3>1, <3>2, <3>6 DEF SoundInv, Latched
  <2>8. CASE UNCHANGED soundVars
    <3>1. UNCHANGED <<sound, sampinc, playing, totlength, sampcnt, adpcm>>
      BY <2>8 DEF soundVars, settings, position
    <3> QED
      BY <3>1 DEF SoundInv, SoundTyped, Latched, SoundEnd, Shift, DecoderExact, DecodedInOrder,
                  DecoderBehind, LoopKept, Nibbles, LoopNibble, Recovery
  <2> QED
    BY <2>1, <2>2, <2>3, <2>4, <2>5, <2>6, <2>7, <2>8 DEF SoundNext
<1> QED
  BY <1>1, <1>2, PTL DEF SoundSpec

(* A playing channel never reads far behind its end, and its decoder has   *)
(* decoded the nibbles behind the header up to its place, once and in      *)
(* order, and before them some of the header, for all sounds, rates, loops *)
(* and loaded states (SPU_MixAudio, SPU.cpp).                              *)
THEOREM SoundsInOrder == SoundSpec => []PlaysInOrder
<1>1. SoundInv => PlaysInOrder
  BY DEF SoundInv, Latched, DecoderExact, DecodedInOrder, PlaysInOrder
<1> QED
  BY <1>1, SoundInvariance, PTL

-----------------------------------------------------------------------------
(* What the driver, the clock and the transfers so far are.                *)
Drivers == [phase : {"away", "begin", "command", "data", "end"}, step : Nat, register : 0 .. 7,
            read : BOOLEAN, codeFirst : BOOLEAN, byte : SUBSET (0 .. 7), since : Nat]
KeptBytes == [{0, 1, 6, 7} -> SUBSET (0 .. 7)]

LEMMA PhaseSet ==
    ASSUME NEW d \in Drivers, NEW phase \in {"away", "begin", "command", "data", "end"}
    PROVE  /\ [d EXCEPT !.phase = phase] \in Drivers
           /\ [d EXCEPT !.phase = phase] = [phase |-> phase, step |-> d.step, register |-> d.register,
                 read |-> d.read, codeFirst |-> d.codeFirst, byte |-> d.byte, since |-> d.since]
  BY DEF Drivers

LEMMA StepSet ==
    ASSUME NEW d \in Drivers, NEW step \in Nat
    PROVE  /\ [d EXCEPT !.step = step] \in Drivers
           /\ [d EXCEPT !.step = step] = [phase |-> d.phase, step |-> step, register |-> d.register,
                 read |-> d.read, codeFirst |-> d.codeFirst, byte |-> d.byte, since |-> d.since]
  BY DEF Drivers

(* The sizes are whole bytes, and at most seven of them.                   *)
LEMMA Sizes ==
    ASSUME NEW r \in 0 .. 7, NEW status2
    PROVE  BitsSize(r, AlarmSize(status2)) \in {8, 24, 56}
  BY DEF BitsSize, AlarmSize

(* The bytes of the time and the date.                                     *)
LEMMA TimeOfSeven ==
    ASSUME NEW m, NEW status1
    PROVE  /\ TimeBytes(m, status1) \in Seq(SUBSET (0 .. 7)) /\ Len(TimeBytes(m, status1)) = 3
           /\ DateBytes(m, status1) \in Seq(SUBSET (0 .. 7)) /\ Len(DateBytes(m, status1)) = 7
<1> DEFINE day == <<toBCD(m.year % 100), toBCD(m.month), toBCD(m.day), Byte(m.weekday)>>
<1>1. \A x : toBCD(x) \in SUBSET (0 .. 7) /\ Byte(x) \in SUBSET (0 .. 7)
  BY DEF toBCD, Byte
<1>2. HourByte(m.hour, status1) \in SUBSET (0 .. 7)
  BY <1>1 DEF HourByte
<1>3. TimeBytes(m, status1) \in Seq(SUBSET (0 .. 7)) /\ Len(TimeBytes(m, status1)) = 3
  BY <1>1, <1>2 DEF TimeBytes
<1>4. day \in Seq(SUBSET (0 .. 7)) /\ Len(day) = 4
  BY <1>1
<1>5. DateBytes(m, status1) = day \o TimeBytes(m, status1)
  BY DEF DateBytes
<1> DEFINE time == TimeBytes(m, status1)
<1> HIDE DEF day, time
<1>6. time \in Seq(SUBSET (0 .. 7)) /\ Len(time) = 3
  BY <1>3 DEF time
<1>7. day \o time \in Seq(SUBSET (0 .. 7)) /\ Len(day \o time) = 7
  <2>1. day \o time \in Seq(SUBSET (0 .. 7)) /\ Len(day \o time) = Len(day) + Len(time)
    BY <1>4, <1>6, ConcatProperties, Zenon
  <2> QED
    BY <1>4, <1>6, <2>1
<1> QED
  BY <1>3, <1>5, <1>7 DEF time

(* A register is read as bytes, as many of them as its size.               *)
LEMMA AnswerFits ==
    ASSUME NEW regs \in KeptBytes, NEW r \in 0 .. 7, NEW m, NEW status2, NEW i \in 0 .. 7
    PROVE  /\ Answer(regs, r, m)[i] \in SUBSET (0 .. 7)
           /\ 8 * i >= BitsSize(r, AlarmSize(status2)) => Answer(regs, r, m)[i] = {}
<1> DEFINE bytes == CASE r \in DOMAIN regs -> <<StatusRead(regs, r)[r]>>
                      [] r = 2 -> DateBytes(m, regs[0])
                      [] r = 3 -> TimeBytes(m, regs[0])
                      [] OTHER -> <<>>
<1>1. Answer(regs, r, m)[i] = IF i < Len(bytes) THEN bytes[i + 1] ELSE {}
  BY DEF Answer
<1>2. bytes \in Seq(SUBSET (0 .. 7)) /\ 8 * Len(bytes) <= BitsSize(r, AlarmSize(status2))
  <2>0. DOMAIN regs = {0, 1, 6, 7}
    BY DEF KeptBytes
  <2>1. CASE r \in DOMAIN regs
    <3>1. StatusRead(regs, r)[r] \in SUBSET (0 .. 7)
      BY <2>0, <2>1 DEF StatusRead, KeptBytes
    <3>2. bytes = <<StatusRead(regs, r)[r]>>
      BY <2>0, <2>1
    <3>3. BitsSize(r, AlarmSize(status2)) = 8
      BY <2>0, <2>1 DEF BitsSize
    <3> HIDE DEF bytes
    <3> QED
      BY <3>1, <3>2, <3>3
  <2>2. CASE r = 2
    <3>1. bytes = DateBytes(m, regs[0])
      BY <2>0, <2>2
    <3>2. BitsSize(r, AlarmSize(status2)) = 56
      BY <2>2 DEF BitsSize
    <3> HIDE DEF bytes
    <3>3. bytes \in Seq(SUBSET (0 .. 7)) /\ Len(bytes) = 7
      BY <3>1, TimeOfSeven
    <3> QED
      BY <3>2, <3>3
  <2>3. CASE r = 3
    <3>1. bytes = TimeBytes(m, regs[0])
      BY <2>0, <2>3
    <3>2. BitsSize(r, AlarmSize(status2)) = 24
      BY <2>3 DEF BitsSize
    <3> HIDE DEF bytes
    <3>3. bytes \in Seq(SUBSET (0 .. 7)) /\ Len(bytes) = 3
      BY <3>1, TimeOfSeven
    <3> QED
      BY <3>2, <3>3
  <2>4. CASE r \in {4, 5}
    <3>1. bytes = <<>>
      BY <2>0, <2>4
    <3>2. BitsSize(r, AlarmSize(status2)) \in {8, 24}
      BY <2>4 DEF BitsSize, AlarmSize
    <3> HIDE DEF bytes
    <3> QED
      BY <3>1, <3>2
  <2> QED
    BY <2>0, <2>1, <2>2, <2>3, <2>4
<1> HIDE DEF bytes
<1>3. Len(bytes) \in Nat /\ (i < Len(bytes) => bytes[i + 1] \in SUBSET (0 .. 7))
  BY <1>2, LenProperties
<1>4. BitsSize(r, AlarmSize(status2)) \in {8, 24, 56}
  BY Sizes
<1> QED
  BY <1>1, <1>2, <1>3, <1>4

(* The command byte says what the driver wants, in either order of bits;   *)
(* the command that writes register 3 reads the same in both.              *)
LEMMA CommandDecoded ==
    ASSUME driver \in Drivers
    PROVE  /\ CommandWire \in SUBSET (0 .. 7)
           /\ Register(CommandByte(CommandWire)) = driver.register
           /\ Reads(CommandByte(CommandWire)) <=> driver.read
<1> DEFINE r == driver.register
           one(b) == (r \div b) % 2 = 1
           c == CommandByte(CommandWire)
<1>1. r \in 0 .. 7
  BY DEF Drivers
<1>2. r = (IF one(1) THEN 1 ELSE 0) + (IF one(2) THEN 2 ELSE 0) + (IF one(4) THEN 4 ELSE 0)
  BY <1>1
<1>3. /\ CommandWire \in SUBSET (0 .. 7)
      /\ 1 \in c <=> one(1)
      /\ 2 \in c <=> one(2)
      /\ 3 \in c <=> one(4)
      /\ 0 \in c <=> driver.read
  <2>1. CASE driver.codeFirst
    <3>1. \A b \in 0 .. 7 : b \in CommandWire <=>
             \/ b \in {1, 2}
             \/ b = 4 /\ one(4)
             \/ b = 5 /\ one(2)
             \/ b = 6 /\ one(1)
             \/ b = 7 /\ driver.read
      BY <2>1 DEF CommandWire, When
    <3>2. CommandWire \in SUBSET (0 .. 7)
      BY <2>1 DEF CommandWire, When
    <3>3. CommandWire \cap 0 .. 3 = {1, 2}
      <4>1. \A b \in 0 .. 3 : b \in CommandWire <=> b \in {1, 2}
        BY <3>1
      <4> QED
        BY <4>1
    <3>4. c = {7 - b : b \in CommandWire \cap 4 .. 7}
      BY <3>3 DEF CommandByte
    <3>5. \A a \in 0 .. 3 : a \in c <=> 7 - a \in CommandWire
      BY <3>4
    <3> QED
      BY <3>1, <3>2, <3>5
  <2>2. CASE ~driver.codeFirst
    <3>1. \A b \in 0 .. 7 : b \in CommandWire <=>
             \/ b = 0 /\ driver.read
             \/ b = 1 /\ one(1)
             \/ b = 2 /\ one(2)
             \/ b = 3 /\ one(4)
             \/ b \in {5, 6}
      BY <2>2 DEF CommandWire, When
    <3>2. CommandWire \in SUBSET (0 .. 7)
      BY <2>2 DEF CommandWire, When
    <3>3. CASE CommandWire \cap 0 .. 3 = {1, 2}
      <4>1. ~driver.read /\ one(1) /\ one(2) /\ ~one(4)
        BY <3>1, <3>3
      <4>2. c = {7 - b : b \in CommandWire \cap 4 .. 7}
        BY <3>3 DEF CommandByte
      <4>3. \A a \in 0 .. 3 : a \in c <=> 7 - a \in CommandWire
        BY <4>2
      <4> QED
        BY <3>1, <3>2, <4>1, <4>3
    <3>4. CASE CommandWire \cap 0 .. 3 # {1, 2}
      <4>1. c = CommandWire \cap 0 .. 3
        BY <3>4 DEF CommandByte
      <4> QED
        BY <3>1, <3>2, <4>1
    <3> QED
      BY <3>3, <3>4
  <2> QED
    BY <2>1, <2>2
<1> HIDE DEF c
<1> QED
  BY <1>1, <1>2, <1>3 DEF Register, Reads, c

-----------------------------------------------------------------------------
(* The bits of a byte that come among the first n of all.                  *)
Before(set, i, n) == {b \in set : 8 * i + b < n}

LEMMA BeforeNext ==
    ASSUME NEW set \in SUBSET (0 .. 7), NEW i \in 0 .. 7, NEW n \in Nat
    PROVE  Before(set, i, n + 1) =
             IF i = n \div 8 /\ n % 8 \in set THEN Before(set, i, n) \cup {n % 8} ELSE Before(set, i, n)
<1>1. \A b \in 0 .. 7 : 8 * i + b = n <=> i = n \div 8 /\ b = n % 8
  OBVIOUS
<1>2. \A b \in 0 .. 7 : 8 * i + b < n + 1 <=> 8 * i + b < n \/ 8 * i + b = n
  OBVIOUS
<1>3. n % 8 \in 0 .. 7
  OBVIOUS
<1> QED
  BY <1>1, <1>2, <1>3 DEF Before

LEMMA BeforeWhole ==
    ASSUME NEW set \in SUBSET (0 .. 7), NEW i \in 0 .. 7, NEW n \in {8, 24, 56}
    PROVE  Before(set, i, n) = IF 8 * i < n THEN set ELSE {}
<1>1. \A b \in 0 .. 7 : 8 * i + b < n <=> 8 * i < n
  OBVIOUS
<1>2. \A b : b \in set => b \in 0 .. 7
  OBVIOUS
<1> QED
  BY <1>1, <1>2 DEF Before

LEMMA BeforeNone ==
    ASSUME NEW set \in SUBSET (0 .. 7), NEW i \in 0 .. 7
    PROVE  Before(set, i, 0) = {}
<1>1. \A b \in 0 .. 7 : ~(8 * i + b < 0)
  OBVIOUS
<1>2. \A b : b \in set => b \in 0 .. 7
  OBVIOUS
<1> QED
  BY <1>1, <1>2 DEF Before

-----------------------------------------------------------------------------
(* The invariant follows the driver.  After n halves of clock cycles the   *)
(* chip has seen Edges falling edges.                                      *)
Edges == (driver.step + 1) \div 2

Kept ==
    /\ driver \in Drivers /\ now \in Nat \ {0} /\ driver.since <= now
    /\ last.registers \in KeptBytes /\ last.data \in Bytes

Untouched == registers = last.registers /\ data = last.data
Ready == cmdStat = "idle" /\ Untouched /\ result = NoBytes
Clocked == wires.cs /\ (wires.sck <=> ~High)

Answered ==
    /\ registers = StatusRead(last.registers, driver.register)
    /\ \E m \in driver.since .. now : data = Answer(last.registers, driver.register, Moments[m])

Written(n) ==
    /\ data = [i \in 0 .. 7 |-> last.data[i] \cup Before(driver.byte, i, n)]
    /\ registers = IF n = Size THEN Sent(last.registers, driver.register, data[0]) ELSE last.registers

(* The chip has the command, and n bits of the data were transferred.      *)
Commanded(n) ==
    /\ cmdStat = IF n = Size THEN "idle" ELSE IF driver.read THEN "read" ELSE "write"
    /\ Register(cmd) = driver.register /\ (Reads(cmd) <=> driver.read)
    /\ BitsSize(driver.register, alarmSize) = Size
    /\ bitsCount = n
    /\ IF driver.read THEN Answered ELSE Written(n)

Commanding ==
    /\ driver.step \in 0 .. 15 /\ result = NoBytes
    /\ IF driver.step = 15 THEN Commanded(0)
       ELSE /\ cmdStat = "command" /\ Untouched
            /\ bitsCount = Edges /\ cmd = {b \in CommandWire : b < Edges}

Received ==
    /\ result = [i \in 0 .. 7 |-> Before(data[i], i, Bit)]
    /\ High => (regSIO <=> Bit % 8 \in data[Bit \div 8])

Transferring ==
    /\ driver.step \in 0 .. 2 * Size - 1
    /\ Commanded(Edges)
    /\ driver.read => Received

Ended ==
    /\ cmdStat = "idle"
    /\ IF driver.read THEN Answered /\ result = data ELSE Written(Size)

RtcInv ==
    /\ Kept
    /\ driver.phase \in {"away", "begin"} => Ready
    /\ driver.phase = "begin" => wires.sck /\ ~wires.cs
    /\ driver.phase \in {"command", "data"} => Clocked
    /\ driver.phase = "command" => Commanding
    /\ driver.phase = "data" => Transferring
    /\ driver.phase = "end" => Ended

-----------------------------------------------------------------------------
(* What the chip does at each kind of write.                               *)
LEMMA Levels ==
    ASSUME NEW high, rtcWrite(Wires(high))
    PROVE  (wires'.sck <=> "SCK" \in high) /\ (wires'.cs <=> "CS" \in high)
  BY DEF rtcWrite, Wires

(* Nothing, at a rising edge ...                                           *)
LEMMA Rises ==
    ASSUME NEW high, rtcWrite(Wires(high)), "SCK" \in high, "CS" \in high, wires.cs, ~wires.sck,
           cmdStat = "command" => "DD" \in high
    PROVE  UNCHANGED <<cmdStat, cmd, bitsCount, data, alarmSize, registers, regSIO>>
  BY DEF rtcWrite, Wires, Select, Deselect, CommandBit, Command, WriteBit, ReadBit, NoEdge

(* ... and when no command runs and the chip is not selected.              *)
LEMMA StaysIdle ==
    ASSUME NEW high, rtcWrite(Wires(high)), "CS" \notin high, cmdStat \in {"idle", "command"}
    PROVE  cmdStat' = "idle" /\ UNCHANGED <<cmd, bitsCount, data, alarmSize, registers, regSIO>>
  BY DEF rtcWrite, Wires, Select, Deselect, CommandBit, Command, WriteBit, ReadBit, NoEdge

LEMMA Selected ==
    ASSUME NEW high, rtcWrite(Wires(high)), "SCK" \in high, "CS" \in high, ~wires.cs, wires.sck,
           cmdStat = "idle"
    PROVE  cmdStat' = "command" /\ bitsCount' = 0 /\ cmd' = {} /\ UNCHANGED <<data, registers>>
  BY DEF rtcWrite, Wires, Select, Deselect, CommandBit, Command, WriteBit, ReadBit, NoEdge

LEMMA BitOfCommand ==
    ASSUME NEW high, rtcWrite(Wires(high)), "SCK" \notin high, "CS" \in high, "DD" \in high,
           cmdStat = "command", bitsCount \in 0 .. 6
    PROVE  /\ cmd' = IF "SIO" \in high THEN cmd \cup {bitsCount} ELSE cmd
           /\ bitsCount' = bitsCount + 1
           /\ UNCHANGED <<cmdStat, data, registers>>
<1>1. CommandBit("SIO" \in high, FALSE, TRUE, TRUE)
  BY DEF rtcWrite, Wires, Select, Deselect, CommandBit, Command, WriteBit, ReadBit, NoEdge
<1> QED
  BY <1>1 DEF CommandBit, CommandBits

LEMMA CommandComplete ==
    ASSUME NEW high, rtcWrite(Wires(high)), "SCK" \notin high, "CS" \in high, "DD" \in high,
           cmdStat = "command", bitsCount = 7, wires.sck
    PROVE  /\ cmd' = CommandByte(IF "SIO" \in high THEN cmd \cup {7} ELSE cmd)
           /\ bitsCount' = 0
           /\ alarmSize' = IF Register(cmd') = 4 THEN AlarmSize(registers[1]) ELSE alarmSize
           /\ cmdStat' = IF Reads(cmd') THEN "read" ELSE "write"
           /\ data' = IF Reads(cmd') THEN Answer(registers, Register(cmd'), Moments[now]) ELSE data
           /\ registers' = IF Reads(cmd') THEN StatusRead(registers, Register(cmd')) ELSE registers
<1>1. Command("SIO" \in high, FALSE, TRUE, TRUE)
  BY DEF rtcWrite, Wires, Select, Deselect, CommandBit, Command, WriteBit, ReadBit, NoEdge
<1> QED
  BY <1>1 DEF Command, CommandBits

LEMMA BitWritten ==
    ASSUME NEW high, rtcWrite(Wires(high)), "SCK" \notin high, "DD" \in high, wires.sck,
           cmdStat = "write"
    PROVE  WriteBit("SIO" \in high, FALSE)
  BY DEF rtcWrite, Wires, Select, Deselect, CommandBit, Command, WriteBit, ReadBit, NoEdge

LEMMA BitRead ==
    ASSUME NEW high, rtcWrite(Wires(high)), "SCK" \notin high, "CS" \in high, wires.sck,
           cmdStat = "read"
    PROVE  ReadBit(FALSE, TRUE)
  BY DEF rtcWrite, Wires, Select, Deselect, CommandBit, Command, WriteBit, ReadBit, NoEdge

(* The driver goes on to its next half cycle, or its next phase.           *)
LEMMA NextHalf ==
    ASSUME driver \in Drivers, NEW bits, NEW next \in {"data", "end"}, Step(bits, next)
    PROVE  /\ driver' \in Drivers
           /\ driver'.register = driver.register /\ driver'.read = driver.read
           /\ driver'.codeFirst = driver.codeFirst
           /\ driver'.byte = driver.byte /\ driver'.since = driver.since
           /\ driver.step + 1 = 2 * bits => driver'.phase = next /\ driver'.step = 0
           /\ driver.step + 1 # 2 * bits => driver'.phase = driver.phase /\ driver'.step = driver.step + 1
<1>1. driver.step + 1 \in Nat
  BY DEF Drivers
<1>2. CASE driver.step + 1 = 2 * bits
  <2> DEFINE d == [driver EXCEPT !.phase = next]
  <2>1. driver' = [d EXCEPT !.step = 0]
    BY <1>2 DEF Step, Enter
  <2>2. d \in Drivers /\ d = [phase |-> next, step |-> driver.step, register |-> driver.register,
                 read |-> driver.read, codeFirst |-> driver.codeFirst, byte |-> driver.byte,
                 since |-> driver.since]
    BY PhaseSet
  <2> HIDE DEF d
  <2>3. driver' \in Drivers /\ driver' = [phase |-> d.phase, step |-> 0, register |-> d.register,
                 read |-> d.read, codeFirst |-> d.codeFirst, byte |-> d.byte, since |-> d.since]
    BY <2>1, <2>2, StepSet
  <2> QED
    BY <1>2, <2>2, <2>3
<1>3. CASE driver.step + 1 # 2 * bits
  <2>1. driver' = [driver EXCEPT !.step = driver.step + 1]
    BY <1>3 DEF Step
  <2>2. driver' \in Drivers /\ driver' = [phase |-> driver.phase, step |-> driver.step + 1,
                 register |-> driver.register, read |-> driver.read, codeFirst |-> driver.codeFirst,
                 byte |-> driver.byte, since |-> driver.since]
    BY <1>1, <2>1, StepSet
  <2> QED
    BY <1>3, <2>2
<1> QED
  BY <1>2, <1>3

(* A driver that is not within a transfer.                                 *)
LEMMA AwayTyped == NoTransfer \in Drivers /\ NoTransfer.phase = "away" /\ NoTransfer.since = 1
  BY DEF NoTransfer, Drivers

LEMMA AnswerTyped ==
    ASSUME Kept, Answered
    PROVE  /\ data = [i \in 0 .. 7 |-> data[i]]
           /\ \A i \in 0 .. 7 : data[i] \in SUBSET (0 .. 7) /\ (8 * i >= Size => data[i] = {})
<1>1. driver.register \in 0 .. 7 /\ last.registers \in KeptBytes
  BY DEF Kept, Drivers
<1>2. PICK m : data = Answer(last.registers, driver.register, Moments[m])
  BY DEF Answered
<1>3. data = [i \in 0 .. 7 |-> data[i]]
  BY <1>2 DEF Answer
<1> QED
  BY <1>1, <1>2, <1>3, AnswerFits DEF Size

LEMMA BeginStep ==
    ASSUME RtcInv, Begin
    PROVE  RtcInv'
<1>1. PICK r \in RtcTransfers, codeFirst \in BOOLEAN, read \in BOOLEAN, byte \in RtcBytes :
        driver' = [phase |-> "begin", step |-> 0, register |-> r, read |-> read,
                   codeFirst |-> codeFirst, byte |-> byte, since |-> now]
  BY DEF Begin
<1>2. r \in 0 .. 7 /\ byte \in SUBSET (0 .. 7) /\ now \in Nat
  BY RtcAssumption DEF RtcInv, Kept
<1>3. driver' \in Drivers /\ driver'.phase = "begin" /\ driver'.since = now
  BY <1>1, <1>2 DEF Drivers
<1>4. rtcWrite(Wires({"SCK", "DD", "SIO"})) /\ UNCHANGED <<now, result, last>>
  BY DEF Begin
<1>5. Ready
  BY DEF Begin, RtcInv
<1>6. cmdStat' = "idle" /\ UNCHANGED <<data, registers>>
  BY <1>4, <1>5, StaysIdle DEF Ready
<1>7. wires'.sck /\ ~wires'.cs
  BY <1>4, Levels
<1>8. Kept'
  BY <1>3, <1>4 DEF RtcInv, Kept
<1>9. Ready'
  BY <1>4, <1>5, <1>6 DEF Ready, Untouched
<1> QED
  BY <1>3, <1>7, <1>8, <1>9 DEF RtcInv

LEMMA SelectStep ==
    ASSUME RtcInv, SelectChip
    PROVE  RtcInv'
<1>1. /\ rtcWrite(Wires({"SCK", "CS", "DD", "SIO"})) /\ UNCHANGED <<now, result, last>>
      /\ Ready /\ wires.sck /\ ~wires.cs /\ Kept
  BY DEF SelectChip, RtcInv
<1>2. cmdStat' = "command" /\ bitsCount' = 0 /\ cmd' = {} /\ UNCHANGED <<data, registers>>
  BY <1>1, Selected DEF Ready
<1>3. wires'.sck /\ wires'.cs
  BY <1>1, Levels
<1> DEFINE d == [driver EXCEPT !.phase = "command"]
<1>4. driver' = [d EXCEPT !.step = 0]
  BY DEF SelectChip, Enter
<1>5. d \in Drivers /\ d = [phase |-> "command", step |-> driver.step, register |-> driver.register,
                 read |-> driver.read, codeFirst |-> driver.codeFirst, byte |-> driver.byte,
                 since |-> driver.since]
  <2>1. driver \in Drivers
    BY <1>1 DEF Kept
  <2> QED
    BY <2>1, PhaseSet
<1> HIDE DEF d
<1>6. driver' \in Drivers /\ driver'.phase = "command" /\ driver'.step = 0
      /\ driver'.since = driver.since
  <2>1. driver' \in Drivers /\ driver' = [phase |-> d.phase, step |-> 0, register |-> d.register,
                 read |-> d.read, codeFirst |-> d.codeFirst, byte |-> d.byte, since |-> d.since]
    BY <1>4, <1>5, StepSet
  <2> QED
    BY <1>5, <2>1
<1>7. Kept'
  BY <1>1, <1>6 DEF Kept
<1>8. Clocked'
  BY <1>3, <1>6 DEF Clocked, High
<1>9. Commanding'
  <2>1. Edges' = 0
    BY <1>6 DEF Edges
  <2>2. cmd' = {b \in CommandWire' : b < Edges'}
    <3>1. CommandWire' \in SUBSET (0 .. 7)
      <4>1. \A b \in CommandWire : b \in 0 .. 7
        BY <1>1 DEF CommandWire, When
      <4> QED
        BY DEF CommandWire, When
    <3>2. \A b \in 0 .. 7 : ~(b < 0)
      OBVIOUS
    <3> QED
      BY <1>2, <2>1, <3>1, <3>2
  <2> QED
    BY <1>1, <1>2, <1>6, <2>1, <2>2 DEF Commanding, Ready, Untouched
<1> QED
  BY <1>6, <1>7, <1>8, <1>9 DEF RtcInv

(* Up to the eighth falling edge the bits arrive; with it the command is   *)
(* complete, and a register to be read is answered.                        *)
LEMMA SendCommandStep ==
    ASSUME RtcInv, SendCommand
    PROVE  RtcInv'
<1> DEFINE high == {"CS", "DD"} \cup When(High, {"SCK"}) \cup When(Bit \in CommandWire, {"SIO"})
<1>1. /\ rtcWrite(Wires(high)) /\ Step(8, "data") /\ UNCHANGED <<now, result, last>>
      /\ driver.phase = "command" /\ Kept /\ Clocked /\ Commanding
  BY DEF SendCommand, RtcInv
<1>2. /\ "CS" \in high /\ "DD" \in high
      /\ "SCK" \in high <=> High
      /\ "SIO" \in high <=> Bit \in CommandWire
  BY DEF When
<1> HIDE DEF high
<1>3. /\ driver' \in Drivers
      /\ driver'.register = driver.register /\ driver'.read = driver.read
      /\ driver'.codeFirst = driver.codeFirst
      /\ driver'.byte = driver.byte /\ driver'.since = driver.since
      /\ driver.step = 15 => driver'.phase = "data" /\ driver'.step = 0
      /\ driver.step # 15 => driver'.phase = "command" /\ driver'.step = driver.step + 1
  <2>1. driver \in Drivers /\ driver.step \in 0 .. 15
    BY <1>1 DEF Kept, Commanding
  <2> QED
    BY <1>1, <2>1, NextHalf
<1>4. Kept'
  BY <1>1, <1>3 DEF Kept
<1>5. /\ CommandWire' = CommandWire /\ Size' = Size /\ Size \in {8, 24, 56}
      /\ driver.step \in 0 .. 15 /\ driver.byte \in SUBSET (0 .. 7) /\ driver.register \in 0 .. 7
  BY <1>1, <1>3, Sizes DEF CommandWire, Size, Kept, Drivers, Commanding
<1>6. Clocked'
  <2>1. High' <=> ~High
    BY <1>3, <1>5 DEF High
  <2>2. wires'.cs /\ (wires'.sck <=> High)
    BY <1>1, <1>2, Levels
  <2> QED
    BY <2>1, <2>2 DEF Clocked
<1>7. CASE driver.step = 15
  <2>1. High /\ ~wires.sck /\ wires.cs /\ cmdStat # "command"
    BY <1>1, <1>7, <1>5 DEF High, Clocked, Commanding, Commanded
  <2>2. UNCHANGED <<cmdStat, cmd, bitsCount, data, alarmSize, registers, regSIO>>
    BY <1>1, <1>2, <2>1, Rises
  <2>3. Commanded(0)'
    BY <1>1, <1>3, <1>5, <1>7, <2>2 DEF Commanding, Commanded, Answered, Written
  <2>4. Edges' = 0 /\ Bit' = 0 /\ ~High'
    BY <1>3, <1>7 DEF Edges, Bit, High
  <2>5. driver.read => \A i \in 0 .. 7 : data[i] \in SUBSET (0 .. 7)
    BY <1>1, <1>7, AnswerTyped DEF Commanding, Commanded
  <2>6. driver.read => Received'
    <3>1. driver.read => \A i \in 0 .. 7 : Before(data[i], i, 0) = {}
      BY <2>5, BeforeNone
    <3>2. result = NoBytes
      BY <1>1 DEF Commanding
    <3> QED
      BY <1>1, <2>2, <2>4, <3>1, <3>2 DEF Received, NoBytes
  <2>7. Transferring'
    <3>1. driver'.step \in 0 .. 2 * Size' - 1
      BY <1>3, <1>5, <1>7
    <3> QED
      BY <1>3, <2>3, <2>4, <2>6, <3>1 DEF Transferring
  <2> QED
    BY <1>3, <1>4, <1>6, <1>7, <2>7 DEF RtcInv
<1>8. CASE driver.step # 15 /\ High
  <2>1. /\ ~wires.sck /\ wires.cs /\ cmdStat = "command" /\ Untouched
        /\ bitsCount = Edges /\ cmd = {b \in CommandWire : b < Edges} /\ result = NoBytes
    BY <1>1, <1>8 DEF Clocked, Commanding
  <2>2. UNCHANGED <<cmdStat, cmd, bitsCount, data, alarmSize, registers, regSIO>>
    BY <1>1, <1>2, <1>8, <2>1, Rises
  <2>3. Edges' = Edges /\ driver'.step \in 0 .. 14
    BY <1>3, <1>5, <1>8 DEF Edges, High
  <2>4. Commanding'
    BY <1>1, <1>5, <2>1, <2>2, <2>3 DEF Commanding, Untouched
  <2> QED
    BY <1>3, <1>4, <1>6, <1>8, <2>4 DEF RtcInv
<1>9. CASE driver.step # 14 /\ ~High
  <2>1. /\ wires.sck /\ cmdStat = "command" /\ Untouched /\ driver.step # 15
        /\ bitsCount = Edges /\ cmd = {b \in CommandWire : b < Edges} /\ result = NoBytes
    BY <1>1, <1>5, <1>9 DEF Clocked, Commanding, High
  <2>2. Edges \in 0 .. 6 /\ Edges = Bit /\ Edges' = Edges + 1 /\ driver'.step \in 0 .. 14
    BY <1>3, <1>5, <1>9, <2>1 DEF Edges, Bit, High
  <2>3. /\ cmd' = IF Bit \in CommandWire THEN cmd \cup {bitsCount} ELSE cmd
        /\ bitsCount' = bitsCount + 1
        /\ UNCHANGED <<cmdStat, data, registers>>
    BY <1>1, <1>2, <1>9, <2>1, <2>2, BitOfCommand
  <2>4. cmd' = {b \in CommandWire : b < Edges + 1}
    <3>1. CommandWire \in SUBSET (0 .. 7)
      BY <1>1, CommandDecoded DEF Kept
    <3>2. \A b \in 0 .. 7 : b < Edges + 1 <=> b < Edges \/ b = Edges
      BY <2>2
    <3> QED
      BY <2>1, <2>2, <2>3, <3>1, <3>2
  <2>5. Commanding'
    BY <1>1, <1>5, <2>1, <2>2, <2>3, <2>4 DEF Commanding, Untouched
  <2> QED
    BY <1>3, <1>4, <1>6, <2>1, <2>5 DEF RtcInv
<1>10. CASE driver.step = 14
  <2>1. /\ wires.sck /\ cmdStat = "command" /\ Untouched /\ ~High
        /\ bitsCount = Edges /\ cmd = {b \in CommandWire : b < Edges} /\ result = NoBytes
    BY <1>1, <1>10 DEF Clocked, Commanding, High
  <2>2. Edges = 7 /\ Bit = 7 /\ driver'.step = 15 /\ driver'.phase = "command"
    BY <1>3, <1>10 DEF Edges, Bit
  <2>3. /\ cmd' = CommandByte(IF Bit \in CommandWire THEN cmd \cup {7} ELSE cmd)
        /\ bitsCount' = 0
        /\ alarmSize' = IF Register(cmd') = 4 THEN AlarmSize(registers[1]) ELSE alarmSize
        /\ cmdStat' = IF Reads(cmd') THEN "read" ELSE "write"
        /\ data' = IF Reads(cmd') THEN Answer(registers, Register(cmd'), Moments[now]) ELSE data
        /\ registers' = IF Reads(cmd') THEN StatusRead(registers, Register(cmd')) ELSE registers
    BY <1>1, <1>2, <2>1, <2>2, CommandComplete
  <2>4. cmd' = CommandByte(CommandWire)
    <3>1. CommandWire \in SUBSET (0 .. 7)
      BY <1>1, CommandDecoded DEF Kept
    <3>2. \A b \in 0 .. 7 : b < 7 \/ b = 7
      OBVIOUS
    <3>3. (IF 7 \in CommandWire THEN cmd \cup {7} ELSE cmd) = CommandWire
      BY <2>1, <2>2, <3>1, <3>2
    <3> QED
      BY <2>2, <2>3, <3>3
  <2>5. Register(cmd') = driver.register /\ (Reads(cmd') <=> driver.read)
    BY <1>1, <2>4, CommandDecoded DEF Kept
  <2>6. Commanded(0)'
    <3>1. BitsSize(driver.register, alarmSize') = Size
      BY <2>1, <2>3, <2>5 DEF BitsSize, Size, Untouched
    <3>2. driver.read => Answered'
      <4>1. now \in driver.since .. now
        <5>1. driver.since \in Nat /\ now \in Nat /\ driver.since <= now
          BY <1>1 DEF Kept, Drivers
        <5> QED
          BY <5>1
      <4> QED
        BY <1>1, <1>3, <2>1, <2>3, <2>5, <4>1 DEF Answered, Untouched
    <3>3. ~driver.read => Written(0)'
      <4>1. \A i \in 0 .. 7 : last.data[i] \cup Before(driver.byte, i, 0) = last.data[i]
        BY <1>5, BeforeNone
      <4>2. last.data = [i \in 0 .. 7 |-> last.data[i]]
        BY <1>1 DEF Kept, Bytes
      <4>3. ~driver.read => data' = last.data /\ registers' = last.registers
        BY <2>1, <2>3, <2>5 DEF Untouched
      <4>4. 0 # Size'
        BY <1>5
      <4> QED
        BY <1>1, <1>3, <4>1, <4>2, <4>3, <4>4 DEF Written
    <3>4. 0 # Size'
      BY <1>5
    <3> QED
      BY <1>3, <1>5, <2>3, <2>5, <3>1, <3>2, <3>3, <3>4 DEF Commanded
  <2>7. Commanding'
    BY <1>1, <2>1, <2>2, <2>6 DEF Commanding
  <2> QED
    BY <1>4, <1>6, <2>2, <2>7 DEF RtcInv
<1> QED
  BY <1>7, <1>8, <1>9, <1>10

(* Where a half cycle of the data leaves the driver and the wires.         *)
LEMMA DataHalf ==
    ASSUME RtcInv, driver.phase = "data", Step(Size, "end"), UNCHANGED <<now, last>>,
           NEW high, rtcWrite(Wires(high)), "CS" \in high, "SCK" \in high <=> High
    PROVE  /\ Kept /\ Clocked /\ Transferring /\ Kept'
           /\ driver.register' = driver.register /\ driver.read' = driver.read
           /\ driver.byte' = driver.byte /\ driver.since' = driver.since
           /\ Size' = Size /\ Size \in {8, 24, 56} /\ driver.byte \in SUBSET (0 .. 7)
           /\ Bit \in 0 .. Size - 1
           /\ ~High => Edges = Bit /\ driver.phase' = "data" /\ Clocked' /\ High'
                       /\ Edges' = Bit + 1 /\ Bit' = Bit /\ driver.step' \in 0 .. 2 * Size - 1
           /\ High => Edges = Bit + 1
           /\ High /\ Bit + 1 # Size =>
                 driver.phase' = "data" /\ Clocked' /\ ~High' /\ Edges' = Bit + 1 /\ Bit' = Bit + 1
                 /\ driver.step' \in 0 .. 2 * Size - 1
           /\ High /\ Bit + 1 = Size => driver.phase' = "end"
<1>1. Kept /\ Clocked /\ Transferring
  BY DEF RtcInv
<1>2. driver \in Drivers /\ driver.register \in 0 .. 7 /\ driver.byte \in SUBSET (0 .. 7)
  BY <1>1 DEF Kept, Drivers
<1>3. Size \in {8, 24, 56} /\ driver.step \in 0 .. 2 * Size - 1
  BY <1>1, <1>2, Sizes DEF Size, Transferring
<1>4. /\ driver' \in Drivers
      /\ driver'.register = driver.register /\ driver'.read = driver.read
      /\ driver'.byte = driver.byte /\ driver'.since = driver.since
      /\ driver.step + 1 = 2 * Size => driver'.phase = "end" /\ driver'.step = 0
      /\ driver.step + 1 # 2 * Size => driver'.phase = "data" /\ driver'.step = driver.step + 1
  BY <1>2, NextHalf
<1>5. Kept' /\ Size' = Size
  BY <1>1, <1>4 DEF Kept, Size
<1>6. wires'.cs /\ (wires'.sck <=> High)
  BY Levels
<1>7. Bit \in 0 .. Size - 1 /\ Bit = driver.step \div 2 /\ Edges = (driver.step + 1) \div 2
  BY <1>3 DEF Bit, Edges
<1>8. CASE ~High
  <2>1. /\ Edges = Bit /\ driver.step + 1 # 2 * Size
        /\ (driver.step + 2) \div 2 = Bit + 1 /\ (driver.step + 1) \div 2 = Bit
        /\ (driver.step + 1) % 2 = 1 /\ driver.step + 1 \in 0 .. 2 * Size - 1
    BY <1>3, <1>7, <1>8 DEF High
  <2>2. Edges' = (driver.step + 2) \div 2 /\ Bit' = (driver.step + 1) \div 2
        /\ (High' <=> (driver.step + 1) % 2 = 1)
    BY <1>3, <1>4, <2>1 DEF Edges, Bit, High
  <2>3. Clocked'
    BY <1>6, <1>8, <2>1, <2>2 DEF Clocked
  <2> QED
    BY <1>1, <1>2, <1>3, <1>4, <1>5, <1>7, <1>8, <2>1, <2>2, <2>3
<1>9. CASE High
  <2>1. /\ Edges = Bit + 1 /\ (driver.step + 1 = 2 * Size <=> Bit + 1 = Size)
        /\ (driver.step + 2) \div 2 = Bit + 1 /\ (driver.step + 1) \div 2 = Bit + 1
        /\ (driver.step + 1) % 2 = 0 /\ driver.step + 1 \in 0 .. 2 * Size
    BY <1>3, <1>7, <1>9 DEF High
  <2>2. CASE driver.step + 1 # 2 * Size
    <3>1. Edges' = (driver.step + 2) \div 2 /\ Bit' = (driver.step + 1) \div 2
          /\ (High' <=> (driver.step + 1) % 2 = 1)
      BY <1>3, <1>4, <2>2 DEF Edges, Bit, High
    <3>2. Clocked'
      BY <1>6, <1>9, <2>1, <3>1 DEF Clocked
    <3>3. driver'.step \in 0 .. 2 * Size - 1
      BY <1>3, <1>4, <2>2
    <3> QED
      BY <1>1, <1>2, <1>3, <1>4, <1>5, <1>7, <1>9, <2>1, <2>2, <3>1, <3>2, <3>3
  <2>3. CASE driver.step + 1 = 2 * Size
    BY <1>1, <1>2, <1>3, <1>4, <1>5, <1>7, <1>9, <2>1, <2>3
  <2> QED
    BY <2>2, <2>3
<1> QED
  BY <1>8, <1>9

(* At a falling edge a bit of the byte arrives; the last one completes the *)
(* transfer, and at the rising edge that follows the chip is idle.         *)
LEMMA SendDataStep ==
    ASSUME RtcInv, SendData
    PROVE  RtcInv'
<1> DEFINE high == {"CS", "DD"} \cup When(High, {"SCK"}) \cup When(Bit % 8 \in driver.byte, {"SIO"})
<1>1. /\ rtcWrite(Wires(high)) /\ Step(Size, "end") /\ UNCHANGED <<now, result, last>>
      /\ driver.phase = "data" /\ ~driver.read
  BY DEF SendData
<1>2. /\ "CS" \in high /\ "DD" \in high
      /\ "SCK" \in high <=> High
      /\ "SIO" \in high <=> Bit % 8 \in driver.byte
  BY DEF When
<1> HIDE DEF high
<1>3. /\ Kept /\ Clocked /\ Transferring /\ Kept'
      /\ driver.register' = driver.register /\ driver.read' = driver.read
      /\ driver.byte' = driver.byte /\ driver.since' = driver.since
      /\ Size' = Size /\ Size \in {8, 24, 56} /\ driver.byte \in SUBSET (0 .. 7)
      /\ Bit \in 0 .. Size - 1
      /\ ~High => Edges = Bit /\ driver.phase' = "data" /\ Clocked' /\ High'
                  /\ Edges' = Bit + 1 /\ Bit' = Bit /\ driver.step' \in 0 .. 2 * Size - 1
      /\ High => Edges = Bit + 1
      /\ High /\ Bit + 1 # Size =>
            driver.phase' = "data" /\ Clocked' /\ ~High' /\ Edges' = Bit + 1 /\ Bit' = Bit + 1
            /\ driver.step' \in 0 .. 2 * Size - 1
      /\ High /\ Bit + 1 = Size => driver.phase' = "end"
  BY <1>1, <1>2, DataHalf
<1>4. Commanded(Edges)
  BY <1>3 DEF Transferring
<1>5. CASE ~High
  <2>1. /\ cmdStat = "write" /\ wires.sck /\ bitsCount = Bit /\ Written(Bit)
        /\ Register(cmd) = driver.register /\ ~Reads(cmd)
        /\ BitsSize(driver.register, alarmSize) = Size
    BY <1>1, <1>3, <1>4, <1>5 DEF Clocked, Commanded
  <2>2. WriteBit("SIO" \in high, FALSE)
    BY <1>1, <1>2, <1>5, <2>1, BitWritten
  <2>3. LastBit <=> Bit + 1 = Size
    BY <2>1 DEF LastBit
  <2>4. data' = [i \in 0 .. 7 |-> last.data[i] \cup Before(driver.byte, i, Bit + 1)]
    <3>1. data' = IF Bit % 8 \in driver.byte
                    THEN [data EXCEPT ![Bit \div 8] = data[Bit \div 8] \cup {Bit % 8}] ELSE data
      BY <1>2, <2>1, <2>2 DEF WriteBit
    <3>2. data = [i \in 0 .. 7 |-> last.data[i] \cup Before(driver.byte, i, Bit)]
      BY <2>1 DEF Written
    <3>3. \A i \in 0 .. 7 : Before(driver.byte, i, Bit + 1) =
             IF i = Bit \div 8 /\ Bit % 8 \in driver.byte
               THEN Before(driver.byte, i, Bit) \cup {Bit % 8} ELSE Before(driver.byte, i, Bit)
      <4>1. Bit \in Nat
        BY <1>3
      <4> QED
        BY <1>3, <4>1, BeforeNext
    <3> DEFINE x == Bit \div 8
               y == Bit % 8
    <3> HIDE DEF x, y
    <3>4. data' = [i \in 0 .. 7 |-> IF i = x /\ y \in driver.byte THEN data[i] \cup {y} ELSE data[i]]
      BY <3>1, <3>2 DEF x, y
    <3>5. \A i \in 0 .. 7 : (IF i = x /\ y \in driver.byte THEN data[i] \cup {y} ELSE data[i])
                              = last.data[i] \cup Before(driver.byte, i, Bit + 1)
      BY <3>2, <3>3 DEF x, y
    <3> QED
      BY <3>4, <3>5
  <2>5. registers' = IF Bit + 1 = Size THEN Sent(last.registers, driver.register, data'[0])
                     ELSE last.registers
    <3>1. registers = last.registers
      BY <1>3, <2>1 DEF Written
    <3> QED
      BY <2>1, <2>2, <2>3, <3>1 DEF WriteBit
  <2>6. /\ cmdStat' = IF Bit + 1 = Size THEN "idle" ELSE "write"
        /\ bitsCount' = Bit + 1 /\ cmd' = cmd /\ alarmSize' = alarmSize
    BY <2>1, <2>2, <2>3 DEF WriteBit
  <2>7. Written(Bit + 1)'
    BY <1>1, <1>3, <1>5, <2>4, <2>5 DEF Written
  <2>8. Commanded(Bit + 1)'
    BY <1>1, <1>3, <1>5, <2>1, <2>6, <2>7 DEF Commanded
  <2>9. Commanded(Edges)'
    BY <1>3, <1>5, <2>8
  <2>10. Transferring'
    BY <1>1, <1>3, <1>5, <2>9 DEF Transferring
  <2> QED
    BY <1>3, <1>5, <2>10 DEF RtcInv
<1>6. CASE High
  <2>1. /\ ~wires.sck /\ wires.cs /\ cmdStat # "command" /\ Written(Bit + 1)
    BY <1>1, <1>3, <1>4, <1>6 DEF Clocked, Commanded
  <2>2. UNCHANGED <<cmdStat, cmd, bitsCount, data, alarmSize, registers, regSIO>>
    BY <1>1, <1>2, <1>6, <2>1, Rises
  <2>3. CASE Bit + 1 # Size
    <3>1. Edges' = Edges /\ Edges = Bit + 1
      BY <1>3, <1>6, <2>3
    <3>2. Written(Edges)'
      BY <1>1, <1>3, <2>1, <2>2, <3>1 DEF Written
    <3>3. Commanded(Edges)'
      BY <1>1, <1>3, <1>4, <2>2, <3>1, <3>2 DEF Commanded
    <3>4. Transferring'
      BY <1>1, <1>3, <1>6, <2>3, <3>3 DEF Transferring
    <3> QED
      BY <1>3, <1>6, <2>3, <3>4 DEF RtcInv
  <2>4. CASE Bit + 1 = Size
    <3>1. cmdStat' = "idle"
      BY <1>3, <1>4, <1>6, <2>2, <2>4 DEF Commanded
    <3>2. Written(Size)'
      BY <1>1, <1>3, <2>1, <2>2, <2>4 DEF Written
    <3>3. Ended'
      BY <1>1, <1>3, <3>1, <3>2 DEF Ended
    <3> QED
      BY <1>3, <1>6, <2>4, <3>3 DEF RtcInv
  <2> QED
    BY <2>3, <2>4
<1> QED
  BY <1>5, <1>6

(* At a falling edge the chip shows a bit, and at the rising edge the      *)
(* driver takes it.                                                        *)
LEMMA ReceiveDataStep ==
    ASSUME RtcInv, ReceiveData
    PROVE  RtcInv'
<1> DEFINE high == {"CS"} \cup When(High, {"SCK"})
<1>1. /\ rtcWrite(Wires(high)) /\ Step(Size, "end") /\ UNCHANGED <<now, last>>
      /\ driver.phase = "data" /\ driver.read
      /\ result' = IF High /\ regSIO' THEN [result EXCEPT ![Bit \div 8] = @ \cup {Bit % 8}] ELSE result
  BY DEF ReceiveData
<1>2. "CS" \in high /\ ("SCK" \in high <=> High)
  BY DEF When
<1> HIDE DEF high
<1>3. /\ Kept /\ Clocked /\ Transferring /\ Kept'
      /\ driver.register' = driver.register /\ driver.read' = driver.read
      /\ driver.byte' = driver.byte /\ driver.since' = driver.since
      /\ Size' = Size /\ Size \in {8, 24, 56} /\ driver.byte \in SUBSET (0 .. 7)
      /\ Bit \in 0 .. Size - 1
      /\ ~High => Edges = Bit /\ driver.phase' = "data" /\ Clocked' /\ High'
                  /\ Edges' = Bit + 1 /\ Bit' = Bit /\ driver.step' \in 0 .. 2 * Size - 1
      /\ High => Edges = Bit + 1
      /\ High /\ Bit + 1 # Size =>
            driver.phase' = "data" /\ Clocked' /\ ~High' /\ Edges' = Bit + 1 /\ Bit' = Bit + 1
            /\ driver.step' \in 0 .. 2 * Size - 1
      /\ High /\ Bit + 1 = Size => driver.phase' = "end"
  BY <1>1, <1>2, DataHalf
<1>4. Commanded(Edges) /\ Answered /\ Received
  BY <1>1, <1>3 DEF Transferring, Commanded
<1>5. CASE ~High
  <2>1. /\ cmdStat = "read" /\ wires.sck /\ bitsCount = Bit
        /\ Register(cmd) = driver.register /\ Reads(cmd)
        /\ BitsSize(driver.register, alarmSize) = Size
    BY <1>1, <1>3, <1>4, <1>5 DEF Clocked, Commanded
  <2>2. ReadBit(FALSE, TRUE)
    BY <1>1, <1>2, <1>5, <2>1, BitRead
  <2>3. LastBit <=> Bit + 1 = Size
    BY <2>1 DEF LastBit
  <2>4. /\ cmdStat' = IF Bit + 1 = Size THEN "idle" ELSE "read"
        /\ bitsCount' = Bit + 1 /\ UNCHANGED <<cmd, data, alarmSize, registers>>
        /\ regSIO' <=> Bit % 8 \in data[Bit \div 8]
    BY <2>1, <2>2, <2>3 DEF ReadBit
  <2>5. Answered'
    BY <1>1, <1>3, <1>4, <2>4 DEF Answered
  <2>6. Commanded(Edges)'
    BY <1>1, <1>3, <1>5, <2>1, <2>4, <2>5 DEF Commanded
  <2>7. Received'
    BY <1>1, <1>3, <1>4, <1>5, <2>4 DEF Received
  <2>8. Transferring'
    BY <1>3, <1>5, <2>6, <2>7 DEF Transferring
  <2> QED
    BY <1>3, <1>5, <2>8 DEF RtcInv
<1>6. CASE High
  <2>1. ~wires.sck /\ wires.cs /\ cmdStat # "command"
    BY <1>1, <1>3, <1>4, <1>6 DEF Clocked, Commanded
  <2>2. UNCHANGED <<cmdStat, cmd, bitsCount, data, alarmSize, registers, regSIO>>
    BY <1>1, <1>2, <1>6, <2>1, Rises
  <2>3. Answered'
    BY <1>1, <1>3, <1>4, <2>2 DEF Answered
  <2>4. /\ data = [i \in 0 .. 7 |-> data[i]]
        /\ \A i \in 0 .. 7 : data[i] \in SUBSET (0 .. 7) /\ (8 * i >= Size => data[i] = {})
    BY <1>3, <1>4, AnswerTyped
  <2>5. result' = [i \in 0 .. 7 |-> Before(data[i], i, Bit + 1)]
    <3> DEFINE x == Bit \div 8
               y == Bit % 8
    <3>1. Bit \in Nat /\ x \in 0 .. 7
      BY <1>3
    <3>2. \A i \in 0 .. 7 : Before(data[i], i, Bit + 1) =
             IF i = x /\ y \in data[i] THEN Before(data[i], i, Bit) \cup {y} ELSE Before(data[i], i, Bit)
      <4> SUFFICES ASSUME NEW i \in 0 .. 7
                   PROVE  Before(data[i], i, Bit + 1) =
                            IF i = x /\ y \in data[i] THEN Before(data[i], i, Bit) \cup {y}
                                                     ELSE Before(data[i], i, Bit)
        OBVIOUS
      <4>1. data[i] \in SUBSET (0 .. 7)
        BY <2>4
      <4>2. \A n \in Nat : Before(data[i], i, n + 1) =
              IF i = n \div 8 /\ n % 8 \in data[i] THEN Before(data[i], i, n) \cup {n % 8}
                                                  ELSE Before(data[i], i, n)
        BY <4>1, BeforeNext
      <4> QED
        BY <3>1, <4>2
    <3>3. result = [i \in 0 .. 7 |-> Before(data[i], i, Bit)] /\ (regSIO' <=> y \in data[x])
      BY <1>4, <1>6, <2>2 DEF Received
    <3>4. result' = IF y \in data[x] THEN [result EXCEPT ![x] = result[x] \cup {y}] ELSE result
      BY <1>1, <1>6, <3>3
    <3> HIDE DEF x, y
    <3>5. result' = [i \in 0 .. 7 |-> IF i = x /\ y \in data[i] THEN result[i] \cup {y} ELSE result[i]]
      BY <3>1, <3>3, <3>4
    <3>6. \A i \in 0 .. 7 : (IF i = x /\ y \in data[i] THEN result[i] \cup {y} ELSE result[i])
                              = Before(data[i], i, Bit + 1)
      BY <3>2, <3>3
    <3> QED
      BY <3>5, <3>6
  <2>6. CASE Bit + 1 # Size
    <3>1. Edges' = Edges /\ Edges = Bit + 1 /\ Bit' = Bit + 1 /\ ~High'
      BY <1>3, <1>6, <2>6
    <3>2. Commanded(Edges)'
      BY <1>1, <1>3, <1>4, <2>2, <2>3, <3>1 DEF Commanded
    <3>3. Received'
      BY <2>2, <2>5, <3>1 DEF Received
    <3>4. Transferring'
      BY <1>3, <1>6, <2>6, <3>2, <3>3 DEF Transferring
    <3> QED
      BY <1>3, <1>6, <2>6, <3>4 DEF RtcInv
  <2>7. CASE Bit + 1 = Size
    <3>1. cmdStat' = "idle"
      BY <1>3, <1>4, <1>6, <2>2, <2>7 DEF Commanded
    <3>2. \A i \in 0 .. 7 : Before(data[i], i, Size) = data[i]
      <4> SUFFICES ASSUME NEW i \in 0 .. 7
                   PROVE  Before(data[i], i, Size) = data[i]
        OBVIOUS
      <4>1. data[i] \in SUBSET (0 .. 7) /\ (~(8 * i < Size) => data[i] = {})
        BY <1>3, <2>4
      <4>2. Size \in {8, 24, 56}
        BY <1>3
      <4>3. \A n \in {8, 24, 56} : Before(data[i], i, n) = IF 8 * i < n THEN data[i] ELSE {}
        BY <4>1, BeforeWhole
      <4> QED
        BY <4>1, <4>2, <4>3
    <3>3. result' = data'
      BY <2>2, <2>4, <2>5, <2>7, <3>2
    <3>4. Ended'
      BY <1>1, <1>3, <2>3, <3>1, <3>3 DEF Ended
    <3> QED
      BY <1>3, <1>6, <2>7, <3>4 DEF RtcInv
  <2> QED
    BY <2>6, <2>7
<1> QED
  BY <1>5, <1>6

(* The end of a transfer, and what it amounts to.                          *)
LEMMA EndTransferStep ==
    ASSUME RtcInv, EndTransfer
    PROVE  RtcInv'
<1>1. /\ rtcWrite(Wires({"SCK"})) /\ last' = Transferred(last) /\ driver' = NoTransfer
      /\ result' = NoBytes /\ now' = now /\ Kept /\ Ended
  BY DEF EndTransfer, RtcInv
<1>2. cmdStat' = "idle" /\ UNCHANGED <<data, registers>>
  BY <1>1, StaysIdle DEF Ended
<1>3. /\ driver.register \in 0 .. 7 /\ driver.byte \in SUBSET (0 .. 7) /\ Size \in {8, 24, 56}
      /\ last.registers \in KeptBytes /\ last.data \in Bytes
  BY <1>1, Sizes DEF Kept, Drivers, Size
<1>4. last'.registers = registers /\ last'.data = data
  <2>1. CASE driver.read
    BY <1>1, <2>1 DEF Ended, Answered, Transferred
  <2>2. CASE ~driver.read
    <3> DEFINE written == [i \in 0 .. 7 |-> IF 8 * i < Size THEN last.data[i] \cup driver.byte
                                                            ELSE last.data[i]]
    <3>1. last' = [registers |-> Sent(last.registers, driver.register, written[0]), data |-> written]
      BY <1>1, <2>2 DEF Transferred
    <3>2. data = [i \in 0 .. 7 |-> last.data[i] \cup Before(driver.byte, i, Size)]
          /\ registers = Sent(last.registers, driver.register, data[0])
      BY <1>1, <2>2 DEF Ended, Written
    <3>3. \A i \in 0 .. 7 : last.data[i] \cup Before(driver.byte, i, Size) = written[i]
      <4>1. \A i \in 0 .. 7 : Before(driver.byte, i, Size) = IF 8 * i < Size THEN driver.byte ELSE {}
        <5>1. \A n \in {8, 24, 56}, i \in 0 .. 7 :
                Before(driver.byte, i, n) = IF 8 * i < n THEN driver.byte ELSE {}
          <6>1. driver.byte \in SUBSET (0 .. 7)
            BY <1>3
          <6> QED
            BY <6>1, BeforeWhole
        <5>2. Size \in {8, 24, 56}
          BY <1>3
        <5> QED
          BY <5>1, <5>2
      <4> QED
        BY <4>1
    <3>4. data = written
      BY <3>2, <3>3
    <3> HIDE DEF written
    <3> QED
      BY <3>1, <3>2, <3>4
  <2> QED
    BY <2>1, <2>2
<1>5. registers \in KeptBytes /\ data \in Bytes
  <2>1. CASE driver.read
    <3>1. registers = StatusRead(last.registers, driver.register)
      BY <1>1, <2>1 DEF Ended, Answered
    <3>2. registers \in KeptBytes
      BY <1>3, <3>1 DEF StatusRead, KeptBytes
    <3>3. data = [i \in 0 .. 7 |-> data[i]] /\ \A i \in 0 .. 7 : data[i] \in SUBSET (0 .. 7)
      BY <1>1, <2>1, AnswerTyped DEF Ended
    <3> QED
      BY <3>2, <3>3 DEF Bytes
  <2>2. CASE ~driver.read
    <3>1. data = [i \in 0 .. 7 |-> last.data[i] \cup Before(driver.byte, i, Size)]
          /\ registers = Sent(last.registers, driver.register, data[0])
      BY <1>1, <2>2 DEF Ended, Written
    <3>2. \A i \in 0 .. 7 : last.data[i] \cup Before(driver.byte, i, Size) \in SUBSET (0 .. 7)
      BY <1>3 DEF Bytes, Before
    <3>3. data \in Bytes
      BY <3>1, <3>2 DEF Bytes
    <3>4. registers \in KeptBytes
      BY <1>3, <3>1, <3>3 DEF Sent, KeptBytes, Bytes
    <3> QED
      BY <3>3, <3>4
  <2> QED
    BY <2>1, <2>2
<1> QED
  <2>1. driver' \in Drivers /\ driver'.phase = "away" /\ driver'.since = 1
    BY <1>1, AwayTyped
  <2>2. driver'.since <= now'
    BY <1>1, <2>1 DEF Kept
  <2> QED
    BY <1>1, <1>2, <1>4, <1>5, <2>1, <2>2 DEF RtcInv, Kept, Ready, Untouched

LEMMA GiveUpStep ==
    ASSUME RtcInv, GiveUp
    PROVE  RtcInv'
<1>1. /\ rtcWrite(Wires({"SCK"})) /\ driver' = NoTransfer /\ UNCHANGED <<now, result, last>>
      /\ driver.step < 15 /\ Kept /\ Commanding
  BY DEF GiveUp, RtcInv
<1>2. cmdStat = "command" /\ Untouched /\ result = NoBytes
  BY <1>1 DEF Commanding
<1>3. cmdStat' = "idle" /\ UNCHANGED <<data, registers>>
  BY <1>1, <1>2, StaysIdle
<1>4. driver' \in Drivers /\ driver'.phase = "away" /\ driver'.since = 1
  BY <1>1, AwayTyped
<1>5. driver'.since <= now'
  BY <1>1, <1>4 DEF Kept
<1> QED
  BY <1>1, <1>2, <1>3, <1>4, <1>5 DEF RtcInv, Kept, Ready, Untouched

(* Time goes on; the answer stays that of an earlier moment.               *)
LEMMA TickStep ==
    ASSUME RtcInv, Tick
    PROVE  RtcInv'
<1>1. /\ now' = now + 1 /\ Kept
      /\ UNCHANGED <<wires, cmdStat, cmd, bitsCount, data, alarmSize, registers, regSIO>>
      /\ UNCHANGED <<driver, result, last>>
  BY DEF Tick, RtcInv, chipVars
<1>2. now \in Nat /\ driver.since \in Nat /\ driver.since <= now
  BY <1>1 DEF Kept, Drivers
<1>3. Kept'
  BY <1>1, <1>2 DEF Kept
<1>4. driver.since .. now \subseteq driver.since .. now + 1
  BY <1>2
<1>5. Answered => Answered'
  BY <1>1, <1>4 DEF Answered
<1>6. \A n : Written(n) => Written(n)'
  BY <1>1 DEF Written, Size
<1>7. \A n : Commanded(n) => Commanded(n)'
  BY <1>1, <1>5, <1>6 DEF Commanded, Size
<1>8. Commanding => Commanding'
  BY <1>1, <1>7 DEF Commanding, Untouched, Edges, CommandWire
<1>9. Transferring => Transferring'
  BY <1>1, <1>7 DEF Transferring, Edges, Size, Received, Bit, High
<1>10. Ended => Ended'
  BY <1>1, <1>5, <1>6 DEF Ended, Size
<1>11. (Ready => Ready') /\ (Clocked => Clocked')
  BY <1>1 DEF Ready, Untouched, Clocked, High
<1> QED
  BY <1>1, <1>3, <1>8, <1>9, <1>10, <1>11 DEF RtcInv

LEMMA RtcStarts ==
    /\ RtcInit => RtcInv
    /\ RtcInv /\ RtcReset => RtcInv'
<1>1. Reset0 \in KeptBytes /\ NoBytes \in Bytes
  BY DEF Reset0, KeptBytes, NoBytes, Bytes
<1>2. RtcInit => RtcInv
  BY <1>1, AwayTyped DEF RtcInit, RtcInv, Kept, Ready, Untouched
<1>3. RtcInv /\ RtcReset => RtcInv'
  BY <1>1, AwayTyped DEF RtcReset, RtcInv, Kept, Ready, Untouched
<1> QED
  BY <1>2, <1>3

(* The state between transfers, and what was read at the end of one, say   *)
(* what the transfers amount to.                                           *)
LEMMA RtcInvImplies == RtcInv => RtcTransfersExact
  BY DEF RtcInv, RtcTransfersExact, Ready, Untouched, Ended, Answered

(* A transfer over the three wires reaches the register it names, in       *)
(* either order of the bits, after any transfers that were given up; a     *)
(* time that is read is that of one moment (rtcWrite).                     *)
THEOREM TransfersExact == RtcSpec => []RtcTransfersExact
<1>1. RtcInit => RtcInv
  BY RtcStarts
<1>2. RtcInv /\ [RtcNext]_rtcVars => RtcInv'
  <2> SUFFICES ASSUME RtcInv, [RtcNext]_rtcVars
               PROVE  RtcInv'
    OBVIOUS
  <2>1. CASE Begin
    BY <2>1, BeginStep
  <2>2. CASE SelectChip
    BY <2>2, SelectStep
  <2>3. CASE SendCommand
    BY <2>3, SendCommandStep
  <2>4. CASE SendData
    BY <2>4, SendDataStep
  <2>5. CASE ReceiveData
    BY <2>5, ReceiveDataStep
  <2>6. CASE EndTransfer
    BY <2>6, EndTransferStep
  <2>7. CASE GiveUp
    BY <2>7, GiveUpStep
  <2>8. CASE Tick
    BY <2>8, TickStep
  <2>9. CASE RtcReset
    BY <2>9, RtcStarts
  <2>10. CASE UNCHANGED rtcVars
    <3>1. UNCHANGED <<wires, cmdStat, cmd, bitsCount, data, alarmSize, registers, regSIO, now, driver,
                      result, last>>
      BY <2>10 DEF rtcVars, chipVars
    <3> QED
      BY <3>1 DEF RtcInv, Kept, Ready, Untouched, Clocked, High, Commanding, Transferring, Ended,
                  Commanded, Received, Answered, Written, Size, Edges, Bit, CommandWire
  <2> QED
    BY <2>1, <2>2, <2>3, <2>4, <2>5, <2>6, <2>7, <2>8, <2>9, <2>10 DEF RtcNext
<1> QED
  BY <1>1, <1>2, RtcInvImplies, PTL DEF RtcSpec
=============================================================================
