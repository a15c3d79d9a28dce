-------------------------------- MODULE Rtc ---------------------------------
(***************************************************************************)
(* The real time clock (rtc.cpp): a chip behind three wires, written bit by *)
(* bit by a driver of ARM7.  A byte is the set of its bits that are 1, and  *)
(* so is a write of the register: "SIO", "SCK" and "CS" are the wires, "DD" *)
(* says that SIO is driven, "selSCK" and "selCS" that SCK and CS are.       *)
(*                                                                         *)
(* The driver is external: one transfer after the other, which it may give  *)
(* up before the command is complete.                                       *)
(***************************************************************************)
EXTENDS Integers, Sequences

CONSTANTS RtcTransfers,     \* registers that are transferred
          RtcBytes,         \* bytes that are written
          Moments           \* the times the clock goes through, in order

ASSUME RtcAssumption ==
    /\ RtcTransfers \subseteq 0 .. 7 /\ RtcBytes \subseteq SUBSET (0 .. 7)
    /\ Moments \in Seq([year : 0 .. 9999, month : 1 .. 12, day : 1 .. 31, weekday : 0 .. 6,
                        hour : 0 .. 23, minute : 0 .. 59, second : 0 .. 59])
    /\ Moments # <<>>

VARIABLES
    wires,          \* _prevSCK, _prevCS, _prevSIO
    cmdStat,        \* "idle", "command", "write" or "read": 0, 1, 3 and 4
    cmd,            \* the bits that have arrived; then the register and, in bit 0, the direction
    bitsCount, data,
    alarmSize,      \* cmdBitsSize[4]
    registers,      \* regStatus1, regStatus2, regAdjustment and regFree: 0, 1, 6 and 7
    regSIO,         \* bit 0 of _REG
    now,            \* the time, an index of Moments
    driver,         \* what the driver does
    result,         \* the bytes that it has read
    last            \* what the transfers so far amount to

chipVars == <<wires, cmdStat, cmd, bitsCount, data, alarmSize, registers, regSIO>>
rtcVars == <<chipVars, now, driver, result, last>>

Byte(n) == {b \in 0 .. 7 : (n \div 2^b) % 2 = 1}
toBCD(x) == Byte(16 * (x \div 10) + (x % 10))
NoBytes == [i \in 0 .. 7 |-> {}]

(* Hours count to 12 unless bit 1 of regStatus1 is set.                    *)
HourByte(hour, status1) ==
    LET h == IF 1 \in status1 THEN hour ELSE hour % 12
    IN  toBCD(h) \cup (IF h < 12 THEN {} ELSE {6})

TimeBytes(m, status1) == <<HourByte(m.hour, status1), toBCD(m.minute), toBCD(m.second)>>
DateBytes(m, status1) ==
    <<toBCD(m.year % 100), toBCD(m.month), toBCD(m.day), Byte(m.weekday)>> \o TimeBytes(m, status1)

(* kDefaultCmdBitsSize, and the size of alarm 1 as its mode says.          *)
AlarmSize(status2) == IF status2 \cap 0 .. 3 = {2} THEN 24 ELSE 8
BitsSize(r, alarm) ==
    CASE r = 2 -> 56 [] r \in {3, 5} -> 24 [] r = 4 -> alarm [] OTHER -> 8

(* rtcRecv: the bytes a register is read as.  Reading regStatus1 clears    *)
(* its upper half first (StatusRead).                                      *)
StatusRead(regs, r) == IF r = 0 THEN [regs EXCEPT ![0] = @ \cap 0 .. 3] ELSE regs

Answer(regs, r, m) ==
    LET bytes == CASE r \in DOMAIN regs -> <<StatusRead(regs, r)[r]>>
                   [] r = 2 -> DateBytes(m, regs[0])
                   [] r = 3 -> TimeBytes(m, regs[0])
                   [] OTHER -> <<>>
    IN  [i \in 0 .. 7 |-> IF i < Len(bytes) THEN bytes[i + 1] ELSE {}]

(* rtcSend: only four registers keep what is written.                      *)
Sent(regs, r, byte) == IF r \in DOMAIN regs THEN [regs EXCEPT ![r] = byte] ELSE regs

(* The command byte: 0110 comes first or last, and the other half is read  *)
(* accordingly.                                                            *)
CommandByte(bits) == IF bits \cap 0 .. 3 = {1, 2} THEN {7 - b : b \in bits \cap 4 .. 7} ELSE bits \cap 0 .. 3

Register(c) == (IF 1 \in c THEN 1 ELSE 0) + (IF 2 \in c THEN 2 ELSE 0) + (IF 3 \in c THEN 4 ELSE 0)
Reads(c) == 0 \in c

-----------------------------------------------------------------------------
(* rtcWrite, state by state.                                               *)
Select(sck, cs) ==
    /\ cmdStat = "idle"
    /\ IF ~wires.cs /\ wires.sck /\ cs /\ sck
         THEN cmdStat' = "command" /\ bitsCount' = 0 /\ cmd' = {}
         ELSE UNCHANGED <<cmdStat, bitsCount, cmd>>
    /\ UNCHANGED <<data, alarmSize, registers, regSIO>>

(* A command of which bits have arrived is not given up.                   *)
DeselectEmpty(cs) ==
    /\ cmdStat = "command" /\ ~cs
    /\ cmdStat' = IF bitsCount = 0 THEN "idle" ELSE "command"
    /\ UNCHANGED <<cmd, bitsCount, data, alarmSize, registers, regSIO>>

Deselect(cs) ==
    /\ cmdStat = "command" /\ ~cs
    /\ cmdStat' = "idle"
    /\ UNCHANGED <<cmd, bitsCount, data, alarmSize, registers, regSIO>>

CommandBits(sio) == IF sio /\ bitsCount < 8 THEN cmd \cup {bitsCount} ELSE cmd

CommandBit(sio, sck, cs, dd) ==
    /\ cmdStat = "command" /\ cs /\ sck # dd /\ bitsCount # 7
    /\ cmd' = CommandBits(sio)
    /\ bitsCount' = bitsCount + 1
    /\ UNCHANGED <<cmdStat, data, alarmSize, registers, regSIO>>

(* The eighth bit completes the command only at a falling edge.            *)
Command(sio, sck, cs, dd) ==
    /\ cmdStat = "command" /\ cs /\ sck # dd /\ bitsCount = 7
    /\ cmd' = CommandByte(CommandBits(sio))
    /\ IF wires.sck /\ ~sck
         THEN /\ bitsCount' = 0
              /\ alarmSize' = IF Register(cmd') = 4 THEN AlarmSize(registers[1]) ELSE alarmSize
              /\ cmdStat' = IF Reads(cmd') THEN "read" ELSE "write"
              /\ data' = IF Reads(cmd') THEN Answer(registers, Register(cmd'), Moments[now]) ELSE data
              /\ registers' = IF Reads(cmd') THEN StatusRead(registers, Register(cmd')) ELSE registers
         ELSE /\ bitsCount' = 8
              /\ UNCHANGED <<alarmSize, cmdStat, data, registers>>
    /\ UNCHANGED regSIO

LastBit == bitsCount + 1 = BitsSize(Register(cmd), alarmSize)

(* A write does not clear data first.                                      *)
WriteBit(sio, sck) ==
    /\ cmdStat = "write" /\ wires.sck /\ ~sck
    /\ data' = IF sio THEN [data EXCEPT ![bitsCount \div 8] = @ \cup {bitsCount % 8}] ELSE data
    /\ bitsCount' = bitsCount + 1
    /\ registers' = IF LastBit THEN Sent(registers, Register(cmd), data'[0]) ELSE registers
    /\ cmdStat' = IF LastBit THEN "idle" ELSE "write"
    /\ UNCHANGED <<cmd, alarmSize, regSIO>>

ReadBit(sck, cs) ==
    /\ cmdStat = "read" /\ wires.sck /\ ~sck
    /\ regSIO' = (bitsCount % 8 \in data[bitsCount \div 8])
    /\ bitsCount' = bitsCount + 1
    /\ cmdStat' = IF LastBit \/ ~cs THEN "idle" ELSE "read"
    /\ UNCHANGED <<cmd, data, alarmSize, registers>>

NoEdge(sck, cs, dd) ==
    /\ \/ cmdStat = "command" /\ cs /\ sck = dd
       \/ cmdStat \in {"write", "read"} /\ ~(wires.sck /\ ~sck)
    /\ UNCHANGED <<cmdStat, cmd, bitsCount, data, alarmSize, registers, regSIO>>

(* A wire that is not selected keeps its level; but ReadBit looks at bit 2 *)
(* of the write itself.                                                    *)
rtcWrite(val) ==
    LET dd  == "DD" \in val
        sio == IF dd THEN "SIO" \in val ELSE wires.sio
        sck == IF "selSCK" \in val THEN "SCK" \in val ELSE wires.sck
        cs  == IF "selCS" \in val THEN "CS" \in val ELSE wires.cs
    IN  /\ wires' = [sio |-> sio, sck |-> sck, cs |-> cs]
        /\ \/ Select(sck, cs) \/ Deselect(cs)
           \/ CommandBit(sio, sck, cs, dd) \/ Command(sio, sck, cs, dd)
           \/ WriteBit(sio, sck) \/ ReadBit(sck, "CS" \in val)
           \/ NoEdge(sck, cs, dd)

-----------------------------------------------------------------------------
Wires(high) == {"selSCK", "selCS"} \cup high
When(b, high) == IF b THEN high ELSE {}

Reset0 == [r \in {0, 1, 6, 7} |-> IF r = 0 THEN {1} ELSE {}]
NoTransfer == [phase |-> "away", step |-> 0, register |-> 0, read |-> FALSE, codeFirst |-> FALSE,
               byte |-> {}, since |-> 1]

(* rtcInit.                                                                *)
RtcInit ==
    /\ wires = [sio |-> FALSE, sck |-> FALSE, cs |-> FALSE]
    /\ cmdStat = "idle" /\ cmd = {} /\ bitsCount = 0 /\ data = NoBytes
    /\ alarmSize = 0 /\ registers = Reset0 /\ regSIO = FALSE
    /\ now = 1 /\ driver = NoTransfer /\ result = NoBytes
    /\ last = [registers |-> Reset0, data |-> NoBytes]

Begin ==
    /\ driver.phase = "away"
    /\ \E r \in RtcTransfers, codeFirst \in BOOLEAN, read \in BOOLEAN, byte \in RtcBytes :
         /\ read => byte = {}
         /\ driver' = [phase |-> "begin", step |-> 0, register |-> r, read |-> read,
                       codeFirst |-> codeFirst, byte |-> byte, since |-> now]
    /\ rtcWrite(Wires({"SCK", "DD", "SIO"}))
    /\ UNCHANGED <<now, result, last>>

Enter(phase) == driver' = [driver EXCEPT !.phase = phase, !.step = 0]

SelectChip ==
    /\ driver.phase = "begin"
    /\ rtcWrite(Wires({"SCK", "CS", "DD", "SIO"}))
    /\ Enter("command")
    /\ UNCHANGED <<now, result, last>>

(* The bits of the command in the order in which they are sent.            *)
CommandWire ==
    LET r(b, at) == When((driver.register \div b) % 2 = 1, {at})
    IN  IF driver.codeFirst THEN {1, 2} \cup r(4, 4) \cup r(2, 5) \cup r(1, 6) \cup When(driver.read, {7})
                            ELSE When(driver.read, {0}) \cup r(1, 1) \cup r(2, 2) \cup r(4, 3) \cup {5, 6}

Bit == driver.step \div 2
High == driver.step % 2 = 1
Step(bits, next) == IF driver.step + 1 = 2 * bits THEN Enter(next) ELSE driver' = [driver EXCEPT !.step = @ + 1]

SendCommand ==
    /\ driver.phase = "command"
    /\ rtcWrite(Wires({"CS", "DD"} \cup When(High, {"SCK"}) \cup When(Bit \in CommandWire, {"SIO"})))
    /\ Step(8, "data")
    /\ UNCHANGED <<now, result, last>>

(* The driver knows the size of the alarm from the mode it has set.        *)
Size == BitsSize(driver.register, AlarmSize(last.registers[1]))

SendData ==
    /\ driver.phase = "data" /\ ~driver.read
    /\ rtcWrite(Wires({"CS", "DD"} \cup When(High, {"SCK"}) \cup When(Bit % 8 \in driver.byte, {"SIO"})))
    /\ Step(Size, "end")
    /\ UNCHANGED <<now, result, last>>

ReceiveData ==
    /\ driver.phase = "data" /\ driver.read
    /\ rtcWrite(Wires({"CS"} \cup When(High, {"SCK"})))
    /\ result' = IF High /\ regSIO' THEN [result EXCEPT ![Bit \div 8] = @ \cup {Bit % 8}] ELSE result
    /\ Step(Size, "end")
    /\ UNCHANGED <<now, last>>

(* What a whole transfer amounts to: a write adds its bits to those of the *)
(* transfer before.                                                        *)
Transferred(before) ==
    LET r == driver.register
        written == [i \in 0 .. 7 |-> IF 8 * i < Size THEN before.data[i] \cup driver.byte ELSE before.data[i]]
    IN  IF driver.read THEN [registers |-> StatusRead(before.registers, r), data |-> data]
        ELSE [registers |-> Sent(before.registers, r, written[0]), data |-> written]

EndTransfer ==
    /\ driver.phase = "end"
    /\ rtcWrite(Wires({"SCK"}))
    /\ last' = Transferred(last)
    /\ driver' = NoTransfer /\ result' = NoBytes
    /\ UNCHANGED now

GiveUp ==
    /\ driver.phase = "command" /\ driver.step < 15
    /\ rtcWrite(Wires({"SCK"}))
    /\ driver' = NoTransfer
    /\ UNCHANGED <<now, result, last>>

Tick ==
    /\ now < Len(Moments)
    /\ now' = now + 1
    /\ UNCHANGED <<chipVars, driver, result, last>>

(* A reset of the console.                                                 *)
RtcReset ==
    /\ wires' = [sio |-> FALSE, sck |-> FALSE, cs |-> FALSE]
    /\ cmdStat' = "idle" /\ cmd' = {} /\ bitsCount' = 0 /\ data' = NoBytes
    /\ alarmSize' = 0 /\ registers' = Reset0 /\ regSIO' = FALSE
    /\ driver' = NoTransfer /\ result' = NoBytes
    /\ last' = [registers |-> Reset0, data |-> NoBytes]
    /\ UNCHANGED now

RtcNext == Begin \/ SelectChip \/ SendCommand \/ SendData \/ ReceiveData \/ EndTransfer \/ GiveUp \/ Tick \/ RtcReset

RtcSpec == RtcInit /\ [][RtcNext]_rtcVars

-----------------------------------------------------------------------------
Bytes == [0 .. 7 -> SUBSET (0 .. 7)]

RtcTypeOK ==
    /\ wires \in [sio : BOOLEAN, sck : BOOLEAN, cs : BOOLEAN]
    /\ cmdStat \in {"idle", "command", "write", "read"}
    /\ cmd \in SUBSET (0 .. 7) /\ bitsCount \in 0 .. 56 /\ alarmSize \in {0, 8, 24}
    /\ data \in Bytes /\ registers \in [{0, 1, 6, 7} -> SUBSET (0 .. 7)] /\ regSIO \in BOOLEAN
    /\ now \in 1 .. Len(Moments) /\ result \in Bytes
    /\ driver.phase \in {"away", "begin", "command", "data", "end"} /\ driver.step \in 0 .. 111

(* The chip follows its driver bit by bit: a transfer, after whatever was  *)
(* transferred or given up before it, reaches the register it names, in    *)
(* either order of the command's bits; a date or time that is read is that *)
(* of one moment of the transfer, never a mix of two; a register holds     *)
(* what was written, with the bits that the transfer before left in data;  *)
(* and afterwards the chip is ready for the next command.                  *)
RtcTransfersExact ==
    /\ driver.phase = "away" => cmdStat = "idle" /\ registers = last.registers /\ data = last.data
    /\ driver.phase = "end" /\ driver.read =>
         \E m \in driver.since .. now : result = Answer(last.registers, driver.register, Moments[m])
=============================================================================
