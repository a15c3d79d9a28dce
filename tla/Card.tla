-------------------------------- MODULE Card --------------------------------
(***************************************************************************)
(* The game card: the bus registers of the two CPUs (MMU_writeToGCControl, *)
(* MMU_readFromGC), the command protocol of retail cards                   *)
(* (slot1comp_protocol.cpp) and the ROM behind it (slot1comp_rom.cpp).     *)
(*                                                                         *)
(* Addresses and sizes count words.  A word is named by where it comes     *)
(* from.  Commands are taken after decryption.                             *)
(***************************************************************************)
EXTENDS Integers, FiniteSets

CONSTANTS RomSize, CardSize, \* words in the file, and the card's size
          BlockWords,       \* a 4K block
          SecureStart, SecureWords, \* the secure area
          ReadStart,        \* 8000h: B7 reads nothing before
          RedirectWords,    \* 200h
          Addresses7,       \* addresses used with B7
          BlockSizes,       \* transfer sizes of GCROMCTRL
          MaxExtra,         \* bound: words moved behind the end of a transfer
          MaxWords          \* bound: words read of one answer

ASSUME CardAssumption ==
    /\ {RomSize, CardSize, BlockWords, SecureWords, RedirectWords} \subseteq Nat \ {0}
    /\ {SecureStart, ReadStart} \subseteq Nat
    /\ RomSize <= CardSize /\ CardSize % BlockWords = 0
    /\ ReadStart % BlockWords = 0 /\ SecureStart % BlockWords = 0 /\ RedirectWords <= BlockWords
    /\ ReadStart + BlockWords <= CardSize /\ SecureStart + SecureWords <= CardSize
    /\ Addresses7 \subseteq 0 .. CardSize - 1 /\ BlockSizes \subseteq Nat /\ {MaxExtra, MaxWords} \subseteq Nat

VARIABLES
    mode,           \* of the protocol
    operation,      \* of the protocol
    romOperation, romAddress, \* of the ROM
    wordsLeft,      \* transfer_count of each CPU
    busy,           \* bits 31 and 23 of GCROMCTRL of each CPU
    delivered,      \* the word that was read last
    request,        \* the command that is answered, and how many words were read since
    due             \* the words of the transfer that each CPU still waits for

cardVars == <<mode, operation, romOperation, romAddress, wordsLeft, busy, delivered, request, due>>
cardState == <<mode, operation, romOperation, romAddress>>

Cpus == {"arm9", "arm7"}

(* What software may send in each mode.  Idle stands for the commands that *)
(* do nothing in RAW and KEY1 mode.                                        *)
CommandsIn(m) ==
    CASE m = "RAW"    -> {[op |-> o, address |-> 0] : o \in {"dummy", "chip", "key1", "header", "idle"}}
      [] m = "KEY1"   -> {[op |-> o, address |-> 0] : o \in {"chip", "idle", "normal"}}
                           \cup {[op |-> "secure", address |-> a] :
                                   a \in {b \in SecureStart .. SecureStart + SecureWords - 1 :
                                            b % BlockWords = 0}}
      [] m = "NORMAL" -> {[op |-> "read", address |-> a] : a \in Addresses7}
                           \cup {[op |-> o, address |-> 0] : o \in {"chip", "unknown"}}

(* Commands after which the card goes on with the answer before.           *)
Unanswered == {"key1", "normal", "idle"}

(* Until the first command the card answers as to a dummy.                 *)
NoRequest == [op |-> "dummy", address |-> 0, words |-> 0]

CardInit ==
    /\ mode \in {"RAW", "NORMAL"}
    /\ operation = "dummy" /\ romOperation = "unknown" /\ romAddress = 0
    /\ wordsLeft = [p \in Cpus |-> 0] /\ busy = [p \in Cpus |-> FALSE]
    /\ delivered = <<"none", 0>> /\ request = NoRequest /\ due = [p \in Cpus |-> 0]

-----------------------------------------------------------------------------
(* Slot1Comp_Protocol::write_command, and Slot1Comp_Rom::start.            *)
write_command(c) ==
    /\ operation' = IF c.op \in Unanswered THEN operation ELSE c.op
    /\ mode' = CASE c.op = "key1" -> "KEY1" [] c.op = "normal" -> "NORMAL" [] OTHER -> mode
    /\ IF c.op \in {"header", "secure", "read", "unknown"}
         THEN romOperation' = c.op /\ romAddress' = c.address
         ELSE UNCHANGED <<romOperation, romAddress>>

(* MMU_writeToGCControl with the start bit: whatever runs, also for the    *)
(* other CPU, a new command goes to the card.                              *)
StartTransfer(p) ==
    /\ \E c \in CommandsIn(mode), size \in BlockSizes :
         /\ write_command(c)
         /\ wordsLeft' = [wordsLeft EXCEPT ![p] = size]
         /\ busy' = [busy EXCEPT ![p] = size > 0]
         /\ request' = IF c.op \in Unanswered THEN request
                       ELSE [op |-> c.op, address |-> c.address, words |-> 0]
         /\ due' = [due EXCEPT ![p] = size]
    /\ UNCHANGED delivered

(* MMU_writeToGCControl without it: the busy bits are cleared, but words   *)
(* that are left can still be moved.                                       *)
StopTransfer(p) ==
    /\ busy' = [busy EXCEPT ![p] = FALSE]
    /\ due' = [due EXCEPT ![p] = 0]
    /\ UNCHANGED <<cardState, wordsLeft, delivered, request>>

(* The next address without the wrap at the end of the block.              *)
LinearNext(a) == a + 1

BlockStart(a) == a - (a % BlockWords)
WrappedNext(a) == BlockStart(a) + ((a + 1) % BlockWords)

Redirected(a) == IF a < ReadStart THEN ReadStart + (a % RedirectWords) ELSE a

(* Slot1Comp_Rom::read: the word and the address afterwards.  Beyond the   *)
(* end of the file the address stays.                                      *)
RomRead ==
    LET a == Redirected(romAddress % CardSize)
    IN  CASE romOperation = "header" -> [word |-> <<"rom", romAddress>>, next |-> (romAddress + 1) % BlockWords]
          [] romOperation = "secure" -> [word |-> <<"secure", (romAddress - SecureStart) % SecureWords>>,
                                         next |-> WrappedNext(romAddress)]
          [] romOperation = "read"   -> [word |-> IF a + 1 > RomSize THEN <<"FF", 0>> ELSE <<"rom", a>>,
                                         next |-> IF a + 1 > RomSize THEN a ELSE WrappedNext(a)]
          [] OTHER                   -> [word |-> <<"zero", 0>>, next |-> romAddress]

(* Slot1Comp_Protocol::read_GCDATAIN.                                      *)
read_GCDATAIN ==
    CASE operation = "dummy" -> [word |-> <<"FF", 0>>, next |-> romAddress]
      [] operation = "chip"  -> [word |-> <<"chip", 0>>, next |-> romAddress]
      [] OTHER               -> RomRead

(* A word is moved; MMU_GC_endTransfer after the last one, and after any   *)
(* that follows it.                                                        *)
Counts(p) ==
    /\ wordsLeft[p] > -MaxExtra
    /\ wordsLeft' = [wordsLeft EXCEPT ![p] = @ - 1]
    /\ busy' = [busy EXCEPT ![p] = @ /\ wordsLeft'[p] > 0]
    /\ due' = [due EXCEPT ![p] = IF @ > 0 THEN @ - 1 ELSE 0]

(* MMU_readFromGC, by a CPU or by its DMA.  Only when exactly no word is   *)
(* left it reads nothing.                                                  *)
ReadData(p) ==
    /\ wordsLeft[p] # 0 /\ request.words < MaxWords
    /\ Counts(p)
    /\ delivered' = read_GCDATAIN.word
    /\ romAddress' = read_GCDATAIN.next
    /\ request' = [request EXCEPT !.words = @ + 1]
    /\ UNCHANGED <<mode, operation, romOperation>>

(* MMU_writeToGC, whether or not a transfer runs; these cards ignore the   *)
(* data.                                                                   *)
WriteData(p) ==
    /\ Counts(p)
    /\ UNCHANGED <<cardState, delivered, request>>

(* Reset, with the BIOS or with a fake boot; the ROM keeps its state.      *)
CardReset ==
    /\ mode' \in {"RAW", "NORMAL"}
    /\ operation' = "dummy"
    /\ wordsLeft' = [p \in Cpus |-> 0] /\ busy' = [p \in Cpus |-> FALSE]
    /\ delivered' = <<"none", 0>> /\ request' = NoRequest /\ due' = [p \in Cpus |-> 0]
    /\ UNCHANGED <<romOperation, romAddress>>

CardNext ==
    \/ \E p \in Cpus : StartTransfer(p) \/ StopTransfer(p) \/ ReadData(p) \/ WriteData(p)
    \/ CardReset

CardSpec == CardInit /\ [][CardNext]_cardVars

-----------------------------------------------------------------------------
CardTypeOK ==
    /\ mode \in {"RAW", "KEY1", "NORMAL"}
    /\ operation \in {"dummy", "chip", "header", "secure", "read", "unknown"}
    /\ romOperation \in {"header", "secure", "read", "unknown"} /\ romAddress \in 0 .. CardSize - 1
    /\ wordsLeft \in [Cpus -> Int] /\ busy \in [Cpus -> BOOLEAN] /\ due \in [Cpus -> Nat]

(* The i-th word that a card sends for a read of address a: "smaller       *)
(* addresses will be silently redirected", "the datastream wraps to the    *)
(* begin of the current 4K block", and nothing follows the end of the file.*)
ReadAddress(a, i) == LET s == Redirected(a) IN BlockStart(s) + ((s + i) % BlockWords)

Word(op, a, i) ==
    CASE op = "dummy"  -> <<"FF", 0>>
      [] op = "chip"   -> <<"chip", 0>>
      [] op = "header" -> <<"rom", i % BlockWords>>
      [] op = "secure" -> <<"secure", (a - SecureStart + (i % BlockWords)) % SecureWords>>
      [] op = "read"   -> IF \E j \in 0 .. i : ReadAddress(a, j) >= RomSize THEN <<"FF", 0>>
                          ELSE <<"rom", ReadAddress(a, i)>>
      [] OTHER         -> <<"zero", 0>>

(* Whatever commands, modes, stopped and unfinished transfers of either    *)
(* CPU came before, and while both CPUs read by turns, the words that      *)
(* arrive are those of the last command that has an answer, each once and  *)
(* from its first address on; and a CPU's transfer is busy as long as it   *)
(* waits for words that it asked for, unless it has stopped the transfer.  *)
CardDataExact ==
    /\ request.words > 0 => delivered = Word(request.op, request.address, request.words - 1)
    /\ \A p \in Cpus : busy[p] <=> due[p] > 0
=============================================================================
