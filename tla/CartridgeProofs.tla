-------------------------- MODULE CartridgeProofs ---------------------------
(***************************************************************************)
(* The two memories of a cartridge, for all of their sizes.                *)
(*                                                                         *)
(* The words of the game card are those of the present command, for any    *)
(* sizes of the ROM, its areas and blocks, any order of commands, and any  *)
(* transfers that were cut short.  The ROM keeps one address.  The         *)
(* invariant says where it stands after a number of words of each command, *)
(* and that the protocol and the ROM have the operation of the command     *)
(* that runs.                                                              *)
(*                                                                         *)
(* The backup memory returns what was stored, for any bytes that are sent  *)
(* to it.  The stream of its file is not positioned for each byte, and the *)
(* file is shorter than the memory.  The invariant says where the stream   *)
(* is when a byte of data comes next, what the file holds as compared with *)
(* the memory, and the same of a saved state.                              *)
(***************************************************************************)
EXTENDS Card, Backup, TLAPS, SequenceTheorems, WellFoundedInduction

-----------------------------------------------------------------------------
(* Remainders, which the provers know only by their definition.            *)
LEMMA Remainder ==
    ASSUME NEW x \in Int, NEW b \in Nat \ {0}
    PROVE  /\ x % b \in 0 .. b - 1 /\ x \div b \in Int
           /\ x = b * (x \div b) + (x % b)
  OBVIOUS

LEMMA RemainderUnique ==
    ASSUME NEW x \in Int, NEW b \in Nat \ {0}, NEW q \in Int, NEW r \in 0 .. b - 1, x = b * q + r
    PROVE  x % b = r
  OBVIOUS

(* Adding a multiple keeps the remainder.                                  *)
LEMMA RemainderOfSum ==
    ASSUME NEW x \in Int, NEW y \in Int, NEW b \in Nat \ {0}, x % b = 0
    PROVE  (x + y) % b = y % b
<1> DEFINE p == x \div b
           q == y \div b
           r == y % b
<1>1. p \in Int /\ x = b * p
  BY Remainder
<1>2. q \in Int /\ r \in 0 .. b - 1 /\ y = b * q + r
  BY Remainder
<1> HIDE DEF p, q, r
<1>3. x + y = b * (p + q) + r
  BY <1>1, <1>2
<1>4. (x + y) % b = r
  BY <1>1, <1>2, <1>3, RemainderUnique
<1> QED
  BY <1>4 DEF r

(* One more than a remainder.                                              *)
LEMMA RemainderOfNext ==
    ASSUME NEW x \in Int, NEW b \in Nat \ {0}
    PROVE  ((x % b) + 1) % b = (x + 1) % b
<1> DEFINE q == x \div b
           r == x % b
<1>1. q \in Int /\ r \in 0 .. b - 1 /\ x = b * q + r
  BY Remainder
<1> HIDE DEF q, r
<1>2. b * q \in Int /\ (b * q) % b = 0
  BY <1>1, RemainderUnique
<1>3. (b * q + (r + 1)) % b = (r + 1) % b
  BY <1>1, <1>2, RemainderOfSum
<1>4. x + 1 = b * q + (r + 1)
  BY <1>1
<1> QED
  BY <1>3, <1>4 DEF r

(* Multiples are apart.                                                    *)
LEMMA MultiplesApart ==
    ASSUME NEW x \in Int, NEW y \in Int, NEW b \in Nat \ {0}, x % b = 0, y % b = 0, x < y
    PROVE  x + b <= y
<1> DEFINE p == x \div b
           q == y \div b
<1>1. p \in Int /\ x = b * p /\ q \in Int /\ y = b * q
  BY Remainder
<1> HIDE DEF p, q
<1>2. p < q
  <2> SUFFICES ASSUME q <= p PROVE b * q <= b * p
    BY <1>1
  <2> QED
    BY <1>1
<1>3. b * (q - p) >= b /\ b * (q - p) = y - x
  BY <1>1, <1>2
<1> QED
  BY <1>3

-----------------------------------------------------------------------------
(* The block of an address.                                                *)
LEMMA BlockBounds ==
    ASSUME NEW x \in Nat
    PROVE  /\ BlockStart(x) \in Nat /\ BlockStart(x) % BlockWords = 0
           /\ x \in BlockStart(x) .. BlockStart(x) + BlockWords - 1
           /\ x < CardSize => BlockStart(x) + BlockWords <= CardSize
           /\ x >= ReadStart => BlockStart(x) >= ReadStart
<1>0. CardSize % BlockWords = 0 /\ ReadStart % BlockWords = 0
  BY CardAssumption
<1>1. /\ BlockWords \in Nat \ {0} /\ CardSize \in Nat /\ ReadStart \in Nat
      /\ CardSize \in Int /\ ReadStart \in Int
  BY CardAssumption
<1>2. BlockStart(x) \in Int /\ BlockStart(x) % BlockWords = 0
  <2> DEFINE q == x \div BlockWords
             r == x % BlockWords
  <2>1. q \in Int /\ r \in 0 .. BlockWords - 1 /\ x = BlockWords * q + r
    BY <1>1, Remainder
  <2>2. BlockStart(x) = x - r
    BY DEF BlockStart
  <2> HIDE DEF q, r
  <2>3. BlockStart(x) = BlockWords * q + 0 /\ BlockStart(x) \in Int
    BY <1>1, <2>1, <2>2
  <2>4. 0 \in 0 .. BlockWords - 1
    BY <1>1
  <2> QED
    BY <1>1, <2>1, <2>3, <2>4, RemainderUnique, Zenon
<1>7. x % BlockWords \in 0 .. BlockWords - 1
  BY <1>1, Remainder
<1>3. BlockStart(x) \in Nat
  <2>1. ASSUME BlockStart(x) < 0 PROVE FALSE
    <3>1. 0 % BlockWords = 0
      BY <1>1, RemainderUnique
    <3>2. BlockStart(x) + BlockWords <= 0
      BY <1>1, <1>2, <2>1, <3>1, MultiplesApart
    <3> QED
      BY <1>1, <1>7, <3>2 DEF BlockStart
  <2> QED
    BY <1>2, <2>1
<1>4. x \in BlockStart(x) .. BlockStart(x) + BlockWords - 1
  BY <1>1, <1>7, <1>3 DEF BlockStart
<1>5. ASSUME x < CardSize PROVE BlockStart(x) + BlockWords <= CardSize
  <2>1. BlockStart(x) < CardSize
    BY <1>1, <1>3, <1>4, <1>5
  <2> QED
    BY <1>0, <1>1, <1>2, <2>1, MultiplesApart, Zenon
<1>6. ASSUME x >= ReadStart, BlockStart(x) < ReadStart PROVE FALSE
  <2>1. BlockStart(x) + BlockWords <= ReadStart
    BY <1>0, <1>1, <1>2, <1>6, MultiplesApart, Zenon
  <2> QED
    BY <1>1, <1>3, <1>4, <1>6, <2>1
<1> QED
  BY <1>1, <1>2, <1>3, <1>4, <1>5, <1>6

(* A block has one start, and the next address is in it.                   *)
LEMMA WithinBlock ==
    ASSUME NEW base \in Nat, base % BlockWords = 0, NEW r \in 0 .. BlockWords - 1
    PROVE  /\ BlockStart(base + r) = base
           /\ WrappedNext(base + r) = base + ((r + 1) % BlockWords)
<1>1. BlockWords \in Nat \ {0}
  BY CardAssumption
<1>2. r % BlockWords = r
  BY <1>1, RemainderUnique
<1>3. (base + r) % BlockWords = r
  BY <1>1, <1>2, RemainderOfSum
<1>4. BlockStart(base + r) = base
  BY <1>1, <1>3 DEF BlockStart
<1>5. (base + (r + 1)) % BlockWords = (r + 1) % BlockWords
  <2>1. base \in Int /\ r + 1 \in Int
    BY <1>1
  <2> QED
    BY <1>1, <2>1, RemainderOfSum
<1>6. base + r + 1 = base + (r + 1)
  BY <1>1
<1> QED
  BY <1>4, <1>5, <1>6 DEF WrappedNext

(* Where a read of address a takes its words from: always one block, that  *)
(* the card has.                                                           *)
Block(a) == BlockStart(Redirected(a))

LEMMA RedirectedOnCard ==
    ASSUME NEW a \in 0 .. CardSize - 1
    PROVE  Redirected(a) \in ReadStart .. CardSize - 1
<1>1. /\ CardSize \in Nat /\ ReadStart \in Nat /\ BlockWords \in Nat
      /\ RedirectWords \in Nat \ {0} /\ RedirectWords <= BlockWords /\ ReadStart + BlockWords <= CardSize
  BY CardAssumption
<1>2. a % RedirectWords \in 0 .. RedirectWords - 1
  BY <1>1, Remainder
<1> QED
  BY <1>1, <1>2 DEF Redirected

LEMMA BlockOfRead ==
    ASSUME NEW a \in 0 .. CardSize - 1
    PROVE  /\ Block(a) \in Nat /\ Block(a) % BlockWords = 0
           /\ ReadStart <= Block(a) /\ Block(a) + BlockWords <= CardSize
           /\ ReadAddress(a, 0) = Redirected(a)
           /\ \A i \in Nat : /\ ReadAddress(a, i) \in Block(a) .. Block(a) + BlockWords - 1
                             /\ WrappedNext(ReadAddress(a, i)) = ReadAddress(a, i + 1)
<1> DEFINE s == Redirected(a)
<1>1. BlockWords \in Nat \ {0} /\ CardSize \in Nat /\ ReadStart \in Nat
  BY CardAssumption
<1>2. s \in Nat /\ ReadStart <= s /\ s < CardSize
  BY <1>1, RedirectedOnCard
<1> HIDE DEF s
<1>3. /\ BlockStart(s) \in Nat /\ BlockStart(s) % BlockWords = 0
      /\ BlockStart(s) + BlockWords <= CardSize /\ ReadStart <= BlockStart(s)
      /\ s \in BlockStart(s) .. BlockStart(s) + BlockWords - 1
  BY <1>1, <1>2, BlockBounds
<1>4. Block(a) = BlockStart(s) /\ \A i : ReadAddress(a, i) = BlockStart(s) + ((s + i) % BlockWords)
  BY DEF Block, ReadAddress, s
<1>5. ReadAddress(a, 0) = s
  <2>1. s + 0 = s
    BY <1>2
  <2> QED
    <3>1. s % BlockWords \in Int
      BY <1>1, <1>2, Remainder
    <3>2. ReadAddress(a, 0) = BlockStart(s) + (s % BlockWords)
      BY <1>4, <2>1
    <3> QED
      BY <1>2, <3>1, <3>2 DEF BlockStart
<1>6. ASSUME NEW i \in Nat
      PROVE  /\ ReadAddress(a, i) \in Block(a) .. Block(a) + BlockWords - 1
             /\ WrappedNext(ReadAddress(a, i)) = ReadAddress(a, i + 1)
  <2> DEFINE r == (s + i) % BlockWords
  <2>1. s + i \in Int
    BY <1>2
  <2>2. r \in 0 .. BlockWords - 1
    BY <1>1, <2>1, Remainder
  <2>3. (r + 1) % BlockWords = (s + i + 1) % BlockWords
    BY <1>1, <2>1, RemainderOfNext
  <2> HIDE DEF r
  <2>4. WrappedNext(BlockStart(s) + r) = BlockStart(s) + ((r + 1) % BlockWords)
    BY <1>3, <2>2, WithinBlock
  <2>5. ReadAddress(a, i) = BlockStart(s) + r
    BY <1>4 DEF r
  <2>6. s + (i + 1) = s + i + 1
    BY <1>2
  <2>7. ReadAddress(a, i + 1) = BlockStart(s) + ((s + i + 1) % BlockWords)
    BY <1>4, <2>6
  <2>8. BlockStart(s) + r \in BlockStart(s) .. BlockStart(s) + BlockWords - 1
    BY <1>1, <1>3, <2>2
  <2> QED
    BY <1>4, <2>3, <2>4, <2>5, <2>7, <2>8
<1> QED
  BY <1>3, <1>4, <1>5, <1>6 DEF s

(* The end of the file was met among the words before the i-th one.        *)
EndMet(a, i) == \E j \in 0 .. i - 1 : ReadAddress(a, j) >= RomSize

(* Where the address of the ROM stands before the i-th word of a read: at  *)
(* the command's own address, at the place of the word, or behind the file.*)
Standing(a, i, x) ==
    \/ i = 0 /\ x = a
    \/ i > 0 /\ ~EndMet(a, i) /\ x = ReadAddress(a, i)
    \/ i > 0 /\ EndMet(a, i) /\ x >= RomSize /\ x \in Block(a) .. Block(a) + BlockWords - 1

(* The word and the standing afterwards.                                   *)
LEMMA ReadOnward ==
    ASSUME NEW a \in 0 .. CardSize - 1, NEW i \in Nat, NEW x \in Nat, Standing(a, i, x)
    PROVE  LET c == Redirected(x % CardSize)
           IN  /\ c + 1 > RomSize <=> EndMet(a, i + 1)
               /\ c + 1 <= RomSize => c = ReadAddress(a, i)
               /\ Standing(a, i + 1, IF c + 1 > RomSize THEN c ELSE WrappedNext(c))
<1> DEFINE c == Redirected(x % CardSize)
<1>1. BlockWords \in Nat \ {0} /\ CardSize \in Nat \ {0} /\ ReadStart \in Nat /\ RomSize \in Nat
  BY CardAssumption
<1>2. /\ Block(a) \in Nat /\ ReadStart <= Block(a) /\ Block(a) + BlockWords <= CardSize
      /\ ReadAddress(a, 0) = Redirected(a)
      /\ \A j \in Nat : /\ ReadAddress(a, j) \in Block(a) .. Block(a) + BlockWords - 1
                        /\ WrappedNext(ReadAddress(a, j)) = ReadAddress(a, j + 1)
  BY BlockOfRead
<1>3. x < CardSize
  BY <1>1, <1>2 DEF Standing
<1>4. x % CardSize = x
  BY <1>1, <1>3
<1>5. c = IF i = 0 THEN ReadAddress(a, 0) ELSE x
  <2>1. CASE i = 0
    BY <1>2, <1>4, <2>1 DEF Standing
  <2>2. CASE i > 0
    <3>1. x >= ReadStart
      BY <1>1, <1>2, <2>2 DEF Standing
    <3> QED
      BY <1>1, <1>4, <2>2, <3>1 DEF Redirected
  <2> QED
    BY <2>1, <2>2
<1>6. c \in Block(a) .. Block(a) + BlockWords - 1
  BY <1>1, <1>2, <1>5 DEF Standing
<1> HIDE DEF c
<1>7. EndMet(a, i + 1) <=> EndMet(a, i) \/ ReadAddress(a, i) >= RomSize
  BY DEF EndMet
<1>8. ~EndMet(a, 0)
  BY DEF EndMet
<1>9. \/ ~EndMet(a, i) /\ c = ReadAddress(a, i)
      \/ EndMet(a, i) /\ c >= RomSize
  BY <1>5, <1>8 DEF Standing
<1>10. c \in Int /\ ReadAddress(a, i) \in Int
  BY <1>1, <1>2, <1>6
<1>11. (c + 1 > RomSize <=> EndMet(a, i + 1)) /\ (c + 1 <= RomSize => c = ReadAddress(a, i))
  BY <1>1, <1>7, <1>9, <1>10
<1>12. Standing(a, i + 1, IF c + 1 > RomSize THEN c ELSE WrappedNext(c))
  <2>1. CASE c + 1 > RomSize
    BY <1>1, <1>6, <1>10, <1>11, <2>1 DEF Standing
  <2>2. CASE ~(c + 1 > RomSize)
    <3>1. WrappedNext(c) = ReadAddress(a, i + 1)
      BY <1>1, <1>2, <1>10, <1>11, <2>2
    <3> QED
      BY <1>1, <1>11, <2>2, <3>1 DEF Standing
  <2> QED
    BY <2>1, <2>2
<1> QED
  BY <1>11, <1>12 DEF c

-----------------------------------------------------------------------------
FromRom == {"header", "secure", "read", "unknown"}
Answered == FromRom \cup {"dummy", "chip"}
Requests == [op : Answered, address : 0 .. CardSize - 1, words : Nat]

CardTyped == CardTypeOK /\ request \in Requests

(* While a CPU waits for words, its register counts them.                  *)
Counted ==
    \A p \in Cpus : /\ busy[p] <=> due[p] > 0
                    /\ due[p] > 0 => wordsLeft[p] = due[p]

(* Protocol and ROM carry out the command that is answered.                *)
Answering ==
    /\ operation = request.op
    /\ request.op \in FromRom => romOperation = request.op

(* Where the ROM's address stands.                                         *)
Followed ==
    /\ request.op = "header" => romAddress = request.words % BlockWords
    /\ request.op = "secure" => /\ request.address % BlockWords = 0
                                /\ romAddress = request.address + (request.words % BlockWords)
    /\ request.op = "read"   => Standing(request.address, request.words, romAddress)

WordsExact == request.words > 0 => delivered = Word(request.op, request.address, request.words - 1)

CardInv == CardTyped /\ Counted /\ Answering /\ Followed /\ WordsExact

LEMMA CardSizes ==
    /\ BlockWords \in Nat \ {0} /\ CardSize \in Nat \ {0} /\ RomSize \in Nat \ {0}
    /\ SecureStart \in Nat /\ ReadStart \in Nat /\ BlockWords <= CardSize
    /\ SecureStart + SecureWords <= CardSize /\ SecureWords \in Nat
    /\ 0 % BlockWords = 0
  BY CardAssumption

(* What software may ask for.                                              *)
LEMMA CommandTyped ==
    ASSUME NEW m \in {"RAW", "KEY1", "NORMAL"}, NEW c \in CommandsIn(m)
    PROVE  /\ c.op \in Answered \cup Unanswered /\ c.address \in 0 .. CardSize - 1
           /\ c.op = "header" => c.address = 0
           /\ c.op = "secure" => c.address % BlockWords = 0
<1>1. 0 \in 0 .. CardSize - 1
  BY CardSizes
<1>2. CASE m = "RAW"
  BY <1>1, <1>2 DEF CommandsIn, Answered, Unanswered, FromRom
<1>3. CASE m = "KEY1"
  <2>1. \A a \in SecureStart .. SecureStart + SecureWords - 1 : a \in 0 .. CardSize - 1
    BY CardSizes
  <2> QED
    BY <1>1, <1>3, <2>1 DEF CommandsIn, Answered, Unanswered, FromRom
<1>4. CASE m = "NORMAL"
  BY <1>1, <1>4, CardAssumption DEF CommandsIn, Answered, Unanswered, FromRom
<1> QED
  BY <1>2, <1>3, <1>4

(* A command that is answered starts an answer, any other changes none.    *)
LEMMA CommandSent ==
    ASSUME CardInv, NEW c \in CommandsIn(mode), write_command(c),
           request' = IF c.op \in Unanswered THEN request
                      ELSE [op |-> c.op, address |-> c.address, words |-> 0],
           delivered' = delivered
    PROVE  /\ mode' \in {"RAW", "KEY1", "NORMAL"}
           /\ operation' \in Answered /\ romOperation' \in FromRom /\ romAddress' \in 0 .. CardSize - 1
           /\ request' \in Requests /\ Answering' /\ Followed' /\ WordsExact'
<1>1. /\ c.op \in Answered \cup Unanswered /\ c.address \in 0 .. CardSize - 1
      /\ c.op = "header" => c.address = 0
      /\ c.op = "secure" => c.address % BlockWords = 0
  BY CommandTyped DEF CardInv, CardTyped, CardTypeOK
<1>2. /\ mode' \in {"RAW", "KEY1", "NORMAL"}
      /\ operation' = IF c.op \in Unanswered THEN operation ELSE c.op
      /\ romOperation' = IF c.op \in FromRom THEN c.op ELSE romOperation
      /\ romAddress' = IF c.op \in FromRom THEN c.address ELSE romAddress
  BY DEF write_command, FromRom, CardInv, CardTyped, CardTypeOK
<1>3. /\ operation \in Answered /\ romOperation \in FromRom /\ romAddress \in 0 .. CardSize - 1
      /\ request \in Requests
  BY DEF CardInv, CardTyped, CardTypeOK, Answered, FromRom
<1>4. CASE c.op \in Unanswered
  <2>1. c.op \notin FromRom
    BY <1>4 DEF Unanswered, FromRom
  <2>2. operation' = operation /\ romOperation' = romOperation /\ romAddress' = romAddress /\ request' = request
    BY <1>2, <1>4, <2>1
  <2> QED
    BY <1>2, <1>3, <2>2 DEF CardInv, Answering, Followed, WordsExact
<1>5. CASE c.op \notin Unanswered
  <2>1. c.op \in Answered
    BY <1>1, <1>5
  <2>2. request' \in Requests /\ request'.op = c.op /\ request'.address = c.address /\ request'.words = 0
    BY <1>1, <1>5, <2>1 DEF Requests
  <2>3. Answering'
    BY <1>2, <1>5, <2>2 DEF Answering
  <2>4. Followed'
    <3>1. 0 % BlockWords = 0 /\ c.address + 0 = c.address
      BY <1>1, CardSizes
    <3> QED
      BY <1>1, <1>2, <2>2, <3>1 DEF Followed, Standing, FromRom
  <2>5. WordsExact'
    BY <2>2 DEF WordsExact
  <2> QED
    BY <1>1, <1>2, <1>3, <1>5, <2>1, <2>2, <2>3, <2>4, <2>5
<1> QED
  BY <1>4, <1>5

(* A transfer starts, whatever runs.                                       *)
LEMMA StartStep ==
    ASSUME CardInv, NEW p \in Cpus, StartTransfer(p)
    PROVE  CardInv'
<1>1. PICK c \in CommandsIn(mode), size \in BlockSizes :
        /\ write_command(c)
        /\ wordsLeft' = [wordsLeft EXCEPT ![p] = size]
        /\ busy' = [busy EXCEPT ![p] = size > 0]
        /\ request' = IF c.op \in Unanswered THEN request
                      ELSE [op |-> c.op, address |-> c.address, words |-> 0]
        /\ due' = [due EXCEPT ![p] = size]
  BY DEF StartTransfer
<1>2. size \in Nat
  BY CardAssumption
<1>3. delivered' = delivered
  BY DEF StartTransfer
<1>4. /\ mode' \in {"RAW", "KEY1", "NORMAL"}
      /\ operation' \in Answered /\ romOperation' \in FromRom /\ romAddress' \in 0 .. CardSize - 1
      /\ request' \in Requests /\ Answering' /\ Followed' /\ WordsExact'
  BY <1>1, <1>3, CommandSent
<1>5. /\ wordsLeft \in [Cpus -> Int] /\ busy \in [Cpus -> BOOLEAN] /\ due \in [Cpus -> Nat]
  BY DEF CardInv, CardTyped, CardTypeOK
<1>6. wordsLeft' \in [Cpus -> Int] /\ busy' \in [Cpus -> BOOLEAN] /\ due' \in [Cpus -> Nat]
  BY <1>1, <1>2, <1>5
<1>7. Counted'
  <2> SUFFICES ASSUME NEW q \in Cpus
               PROVE  /\ busy'[q] <=> due'[q] > 0
                      /\ due'[q] > 0 => wordsLeft'[q] = due'[q]
    BY DEF Counted
  <2>1. CASE q = p
    BY <1>1, <1>5, <2>1
  <2>2. CASE q # p
    BY <1>1, <1>5, <2>2 DEF CardInv, Counted
  <2> QED
    BY <2>1, <2>2
<1>8. CardTyped'
  BY <1>4, <1>6 DEF CardTyped, CardTypeOK, Answered, FromRom
<1> QED
  BY <1>4, <1>7, <1>8 DEF CardInv

(* A CPU gives up its transfer.                                            *)
LEMMA StopStep ==
    ASSUME CardInv, NEW p \in Cpus, StopTransfer(p)
    PROVE  CardInv'
<1>1. /\ busy' = [busy EXCEPT ![p] = FALSE] /\ due' = [due EXCEPT ![p] = 0]
      /\ UNCHANGED <<mode, operation, romOperation, romAddress, wordsLeft, delivered, request>>
  BY DEF StopTransfer, cardState
<1>2. wordsLeft \in [Cpus -> Int] /\ busy \in [Cpus -> BOOLEAN] /\ due \in [Cpus -> Nat]
  BY DEF CardInv, CardTyped, CardTypeOK
<1>3. busy' \in [Cpus -> BOOLEAN] /\ due' \in [Cpus -> Nat]
  BY <1>1, <1>2
<1>4. Counted'
  <2> SUFFICES ASSUME NEW q \in Cpus
               PROVE  /\ busy'[q] <=> due'[q] > 0
                      /\ due'[q] > 0 => wordsLeft'[q] = due'[q]
    BY DEF Counted
  <2>1. CASE q = p
    BY <1>1, <1>2, <2>1
  <2>2. CASE q # p
    BY <1>1, <1>2, <2>2 DEF CardInv, Counted
  <2> QED
    BY <2>1, <2>2
<1>5. CardTyped' /\ Answering' /\ Followed' /\ WordsExact'
  BY <1>1, <1>3 DEF CardInv, CardTyped, CardTypeOK, Answering, Followed, WordsExact
<1> QED
  BY <1>4, <1>5 DEF CardInv

(* A word is counted, also behind the end of a transfer.                   *)
LEMMA OneWord ==
    ASSUME CardInv, NEW p \in Cpus, Counts(p)
    PROVE  /\ wordsLeft' \in [Cpus -> Int] /\ busy' \in [Cpus -> BOOLEAN] /\ due' \in [Cpus -> Nat]
           /\ Counted'
<1>1. wordsLeft \in [Cpus -> Int] /\ busy \in [Cpus -> BOOLEAN] /\ due \in [Cpus -> Nat]
  BY DEF CardInv, CardTyped, CardTypeOK
<1>2. /\ wordsLeft' = [wordsLeft EXCEPT ![p] = @ - 1]
      /\ busy' = [busy EXCEPT ![p] = @ /\ wordsLeft'[p] > 0]
      /\ due' = [due EXCEPT ![p] = IF @ > 0 THEN @ - 1 ELSE 0]
  BY DEF Counts
<1>3. wordsLeft' \in [Cpus -> Int] /\ busy' \in [Cpus -> BOOLEAN] /\ due' \in [Cpus -> Nat]
  BY <1>1, <1>2
<1>4. Counted'
  <2> SUFFICES ASSUME NEW q \in Cpus
               PROVE  /\ busy'[q] <=> due'[q] > 0
                      /\ due'[q] > 0 => wordsLeft'[q] = due'[q]
    BY DEF Counted
  <2>1. (busy[q] <=> due[q] > 0) /\ (due[q] > 0 => wordsLeft[q] = due[q])
    BY DEF CardInv, Counted
  <2>2. CASE q = p
    <3>1. /\ wordsLeft'[q] = wordsLeft[q] - 1 /\ due'[q] = IF due[q] > 0 THEN due[q] - 1 ELSE 0
          /\ busy'[q] <=> busy[q] /\ wordsLeft'[q] > 0
      BY <1>1, <1>2, <2>2
    <3>2. wordsLeft[q] \in Int /\ due[q] \in Nat
      BY <1>1
    <3> QED
      BY <2>1, <3>1, <3>2
  <2>3. CASE q # p
    BY <1>1, <1>2, <2>1, <2>3
  <2> QED
    BY <2>2, <2>3
<1> QED
  BY <1>3, <1>4

(* Wherever the ROM stands, the next address is on the card.               *)
LEMMA NextOnCard ==
    ASSUME NEW x \in 0 .. CardSize - 1
    PROVE  /\ (x + 1) % BlockWords \in 0 .. CardSize - 1
           /\ WrappedNext(x) \in 0 .. CardSize - 1
           /\ Redirected(x % CardSize) \in 0 .. CardSize - 1
<1>1. /\ BlockWords \in Nat \ {0} /\ CardSize \in Nat \ {0} /\ BlockWords <= CardSize
      /\ ReadStart \in Nat /\ x \in Nat /\ x + 1 \in Int /\ x < CardSize
  BY CardSizes
<1>2. (x + 1) % BlockWords \in 0 .. BlockWords - 1
  BY <1>1, Remainder
<1>3. BlockStart(x) \in Nat /\ BlockStart(x) + BlockWords <= CardSize
  BY <1>1, BlockBounds
<1>4. x % CardSize = x
  BY <1>1
<1>5. Redirected(x) \in ReadStart .. CardSize - 1
  BY RedirectedOnCard
<1> QED
  BY <1>1, <1>2, <1>3, <1>4, <1>5 DEF WrappedNext

LEMMA AnswerOnCard ==
    ASSUME CardTypeOK
    PROVE  read_GCDATAIN.next \in 0 .. CardSize - 1
<1> DEFINE c == Redirected(romAddress % CardSize)
<1>1. romAddress \in 0 .. CardSize - 1
  BY DEF CardTypeOK
<1>2. /\ (romAddress + 1) % BlockWords \in 0 .. CardSize - 1
      /\ WrappedNext(romAddress) \in 0 .. CardSize - 1
      /\ c \in 0 .. CardSize - 1
  BY <1>1, NextOnCard
<1>3. WrappedNext(c) \in 0 .. CardSize - 1
  BY <1>2, NextOnCard
<1>4. RomRead.next \in {(romAddress + 1) % BlockWords, WrappedNext(romAddress), c, WrappedNext(c), romAddress}
  BY DEF RomRead, CardTypeOK
<1>5. RomRead.next \in 0 .. CardSize - 1
  BY <1>1, <1>2, <1>3, <1>4
<1> QED
  BY <1>1, <1>5 DEF read_GCDATAIN, CardTypeOK

(* The next word of the running command arrives, and the ROM moves on.     *)
LEMMA NextWord ==
    ASSUME CardInv, NEW i \in Nat, i = request.words, NEW a, a = request.address
    PROVE  /\ read_GCDATAIN.word = Word(request.op, a, i)
           /\ request.op = "header" => read_GCDATAIN.next = (i + 1) % BlockWords
           /\ request.op = "secure" => read_GCDATAIN.next = a + ((i + 1) % BlockWords)
           /\ request.op = "read"   => Standing(a, i + 1, read_GCDATAIN.next)
<1>1. /\ a \in 0 .. CardSize - 1 /\ a \in Nat /\ romAddress \in Nat
      /\ BlockWords \in Nat \ {0} /\ CardSize \in Nat /\ RomSize \in Nat /\ SecureStart \in Nat
  BY CardSizes DEF CardInv, CardTyped, CardTypeOK, Requests
<1>2. operation = request.op /\ (request.op \in FromRom => romOperation = request.op)
  BY DEF CardInv, Answering
<1>3. request.op \in FromRom => read_GCDATAIN = RomRead
  BY <1>2 DEF read_GCDATAIN, FromRom
<1>4. i % BlockWords \in 0 .. BlockWords - 1 /\ ((i % BlockWords) + 1) % BlockWords = (i + 1) % BlockWords
  <2>1. i \in Int
    OBVIOUS
  <2>2. i % BlockWords \in 0 .. BlockWords - 1
    BY <1>1, <2>1, Remainder
  <2>3. ((i % BlockWords) + 1) % BlockWords = (i + 1) % BlockWords
    BY <1>1, <2>1, RemainderOfNext
  <2> QED
    BY <2>2, <2>3
<1>5. CASE request.op = "dummy" \/ request.op = "chip"
  BY <1>2, <1>5 DEF read_GCDATAIN, Word
<1>6. CASE request.op = "unknown"
  BY <1>2, <1>3, <1>6 DEF RomRead, Word, FromRom
<1>7. CASE request.op = "header"
  <2>1. romAddress = i % BlockWords
    BY <1>7 DEF CardInv, Followed
  <2>2. RomRead.word = <<"rom", romAddress>> /\ RomRead.next = (romAddress + 1) % BlockWords
    BY <1>2, <1>7 DEF RomRead, FromRom
  <2> QED
    BY <1>3, <1>4, <1>7, <2>1, <2>2 DEF Word, FromRom
<1>8. CASE request.op = "secure"
  <2> DEFINE r == i % BlockWords
  <2>1. a % BlockWords = 0 /\ romAddress = a + r
    BY <1>8 DEF CardInv, Followed
  <2>2. WrappedNext(a + r) = a + ((r + 1) % BlockWords)
    BY <1>1, <1>4, <2>1, WithinBlock
  <2>3. /\ RomRead.word = <<"secure", (romAddress - SecureStart) % SecureWords>>
        /\ RomRead.next = WrappedNext(romAddress)
    BY <1>2, <1>8 DEF RomRead, FromRom
  <2>4. Word(request.op, a, i) = <<"secure", (a - SecureStart + r) % SecureWords>>
    BY <1>8 DEF Word
  <2>5. romAddress - SecureStart = a - SecureStart + r
    <3>1. r \in Int
      BY <1>4
    <3> HIDE DEF r
    <3> QED
      BY <1>1, <2>1, <3>1
  <2> QED
    BY <1>3, <1>4, <1>8, <2>1, <2>2, <2>3, <2>4, <2>5 DEF FromRom
<1>9. CASE request.op = "read"
  <2> DEFINE c == Redirected(romAddress % CardSize)
  <2>1. Standing(a, i, romAddress)
    BY <1>9 DEF CardInv, Followed
  <2>2. /\ c + 1 > RomSize <=> EndMet(a, i + 1)
        /\ c + 1 <= RomSize => c = ReadAddress(a, i)
        /\ Standing(a, i + 1, IF c + 1 > RomSize THEN c ELSE WrappedNext(c))
    BY <1>1, <2>1, ReadOnward
  <2>3. /\ RomRead.word = IF c + 1 > RomSize THEN <<"FF", 0>> ELSE <<"rom", c>>
        /\ RomRead.next = IF c + 1 > RomSize THEN c ELSE WrappedNext(c)
    BY <1>2, <1>9 DEF RomRead, FromRom
  <2>4. Word(request.op, a, i) = IF EndMet(a, i + 1) THEN <<"FF", 0>> ELSE <<"rom", ReadAddress(a, i)>>
    <3>1. i + 1 - 1 = i
      OBVIOUS
    <3> QED
      BY <1>9, <3>1 DEF Word, EndMet
  <2>5. c \in Int
    <3>1. c \in 0 .. CardSize - 1
      BY NextOnCard DEF CardInv, CardTyped, CardTypeOK
    <3> QED
      BY <3>1
  <2> HIDE DEF c
  <2>6. ~(c + 1 > RomSize) => c + 1 <= RomSize
    BY <1>1, <2>5
  <2> QED
    BY <1>3, <1>9, <2>2, <2>3, <2>4, <2>6 DEF FromRom
<1> QED
  BY <1>5, <1>6, <1>7, <1>8, <1>9 DEF CardInv, CardTyped, Requests, Answered, FromRom

(* A CPU or its DMA reads a word.                                          *)
LEMMA ReadStep ==
    ASSUME CardInv, NEW p \in Cpus, ReadData(p)
    PROVE  CardInv'
<1> DEFINE i == request.words
           a == request.address
<1>1. /\ Counts(p)
      /\ request' = [request EXCEPT !.words = @ + 1]
      /\ delivered' = read_GCDATAIN.word /\ romAddress' = read_GCDATAIN.next
      /\ UNCHANGED <<mode, operation, romOperation>>
  BY DEF ReadData
<1>2. /\ request' \in Requests /\ request'.op = request.op /\ request'.address = a
      /\ request'.words = i + 1 /\ i \in Nat
  BY <1>1 DEF CardInv, CardTyped, Requests
<1>3. /\ wordsLeft' \in [Cpus -> Int] /\ busy' \in [Cpus -> BOOLEAN] /\ due' \in [Cpus -> Nat]
      /\ Counted'
  BY <1>1, OneWord
<1>4. CardTyped'
  BY <1>1, <1>2, <1>3, AnswerOnCard DEF CardInv, CardTyped, CardTypeOK
<1>5. Answering'
  BY <1>1, <1>2 DEF CardInv, Answering
<1>6. /\ delivered' = Word(request.op, a, i)
      /\ request.op = "header" => romAddress' = (i + 1) % BlockWords
      /\ request.op = "secure" => romAddress' = a + ((i + 1) % BlockWords)
      /\ request.op = "read"   => Standing(a, i + 1, romAddress')
  BY <1>1, <1>2, NextWord
<1>7. Followed'
  BY <1>2, <1>6 DEF Followed, CardInv
<1>8. WordsExact'
  BY <1>2, <1>6 DEF WordsExact
<1> QED
  BY <1>3, <1>4, <1>5, <1>7, <1>8 DEF CardInv

(* A CPU writes a word that the card ignores.                              *)
LEMMA WriteStep ==
    ASSUME CardInv, NEW p \in Cpus, WriteData(p)
    PROVE  CardInv'
<1>1. Counts(p) /\ UNCHANGED <<mode, operation, romOperation, romAddress, delivered, request>>
  BY DEF WriteData, cardState
<1>2. /\ wordsLeft' \in [Cpus -> Int] /\ busy' \in [Cpus -> BOOLEAN] /\ due' \in [Cpus -> Nat]
      /\ Counted'
  BY <1>1, OneWord
<1> QED
  BY <1>1, <1>2 DEF CardInv, CardTyped, CardTypeOK, Answering, Followed, WordsExact

(* The answer to a dummy, of which nothing was read.                       *)
LEMMA NoRequestFacts ==
    /\ NoRequest \in Requests /\ NoRequest.op = "dummy" /\ NoRequest.words = 0
  BY CardSizes DEF NoRequest, Requests, Answered

(* The machine is reset.                                                   *)
LEMMA CardResetStep ==
    ASSUME CardInv, CardReset
    PROVE  CardInv'
<1>1. /\ mode' \in {"RAW", "NORMAL"} /\ operation' = "dummy" /\ request' = NoRequest
      /\ wordsLeft' = [p \in Cpus |-> 0] /\ busy' = [p \in Cpus |-> FALSE] /\ due' = [p \in Cpus |-> 0]
      /\ UNCHANGED <<romOperation, romAddress>>
  BY DEF CardReset
<1>2. CardTyped'
  BY <1>1, NoRequestFacts DEF CardInv, CardTyped, CardTypeOK
<1>3. Counted'
  BY <1>1 DEF Counted
<1>4. Answering' /\ Followed' /\ WordsExact'
  BY <1>1, NoRequestFacts DEF Answering, Followed, WordsExact, FromRom
<1> QED
  BY <1>2, <1>3, <1>4 DEF CardInv

(* Where the ROM and the protocol stand stays in step with the words that  *)
(* were transferred, whatever command comes (Slot1Comp_Protocol and        *)
(* Slot1Comp_Rom).                                                         *)
THEOREM CardInvariance == CardSpec => []CardInv
<1>1. CardInit => CardInv
  <2> SUFFICES ASSUME CardInit PROVE CardInv
    OBVIOUS
  <2>1. CardTyped
    BY NoRequestFacts, CardSizes DEF CardInit, CardTyped, CardTypeOK
  <2>2. Counted
    BY DEF CardInit, Counted
  <2>3. Answering /\ Followed /\ WordsExact
    BY NoRequestFacts DEF CardInit, Answering, Followed, WordsExact, FromRom
  <2> QED
    BY <2>1, <2>2, <2>3 DEF CardInv
<1>2. CardInv /\ [CardNext]_cardVars => CardInv'
  <2> SUFFICES ASSUME CardInv, [CardNext]_cardVars PROVE CardInv'
    OBVIOUS
  <2>1. CASE UNCHANGED cardVars
    BY <2>1 DEF cardVars, CardInv, CardTyped, CardTypeOK, Counted, Answering, Followed, WordsExact
  <2> QED
    BY <2>1, StartStep, StopStep, ReadStep, WriteStep, CardResetStep DEF CardNext
<1> QED
  BY <1>1, <1>2, PTL DEF CardSpec

(* After any commands, stopped and overlapping transfers of both CPUs and  *)
(* words moved without a transfer, the words that arrive are those of the  *)
(* last command that has an answer, in order from its first address on,    *)
(* redirected, wrapped and ended as the comments of Slot1Comp_Rom::read    *)
(* say; and a transfer is busy until its words have come or it is stopped. *)
THEOREM CardWordsExact == CardSpec => []CardDataExact
<1>1. CardInv => CardDataExact
  BY DEF CardInv, Counted, WordsExact, CardDataExact
<1> QED
  BY <1>1, CardInvariance, PTL

-----------------------------------------------------------------------------
(* The backup memory: the values of the device.                            *)
Device ==
    [state : {"DETECTING", "RUNNING"}, fsize : Nat, addr_size : Nat, fp : Nat,
     com : {"none"} \cup Commands8, addr : Nat, addr_counter : Nat,
     write_enable : BOOLEAN, reset_command : BOOLEAN, autodetect : Nat]

(* The file is empty, or the bytes of the memory and a footer.             *)
FileWhole(f, n) ==
    \/ f = <<>> /\ n = 0
    \/ n \in SaveSizes /\ Len(f) = n + 1

(* The footer has the width the device uses.                               *)
FooterRight(d, f) == f # <<>> => f[d.fsize + 1] = Footer(d.addr_size)

(* The bytes are those of the memory; behind them nothing was stored.      *)
Holds(f, n, m) == \A a \in Addresses : m[a] = IF a < n THEN f[a + 1] ELSE Uninit

(* A memory that was used without addresses is not followed.               *)
Kept(d, f, m) == (d.addr_size = 0 => f = <<>>) => Holds(f, d.fsize, m)

(* A byte of data comes next.                                              *)
Accessing(d) ==
    d.com \in {"READLOW", "WRITELOW"} /\ d.state = "RUNNING" /\ d.addr_counter >= d.addr_size

(* The stream is at the address, unless what is written is ignored, or the *)
(* stream is positioned for each byte of a memory that wraps.              *)
InPlace(d) ==
    Accessing(d) /\ d.addr_size > 1 /\ (d.com = "READLOW" \/ d.write_enable) => d.fp = d.addr

(* No file exists before the width of addresses is known.                  *)
WidthKnown(d, f) == d.state = "DETECTING" => f = <<>>

SavedExact(s) ==
    /\ s.device \in Device /\ s.device.state = "RUNNING"
    /\ s.device.fsize \in SaveSizes /\ InPlace(s.device)
    /\ s.data \in Seq(Int) /\ Len(s.data) = s.device.fsize
    /\ s.device.addr_size > 0 => Holds(s.data, s.device.fsize, s.mem)
    /\ s.mem \in [Addresses -> Int]

DeviceExact(d, f, m) ==
    /\ d \in Device /\ f \in Seq(Int) /\ m \in [Addresses -> Int]
    /\ FileWhole(f, d.fsize) /\ FooterRight(d, f) /\ Kept(d, f, m) /\ InPlace(d) /\ WidthKnown(d, f)

BackupInv ==
    /\ DeviceExact(backup, backupFile, mem)
    /\ backupSaved # <<>> => SavedExact(backupSaved[1])

-----------------------------------------------------------------------------
(* Setting a field of the device.                                          *)
LEMMA SetState == ASSUME NEW d \in Device, NEW v \in {"DETECTING", "RUNNING"} PROVE [d EXCEPT !.state = v] \in Device
  BY DEF Device
LEMMA SetFsize == ASSUME NEW d \in Device, NEW v \in Nat PROVE [d EXCEPT !.fsize = v] \in Device
  BY DEF Device
LEMMA SetWidth == ASSUME NEW d \in Device, NEW v \in Nat PROVE [d EXCEPT !.addr_size = v] \in Device
  BY DEF Device
LEMMA SetFp == ASSUME NEW d \in Device, NEW v \in Nat PROVE [d EXCEPT !.fp = v] \in Device
  BY DEF Device
LEMMA SetCom == ASSUME NEW d \in Device, NEW v \in {"none"} \cup Commands8 PROVE [d EXCEPT !.com = v] \in Device
  BY DEF Device
LEMMA SetAddr == ASSUME NEW d \in Device, NEW v \in Nat PROVE [d EXCEPT !.addr = v] \in Device
  BY DEF Device
LEMMA SetCounter == ASSUME NEW d \in Device, NEW v \in Nat PROVE [d EXCEPT !.addr_counter = v] \in Device
  BY DEF Device
LEMMA SetEnable == ASSUME NEW d \in Device, NEW v \in BOOLEAN PROVE [d EXCEPT !.write_enable = v] \in Device
  BY DEF Device
LEMMA SetReset == ASSUME NEW d \in Device, NEW v \in BOOLEAN PROVE [d EXCEPT !.reset_command = v] \in Device
  BY DEF Device
LEMMA SetDetect == ASSUME NEW d \in Device, NEW v \in Nat PROVE [d EXCEPT !.autodetect = v] \in Device
  BY DEF Device

LEMMA Fields ==
    ASSUME NEW d \in Device
    PROVE  /\ d.state \in {"DETECTING", "RUNNING"} /\ d.fsize \in Nat /\ d.addr_size \in Nat
           /\ d.fp \in Nat /\ d.com \in {"none"} \cup Commands8 /\ d.addr \in Nat
           /\ d.addr_counter \in Nat /\ d.write_enable \in BOOLEAN /\ d.reset_command \in BOOLEAN
           /\ d.autodetect \in Nat
  BY DEF Device

(* The fields that say where a byte of data goes.                          *)
SamePlace(e, d) ==
    /\ e.fsize = d.fsize /\ e.addr_size = d.addr_size /\ e.fp = d.fp /\ e.addr = d.addr
    /\ e.addr_counter = d.addr_counter /\ e.write_enable = d.write_enable /\ e.state = d.state

(* With the last byte of a transfer only the command ends.                 *)
LEMMA EndedFacts ==
    ASSUME NEW d \in Device
    PROVE  /\ Ended(d) \in Device /\ SamePlace(Ended(d), d)
           /\ Ended(d).com \in {d.com, "none"} /\ (d.reset_command => Ended(d).com = "none")
<1>1. Ended(d) \in Device
  BY SetCom, SetReset, Fields, Zenon DEF Ended
<1>2. /\ SamePlace(Ended(d), d) /\ Ended(d).com \in {d.com, "none"}
      /\ d.reset_command => Ended(d).com = "none"
  BY DEF Ended, SamePlace, Device
<1> QED
  BY <1>1, <1>2

LEMMA EndedExact ==
    ASSUME NEW d, NEW f, NEW m, DeviceExact(d, f, m)
    PROVE  DeviceExact(Ended(d), f, m)
<1>1. /\ Ended(d) \in Device /\ SamePlace(Ended(d), d) /\ Ended(d).com \in {d.com, "none"}
  BY EndedFacts DEF DeviceExact
<1> QED
  BY <1>1 DEF DeviceExact, SamePlace, InPlace, WidthKnown, Accessing, FooterRight, Kept

(* The size a memory is padded to.                                         *)
LEMMA LeastNumber ==
    ASSUME NEW X, X \subseteq Nat, X # {} PROVE \E x \in X : \A y \in X : x <= y
<1>1. IsWellFoundedOn(OpToRel(<, Nat), Nat)
  BY NatLessThanWellFounded
<1>2. PICK x \in X : \A y \in X : ~(<<y, x>> \in OpToRel(<, Nat))
  BY <1>1, WFMin, Zenon
<1>3. \A y \in X : ~(y < x)
  BY <1>2 DEF OpToRel
<1> QED
  BY <1>3

LEMMA PadUp ==
    ASSUME NEW n \in Nat, \E s \in SaveSizes : s >= n
    PROVE  /\ pad_up_size(n) \in SaveSizes /\ pad_up_size(n) >= n
           /\ \A t \in SaveSizes : t >= n => pad_up_size(n) <= t
<1> DEFINE X == {s \in SaveSizes : s >= n}
<1>1. X \subseteq Nat /\ X # {}
  BY BackupAssumption
<1>2. \E x \in X : \A y \in X : x <= y
  <2> HIDE DEF X
  <2> QED  BY <1>1, LeastNumber
<1>3. \E s \in SaveSizes : s >= n /\ \A t \in SaveSizes : t >= n => s <= t
  BY <1>2
<1> QED
  BY <1>3, Zenon DEF pad_up_size

(* ensure keeps the bytes, fills up and puts a footer behind.              *)
LEMMA PaddedFacts ==
    ASSUME NEW d \in Device, NEW f \in Seq(Int), FileWhole(f, d.fsize),
           NEW n \in Nat, \E s \in SaveSizes : s >= n, d.fsize <= pad_up_size(n)
    PROVE  /\ Padded(f, d, n) \in Seq(Int) /\ FileWhole(Padded(f, d, n), pad_up_size(n))
           /\ Padded(f, d, n)[pad_up_size(n) + 1] = Footer(d.addr_size)
           /\ \A a \in Nat : a < pad_up_size(n) =>
                Padded(f, d, n)[a + 1] = IF a < d.fsize THEN f[a + 1] ELSE Uninit
<1> DEFINE N == pad_up_size(n)
           P == Padded(f, d, n)
<1>1. N \in SaveSizes /\ N \in Nat /\ d.fsize \in Nat /\ d.addr_size \in Nat /\ Uninit \in Int
  <2>1. N \in SaveSizes
    BY PadUp
  <2> HIDE DEF N
  <2>2. N \in Nat
    BY <2>1, BackupAssumption
  <2>3. Uninit \in Int
    BY BackupAssumption
  <2> QED
    BY <2>1, <2>2, <2>3, Fields
<1>2. Len(f) \in Nat /\ ~(Len(f) > N + 1)
  BY <1>1 DEF FileWhole
<1> HIDE DEF N
<1>3. P = [i \in 1 .. N + 1 |->
             IF i <= d.fsize THEN f[i] ELSE IF i <= N THEN Uninit
             ELSE IF i = N + 1 THEN Footer(d.addr_size) ELSE f[i]]
  BY <1>2 DEF Padded, N
<1>4. \A i \in 1 .. N + 1 : P[i] = IF i <= d.fsize THEN f[i] ELSE IF i <= N THEN Uninit ELSE Footer(d.addr_size)
  BY <1>1, <1>3
<1>5. \A i \in 1 .. d.fsize : f[i] \in Int
  BY <1>1 DEF FileWhole
<1>6. Footer(d.addr_size) \in Int
  BY <1>1 DEF Footer
<1>7. P \in Seq(Int) /\ Len(P) = N + 1
  <2>1. \A i \in 1 .. N + 1 : P[i] \in Int
    BY <1>1, <1>4, <1>5, <1>6
  <2>2. P = [i \in 1 .. N + 1 |-> P[i]]
    BY <1>3
  <2> HIDE DEF P
  <2> QED
    BY <1>1, <2>1, <2>2
<1>8. FileWhole(P, N) /\ P[N + 1] = Footer(d.addr_size)
  <2>1. P[N + 1] = Footer(d.addr_size)
    BY <1>1, <1>4 DEF N
  <2> QED
    BY <1>1, <1>6, <1>7, <2>1 DEF FileWhole
<1>9. ASSUME NEW a \in Nat, a < N
      PROVE  P[a + 1] = IF a < d.fsize THEN f[a + 1] ELSE Uninit
  BY <1>1, <1>4, <1>9
<1> QED
  BY <1>7, <1>8, <1>9 DEF N

(* What Wrapped leaves.                                                    *)
LEMMA WrappedFacts ==
    ASSUME NEW d \in Device, InPlace(d), Accessing(d)
    PROVE  /\ Wrapped(d) \in Device
           /\ Wrapped(d).fsize = d.fsize /\ Wrapped(d).addr_size = d.addr_size
           /\ Wrapped(d).com = d.com /\ Wrapped(d).state = d.state
           /\ Wrapped(d).addr_counter = d.addr_counter /\ Wrapped(d).write_enable = d.write_enable
           /\ d.addr_size > 0 /\ (d.com = "READLOW" \/ d.write_enable) => Wrapped(d).fp = Wrapped(d).addr
<1>1. 2 * Base \in Nat \ {0} /\ d.addr \in Nat /\ d.addr_size \in Nat
  BY BackupAssumption, Fields
<1>2. d.addr % (2 * Base) \in Nat
  BY <1>1
<1>3. Wrapped(d) \in Device
  BY <1>2, SetAddr, SetFp, Zenon DEF Wrapped
<1> DEFINE r == d.addr % (2 * Base)
<1>4. CASE d.addr_size = 1
  <2>1. Wrapped(d) = [d EXCEPT !.addr = r, !.fp = r]
    BY <1>4 DEF Wrapped
  <2> HIDE DEF r
  <2> QED
    BY <1>3, <2>1 DEF Device
<1>5. CASE d.addr_size # 1
  BY <1>1, <1>3, <1>5 DEF Wrapped, InPlace
<1> QED
  BY <1>4, <1>5

(* Before a byte of data the file reaches to its address, and the stream   *)
(* is there.                                                               *)
LEMMA ReadyFacts ==
    ASSUME NEW d, NEW f, NEW m, DeviceExact(d, f, m), f = backupFile, Accessing(d), Wrapped(d).addr <= MaxAddr
    PROVE  LET w == Wrapped(d)
               e == DeviceReady(w)
               g == FileReady(w)
           IN  /\ e \in Device /\ g \in Seq(Int) /\ w.addr \in Addresses
               /\ FileWhole(g, e.fsize) /\ FooterRight(e, g)
               /\ d.addr_size > 0 => Holds(g, e.fsize, m)
               /\ w.addr < e.fsize /\ e.addr = w.addr /\ e.com = d.com /\ e.state = d.state
               /\ e.addr_size = d.addr_size /\ e.addr_counter = d.addr_counter
               /\ e.write_enable = d.write_enable
               /\ d.addr_size > 0 /\ (d.com = "READLOW" \/ d.write_enable) => e.fp = w.addr
<1> DEFINE w == Wrapped(d)
           n == w.addr + 1
<1>1. /\ d \in Device /\ f \in Seq(Int) /\ m \in [Addresses -> Int] /\ FileWhole(f, d.fsize)
      /\ FooterRight(d, f) /\ (d.addr_size > 0 => Holds(f, d.fsize, m))
  BY DEF DeviceExact, Kept
<1>2. /\ w \in Device /\ w.fsize = d.fsize /\ w.addr_size = d.addr_size /\ w.com = d.com
      /\ w.state = d.state /\ w.addr_counter = d.addr_counter /\ w.write_enable = d.write_enable
      /\ d.addr_size > 0 /\ (d.com = "READLOW" \/ d.write_enable) => w.fp = w.addr
  BY <1>1, WrappedFacts DEF DeviceExact
<1>3. w.addr \in Nat /\ w.fsize \in Nat /\ MaxAddr \in Nat /\ w.addr \in Addresses
  BY <1>2, Fields, BackupAssumption DEF Addresses
<1> HIDE DEF w
<1>4. CASE ~Grows(w)
  <2>1. DeviceReady(w) = w /\ FileReady(w) = f /\ w.addr < w.fsize
    BY <1>3, <1>4 DEF DeviceReady, FileReady, Grows
  <2>2. FooterRight(w, f)
    BY <1>1, <1>2 DEF FooterRight
  <2> QED
    BY <1>1, <1>2, <1>3, <2>1, <2>2 DEF w
<1>5. CASE Grows(w)
  <2> DEFINE N == pad_up_size(n)
             g == Padded(f, w, n)
             e == Grown(w, n)
  <2>1. DeviceReady(w) = e /\ FileReady(w) = g
    BY <1>5 DEF DeviceReady, FileReady
  <2>2. n \in Nat /\ \E s \in SaveSizes : s >= n
    <3>1. PICK s \in SaveSizes : s > MaxAddr
      BY BackupAssumption
    <3>2. s \in Nat
      BY BackupAssumption
    <3> QED
      BY <1>3, <3>1, <3>2 DEF w
  <2>3. N \in SaveSizes /\ N >= n
    BY <2>2, PadUp
  <2>n. N \in Nat
    <3> HIDE DEF N
    <3> QED  BY <2>3, BackupAssumption
  <2>4. N \in Nat /\ w.fsize <= N
    <3> HIDE DEF N
    <3> QED  BY <1>3, <1>5, <2>2, <2>3, <2>n DEF Grows
  <2>5. /\ g \in Seq(Int) /\ FileWhole(g, N) /\ g[N + 1] = Footer(d.addr_size)
        /\ \A a \in Nat : a < N => g[a + 1] = IF a < w.fsize THEN f[a + 1] ELSE Uninit
    BY <1>1, <1>2, <2>2, <2>4, PaddedFacts
  <2> HIDE DEF N, g
  <2>6. ASSUME d.addr_size > 0 PROVE Holds(g, N, m)
    <3>1. SUFFICES ASSUME NEW a \in Addresses PROVE m[a] = IF a < N THEN g[a + 1] ELSE Uninit
      BY DEF Holds
    <3>2. a \in Nat /\ a <= MaxAddr
      BY <1>3 DEF Addresses
    <3>3. m[a] = IF a < w.fsize THEN f[a + 1] ELSE Uninit
      BY <1>1, <1>2, <2>6 DEF Holds
    <3>4. a < N => g[a + 1] = IF a < w.fsize THEN f[a + 1] ELSE Uninit
      BY <2>5, <3>2
    <3> QED
      BY <1>3, <2>4, <3>2, <3>3, <3>4
  <2>7. n - 1 = w.addr
    BY <1>3
  <2>8. e = [w EXCEPT !.fsize = N, !.fp = w.addr]
    BY <2>7 DEF Grown, N
  <2>9. e \in Device
    <3>1. [w EXCEPT !.fsize = N] \in Device
      BY <1>2, <2>4, SetFsize, Zenon
    <3>2. [[w EXCEPT !.fsize = N] EXCEPT !.fp = w.addr] \in Device
      BY <1>3, <3>1, SetFp, Zenon
    <3>3. e = [[w EXCEPT !.fsize = N] EXCEPT !.fp = w.addr]
      BY <1>2, <2>8 DEF Device
    <3> QED
      BY <3>2, <3>3, Zenon
  <2> HIDE DEF e
  <2>10. /\ e.fsize = N /\ e.fp = w.addr /\ e.addr = w.addr /\ e.com = w.com /\ e.state = w.state
         /\ e.addr_size = w.addr_size /\ e.addr_counter = w.addr_counter
         /\ e.write_enable = w.write_enable
    BY <1>2, <2>8 DEF Device
  <2>11. w.addr < N
    BY <1>3, <2>3, <2>4
  <2>12. FooterRight(e, g)
    BY <1>2, <2>5, <2>10 DEF FooterRight
  <2> QED
    BY <1>1, <1>2, <1>3, <2>1, <2>5, <2>6, <2>9, <2>10, <2>11, <2>12 DEF w
<1> QED
  BY <1>4, <1>5

(* The step lemmas: the device and the file after each action.             *)
LEMMA ResetStep ==
    ASSUME BackupInv, auxspi_reset PROVE BackupInv'
<1>1. /\ backup' = [backup EXCEPT !.reset_command = TRUE] /\ backup \in Device
      /\ UNCHANGED <<backupFile, backupSaved, mem>>
  BY DEF BackupInv, DeviceExact, auxspi_reset
<1>2. backup' \in Device
  BY <1>1, SetReset, Zenon
<1>3. SamePlace(backup', backup) /\ backup'.com = backup.com
  BY <1>1 DEF Device, SamePlace
<1>4. DeviceExact(backup', backupFile, mem)
  BY <1>2, <1>3 DEF BackupInv, DeviceExact, SamePlace, InPlace, WidthKnown, Accessing, FooterRight, Kept
<1> QED
  BY <1>1, <1>4 DEF BackupInv

LEMMA CommandStep ==
    ASSUME BackupInv, NEW c \in Commands8, ReceiveCommand(c) PROVE BackupInv'
<1> DEFINE high == c \in {"READHIGH", "WRITEHIGH"}
           access == c \notin {"WRITEENABLE", "WRITEDISABLE"}
           com == CASE c = "READHIGH" -> "READLOW" [] c = "WRITEHIGH" -> "WRITELOW" [] OTHER -> c
           counter == IF access THEN 0 ELSE backup.addr_counter
           address == IF access THEN (IF high /\ backup.addr_size = 1 THEN 1 ELSE 0) ELSE backup.addr
           enable == IF access THEN backup.write_enable ELSE (c = "WRITEENABLE")
           d == [backup EXCEPT !.com = com, !.addr_counter = counter, !.addr = address,
                               !.write_enable = enable]
<1>1. backup \in Device /\ DeviceExact(backup, backupFile, mem)
  BY DEF BackupInv, DeviceExact
<1>2. backup' = Ended(d) /\ UNCHANGED <<backupFile, backupSaved, mem>>
  BY <1>1 DEF ReceiveCommand, Device
<1>3. com \in {"none"} \cup Commands8 /\ com # "none"
  BY DEF Commands8
<1>4. counter \in Nat /\ address \in Nat /\ enable \in BOOLEAN
  BY <1>1, Fields
<1>5. access => counter = 0
  OBVIOUS
<1>6. ~access => com \notin {"READLOW", "WRITELOW"}
  OBVIOUS
<1> HIDE DEF com, counter, address, enable, access
<1>7. d \in Device
  <2>1. [backup EXCEPT !.com = com] \in Device
    BY <1>1, <1>3, SetCom, Zenon
  <2>2. [[backup EXCEPT !.com = com] EXCEPT !.addr_counter = counter] \in Device
    BY <1>4, <2>1, SetCounter, Zenon
  <2>3. [[[backup EXCEPT !.com = com] EXCEPT !.addr_counter = counter] EXCEPT !.addr = address] \in Device
    BY <1>4, <2>2, SetAddr, Zenon
  <2>4. [[[[backup EXCEPT !.com = com] EXCEPT !.addr_counter = counter] EXCEPT !.addr = address] EXCEPT !.write_enable = enable] \in Device
    BY <1>4, <2>3, SetEnable, Zenon
  <2>5. d = [[[[backup EXCEPT !.com = com] EXCEPT !.addr_counter = counter] EXCEPT !.addr = address] EXCEPT !.write_enable = enable]
    BY <1>1 DEF Device
  <2> QED
    BY <2>4, <2>5, Zenon
<1>8. /\ d.com = com /\ d.addr_counter = counter /\ d.fsize = backup.fsize
      /\ d.addr_size = backup.addr_size /\ d.state = backup.state
  BY <1>1 DEF Device
<1> HIDE DEF d
<1>9. InPlace(d)
  <2>1. ASSUME Accessing(d), d.addr_size > 1 PROVE FALSE
    <3>1. access
      BY <1>6, <1>8, <2>1 DEF Accessing
    <3>2. d.addr_counter = 0
      BY <1>5, <1>8, <3>1
    <3> QED
      BY <1>7, <2>1, <3>2, Fields DEF Accessing
  <2> QED
    BY <2>1 DEF InPlace
<1>10. DeviceExact(d, backupFile, mem)
  BY <1>1, <1>7, <1>8, <1>9 DEF DeviceExact, WidthKnown, FooterRight, Kept
<1>11. DeviceExact(backup', backupFile, mem)
  BY <1>2, <1>10, EndedExact, Zenon
<1> QED
  BY <1>2, <1>11 DEF BackupInv

LEMMA UnknownStep ==
    ASSUME BackupInv, ReceiveUnknown PROVE BackupInv'
<1>1. /\ backup \in Device /\ DeviceExact(backup, backupFile, mem) /\ backup.state = "DETECTING"
      /\ UNCHANGED <<backupFile, backupSaved, mem>>
  BY DEF BackupInv, DeviceExact, ReceiveUnknown
<1>2. backup.autodetect + 1 \in Nat /\ WidthOf(backup.autodetect + 1) \in Nat
  BY <1>1, Fields DEF WidthOf
<1>3. CASE backup.reset_command
  <2> DEFINE n == WidthOf(backup.autodetect + 1)
             d == [backup EXCEPT !.state = "RUNNING", !.autodetect = 0, !.addr_size = n]
  <2>1. backup' = Ended(d)
    BY <1>3 DEF ReceiveUnknown
  <2>2. n \in Nat
    BY <1>2
  <2> HIDE DEF n
  <2>3. d \in Device
    <3>1. [backup EXCEPT !.state = "RUNNING"] \in Device
      BY <1>1, SetState, Zenon
    <3>2. [[backup EXCEPT !.state = "RUNNING"] EXCEPT !.autodetect = 0] \in Device
      BY <3>1, SetDetect, 0 \in Nat, Zenon
    <3>3. [[[backup EXCEPT !.state = "RUNNING"] EXCEPT !.autodetect = 0] EXCEPT !.addr_size = n] \in Device
      BY <2>2, <3>2, SetWidth, Zenon
    <3>4. d = [[[backup EXCEPT !.state = "RUNNING"] EXCEPT !.autodetect = 0] EXCEPT !.addr_size = n]
      BY <1>1 DEF Device
    <3> QED
      BY <3>3, <3>4, Zenon
  <2>4. d.state = "RUNNING" /\ d.fsize = backup.fsize /\ d.reset_command
    BY <1>1, <1>3, <2>2 DEF Device
  <2> HIDE DEF d
  <2>5. Ended(d) \in Device /\ SamePlace(Ended(d), d) /\ Ended(d).com = "none"
    BY <2>3, <2>4, EndedFacts
  <2>6. DeviceExact(backup', backupFile, mem)
    BY <1>1, <2>1, <2>4, <2>5 DEF DeviceExact, SamePlace, InPlace, Accessing, WidthKnown, FooterRight, Kept
  <2> QED
    BY <1>1, <2>6 DEF BackupInv
<1>4. CASE ~backup.reset_command
  <2> DEFINE n == backup.autodetect + 1
             d == [backup EXCEPT !.autodetect = n]
  <2>1. backup' = Ended(d)
    BY <1>4 DEF ReceiveUnknown
  <2>2. n \in Nat
    BY <1>2
  <2> HIDE DEF n
  <2>3. d \in Device
    BY <1>1, <2>2, SetDetect, Zenon
  <2>4. SamePlace(d, backup)
    BY <1>1 DEF Device, SamePlace
  <2> HIDE DEF d
  <2>5. DeviceExact(d, backupFile, mem)
    BY <1>1, <2>3, <2>4 DEF DeviceExact, SamePlace, InPlace, Accessing, WidthKnown, FooterRight, Kept
  <2>6. DeviceExact(backup', backupFile, mem)
    BY <2>1, <2>5, EndedExact, Zenon
  <2> QED
    BY <1>1, <2>6 DEF BackupInv
<1> QED
  BY <1>3, <1>4

LEMMA AddressStep ==
    ASSUME BackupInv, NEW v \in 0 .. Base - 1, ReceiveAddress(v) PROVE BackupInv'
<1> DEFINE a == backup.addr * Base + v
           counter == backup.addr_counter + 1
           last == counter = backup.addr_size
           place == IF last THEN a ELSE backup.fp
           d == [backup EXCEPT !.addr = a, !.addr_counter = counter, !.fp = place]
<1>1. /\ backup \in Device /\ DeviceExact(backup, backupFile, mem)
      /\ backup.addr_counter < backup.addr_size
      /\ UNCHANGED <<backupFile, backupSaved, mem>>
  BY DEF BackupInv, DeviceExact, ReceiveAddress
<1>2. backup' = Ended(d)
  BY <1>1 DEF ReceiveAddress, Device
<1>3. a \in Nat
  <2>1. backup.addr \in Nat /\ Base \in Nat /\ v \in Nat
    BY <1>1, Fields, BackupAssumption
  <2>2. backup.addr * Base \in Nat
    BY <2>1
  <2> QED
    BY <2>1, <2>2
<1>4. counter \in Nat /\ place \in Nat
  <2> HIDE DEF a
  <2> QED  BY <1>1, <1>3, Fields
<1>5. counter >= backup.addr_size => place = a
  BY <1>1, Fields
<1> HIDE DEF a, counter, place
<1>6. d \in Device
  <2>1. [backup EXCEPT !.addr = a] \in Device
    BY <1>1, <1>3, SetAddr, Zenon
  <2>2. [[backup EXCEPT !.addr = a] EXCEPT !.addr_counter = counter] \in Device
    BY <1>4, <2>1, SetCounter, Zenon
  <2>3. [[[backup EXCEPT !.addr = a] EXCEPT !.addr_counter = counter] EXCEPT !.fp = place] \in Device
    BY <1>4, <2>2, SetFp, Zenon
  <2>4. d = [[[backup EXCEPT !.addr = a] EXCEPT !.addr_counter = counter] EXCEPT !.fp = place]
    BY <1>1 DEF Device
  <2> QED
    BY <2>3, <2>4, Zenon
<1>7. /\ d.addr = a /\ d.addr_counter = counter /\ d.fp = place /\ d.fsize = backup.fsize
      /\ d.addr_size = backup.addr_size /\ d.state = backup.state
  BY <1>1 DEF Device
<1> HIDE DEF d
<1>8. DeviceExact(d, backupFile, mem)
  BY <1>1, <1>5, <1>6, <1>7 DEF DeviceExact, InPlace, Accessing, WidthKnown, FooterRight, Kept
<1>9. DeviceExact(backup', backupFile, mem)
  BY <1>2, <1>8, EndedExact, Zenon
<1> QED
  BY <1>1, <1>9 DEF BackupInv

LEMMA TransferStep ==
    ASSUME BackupInv, NEW v \in 0 .. Base - 1, TransferData(v) PROVE BackupInv'
<1> DEFINE w == Wrapped(backup)
           e == DeviceReady(w)
           g == FileReady(w)
           store == e.com = "WRITELOW" /\ e.write_enable
           a == w.addr
           place == IF store \/ e.com = "READLOW" THEN e.fp + 1 ELSE e.fp
           d == [e EXCEPT !.addr = e.addr + 1, !.fp = place]
<1>1. /\ DeviceExact(backup, backupFile, mem) /\ Accessing(backup) /\ w.addr <= MaxAddr
      /\ backup.addr_size \in Nat
  BY Fields DEF BackupInv, DeviceExact, TransferData, DataPhase, Access, Accessing
<1>2. /\ e \in Device /\ g \in Seq(Int) /\ a \in Addresses /\ FileWhole(g, e.fsize)
      /\ FooterRight(e, g) /\ (backup.addr_size > 0 => Holds(g, e.fsize, mem))
      /\ a < e.fsize /\ e.addr = a /\ e.com = backup.com
      /\ e.state = backup.state /\ e.addr_size = backup.addr_size
      /\ e.write_enable = backup.write_enable
      /\ backup.addr_size > 0 /\ (backup.com = "READLOW" \/ backup.write_enable) => e.fp = a
  BY <1>1, ReadyFacts
<1>w. w.addr_size = backup.addr_size
  BY <1>1, WrappedFacts DEF DeviceExact
<1>3. /\ backupFile' = IF store THEN [g EXCEPT ![e.fp + 1] = v] ELSE g
      /\ mem' = IF store /\ e.addr_size > 0 THEN [mem EXCEPT ![a] = v] ELSE mem
      /\ e.addr_size = 0 => e.fp < e.fsize
      /\ UNCHANGED backupSaved
  BY <1>2, <1>w DEF TransferData
<1>4. backup' = Ended([e EXCEPT !.addr = @ + 1, !.fp = IF store \/ e.com = "READLOW" THEN @ + 1 ELSE @])
  BY DEF TransferData
<1>5. mem \in [Addresses -> Int] /\ v \in Int
  BY BackupAssumption DEF BackupInv, DeviceExact
<1> HIDE DEF w, e, g, a
<1>6. [e EXCEPT !.addr = @ + 1, !.fp = IF store \/ e.com = "READLOW" THEN @ + 1 ELSE @] = d
  BY <1>2 DEF Device
<1>7. e.fp \in Nat /\ e.addr \in Nat /\ e.fsize \in Nat /\ a \in Nat
  BY <1>2, Fields
<1>8. place \in Nat
  <2> HIDE DEF store
  <2> QED  BY <1>7
<1>9. e.addr_size > 0 /\ (store \/ e.com = "READLOW") => e.fp = a /\ place = e.addr + 1
  BY <1>2
<1> HIDE DEF place
<1>10. d \in Device
  <2>1. e.addr + 1 \in Nat
    BY <1>7
  <2>2. [e EXCEPT !.addr = e.addr + 1] \in Device
    BY <1>2, <2>1, SetAddr, Zenon
  <2>3. [[e EXCEPT !.addr = e.addr + 1] EXCEPT !.fp = place] \in Device
    BY <1>8, <2>2, SetFp, Zenon
  <2>4. d = [[e EXCEPT !.addr = e.addr + 1] EXCEPT !.fp = place]
    BY <1>2 DEF Device
  <2> QED
    BY <2>3, <2>4, Zenon
<1>11. /\ d.addr = e.addr + 1 /\ d.fp = place /\ d.fsize = e.fsize /\ d.com = e.com
       /\ d.write_enable = e.write_enable /\ d.state = e.state /\ d.addr_size = e.addr_size
  BY <1>2 DEF Device
<1>12. backup' = Ended(d)
  BY <1>4, <1>6
<1> HIDE DEF d
<1>13. InPlace(d)
  <2>1. e.addr_size \in Nat
    BY <1>2, Fields
  <2> QED
    BY <1>2, <1>9, <1>11, <2>1 DEF InPlace, Accessing
<1>14. d.state = "RUNNING"
  BY <1>1, <1>2, <1>11 DEF Accessing
<1>15. /\ backupFile' \in Seq(Int) /\ mem' \in [Addresses -> Int] /\ FileWhole(backupFile', d.fsize)
       /\ FooterRight(d, backupFile') /\ Kept(d, backupFile', mem')
  <2>0. e.addr_size \in Nat /\ e.fsize \in SaveSizes /\ Len(g) = e.fsize + 1
    BY <1>1, <1>2, <1>7 DEF FileWhole
  <2>1. CASE ~store
    <3>1. backupFile' = g /\ mem' = mem /\ g # <<>>
      BY <1>3, <1>7, <2>0, <2>1
    <3>2. FooterRight(d, g)
      BY <1>2, <1>11 DEF FooterRight
    <3>3. Kept(d, g, mem)
      BY <1>2, <1>11, <2>0, <3>1 DEF Kept
    <3> QED
      BY <1>2, <1>5, <1>11, <3>1, <3>2, <3>3
  <2>2. CASE store
    <3> DEFINE p == e.fp + 1
    <3>1. backupFile' = [g EXCEPT ![p] = v]
      BY <1>3, <2>2
    <3>2. p \in 1 .. e.fsize /\ (e.addr_size > 0 => p = a + 1)
      BY <1>2, <1>3, <1>7, <1>9, <2>0, <2>2
    <3>m. mem' = IF e.addr_size > 0 THEN [mem EXCEPT ![a] = v] ELSE mem
      BY <1>3, <2>2
    <3> HIDE DEF store, p
    <3>3. /\ backupFile' \in Seq(Int) /\ Len(backupFile') = Len(g)
          /\ \A i \in 1 .. Len(g) : backupFile'[i] = IF i = p THEN v ELSE g[i]
      <4>1. p \in 1 .. Len(g)
        BY <1>7, <2>0, <3>2
      <4> QED
        BY <1>2, <1>5, <3>1, <4>1, ExceptSeq
    <3>4. backupFile'[e.fsize + 1] = g[e.fsize + 1]
      <4>1. e.fsize + 1 # p /\ e.fsize + 1 \in 1 .. Len(g)
        BY <1>7, <2>0, <3>2
      <4> QED
        BY <3>3, <4>1
    <3>5. mem' \in [Addresses -> Int]
      BY <1>5, <3>m
    <3>6. ASSUME e.addr_size > 0, NEW b \in Addresses
          PROVE  mem'[b] = IF b < e.fsize THEN backupFile'[b + 1] ELSE Uninit
      <4>1. b \in Nat /\ mem[b] = IF b < e.fsize THEN g[b + 1] ELSE Uninit
        BY <1>2, <3>6, BackupAssumption DEF Holds, Addresses
      <4>2. b < e.fsize => backupFile'[b + 1] = IF b = a THEN v ELSE g[b + 1]
        <5>1. p = a + 1
          BY <3>2, <3>6
        <5>2. b < e.fsize => b + 1 \in 1 .. Len(g)
          BY <1>7, <2>0, <4>1
        <5>3. b + 1 = p <=> b = a
          BY <1>7, <4>1, <5>1
        <5> QED
          BY <3>3, <5>2, <5>3
      <4>3. mem'[b] = IF b = a THEN v ELSE mem[b]
        BY <1>5, <3>m, <3>6
      <4> QED
        BY <1>2, <4>1, <4>2, <4>3
    <3>7. FileWhole(backupFile', d.fsize)
      BY <1>11, <2>0, <3>3 DEF FileWhole
    <3>8. FooterRight(d, backupFile')
      <4>1. g # <<>>
        BY <1>7, <2>0
      <4> QED
        BY <1>2, <1>11, <3>4, <4>1 DEF FooterRight
    <3>9. Kept(d, backupFile', mem')
      <4>1. backupFile' # <<>>
        BY <1>7, <2>0, <3>3
      <4> QED
        BY <1>11, <2>0, <3>6, <4>1 DEF Kept, Holds
    <3> QED
      BY <3>3, <3>5, <3>7, <3>8, <3>9
  <2> QED
    BY <2>1, <2>2
<1>16. DeviceExact(d, backupFile', mem')
  BY <1>10, <1>13, <1>14, <1>15 DEF DeviceExact, WidthKnown
<1>17. DeviceExact(backup', backupFile', mem')
  BY <1>12, <1>16, EndedExact, Zenon
<1> QED
  BY <1>3, <1>17 DEF BackupInv

LEMMA UnhandledStep ==
    ASSUME BackupInv, ReceiveUnhandled PROVE BackupInv'
<1>1. backup' = Ended(backup) /\ UNCHANGED <<backupFile, backupSaved, mem>>
  BY DEF ReceiveUnhandled
<1>2. DeviceExact(backup', backupFile, mem)
  BY <1>1, EndedExact DEF BackupInv
<1> QED
  BY <1>1, <1>2 DEF BackupInv

LEMMA ConsoleResetStep ==
    ASSUME BackupInv, ResetDevice PROVE BackupInv'
<1> DEFINE d1 == [backup EXCEPT !.com = "none"]
           d2 == [d1 EXCEPT !.addr = 0]
           d3 == [d2 EXCEPT !.addr_counter = 0]
           d4 == [d3 EXCEPT !.write_enable = FALSE]
           d5 == [d4 EXCEPT !.reset_command = FALSE]
           d6 == [d5 EXCEPT !.autodetect = 0]
<1>1. backup \in Device /\ DeviceExact(backup, backupFile, mem)
  BY DEF BackupInv, DeviceExact
<1>2. backup' \in Device
  <2>1. d1 \in Device /\ 0 \in Nat /\ FALSE \in BOOLEAN
    BY <1>1, SetCom
  <2>2. d2 \in Device
    BY <2>1, SetAddr, Zenon
  <2>3. d3 \in Device
    BY <2>1, <2>2, SetCounter, Zenon
  <2>4. d4 \in Device
    BY <2>1, <2>3, SetEnable, Zenon
  <2>5. d5 \in Device
    BY <2>1, <2>4, SetReset, Zenon
  <2>6. d6 \in Device
    BY <2>1, <2>5, SetDetect, Zenon
  <2>7. backup' = d6
    BY <1>1 DEF ResetDevice, Device
  <2> QED
    BY <2>6, <2>7, Zenon
<1>3. /\ backup'.com = "none" /\ backup'.fsize = backup.fsize /\ backup'.state = backup.state
      /\ backup'.addr_size = backup.addr_size /\ UNCHANGED <<backupFile, backupSaved, mem>>
  BY <1>1 DEF ResetDevice, Device
<1>4. DeviceExact(backup', backupFile, mem)
  BY <1>1, <1>2, <1>3 DEF DeviceExact, InPlace, Accessing, WidthKnown, FooterRight, Kept
<1> QED
  BY <1>3, <1>4 DEF BackupInv

LEMMA ReopenStep ==
    ASSUME BackupInv, Reopen PROVE BackupInv'
<1>1. /\ DeviceExact(backup, backupFile, mem) /\ backup \in Device
      /\ FileWhole(backupFile, backup.fsize) /\ backupFile \in Seq(Int)
      /\ FooterRight(backup, backupFile) /\ Kept(backup, backupFile, mem)
      /\ backup' = Opened(backupFile) /\ UNCHANGED <<backupFile, backupSaved, mem>>
  BY DEF BackupInv, DeviceExact, Reopen
<1>2. backup.fsize \in Nat /\ backup.addr_size \in Nat
  BY <1>1, Fields
<1>3. CASE backupFile = <<>> /\ backup.fsize = 0
  <2>1. ~HasFooter(backupFile)
    BY <1>3 DEF HasFooter
  <2>2. backup' = [state |-> "DETECTING", fsize |-> 0, addr_size |-> 0, fp |-> 0, com |-> "none",
                   addr |-> 0, addr_counter |-> 0, write_enable |-> FALSE, reset_command |-> FALSE,
                   autodetect |-> 0]
    BY <1>1, <2>1 DEF Opened
  <2>3. backup' \in Device
    BY <2>2 DEF Device
  <2>4. backup'.fsize = backup.fsize /\ backup'.com = "none" /\ backup'.state = "DETECTING"
    BY <1>3, <2>2
  <2> QED
    BY <1>1, <1>3, <2>3, <2>4 DEF BackupInv, DeviceExact, InPlace, Accessing, WidthKnown, FooterRight, Kept
<1>4. CASE backup.fsize \in SaveSizes /\ Len(backupFile) = backup.fsize + 1
  <2> DEFINE n == backup.fsize
             width == -1 - backupFile[n + 1]
  <2>1. n > 0
    <3>1. \A t \in SaveSizes : t \in Nat \ {0}
      BY BackupAssumption
    <3> QED
      BY <1>2, <1>4, <3>1
  <2>2. backupFile # <<>> /\ backupFile[n + 1] = -1 - backup.addr_size
    BY <1>1, <1>2, <1>4 DEF FooterRight, Footer
  <2>3. HasFooter(backupFile) /\ Len(backupFile) > 1 /\ Len(backupFile) - 1 = n
        /\ backupFile[Len(backupFile)] = backupFile[n + 1]
    BY <1>2, <1>4, <2>1, <2>2 DEF HasFooter
  <2>4. width = backup.addr_size
    BY <1>2, <2>2
  <2>5. backup' = [state |-> "RUNNING", fsize |-> n, addr_size |-> width, fp |-> 0, com |-> "none",
                   addr |-> 0, addr_counter |-> 0, write_enable |-> FALSE, reset_command |-> FALSE,
                   autodetect |-> 0]
    BY <1>1, <2>3 DEF Opened
  <2> HIDE DEF width
  <2>6. backup' \in Device
    BY <1>2, <2>4, <2>5 DEF Device
  <2>7. /\ backup'.fsize = n /\ backup'.com = "none" /\ backup'.state = "RUNNING"
        /\ backup'.addr_size = backup.addr_size
    BY <2>4, <2>5
  <2> QED
    BY <1>1, <2>6, <2>7 DEF BackupInv, DeviceExact, InPlace, Accessing, WidthKnown, FooterRight, Kept
<1> QED
  BY <1>1, <1>3, <1>4 DEF FileWhole

LEMMA SaveStep ==
    ASSUME BackupInv, save_state PROVE BackupInv'
<1> DEFINE data == SubSeq(backupFile, 1, backup.fsize)
           s == [device |-> backup, data |-> data, mem |-> mem]
<1>1. /\ DeviceExact(backup, backupFile, mem) /\ backup \in Device /\ backup.fsize > 0
      /\ FileWhole(backupFile, backup.fsize) /\ backupFile \in Seq(Int) /\ backup.state = "RUNNING"
      /\ InPlace(backup) /\ mem \in [Addresses -> Int]
      /\ backup.addr_size > 0 => Holds(backupFile, backup.fsize, mem)
  BY DEF BackupInv, DeviceExact, save_state, DataPhase, Kept
<1>2. backupSaved' = <<s>> /\ UNCHANGED <<backupFile, backup, mem>>
  BY DEF save_state
<1>3. backup.fsize \in Nat /\ backup.fsize \in SaveSizes /\ Len(backupFile) = backup.fsize + 1
  BY <1>1, Fields DEF FileWhole
<1>4. /\ data \in Seq(Int) /\ Len(data) = backup.fsize
      /\ \A i \in 1 .. backup.fsize : data[i] = backupFile[i]
  BY <1>1, <1>3
<1> HIDE DEF data
<1>5. ASSUME backup.addr_size > 0 PROVE Holds(data, backup.fsize, mem)
  <2>1. SUFFICES ASSUME NEW a \in Addresses
                 PROVE  mem[a] = IF a < backup.fsize THEN data[a + 1] ELSE Uninit
    BY DEF Holds
  <2>2. a \in Nat /\ mem[a] = IF a < backup.fsize THEN backupFile[a + 1] ELSE Uninit
    BY <1>1, <1>5, BackupAssumption DEF Holds, Addresses
  <2> QED
    BY <1>3, <1>4, <2>2
<1>6. s.device = backup /\ s.data = data /\ s.mem = mem
  OBVIOUS
<1> HIDE DEF s
<1>7. SavedExact(s)
  BY <1>1, <1>3, <1>4, <1>5, <1>6 DEF SavedExact
<1>8. backupSaved'[1] = s
  BY <1>2
<1> QED
  BY <1>1, <1>2, <1>7, <1>8 DEF BackupInv

LEMMA LoadStep ==
    ASSUME BackupInv, load_state PROVE BackupInv'
<1> DEFINE s == backupSaved[1]
           N == s.device.fsize
           g == [i \in 1 .. Len(backupFile) |-> IF i <= Len(s.data) THEN s.data[i] ELSE backupFile[i]]
           P == Padded(g, s.device, N)
<1>1. SavedExact(s) /\ N = backup.fsize
  BY DEF BackupInv, load_state
<1>2. backupFile' = P /\ backup' = s.device /\ mem' = s.mem /\ backupSaved' = <<>>
  BY DEF load_state, SeekToPosition
<1>3. /\ s.device \in Device /\ s.device.state = "RUNNING"
      /\ N \in SaveSizes /\ InPlace(s.device) /\ s.data \in Seq(Int) /\ Len(s.data) = N
      /\ s.device.addr_size > 0 => Holds(s.data, N, s.mem)
      /\ s.mem \in [Addresses -> Int]
  BY <1>1 DEF SavedExact
<1>4. N \in Nat /\ N > 0
  BY <1>3, BackupAssumption
<1>5. backupFile \in Seq(Int) /\ Len(backupFile) = N + 1
  BY <1>1, <1>4 DEF BackupInv, DeviceExact, FileWhole
<1> HIDE DEF s, N
<1>6. /\ g \in Seq(Int) /\ Len(g) = N + 1
      /\ \A i \in 1 .. N : g[i] = s.data[i]
  <2>1. \A i \in 1 .. N + 1 : g[i] \in Int
    BY <1>3, <1>4, <1>5
  <2>2. g = [i \in 1 .. N + 1 |-> g[i]]
    BY <1>5
  <2>3. \A i \in 1 .. N : g[i] = s.data[i]
    BY <1>3, <1>4, <1>5
  <2> HIDE DEF g
  <2>4. g \in Seq(Int) /\ Len(g) = N + 1
    BY <1>4, <2>1, <2>2
  <2> QED
    BY <2>3, <2>4
<1> HIDE DEF g
<1>7. FileWhole(g, N)
  BY <1>3, <1>5, <1>6 DEF FileWhole
<1>8. pad_up_size(N) = N /\ \E t \in SaveSizes : t >= N
  <2>1. \E t \in SaveSizes : t >= N
    BY <1>3, <1>4
  <2>2. pad_up_size(N) \in SaveSizes /\ pad_up_size(N) >= N /\ pad_up_size(N) <= N
    BY <1>3, <1>4, <2>1, PadUp
  <2>3. pad_up_size(N) \in Nat
    BY <2>2, BackupAssumption
  <2> QED
    BY <1>4, <2>1, <2>2, <2>3
<1>9. /\ P \in Seq(Int) /\ FileWhole(P, N) /\ P[N + 1] = Footer(s.device.addr_size)
      /\ \A a \in Nat : a < N => P[a + 1] = IF a < N THEN g[a + 1] ELSE Uninit
  <2>1. s.device.fsize = N /\ N <= pad_up_size(N)
    BY <1>4, <1>8 DEF N
  <2> QED
    <3>1. s.device \in Device /\ g \in Seq(Int)
      BY <1>3, <1>6
    <3>2. FileWhole(g, s.device.fsize) /\ s.device.fsize <= pad_up_size(N)
      BY <1>7, <2>1
    <3>3. /\ Padded(g, s.device, N) \in Seq(Int) /\ FileWhole(Padded(g, s.device, N), pad_up_size(N))
          /\ Padded(g, s.device, N)[pad_up_size(N) + 1] = Footer(s.device.addr_size)
          /\ \A a \in Nat : a < pad_up_size(N) =>
               Padded(g, s.device, N)[a + 1] = IF a < s.device.fsize THEN g[a + 1] ELSE Uninit
      BY <1>4, <1>8, <3>1, <3>2, PaddedFacts, Zenon
    <3> QED
      BY <1>8, <2>1, <3>3
<1> HIDE DEF P
<1>10. ASSUME s.device.addr_size > 0 PROVE Holds(P, N, s.mem)
  <2>1. SUFFICES ASSUME NEW a \in Addresses
                 PROVE  s.mem[a] = IF a < N THEN P[a + 1] ELSE Uninit
    BY DEF Holds
  <2>2. a \in Nat /\ s.mem[a] = IF a < N THEN s.data[a + 1] ELSE Uninit
    BY <1>3, <1>10, BackupAssumption DEF Holds, Addresses
  <2>3. a < N => P[a + 1] = g[a + 1] /\ g[a + 1] = s.data[a + 1]
    BY <1>4, <1>6, <1>9, <2>2
  <2> QED
    BY <2>2, <2>3
<1>11. Kept(s.device, P, s.mem) /\ FooterRight(s.device, P)
  <2>1. P # <<>> /\ s.device.addr_size \in Nat /\ s.device.fsize = N
    BY <1>3, <1>4, <1>9, Fields DEF FileWhole, N
  <2> QED
    BY <1>9, <1>10, <2>1 DEF Kept, FooterRight
<1>12. DeviceExact(s.device, P, s.mem)
  BY <1>3, <1>9, <1>11 DEF DeviceExact, WidthKnown, N
<1> QED
  BY <1>2, <1>12 DEF BackupInv

-----------------------------------------------------------------------------
(* What the file holds, where the stream is, and what a saved state holds, *)
(* stays right whatever bytes software sends, however its commands are cut *)
(* short, and whenever the console is reset, the program is restarted or a *)
(* state is saved or loaded.                                               *)
THEOREM BackupInvariance == BackupSpec => []BackupInv
<1>1. BackupInit => BackupInv
  <2> SUFFICES ASSUME BackupInit PROVE BackupInv
    OBVIOUS
  <2>1. backup = [state |-> "DETECTING", fsize |-> 0, addr_size |-> 0, fp |-> 0, com |-> "none",
                  addr |-> 0, addr_counter |-> 0, write_enable |-> FALSE, reset_command |-> FALSE,
                  autodetect |-> 0]
    BY DEF BackupInit, Opened, HasFooter
  <2>2. backup \in Device
    BY <2>1 DEF Device
  <2>3. backup.fsize = 0 /\ backup.com = "none" /\ backup.state = "DETECTING"
    BY <2>1
  <2>4. backupFile = <<>> /\ backupSaved = <<>> /\ mem = [a \in Addresses |-> Uninit] /\ Uninit \in Int
    BY BackupAssumption DEF BackupInit
  <2>5. Holds(backupFile, 0, mem) /\ mem \in [Addresses -> Int]
    BY <2>4, BackupAssumption DEF Holds, Addresses
  <2> QED
    BY <2>2, <2>3, <2>4, <2>5 DEF BackupInv, DeviceExact, FileWhole, InPlace, Accessing, WidthKnown, FooterRight, Kept
<1>2. BackupInv /\ [BackupNext]_backupVars => BackupInv'
  <2> SUFFICES ASSUME BackupInv, [BackupNext]_backupVars PROVE BackupInv'
    OBVIOUS
  <2>1. CASE auxspi_reset
    BY <2>1, ResetStep
  <2>2. CASE data_command
    <3>1. CASE \E c \in Commands8 : ReceiveCommand(c)
      BY <3>1, CommandStep
    <3>2. CASE ReceiveUnknown
      BY <3>2, UnknownStep
    <3>3. CASE \E v \in 0 .. Base - 1 : ReceiveAddress(v) \/ TransferData(v)
      BY <3>3, AddressStep, TransferStep
    <3>4. CASE ReceiveUnhandled
      BY <3>4, UnhandledStep
    <3> QED
      BY <2>2, <3>1, <3>2, <3>3, <3>4 DEF data_command
  <2>3. CASE ResetDevice
    BY <2>3, ConsoleResetStep
  <2>4. CASE Reopen
    BY <2>4, ReopenStep
  <2>5. CASE save_state
    BY <2>5, SaveStep
  <2>6. CASE load_state
    BY <2>6, LoadStep
  <2>7. CASE UNCHANGED backupVars
    BY <2>7 DEF backupVars, BackupInv
  <2> QED
    BY <2>1, <2>2, <2>3, <2>4, <2>5, <2>6, <2>7 DEF BackupNext
<1> QED
  BY <1>1, <1>2, PTL DEF BackupSpec

(* A read of the backup memory returns the byte last stored at the address *)
(* that was sent, or the value of fresh memory (mc.cpp, BackupDevice).     *)
THEOREM BackupBytesExact == BackupSpec => []BackupReads
<1>1. BackupInv => BackupReads
  <2> SUFFICES ASSUME BackupInv, DataPhase, backup.addr_size > 0, backup.com = "READLOW",
                      Wrapped(backup).addr <= MaxAddr
               PROVE  ReadByte = mem[Wrapped(backup).addr]
    BY DEF BackupReads
  <2> DEFINE w == Wrapped(backup)
             e == DeviceReady(w)
             g == FileReady(w)
  <2>1. DeviceExact(backup, backupFile, mem) /\ Accessing(backup)
    BY DEF BackupInv, DataPhase, Access, Accessing
  <2>2. w.addr \in Addresses /\ Holds(g, e.fsize, mem) /\ w.addr < e.fsize /\ e.fp = w.addr
    BY <2>1, ReadyFacts
  <2>3. ReadByte = g[e.fp + 1]
    BY DEF ReadByte
  <2> QED
    BY <2>2, <2>3 DEF Holds
<1> QED
  BY <1>1, BackupInvariance, PTL
=============================================================================
