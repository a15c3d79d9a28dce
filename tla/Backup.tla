------------------------------- MODULE Backup -------------------------------
(***************************************************************************)
(* The backup memory of a game card (BackupDevice, mc.cpp): a serial       *)
(* memory whose address width has to be guessed from the first command,    *)
(* kept in a file that grows as it is used and ends in a footer.  The      *)
(* stream position of the file is kept in step with the address instead of *)
(* being set for every byte.                                               *)
(*                                                                         *)
(* Software sends any byte at any time.  An address has addr_size digits   *)
(* in base Base (256).  `mem' is what the memory promises: a byte per      *)
(* address, whatever the file looks like.                                  *)
(***************************************************************************)
EXTENDS Integers, Sequences, FiniteSets

CONSTANTS Base,         \* values of a byte
          SaveSizes,    \* sizes the file is padded to
          Uninit,       \* uninitializedValue, a byte
          MaxAddr,      \* bound: addresses software uses
          MaxDetect,    \* bound: bytes of the command by which the width is detected
          MaxStored     \* bound: addresses that hold another value than Uninit

ASSUME BackupAssumption ==
    /\ Base \in Nat \ {0, 1} /\ Uninit \in 0 .. Base - 1 /\ MaxAddr \in Nat /\ MaxDetect \in Nat /\ MaxStored \in Nat
    /\ SaveSizes \subseteq Nat \ {0} /\ \E s \in SaveSizes : s > MaxAddr

VARIABLES backupFile,   \* bytes, and footers as negative numbers
          backup,       \* the BackupDevice
          backupSaved,  \* the save state, <<>> while there is none
          mem           \* what has been stored at each address

backupVars == <<backupFile, backup, backupSaved, mem>>

Addresses == 0 .. MaxAddr
Commands8 == {"READLOW", "READHIGH", "WRITELOW", "WRITEHIGH", "WRITEENABLE", "WRITEDISABLE"}

(* The footer holds the address width; it is one entry of the file.        *)
Footer(width) == -1 - width
HasFooter(f) == f # <<>> /\ f[Len(f)] < 0

(* The constructor and reset: the device after the program was started.    *)
Opened(f) ==
    [state |-> IF HasFooter(f) /\ Len(f) > 1 THEN "RUNNING" ELSE "DETECTING",
     fsize |-> IF HasFooter(f) THEN Len(f) - 1 ELSE 0,
     addr_size |-> IF HasFooter(f) THEN -1 - f[Len(f)] ELSE 0,
     fp |-> 0, com |-> "none", addr |-> 0, addr_counter |-> 0,
     write_enable |-> FALSE, reset_command |-> FALSE, autodetect |-> 0]

BackupInit ==
    /\ backupFile = <<>> /\ backup = Opened(<<>>) /\ backupSaved = <<>>
    /\ mem = [a \in Addresses |-> Uninit]

-----------------------------------------------------------------------------
pad_up_size(n) == CHOOSE s \in SaveSizes : s >= n /\ \A t \in SaveSizes : t >= n => s <= t

(* ensure: the file is padded from fsize on, a new footer follows, and     *)
(* what lies behind it stays.  The stream is left at the last byte that    *)
(* was asked for.                                                          *)
Padded(f, d, n) ==
    [i \in 1 .. (IF Len(f) > pad_up_size(n) + 1 THEN Len(f) ELSE pad_up_size(n) + 1) |->
       IF i <= d.fsize THEN f[i]
       ELSE IF i <= pad_up_size(n) THEN Uninit
       ELSE IF i = pad_up_size(n) + 1 THEN Footer(d.addr_size)
       ELSE f[i]]

(* Growing leaves the stream where the padding was written.                *)
GrownNoSeek(d, n) == [d EXCEPT !.fsize = pad_up_size(n), !.fp = pad_up_size(n)]

Grown(d, n) == [d EXCEPT !.fsize = pad_up_size(n), !.fp = n - 1]

(* With an address of one byte the memory has twice as many bytes, and     *)
(* sequential access wraps there.                                          *)
Wrapped(d) ==
    IF d.addr_size = 1
      THEN [d EXCEPT !.addr = @ % (2 * Base), !.fp = d.addr % (2 * Base)]
      ELSE d

(* The command byte taken for a byte of the address.                       *)
WidthWithCommand(n) == n

(* detect: the width is guessed from the bytes of the first command when   *)
(* it ends, up to four of them as an address and one byte of data.  The    *)
(* game codes for which another width is known are left out.               *)
WidthOf(n) == CASE n = 1 -> 1 [] n \in 2 .. 4 -> n - 1 [] OTHER -> n % 4

(* checkReset: with the last byte of a transfer the command is over.       *)
Ended(d) == IF d.reset_command THEN [d EXCEPT !.com = "none", !.reset_command = FALSE] ELSE d

(* auxspi_reset: the next byte is the last one of the transfer.            *)
auxspi_reset ==
    /\ backup' = [backup EXCEPT !.reset_command = TRUE]
    /\ UNCHANGED <<backupFile, backupSaved, mem>>

(* The first byte of a transfer.                                           *)
ReceiveCommand(c) ==
    /\ backup.com = "none"
    /\ LET high == c \in {"READHIGH", "WRITEHIGH"}
           access == c \notin {"WRITEENABLE", "WRITEDISABLE"}
       IN  backup' = Ended(
             [backup EXCEPT
                !.com = CASE c = "READHIGH" -> "READLOW" [] c = "WRITEHIGH" -> "WRITELOW" [] OTHER -> c,
                !.addr_counter = IF access THEN 0 ELSE @,
                !.addr = IF access THEN (IF high /\ backup.addr_size = 1 THEN 1 ELSE 0) ELSE @,
                !.write_enable = IF access THEN @ ELSE (c = "WRITEENABLE")])
    /\ UNCHANGED <<backupFile, backupSaved, mem>>

Access == backup.com \in {"READLOW", "WRITELOW"}

(* Until the width is known the bytes are only counted.                    *)
ReceiveUnknown ==
    /\ Access /\ backup.state = "DETECTING" /\ backup.autodetect < MaxDetect
    /\ backup' = Ended(IF backup.reset_command
                         THEN [backup EXCEPT !.state = "RUNNING", !.autodetect = 0,
                                             !.addr_size = WidthOf(backup.autodetect + 1)]
                         ELSE [backup EXCEPT !.autodetect = @ + 1])
    /\ UNCHANGED <<backupFile, backupSaved, mem>>

(* A byte of the address; with the last one the stream is positioned.      *)
ReceiveAddress(v) ==
    /\ Access /\ backup.state = "RUNNING" /\ backup.addr_counter < backup.addr_size
    /\ LET a == backup.addr * Base + v
           last == backup.addr_counter + 1 = backup.addr_size
       IN  /\ a <= MaxAddr
           /\ backup' = Ended([backup EXCEPT !.addr = a, !.addr_counter = @ + 1,
                                             !.fp = IF last THEN a ELSE @])
    /\ UNCHANGED <<backupFile, backupSaved, mem>>

(* A byte of data goes to or comes from the place of the stream.  With a   *)
(* width of 0 nothing ever positions the stream: each command goes on      *)
(* where the last one stopped, and is followed up to the footer.           *)
DataPhase == Access /\ backup.state = "RUNNING" /\ backup.addr_counter >= backup.addr_size

Grows(w) == w.addr + 1 >= w.fsize

FileReady(w) == IF Grows(w) THEN Padded(backupFile, w, w.addr + 1) ELSE backupFile
DeviceReady(w) == IF Grows(w) THEN Grown(w, w.addr + 1) ELSE w

ReadByte ==
    LET w == Wrapped(backup) IN FileReady(w)[DeviceReady(w).fp + 1]

TransferData(v) ==
    /\ DataPhase
    /\ LET w == Wrapped(backup)
           d == DeviceReady(w)
           f == FileReady(w)
           store == d.com = "WRITELOW" /\ d.write_enable
       IN  /\ w.addr <= MaxAddr
           /\ w.addr_size = 0 => d.fp < d.fsize
           /\ d.com = "READLOW" => v = ReadByte
           /\ backupFile' = IF store THEN [f EXCEPT ![d.fp + 1] = v] ELSE f
           /\ mem' = IF store /\ w.addr_size > 0 THEN [mem EXCEPT ![w.addr] = v] ELSE mem
           /\ backup' = Ended([d EXCEPT !.addr = @ + 1,
                                       !.fp = IF store \/ d.com = "READLOW" THEN @ + 1 ELSE @])
    /\ Cardinality({a \in Addresses : mem'[a] # Uninit}) <= MaxStored
    /\ UNCHANGED backupSaved

(* A byte after a command that takes none.                                 *)
ReceiveUnhandled ==
    /\ backup.com \in {"WRITEENABLE", "WRITEDISABLE"}
    /\ backup' = Ended(backup)
    /\ UNCHANGED <<backupFile, backupSaved, mem>>

data_command ==
    \/ \E c \in Commands8 : ReceiveCommand(c)
    \/ ReceiveUnknown
    \/ \E v \in 0 .. Base - 1 : ReceiveAddress(v) \/ TransferData(v)
    \/ ReceiveUnhandled

-----------------------------------------------------------------------------
(* The console is reset, or the program is closed and started again.       *)
ResetDevice ==
    /\ backup' = [backup EXCEPT !.com = "none", !.addr = 0, !.addr_counter = 0,
                                !.write_enable = FALSE, !.reset_command = FALSE, !.autodetect = 0]
    /\ UNCHANGED <<backupFile, backupSaved, mem>>

Reopen ==
    /\ backup' = Opened(backupFile)
    /\ UNCHANGED <<backupFile, backupSaved, mem>>

(* The position the stream had is restored after the data was copied.      *)
(* Only states saved in the middle of a read are of interest, where what is *)
(* read next shows the stream, and with writing enabled.                   *)
save_state ==
    /\ backupSaved = <<>> /\ DataPhase /\ backup.fsize > 0
    /\ backup.com = "READLOW" /\ backup.write_enable
    /\ backupSaved' = <<[device |-> backup, data |-> SubSeq(backupFile, 1, backup.fsize), mem |-> mem]>>
    /\ UNCHANGED <<backupFile, backup, mem>>

SeekToPosition(s) == s.device

(* The bytes of the state replace those of the file, and it gets a footer  *)
(* again.  Only a state as large as the file is loaded here.               *)
load_state ==
    /\ backupSaved # <<>>
    /\ LET s == backupSaved[1]
       IN  /\ s.device.fsize = backup.fsize
           /\ backupFile' = Padded([i \in 1 .. Len(backupFile) |->
                                      IF i <= Len(s.data) THEN s.data[i] ELSE backupFile[i]],
                                   s.device, s.device.fsize)
           /\ backup' = SeekToPosition(s)
           /\ mem' = s.mem
    /\ backupSaved' = <<>>

BackupNext == auxspi_reset \/ data_command \/ ResetDevice \/ Reopen \/ save_state \/ load_state

BackupSpec == BackupInit /\ [][BackupNext]_backupVars

-----------------------------------------------------------------------------
BackupTypeOK ==
    /\ \A i \in 1 .. Len(backupFile) : backupFile[i] < Base
    /\ backup.state \in {"DETECTING", "RUNNING"} /\ backup.fsize \in Nat
    /\ backup.com \in {"none"} \cup Commands8 /\ backup.addr_size \in 0 .. 3
    /\ backup.addr \in Nat /\ backup.addr_counter \in 0 .. backup.addr_size /\ backup.fp \in Nat
    /\ mem \in [Addresses -> 0 .. Base - 1]

(* A read returns the byte that was last stored at the address that was    *)
(* sent, or the value of fresh memory: whatever was aborted before, after  *)
(* the file has grown, when the memory wraps, after a save state was       *)
(* loaded in the middle of a command, and when the program was restarted.  *)
(* With a width of 0 no address is sent, and nothing is promised.          *)
BackupReads ==
    DataPhase /\ backup.addr_size > 0 /\ backup.com = "READLOW" /\ Wrapped(backup).addr <= MaxAddr
      => ReadByte = mem[Wrapped(backup).addr]
=============================================================================
