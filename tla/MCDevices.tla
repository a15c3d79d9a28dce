----------------------------- MODULE MCDevices -----------------------------
(***************************************************************************)
(* The devices that do not interact, each explored alone: a behaviour      *)
(* chooses its device at the start and leaves the others as they are.      *)
(***************************************************************************)
EXTENDS Backup, Timers, GeometryEngine, TexCache, IntrWait, Card, IpcSync, Rtc, Sound

CONSTANT Devices
VARIABLE device

deviceVars == <<device, backupVars, timerVars, gxVars, texVars, intrVars, cardVars, syncVars,
                rtcVars, soundVars>>

(* Where an initial state is chosen, only the explored device chooses.     *)
DevicesInit ==
    /\ device \in Devices
    /\ BackupInit /\ TimersInit /\ GxInit /\ TexInit /\ IntrInit
    /\ CardInit /\ (device # "card" => mode = "RAW")
    /\ SyncInit /\ (device # "ipcsync" => ~ensata)
    /\ RtcInit /\ SoundInit

DevicesNext ==
    /\ device' = device
    /\ \/ /\ device = "backup" /\ BackupNext
          /\ UNCHANGED <<timerVars, gxVars, texVars, intrVars, cardVars, syncVars, rtcVars, soundVars>>
       \/ /\ device = "timers" /\ TimersNext
          /\ UNCHANGED <<backupVars, gxVars, texVars, intrVars, cardVars, syncVars, rtcVars, soundVars>>
       \/ /\ device = "geometry" /\ GxNext
          /\ UNCHANGED <<backupVars, timerVars, texVars, intrVars, cardVars, syncVars, rtcVars, soundVars>>
       \/ /\ device = "texcache" /\ TexNext
          /\ UNCHANGED <<backupVars, timerVars, gxVars, intrVars, cardVars, syncVars, rtcVars, soundVars>>
       \/ /\ device = "intrwait" /\ IntrNext
          /\ UNCHANGED <<backupVars, timerVars, gxVars, texVars, cardVars, syncVars, rtcVars, soundVars>>
       \/ /\ device = "card" /\ CardNext
          /\ UNCHANGED <<backupVars, timerVars, gxVars, texVars, intrVars, syncVars, rtcVars, soundVars>>
       \/ /\ device = "ipcsync" /\ SyncNext
          /\ UNCHANGED <<backupVars, timerVars, gxVars, texVars, intrVars, cardVars, rtcVars, soundVars>>
       \/ /\ device = "clock" /\ RtcNext
          /\ UNCHANGED <<backupVars, timerVars, gxVars, texVars, intrVars, cardVars, syncVars, soundVars>>
       \/ /\ device = "sound" /\ SoundNext
          /\ UNCHANGED <<backupVars, timerVars, gxVars, texVars, intrVars, cardVars, syncVars, rtcVars>>

DevicesSpec == DevicesInit /\ [][DevicesNext]_deviceVars

(* The values of all the variables, device by device.                      *)
DevicesTypeOK ==
    CASE device = "backup"   -> BackupTypeOK
      [] device = "timers"   -> TimersTypeOK
      [] device = "geometry" -> GxTypeOK
      [] device = "texcache" -> TexTypeOK
      [] device = "intrwait" -> IntrTypeOK
      [] device = "card"     -> CardTypeOK
      [] device = "ipcsync"  -> SyncTypeOK
      [] device = "clock"    -> RtcTypeOK
      [] device = "sound"    -> SoundTypeOK

-----------------------------------------------------------------------------
(* Banks F and B bring palettes and textures, A also the index table.      *)
MCBankOrder == <<"F", "A", "B">>

MCPurposes ==
    [b \in {"F", "A", "B"} |->
        CASE b = "F" -> {[use |-> "palette", slot |-> 0]}
          [] b = "A" -> {[use |-> "texture", slot |-> s] : s \in {0, 1}}
          [] b = "B" -> {[use |-> "texture", slot |-> 0]}]

MCTexKeys ==
    {[mode |-> m, slot |-> 0, pal |-> 0] : m \in {"palette", "4x4"}}
      \cup {[mode |-> "direct", slot |-> 1, pal |-> 0]}

(* The turn of a year: every byte of the date changes.                     *)
MCMoments ==
    <<[year |-> 2015, month |-> 12, day |-> 31, weekday |-> 4, hour |-> 23, minute |-> 59, second |-> 59],
      [year |-> 2016, month |-> 1, day |-> 1, weekday |-> 5, hour |-> 0, minute |-> 0, second |-> 0]>>

(* Nothing, and the bit that is the alarm mode of regStatus2.              *)
MCBytes == {{}, {2}}

(* A loop shorter than a step, and one behind the header.                  *)
MCSounds ==
    {[format |-> "pcm16", length |-> 1, loopstart |-> 1],
     [format |-> "adpcm", length |-> 3, loopstart |-> 1]}
=============================================================================
