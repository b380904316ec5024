---- MODULE Format ----
(***************************************************************************)
(* format_drive of fat32.cpp on a disk that already has its layout: the    *)
(* headers, then the first FAT sector by sector, then the root directory,  *)
(* then init again.  The calls are those of Fat32, before and after.       *)
(***************************************************************************)
EXTENDS Fat32

CONSTANT ENTRIES        \* FAT entries per sector

VARIABLE formatted      \* the volume comes from a format that reported success

END_MARK == 268435448   \* 0x0FFFFFF8, which the driver does not take for an end
LastFatSector == LAST_CLUSTER \div ENTRIES

FormatInit == Init /\ formatted = FALSE

StartFormat == /\ pc = "idle" /\ mode # "off"
               /\ call' = [op |-> "format"] /\ pc' = "headers"
               /\ clean' = TRUE /\ ret' = "waiting"
               /\ UNCHANGED <<disk, local, power, faults, formatted>>

\* The MBR, the boot sector and the FS information sector
Headers(fault) == /\ pc = "headers" /\ Refusable(fault)
                  /\ IF fault = None THEN Go("fats") /\ UNCHANGED local ELSE Return("fail")
                  /\ UNCHANGED <<disk, formatted>>

\* Every FAT sector gets the same contents: two end marks, then zeros.
FatSector(m) == [c \in Clusters |-> IF c \div ENTRIES # m THEN fat[c]
                                    ELSE CASE c % ENTRIES = 0 -> END_MARK
                                           [] c % ENTRIES = 1 -> EOC
                                           [] OTHER -> 0]

ClearFat(fault) ==
  /\ pc = "fats" /\ Refusable(fault)
  /\ fat' = IF fault = None THEN FatSector(i) ELSE fat
  /\ IF fault # None THEN Return("fail")
     ELSE IF i < LastFatSector
            THEN i' = i + 1 /\ Go("fats") /\ UNCHANGED <<cluster, current, extra, j>>
            ELSE i' = 0 /\ Go("root") /\ UNCHANGED <<cluster, current, extra, j>>
  /\ UNCHANGED <<sec, formatted>>

ClearRoot(fault) ==
  /\ pc = "root" /\ Refusable(fault)
  /\ SetSector(ROOT, j, Blank, fault)
  /\ IF fault # None THEN Return("fail")
     ELSE IF j < SPC - 1
            THEN j' = j + 1 /\ Go("root") /\ UNCHANGED <<cluster, current, extra, i>>
            ELSE j' = 0 /\ Go("remount") /\ UNCHANGED <<cluster, current, extra, i>>
  /\ UNCHANGED <<fat, formatted>>

\* "Drive formatted successfully!", then init()
Remount(fault) == /\ pc = "remount" /\ Refusable(fault)
                  /\ mode' = IF fault = None THEN "volume" ELSE "memory"
                  /\ formatted' = TRUE
                  /\ pc' = "idle" /\ ret' = "ok" /\ call' = Idle
                  /\ UNCHANGED <<disk, local, crashes>>

FormatStep(fault) == Headers(fault) \/ ClearFat(fault) \/ ClearRoot(fault) \/ Remount(fault)

FormatNext == \/ Next /\ UNCHANGED formatted
              \/ StartFormat
              \/ \E fault \in Faults : Charge(fault) /\ FormatStep(fault)

FormatSpec == FormatInit /\ [][FormatNext]_<<vars, formatted>>

\* What "Drive formatted successfully!" says (fat32.cpp:773): the volume can be
\* used, so no file is ever given the cluster of the root directory.
RootKept == formatted => \A p \in Places : First(p) # ROOT
====
