---- MODULE Ata ----
(***************************************************************************)
(* The driver of ata.cpp and the drive it talks to.  The driver polls the  *)
(* status register a bounded number of times, before it writes a command   *)
(* and before it moves the 256 words of a sector; every caller asks for    *)
(* one sector, so the check of the count never refuses.  One step is one   *)
(* poll, one command with the registers before it, or one sector's words.  *)
(*                                                                         *)
(* The drive is external: it works between any two polls for as long as it *)
(* likes, refuses any command, and loses a write after it took the data.   *)
(* It shows BSY by the first status read after a command and is ready when *)
(* it is not busy.  A command that comes while it is busy or has data to   *)
(* move is ignored, or drops what it was doing: ATA leaves that open.      *)
(***************************************************************************)
EXTENDS Integers, FiniteSets

CONSTANTS Lbas,         \* sector addresses callers pass
          LOW,          \* addresses the three address registers tell apart (2^24)
          HEADS,        \* and the four bits of the device register (2^4)
          Data,         \* contents callers write
          Old,          \* Old[s]: what sector s held before
          Identity, Noise,
          POLLS         \* reads of the status register before the driver gives up

SECTORS == LOW * HEADS

ASSUME AtaAssumption == /\ LOW \in Nat \ {0} /\ HEADS \in Nat \ {0} /\ POLLS \in Nat \ {0}
                        /\ Lbas \subseteq Nat
                        /\ Old = [s \in 0..(SECTORS - 1) |-> Old[s]]

VARIABLES disk_exists, disk_checked,
          pc, call, polls,      \* the call in progress and the polls it has left
          drive,                \* [phase, cmd, at, err]
          present,              \* there is a drive at all
          medium,               \* the sectors
          owed,                 \* requests given up that the drive may still serve
          answer, ret           \* what the last transfer gave, and its code

driver == <<disk_exists, disk_checked>>
reply  == <<answer, ret>>
vars   == <<driver, pc, call, polls, drive, present, medium, owed, reply>>

Calls == [op : {"init"}] \cup [op : {"read"}, lba : Lbas] \cup [op : {"write"}, lba : Lbas, data : Data]
NoCall == [op |-> "none"]

BUSY  == drive.phase \in {"busy", "commit"}             \* ATA_STATUS_BUSY
ERROR == drive.err                                      \* ATA_STATUS_ERROR

\* Mutant: the bits for the device register are left out.
AddressLow(lba) == lba % LOW

\* The address as it arrives in the registers: the low bits, and the next four.
Address(lba) == ((lba \div LOW) % HEADS) * LOW + (lba % LOW)

Init == /\ disk_exists = FALSE /\ disk_checked = FALSE
        /\ pc = "idle" /\ call = NoCall /\ polls = 0
        /\ drive = [phase |-> "idle", cmd |-> "none", at |-> 0, err |-> FALSE]
        /\ present \in BOOLEAN
        /\ medium = Old
        /\ owed = {} /\ answer = "fail" /\ ret = 0

Goto(p) == pc' = p /\ polls' = POLLS
Return(code, value) == /\ pc' = "idle" /\ call' = NoCall /\ polls' = 0
                       /\ ret' = code /\ answer' = value

----------------------------------------------------------------------------
\* The drive (external).

\* The registers of a command are written; a drive in the middle of something
\* may ignore it.
Command(cmd, at) ==
  \/ drive' = [phase |-> "busy", cmd |-> cmd, at |-> at, err |-> FALSE]
  \/ drive.phase # "idle" /\ UNCHANGED drive

\* It finishes the part it is busy with: now it has data, wants data, or refuses.
Work == /\ BUSY
        /\ \/ /\ drive.phase = "busy"
              /\ drive' \in {[drive EXCEPT !.phase = IF drive.cmd = "write" THEN "out" ELSE "in"],
                             [drive EXCEPT !.phase = "idle", !.err = TRUE]}
           \/ drive.phase = "commit" /\ drive' = [drive EXCEPT !.phase = "idle"]
        /\ UNCHANGED <<driver, pc, call, polls, present, medium, owed, reply>>

----------------------------------------------------------------------------
\* init and the detection, which a first transfer without init runs as well.
Call(c) == /\ pc = "idle" /\ call' = c /\ polls' = 0
           /\ IF c.op = "init"
                THEN disk_checked' = FALSE /\ disk_exists' = FALSE /\ pc' = "probe"
                ELSE UNCHANGED driver /\ pc' = IF disk_checked THEN "enter" ELSE "probe"
           /\ UNCHANGED <<drive, present, medium, owed, reply>>

Detected(found) == /\ disk_checked' = TRUE /\ disk_exists' = found
                   /\ polls' = 0
                   /\ IF call.op = "init" THEN pc' = "idle" /\ call' = NoCall
                      ELSE pc' = "enter" /\ UNCHANGED call
                   /\ UNCHANGED reply

\* Nobody waits for the drive before IDENTIFY, and nobody reads its answer.
Probe == /\ pc = "probe"
         /\ IF present
              THEN /\ Command("identify", 0)
                   /\ owed' = owed \cup {[cmd |-> "identify", at |-> 0]}
                   /\ Goto("detect")
                   /\ UNCHANGED <<driver, call, reply>>
              ELSE Detected(FALSE) /\ UNCHANGED <<drive, owed>>
         /\ UNCHANGED <<present, medium>>

Detect == /\ pc = "detect"
          /\ IF BUSY /\ polls > 1
               THEN polls' = polls - 1 /\ UNCHANGED <<driver, pc, call, reply>>
               ELSE Detected(~ERROR /\ ~BUSY)
          /\ UNCHANGED <<drive, present, medium, owed>>

----------------------------------------------------------------------------
\* read_sectors and write_sectors.
Begin == /\ pc = "enter"
         /\ IF disk_exists THEN Goto("ready") /\ UNCHANGED <<call, reply>>
            ELSE Return(-1, "fail")
         /\ UNCHANGED <<driver, drive, present, medium, owed>>

\* Mutants: a wait that does not count, and one that counts past its end.
WaitForever(at, then, code) ==
  /\ pc = at
  /\ IF ~BUSY THEN Goto(then) /\ UNCHANGED <<call, owed, reply>>
     ELSE UNCHANGED <<pc, call, polls, owed, reply>>
  /\ UNCHANGED <<driver, drive, present, medium>>
WaitOneMore(at, then, code) ==
  /\ pc = at
  /\ IF ~BUSY THEN Goto(then) /\ UNCHANGED <<call, owed, reply>>
     ELSE IF polls >= 0 THEN polls' = polls - 1 /\ UNCHANGED <<pc, call, owed, reply>>
     ELSE Return(code, "fail") /\ UNCHANGED owed
  /\ UNCHANGED <<driver, drive, present, medium>>

\* wait_for_ready: one poll.  A transfer given up after its command stays owed.
wait_for_ready(at, then, code) ==
  /\ pc = at
  /\ IF ~BUSY THEN Goto(then) /\ UNCHANGED <<call, owed, reply>>
     ELSE IF polls > 1 THEN polls' = polls - 1 /\ UNCHANGED <<pc, call, owed, reply>>
     ELSE /\ Return(code, "fail")
          /\ owed' = IF code = -4
                     THEN owed \cup {[cmd |-> call.op, at |-> Address(call.lba)]} ELSE owed
  /\ UNCHANGED <<driver, drive, present, medium>>

Issue == /\ pc = "command"
         /\ Command(call.op, Address(call.lba))
         /\ owed' = IF drive.phase = "idle" THEN {} ELSE owed
         /\ Goto("done")
         /\ UNCHANGED <<driver, call, present, medium, reply>>

\* Mutant: the words are left in the drive.
ReadNothing == /\ pc = "data" /\ call.op = "read"
               /\ IF ERROR THEN Return(-5, "fail") ELSE Return(0, medium[drive.at])
               /\ UNCHANGED <<driver, drive, present, medium, owed>>

\* The words of whatever the drive has to give; a drive that has none gives noise.
ReadData == /\ pc = "data" /\ call.op = "read"
            /\ IF ERROR THEN Return(-5, "fail") /\ UNCHANGED drive
               ELSE IF drive.phase = "in"
                 THEN /\ Return(0, IF drive.cmd = "read" THEN medium[drive.at] ELSE Identity)
                      /\ drive' = [drive EXCEPT !.phase = "idle"]
                 ELSE Return(0, Noise) /\ UNCHANGED drive
            /\ UNCHANGED <<driver, present, medium, owed>>

\* The words go out whatever the status says; a drive that waits for none drops
\* them, and one that takes them may still lose the sector.
WriteData == /\ pc = "data" /\ call.op = "write"
             /\ Return(0, "ok")
             /\ IF drive.phase = "out"
                  THEN \E lost \in BOOLEAN :
                         /\ drive' = [drive EXCEPT !.phase = "commit", !.err = lost]
                         /\ medium' = IF lost THEN medium
                                      ELSE [medium EXCEPT ![drive.at] = call.data]
                  ELSE UNCHANGED <<drive, medium>>
             /\ UNCHANGED <<driver, present, owed>>

Proceed == \/ Probe \/ Detect \/ Begin
           \/ wait_for_ready("ready", "command", -3) \/ wait_for_ready("done", "data", -4)
           \/ Issue \/ ReadData \/ WriteData

Next == (\E c \in Calls : Call(c)) \/ Proceed \/ Work

Spec == Init /\ [][Next]_vars
\* The CPU runs the call it is in; nothing obliges the drive to work.
FairSpec == Spec /\ WF_vars(Proceed)

----------------------------------------------------------------------------
D == INSTANCE Disk WITH contents <- medium

TypeOK ==
  /\ disk_exists \in BOOLEAN /\ disk_checked \in BOOLEAN /\ present \in BOOLEAN
  /\ pc \in {"idle", "probe", "detect", "enter", "ready", "command", "done", "data"}
  /\ call \in Calls \cup {NoCall} /\ polls \in 0..POLLS
  /\ drive \in [phase : {"idle", "busy", "in", "out", "commit"},
                cmd : {"none", "identify", "read", "write"}, at : 0..(SECTORS - 1), err : BOOLEAN]
  /\ medium \in [0..(SECTORS - 1) -> Data \cup {Old[s] : s \in DOMAIN Old}]
  /\ owed \subseteq D!Request
  /\ ret \in {0, -1, -3, -4, -5}

\* Between two calls the drive has data to move only for IDENTIFY or for a
\* transfer that was given up: a transfer that is refused, or that succeeds on a
\* drive in step, leaves nothing behind (ata.cpp:100-176).
InStep == pc = "idle" /\ drive.phase \in {"busy", "in", "out"} =>
            [cmd |-> drive.cmd, at |-> drive.at] \in owed

\* What a transfer that returns 0 is worth: it moved the sector asked for, or the
\* sector of a request given up since the drive was last found idle; no other
\* sector ever changes (ata.cpp:119-139, :160-176).
ImplementsDisk == D!DiskSpec

\* Every call returns, also when the drive never answers (ata.cpp:34-44, :72-77).
EveryTransferEnds == pc # "idle" ~> pc = "idle"
====
