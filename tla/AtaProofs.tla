---- MODULE AtaProofs ----
(***************************************************************************)
(* Proofs about Ata for any number of sectors, polls, heads and contents:  *)
(* between calls the drive has nothing left but what was given up, and     *)
(* every transfer is one that Disk allows.                                 *)
(***************************************************************************)
EXTENDS Ata, TLAPS

----------------------------------------------------------------------------
\* Addresses.
Constants == /\ LOW \in Nat \ {0} /\ HEADS \in Nat \ {0} /\ POLLS \in Nat \ {0}
             /\ SECTORS \in Nat \ {0} /\ SECTORS = LOW * HEADS

LEMMA ConstantsLemma == Constants
<1>1. LOW \in Nat \ {0} /\ HEADS \in Nat \ {0} /\ POLLS \in Nat \ {0}
  BY AtaAssumption
<1>2. LOW * HEADS \in Nat \ {0}
  BY <1>1
<1> QED
  BY <1>1, <1>2 DEF Constants, SECTORS

LEMMA DivisionLemma ==
  ASSUME NEW W \in Nat \ {0}, NEW a \in Nat
  PROVE  /\ a \div W \in Nat /\ a % W \in 0..(W - 1)
         /\ a = (a \div W) * W + (a % W)
OBVIOUS

LEMMA RemainderLemma ==
  ASSUME NEW W \in Nat \ {0}, NEW q \in Nat, NEW r \in 0..(W - 1)
  PROVE  (q * W + r) % W = r
BY SMTT(30)

\* The registers hold the low bits of an address: 24 in the three address
\* registers and four in the device register (ata.cpp:46-51, :119-121).
LEMMA AddressLemma ==
  ASSUME NEW lba \in Nat
  PROVE  Address(lba) = lba % SECTORS /\ Address(lba) \in 0..(SECTORS - 1)
<1> DEFINE a == lba \div LOW
           r == lba % LOW
           b == a \div HEADS
           h == a % HEADS
<1>1. LOW \in Nat \ {0} /\ HEADS \in Nat \ {0} /\ SECTORS \in Nat \ {0} /\ SECTORS = LOW * HEADS
  BY ConstantsLemma DEF Constants
<1>2. a \in Nat /\ r \in 0..(LOW - 1) /\ lba = a * LOW + r
  BY <1>1, DivisionLemma
<1>3. b \in Nat /\ h \in 0..(HEADS - 1) /\ a = b * HEADS + h
  BY <1>1, <1>2, DivisionLemma
<1>4. Address(lba) = h * LOW + r
  BY DEF Address
<1> HIDE DEF a, r, b, h
<1>5. h * LOW + r \in 0..(SECTORS - 1)
  <2>1. h + 1 <= HEADS /\ h \in Nat
    BY <1>1, <1>3
  <2>2. (h + 1) * LOW <= HEADS * LOW
    BY <1>1, <2>1
  <2>3. (h + 1) * LOW = h * LOW + LOW
    BY <1>1, <2>1
  <2>4. h * LOW \in Nat /\ HEADS * LOW = SECTORS
    BY <1>1, <2>1
  <2> QED
    BY <1>1, <1>2, <2>2, <2>3, <2>4
<1>6. lba = b * SECTORS + (h * LOW + r)
  <2>1. a * LOW = (b * HEADS) * LOW + h * LOW
    BY <1>1, <1>3
  <2>2. (b * HEADS) * LOW = b * (HEADS * LOW) /\ HEADS * LOW = LOW * HEADS
    BY <1>1, <1>3
  <2>3. b * SECTORS \in Nat /\ h * LOW \in Nat /\ r \in Nat
    BY <1>1, <1>2, <1>3
  <2> QED
    BY <1>1, <1>2, <2>1, <2>2, <2>3
<1>7. (b * SECTORS + (h * LOW + r)) % SECTORS = h * LOW + r
  BY <1>1, <1>3, <1>5, RemainderLemma
<1> QED
  BY <1>4, <1>5, <1>6, <1>7

----------------------------------------------------------------------------
\* The drive has data to move, or will have.
Unfinished == drive.phase \in {"busy", "in", "out"}
\* ... for a request that was given up, or for the one of the call in progress.
Owed == [cmd |-> drive.cmd, at |-> drive.at] \in owed
Mine == drive.cmd = call.op /\ drive.at = Address(call.lba)

\* What the phases of the drive mean.
DrivePart ==
  /\ Unfinished => ~drive.err /\ drive.cmd # "none"
  /\ drive.phase = "out" => drive.cmd = "write"
  /\ drive.phase = "in" => drive.cmd # "write"

\* What each place of the driver knows of its call and of the drive.
DriverPart ==
  /\ pc # "idle" => call \in Calls
  /\ pc \in {"enter", "ready", "command", "done", "data"} => call.op # "init"
  /\ pc \in {"command", "data"} => ~BUSY
  /\ pc \in {"done", "data"} => drive.phase # "commit" /\ (drive.phase = "idle" => drive.err)

OwedPart ==
  /\ Unfinished /\ pc \notin {"done", "data"} => Owed
  /\ Unfinished /\ pc \in {"done", "data"} => Owed \/ Mine

IInv == TypeOK /\ DrivePart /\ DriverPart /\ OwedPart

Phases == {"idle", "busy", "in", "out", "commit"}
Cmds   == {"none", "identify", "read", "write"}

LEMMA CallLemma ==
  ASSUME NEW c \in Calls
  PROVE  /\ c.op \in {"init", "read", "write"}
         /\ c.op # "init" => /\ c.lba \in Lbas /\ c.lba \in Nat
                             /\ Address(c.lba) \in 0..(SECTORS - 1)
                             /\ Address(c.lba) = c.lba % SECTORS
         /\ c.op = "write" => c.data \in Data
<1>1. /\ c.op \in {"init", "read", "write"}
      /\ c.op # "init" => c.lba \in Lbas
      /\ c.op = "write" => c.data \in Data
  BY DEF Calls
<1>2. Lbas \subseteq Nat
  BY AtaAssumption
<1> QED
  BY <1>1, <1>2, AddressLemma

LEMMA DriveLemma ==
  ASSUME TypeOK
  PROVE  /\ drive.phase \in Phases /\ drive.cmd \in Cmds
         /\ drive.at \in 0..(SECTORS - 1) /\ drive.err \in BOOLEAN
         /\ drive = [phase |-> drive.phase, cmd |-> drive.cmd, at |-> drive.at, err |-> drive.err]
BY DEF TypeOK, Phases, Cmds

LEMMA InitLemma == Init => IInv
<1> SUFFICES ASSUME Init PROVE IInv
  OBVIOUS
<1>1. medium \in [0..(SECTORS - 1) -> Data \cup {Old[s] : s \in DOMAIN Old}]
  <2>1. medium = [s \in 0..(SECTORS - 1) |-> Old[s]] /\ DOMAIN Old = 0..(SECTORS - 1)
    BY AtaAssumption DEF Init
  <2> QED
    BY <2>1
<1>2. TypeOK
  <2>1. drive \in [phase : {"idle", "busy", "in", "out", "commit"},
                   cmd : {"none", "identify", "read", "write"}, at : 0..(SECTORS - 1), err : BOOLEAN]
    BY ConstantsLemma DEF Init, Constants
  <2>2. owed \subseteq D!Request
    BY DEF Init
  <2>3. polls \in 0..POLLS
    BY ConstantsLemma DEF Init, Constants
  <2> QED
    BY <1>1, <2>1, <2>2, <2>3 DEF Init, TypeOK
<1> QED
  BY <1>2 DEF Init, IInv, DrivePart, DriverPart, OwedPart, Unfinished

\* A call begins.
LEMMA CallKeeps == ASSUME IInv, NEW c \in Calls, Call(c) PROVE IInv'
<1>1. /\ pc = "idle" /\ call' = c /\ polls' = 0
      /\ UNCHANGED <<drive, present, medium, owed, reply>>
      /\ pc' \in {"probe", "enter"} /\ (pc' = "enter" => c.op # "init")
      /\ disk_checked' \in BOOLEAN /\ disk_exists' \in BOOLEAN
  BY DEF Call, IInv, TypeOK, driver
<1>2. TypeOK'
  BY <1>1, ConstantsLemma DEF IInv, TypeOK, Constants, reply
<1> QED
  BY <1>1, <1>2 DEF IInv, DrivePart, DriverPart, OwedPart, Unfinished, Owed, Mine, BUSY

\* The drive works.
LEMMA WorkKeeps == ASSUME IInv, Work PROVE IInv'
<1>1. /\ BUSY /\ UNCHANGED <<driver, pc, call, polls, present, medium, owed, reply>>
      /\ drive.phase \in {"busy", "commit"}
  BY DEF Work, BUSY
<1>2. /\ drive' \in [phase : Phases, cmd : Cmds, at : 0..(SECTORS - 1), err : BOOLEAN]
      /\ drive'.cmd = drive.cmd /\ drive'.at = drive.at
      /\ \/ drive.phase = "busy" /\ drive'.phase \in {"in", "out"} /\ drive'.err = drive.err
            /\ (drive'.phase = "out" <=> drive.cmd = "write")
         \/ drive'.phase = "idle" /\ (drive.phase = "busy" => drive'.err = TRUE)
  BY DriveLemma DEF Work, IInv, BUSY, Phases, Cmds
<1>3. TypeOK'
  BY <1>1, <1>2 DEF IInv, TypeOK, Phases, Cmds, driver, reply
<1>4. DrivePart' /\ DriverPart' /\ OwedPart'
  BY <1>1, <1>2 DEF IInv, DrivePart, DriverPart, OwedPart, Unfinished, Owed, Mine, BUSY
<1> QED
  BY <1>3, <1>4 DEF IInv

\* What Command may leave the drive as.
LEMMA CommandLemma ==
  ASSUME TypeOK, NEW cmd \in {"identify", "read", "write"}, NEW at \in 0..(SECTORS - 1),
         Command(cmd, at)
  PROVE  /\ drive' \in [phase : Phases, cmd : Cmds, at : 0..(SECTORS - 1), err : BOOLEAN]
         /\ \/ /\ drive'.phase = "busy" /\ drive'.cmd = cmd /\ drive'.at = at
               /\ drive'.err = FALSE
            \/ drive.phase # "idle" /\ drive' = drive
<1>1. CASE drive' = [phase |-> "busy", cmd |-> cmd, at |-> at, err |-> FALSE]
  BY <1>1 DEF Phases, Cmds
<1>2. CASE drive.phase # "idle" /\ UNCHANGED drive
  BY <1>2 DEF TypeOK, Phases, Cmds
<1> QED
  BY <1>1, <1>2 DEF Command

LEMMA ProbeKeeps == ASSUME IInv, Probe PROVE IInv'
<1>1. pc = "probe" /\ UNCHANGED <<present, medium>> /\ call \in Calls
  BY DEF Probe, IInv, DriverPart
<1>2. CASE present
  <2>1. /\ Command("identify", 0)
        /\ owed' = owed \cup {[cmd |-> "identify", at |-> 0]}
        /\ pc' = "detect" /\ polls' = POLLS
        /\ UNCHANGED <<driver, call, reply>>
    BY <1>2 DEF Probe, Goto
  <2>2. 0 \in 0..(SECTORS - 1)
    BY ConstantsLemma DEF Constants
  <2>3. /\ drive' \in [phase : Phases, cmd : Cmds, at : 0..(SECTORS - 1), err : BOOLEAN]
        /\ \/ /\ drive'.phase = "busy" /\ drive'.cmd = "identify" /\ drive'.at = 0
              /\ drive'.err = FALSE
           \/ drive' = drive
    BY <2>1, <2>2, CommandLemma DEF IInv
  <2>4. owed' \subseteq D!Request
    BY <2>1 DEF IInv, TypeOK, D!Request
  <2>5. TypeOK'
    BY <1>1, <2>1, <2>3, <2>4, ConstantsLemma DEF IInv, TypeOK, Phases, Cmds, driver, reply, Constants
  <2>6. DrivePart' /\ DriverPart'
    BY <1>1, <2>1, <2>3 DEF IInv, DrivePart, DriverPart, Unfinished, BUSY
  <2>7. OwedPart'
    BY <1>1, <2>1, <2>3 DEF IInv, OwedPart, Unfinished, Owed
  <2> QED
    BY <2>5, <2>6, <2>7 DEF IInv
<1>3. CASE ~present
  <2>1. /\ disk_checked' = TRUE /\ disk_exists' = FALSE /\ polls' = 0
        /\ \/ pc' = "idle" /\ call' = NoCall
           \/ pc' = "enter" /\ call' = call /\ call.op # "init"
        /\ UNCHANGED <<reply, drive, owed>>
    BY <1>3 DEF Probe, Detected
  <2>2. TypeOK'
    <3>1. call' \in Calls \cup {NoCall} /\ pc' \in {"idle", "enter"} /\ polls' \in 0..POLLS
      BY <1>1, <2>1, ConstantsLemma DEF Constants
    <3> QED
      BY <1>1, <2>1, <3>1 DEF IInv, TypeOK, reply
  <2>3. DrivePart' /\ DriverPart' /\ OwedPart'
    BY <1>1, <2>1 DEF IInv, DrivePart, DriverPart, OwedPart, Unfinished, Owed, BUSY
  <2> QED
    BY <2>2, <2>3 DEF IInv
<1> QED
  BY <1>2, <1>3

LEMMA DetectKeeps == ASSUME IInv, Detect PROVE IInv'
<1>1. /\ pc = "detect" /\ UNCHANGED <<drive, present, medium, owed>> /\ call \in Calls
      /\ drive.err \in BOOLEAN
  BY DriveLemma DEF Detect, IInv, DriverPart
<1>2. CASE BUSY /\ polls > 1 /\ polls' = polls - 1 /\ UNCHANGED <<driver, pc, call, reply>>
  <2>1. polls' \in 0..POLLS
    BY <1>2, ConstantsLemma DEF IInv, TypeOK, Constants
  <2>2. TypeOK'
    BY <1>1, <1>2, <2>1 DEF IInv, TypeOK, driver, reply
  <2>3. DrivePart' /\ DriverPart' /\ OwedPart'
    BY <1>1, <1>2 DEF IInv, DrivePart, DriverPart, OwedPart, Unfinished, Owed, BUSY
  <2> QED
    BY <2>2, <2>3 DEF IInv
<1>3. CASE Detected(~ERROR /\ ~BUSY)
  <2>1. /\ disk_checked' = TRUE /\ disk_exists' \in BOOLEAN /\ polls' = 0
        /\ \/ pc' = "idle" /\ call' = NoCall
           \/ pc' = "enter" /\ call' = call /\ call.op # "init"
        /\ UNCHANGED reply
    BY <1>3 DEF Detected
  <2>2. TypeOK'
    BY <1>1, <2>1, ConstantsLemma DEF IInv, TypeOK, reply, Constants
  <2>3. DrivePart' /\ DriverPart' /\ OwedPart'
    BY <1>1, <2>1 DEF IInv, DrivePart, DriverPart, OwedPart, Unfinished, Owed, BUSY
  <2> QED
    BY <2>2, <2>3 DEF IInv
<1> QED
  BY <1>2, <1>3 DEF Detect

LEMMA BeginKeeps == ASSUME IInv, Begin PROVE IInv'
<1>1. /\ pc = "enter" /\ UNCHANGED <<driver, drive, present, medium, owed>>
      /\ call \in Calls /\ call.op # "init"
      /\ \/ pc' = "ready" /\ polls' = POLLS /\ UNCHANGED <<call, reply>>
         \/ pc' = "idle" /\ polls' = 0 /\ call' = NoCall /\ ret' = -1
  BY DEF Begin, Goto, Return, IInv, DriverPart
<1>2. TypeOK'
  BY <1>1, ConstantsLemma DEF IInv, TypeOK, driver, reply, Constants
<1>3. DrivePart' /\ DriverPart' /\ OwedPart'
  BY <1>1 DEF IInv, DrivePart, DriverPart, OwedPart, Unfinished, Owed, BUSY
<1> QED
  BY <1>2, <1>3 DEF IInv

\* One poll of wait_for_ready in either of its two places.
LEMMA WaitKeeps ==
  ASSUME IInv,
         wait_for_ready("ready", "command", -3) \/ wait_for_ready("done", "data", -4)
  PROVE  IInv'
<1> SUFFICES ASSUME NEW at, NEW then, NEW code,
                    \/ at = "ready" /\ then = "command" /\ code = -3
                    \/ at = "done" /\ then = "data" /\ code = -4,
                    wait_for_ready(at, then, code)
             PROVE  IInv'
  OBVIOUS
<1>1. /\ pc = at /\ UNCHANGED <<driver, drive, present, medium>>
      /\ call \in Calls /\ call.op # "init"
  BY DEF wait_for_ready, IInv, DriverPart
<1>2. CASE ~BUSY /\ Goto(then) /\ UNCHANGED <<call, owed, reply>>
  <2>1. pc' = then /\ polls' = POLLS /\ UNCHANGED <<call, owed, reply>>
    BY <1>2 DEF Goto
  <2>2. TypeOK'
    BY <1>1, <2>1, ConstantsLemma DEF IInv, TypeOK, driver, reply, Constants
  <2>3. DrivePart' /\ DriverPart' /\ OwedPart'
    BY <1>1, <1>2, <2>1 DEF IInv, DrivePart, DriverPart, OwedPart, Unfinished, Owed, Mine, BUSY
  <2> QED
    BY <2>2, <2>3 DEF IInv
<1>3. CASE polls > 1 /\ polls' = polls - 1 /\ UNCHANGED <<pc, call, owed, reply>>
  <2>1. polls' \in 0..POLLS
    BY <1>3, ConstantsLemma DEF IInv, TypeOK, Constants
  <2>2. TypeOK'
    BY <1>1, <1>3, <2>1 DEF IInv, TypeOK, driver, reply
  <2>3. DrivePart' /\ DriverPart' /\ OwedPart'
    BY <1>1, <1>3 DEF IInv, DrivePart, DriverPart, OwedPart, Unfinished, Owed, Mine, BUSY
  <2> QED
    BY <2>2, <2>3 DEF IInv
<1>4. CASE /\ Return(code, "fail")
           /\ owed' = IF code = -4
                      THEN owed \cup {[cmd |-> call.op, at |-> Address(call.lba)]} ELSE owed
  <2>1. /\ pc' = "idle" /\ call' = NoCall /\ polls' = 0 /\ ret' \in {-3, -4}
    BY <1>4 DEF Return
  <2>2. owed' \subseteq D!Request
    <3>1. call.op \in {"read", "write"} /\ Address(call.lba) \in 0..(SECTORS - 1)
      BY <1>1, CallLemma
    <3>2. [cmd |-> call.op, at |-> Address(call.lba)] \in D!Request
      BY <3>1 DEF D!Request
    <3> QED
      BY <1>4, <3>2 DEF IInv, TypeOK
  <2>3. TypeOK'
    <3>1. call' \in Calls \cup {NoCall} /\ polls' \in 0..POLLS
      BY <2>1, ConstantsLemma DEF Constants
    <3> QED
      BY <1>1, <2>1, <2>2, <3>1 DEF IInv, TypeOK, driver
  <2>4. OwedPart'
    <3>1. CASE at = "ready"
      BY <1>1, <1>4, <2>1, <3>1 DEF IInv, OwedPart, Unfinished, Owed
    <3>2. CASE at = "done" /\ code = -4
      <4>1. owed' = owed \cup {[cmd |-> call.op, at |-> Address(call.lba)]}
        BY <1>4, <3>2
      <4>2. Unfinished => Owed \/ Mine
        BY <1>1, <3>2 DEF IInv, OwedPart
      <4> QED
        BY <1>1, <2>1, <4>1, <4>2 DEF OwedPart, Unfinished, Owed, Mine
    <3> QED
      BY <3>1, <3>2
  <2>5. DrivePart' /\ DriverPart'
    BY <1>1, <2>1 DEF IInv, DrivePart, DriverPart, Unfinished
  <2> QED
    BY <2>3, <2>4, <2>5 DEF IInv
<1> QED
  BY <1>2, <1>3, <1>4 DEF wait_for_ready

LEMMA IssueKeeps == ASSUME IInv, Issue PROVE IInv'
<1>1. /\ pc = "command" /\ call \in Calls /\ call.op # "init"
      /\ Command(call.op, Address(call.lba))
      /\ owed' = (IF drive.phase = "idle" THEN {} ELSE owed)
      /\ pc' = "done" /\ polls' = POLLS
      /\ UNCHANGED <<driver, call, present, medium, reply>>
  BY DEF Issue, Goto, IInv, DriverPart
<1>2. call.op \in {"read", "write"} /\ Address(call.lba) \in 0..(SECTORS - 1)
  BY <1>1, CallLemma
<1>3. /\ drive' \in [phase : Phases, cmd : Cmds, at : 0..(SECTORS - 1), err : BOOLEAN]
      /\ \/ /\ drive'.phase = "busy" /\ drive'.cmd = call.op /\ drive'.at = Address(call.lba)
            /\ drive'.err = FALSE
         \/ drive.phase # "idle" /\ drive' = drive
  BY <1>1, <1>2, CommandLemma DEF IInv
<1>4. ~BUSY
  BY <1>1 DEF IInv, DriverPart
<1>5. TypeOK'
  BY <1>1, <1>3, ConstantsLemma DEF IInv, TypeOK, Phases, Cmds, driver, reply, Constants
<1>6. DrivePart'
  BY <1>1, <1>2, <1>3 DEF IInv, DrivePart, Unfinished
<1>7. DriverPart'
  BY <1>1, <1>3, <1>4 DEF IInv, DriverPart, BUSY
<1>8. OwedPart'
  BY <1>1, <1>3 DEF IInv, OwedPart, Unfinished, Owed, Mine
<1> QED
  BY <1>5, <1>6, <1>7, <1>8 DEF IInv

LEMMA ReadKeeps == ASSUME IInv, ReadData PROVE IInv'
<1>1. /\ pc = "data" /\ call.op = "read"
      /\ pc' = "idle" /\ call' = NoCall /\ polls' = 0 /\ ret' \in {0, -5}
      /\ UNCHANGED <<driver, present, medium, owed>>
      /\ \/ drive' = drive /\ (ERROR \/ drive.phase # "in")
         \/ drive' = [drive EXCEPT !.phase = "idle"]
  BY DEF ReadData, Return
<1>2. /\ drive' \in [phase : Phases, cmd : Cmds, at : 0..(SECTORS - 1), err : BOOLEAN]
      /\ drive'.cmd = drive.cmd /\ drive'.err = drive.err /\ drive'.at = drive.at
      /\ drive'.phase \in {drive.phase, "idle"}
      /\ Unfinished' => drive' = drive /\ Unfinished
  BY <1>1, DriveLemma DEF IInv, Phases, Cmds, Unfinished
<1>3. TypeOK'
  <2>1. call' \in Calls \cup {NoCall} /\ polls' \in 0..POLLS
    BY <1>1, ConstantsLemma DEF Constants
  <2> QED
    BY <1>1, <1>2, <2>1 DEF IInv, TypeOK, Phases, Cmds, driver
<1>4. DrivePart' /\ DriverPart'
  BY <1>1, <1>2 DEF IInv, DrivePart, DriverPart, Unfinished
<1>5. OwedPart'
  <2>1. SUFFICES ASSUME Unfinished' PROVE Owed'
    BY <1>1 DEF OwedPart
  <2>2. drive' = drive /\ Unfinished /\ ~drive.err
    BY <1>2, <2>1 DEF IInv, DrivePart
  <2>3. drive.phase # "in"
    <3>1. [drive EXCEPT !.phase = "idle"].phase = "idle"
      BY DriveLemma DEF IInv
    <3> QED
      BY <1>1, <2>2, <3>1 DEF ERROR, Unfinished
  <2>4. drive.phase # "busy"
    BY <1>1 DEF IInv, DriverPart, BUSY
  <2>5. drive.cmd = "write"
    BY <2>2, <2>3, <2>4 DEF IInv, DrivePart, Unfinished
  <2> QED
    BY <1>1, <2>2, <2>5 DEF IInv, OwedPart, Owed, Mine
<1> QED
  BY <1>3, <1>4, <1>5 DEF IInv

LEMMA WriteKeeps == ASSUME IInv, WriteData PROVE IInv'
<1>1. /\ pc = "data" /\ call.op = "write" /\ call \in Calls
      /\ pc' = "idle" /\ call' = NoCall /\ polls' = 0 /\ ret' = 0
      /\ UNCHANGED <<driver, present, owed>>
  BY DEF WriteData, Return, IInv, DriverPart
<1>2. call.data \in Data
  BY <1>1, CallLemma
<1>3. call' \in Calls \cup {NoCall} /\ polls' \in 0..POLLS
  BY <1>1, ConstantsLemma DEF Constants
<1>4. CASE drive.phase = "out"
  <2>1. PICK lost \in BOOLEAN :
          /\ drive' = [drive EXCEPT !.phase = "commit", !.err = lost]
          /\ medium' = IF lost THEN medium ELSE [medium EXCEPT ![drive.at] = call.data]
    BY <1>4 DEF WriteData
  <2>2. /\ drive' \in [phase : Phases, cmd : Cmds, at : 0..(SECTORS - 1), err : BOOLEAN]
        /\ drive'.phase = "commit"
    BY <2>1, DriveLemma DEF IInv, Phases, Cmds
  <2>3. medium' \in [0..(SECTORS - 1) -> Data \cup {Old[s] : s \in DOMAIN Old}]
    BY <1>2, <2>1 DEF IInv, TypeOK
  <2>4. TypeOK'
    BY <1>1, <1>3, <2>2, <2>3 DEF IInv, TypeOK, Phases, Cmds, driver
  <2> QED
    BY <1>1, <2>2, <2>4 DEF IInv, DrivePart, DriverPart, OwedPart, Unfinished
<1>5. CASE drive.phase # "out" /\ UNCHANGED <<drive, medium>>
  <2>1. TypeOK'
    BY <1>1, <1>3, <1>5 DEF IInv, TypeOK, driver
  <2>2. DrivePart' /\ DriverPart'
    BY <1>1, <1>5 DEF IInv, DrivePart, DriverPart, Unfinished
  <2>3. OwedPart'
    <3>1. SUFFICES ASSUME Unfinished PROVE Owed'
      BY <1>1, <1>5 DEF OwedPart, Unfinished
    <3>2. drive.phase = "in"
      BY <1>1, <1>5, <3>1 DEF IInv, DriverPart, BUSY, Unfinished
    <3> QED
      BY <1>1, <1>5, <3>1, <3>2 DEF IInv, DrivePart, OwedPart, Owed, Mine
  <2> QED
    BY <2>1, <2>2, <2>3 DEF IInv
<1> QED
  BY <1>4, <1>5 DEF WriteData

\* The calls, the polls, the commands and the drive's own steps keep what is known.
LEMMA NextKeeps == IInv /\ [Next]_vars => IInv'
<1> SUFFICES ASSUME IInv, [Next]_vars PROVE IInv'
  OBVIOUS
<1>1. ASSUME NEW c \in Calls, Call(c) PROVE IInv'
  BY <1>1, CallKeeps
<1>2. CASE Probe
  BY <1>2, ProbeKeeps
<1>3. CASE Detect
  BY <1>3, DetectKeeps
<1>4. CASE Begin
  BY <1>4, BeginKeeps
<1>5. CASE wait_for_ready("ready", "command", -3)
  BY <1>5, WaitKeeps
<1>6. CASE wait_for_ready("done", "data", -4)
  BY <1>6, WaitKeeps
<1>7. CASE Issue
  BY <1>7, IssueKeeps
<1>8. CASE ReadData
  BY <1>8, ReadKeeps
<1>9. CASE WriteData
  BY <1>9, WriteKeeps
<1>10. CASE Work
  BY <1>10, WorkKeeps
<1>11. CASE UNCHANGED vars
  BY <1>11 DEF vars, driver, reply, IInv, TypeOK, DrivePart, DriverPart, OwedPart,
               Unfinished, Owed, Mine, BUSY
<1> QED
  BY <1>1, <1>2, <1>3, <1>4, <1>5, <1>6, <1>7, <1>8, <1>9, <1>10, <1>11 DEF Next, Proceed

\* Everything the driver and the drive know of each other holds in every state
\* (ata.cpp:34-176).
THEOREM Inductive == Spec => []IInv
<1> QED
  BY InitLemma, NextKeeps, PTL DEF Spec

\* Every register, poll count, address and answer stays in its range, however
\* large the addresses callers pass (ata.cpp:34-176).
THEOREM TypeCorrect == Spec => []TypeOK
<1>1. IInv => TypeOK
  BY DEF IInv
<1> QED
  BY <1>1, Inductive, PTL

\* Between calls the drive has data to move only for a request that was given up
\* or for the IDENTIFY nobody reads (ata.cpp:86-98, :119-139, :160-176).
THEOREM NothingLeftBehind == Spec => []InStep
<1>1. IInv => InStep
  BY DEF IInv, OwedPart, InStep, Unfinished, Owed
<1> QED
  BY <1>1, Inductive, PTL

----------------------------------------------------------------------------
\* Every step is one that Disk allows, or changes nothing Disk speaks of.

\* What the words of a transfer can be, when a read gets any.
LEMMA ReadRefines == ASSUME IInv, ReadData PROVE D!DiskNext
<1>1. /\ pc = "data" /\ call.op = "read" /\ call \in Calls
      /\ UNCHANGED <<medium, owed>>
  BY DEF ReadData, IInv, DriverPart
<1>2. call.lba \in Lbas /\ Address(call.lba) = call.lba % SECTORS
  BY <1>1, CallLemma
<1>3. CASE ERROR
  BY <1>1, <1>3 DEF ReadData, Return, D!DiskNext, D!Fail
<1>4. CASE ~ERROR
  <2> DEFINE r == [cmd |-> "read", at |-> D!Sector(call.lba)]
             o == [cmd |-> drive.cmd, at |-> drive.at]
  <2>1. Unfinished
    BY <1>1, <1>4, DriveLemma DEF IInv, DriverPart, BUSY, ERROR, Unfinished, Phases
  <2>2. o \in owed \cup {r}
    BY <1>1, <1>2, <2>1 DEF IInv, OwedPart, Owed, Mine, D!Sector
  <2>3. answer' = D!Value(o)
    <3>1. CASE drive.phase = "in"
      <4>1. drive.cmd \in {"read", "identify"}
        BY <2>1, <3>1, DriveLemma DEF IInv, DrivePart, Cmds
      <4>2. answer' = IF drive.cmd = "read" THEN medium[drive.at] ELSE Identity
        BY <1>4, <3>1 DEF ReadData, Return
      <4> QED
        BY <4>1, <4>2 DEF D!Value
    <3>2. CASE drive.phase # "in"
      <4>1. drive.phase = "out"
        BY <1>1, <2>1, <3>2 DEF IInv, DriverPart, BUSY, Unfinished
      <4>2. drive.cmd = "write" /\ answer' = Noise
        BY <1>4, <3>2, <4>1 DEF ReadData, Return, IInv, DrivePart
      <4> QED
        BY <4>2 DEF D!Value
    <3> QED
      BY <3>1, <3>2
  <2>4. D!Read(call.lba)
    BY <1>1, <2>2, <2>3 DEF D!Read
  <2> QED
    BY <1>2, <2>4 DEF D!DiskNext
<1> QED
  BY <1>3, <1>4

\* Which sector the words of a write can reach.
LEMMA WriteRefines == ASSUME IInv, WriteData PROVE D!DiskNext
<1>1. /\ pc = "data" /\ call.op = "write" /\ call \in Calls
      /\ answer' = "ok" /\ UNCHANGED owed
  BY DEF WriteData, Return, IInv, DriverPart
<1>2. call.lba \in Lbas /\ call.data \in Data /\ Address(call.lba) = call.lba % SECTORS
  BY <1>1, CallLemma
<1>3. CASE UNCHANGED medium
  BY <1>1, <1>2, <1>3 DEF D!DiskNext, D!Write
<1>4. CASE drive.phase = "out" /\ medium' = [medium EXCEPT ![drive.at] = call.data]
  <2>1. drive.cmd = "write" /\ (Owed \/ Mine)
    BY <1>1, <1>4 DEF IInv, DrivePart, OwedPart, Unfinished
  <2>2. drive.at \in {D!Sector(call.lba)} \cup {o.at : o \in {p \in owed : p.cmd = "write"}}
    BY <1>2, <2>1 DEF Owed, Mine, D!Sector
  <2>3. D!Write(call.lba, call.data)
    BY <1>1, <1>4, <2>2 DEF D!Write
  <2> QED
    BY <1>2, <2>3 DEF D!DiskNext
<1> QED
  BY <1>3, <1>4 DEF WriteData

LEMMA WaitRefines ==
  ASSUME IInv,
         wait_for_ready("ready", "command", -3) \/ wait_for_ready("done", "data", -4)
  PROVE  D!DiskNext \/ UNCHANGED D!diskvars
<1> SUFFICES ASSUME NEW at, NEW then, NEW code,
                    \/ at = "ready" /\ then = "command" /\ code = -3
                    \/ at = "done" /\ then = "data" /\ code = -4,
                    wait_for_ready(at, then, code)
             PROVE  D!DiskNext \/ UNCHANGED D!diskvars
  OBVIOUS
<1>1. pc = at /\ UNCHANGED medium /\ call \in Calls /\ call.op # "init"
  BY DEF wait_for_ready, IInv, DriverPart
<1>2. CASE UNCHANGED <<owed, reply>>
  BY <1>1, <1>2 DEF reply, D!diskvars
<1>3. CASE /\ Return(code, "fail")
           /\ owed' = IF code = -4
                      THEN owed \cup {[cmd |-> call.op, at |-> Address(call.lba)]} ELSE owed
  <2>1. /\ call.lba \in Lbas /\ call.op \in {"read", "write"}
        /\ Address(call.lba) = D!Sector(call.lba)
    BY <1>1, CallLemma DEF D!Sector
  <2>2. answer' = "fail"
    BY <1>3 DEF Return
  <2>3. D!Fail
    BY <1>1, <1>3, <2>1, <2>2 DEF D!Fail
  <2> QED
    BY <2>3 DEF D!DiskNext
<1> QED
  BY <1>2, <1>3 DEF wait_for_ready

LEMMA NextRefines == IInv /\ [Next]_vars => [D!DiskNext]_(D!diskvars)
<1> SUFFICES ASSUME IInv, [Next]_vars PROVE D!DiskNext \/ UNCHANGED D!diskvars
  OBVIOUS
<1>1. ASSUME NEW c \in Calls, Call(c) PROVE UNCHANGED D!diskvars
  BY <1>1 DEF Call, reply, D!diskvars
<1>2. CASE Probe
  BY <1>2 DEF Probe, Detected, reply, D!diskvars, D!DiskNext, D!Identify
<1>3. CASE Detect
  BY <1>3 DEF Detect, Detected, reply, D!diskvars
<1>4. CASE Begin
  BY <1>4 DEF Begin, Return, reply, D!diskvars, D!DiskNext, D!Fail
<1>5. CASE wait_for_ready("ready", "command", -3)
  BY <1>5, WaitRefines
<1>6. CASE wait_for_ready("done", "data", -4)
  BY <1>6, WaitRefines
<1>7. CASE Issue
  BY <1>7 DEF Issue, reply, D!diskvars, D!DiskNext, D!Settle
<1>8. CASE ReadData
  BY <1>8, ReadRefines
<1>9. CASE WriteData
  BY <1>9, WriteRefines
<1>10. CASE Work
  BY <1>10 DEF Work, reply, D!diskvars
<1>11. CASE UNCHANGED vars
  BY <1>11 DEF vars, reply, D!diskvars
<1> QED
  BY <1>1, <1>2, <1>3, <1>4, <1>5, <1>6, <1>7, <1>8, <1>9, <1>10, <1>11 DEF Next, Proceed

\* What a caller can rely on: a transfer that returns 0 moved the sector asked
\* for, or that of a request given up since the drive was last found idle; all
\* others leave the sectors alone (ata.cpp:100-176).
THEOREM KeepsTheContract == Spec => ImplementsDisk
<1>1. Init => D!DiskInit
  BY DEF Init, D!DiskInit
<1> QED
  BY <1>1, Inductive, NextRefines, PTL DEF Spec, ImplementsDisk, D!DiskSpec
====
