---- MODULE Disk ----
(***************************************************************************)
(* What a caller of ata.cpp can rely on when it moves one sector.  A       *)
(* transfer fails and leaves the sectors alone, or it moves the sector     *)
(* asked for - unless the drive still owes the answer to a request that    *)
(* was given up: then it may move that one's sector instead.  A write that *)
(* is acknowledged may have had no effect.                                 *)
(***************************************************************************)
EXTENDS Integers

CONSTANTS Lbas,         \* sector addresses callers pass
          SECTORS,      \* addresses the drive can tell apart
          Data,         \* contents callers write
          Identity,     \* the drive's description of itself
          Noise         \* what the data register gives when no data is due

VARIABLES contents,     \* of each sector
          owed,         \* requests given up that the drive may still serve
          answer        \* of the last transfer: what was read, "ok" or "fail"

diskvars == <<contents, owed, answer>>

\* An address past the drive's 28 bits names the sector of its low bits.
Sector(lba) == lba % SECTORS

Request == [cmd : {"read", "write"}, at : 0..(SECTORS - 1)] \cup [cmd : {"identify"}, at : {0}]

\* What the data register gives for a request
Value(r) == CASE r.cmd = "read" -> contents[r.at]
              [] r.cmd = "identify" -> Identity
              [] OTHER -> Noise

DiskInit == owed = {} /\ answer = "fail"

\* An answered request replaces none: which of them was served shows in owed later.
Read(lba) == LET r == [cmd |-> "read", at |-> Sector(lba)] IN
  /\ answer' \in {Value(o) : o \in owed \cup {r}}
  /\ UNCHANGED <<contents, owed>>

Write(lba, d) ==
  /\ answer' = "ok"
  /\ \/ UNCHANGED contents
     \/ \E s \in {Sector(lba)} \cup {o.at : o \in {p \in owed : p.cmd = "write"}} :
          contents' = [contents EXCEPT ![s] = d]
  /\ UNCHANGED owed

\* A transfer is refused, or given up while the drive works on it.
Fail == /\ answer' = "fail"
        /\ \/ UNCHANGED owed
           \/ \E lba \in Lbas, cmd \in {"read", "write"} :
                owed' = owed \cup {[cmd |-> cmd, at |-> Sector(lba)]}
        /\ UNCHANGED contents

\* init asks the drive for its description and never fetches it.
Identify == owed' = owed \cup {[cmd |-> "identify", at |-> 0]} /\ UNCHANGED <<contents, answer>>

\* The drive has nothing left of earlier requests.
Settle == owed' = {} /\ UNCHANGED <<contents, answer>>

DiskNext == \/ \E lba \in Lbas : Read(lba) \/ \E d \in Data : Write(lba, d)
            \/ Fail \/ Identify \/ Settle

DiskSpec == DiskInit /\ [][DiskNext]_diskvars
====
