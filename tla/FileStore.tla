---- MODULE FileStore ----
(***************************************************************************)
(* What the memory file system promises: a stack of named files.  A new    *)
(* file goes on top even when its name is taken, every operation acts on   *)
(* the topmost file of a name, and deleting that one uncovers the file     *)
(* below it.  Nothing is lost before the memory is full; once it is, a     *)
(* push may lose every file and a write may lose the contents of its file. *)
(***************************************************************************)
EXTENDS Naturals, Sequences

CONSTANTS Names,        \* file names
          Datas,        \* contents a write may store
          Attributes,   \* attribute bytes a create may store
          Fixed         \* the listing of a volume that is mounted but not implemented

VARIABLES files,        \* the stack, top first: records [name, attributes, data]
          mode,         \* "off", "memory" or "volume"
          full,         \* there may be no memory for another file
          request,      \* the call that was made, while ret says it waits
          ret           \* the reply to the last call

storeVars == <<files, mode, full, request, ret>>

Empty == "empty"        \* the contents of a file nothing was written to
Lost  == "lost"         \* contents the memory had no room for

File(n, a, d) == [name |-> n, attributes |-> a, data |-> d]
Reply(ok, listing, data) == [ok |-> ok, listing |-> listing, data |-> data]
Yes == Reply(TRUE, << >>, Empty)
No  == Reply(FALSE, << >>, Empty)
Waiting == Reply(FALSE, << >>, "waiting")      \* called and not yet answered
None == [op |-> "list"]                        \* what request holds when nobody waits
Requests == [op : {"list"}] \cup [op : {"read", "delete"}, path : Names]
              \cup [op : {"write"}, path : Names, data : Datas]

Top(n) == CHOOSE i \in 1..Len(files) :
             files[i].name = n /\ \A j \in 1..(i - 1) : files[j].name # n
Has(n) == \E i \in 1..Len(files) : files[i].name = n

\* Memory only runs out: full never goes back to FALSE.
Consume == full' \in {full, TRUE}

Push(f) == /\ \/ files' = <<f>> \o files
              \/ full' /\ files' = <<>>
           /\ Consume

StoreInit == files = <<>> /\ mode = "off" /\ full \in BOOLEAN /\ request = None /\ ret = No

Mount == /\ mode = "off"
         /\ mode' \in {"memory", "volume"}
         /\ ret' = Yes
         /\ UNCHANGED <<files, full, request>>

Create(n, a) == /\ mode = "memory" /\ ret # Waiting
                /\ Push(File(n, a, Empty))
                /\ ret' = Yes
                /\ UNCHANGED <<mode, request>>

\* A call is made; the action that answers it also takes its effect.
Ask(c) == /\ mode = "memory" /\ ret # Waiting
          /\ request' = c /\ ret' = Waiting
          /\ UNCHANGED <<files, mode, full>>

Asked(op) == ret = Waiting /\ request.op = op
Answer(reply) == request' = None /\ ret' = reply /\ UNCHANGED mode

Write ==
  /\ Asked("write")
  /\ Answer(Yes)
  /\ \E stored \in {request.data, Lost} :
       /\ stored = Lost => full'
       /\ IF Has(request.path)
            THEN files' = [files EXCEPT ![Top(request.path)].data = stored] /\ Consume
            ELSE Push(File(request.path, 0, stored))

Read == /\ Asked("read")
        /\ IF ~Has(request.path) THEN Answer(No)
             ELSE \E got \in Datas \cup {Empty, Lost} :
                    /\ Answer(Reply(TRUE, << >>, got))
                    /\ files[Top(request.path)].data \in {got, Lost}
        /\ UNCHANGED <<files, full>>

List == /\ Asked("list")
        /\ Answer(Reply(TRUE, [i \in 1..Len(files) |-> [name |-> files[i].name,
                                                       attributes |-> files[i].attributes]],
                        Empty))
        /\ UNCHANGED <<files, full>>

Without(i) == SubSeq(files, 1, i - 1) \o SubSeq(files, i + 1, Len(files))
Delete == /\ Asked("delete")
          /\ Answer(IF Has(request.path) THEN Yes ELSE No)
          /\ files' = IF Has(request.path) THEN Without(Top(request.path)) ELSE files
          /\ UNCHANGED full

\* A change of directory is accepted whatever its path and moves no file.
Chdir == /\ mode # "off" /\ ret # Waiting /\ ret' = Yes
         /\ UNCHANGED <<files, mode, full, request>>

\* Before the mount every call fails; on a volume only list and read succeed.
Refuse == mode # "memory" /\ ret' = No /\ UNCHANGED <<files, mode, full, request>>
Stub   == /\ mode = "volume"
          /\ ret' \in {Reply(TRUE, Fixed, Empty), Yes}
          /\ UNCHANGED <<files, mode, full, request>>

StoreNext == \/ Mount \/ Chdir \/ Refuse \/ Stub
             \/ \E n \in Names, a \in Attributes : Create(n, a)
             \/ \E c \in Requests : Ask(c)
             \/ Write \/ Read \/ List \/ Delete

StoreSpec == StoreInit /\ [][StoreNext]_storeVars
====
