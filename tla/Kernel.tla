---- MODULE Kernel ----
(***************************************************************************)
(* The booted kernel as its shell drives it: fs.cpp chooses a file system  *)
(* and passes each command on to it, and the memory file system shares the *)
(* heap with the SQL client, which resets it.  The commands that walk the  *)
(* file list take their steps in MemFs.                                    *)
(*                                                                         *)
(* Only empty files are made (Datas is empty in the instance), so that     *)
(* after a reset a new node lies exactly on an old one, and an SQL session *)
(* is left without a statement, so that nothing but its block is zeroed.   *)
(***************************************************************************)
EXTENDS MemFs

CONSTANT DB_SIZE        \* sizeof(sqlite3), in the instance a whole number of nodes

VARIABLE current_fs     \* what fs::init chose, FS_NONE before it

kernelVars == <<vars, current_fs>>

\* Each call of fs.cpp passes on to the file system fs::init chose.  Its FAT32
\* branch is not modelled: it is never chosen.
dispatch(command) == current_fs = "FS_NTFS" /\ command /\ UNCHANGED current_fs

KernelInit == Init /\ current_fs = "FS_NONE"

\* shell::init: fs::init asks ntfs::init first, which always succeeds and leaves
\* it ready; then the other parts, last sqlite_shell::init with its reset of a
\* heap nothing was taken from yet.
Boot(drive) == /\ init(drive)
               /\ current_fs' = IF ret'.ok /\ fs_initialized' THEN "FS_NTFS" ELSE "FS_FAT32"

cmd_ls        == dispatch(Enter([op |-> "list"]))
cmd_mkfile(n) == dispatch(create_file(n, ARCHIVE))
cmd_mkdir(n)  == dispatch(create_directory(n))
cmd_fview(n)  == dispatch(Enter([op |-> "read", path |-> n]))
cmd_rm(n)     == dispatch(Enter([op |-> "delete", path |-> n]))
cmd_cd(d)     == dispatch(set_current_dir(d))

Zeroed == MemoryFile("", 0, Null, 0, Null)

\* sqlite3 alone resets the heap and prints its usage; with a database name it
\* also allocates the database there and, if there is room, zeroes it.
cmd_sqlite3(named) ==
  /\ pc = "idle" /\ fs_initialized
  /\ heap_ptr' = IF named THEN Bump(0, DB_SIZE) ELSE 0
  /\ node' = [a \in DOMAIN node |-> IF /\ named /\ Fits(0, DB_SIZE)
                                       /\ a < HEAP_BASE + DB_SIZE
                                      THEN Zeroed ELSE node[a]]
  /\ UNCHANGED <<bytes, root_directory, mount, current_dir, loop, ret, current_fs>>

KernelNext == \/ \E d \in Drives : Boot(d)
              \/ cmd_ls
              \/ \E n \in Names : cmd_mkfile(n) \/ cmd_fview(n) \/ cmd_rm(n)
              \/ \E n \in NewDirs : cmd_mkdir(n)
              \/ \E d \in Dirs : cmd_cd(d)
              \/ \E named \in BOOLEAN : cmd_sqlite3(named)
              \/ Proceed /\ UNCHANGED current_fs

KernelSpec == KernelInit /\ [][KernelNext]_kernelVars

\* What the help says of ls, "List directory contents" (shell.cpp:66): it prints
\* no more entries than there are files in memory.  The listing that does is one
\* that never ends.
LsPrintsFiles == Len(listed) <= Cardinality(DOMAIN node)
====
