---- MODULE Fat32 ----
(***************************************************************************)
(* The volume driver of fat32.cpp, one step per sector written, on a disk  *)
(* whose transfers may fail and whose machine may lose power between any   *)
(* two writes.  Every call keeps nothing in memory: a directory lookup     *)
(* walks FAT chains from the root cluster each time.                       *)
(*                                                                         *)
(* The disk is the first FAT and the data area.  A sector is SLOTS slots,  *)
(* each the size of a directory entry, and any cluster can be read as a    *)
(* directory, because no lookup looks at the attributes.  The code takes   *)
(* any 32 bytes that start with neither 0x00 nor 0xE5 for an entry; the    *)
(* text of a file and what was on the medium before (Text, Old) are not    *)
(* taken for one here, nor for a free slot: contents are assumed to look   *)
(* like neither.  A directory uses the first sector of each of its         *)
(* clusters only.  A transfer that fails leaves the disk as it was         *)
(* (ata.cpp fails before it sends data).                                   *)
(***************************************************************************)
EXTENDS Integers, Sequences, FiniteSets

CONSTANTS Paths,        \* what callers pass, split at the slashes
          NewDirs,      \* those of them directories are made with
          Stored,       \* Stored[n]: the name a lookup sees once n went to 8.3 and back
          Datas,        \* contents a caller writes
          Length,       \* Length[d]: the slots d fills
          LAST_CLUSTER, \* the last cluster the FAT has an entry for
          SPC,          \* sectors per cluster
          SLOTS,        \* directory entries per sector
          MAX_FAULTS,   \* bound: transfers that fail
          MAX_CRASHES   \* bound: power failures

ROOT == 2               \* bpb.root_cluster
EOC  == 268435455       \* FAT_EOC, the one end mark the driver knows
Clusters == ROOT .. LAST_CLUSTER
Sectors  == 0 .. (SPC - 1)
Slots    == 1 .. SLOTS
Names    == DOMAIN Stored

ASSUME Fat32Assumption ==
  /\ LAST_CLUSTER \in Nat /\ LAST_CLUSTER >= ROOT /\ LAST_CLUSTER < EOC
  /\ SPC \in Nat \ {0} /\ SLOTS \in Nat \ {0}
  /\ MAX_FAULTS \in Nat /\ MAX_CRASHES \in Nat
  /\ "" \in Names /\ NewDirs \subseteq Paths
  /\ \A p \in Paths : p \in Seq(Names)
  /\ \A d \in Datas : Length[d] \in Nat \ {0}
  \* 8.3 names survive another round
  /\ \A n \in Names : Stored[n] \in Names /\ Stored[Stored[n]] = Stored[n]

VARIABLES fat,          \* the entries of FAT1; the second FAT is never written
          sec,          \* sec[c][j][s]: slot s of sector j of cluster c
          mode,         \* "off", "volume" or "memory"
          pc, call,     \* where the call in progress is, and what it is
          cluster,      \* create_file: the file's cluster
          current,      \* current_cluster of create_file and write_file
          extra,        \* the cluster about to be linked behind current
          i, j,         \* the loops over clusters and sectors
          clean,        \* no transfer of this call failed so far
          faults, crashes,
          ret           \* "waiting", "ok" or "fail"

disk  == <<fat, sec>>
local == <<cluster, current, extra, i, j>>
power == <<mode, crashes>>
vars  == <<disk, local, power, pc, call, clean, faults, ret>>

\* What a slot can hold: 0x00 first, 0xE5 first, an entry, file contents, or
\* what was on the medium before.
Zero    == [kind |-> "zero"]
Deleted == [kind |-> "deleted"]
Old     == [kind |-> "old"]
Text(d, k) == [kind |-> "text", data |-> d, at |-> k]
Entry(n, a, c) == [kind |-> "entry", name |-> n, attributes |-> a, first |-> c]

ARCHIVE   == 32
DIRECTORY == 16
Calls == [op : {"create"}, path : Paths, attributes : {ARCHIVE}]
           \cup [op : {"create"}, path : NewDirs, attributes : {DIRECTORY}]
           \cup [op : {"write"}, path : Paths, data : Datas, attributes : {0}]
           \cup [op : {"delete"}, path : Paths]
Idle == [op |-> "none"]

\* A volume another system formatted: the root directory is empty and the rest
\* is free, with old contents.
Init == /\ fat = [c \in Clusters |-> IF c = ROOT THEN EOC ELSE 0]
        /\ sec = [c \in Clusters |-> [q \in Sectors |-> [s \in Slots |->
                    IF c = ROOT THEN Zero ELSE Old]]]
        /\ mode = "off" /\ pc = "idle" /\ call = Idle
        /\ cluster = 0 /\ current = 0 /\ extra = 0 /\ i = 0 /\ j = 0
        /\ clean = TRUE /\ faults = MAX_FAULTS /\ crashes = MAX_CRASHES
        /\ ret = "fail"

----------------------------------------------------------------------------
\* A step has at most one transfer that fails: a write, the scan of the FAT, or
\* the read of one cluster's FAT entry or directory sector.
None == <<"none", 0>>
Faults == {None, <<"write", 0>>, <<"scan", 0>>} \cup ({"fat", "dir"} \X Clusters)

Charge(fault) == /\ fault # None => faults > 0
                 /\ faults' = IF fault = None THEN faults ELSE faults - 1
                 /\ clean' = (clean /\ fault = None)

Least(S) == CHOOSE x \in S : \A y \in S : x <= y
Most(S)  == CHOOSE x \in S : \A y \in S : x >= y

\* A FAT entry that cannot be read counts as the end of the chain.
get_fat_entry(c, fault) == IF c < 2 \/ fault = <<"fat", c>> THEN EOC ELSE fat[c]

\* Link k of the chain that starts at c; 0 or EOC from its end on.
Links == 0 .. (LAST_CLUSTER - ROOT + 1)
Walk(c, fault) ==
  LET after == [d \in Clusters \cup {0, EOC} |->
                  IF d \in Clusters THEN get_fat_entry(d, fault) ELSE EOC]
      w[k \in Links] == IF k = 0 THEN c ELSE after[w[k - 1]]
  IN  w

\* The clusters of the chains that start in a set.
Chains(starts) ==
  LET c[k \in Links] == IF k = 0 THEN starts
                        ELSE (UNION {{x, fat[x]} : x \in c[k - 1]}) \cap Clusters
  IN  c[Cardinality(Clusters)]

\* The entries of a directory sector a scan sees: a zero ends the sector.
Seen(c) == {s \in Slots : /\ sec[c][0][s].kind = "entry"
                          /\ \A t \in 1..s : sec[c][0][t].kind # "zero"}
Matching(c, n) == {s \in Seen(c) : sec[c][0][s].name = n}

\* The scan of a directory for n, from its cluster c on: the first cluster of
\* the first entry n, and 0 when there is none or a sector cannot be read.  The
\* loop of the code has no bound; m counts down from the number of clusters.
Lookup(dir, n, fault) ==
  LET scan[m \in Links] ==
        [c \in Clusters \cup {0, EOC} |->
           IF m = 0 \/ c \notin Clusters \/ fault = <<"dir", c>> THEN 0
           ELSE IF Matching(c, n) # {} THEN sec[c][0][Least(Matching(c, n))].first
           ELSE scan[m - 1][get_fat_entry(c, fault)]]
  IN  scan[Most(Links)][dir]

find_directory_entry(path, fault) ==
  LET r[k \in 0..Len(path)] == IF k = 0 THEN ROOT ELSE Lookup(r[k - 1], path[k], fault)
  IN  r[Len(path)]

\* strrchr(path, '/'): the directory and the file name; "/" has the name "".
Parent(path) == IF path = << >> THEN << >> ELSE SubSeq(path, 1, Len(path) - 1)
Base(path)   == IF path = << >> THEN "" ELSE path[Len(path)]

Free == {c \in Clusters : fat[c] = 0}

\* Mutant: the scan runs one entry past the end.
FreeClusterPastEnd(fault) ==
  IF fault \in {<<"scan", 0>>, <<"write", 0>>} THEN 0
  ELSE Least(Free \cup {LAST_CLUSTER + 1})

\* find_free_cluster before its set_fat_entry; 0 when it gives up
FreeCluster(fault) == IF Free = {} \/ fault \in {<<"scan", 0>>, <<"write", 0>>} THEN 0
                      ELSE Least(Free)

\* One write, which fault refuses.
SetFat(c, v, fault) == fat' = IF fault = None THEN [fat EXCEPT ![c] = v] ELSE fat
SetSector(c, q, v, fault) == sec' = IF fault = None THEN [sec EXCEPT ![c][q] = v] ELSE sec
Refusable(fault) == fault \in {None, <<"write", 0>>}
Lookups == {None} \cup ({"fat", "dir"} \X Clusters)     \* what can fail in a lookup
Scans == {None, <<"scan", 0>>, <<"write", 0>>}           \* ... and in find_free_cluster
Blank == [s \in Slots |-> Zero]

Go(label) == pc' = label /\ UNCHANGED <<call, ret, power>>
Return(v) == /\ pc' = "idle" /\ ret' = v /\ call' = Idle
             /\ cluster' = 0 /\ current' = 0 /\ extra' = 0 /\ i' = 0 /\ j' = 0
             /\ UNCHANGED power

----------------------------------------------------------------------------
\* init(): a disk that cannot be read leaves the driver on its memory list.
init(fault) == /\ pc = "idle" /\ mode = "off" /\ Refusable(fault)
               /\ Charge(fault)
               /\ mode' = IF fault = None THEN "volume" ELSE "memory"
               /\ ret' = "ok"
               /\ UNCHANGED <<disk, local, crashes, pc, call>>

\* The calls of the memory list (MemFs) and those before init touch no disk.
Elsewhere == /\ pc = "idle" /\ mode # "volume"
             /\ ret' \in IF mode = "off" THEN {"fail"} ELSE {"ok", "fail"}
             /\ UNCHANGED <<disk, local, power, pc, call, clean, faults>>

Call(c) == /\ pc = "idle" /\ mode = "volume"
           /\ call' = c /\ clean' = TRUE /\ ret' = "waiting"
           /\ pc' = CASE c.op = "create" -> "alloc"
                      [] c.op = "write"  -> "find"
                      [] c.op = "delete" -> "unlink"
           /\ UNCHANGED <<disk, local, power, faults>>

\* Mutant: the cluster is taken and not marked.
AllocUnmarked(fault) ==
  /\ pc = "alloc"
  /\ LET dir == find_directory_entry(Parent(call.path), fault)
         new == FreeCluster(fault)
     IN IF dir = 0 \/ new = 0
          THEN Return("fail") /\ UNCHANGED disk
          ELSE /\ cluster' = new /\ current' = dir
               /\ Go("zero")
               /\ UNCHANGED <<disk, extra, i, j>>

\* create_file: look the directory up, then take a cluster and mark its entry.
Alloc(fault) ==
  /\ pc = "alloc"
  /\ LET dir == find_directory_entry(Parent(call.path), fault)
         new == FreeCluster(fault)
     IN IF dir = 0 \/ new = 0
          THEN Return("fail") /\ UNCHANGED disk
          ELSE /\ fat' = [fat EXCEPT ![new] = EOC]
               /\ cluster' = new /\ current' = dir
               /\ Go("zero")
               /\ UNCHANGED <<sec, extra, i, j>>

\* Zero the cluster sector by sector; the first refusal gives it back.
ZeroCluster(fault) ==
  /\ pc = "zero" /\ Refusable(fault)
  /\ SetSector(cluster, j, Blank, fault)
  /\ LET last == j = SPC - 1 IN
       /\ Go(IF fault # None THEN "undo" ELSE IF last THEN "slot" ELSE "zero")
       /\ j' = IF fault # None \/ last THEN 0 ELSE j + 1
  /\ UNCHANGED <<fat, cluster, current, extra, i>>

Undo(fault) == /\ pc = "undo" /\ Refusable(fault)
               /\ SetFat(cluster, 0, fault)
               /\ Return("fail")
               /\ UNCHANGED sec

Reusable(c) == {s \in Slots : sec[c][0][s].kind \in {"zero", "deleted"}}

\* create_file returned true: write_file looks its own new entry up.
Created == IF call.op = "write" THEN Go("refind") /\ UNCHANGED local ELSE Return("ok")

\* The entry goes to the first reusable slot of the directory's clusters.
FillSlot(fault) ==
  /\ pc = "slot" /\ Reusable(current) # {}
  /\ fault \in {None, <<"write", 0>>, <<"dir", current>>}
  /\ sec' = IF fault # None THEN sec
            ELSE [sec EXCEPT ![current][0][Least(Reusable(current))] =
                    Entry(Stored[Base(call.path)], call.attributes, cluster)]
  /\ IF fault = None THEN Created ELSE Return("fail")
  /\ UNCHANGED fat

NextDirCluster(fault) ==
  /\ pc = "slot" /\ Reusable(current) = {}
  /\ get_fat_entry(current, fault) \notin {0, EOC} /\ fault # <<"dir", current>>
  /\ fault \in {None, <<"fat", current>>}
  /\ current' = get_fat_entry(current, fault)
  /\ Go("slot")
  /\ UNCHANGED <<disk, cluster, extra, i, j>>

\* At the end of a full directory: take one more cluster ...
ExtendDir(fault) ==
  /\ pc = "slot" /\ Reusable(current) = {}
  /\ fault \in Scans \cup ({"fat", "dir"} \X {current})
  /\ get_fat_entry(current, fault) \in {0, EOC} \/ fault = <<"dir", current>>
  /\ LET new == FreeCluster(fault) IN
       IF new = 0 \/ fault = <<"dir", current>>
         THEN Return("fail") /\ UNCHANGED disk
         ELSE /\ fat' = [fat EXCEPT ![new] = EOC]
              /\ extra' = new
              /\ Go("link")
              /\ UNCHANGED <<sec, cluster, current, i, j>>

\* ... link it, whether or not that succeeds ...
LinkDir(fault) == /\ pc = "link" /\ Refusable(fault)
                  /\ SetFat(current, extra, fault)
                  /\ Go("clear")
                  /\ UNCHANGED <<sec, local>>

\* Mutants: a refused clear gives the linked cluster back; the clear hits the
\* directory's old last cluster.
ClearDirGivesBack(fault) ==
  /\ pc = "clear" /\ Refusable(fault)
  /\ SetSector(extra, 0, Blank, fault)
  /\ IF fault = None
       THEN current' = extra /\ extra' = 0 /\ Go("slot") /\ UNCHANGED <<fat, cluster, i, j>>
       ELSE fat' = [fat EXCEPT ![extra] = 0] /\ Return("fail")
ClearDirCurrent(fault) ==
  /\ pc = "clear" /\ Refusable(fault)
  /\ SetSector(current, 0, Blank, fault)
  /\ IF fault = None
       THEN current' = extra /\ extra' = 0 /\ Go("slot") /\ UNCHANGED <<cluster, i, j>>
       ELSE Return("fail")
  /\ UNCHANGED fat

\* ... and only then clear its first sector.
ClearDir(fault) ==
  /\ pc = "clear" /\ Refusable(fault)
  /\ SetSector(extra, 0, Blank, fault)
  /\ IF fault = None
       THEN /\ current' = extra /\ extra' = 0
            /\ Go("slot")
            /\ UNCHANGED <<cluster, i, j>>
       ELSE Return("fail")
  /\ UNCHANGED fat

----------------------------------------------------------------------------
\* write_file looks its path up, and once more after it has created the file.
Find(fault) ==
  /\ pc \in {"find", "refind"} /\ fault \in Lookups
  /\ LET start == find_directory_entry(call.path, fault) IN
       start # 0 /\ current' = start /\ cluster' = 0
  /\ Go("data")
  /\ UNCHANGED <<disk, extra, i, j>>

\* A path that is not found, for whatever reason, is created.
NotFound(fault) ==
  /\ pc \in {"find", "refind"} /\ fault \in Lookups
  /\ find_directory_entry(call.path, fault) = 0
  /\ IF pc = "find" THEN Go("alloc") /\ UNCHANGED local ELSE Return("fail")
  /\ UNCHANGED disk

TotalClusters(d) == (Length[d] + SPC * SLOTS - 1) \div (SPC * SLOTS)

\* sector_buffer is zeroed once per cluster: past the end of the data a sector
\* repeats what the one before it had there.
DataSector(d, m, q) ==
  [s \in Slots |->
     LET given == {t \in 0..q : (m * SPC + t) * SLOTS + s <= Length[d]} IN
       IF given = {} THEN Zero ELSE Text(d, (m * SPC + Most(given)) * SLOTS + s)]

\* Mutant: the sector loop forgets its increment.
WriteDataStuck(fault) ==
  /\ pc = "data" /\ Refusable(fault)
  /\ SetSector(current, j, DataSector(call.data, i, j), fault)
  /\ IF fault # None THEN Return("fail") ELSE Go("data") /\ UNCHANGED local
  /\ UNCHANGED fat

WriteData(fault) ==
  /\ pc = "data" /\ Refusable(fault)
  /\ SetSector(current, j, DataSector(call.data, i, j), fault)
  /\ CASE fault # None -> Return("fail")
       [] fault = None /\ j < SPC - 1 ->
            j' = j + 1 /\ Go("data") /\ UNCHANGED <<cluster, current, extra, i>>
       [] fault = None /\ j = SPC - 1 /\ i < TotalClusters(call.data) - 1 ->
            j' = 0 /\ Go("grow") /\ UNCHANGED <<cluster, current, extra, i>>
       [] OTHER -> Return("ok")
  /\ UNCHANGED fat

\* Mutant: the file goes on in the next cluster, free or not.
GrowContiguous(fault) ==
  /\ pc = "grow" /\ fault \in Scans
  /\ IF current = LAST_CLUSTER \/ fault # None THEN Return("fail") /\ UNCHANGED disk
     ELSE /\ fat' = [fat EXCEPT ![current + 1] = EOC]
          /\ extra' = current + 1
          /\ Go("tie")
          /\ UNCHANGED <<sec, cluster, current, i, j>>

\* The next cluster is always a new one, even where the file already has one.
Grow(fault) ==
  /\ pc = "grow" /\ fault \in Scans
  /\ LET new == FreeCluster(fault) IN
       IF new = 0 THEN Return("fail") /\ UNCHANGED disk
       ELSE /\ fat' = [fat EXCEPT ![new] = EOC]
            /\ extra' = new
            /\ Go("tie")
            /\ UNCHANGED <<sec, cluster, current, i, j>>

\* Mutant: the new cluster is written and not linked.
TieForgets(fault) == /\ pc = "tie" /\ fault = None
                     /\ current' = extra /\ extra' = 0 /\ i' = i + 1
                     /\ Go("data")
                     /\ UNCHANGED <<disk, cluster, j>>

Tie(fault) == /\ pc = "tie" /\ Refusable(fault)
              /\ SetFat(current, extra, fault)
              /\ current' = extra /\ extra' = 0 /\ i' = i + 1
              /\ Go("data")
              /\ UNCHANGED <<sec, cluster, j>>

\* delete_file: the entry index is -1, so the byte 0xE5 goes to the last slot of
\* the sector before the file's first; before ROOT's that is the second FAT.
delete_file(fault) ==
  /\ pc = "unlink" /\ fault \in Lookups \cup {<<"write", 0>>}
  /\ LET start == find_directory_entry(call.path, fault) IN
       IF start = 0 \/ fault # None
         THEN Return("fail") /\ UNCHANGED disk
         ELSE /\ sec' = IF start = ROOT THEN sec
                        ELSE [sec EXCEPT ![start - 1][SPC - 1][SLOTS] = Deleted]
              /\ Return("ok")
              /\ UNCHANGED fat

\* Power fails between two writes; nothing but the disk survives.
Crash == /\ mode # "off" /\ crashes > 0
         /\ crashes' = crashes - 1
         /\ mode' = "off" /\ pc' = "idle" /\ call' = Idle
         /\ cluster' = 0 /\ current' = 0 /\ extra' = 0 /\ i' = 0 /\ j' = 0
         /\ ret' = "fail" /\ clean' = TRUE
         /\ UNCHANGED <<disk, faults>>

Step(fault) == \/ Alloc(fault) \/ ZeroCluster(fault) \/ Undo(fault)
               \/ FillSlot(fault) \/ NextDirCluster(fault)
               \/ ExtendDir(fault) \/ LinkDir(fault) \/ ClearDir(fault)
               \/ Find(fault) \/ NotFound(fault) \/ WriteData(fault) \/ Grow(fault) \/ Tie(fault)
               \/ delete_file(fault)
Proceed == \E fault \in Faults : Charge(fault) /\ Step(fault)

Next == \/ \E fault \in Faults : init(fault)
        \/ Elsewhere
        \/ \E c \in Calls : Call(c)
        \/ Proceed
        \/ Crash

Spec == Init /\ [][Next]_vars
\* The CPU runs the call it is in to its end; nothing obliges a user to call.
FairSpec == Spec /\ WF_vars(Proceed)

----------------------------------------------------------------------------
SlotOK(v) == \/ v \in {Zero, Deleted, Old}
             \/ v.kind = "text" /\ v.data \in Datas /\ v.at \in 1..Length[v.data]
             \/ v.kind = "entry" /\ v.name \in Names /\ v.first \in Clusters
TypeOK ==
  /\ fat \in [Clusters -> {0, EOC} \cup Clusters]
  /\ \A c \in Clusters, q \in Sectors, s \in Slots : SlotOK(sec[c][q][s])
  /\ mode \in {"off", "volume", "memory"}
  /\ pc \in {"idle", "alloc", "zero", "undo", "slot", "link", "clear", "find", "refind",
            "data", "grow", "tie", "unlink"}
  /\ call \in Calls \cup {Idle}
  /\ {cluster, current, extra} \subseteq Clusters \cup {0}
  /\ i \in Nat /\ j \in Sectors /\ clean \in BOOLEAN
  /\ faults \in 0..MAX_FAULTS /\ crashes \in 0..MAX_CRASHES
  /\ ret \in {"waiting", "ok", "fail"}

\* Whatever fails and whenever the power goes, the chains in the FAT stay apart
\* and end: a link leads to a cluster in use, to a later one, and no two links
\* lead to the same (fat32.cpp:443, :579 link what :111 marked).
ChainsApart ==
  \A c \in Clusters : fat[c] \in Clusters =>
    /\ fat[c] > c /\ fat[fat[c]] # 0
    /\ \A d \in Clusters : fat[d] = fat[c] => d = c

\* The places of all entries in clusters in use, and what they lead to.
Places == {p \in Clusters \X Slots : fat[p[1]] # 0 /\ sec[p[1]][0][p[2]].kind = "entry"}
First(p) == sec[p[1]][0][p[2]].first

\* A file's first cluster belongs to it alone: it is in use, no link leads to
\* it, it is not the root and no other entry has it, whichever step of a create
\* failed before (fat32.cpp:398-409, :421-432).
OneOwner ==
  \A p \in Places :
    /\ fat[First(p)] # 0 /\ First(p) # ROOT
    /\ \A c \in Clusters : fat[c] # First(p)
    /\ \A q \in Places : First(q) = First(p) => q = p

\* The clusters of the objects a call has no business with: those of every file
\* and directory but the one its path names and the directory that is in.
Heads == {ROOT} \cup {First(p) : p \in Places}
Target == find_directory_entry(call.path, None)
Within == find_directory_entry(Parent(call.path), None)
Foreign == Chains(Heads \ {Target, Within, cluster})

\* create_file and write_file change neither the contents nor the chain of any
\* other file or directory, even when transfers fail in the middle.
\* (delete_file does: its write is the subject of the run fat32_rm.)
Isolation ==
  [][pc # "idle" /\ call.op # "delete" =>
       \A c \in Foreign : fat'[c] = fat[c] /\ sec'[c] = sec[c]]_vars

\* What list_directory passes to its callback for the directories that start
\* in a set, each entry with its place.
list_directory(starts) ==
  UNION {{<<c, s, sec[c][0][s]>> : s \in Seen(c)} : c \in Chains(starts)}

Creating == pc \in {"alloc", "zero", "undo", "slot", "link", "clear"}

\* Creating a file takes entries away from a directory in one way only: a FAT
\* entry of the directory could not be read and was taken for its end, and what
\* is lost stands behind the cluster it belongs to.  That holds also where the
\* directory grows, a write is refused or power fails in between
\* (fat32.cpp:60-73, :436-453).
CreateLosesOnlyTails ==
  [][Creating =>
       \A e \in list_directory(Heads) \ (list_directory(Heads))' :
          ~clean /\ pc = "link" /\ fat[current] \in Clusters /\ e[1] \in Chains({fat[current]})]_vars

\* Slot k of what read_file returns for a path; Zero past the end of its chain.
read_file(path, k) ==
  LET m == (k - 1) \div SLOTS
      c == Walk(find_directory_entry(path, None), None)[m \div SPC]
  IN IF c \notin Clusters THEN Zero ELSE sec[c][m % SPC][((k - 1) % SLOTS) + 1]

\* The path under which a lookup finds what create_file made of a path.
StoredPath(path) == Parent(path) \o <<Stored[Base(path)]>>

\* A call that reports success with no failed transfer did its work: what was
\* created is found under its 8.3 name, what was written is read back
\* (fat32.cpp:432, :559-584).
Acknowledged ==
  [][\A c \in Calls : pc # "idle" /\ call = c /\ ret' = "ok" /\ clean' =>
       /\ c.op = "create" /\ Base(c.path) # "" =>
            (find_directory_entry(StoredPath(c.path), None) # 0)'
       /\ c.op = "write" =>
            \A k \in 1..Length[c.data] : (read_file(c.path, k) = Text(c.data, k))']_vars

\* Every call returns, whatever chains it walks.
EveryCallReturns == pc # "idle" ~> pc = "idle"

\* What the help says of rm, "Remove file or directory" (shell.cpp:72): after a
\* delete of a file or a directory other than the root that reports success and
\* met no failure the path is gone.
RmRemoves ==
  [][\A path \in Paths \ {<< >>} : pc = "unlink" /\ call.path = path /\ ret' = "ok" =>
       (find_directory_entry(path, None) = 0)']_vars
====
