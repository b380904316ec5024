---- MODULE Fat32Proofs ----
(***************************************************************************)
(* Proofs about Fat32 for volumes of any size, any names and contents, and *)
(* any number of failed transfers and power failures: the chains in the    *)
(* FAT stay apart, every entry owns its first cluster, a call leaves the   *)
(* other chains alone, a create keeps what a directory lists, and what was *)
(* acknowledged is there to be read.                                       *)
(***************************************************************************)
EXTENDS Fat32, Induction

----------------------------------------------------------------------------
\* What a slot can hold, as a set.
Texts   == {v \in [kind : {"text"}, data : Datas, at : Nat] : v.at \in 1..Length[v.data]}
Entries == [kind : {"entry"}, name : Names, attributes : {0, ARCHIVE, DIRECTORY}, first : Clusters]
Content == {Zero, Deleted, Old} \cup Texts \cup Entries
Sector  == [Slots -> Content]
Shape   == sec \in [Clusters -> [Sectors -> Sector]]

InUse == {c \in Clusters : fat[c] # 0}

\* Clusters are taken from the front: those in use come before the free ones.
FrontInUse == \A c, d \in Clusters : fat[c] = 0 /\ c <= d => fat[d] = 0
RootInUse == fat[ROOT] # 0

\* No entry is left in a free cluster, to come back when it is taken again.
Bare(c) == \A s \in Slots : sec[c][0][s].kind # "entry"
FreeBare == \A c \in Clusters : fat[c] = 0 => Bare(c)

\* A cluster that was taken and that nothing leads to yet
Fresh(c) == /\ c \in InUse /\ c # ROOT
            /\ \A d \in Clusters : fat[d] # c
            /\ \A p \in Places : First(p) # c

Creation == {"zero", "undo", "slot", "link", "clear"}
Writing  == {"data", "grow", "tie"}

\* What each place of a call knows of its clusters.
LocalPart ==
  /\ pc \in Creation \cup Writing => current \in InUse
  /\ pc \in Creation => Fresh(cluster) /\ current # cluster
  /\ pc \in {"zero", "undo"} => /\ Bare(cluster)
                                /\ \A d \in Clusters : d > cluster => fat[d] = 0
  /\ pc \in {"link", "tie"} => Fresh(extra) /\ current < extra
  /\ pc \in {"link", "clear"} => extra \in InUse /\ extra # cluster

\* ... and of its argument.
CallPart ==
  /\ pc # "idle" => call \in Calls
  /\ pc \in Creation \cup {"alloc"} => call.op \in {"create", "write"}
  /\ pc \in Writing \cup {"find", "refind"} => call.op = "write"
  /\ pc = "unlink" => call.op = "delete"

\* The registers and the session have their types.
Labels == {"idle", "alloc", "zero", "undo", "slot", "link", "clear", "find", "refind",
           "data", "grow", "tie", "unlink"}
Registers ==
  /\ mode \in {"off", "volume", "memory"} /\ pc \in Labels /\ call \in Calls \cup {Idle}
  /\ {cluster, current, extra} \subseteq Clusters \cup {0}
  /\ i \in Nat /\ j \in Sectors /\ clean \in BOOLEAN
  /\ faults \in 0..MAX_FAULTS /\ crashes \in 0..MAX_CRASHES
  /\ ret \in {"waiting", "ok", "fail"}

\* What holds of the disk alone, in the middle of a call or after a power failure.
DiskInv == /\ fat \in [Clusters -> {0, EOC} \cup Clusters] /\ Shape
           /\ ChainsApart /\ OneOwner /\ FrontInUse /\ RootInUse /\ FreeBare

IInv == DiskInv /\ Registers /\ LocalPart /\ CallPart

----------------------------------------------------------------------------
\* Facts about the constants and the helpers.
LEMMA ConstantsLemma ==
  /\ LAST_CLUSTER \in Nat /\ LAST_CLUSTER >= 2 /\ LAST_CLUSTER < EOC /\ EOC \in Nat
  /\ ROOT = 2 /\ ROOT \in Clusters /\ 0 \notin Clusters /\ EOC \notin Clusters /\ EOC # 0
  /\ Clusters \subseteq Nat /\ \A c \in Clusters : c >= 2
  /\ SPC \in Nat \ {0} /\ 0 \in Sectors /\ Sectors \subseteq Nat
  /\ SLOTS \in Nat \ {0} /\ Slots \subseteq Nat
<1>1. LAST_CLUSTER \in Nat /\ LAST_CLUSTER >= 2 /\ LAST_CLUSTER < EOC /\ SPC \in Nat \ {0} /\ SLOTS \in Nat \ {0}
  BY Fat32Assumption DEF ROOT
<1>2. EOC \in Nat /\ EOC # 0
  BY SMT DEF EOC
<1> QED
  BY <1>1, <1>2 DEF ROOT, Clusters, Sectors, Slots

LEMMA LeastLemma ==
  ASSUME NEW T, T \subseteq Nat, T # {}
  PROVE  Least(T) \in T /\ \A m \in T : Least(T) <= m
BY LeastIn DEF Least

LEMMA MostLemma ==
  ASSUME NEW N \in Nat, NEW T, T \subseteq 0..N, T # {}
  PROVE  Most(T) \in T /\ \A m \in T : Most(T) >= m
BY MostIn DEF Most

LEMMA LinksLemma ==
  /\ Most(Links) = LAST_CLUSTER - ROOT + 1
  /\ Links = 0 .. (LAST_CLUSTER - ROOT + 1) /\ LAST_CLUSTER - ROOT + 1 \in Nat
<1>1. LAST_CLUSTER - ROOT + 1 \in Nat
  BY ConstantsLemma
<1>2. Most(Links) \in Links /\ \A m \in Links : Most(Links) >= m
  <2>1. Links # {} /\ Links \subseteq 0..(LAST_CLUSTER - ROOT + 1)
    BY <1>1 DEF Links
  <2> QED
    BY <1>1, <2>1, MostLemma
<1>3. LAST_CLUSTER - ROOT + 1 \in Links
  BY <1>1 DEF Links
<1> QED
  BY <1>1, <1>2, <1>3 DEF Links

\* An entry's first cluster is a cluster.
LEMMA EntryLemma ==
  ASSUME Shape, NEW c \in Clusters, NEW s \in Slots, sec[c][0][s].kind = "entry"
  PROVE  sec[c][0][s] \in Entries /\ sec[c][0][s].first \in Clusters
<1>1. sec[c][0][s] \in Content
  BY ConstantsLemma DEF Shape, Sector
<1> QED
  BY <1>1 DEF Content, Texts, Entries, Zero, Deleted, Old

\* What the owners of first clusters say of them.
Owned == {First(p) : p \in Places}

LEMMA OwnedLemma == ASSUME DiskInv PROVE Owned \subseteq InUse
<1>1. ASSUME NEW p \in Places PROVE First(p) \in InUse
  <2>1. /\ p[1] \in Clusters /\ p[2] \in Slots /\ sec[p[1]][0][p[2]].kind = "entry"
        /\ fat[First(p)] # 0
    BY DEF Places, DiskInv, OneOwner
  <2>2. First(p) \in Clusters
    BY <2>1, EntryLemma DEF DiskInv, First
  <2> QED
    BY <2>1, <2>2 DEF InUse
<1> QED
  BY <1>1 DEF Owned

\* What a match leads to.
LEMMA MatchLemma ==
  ASSUME DiskInv, NEW c \in Clusters, NEW n, Matching(c, n) # {}
  PROVE  LET first == sec[c][0][Least(Matching(c, n))].first
         IN  first \in Clusters /\ (c \in InUse => first \in Owned)
<1> DEFINE s == Least(Matching(c, n))
<1>1. Matching(c, n) \subseteq Nat
  BY ConstantsLemma DEF Matching, Seen
<1>2. s \in Matching(c, n)
  BY <1>1, LeastLemma
<1>3. s \in Slots /\ sec[c][0][s].kind = "entry"
  BY <1>2 DEF Matching, Seen
<1> HIDE DEF s
<1>4. sec[c][0][s].first \in Clusters
  BY <1>3, EntryLemma DEF DiskInv
<1>5. ASSUME c \in InUse PROVE sec[c][0][s].first \in Owned
  <2>1. <<c, s>> \in Places /\ First(<<c, s>>) = sec[c][0][s].first
    BY <1>3, <1>5 DEF Places, InUse, First
  <2> QED
    BY <2>1 DEF Owned
<1> QED
  BY <1>4, <1>5 DEF s

\* What the scan of a directory returns from a position on, with m steps left.
Positions == Clusters \cup {0, EOC}
Depth == LAST_CLUSTER - ROOT + 1
IsScan(scan, n, fault) ==
  \A c \in Positions :
    /\ scan[0][c] = 0
    /\ \A m \in 1..Depth :
         scan[m][c] =
           IF c \notin Clusters \/ fault = <<"dir", c>> THEN 0
           ELSE IF Matching(c, n) # {} THEN sec[c][0][Least(Matching(c, n))].first
           ELSE scan[m - 1][get_fat_entry(c, fault)]

LEMMA ScanLemma ==
  ASSUME DiskInv, NEW n, NEW fault
  PROVE  \E scan : /\ IsScan(scan, n, fault)
                   /\ \A dir : Lookup(dir, n, fault) = scan[Depth][dir]
<1> DEFINE Body(m, v) ==
             [c \in Positions |->
                IF m = 0 \/ c \notin Clusters \/ fault = <<"dir", c>> THEN 0
                ELSE IF Matching(c, n) # {} THEN sec[c][0][Least(Matching(c, n))].first
                ELSE v[get_fat_entry(c, fault)]]
           S == [Positions -> Clusters \cup {0}]
           F == [p \in (1..Depth) \X S |-> Body(p[1], p[2])]
           zero == [c \in Positions |-> 0]
           Rec(f) == f = [k \in Links |-> Body(k, f[k - 1])]
           scan == CHOOSE f : Rec(f)
<1>1. Depth \in Nat /\ Links = 0..Depth /\ Most(Links) = Depth
  BY LinksLemma DEF Depth
<1>2. zero \in S
  OBVIOUS
<1>3. ASSUME NEW m, NEW v \in S PROVE Body(m, v) \in S
  <2>1. ASSUME NEW c \in Positions PROVE Body(m, v)[c] \in Clusters \cup {0}
    <3>1. CASE m = 0 \/ c \notin Clusters \/ fault = <<"dir", c>>
      BY <3>1
    <3>2. CASE c \in Clusters /\ Matching(c, n) # {}
      BY <3>2, MatchLemma
    <3>3. CASE c \in Clusters /\ Matching(c, n) = {}
      <4>1. get_fat_entry(c, fault) \in Positions
        BY <3>3 DEF get_fat_entry, DiskInv, Positions
      <4> QED
        BY <3>3, <4>1
    <3> QED
      BY <3>1, <3>2, <3>3
  <2> QED
    BY <2>1
<1>4. F \in [(1..Depth) \X S -> S]
  <2>1. F = [p \in (1..Depth) \X S |-> F[p]]
    OBVIOUS
  <2>2. \A k \in 1..Depth, v \in S : F[<<k, v>>] = Body(k, v)
    OBVIOUS
  <2> HIDE DEF F, Body, S
  <2> QED
    BY <1>3, <2>1, <2>2
<1>5. \E f : Rec(f)
  <2>1. PICK g : Recursion(g, Depth, S, zero, F)
    <3> HIDE DEF F, S, zero
    <3> QED
      BY <1>1, <1>2, <1>4, IntervalRecursion
  <2>2. g \in [0..Depth -> S]
        /\ g = [k \in 0..Depth |-> IF k = 0 THEN zero ELSE F[<<k, g[k - 1]>>]]
    BY <2>1 DEF Recursion
  <2>3. ASSUME NEW k \in 0..Depth
        PROVE  Body(k, g[k - 1]) = IF k = 0 THEN zero ELSE F[<<k, g[k - 1]>>]
    <3>1. CASE k = 0
      BY <3>1
    <3>2. CASE k # 0
      <4>1. k \in 1..Depth /\ k - 1 \in 0..Depth
        BY <1>1, <3>2
      <4>2. g[k - 1] \in S
        <5> HIDE DEF S
        <5> QED
          BY <2>2, <4>1
      <4> HIDE DEF Body, S
      <4> QED
        BY <4>1, <4>2, <3>2
    <3> QED
      BY <3>1, <3>2
  <2>4. Rec(g)
    <3> HIDE DEF Body, F, zero, S
    <3> QED
      BY <1>1, <2>2, <2>3
  <2> HIDE DEF Rec
  <2> QED
    BY <2>4
<1>6. Rec(scan)
  <2> HIDE DEF Rec
  <2> QED
    BY <1>5
<1>7. \A dir : Lookup(dir, n, fault) = scan[Depth][dir]
  BY <1>1 DEF Lookup, Positions
<1> HIDE DEF scan
<1>8. IsScan(scan, n, fault)
  <2>1. 0 \in Links /\ \A m \in 1..Depth : m \in Links /\ m # 0
    BY <1>1
  <2>2. \A m \in Links : scan[m] = Body(m, scan[m - 1])
    <3> HIDE DEF Body
    <3> QED
      BY <1>6
  <2> SUFFICES ASSUME NEW c \in Positions
               PROVE  /\ scan[0][c] = 0
                      /\ \A m \in 1..Depth :
                           scan[m][c] =
                             IF c \notin Clusters \/ fault = <<"dir", c>> THEN 0
                             ELSE IF Matching(c, n) # {}
                               THEN sec[c][0][Least(Matching(c, n))].first
                             ELSE scan[m - 1][get_fat_entry(c, fault)]
    BY DEF IsScan
  <2>3. scan[0][c] = 0
    BY <2>1, <2>2
  <2>4. ASSUME NEW m \in 1..Depth
        PROVE  scan[m][c] =
                 IF c \notin Clusters \/ fault = <<"dir", c>> THEN 0
                 ELSE IF Matching(c, n) # {} THEN sec[c][0][Least(Matching(c, n))].first
                 ELSE scan[m - 1][get_fat_entry(c, fault)]
    <3>1. m \in Links /\ m # 0 /\ scan[m] = Body(m, scan[m - 1])
      BY <2>1, <2>2
    <3> QED
      BY <3>1
  <2> QED
    BY <2>3, <2>4
<1> QED
  BY <1>7, <1>8

\* A lookup in a directory finds nothing or a first cluster that has an owner,
\* whatever cannot be read.
LEMMA LookupLemma ==
  ASSUME DiskInv, NEW dir \in InUse \cup {0}, NEW n, NEW fault
  PROVE  Lookup(dir, n, fault) \in Owned \cup {0}
<1>1. PICK scan : IsScan(scan, n, fault) /\ \A d : Lookup(d, n, fault) = scan[Depth][d]
  BY ScanLemma
<1> DEFINE At == InUse \cup {0, EOC}
           S == {v \in {scan[m] : m \in 0..Depth} : \A c \in At : v[c] \in Owned \cup {0}}
<1>2. Depth \in Nat /\ At \subseteq Positions
  BY LinksLemma DEF Depth, Positions, InUse
<1>3. ASSUME NEW m \in 1..Depth, \A c \in At : scan[m - 1][c] \in Owned \cup {0}, NEW c \in At
      PROVE  scan[m][c] \in Owned \cup {0}
  <2>1. scan[m][c] =
          IF c \notin Clusters \/ fault = <<"dir", c>> THEN 0
          ELSE IF Matching(c, n) # {} THEN sec[c][0][Least(Matching(c, n))].first
          ELSE scan[m - 1][get_fat_entry(c, fault)]
    BY <1>1, <1>2 DEF IsScan
  <2>2. CASE c \notin Clusters \/ fault = <<"dir", c>>
    BY <2>1, <2>2
  <2>3. CASE c \in Clusters /\ ~(fault = <<"dir", c>>) /\ Matching(c, n) # {}
    BY <2>1, <2>3, MatchLemma, ConstantsLemma
  <2>4. CASE c \in Clusters /\ ~(fault = <<"dir", c>>) /\ Matching(c, n) = {}
    <3>1. fat[c] \in At
      BY <2>4, ConstantsLemma DEF DiskInv, ChainsApart, InUse
    <3>2. get_fat_entry(c, fault) \in At
      BY <3>1 DEF get_fat_entry
    <3> QED
      BY <1>3, <2>1, <2>4, <3>2
  <2> QED
    BY <2>2, <2>3, <2>4
<1>4. \A m \in 0..Depth : scan[m] \in S
  <2>1. scan[0] \in S
    BY <1>1, <1>2 DEF IsScan
  <2>2. ASSUME NEW m \in 1..Depth, scan[m - 1] \in S PROVE scan[m] \in S
    <3>1. m \in 0..Depth
      BY <1>2
    <3>2. \A c \in At : scan[m - 1][c] \in Owned \cup {0}
      BY <2>2
    <3> QED
      BY <1>3, <3>1, <3>2
  <2> HIDE DEF S
  <2> QED
    BY <1>2, <2>1, <2>2, IntervalRange
<1>5. scan[Depth] \in S /\ dir \in At
  BY <1>2, <1>4
<1> QED
  BY <1>1, <1>5

\* The directories find_directory_entry passes through: each is 0, the root or
\* has an owner.
IsWay(r, path, fault) ==
  /\ r \in [0..Len(path) -> {ROOT, 0} \cup Owned] /\ r[0] = ROOT
  /\ \A k \in 1..Len(path) : r[k] = Lookup(r[k - 1], path[k], fault)
  /\ find_directory_entry(path, fault) = r[Len(path)]

LEMMA WayLemma ==
  ASSUME DiskInv, NEW path \in Seq(Names), NEW fault
  PROVE  \E r : IsWay(r, path, fault)
<1> DEFINE N == Len(path)
           S == {ROOT, 0} \cup Owned
           F == [p \in (1..N) \X S |-> Lookup(p[2], path[p[1]], fault)]
           Rec(f) == f = [k \in 0..N |-> IF k = 0 THEN ROOT ELSE Lookup(f[k - 1], path[k], fault)]
           r == CHOOSE f : Rec(f)
<1>1. N \in Nat
  OBVIOUS
<1>2. ROOT \in S
  OBVIOUS
<1>3. ASSUME NEW v \in S, NEW n PROVE Lookup(v, n, fault) \in S
  <2>1. v \in InUse \cup {0}
    BY OwnedLemma, ConstantsLemma DEF DiskInv, RootInUse, InUse
  <2> QED
    BY <2>1, LookupLemma
<1>4. F \in [(1..N) \X S -> S]
  <2>1. \A p \in (1..N) \X S : p[2] \in S
    OBVIOUS
  <2> HIDE DEF N, S
  <2> QED
    BY <1>3, <2>1
<1>5. \E f : Rec(f)
  <2> HIDE DEF N, S
  <2>1. PICK g : Recursion(g, N, S, ROOT, F)
    <3> HIDE DEF F
    <3> QED
      BY <1>1, <1>2, <1>4, IntervalRecursion
  <2>2. g \in [0..N -> S] /\ g = [k \in 0..N |-> IF k = 0 THEN ROOT ELSE F[<<k, g[k - 1]>>]]
    BY <2>1 DEF Recursion
  <2>3. ASSUME NEW k \in 0..N, k # 0 PROVE F[<<k, g[k - 1]>>] = Lookup(g[k - 1], path[k], fault)
    <3>1. k \in 1..N /\ k - 1 \in 0..N
      BY <1>1, <2>3
    <3>2. g[k - 1] \in S
      BY <2>2, <3>1
    <3> QED
      BY <3>1, <3>2
  <2> HIDE DEF F
  <2>4. Rec(g)
    BY <2>2, <2>3
  <2> HIDE DEF Rec
  <2> QED
    BY <2>4
<1>6. r = [k \in 0..N |-> IF k = 0 THEN ROOT ELSE Lookup(r[k - 1], path[k], fault)]
  <2>1. Rec(r)
    <3> HIDE DEF Rec
    <3> QED
      BY <1>5
  <2> HIDE DEF r
  <2> QED
    BY <2>1
<1> HIDE DEF r
<1>7. \A k \in 0..N : r[k] \in S
  <2> HIDE DEF S, N
  <2>1. r[0] \in S
    BY <1>1, <1>2, <1>6
  <2>2. ASSUME NEW k \in 1..N, r[k - 1] \in S PROVE r[k] \in S
    <3>1. k \in 0..N /\ k # 0
      BY <1>1
    <3>2. r[k] = Lookup(r[k - 1], path[k], fault)
      BY <1>6, <3>1
    <3> QED
      BY <1>3, <2>2, <3>2
  <2> QED
    BY <1>1, <2>1, <2>2, IntervalRange
<1>8. find_directory_entry(path, fault) = r[N]
  BY DEF find_directory_entry, r
<1>9. r \in [0..N -> S] /\ r[0] = ROOT /\ \A k \in 1..N : r[k] = Lookup(r[k - 1], path[k], fault)
  <2> HIDE DEF S, N
  <2> QED
    BY <1>1, <1>6, <1>7
<1> QED
  BY <1>8, <1>9 DEF IsWay

\* find_directory_entry finds nothing, the root or a cluster in use.
LEMMA FindLemma ==
  ASSUME DiskInv, NEW path \in Seq(Names), NEW fault
  PROVE  find_directory_entry(path, fault) \in InUse \cup {0}
<1>1. PICK r : IsWay(r, path, fault)
  BY WayLemma
<1>2. Len(path) \in 0..Len(path)
  OBVIOUS
<1> QED
  BY <1>1, <1>2, OwnedLemma, ConstantsLemma DEF IsWay, DiskInv, RootInUse, InUse


\* The directory and the name of a path are a path and a name.
LEMMA PathLemma ==
  ASSUME NEW path \in Seq(Names)
  PROVE  Parent(path) \in Seq(Names) /\ Base(path) \in Names /\ Stored[Base(path)] \in Names
<1>1. "" \in Names /\ \A n \in Names : Stored[n] \in Names
  BY Fat32Assumption
<1>2. Parent(path) \in Seq(Names) /\ Base(path) \in Names
  <2>1. CASE path = << >>
    BY <1>1, <2>1 DEF Parent, Base
  <2>2. CASE path # << >>
    <3>1. Len(path) \in Nat /\ Len(path) >= 1
      BY <2>2
    <3>2. SubSeq(path, 1, Len(path) - 1) \in Seq(Names) /\ path[Len(path)] \in Names
      BY <3>1
    <3> QED
      BY <2>2, <3>2 DEF Parent, Base
  <2> QED
    BY <2>1, <2>2
<1> QED
  BY <1>1, <1>2

\* What find_free_cluster returns is the least free cluster.
LEMMA FreeLemma ==
  ASSUME NEW fault, FreeCluster(fault) # 0
  PROVE  /\ FreeCluster(fault) \in Clusters /\ fat[FreeCluster(fault)] = 0
         /\ \A d \in Clusters : fat[d] = 0 => FreeCluster(fault) <= d
<1>1. Free # {} /\ FreeCluster(fault) = Least(Free)
  BY DEF FreeCluster
<1>2. Free \subseteq Nat
  BY ConstantsLemma DEF Free
<1>3. Least(Free) \in Free /\ \A m \in Free : Least(Free) <= m
  BY <1>1, <1>2, LeastLemma
<1> QED
  BY <1>1, <1>3 DEF Free

----------------------------------------------------------------------------
\* What the writes of the driver do to the disk.

\* Marking the least free cluster: it is fresh, empty and the last one in use.
LEMMA MarkLemma ==
  ASSUME DiskInv, NEW new \in Clusters, fat[new] = 0,
         \A d \in Clusters : fat[d] = 0 => new <= d,
         fat' = [fat EXCEPT ![new] = EOC], sec' = sec
  PROVE  /\ DiskInv'
         /\ InUse \subseteq InUse' /\ new \in InUse' /\ new \notin InUse
         /\ \A c \in InUse : c < new
         /\ \A c \in Clusters : Fresh(c) => Fresh(c)'
         /\ Fresh(new)' /\ Bare(new)'
         /\ \A d \in Clusters : d > new => fat'[d] = 0
<1>1. /\ fat \in [Clusters -> {0, EOC} \cup Clusters] /\ Shape
      /\ ChainsApart /\ OneOwner /\ FrontInUse /\ RootInUse /\ FreeBare
  BY DEF DiskInv
<1>2. \A c \in Clusters : c \in Nat
  BY ConstantsLemma
<1>3. /\ fat' \in [Clusters -> {0, EOC} \cup Clusters] /\ fat'[new] = EOC
      /\ \A c \in Clusters : c # new => fat'[c] = fat[c]
  BY <1>1
<1>4. InUse' = InUse \cup {new}
  BY <1>3, ConstantsLemma DEF InUse
<1>5. Bare(new) /\ Bare(new)'
  BY <1>1 DEF FreeBare, Bare
<1>6. /\ Places' = Places
      /\ \A p \in Places : First(p)' = First(p) /\ First(p) \in InUse
  <2>1. Places' = Places
    <3>1. \A p \in Clusters \X Slots : sec[p[1]][0][p[2]].kind = "entry" => p[1] # new
      BY <1>5 DEF Bare
    <3>2. \A c \in Clusters : c # new => (fat'[c] # 0 <=> fat[c] # 0)
      BY <1>3
    <3> QED
      BY <3>1, <3>2 DEF Places
  <2>2. \A p \in Places : First(p) \in InUse
    BY OwnedLemma DEF Owned
  <2>3. \A p \in Places : First(p)' = First(p)
    BY DEF First
  <2> QED
    BY <2>1, <2>2, <2>3
<1>7. \A c \in InUse : c < new
  BY <1>1, <1>2 DEF FrontInUse, InUse
<1>8. \A d \in Clusters : d > new => fat'[d] = 0
  BY <1>1, <1>2, <1>3 DEF FrontInUse
<1>9. \A c \in Clusters : fat[c] # new
  BY <1>1 DEF ChainsApart
<1>10. Fresh(new)'
  <2>1. \A d \in Clusters : fat'[d] # new
    BY <1>3, <1>9, ConstantsLemma
  <2>2. \A p \in Places' : First(p)' # new
    BY <1>6 DEF InUse
  <2>3. new # ROOT
    BY <1>1 DEF RootInUse
  <2> QED
    BY <1>4, <2>1, <2>2, <2>3 DEF Fresh
<1>11. ASSUME NEW c \in Clusters, Fresh(c) PROVE Fresh(c)'
  <2>1. c \in InUse' /\ c # ROOT
    BY <1>4, <1>11 DEF Fresh
  <2>2. \A d \in Clusters : fat'[d] # c
    BY <1>3, <1>11, ConstantsLemma DEF Fresh
  <2>3. \A p \in Places' : First(p)' # c
    BY <1>6, <1>11 DEF Fresh
  <2> QED
    BY <2>1, <2>2, <2>3 DEF Fresh
<1>12. ChainsApart'
  <2> SUFFICES ASSUME NEW c \in Clusters, fat'[c] \in Clusters
               PROVE  /\ fat'[c] > c /\ fat'[fat'[c]] # 0
                      /\ \A d \in Clusters : fat'[d] = fat'[c] => d = c
    BY DEF ChainsApart
  <2>1. c # new /\ fat'[c] = fat[c] /\ fat[c] # new
    BY <1>3, <1>9, ConstantsLemma
  <2>2. fat[c] > c /\ fat[fat[c]] # 0 /\ \A d \in Clusters : fat[d] = fat[c] => d = c
    BY <1>1, <2>1 DEF ChainsApart
  <2>3. \A d \in Clusters : fat'[d] = fat'[c] => d = c
    BY <1>3, <2>1, <2>2, ConstantsLemma
  <2> QED
    BY <1>3, <2>1, <2>2, <2>3
<1>13. OneOwner'
  <2> SUFFICES ASSUME NEW p \in Places'
               PROVE  /\ fat'[First(p)'] # 0 /\ First(p)' # ROOT
                      /\ \A c \in Clusters : fat'[c] # First(p)'
                      /\ \A q \in Places' : First(q)' = First(p)' => q = p
    BY DEF OneOwner
  <2>1. p \in Places /\ First(p)' = First(p) /\ First(p) \in Clusters /\ First(p) # new
    BY <1>6 DEF InUse
  <2>2. /\ fat[First(p)] # 0 /\ First(p) # ROOT
        /\ \A c \in Clusters : fat[c] # First(p)
        /\ \A q \in Places : First(q) = First(p) => q = p
    BY <1>1, <2>1 DEF OneOwner
  <2>3. \A c \in Clusters : fat'[c] # First(p)
    BY <1>3, <2>1, <2>2, ConstantsLemma
  <2> QED
    BY <1>3, <1>6, <2>1, <2>2, <2>3
<1>14. FrontInUse' /\ RootInUse' /\ FreeBare' /\ Shape'
  <2>1. FrontInUse'
    BY <1>1, <1>2, <1>3, <1>8, ConstantsLemma DEF FrontInUse
  <2>2. RootInUse'
    BY <1>1, <1>3, ConstantsLemma DEF RootInUse
  <2>3. FreeBare'
    <3>1. \A c \in Clusters : fat'[c] = 0 => fat[c] = 0
      BY <1>3
    <3> QED
      BY <1>1, <3>1 DEF FreeBare, Bare
  <2>4. Shape'
    BY <1>1 DEF Shape
  <2> QED
    BY <2>1, <2>2, <2>3, <2>4
<1>15. DiskInv'
  BY <1>3, <1>12, <1>13, <1>14 DEF DiskInv
<1>16. new \notin InUse
  BY DEF InUse
<1> QED
  BY <1>4, <1>5, <1>7, <1>8, <1>10, <1>11, <1>15, <1>16

\* Linking a fresh cluster behind an earlier one.
LEMMA LinkLemma ==
  ASSUME DiskInv, NEW a \in InUse, NEW b, Fresh(b), a < b,
         fat' = [fat EXCEPT ![a] = b], sec' = sec
  PROVE  /\ DiskInv' /\ InUse' = InUse
         /\ \A c \in Clusters : c # b /\ Fresh(c) => Fresh(c)'
<1>1. /\ fat \in [Clusters -> {0, EOC} \cup Clusters] /\ Shape
      /\ ChainsApart /\ OneOwner /\ FrontInUse /\ RootInUse /\ FreeBare
  BY DEF DiskInv
<1>2. a \in Clusters /\ b \in Clusters /\ fat[a] # 0 /\ fat[b] # 0 /\ b # 0
  BY ConstantsLemma DEF InUse, Fresh
<1>3. /\ fat' \in [Clusters -> {0, EOC} \cup Clusters] /\ fat'[a] = b
      /\ \A c \in Clusters : c # a => fat'[c] = fat[c]
  BY <1>1, <1>2
<1>4. \A c \in Clusters : fat'[c] = 0 <=> fat[c] = 0
  BY <1>2, <1>3
<1>5. InUse' = InUse
  BY <1>4 DEF InUse
<1>6. Places' = Places /\ \A p \in Places : First(p)' = First(p) /\ First(p) \in InUse
  <2>1. Places' = Places
    BY <1>4 DEF Places
  <2>2. \A p \in Places : First(p) \in InUse
    BY OwnedLemma DEF Owned
  <2>3. \A p \in Places : First(p)' = First(p)
    BY DEF First
  <2> QED
    BY <2>1, <2>2, <2>3
<1>7. ASSUME NEW c \in Clusters, c # b, Fresh(c) PROVE Fresh(c)'
  <2>1. c \in InUse' /\ c # ROOT
    BY <1>5, <1>7 DEF Fresh
  <2>2. \A d \in Clusters : fat'[d] # c
    BY <1>3, <1>7 DEF Fresh
  <2>3. \A p \in Places' : First(p)' # c
    BY <1>6, <1>7 DEF Fresh
  <2> QED
    BY <2>1, <2>2, <2>3 DEF Fresh
<1>8. ChainsApart'
  <2> SUFFICES ASSUME NEW c \in Clusters, fat'[c] \in Clusters
               PROVE  /\ fat'[c] > c /\ fat'[fat'[c]] # 0
                      /\ \A d \in Clusters : fat'[d] = fat'[c] => d = c
    BY DEF ChainsApart
  <2>1. CASE c = a
    <3>1. \A d \in Clusters : d # a => fat'[d] # b
      BY <1>3 DEF Fresh
    <3> QED
      BY <1>2, <1>3, <1>4, <2>1, <3>1
  <2>2. CASE c # a
    <3>1. fat'[c] = fat[c] /\ fat[c] # b
      BY <1>3, <2>2 DEF Fresh
    <3>2. fat[c] > c /\ fat[fat[c]] # 0 /\ \A d \in Clusters : fat[d] = fat[c] => d = c
      BY <1>1, <3>1 DEF ChainsApart
    <3> QED
      BY <1>3, <1>4, <3>1, <3>2
  <2> QED
    BY <2>1, <2>2
<1>9. OneOwner'
  <2> SUFFICES ASSUME NEW p \in Places'
               PROVE  /\ fat'[First(p)'] # 0 /\ First(p)' # ROOT
                      /\ \A c \in Clusters : fat'[c] # First(p)'
                      /\ \A q \in Places' : First(q)' = First(p)' => q = p
    BY DEF OneOwner
  <2>1. p \in Places /\ First(p)' = First(p) /\ First(p) \in Clusters /\ First(p) # b
    BY <1>6 DEF InUse, Fresh
  <2>2. /\ fat[First(p)] # 0 /\ First(p) # ROOT
        /\ \A c \in Clusters : fat[c] # First(p)
        /\ \A q \in Places : First(q) = First(p) => q = p
    BY <1>1, <2>1 DEF OneOwner
  <2>3. \A c \in Clusters : fat'[c] # First(p)
    BY <1>3, <2>1, <2>2
  <2> QED
    BY <1>4, <1>6, <2>1, <2>2, <2>3
<1>10. FrontInUse' /\ RootInUse' /\ FreeBare' /\ Shape'
  <2>1. FrontInUse'
    BY <1>1, <1>4 DEF FrontInUse
  <2>2. RootInUse'
    BY <1>1, <1>4, ConstantsLemma DEF RootInUse
  <2>3. FreeBare'
    BY <1>1, <1>4 DEF FreeBare, Bare
  <2>4. Shape'
    BY <1>1 DEF Shape
  <2> QED
    BY <2>1, <2>2, <2>3, <2>4
<1> QED
  BY <1>3, <1>5, <1>7, <1>8, <1>9, <1>10 DEF DiskInv

\* Giving the last cluster back, when it is fresh and empty.
LEMMA GiveBackLemma ==
  ASSUME DiskInv, NEW b, Fresh(b), Bare(b), \A d \in Clusters : d > b => fat[d] = 0,
         fat' = [fat EXCEPT ![b] = 0], sec' = sec
  PROVE  DiskInv'
<1>1. /\ fat \in [Clusters -> {0, EOC} \cup Clusters] /\ Shape
      /\ ChainsApart /\ OneOwner /\ FrontInUse /\ RootInUse /\ FreeBare
  BY DEF DiskInv
<1>2. b \in Clusters /\ b # ROOT /\ \A c \in Clusters : fat[c] # b
  BY DEF InUse, Fresh
<1>3. /\ fat' \in [Clusters -> {0, EOC} \cup Clusters] /\ fat'[b] = 0
      /\ \A c \in Clusters : c # b => fat'[c] = fat[c]
  BY <1>1, <1>2
<1>4. \A c \in Clusters : c \in Nat
  BY ConstantsLemma
<1>5. Places' = Places /\ \A p \in Places : First(p)' = First(p) /\ First(p) \in Clusters
  <2>1. Places' = Places
    BY <1>3 DEF Places, Bare
  <2>2. \A p \in Places : First(p) \in InUse
    BY OwnedLemma DEF Owned
  <2>3. \A p \in Places : First(p)' = First(p)
    BY DEF First
  <2> QED
    BY <2>1, <2>2, <2>3 DEF InUse
<1>6. ChainsApart'
  <2> SUFFICES ASSUME NEW c \in Clusters, fat'[c] \in Clusters
               PROVE  /\ fat'[c] > c /\ fat'[fat'[c]] # 0
                      /\ \A d \in Clusters : fat'[d] = fat'[c] => d = c
    BY DEF ChainsApart
  <2>1. c # b /\ fat'[c] = fat[c] /\ fat[c] # b
    BY <1>2, <1>3, ConstantsLemma
  <2>2. fat[c] > c /\ fat[fat[c]] # 0 /\ \A d \in Clusters : fat[d] = fat[c] => d = c
    BY <1>1, <2>1 DEF ChainsApart
  <2>3. \A d \in Clusters : fat'[d] = fat'[c] => d = c
    BY <1>3, <2>1, <2>2, ConstantsLemma
  <2> QED
    BY <1>3, <2>1, <2>2, <2>3
<1>7. OneOwner'
  <2> SUFFICES ASSUME NEW p \in Places'
               PROVE  /\ fat'[First(p)'] # 0 /\ First(p)' # ROOT
                      /\ \A c \in Clusters : fat'[c] # First(p)'
                      /\ \A q \in Places' : First(q)' = First(p)' => q = p
    BY DEF OneOwner
  <2>1. p \in Places /\ First(p)' = First(p) /\ First(p) \in Clusters /\ First(p) # b
    BY <1>5 DEF Fresh
  <2>2. /\ fat[First(p)] # 0 /\ First(p) # ROOT
        /\ \A c \in Clusters : fat[c] # First(p)
        /\ \A q \in Places : First(q) = First(p) => q = p
    BY <1>1, <2>1 DEF OneOwner
  <2>3. \A c \in Clusters : fat'[c] # First(p)
    BY <1>3, <2>1, <2>2, ConstantsLemma
  <2> QED
    BY <1>3, <1>5, <2>1, <2>2, <2>3
<1>8. FrontInUse' /\ RootInUse' /\ FreeBare' /\ Shape'
  <2>1. FrontInUse'
    BY <1>1, <1>2, <1>3, <1>4 DEF FrontInUse
  <2>2. RootInUse'
    BY <1>1, <1>2, <1>3, ConstantsLemma DEF RootInUse
  <2>3. FreeBare'
    BY <1>1, <1>2, <1>3 DEF FreeBare, Bare
  <2>4. Shape'
    BY <1>1 DEF Shape
  <2> QED
    BY <2>1, <2>2, <2>3, <2>4
<1> QED
  BY <1>3, <1>6, <1>7, <1>8 DEF DiskInv

\* A write that adds no entry.
LEMMA OverwriteLemma ==
  ASSUME DiskInv, fat' = fat, Shape',
         \A c \in Clusters, s \in Slots :
           sec'[c][0][s].kind = "entry" => sec'[c][0][s] = sec[c][0][s]
  PROVE  /\ DiskInv' /\ InUse' = InUse
         /\ \A c \in Clusters : (Fresh(c) => Fresh(c)') /\ (Bare(c) => Bare(c)')
<1>1. /\ fat \in [Clusters -> {0, EOC} \cup Clusters] /\ Shape
      /\ ChainsApart /\ OneOwner /\ FrontInUse /\ RootInUse /\ FreeBare
  BY DEF DiskInv
<1>2. InUse' = InUse
  BY DEF InUse
<1>3. ASSUME NEW p \in Places' PROVE p \in Places /\ First(p)' = First(p)
  <2>1. /\ p \in Clusters \X Slots /\ fat[p[1]] # 0 /\ sec'[p[1]][0][p[2]].kind = "entry"
        /\ p[1] \in Clusters /\ p[2] \in Slots
    BY DEF Places
  <2>2. sec'[p[1]][0][p[2]] = sec[p[1]][0][p[2]]
    BY <2>1
  <2> QED
    BY <2>1, <2>2 DEF Places, First
<1>4. ASSUME NEW c \in Clusters, Fresh(c) PROVE Fresh(c)'
  <2>1. c \in InUse' /\ c # ROOT /\ \A d \in Clusters : fat'[d] # c
    BY <1>2, <1>4 DEF Fresh
  <2>2. \A p \in Places' : First(p)' # c
    BY <1>3, <1>4 DEF Fresh
  <2> QED
    BY <2>1, <2>2 DEF Fresh
<1>5. ASSUME NEW c \in Clusters, Bare(c) PROVE Bare(c)'
  BY <1>5 DEF Bare
<1>6. OneOwner'
  <2> SUFFICES ASSUME NEW p \in Places'
               PROVE  /\ fat'[First(p)'] # 0 /\ First(p)' # ROOT
                      /\ \A c \in Clusters : fat'[c] # First(p)'
                      /\ \A q \in Places' : First(q)' = First(p)' => q = p
    BY DEF OneOwner
  <2>1. p \in Places /\ First(p)' = First(p)
    BY <1>3
  <2>2. /\ fat[First(p)] # 0 /\ First(p) # ROOT
        /\ \A c \in Clusters : fat[c] # First(p)
        /\ \A q \in Places : First(q) = First(p) => q = p
    BY <1>1, <2>1 DEF OneOwner
  <2> QED
    BY <1>3, <2>1, <2>2
<1>7. ChainsApart' /\ FrontInUse' /\ RootInUse'
  BY <1>1 DEF ChainsApart, FrontInUse, RootInUse
<1>8. FreeBare'
  BY <1>1, <1>5 DEF FreeBare
<1>9. DiskInv'
  BY <1>1, <1>6, <1>7, <1>8 DEF DiskInv
<1> QED
  BY <1>2, <1>4, <1>5, <1>9

\* ... of a whole sector.
LEMMA SectorLemma ==
  ASSUME DiskInv, NEW c \in Clusters, NEW q \in Sectors, NEW v \in Sector,
         \A s \in Slots : v[s].kind # "entry",
         fat' = fat, sec' = [sec EXCEPT ![c][q] = v]
  PROVE  /\ DiskInv' /\ InUse' = InUse
         /\ \A d \in Clusters : (Fresh(d) => Fresh(d)') /\ (Bare(d) => Bare(d)')
<1>1. Shape
  BY DEF DiskInv
<1>2. Shape'
  BY <1>1 DEF Shape
<1>3. ASSUME NEW d \in Clusters, NEW s \in Slots, sec'[d][0][s].kind = "entry"
      PROVE  sec'[d][0][s] = sec[d][0][s]
  <2>1. 0 \in Sectors
    BY ConstantsLemma
  <2>2. CASE d = c /\ q = 0
    BY <1>1, <1>3, <2>1, <2>2 DEF Shape
  <2>3. CASE d = c /\ q # 0
    BY <1>1, <2>1, <2>3 DEF Shape
  <2>4. CASE d # c
    BY <1>1, <2>4 DEF Shape
  <2> QED
    BY <2>2, <2>3, <2>4
<1> QED
  BY <1>2, <1>3, OverwriteLemma

\* A new entry that leads to a fresh cluster.
LEMMA FillLemma ==
  ASSUME DiskInv, NEW c \in InUse, NEW s \in Slots, NEW e \in Entries, Fresh(e.first),
         fat' = fat, sec' = [sec EXCEPT ![c][0][s] = e]
  PROVE  DiskInv'
<1>1. /\ fat \in [Clusters -> {0, EOC} \cup Clusters] /\ Shape
      /\ ChainsApart /\ OneOwner /\ FrontInUse /\ RootInUse /\ FreeBare
  BY DEF DiskInv
<1>2. c \in Clusters /\ fat[c] # 0 /\ 0 \in Sectors
  BY ConstantsLemma DEF InUse
<1>3. Shape'
  <2>1. e \in Content
    BY DEF Content
  <2>2. [sec[c][0] EXCEPT ![s] = e] \in Sector
    <3>1. sec[c][0] \in Sector
      BY <1>1, <1>2 DEF Shape
    <3> QED
      BY <2>1, <3>1 DEF Sector
  <2>3. sec' = [sec EXCEPT ![c] = [sec[c] EXCEPT ![0] = [sec[c][0] EXCEPT ![s] = e]]]
    BY <1>1, <1>2 DEF Shape
  <2>4. [sec[c] EXCEPT ![0] = [sec[c][0] EXCEPT ![s] = e]] \in [Sectors -> Sector]
    BY <1>1, <1>2, <2>2 DEF Shape
  <2> QED
    BY <1>1, <2>3, <2>4 DEF Shape
<1>4. /\ sec'[c][0][s] = e
      /\ \A d \in Clusters, t \in Slots :
            d # c \/ t # s => sec'[d][0][t] = sec[d][0][t]
  <2>1. sec \in [Clusters -> [Sectors -> [Slots -> Content]]]
    BY <1>1 DEF Shape, Sector
  <2> QED
    BY <1>2, <2>1
<1>5. ASSUME NEW p \in Places'
      PROVE  \/ p = <<c, s>> /\ First(p)' = e.first
             \/ p \in Places /\ First(p)' = First(p)
  <2>1. /\ p \in Clusters \X Slots /\ fat[p[1]] # 0 /\ sec'[p[1]][0][p[2]].kind = "entry"
        /\ p[1] \in Clusters /\ p[2] \in Slots /\ p = <<p[1], p[2]>>
    BY DEF Places
  <2>2. CASE p[1] = c /\ p[2] = s
    BY <1>4, <2>1, <2>2 DEF First
  <2>3. CASE p[1] # c \/ p[2] # s
    <3>1. sec'[p[1]][0][p[2]] = sec[p[1]][0][p[2]]
      BY <1>4, <2>1, <2>3
    <3> QED
      BY <2>1, <3>1 DEF Places, First
  <2> QED
    BY <2>2, <2>3
<1>6. OneOwner'
  <2> SUFFICES ASSUME NEW p \in Places'
               PROVE  /\ fat'[First(p)'] # 0 /\ First(p)' # ROOT
                      /\ \A d \in Clusters : fat'[d] # First(p)'
                      /\ \A q \in Places' : First(q)' = First(p)' => q = p
    BY DEF OneOwner
  <2>1. /\ e.first \in Clusters /\ fat[e.first] # 0 /\ e.first # ROOT
        /\ \A d \in Clusters : fat[d] # e.first
        /\ \A q \in Places : First(q) # e.first
    BY DEF Fresh, InUse
  <2>2. CASE p = <<c, s>> /\ First(p)' = e.first
    <3>1. \A q \in Places' : First(q)' = First(p)' => q = p
      BY <1>5, <2>1, <2>2
    <3> QED
      BY <2>1, <2>2, <3>1
  <2>3. CASE p \in Places /\ First(p)' = First(p)
    <3>1. /\ fat[First(p)] # 0 /\ First(p) # ROOT
          /\ \A d \in Clusters : fat[d] # First(p)
          /\ \A q \in Places : First(q) = First(p) => q = p
      BY <1>1, <2>3 DEF OneOwner
    <3>2. \A q \in Places' : First(q)' = First(p)' => q = p
      BY <1>5, <2>1, <2>3, <3>1
    <3> QED
      BY <2>3, <3>1, <3>2
  <2> QED
    BY <1>5, <2>2, <2>3
<1>7. ChainsApart' /\ FrontInUse' /\ RootInUse'
  BY <1>1 DEF ChainsApart, FrontInUse, RootInUse
<1>8. FreeBare'
  <2>1. \A d \in Clusters : fat[d] = 0 => d # c
    BY <1>2
  <2> QED
    BY <1>1, <1>4, <2>1 DEF FreeBare, Bare
<1> QED
  BY <1>1, <1>3, <1>6, <1>7, <1>8 DEF DiskInv

\* What a slot holds is what the type invariant asks for.
LEMMA SlotLemma ==
  ASSUME Shape
  PROVE  \A c \in Clusters, q \in Sectors, s \in Slots : SlotOK(sec[c][q][s])
<1> SUFFICES ASSUME NEW c \in Clusters, NEW q \in Sectors, NEW s \in Slots
             PROVE  SlotOK(sec[c][q][s])
  OBVIOUS
<1>1. sec[c][q][s] \in Content
  BY DEF Shape, Sector
<1>2. \A v \in Texts : v.kind = "text" /\ v.data \in Datas /\ v.at \in 1..Length[v.data]
  BY DEF Texts
<1>3. \A v \in Entries : v.kind = "entry" /\ v.name \in Names /\ v.first \in Clusters
  BY DEF Entries
<1> QED
  BY <1>1, <1>2, <1>3 DEF Content, SlotOK

\* A sector of a file's contents holds texts and zeros.
LEMMA DataLemma ==
  ASSUME NEW d \in Datas, NEW m \in Nat, NEW q \in Sectors
  PROVE  DataSector(d, m, q) \in Sector /\ \A s \in Slots : DataSector(d, m, q)[s].kind # "entry"
<1>1. ASSUME NEW s \in Slots
      PROVE  DataSector(d, m, q)[s] \in {Zero} \cup Texts
  <2> DEFINE given == {t \in 0..q : (m * SPC + t) * SLOTS + s <= Length[d]}
             k == (m * SPC + Most(given)) * SLOTS + s
  <2>1. DataSector(d, m, q)[s] = IF given = {} THEN Zero ELSE Text(d, k)
    BY DEF DataSector
  <2>2. ASSUME given # {} PROVE Text(d, k) \in Texts
    <3>1. q \in Nat
      BY ConstantsLemma
    <3>2. Most(given) \in given
      BY <2>2, <3>1, MostLemma
    <3>3. Most(given) \in 0..q /\ k <= Length[d]
      BY <3>2
    <3> DEFINE a == m * SPC + Most(given)
    <3>4. a \in Nat
      BY <3>1, <3>3, ConstantsLemma
    <3> HIDE DEF a
    <3>5. a * SLOTS \in Nat /\ s \in Nat /\ s >= 1
      BY <3>4, ConstantsLemma DEF Slots
    <3>6. k \in Nat /\ k >= 1
      BY <3>5 DEF a
    <3>7. Length[d] \in Nat
      BY Fat32Assumption
    <3> HIDE DEF k
    <3>8. k \in 1..Length[d]
      BY <3>3, <3>6, <3>7
    <3> QED
      BY <3>6, <3>8 DEF Texts, Text
  <2> QED
    BY <2>1, <2>2
<1>2. \A v \in {Zero} \cup Texts : v \in Content /\ v.kind # "entry"
  BY DEF Zero, Texts, Content
<1>3. DataSector(d, m, q) = [s \in Slots |-> DataSector(d, m, q)[s]]
  BY DEF DataSector
<1> QED
  BY <1>1, <1>2, <1>3 DEF Sector

\* The writes of the driver as the steps make them: done or refused.
LEMMA BlankLemma ==
  ASSUME DiskInv, NEW c \in Clusters, NEW q \in Sectors, NEW fault,
         fat' = fat, SetSector(c, q, Blank, fault)
  PROVE  /\ DiskInv' /\ InUse' = InUse
         /\ \A d \in Clusters : (Fresh(d) => Fresh(d)') /\ (Bare(d) => Bare(d)')
<1>1. Blank \in Sector /\ \A s \in Slots : Blank[s].kind # "entry"
  BY DEF Blank, Sector, Content, Zero
<1>2. CASE fault = None
  <2>1. sec' = [sec EXCEPT ![c][q] = Blank]
    BY <1>2 DEF SetSector
  <2> QED
    BY <1>1, <2>1, SectorLemma
<1>3. CASE fault # None
  <2>1. sec' = sec
    BY <1>3 DEF SetSector
  <2>2. Shape'
    BY <2>1 DEF DiskInv, Shape
  <2> QED
    BY <2>1, <2>2, OverwriteLemma
<1> QED
  BY <1>2, <1>3

LEMMA TextLemma ==
  ASSUME DiskInv, NEW c \in Clusters, NEW q \in Sectors, NEW d \in Datas, NEW m \in Nat,
         NEW fault, fat' = fat, SetSector(c, q, DataSector(d, m, q), fault)
  PROVE  /\ DiskInv' /\ InUse' = InUse
         /\ \A e \in Clusters : Fresh(e) => Fresh(e)'
<1>1. CASE fault = None
  <2>1. PICK v : v = DataSector(d, m, q)
    OBVIOUS
  <2>2. v \in Sector /\ \A s \in Slots : v[s].kind # "entry"
    BY <2>1, DataLemma
  <2>3. sec' = [sec EXCEPT ![c][q] = v]
    BY <1>1, <2>1 DEF SetSector
  <2> QED
    BY <2>2, <2>3, SectorLemma
<1>2. CASE fault # None
  <2>1. sec' = sec
    BY <1>2 DEF SetSector
  <2>2. Shape'
    BY <2>1 DEF DiskInv, Shape
  <2> QED
    BY <2>1, <2>2, OverwriteLemma
<1> QED
  BY <1>1, <1>2

LEMMA TryLinkLemma ==
  ASSUME DiskInv, NEW a \in InUse, NEW b, Fresh(b), a < b, NEW fault,
         SetFat(a, b, fault), sec' = sec
  PROVE  /\ DiskInv' /\ InUse' = InUse
         /\ \A c \in Clusters : c # b /\ Fresh(c) => Fresh(c)'
         /\ \A x \in Clusters : x # a => fat'[x] = fat[x]
         /\ fat'[a] = b \/ (fat' = fat /\ Fresh(b)')
<1>1. CASE fault = None
  <2>1. fat' = [fat EXCEPT ![a] = b]
    BY <1>1 DEF SetFat
  <2>2. a \in Clusters /\ fat \in [Clusters -> {0, EOC} \cup Clusters]
    BY DEF DiskInv, InUse
  <2>3. fat'[a] = b /\ \A x \in Clusters : x # a => fat'[x] = fat[x]
    BY <2>1, <2>2
  <2> QED
    BY <2>1, <2>3, LinkLemma
<1>2. CASE fault # None
  <2>1. fat' = fat
    BY <1>2 DEF SetFat
  <2>2. Shape'
    BY DEF DiskInv, Shape
  <2>3. DiskInv' /\ InUse' = InUse /\ \A c \in Clusters : Fresh(c) => Fresh(c)'
    BY <2>1, <2>2, OverwriteLemma
  <2>4. Fresh(b)'
    BY <2>3 DEF Fresh, InUse
  <2> QED
    BY <2>1, <2>3, <2>4
<1> QED
  BY <1>1, <1>2

----------------------------------------------------------------------------
\* The steps.

LEMMA ChargeLemma ==
  ASSUME Registers, NEW fault, Charge(fault)
  PROVE  faults' \in 0..MAX_FAULTS /\ clean' \in BOOLEAN
<1>1. faults \in 0..MAX_FAULTS /\ MAX_FAULTS \in Nat
  BY Fat32Assumption DEF Registers
<1>2. CASE fault = None
  BY <1>1, <1>2 DEF Charge
<1>3. CASE fault # None
  <2>1. faults > 0 /\ faults' = faults - 1
    BY <1>3 DEF Charge
  <2>2. clean' \in BOOLEAN
    BY DEF Charge
  <2> QED
    BY <1>1, <2>1, <2>2
<1>4. clean' \in BOOLEAN
  BY DEF Charge
<1> QED
  BY <1>2, <1>3

LEMMA ReturnLemma ==
  ASSUME Registers, NEW fault, Charge(fault), NEW v \in {"ok", "fail"}, Return(v)
  PROVE  Registers' /\ LocalPart' /\ CallPart'
<1>1. Registers'
  <2>1. faults' \in 0..MAX_FAULTS /\ clean' \in BOOLEAN
    BY ChargeLemma
  <2> QED
    BY <2>1, ConstantsLemma DEF Registers, Return, power, Labels
<1>2. pc' = "idle"
  BY DEF Return
<1> QED
  BY <1>1, <1>2 DEF LocalPart, CallPart, Creation, Writing

LEMMA GoLemma ==
  ASSUME Registers, NEW fault, Charge(fault), NEW l \in Labels, Go(l),
         cluster' \in Clusters \cup {0}, current' \in Clusters \cup {0},
         extra' \in Clusters \cup {0}, i' \in Nat, j' \in Sectors
  PROVE  Registers'
<1>1. faults' \in 0..MAX_FAULTS /\ clean' \in BOOLEAN
  BY ChargeLemma
<1> QED
  BY <1>1 DEF Registers, Go, power

\* A step on the way keeps its call: what the place it goes to asks of it.
LEMMA CallLemma ==
  ASSUME CallPart, NEW l, Go(l), pc # "idle",
         l \in Creation \cup {"alloc"} => call.op \in {"create", "write"},
         l \in Writing \cup {"find", "refind"} => call.op = "write",
         l = "unlink" => call.op = "delete"
  PROVE  CallPart'
BY DEF CallPart, Go

\* Every call has a path, and what a create makes of it is an entry.
LEMMA ArgumentLemma ==
  ASSUME NEW c \in Calls
  PROVE  /\ c.path \in Seq(Names) /\ c.op \in {"create", "write", "delete"}
         /\ c.op = "write" => c.data \in Datas
         /\ c.op \in {"create", "write"} =>
              \A x \in Clusters : /\ Entry(Stored[Base(c.path)], c.attributes, x) \in Entries
                                  /\ Entry(Stored[Base(c.path)], c.attributes, x).first = x
<1>1. c.path \in Paths /\ c.op \in {"create", "write", "delete"}
  BY Fat32Assumption DEF Calls
<1>2. c.path \in Seq(Names)
  BY <1>1, Fat32Assumption
<1>3. c.op = "write" => c.data \in Datas
  BY DEF Calls
<1>4. c.op \in {"create", "write"} => c.attributes \in {0, ARCHIVE, DIRECTORY}
  BY DEF Calls
<1>5. Stored[Base(c.path)] \in Names
  BY <1>2, PathLemma
<1> QED
  BY <1>1, <1>2, <1>3, <1>4, <1>5 DEF Entry, Entries

\* A read of a FAT entry that leads on leads to a cluster in use.
LEMMA NextLemma ==
  ASSUME DiskInv, NEW c \in InUse, NEW fault, get_fat_entry(c, fault) \notin {0, EOC}
  PROVE  get_fat_entry(c, fault) = fat[c] /\ fat[c] \in InUse
BY ConstantsLemma DEF get_fat_entry, DiskInv, ChainsApart, InUse

LEMMA SameDiskLemma ==
  ASSUME DiskInv, UNCHANGED disk
  PROVE  DiskInv' /\ InUse' = InUse /\ \A c \in Clusters : Fresh(c) => Fresh(c)'
<1>1. Shape'
  BY DEF DiskInv, Shape, disk
<1> QED
  BY <1>1, OverwriteLemma DEF disk

LEMMA InitStep == ASSUME IInv, NEW fault \in Faults, init(fault) PROVE IInv'
<1>1. DiskInv /\ Registers /\ LocalPart /\ CallPart /\ pc = "idle"
  BY DEF IInv, init
<1>2. DiskInv'
  BY <1>1, SameDiskLemma DEF init
<1>3. Registers'
  <2>1. faults' \in 0..MAX_FAULTS /\ clean' \in BOOLEAN
    BY <1>1, ChargeLemma DEF init
  <2> QED
    BY <1>1, <2>1 DEF Registers, init, local
<1>4. LocalPart' /\ CallPart'
  BY <1>1 DEF LocalPart, CallPart, Creation, Writing, init
<1> QED
  BY <1>2, <1>3, <1>4 DEF IInv

LEMMA AllocStep ==
  ASSUME IInv, NEW fault \in Faults, Charge(fault), Alloc(fault) PROVE IInv'
<1>1. /\ DiskInv /\ Registers /\ LocalPart /\ CallPart /\ pc = "alloc"
      /\ call \in Calls /\ call.op \in {"create", "write"}
  BY DEF IInv, Alloc, CallPart
<1>2. PICK dir : dir = find_directory_entry(Parent(call.path), fault)
  OBVIOUS
<1>3. PICK new : new = FreeCluster(fault)
  OBVIOUS
<1>4. dir \in InUse \cup {0}
  BY <1>1, <1>2, ArgumentLemma, PathLemma, FindLemma
<1>5. CASE dir = 0 \/ new = 0
  <2>1. Return("fail") /\ UNCHANGED disk
    BY <1>2, <1>3, <1>5 DEF Alloc
  <2> QED
    BY <1>1, <2>1, SameDiskLemma, ReturnLemma DEF IInv
<1>6. CASE dir # 0 /\ new # 0
  <2>1. /\ fat' = [fat EXCEPT ![new] = EOC] /\ sec' = sec
        /\ cluster' = new /\ current' = dir /\ extra' = extra /\ i' = i /\ j' = j
        /\ Go("zero")
    BY <1>2, <1>3, <1>6 DEF Alloc
  <2>2. dir \in InUse /\ dir \in Clusters
    BY <1>4, <1>6 DEF InUse
  <2>3. new \in Clusters /\ fat[new] = 0 /\ \A d \in Clusters : fat[d] = 0 => new <= d
    BY <1>3, <1>6, FreeLemma
  <2>4. /\ DiskInv' /\ InUse \subseteq InUse' /\ new \notin InUse
        /\ Fresh(new)' /\ Bare(new)' /\ \A d \in Clusters : d > new => fat'[d] = 0
    BY <1>1, <2>1, <2>3, MarkLemma
  <2>5. Registers'
    BY <1>1, <2>1, <2>2, <2>3, GoLemma DEF Registers, Labels
  <2>6. CallPart'
    BY <1>1, <2>1, CallLemma DEF Writing
  <2>7. LocalPart'
    <3>1. pc' = "zero" /\ cluster' # current' /\ current' \in InUse'
      BY <2>1, <2>2, <2>4 DEF Go
    <3>2. Fresh(cluster)' /\ Bare(cluster)'
      BY <2>1, <2>4 DEF Fresh, Bare
    <3> QED
      BY <2>1, <2>4, <3>1, <3>2 DEF LocalPart, Creation, Writing
  <2> QED
    BY <2>4, <2>5, <2>6, <2>7 DEF IInv
<1> QED
  BY <1>5, <1>6

LEMMA ZeroClusterStep ==
  ASSUME IInv, NEW fault \in Faults, Charge(fault), ZeroCluster(fault) PROVE IInv'
<1>1. /\ DiskInv /\ Registers /\ LocalPart /\ CallPart /\ pc = "zero"
      /\ cluster \in Clusters /\ j \in Sectors
  BY DEF IInv, ZeroCluster, LocalPart, Creation, Fresh, InUse, Registers
<1>2. /\ fat' = fat /\ cluster' = cluster /\ current' = current /\ extra' = extra /\ i' = i
      /\ j' = IF fault # None \/ j = SPC - 1 THEN 0 ELSE j + 1
  BY DEF ZeroCluster
<1>3. PICK l \in {"zero", "undo", "slot"} : Go(l)
  BY DEF ZeroCluster
<1>4. /\ DiskInv' /\ InUse' = InUse
      /\ \A d \in Clusters : (Fresh(d) => Fresh(d)') /\ (Bare(d) => Bare(d)')
  <2>1. PICK c \in Clusters, q \in Sectors : c = cluster /\ q = j
    BY <1>1
  <2>2. SetSector(c, q, Blank, fault)
    BY <2>1 DEF ZeroCluster
  <2> QED
    BY <1>1, <1>2, <2>2, BlankLemma
<1>5. Registers'
  <2>1. j' \in Sectors
    BY <1>1, <1>2, ConstantsLemma DEF Sectors
  <2> QED
    BY <1>1, <1>2, <1>3, <2>1, GoLemma DEF Registers, Labels
<1>6. CallPart'
  <2>1. call.op \in {"create", "write"}
    BY <1>1 DEF CallPart, Creation
  <2> QED
    BY <1>1, <1>3, <2>1, CallLemma DEF Writing
<1>7. LocalPart'
  <2>1. /\ current \in InUse /\ Fresh(cluster) /\ current # cluster /\ Bare(cluster)
        /\ \A d \in Clusters : d > cluster => fat[d] = 0
    BY <1>1 DEF LocalPart, Creation
  <2>2. PICK c \in Clusters : c = cluster
    BY <1>1
  <2>3. Fresh(c)' /\ Bare(c)'
    BY <1>4, <2>1, <2>2
  <2>4. Fresh(cluster)' /\ Bare(cluster)'
    BY <1>2, <2>2, <2>3 DEF Fresh, Bare
  <2> QED
    BY <1>2, <1>3, <1>4, <2>1, <2>4 DEF LocalPart, Creation, Writing, Go
<1> QED
  BY <1>4, <1>5, <1>6, <1>7 DEF IInv

LEMMA UndoStep ==
  ASSUME IInv, NEW fault \in Faults, Charge(fault), Undo(fault) PROVE IInv'
<1>1. DiskInv /\ Registers /\ LocalPart /\ CallPart /\ pc = "undo"
  BY DEF IInv, Undo
<1>2. /\ Fresh(cluster) /\ Bare(cluster)
      /\ \A d \in Clusters : d > cluster => fat[d] = 0
  BY <1>1 DEF LocalPart, Creation
<1>3. /\ fat' = IF fault = None THEN [fat EXCEPT ![cluster] = 0] ELSE fat
      /\ sec' = sec /\ Return("fail")
  BY DEF Undo, SetFat
<1>4. DiskInv'
  <2>1. CASE fault = None
    <3>1. PICK c : c = cluster
      OBVIOUS
    <3>2. Fresh(c) /\ Bare(c) /\ \A d \in Clusters : d > c => fat[d] = 0
      BY <1>2, <3>1
    <3>3. fat' = [fat EXCEPT ![c] = 0]
      BY <1>3, <2>1, <3>1
    <3> QED
      BY <1>1, <1>3, <3>2, <3>3, GiveBackLemma
  <2>2. CASE fault # None
    BY <1>1, <1>3, <2>2, SameDiskLemma DEF disk
  <2> QED
    BY <2>1, <2>2
<1> QED
  BY <1>1, <1>3, <1>4, ReturnLemma DEF IInv

LEMMA FillSlotStep ==
  ASSUME IInv, NEW fault \in Faults, Charge(fault), FillSlot(fault) PROVE IInv'
<1>1. /\ DiskInv /\ Registers /\ LocalPart /\ CallPart /\ pc = "slot"
      /\ current \in InUse /\ Fresh(cluster) /\ cluster \in Clusters
      /\ call \in Calls /\ call.op \in {"create", "write"}
  BY DEF IInv, FillSlot, LocalPart, CallPart, Creation, Fresh, InUse
<1>2. PICK c \in InUse : c = current
  BY <1>1
<1>3. PICK s \in Slots : s = Least(Reusable(c))
  <2>1. Reusable(c) \subseteq Nat /\ Reusable(c) # {}
    BY <1>2, ConstantsLemma DEF Reusable, FillSlot
  <2>2. Least(Reusable(c)) \in Reusable(c)
    BY <2>1, LeastLemma
  <2> QED
    BY <2>2 DEF Reusable
<1>4. PICK e \in Entries : /\ e = Entry(Stored[Base(call.path)], call.attributes, cluster)
                           /\ e.first = cluster
  BY <1>1, ArgumentLemma
<1>5. /\ fat' = fat
      /\ sec' = IF fault # None THEN sec ELSE [sec EXCEPT ![c][0][s] = e]
      /\ IF fault = None THEN Created ELSE Return("fail")
  BY <1>2, <1>3, <1>4 DEF FillSlot
<1>6. DiskInv'
  <2>1. CASE fault = None
    <3>1. Fresh(e.first)
      BY <1>1, <1>4
    <3> QED
      BY <1>1, <1>5, <2>1, <3>1, FillLemma
  <2>2. CASE fault # None
    BY <1>1, <1>5, <2>2, SameDiskLemma DEF disk
  <2> QED
    BY <2>1, <2>2
<1>7. CASE fault = None /\ call.op = "write"
  <2>1. Go("refind") /\ UNCHANGED local
    BY <1>5, <1>7 DEF Created
  <2>2. Registers'
    BY <1>1, <2>1, GoLemma DEF Registers, Labels, local
  <2>3. CallPart'
    BY <1>1, <1>7, <2>1, CallLemma
  <2>4. LocalPart'
    BY <2>1 DEF LocalPart, Go, Creation, Writing
  <2> QED
    BY <1>6, <2>2, <2>3, <2>4 DEF IInv
<1>8. CASE ~(fault = None /\ call.op = "write")
  <2>1. PICK v \in {"ok", "fail"} : Return(v)
    BY <1>5, <1>8 DEF Created
  <2> QED
    BY <1>1, <1>6, <2>1, ReturnLemma DEF IInv
<1> QED
  BY <1>7, <1>8

LEMMA NextDirClusterStep ==
  ASSUME IInv, NEW fault \in Faults, Charge(fault), NextDirCluster(fault) PROVE IInv'
<1>1. /\ DiskInv /\ Registers /\ LocalPart /\ CallPart /\ pc = "slot"
      /\ current \in InUse /\ Fresh(cluster) /\ cluster \in Clusters
      /\ call.op \in {"create", "write"}
  BY DEF IInv, NextDirCluster, LocalPart, CallPart, Creation, Fresh, InUse
<1>2. PICK c \in InUse : c = current
  BY <1>1
<1>3. current' = fat[c] /\ fat[c] \in InUse /\ fat[c] \in Clusters
  BY <1>1, <1>2, NextLemma DEF NextDirCluster, InUse
<1>4. UNCHANGED disk /\ cluster' = cluster /\ extra' = extra /\ i' = i /\ j' = j /\ Go("slot")
  BY DEF NextDirCluster
<1>5. DiskInv' /\ InUse' = InUse /\ \A d \in Clusters : Fresh(d) => Fresh(d)'
  BY <1>1, <1>4, SameDiskLemma
<1>6. Registers'
  BY <1>1, <1>3, <1>4, GoLemma DEF Registers, Labels
<1>7. CallPart'
  BY <1>1, <1>4, CallLemma DEF Writing
<1>8. LocalPart'
  <2>1. fat[c] # cluster
    BY <1>1, <1>2 DEF Fresh, InUse
  <2>2. PICK d \in Clusters : d = cluster
    BY <1>1
  <2>3. Fresh(cluster)'
    BY <1>1, <1>4, <1>5, <2>2 DEF Fresh
  <2> QED
    BY <1>3, <1>4, <1>5, <2>1, <2>3 DEF LocalPart, Creation, Writing, Go
<1> QED
  BY <1>5, <1>6, <1>7, <1>8 DEF IInv

LEMMA ExtendDirStep ==
  ASSUME IInv, NEW fault \in Faults, Charge(fault), ExtendDir(fault) PROVE IInv'
<1>1. /\ DiskInv /\ Registers /\ LocalPart /\ CallPart /\ pc = "slot"
      /\ current \in InUse /\ Fresh(cluster) /\ cluster \in InUse /\ cluster \in Clusters
      /\ current # cluster /\ call.op \in {"create", "write"}
  BY DEF IInv, ExtendDir, LocalPart, CallPart, Creation, Fresh, InUse
<1>2. PICK new : new = FreeCluster(fault)
  OBVIOUS
<1>3. CASE new = 0 \/ fault = <<"dir", current>>
  <2>1. Return("fail") /\ UNCHANGED disk
    BY <1>2, <1>3 DEF ExtendDir
  <2> QED
    BY <1>1, <2>1, SameDiskLemma, ReturnLemma DEF IInv
<1>4. CASE ~(new = 0 \/ fault = <<"dir", current>>)
  <2>1. /\ fat' = [fat EXCEPT ![new] = EOC] /\ sec' = sec /\ extra' = new
        /\ cluster' = cluster /\ current' = current /\ i' = i /\ j' = j /\ Go("link")
    BY <1>2, <1>4 DEF ExtendDir
  <2>2. new \in Clusters /\ fat[new] = 0 /\ \A d \in Clusters : fat[d] = 0 => new <= d
    BY <1>2, <1>4, FreeLemma
  <2>3. /\ DiskInv' /\ InUse \subseteq InUse' /\ new \in InUse' /\ new \notin InUse
        /\ \A c \in InUse : c < new
        /\ \A c \in Clusters : Fresh(c) => Fresh(c)'
        /\ Fresh(new)'
    BY <1>1, <2>1, <2>2, MarkLemma
  <2>4. Registers'
    BY <1>1, <2>1, <2>2, GoLemma DEF Registers, Labels
  <2>5. CallPart'
    BY <1>1, <2>1, CallLemma DEF Writing
  <2>6. LocalPart'
    <3>1. PICK c \in Clusters : c = cluster
      BY <1>1
    <3>2. Fresh(c)'
      BY <1>1, <2>3, <3>1
    <3>3. Fresh(cluster)' /\ Fresh(extra)'
      BY <2>1, <2>3, <3>1, <3>2 DEF Fresh
    <3> QED
      BY <1>1, <2>1, <2>3, <3>3 DEF LocalPart, Creation, Writing, Go
  <2> QED
    BY <2>3, <2>4, <2>5, <2>6 DEF IInv
<1> QED
  BY <1>3, <1>4

LEMMA LinkDirStep ==
  ASSUME IInv, NEW fault \in Faults, Charge(fault), LinkDir(fault) PROVE IInv'
<1>1. /\ DiskInv /\ Registers /\ LocalPart /\ CallPart /\ pc = "link"
      /\ current \in InUse /\ Fresh(cluster) /\ cluster \in Clusters /\ current # cluster
      /\ Fresh(extra) /\ current < extra /\ extra \in InUse /\ extra # cluster
      /\ call.op \in {"create", "write"}
  BY DEF IInv, LinkDir, LocalPart, CallPart, Creation, Fresh, InUse
<1>2. SetFat(current, extra, fault) /\ sec' = sec /\ UNCHANGED local /\ Go("clear")
  BY DEF LinkDir
<1>3. DiskInv' /\ InUse' = InUse /\ \A c \in Clusters : c # extra /\ Fresh(c) => Fresh(c)'
  <2>1. PICK a \in InUse, b \in InUse : a = current /\ b = extra
    BY <1>1
  <2>2. Fresh(b) /\ a < b /\ SetFat(a, b, fault)
    BY <1>1, <1>2, <2>1
  <2>3. DiskInv' /\ InUse' = InUse /\ \A c \in Clusters : c # b /\ Fresh(c) => Fresh(c)'
    BY <1>1, <1>2, <2>2, TryLinkLemma
  <2> QED
    BY <2>1, <2>3
<1>4. Registers'
  BY <1>1, <1>2, GoLemma DEF Registers, Labels, local
<1>5. CallPart'
  BY <1>1, <1>2, CallLemma DEF Writing
<1>6. LocalPart'
  <2>1. PICK c \in Clusters : c = cluster
    BY <1>1
  <2>2. Fresh(c)'
    BY <1>1, <1>3, <2>1
  <2>3. Fresh(cluster)'
    BY <1>2, <2>1, <2>2 DEF Fresh, local
  <2> QED
    BY <1>1, <1>2, <1>3, <2>3 DEF LocalPart, Creation, Writing, Go, local
<1> QED
  BY <1>3, <1>4, <1>5, <1>6 DEF IInv

LEMMA ClearDirStep ==
  ASSUME IInv, NEW fault \in Faults, Charge(fault), ClearDir(fault) PROVE IInv'
<1>1. /\ DiskInv /\ Registers /\ LocalPart /\ CallPart /\ pc = "clear"
      /\ Fresh(cluster) /\ cluster \in Clusters
      /\ extra \in InUse /\ extra \in Clusters /\ extra # cluster
      /\ call.op \in {"create", "write"}
  BY DEF IInv, ClearDir, LocalPart, CallPart, Creation, Fresh, InUse
<1>2. fat' = fat /\ SetSector(extra, 0, Blank, fault)
  BY DEF ClearDir
<1>3. DiskInv' /\ InUse' = InUse /\ \A d \in Clusters : Fresh(d) => Fresh(d)'
  <2>1. PICK c \in Clusters : c = extra
    BY <1>1
  <2>2. SetSector(c, 0, Blank, fault)
    BY <1>2, <2>1
  <2> QED
    BY <1>1, <1>2, <2>2, BlankLemma, ConstantsLemma
<1>4. CASE fault # None
  <2>1. Return("fail")
    BY <1>4 DEF ClearDir
  <2> QED
    BY <1>1, <1>3, <2>1, ReturnLemma DEF IInv
<1>5. CASE fault = None
  <2>1. current' = extra /\ extra' = 0 /\ cluster' = cluster /\ i' = i /\ j' = j /\ Go("slot")
    BY <1>5 DEF ClearDir
  <2>2. Registers'
    BY <1>1, <2>1, GoLemma DEF Registers, Labels
  <2>3. CallPart'
    BY <1>1, <2>1, CallLemma DEF Writing
  <2>4. LocalPart'
    <3>1. PICK c \in Clusters : c = cluster
      BY <1>1
    <3>2. Fresh(c)'
      BY <1>1, <1>3, <3>1
    <3>3. Fresh(cluster)'
      BY <2>1, <3>1, <3>2 DEF Fresh
    <3> QED
      BY <1>1, <1>3, <2>1, <3>3 DEF LocalPart, Creation, Writing, Go
  <2> QED
    BY <1>3, <2>2, <2>3, <2>4 DEF IInv
<1> QED
  BY <1>4, <1>5

LEMMA FindStep ==
  ASSUME IInv, NEW fault \in Faults, Charge(fault), Find(fault) PROVE IInv'
<1>1. /\ DiskInv /\ Registers /\ LocalPart /\ CallPart /\ pc \in {"find", "refind"}
      /\ call \in Calls /\ call.op = "write"
  BY DEF IInv, Find, CallPart
<1>2. PICK start : start = find_directory_entry(call.path, fault)
  OBVIOUS
<1>3. start # 0 /\ current' = start /\ cluster' = 0 /\ UNCHANGED disk
      /\ extra' = extra /\ i' = i /\ j' = j /\ Go("data")
  BY <1>2 DEF Find
<1>4. start \in InUse /\ start \in Clusters
  BY <1>1, <1>2, <1>3, ArgumentLemma, FindLemma DEF InUse
<1>5. DiskInv' /\ InUse' = InUse
  BY <1>1, <1>3, SameDiskLemma
<1>6. Registers'
  BY <1>1, <1>3, <1>4, GoLemma DEF Registers, Labels
<1>7. CallPart'
  BY <1>1, <1>3, CallLemma DEF Creation
<1>8. LocalPart'
  BY <1>3, <1>4, <1>5 DEF LocalPart, Creation, Writing, Go
<1> QED
  BY <1>5, <1>6, <1>7, <1>8 DEF IInv

LEMMA NotFoundStep ==
  ASSUME IInv, NEW fault \in Faults, Charge(fault), NotFound(fault) PROVE IInv'
<1>1. /\ DiskInv /\ Registers /\ LocalPart /\ CallPart /\ pc \in {"find", "refind"}
      /\ call.op = "write" /\ DiskInv'
  BY SameDiskLemma DEF IInv, NotFound, CallPart
<1>2. CASE pc = "find"
  <2>1. Go("alloc") /\ UNCHANGED local
    BY <1>2 DEF NotFound
  <2>2. Registers'
    BY <1>1, <2>1, GoLemma DEF Registers, Labels, local
  <2>3. CallPart'
    BY <1>1, <2>1, CallLemma DEF Writing
  <2>4. LocalPart'
    BY <2>1 DEF LocalPart, Creation, Writing, Go
  <2> QED
    BY <1>1, <2>2, <2>3, <2>4 DEF IInv
<1>3. CASE pc # "find"
  <2>1. Return("fail")
    BY <1>3 DEF NotFound
  <2> QED
    BY <1>1, <2>1, ReturnLemma DEF IInv
<1> QED
  BY <1>2, <1>3

LEMMA WriteDataStep ==
  ASSUME IInv, NEW fault \in Faults, Charge(fault), WriteData(fault) PROVE IInv'
<1>1. /\ DiskInv /\ Registers /\ LocalPart /\ CallPart /\ pc = "data"
      /\ current \in InUse /\ current \in Clusters /\ j \in Sectors /\ i \in Nat
      /\ call \in Calls /\ call.op = "write" /\ call.data \in Datas
  BY ArgumentLemma DEF IInv, WriteData, LocalPart, CallPart, Writing, InUse, Registers
<1>2. fat' = fat /\ SetSector(current, j, DataSector(call.data, i, j), fault)
  BY DEF WriteData
<1>3. DiskInv' /\ InUse' = InUse
  <2>1. PICK c \in Clusters, q \in Sectors, d \in Datas, m \in Nat :
          c = current /\ q = j /\ d = call.data /\ m = i
    BY <1>1
  <2>2. SetSector(c, q, DataSector(d, m, q), fault)
    BY <1>2, <2>1
  <2> QED
    BY <1>1, <1>2, <2>2, TextLemma
<1>4. CASE \E v \in {"ok", "fail"} : Return(v)
  <2>1. PICK v \in {"ok", "fail"} : Return(v)
    BY <1>4
  <2> QED
    BY <1>1, <1>3, <2>1, ReturnLemma DEF IInv
<1>5. CASE \E l \in {"data", "grow"} : /\ Go(l) /\ j' \in Sectors
                                       /\ UNCHANGED <<cluster, current, extra, i>>
  <2>1. PICK l \in {"data", "grow"} : /\ Go(l) /\ j' \in Sectors
                                      /\ UNCHANGED <<cluster, current, extra, i>>
    BY <1>5
  <2>2. Registers'
    BY <1>1, <2>1, GoLemma DEF Registers, Labels
  <2>3. CallPart'
    BY <1>1, <2>1, CallLemma DEF Creation
  <2>4. LocalPart'
    BY <1>1, <1>3, <2>1 DEF LocalPart, Creation, Writing, Go
  <2> QED
    BY <1>3, <2>2, <2>3, <2>4 DEF IInv
<1>6. \/ \E v \in {"ok", "fail"} : Return(v)
      \/ \E l \in {"data", "grow"} : /\ Go(l) /\ j' \in Sectors
                                     /\ UNCHANGED <<cluster, current, extra, i>>
  <2>1. CASE fault # None
    BY <2>1 DEF WriteData
  <2>2. CASE fault = None /\ j < SPC - 1
    <3>1. j + 1 \in Sectors
      BY <1>1, <2>2, ConstantsLemma DEF Sectors
    <3>2. ~(j = SPC - 1)
      BY <1>1, <2>2, ConstantsLemma
    <3>3. j' = j + 1 /\ Go("data") /\ UNCHANGED <<cluster, current, extra, i>>
      BY <2>2, <3>2 DEF WriteData
    <3> QED
      BY <3>1, <3>3
  <2>3. CASE fault = None /\ j = SPC - 1 /\ i < TotalClusters(call.data) - 1
    <3>1. ~(j < SPC - 1)
      BY <1>1, <2>3, ConstantsLemma
    <3>2. j' = 0 /\ Go("grow") /\ UNCHANGED <<cluster, current, extra, i>>
      BY <2>3, <3>1 DEF WriteData
    <3> QED
      BY <3>2, ConstantsLemma
  <2>4. CASE /\ ~(fault # None) /\ ~(fault = None /\ j < SPC - 1)
             /\ ~(fault = None /\ j = SPC - 1 /\ i < TotalClusters(call.data) - 1)
    BY <2>4 DEF WriteData
  <2> QED
    BY <2>1, <2>2, <2>3, <2>4
<1> QED
  BY <1>4, <1>5, <1>6

LEMMA GrowStep ==
  ASSUME IInv, NEW fault \in Faults, Charge(fault), Grow(fault) PROVE IInv'
<1>1. /\ DiskInv /\ Registers /\ LocalPart /\ CallPart /\ pc = "grow"
      /\ current \in InUse /\ call.op = "write"
  BY DEF IInv, Grow, LocalPart, CallPart, Writing
<1>2. PICK new : new = FreeCluster(fault)
  OBVIOUS
<1>3. CASE new = 0
  <2>1. Return("fail") /\ UNCHANGED disk
    BY <1>2, <1>3 DEF Grow
  <2> QED
    BY <1>1, <2>1, SameDiskLemma, ReturnLemma DEF IInv
<1>4. CASE new # 0
  <2>1. /\ fat' = [fat EXCEPT ![new] = EOC] /\ sec' = sec /\ extra' = new
        /\ cluster' = cluster /\ current' = current /\ i' = i /\ j' = j /\ Go("tie")
    BY <1>2, <1>4 DEF Grow
  <2>2. new \in Clusters /\ fat[new] = 0 /\ \A d \in Clusters : fat[d] = 0 => new <= d
    BY <1>2, <1>4, FreeLemma
  <2>3. /\ DiskInv' /\ InUse \subseteq InUse' /\ \A c \in InUse : c < new
        /\ Fresh(new)'
    BY <1>1, <2>1, <2>2, MarkLemma
  <2>4. Registers'
    BY <1>1, <2>1, <2>2, GoLemma DEF Registers, Labels
  <2>5. CallPart'
    BY <1>1, <2>1, CallLemma DEF Creation
  <2>6. LocalPart'
    <3>1. Fresh(extra)'
      BY <2>1, <2>3 DEF Fresh
    <3> QED
      BY <1>1, <2>1, <2>3, <3>1 DEF LocalPart, Creation, Writing, Go
  <2> QED
    BY <2>3, <2>4, <2>5, <2>6 DEF IInv
<1> QED
  BY <1>3, <1>4

LEMMA TieStep ==
  ASSUME IInv, NEW fault \in Faults, Charge(fault), Tie(fault) PROVE IInv'
<1>1. /\ DiskInv /\ Registers /\ LocalPart /\ CallPart /\ pc = "tie"
      /\ current \in InUse /\ Fresh(extra) /\ current < extra /\ extra \in InUse
      /\ call.op = "write"
  BY DEF IInv, Tie, LocalPart, CallPart, Writing, Fresh
<1>2. /\ SetFat(current, extra, fault)
      /\ sec' = sec /\ current' = extra /\ extra' = 0 /\ i' = i + 1
      /\ cluster' = cluster /\ j' = j /\ Go("data")
  BY DEF Tie
<1>3. DiskInv' /\ InUse' = InUse
  <2>1. PICK a \in InUse, b \in InUse : a = current /\ b = extra
    BY <1>1
  <2>2. Fresh(b) /\ a < b /\ SetFat(a, b, fault)
    BY <1>1, <1>2, <2>1
  <2> QED
    BY <1>1, <1>2, <2>2, TryLinkLemma
<1>4. Registers'
  BY <1>1, <1>2, GoLemma DEF Registers, Labels
<1>5. CallPart'
  BY <1>1, <1>2, CallLemma DEF Creation
<1>6. LocalPart'
  BY <1>1, <1>2, <1>3 DEF LocalPart, Creation, Writing, Go
<1> QED
  BY <1>3, <1>4, <1>5, <1>6 DEF IInv

LEMMA DeleteStep ==
  ASSUME IInv, NEW fault \in Faults, Charge(fault), delete_file(fault) PROVE IInv'
<1>1. /\ DiskInv /\ Registers /\ LocalPart /\ CallPart /\ pc = "unlink" /\ call \in Calls
  BY DEF IInv, delete_file, CallPart
<1>2. PICK start : start = find_directory_entry(call.path, fault)
  OBVIOUS
<1>3. start \in InUse \cup {0}
  BY <1>1, <1>2, ArgumentLemma, FindLemma
<1>4. PICK v \in {"ok", "fail"} : Return(v)
  BY DEF delete_file
<1>5. DiskInv'
  <2>1. CASE start = 0 \/ fault # None
    BY <1>1, <1>2, <2>1, SameDiskLemma DEF delete_file
  <2>2. CASE start = ROOT /\ fault = None
    BY <1>1, <1>2, <2>2, SameDiskLemma, ConstantsLemma DEF delete_file, disk
  <2>3. CASE start # 0 /\ start # ROOT /\ fault = None
    <3>1. fat' = fat /\ sec' = [sec EXCEPT ![start - 1][SPC - 1][SLOTS] = Deleted]
      BY <1>2, <2>3 DEF delete_file
    <3>2. start \in Clusters
      BY <1>3, <2>3 DEF InUse
    <3>3. PICK c \in Clusters, q \in Sectors, s \in Slots :
            c = start - 1 /\ q = SPC - 1 /\ s = SLOTS
      BY <2>3, <3>2, ConstantsLemma DEF Clusters, Sectors, Slots
    <3>4. sec' = [sec EXCEPT ![c][q][s] = Deleted]
      BY <3>1, <3>3
    <3>5. sec \in [Clusters -> [Sectors -> [Slots -> Content]]] /\ Deleted \in Content
      BY <1>1 DEF DiskInv, Shape, Sector, Content
    <3>6. Shape'
      <4>1. sec' \in [Clusters -> [Sectors -> [Slots -> Content]]]
        BY <3>4, <3>5
      <4> QED
        BY <4>1 DEF Shape, Sector
    <3>7. ASSUME NEW d \in Clusters, NEW t \in Slots, sec'[d][0][t].kind = "entry"
          PROVE  sec'[d][0][t] = sec[d][0][t]
      <4>1. CASE d = c /\ q = 0 /\ t = s
        <5>1. sec'[d][0][t] = Deleted
          BY <3>4, <3>5, <4>1
        <5> QED
          BY <3>7, <5>1 DEF Deleted
      <4>2. CASE ~(d = c /\ q = 0 /\ t = s)
        BY <3>4, <3>5, <4>2, ConstantsLemma
      <4> QED
        BY <4>1, <4>2
    <3> QED
      BY <1>1, <3>1, <3>6, <3>7, OverwriteLemma
  <2> QED
    BY <2>1, <2>2, <2>3
<1> QED
  BY <1>1, <1>4, <1>5, ReturnLemma DEF IInv

LEMMA CallStep == ASSUME IInv, NEW c \in Calls, Call(c) PROVE IInv'
<1>1. DiskInv /\ Registers
  BY DEF IInv
<1>2. /\ UNCHANGED <<disk, local, power, faults>>
      /\ call' = c /\ clean' = TRUE /\ ret' = "waiting"
      /\ c.op \in {"create", "write", "delete"}
  BY ArgumentLemma DEF Call
<1>3. /\ c.op = "create" => pc' = "alloc"
      /\ c.op = "write"  => pc' = "find"
      /\ c.op = "delete" => pc' = "unlink"
  BY DEF Call
<1>4. DiskInv'
  BY <1>1, <1>2, SameDiskLemma
<1>5. Registers'
  BY <1>1, <1>2, <1>3 DEF Registers, Labels, local, power
<1>6. LocalPart' /\ CallPart'
  BY <1>2, <1>3 DEF LocalPart, CallPart, Creation, Writing
<1> QED
  BY <1>4, <1>5, <1>6 DEF IInv

LEMMA ElsewhereStep == ASSUME IInv, Elsewhere PROVE IInv'
<1>1. DiskInv /\ Registers /\ DiskInv' /\ pc' = "idle"
  BY SameDiskLemma DEF IInv, Elsewhere
<1>2. Registers'
  BY <1>1 DEF Registers, Elsewhere, local, power
<1>3. LocalPart' /\ CallPart'
  BY <1>1 DEF LocalPart, CallPart, Creation, Writing
<1> QED
  BY <1>1, <1>2, <1>3 DEF IInv

LEMMA CrashStep == ASSUME IInv, Crash PROVE IInv'
<1>1. DiskInv /\ Registers /\ DiskInv' /\ pc' = "idle"
  BY SameDiskLemma DEF IInv, Crash
<1>2. Registers'
  <2>1. crashes' \in 0..MAX_CRASHES
    <3>1. MAX_CRASHES \in Nat /\ crashes \in 0..MAX_CRASHES /\ crashes > 0 /\ crashes' = crashes - 1
      BY <1>1, Fat32Assumption DEF Registers, Crash
    <3> QED
      BY <3>1
  <2> QED
    BY <1>1, <2>1, ConstantsLemma DEF Registers, Crash, Labels
<1>3. LocalPart' /\ CallPart'
  BY <1>1 DEF LocalPart, CallPart, Creation, Writing
<1> QED
  BY <1>1, <1>2, <1>3 DEF IInv

LEMMA Initially == ASSUME Init PROVE IInv
<1>1. Shape
  <2>1. Zero \in Content /\ Old \in Content
    BY DEF Content
  <2> QED
    BY <2>1 DEF Init, Shape, Sector
<1>2. fat \in [Clusters -> {0, EOC} \cup Clusters]
  BY DEF Init
<1>3. \A c \in Clusters : /\ c = ROOT => fat[c] = EOC
                          /\ c # ROOT => fat[c] = 0
                          /\ fat[c] \notin Clusters
                          /\ \A s \in Slots : sec[c][0][s] \in {Zero, Old}
  BY ConstantsLemma DEF Init
<1>4. ChainsApart /\ RootInUse
  BY <1>3, ConstantsLemma DEF ChainsApart, RootInUse
<1>5. \A c \in Clusters : Bare(c)
  BY <1>3 DEF Bare, Zero, Old
<1>6. Places = {}
  BY <1>5 DEF Places, Bare
<1>7. OneOwner /\ FreeBare
  BY <1>5, <1>6 DEF OneOwner, FreeBare
<1>8. FrontInUse
  BY <1>3, ConstantsLemma DEF FrontInUse
<1>9. DiskInv
  BY <1>1, <1>2, <1>4, <1>7, <1>8 DEF DiskInv
<1>10. Registers
  <2>1. MAX_FAULTS \in Nat /\ MAX_CRASHES \in Nat
    BY Fat32Assumption
  <2> QED
    BY <2>1, ConstantsLemma DEF Init, Registers, Labels
<1>11. LocalPart /\ CallPart
  BY DEF Init, LocalPart, CallPart, Creation, Writing
<1> QED
  BY <1>9, <1>10, <1>11 DEF IInv

LEMMA Inductive == ASSUME IInv, [Next]_vars PROVE IInv'
<1>1. CASE UNCHANGED vars
  <2>1. DiskInv'
    BY <1>1, SameDiskLemma DEF IInv, vars
  <2>2. UNCHANGED InUse
    BY <1>1 DEF InUse, vars, disk
  <2>3. Registers' /\ CallPart'
    BY <1>1 DEF IInv, Registers, CallPart, vars, local, power
  <2>4. LocalPart'
    BY <1>1 DEF IInv, LocalPart, Fresh, Bare, Places, First, InUse, vars, disk, local
  <2> QED
    BY <2>1, <2>3, <2>4 DEF IInv
<1>2. ASSUME NEW fault \in Faults, Charge(fault), Step(fault) PROVE IInv'
  <2>1. CASE Alloc(fault)
    BY <1>2, <2>1, AllocStep
  <2>2. CASE ZeroCluster(fault)
    BY <1>2, <2>2, ZeroClusterStep
  <2>3. CASE Undo(fault)
    BY <1>2, <2>3, UndoStep
  <2>4. CASE FillSlot(fault)
    BY <1>2, <2>4, FillSlotStep
  <2>5. CASE NextDirCluster(fault)
    BY <1>2, <2>5, NextDirClusterStep
  <2>6. CASE ExtendDir(fault)
    BY <1>2, <2>6, ExtendDirStep
  <2>7. CASE LinkDir(fault)
    BY <1>2, <2>7, LinkDirStep
  <2>8. CASE ClearDir(fault)
    BY <1>2, <2>8, ClearDirStep
  <2>9. CASE Find(fault)
    BY <1>2, <2>9, FindStep
  <2>10. CASE NotFound(fault)
    BY <1>2, <2>10, NotFoundStep
  <2>11. CASE WriteData(fault)
    BY <1>2, <2>11, WriteDataStep
  <2>12. CASE Grow(fault)
    BY <1>2, <2>12, GrowStep
  <2>13. CASE Tie(fault)
    BY <1>2, <2>13, TieStep
  <2>14. CASE delete_file(fault)
    BY <1>2, <2>14, DeleteStep
  <2> QED
    BY <1>2, <2>1, <2>2, <2>3, <2>4, <2>5, <2>6, <2>7, <2>8, <2>9, <2>10, <2>11, <2>12,
       <2>13, <2>14 DEF Step
<1>3. CASE \E fault \in Faults : init(fault)
  BY <1>3, InitStep
<1>4. CASE Elsewhere
  BY <1>4, ElsewhereStep
<1>5. CASE \E c \in Calls : Call(c)
  BY <1>5, CallStep
<1>6. CASE Proceed
  BY <1>2, <1>6 DEF Proceed
<1>7. CASE Crash
  BY <1>7, CrashStep
<1> QED
  BY <1>1, <1>3, <1>4, <1>5, <1>6, <1>7 DEF Next

LEMMA Invariance == Spec => []IInv
<1>1. Init => IInv
  BY Initially
<1>2. IInv /\ [Next]_vars => IInv'
  BY Inductive
<1> QED
  BY <1>1, <1>2, PTL DEF Spec

----------------------------------------------------------------------------
\* Every FAT entry is free, an end mark or a cluster of the volume, and every slot
\* of every sector holds what some write of the driver put there, with its first
\* cluster in the data area (fat32.cpp:30-75, :300-590).
THEOREM TypeCorrect == Spec => []TypeOK
<1>1. IInv => TypeOK
  <2> SUFFICES ASSUME IInv PROVE TypeOK
    OBVIOUS
  <2>1. DiskInv /\ Registers /\ Shape
    BY DEF IInv, DiskInv
  <2>2. \A c \in Clusters, q \in Sectors, s \in Slots : SlotOK(sec[c][q][s])
    BY <2>1, SlotLemma
  <2> QED
    BY <2>1, <2>2 DEF TypeOK, DiskInv, Registers, Labels
<1> QED
  BY <1>1, Invariance, PTL

\* Whatever transfers fail and whenever the power goes, a link in the FAT leads
\* to a later cluster that is in use, and no two links lead to the same: every
\* chain ends, and no two files share a cluster behind their first
\* (fat32.cpp:102-113, :443, :579).
THEOREM ChainsStayApart == Spec => []ChainsApart
<1>1. IInv => ChainsApart
  BY DEF IInv, DiskInv
<1> QED
  BY <1>1, Invariance, PTL

\* ... and the first cluster of every entry of every cluster in use is in use,
\* is not the root, follows no other cluster and belongs to no second entry
\* (fat32.cpp:398-409, :421-432).
THEOREM EntriesOwnTheirClusters == Spec => []OneOwner
<1>1. IInv => OneOwner
  BY DEF IInv, DiskInv
<1> QED
  BY <1>1, Invariance, PTL

----------------------------------------------------------------------------
\* What can be reached from a cluster along the FAT.
Closed(U) == \A x \in U : fat[x] \in Clusters => fat[x] \in U
Reach(o) == {c \in Clusters : \A U \in SUBSET Clusters : o \in U /\ Closed(U) => c \in U}

\* The start of a chain: in use, and no link leads to it.
Origin(o) == o \in InUse /\ \A d \in Clusters : fat[d] # o

LEMMA ReachLemma ==
  ASSUME NEW o \in Clusters
  PROVE  /\ o \in Reach(o) /\ Reach(o) \subseteq Clusters /\ Closed(Reach(o))
         /\ \A U \in SUBSET Clusters : o \in U /\ Closed(U) => Reach(o) \subseteq U
<1>1. o \in Reach(o) /\ Reach(o) \subseteq Clusters
  BY DEF Reach
<1>2. ASSUME NEW x \in Reach(o), fat[x] \in Clusters PROVE fat[x] \in Reach(o)
  <2> SUFFICES ASSUME NEW U \in SUBSET Clusters, o \in U, Closed(U) PROVE fat[x] \in U
    BY <1>2 DEF Reach
  <2>1. x \in U
    BY DEF Reach
  <2> QED
    BY <1>2, <2>1 DEF Closed
<1>3. \A U \in SUBSET Clusters : o \in U /\ Closed(U) => Reach(o) \subseteq U
  BY DEF Reach
<1> QED
  BY <1>1, <1>2, <1>3 DEF Closed

\* Every cluster of a chain but the first has one before it in the chain.
LEMMA PredecessorLemma ==
  ASSUME NEW o \in Clusters, NEW c \in Reach(o), c # o
  PROVE  \E x \in Reach(o) : fat[x] = c
<1> SUFFICES ASSUME \A x \in Reach(o) : fat[x] # c PROVE FALSE
  OBVIOUS
<1> DEFINE U == Reach(o) \ {c}
<1>1. U \in SUBSET Clusters /\ o \in U
  BY ReachLemma
<1>2. Closed(U)
  BY ReachLemma DEF Closed
<1> HIDE DEF U
<1>3. Reach(o) \subseteq U
  BY <1>1, <1>2, ReachLemma
<1> QED
  BY <1>3 DEF U

\* What is not on the chain of an origin does not lead to it either.
LEMMA OutsideLemma ==
  ASSUME DiskInv, NEW o, Origin(o)
  PROVE  Closed(Clusters \ Reach(o))
<1>1. o \in Clusters /\ \A d \in Clusters : fat[d] # o
  BY DEF Origin, InUse
<1> SUFFICES ASSUME NEW x \in Clusters, x \notin Reach(o), fat[x] \in Clusters, fat[x] \in Reach(o)
             PROVE  FALSE
  BY DEF Closed
<1>2. PICK y \in Reach(o) : fat[y] = fat[x]
  <2>1. PICK c : c = fat[x]
    OBVIOUS
  <2>2. c \in Reach(o) /\ c # o
    BY <1>1, <2>1
  <2> QED
    BY <1>1, <2>1, <2>2, PredecessorLemma
<1>3. y \in Clusters
  BY <1>1, ReachLemma
<1>4. x = y
  BY <1>2, <1>3 DEF DiskInv, ChainsApart
<1> QED
  BY <1>4

\* The chains of two origins do not meet.
LEMMA MeetLemma ==
  ASSUME DiskInv, NEW a, NEW b, Origin(a), Origin(b), NEW c \in Reach(a), c \in Reach(b)
  PROVE  a = b
<1>1. a \in Clusters /\ b \in Clusters
  BY DEF Origin, InUse
<1>2. CASE b \in Reach(a)
  BY <1>1, <1>2, PredecessorLemma, ReachLemma DEF Origin
<1>3. CASE b \notin Reach(a)
  <2> DEFINE U == Clusters \ Reach(a)
  <2>1. U \in SUBSET Clusters /\ b \in U /\ Closed(U)
    BY <1>1, <1>3, OutsideLemma
  <2> HIDE DEF U
  <2>2. Reach(b) \subseteq U
    BY <1>1, <2>1, ReachLemma
  <2> QED
    BY <2>2 DEF U
<1> QED
  BY <1>2, <1>3

\* The root and the first clusters of entries are origins; a chain stays in use
\* and only goes up.
LEMMA HeadsLemma ==
  ASSUME DiskInv
  PROVE  /\ Heads = {ROOT} \cup Owned
         /\ \A o \in Heads : Origin(o)
         /\ \A c \in Clusters : Fresh(c) => Origin(c) /\ c \notin Heads
         /\ \A o \in InUse : Reach(o) \subseteq InUse /\ \A c \in Reach(o) : o <= c
<1>1. Heads = {ROOT} \cup Owned
  BY DEF Heads, Owned
<1>2. Origin(ROOT)
  BY ConstantsLemma DEF DiskInv, RootInUse, ChainsApart, Origin, InUse
<1>3. ASSUME NEW p \in Places PROVE Origin(First(p))
  BY OwnedLemma DEF DiskInv, OneOwner, Origin, Owned
<1>4. \A o \in Heads : Origin(o)
  BY <1>2, <1>3 DEF Heads
<1>5. \A c \in Clusters : Fresh(c) => Origin(c) /\ c \notin Heads
  BY DEF Fresh, Origin, Heads
<1>6. ASSUME NEW o \in InUse PROVE Reach(o) \subseteq InUse /\ \A c \in Reach(o) : o <= c
  <2> DEFINE U == {c \in InUse : o <= c}
  <2>1. U \in SUBSET Clusters /\ o \in U
    BY ConstantsLemma DEF InUse
  <2>2. Closed(U)
    <3> SUFFICES ASSUME NEW x \in U, fat[x] \in Clusters PROVE fat[x] \in U
      BY DEF Closed
    <3>1. x \in Clusters /\ o <= x /\ fat[x] > x /\ fat[fat[x]] # 0
      BY DEF DiskInv, ChainsApart, InUse
    <3>2. o \in Nat /\ x \in Nat /\ fat[x] \in Nat
      BY <3>1, ConstantsLemma DEF InUse
    <3> QED
      BY <3>1, <3>2 DEF InUse
  <2> HIDE DEF U
  <2>3. Reach(o) \subseteq U
    BY <2>1, <2>2, ReachLemma DEF InUse
  <2> QED
    BY <2>3 DEF U
<1> QED
  BY <1>1, <1>4, <1>5, <1>6

\* What Chains computes, round by round.
Spread(v) == (UNION {{x, fat[x]} : x \in v}) \cap Clusters
IsRounds(c, starts) ==
  /\ c \in [0..Depth -> SUBSET Clusters] /\ c[0] = starts
  /\ \A k \in 1..Depth : c[k] = Spread(c[k - 1])
  /\ Chains(starts) = c[Depth]

LEMMA SpreadLemma ==
  ASSUME NEW v \in SUBSET Clusters
  PROVE  /\ v \subseteq Spread(v) /\ Spread(v) \subseteq Clusters
         /\ \A x \in v : fat[x] \in Clusters => fat[x] \in Spread(v)
         /\ \A y \in Spread(v) : y \in v \/ \E x \in v : y = fat[x]
<1>1. Spread(v) \subseteq Clusters
  BY DEF Spread
<1>2. ASSUME NEW x \in v
      PROVE  x \in Spread(v) /\ (fat[x] \in Clusters => fat[x] \in Spread(v))
  <2>1. x \in {x, fat[x]} /\ fat[x] \in {x, fat[x]} /\ x \in Clusters
    OBVIOUS
  <2>2. {x, fat[x]} \in {{z, fat[z]} : z \in v}
    OBVIOUS
  <2> QED
    BY <2>1, <2>2 DEF Spread
<1>3. ASSUME NEW y \in Spread(v) PROVE y \in v \/ \E x \in v : y = fat[x]
  <2>1. PICK w \in {{x, fat[x]} : x \in v} : y \in w
    BY DEF Spread
  <2>2. PICK x \in v : w = {x, fat[x]}
    BY <2>1
  <2> QED
    BY <2>1, <2>2
<1> QED
  BY <1>1, <1>2, <1>3

LEMMA RoundsLemma ==
  ASSUME NEW starts \in SUBSET Clusters
  PROVE  \E c : IsRounds(c, starts)
<1> DEFINE N == Depth
           S == SUBSET Clusters
           F == [p \in (1..N) \X S |-> Spread(p[2])]
           Rec(f) == f = [k \in Links |-> IF k = 0 THEN starts ELSE Spread(f[k - 1])]
           c == CHOOSE f : Rec(f)
<1>1. N \in Nat /\ Links = 0..N
  BY LinksLemma DEF Depth
<1>2. Cardinality(Clusters) = N
  BY ConstantsLemma, FS_Interval DEF Clusters, Depth
<1>3. \A v \in S : Spread(v) \in S
  BY SpreadLemma
<1>4. F \in [(1..N) \X S -> S]
  <2>1. \A p \in (1..N) \X S : p[2] \in S
    OBVIOUS
  <2> HIDE DEF S, N
  <2> QED
    BY <1>3, <2>1
<1>5. PICK g : Recursion(g, N, S, starts, F)
  <2> HIDE DEF F, N
  <2> QED
    BY <1>1, <1>4, IntervalRecursion
<1>6. g \in [0..N -> S] /\ g = [k \in 0..N |-> IF k = 0 THEN starts ELSE F[<<k, g[k - 1]>>]]
  BY <1>5 DEF Recursion
<1>7. ASSUME NEW k \in 0..N, k # 0 PROVE F[<<k, g[k - 1]>>] = Spread(g[k - 1])
  <2>1. k \in 1..N /\ k - 1 \in 0..N
    BY <1>1, <1>7
  <2>2. g[k - 1] \in S
    <3> HIDE DEF S
    <3> QED
      BY <1>6, <2>1
  <2> HIDE DEF S
  <2> QED
    BY <2>1, <2>2
<1>8. Rec(g)
  <2> HIDE DEF F, S
  <2> QED
    BY <1>1, <1>6, <1>7
<1>9. Rec(c)
  <2> HIDE DEF Rec
  <2> QED
    BY <1>8
<1>10. Chains(starts) = c[N]
  BY <1>2 DEF Chains, Spread
<1> HIDE DEF c
<1>11. c[0] = starts /\ \A k \in 1..N : c[k] = Spread(c[k - 1])
  <2>1. 0 \in Links /\ \A k \in 1..N : k \in Links /\ k # 0
    BY <1>1
  <2> HIDE DEF N
  <2> QED
    BY <1>9, <2>1
<1>12. \A k \in 0..N : c[k] \in S
  <2> HIDE DEF S, N
  <2>1. starts \in S
    BY DEF S
  <2> QED
    BY <1>1, <1>3, <1>11, <2>1, IntervalRange
<1>13. c \in [0..N -> S]
  <2> HIDE DEF S, N
  <2> QED
    BY <1>1, <1>9, <1>12
<1> QED
  BY <1>10, <1>11, <1>13 DEF IsRounds

\* It stays in every closed set its starts are in, ...
LEMMA ChainsLemma ==
  ASSUME NEW U \in SUBSET Clusters, Closed(U), NEW starts \in SUBSET U
  PROVE  Chains(starts) \subseteq U
<1>1. PICK c : IsRounds(c, starts)
  BY RoundsLemma
<1>2. Depth \in Nat
  BY LinksLemma DEF Depth
<1>3. ASSUME NEW v \in SUBSET U PROVE Spread(v) \in SUBSET U
  BY SpreadLemma DEF Closed
<1>4. \A k \in 0..Depth : c[k] \in SUBSET U
  <2>1. c[0] \in SUBSET U
    BY <1>1 DEF IsRounds
  <2>2. ASSUME NEW k \in 1..Depth, c[k - 1] \in SUBSET U PROVE c[k] \in SUBSET U
    <3>1. c[k] = Spread(c[k - 1])
      BY <1>1 DEF IsRounds
    <3> QED
      BY <1>3, <2>2, <3>1
  <2> QED
    BY <1>2, <2>1, <2>2, IntervalRange
<1> QED
  BY <1>1, <1>2, <1>4 DEF IsRounds

\* ... which is every cluster of the chains of its starts.
Along(starts) == UNION {Reach(o) : o \in starts}
ChainsFact == \A starts \in SUBSET Clusters : Chains(starts) = Along(starts)

LEMMA AlongLemma ==
  ASSUME NEW starts \in SUBSET Clusters
  PROVE  /\ Along(starts) \subseteq Clusters /\ Closed(Along(starts))
         /\ starts \subseteq Along(starts)
         /\ \A c : c \in Along(starts) <=> \E o \in starts : c \in Reach(o)
<1>1. \A c : c \in Along(starts) <=> \E o \in starts : c \in Reach(o)
  BY DEF Along
<1>2. \A o \in starts : o \in Reach(o) /\ Reach(o) \subseteq Clusters /\ Closed(Reach(o))
  BY ReachLemma
<1> QED
  BY <1>1, <1>2 DEF Closed

LEMMA ChainsAreAlong == DiskInv => ChainsFact
<1> SUFFICES ASSUME DiskInv, NEW starts \in SUBSET Clusters
             PROVE  Chains(starts) = Along(starts)
  BY DEF ChainsFact
<1>1. Chains(starts) \subseteq Along(starts)
  BY AlongLemma, ChainsLemma
<1>2. PICK c : IsRounds(c, starts)
  BY RoundsLemma
<1> DEFINE T == {k \in 0..Depth : /\ starts \subseteq c[k]
                                  /\ \A y \in Along(starts) : y <= ROOT + k => y \in c[k]}
<1>3. Depth \in Nat
  BY LinksLemma DEF Depth
<1>4. \A k \in 0..Depth : c[k] \in SUBSET Clusters
  BY <1>2 DEF IsRounds
<1>5. ASSUME NEW y \in Along(starts), y \notin starts
      PROVE  \E x \in Along(starts) : fat[x] = y /\ x < y
  <2>1. PICK o \in starts : y \in Reach(o)
    BY <1>5, AlongLemma
  <2>2. PICK x \in Reach(o) : fat[x] = y
    BY <1>5, <2>1, PredecessorLemma
  <2>3. x \in Along(starts) /\ x \in Clusters /\ y \in Clusters
    BY <2>1, <2>2, AlongLemma
  <2>4. fat[x] > x
    BY <2>2, <2>3 DEF DiskInv, ChainsApart
  <2> QED
    BY <2>2, <2>3, <2>4, ConstantsLemma
<1>6. 0 \in T
  <2> SUFFICES ASSUME NEW y \in Along(starts), y <= ROOT, y \notin starts PROVE FALSE
    BY <1>2, <1>3, ConstantsLemma DEF IsRounds
  <2>1. PICK x \in Along(starts) : x < y
    BY <1>5
  <2>2. x \in Clusters /\ y \in Clusters
    BY AlongLemma
  <2> QED
    BY <2>1, <2>2, ConstantsLemma
<1>7. ASSUME NEW k \in 0..(Depth - 1), k \in T PROVE k + 1 \in T
  <2>1. k \in 0..Depth /\ k + 1 \in 1..Depth /\ k + 1 \in 0..Depth /\ (k + 1) - 1 = k
    BY <1>3
  <2>2. c[k + 1] = Spread(c[k])
    <3>1. c[k + 1] = Spread(c[(k + 1) - 1])
      BY <1>2, <2>1 DEF IsRounds
    <3> QED
      BY <2>1, <3>1
  <2>3. /\ c[k] \subseteq c[k + 1]
        /\ \A x \in c[k] : fat[x] \in Clusters => fat[x] \in c[k + 1]
    BY <1>4, <2>1, <2>2, SpreadLemma
  <2>4. starts \subseteq c[k] /\ \A y \in Along(starts) : y <= ROOT + k => y \in c[k]
    BY <1>7
  <2>5. ASSUME NEW y \in Along(starts), y <= ROOT + (k + 1) PROVE y \in c[k + 1]
    <3>1. CASE y \in starts
      BY <2>3, <2>4, <3>1
    <3>2. CASE y \notin starts
      <4>1. PICK x \in Along(starts) : fat[x] = y /\ x < y
        BY <1>5, <3>2
      <4>2. x \in Clusters /\ y \in Clusters
        BY AlongLemma
      <4>3. x <= ROOT + k
        BY <2>1, <2>5, <4>1, <4>2, ConstantsLemma
      <4> QED
        BY <2>3, <2>4, <4>1, <4>2, <4>3
    <3> QED
      BY <3>1, <3>2
  <2> QED
    BY <2>1, <2>3, <2>4, <2>5
<1> HIDE DEF T
<1>8. Depth \in T
  <2>1. \A k \in 0..Depth : k \in T
    BY <1>3, <1>6, <1>7, IntervalInduction
  <2> QED
    BY <1>3, <2>1
<1>9. \A y \in Along(starts) : y \in c[Depth]
  <2>1. \A y \in Along(starts) : y <= ROOT + Depth => y \in c[Depth]
    BY <1>8 DEF T
  <2>2. \A y \in Along(starts) : y \in Clusters
    BY AlongLemma
  <2>3. \A y \in Clusters : y <= ROOT + Depth
    BY ConstantsLemma DEF Clusters, Depth
  <2> QED
    BY <2>1, <2>2, <2>3
<1> QED
  BY <1>1, <1>2, <1>9 DEF IsRounds

LEMMA ChainsAreAlongAfter == DiskInv' => ChainsFact'
BY ChainsAreAlong, PTL

----------------------------------------------------------------------------
\* A sector or FAT entry that cannot be read makes a lookup find nothing, and
\* never something else.
LEMMA LookupFaultLemma ==
  ASSUME DiskInv, NEW dir \in Positions, NEW n, NEW fault
  PROVE  Lookup(dir, n, fault) \in {0, Lookup(dir, n, None)}
<1>1. PICK f : IsScan(f, n, fault) /\ \A d : Lookup(d, n, fault) = f[Depth][d]
  BY ScanLemma
<1>2. PICK g : IsScan(g, n, None) /\ \A d : Lookup(d, n, None) = g[Depth][d]
  BY ScanLemma
<1> DEFINE S == {v \in {<<f[m], g[m]>> : m \in 0..Depth} : \A c \in Positions : v[1][c] \in {0, v[2][c]}}
           h == [m \in 0..Depth |-> <<f[m], g[m]>>]
<1>3. Depth \in Nat
  BY LinksLemma DEF Depth
<1>4. ASSUME NEW m \in 1..Depth, \A c \in Positions : f[m - 1][c] \in {0, g[m - 1][c]},
             NEW c \in Positions
      PROVE  f[m][c] \in {0, g[m][c]}
  <2>1. f[m][c] = IF c \notin Clusters \/ fault = <<"dir", c>> THEN 0
                  ELSE IF Matching(c, n) # {} THEN sec[c][0][Least(Matching(c, n))].first
                  ELSE f[m - 1][get_fat_entry(c, fault)]
    BY <1>1 DEF IsScan
  <2>2. g[m][c] = IF c \notin Clusters \/ None = <<"dir", c>> THEN 0
                  ELSE IF Matching(c, n) # {} THEN sec[c][0][Least(Matching(c, n))].first
                  ELSE g[m - 1][get_fat_entry(c, None)]
    BY <1>2 DEF IsScan
  <2>3. CASE c \notin Clusters \/ fault = <<"dir", c>>
    BY <2>1, <2>3
  <2>4. CASE c \in Clusters /\ fault # <<"dir", c>>
    <3>1. None # <<"dir", c>> /\ None # <<"fat", c>> /\ ~(c < 2)
      BY <2>4, ConstantsLemma DEF None
    <3>2. CASE Matching(c, n) # {}
      BY <2>1, <2>2, <2>4, <3>1, <3>2
    <3>3. CASE Matching(c, n) = {} /\ fault = <<"fat", c>>
      <4>1. get_fat_entry(c, fault) = EOC /\ EOC \in Positions
        BY <3>3 DEF get_fat_entry, Positions
      <4>2. f[m][c] = f[m - 1][EOC]
        BY <2>1, <2>4, <3>3, <4>1
      <4>3. f[m - 1][EOC] = 0
        <5>1. CASE m - 1 = 0
          BY <1>1, <4>1, <5>1 DEF IsScan
        <5>2. CASE m - 1 # 0
          <6>1. m - 1 \in 1..Depth
            BY <1>3, <5>2
          <6> QED
            BY <1>1, <4>1, <6>1, ConstantsLemma DEF IsScan
        <5> QED
          BY <5>1, <5>2
      <4> QED
        BY <4>2, <4>3
    <3>4. CASE Matching(c, n) = {} /\ fault # <<"fat", c>>
      <4>1. get_fat_entry(c, fault) = fat[c] /\ get_fat_entry(c, None) = fat[c]
        BY <3>1, <3>4 DEF get_fat_entry
      <4>2. fat[c] \in Positions
        BY <2>4 DEF DiskInv, Positions
      <4>3. f[m][c] = f[m - 1][fat[c]] /\ g[m][c] = g[m - 1][fat[c]]
        BY <2>1, <2>2, <2>4, <3>1, <3>4, <4>1
      <4> QED
        BY <1>4, <4>2, <4>3
    <3> QED
      BY <3>2, <3>3, <3>4
  <2> QED
    BY <2>3, <2>4
<1>5. \A m \in 0..Depth : h[m] \in S
  <2>1. h[0] \in S
    <3>1. \A c \in Positions : f[0][c] = 0
      BY <1>1 DEF IsScan
    <3> QED
      BY <1>3, <3>1
  <2>2. ASSUME NEW m \in 1..Depth, h[m - 1] \in S PROVE h[m] \in S
    <3>1. m \in 0..Depth /\ m - 1 \in 0..Depth
      BY <1>3
    <3>2. h[m - 1] = <<f[m - 1], g[m - 1]>> /\ h[m] = <<f[m], g[m]>>
      BY <3>1
    <3>3. \A c \in Positions : f[m - 1][c] \in {0, g[m - 1][c]}
      BY <2>2, <3>2
    <3>4. \A c \in Positions : f[m][c] \in {0, g[m][c]}
      BY <1>4, <3>3
    <3> QED
      BY <3>1, <3>2, <3>4
  <2> HIDE DEF S, h
  <2> QED
    BY <1>3, <2>1, <2>2, IntervalRange
<1>6. h[Depth] = <<f[Depth], g[Depth]>> /\ h[Depth] \in S
  BY <1>3, <1>5
<1>7. f[Depth][dir] \in {0, g[Depth][dir]}
  BY <1>6
<1> QED
  BY <1>1, <1>2, <1>7

\* What a lookup finds has its entry in the directory it was looked up in.
LEMMA PlaceLemma ==
  ASSUME DiskInv, NEW dir \in InUse, NEW n, Lookup(dir, n, None) # 0
  PROVE  \E p \in Places : p[1] \in Reach(dir) /\ First(p) = Lookup(dir, n, None)
<1>1. PICK g : IsScan(g, n, None) /\ \A d : Lookup(d, n, None) = g[Depth][d]
  BY ScanLemma
<1> DEFINE Here == {First(p) : p \in {p \in Places : p[1] \in Reach(dir)}}
           At == Reach(dir) \cup {0, EOC}
           S == {v \in {g[m] : m \in 0..Depth} : \A c \in At : v[c] \in Here \cup {0}}
<1>2. Depth \in Nat
  BY LinksLemma DEF Depth
<1>3. /\ dir \in Reach(dir) /\ Reach(dir) \subseteq Clusters /\ Closed(Reach(dir))
      /\ Reach(dir) \subseteq InUse
  BY ReachLemma, HeadsLemma DEF InUse
<1>4. At \subseteq Positions
  BY <1>3 DEF Positions
<1>5. ASSUME NEW m \in 1..Depth, \A c \in At : g[m - 1][c] \in Here \cup {0}, NEW c \in At
      PROVE  g[m][c] \in Here \cup {0}
  <2>1. g[m][c] = IF c \notin Clusters \/ None = <<"dir", c>> THEN 0
                  ELSE IF Matching(c, n) # {} THEN sec[c][0][Least(Matching(c, n))].first
                  ELSE g[m - 1][get_fat_entry(c, None)]
    BY <1>1, <1>4 DEF IsScan
  <2>2. CASE c \notin Clusters \/ None = <<"dir", c>>
    BY <2>1, <2>2
  <2>3. CASE c \in Clusters /\ ~(None = <<"dir", c>>) /\ Matching(c, n) # {}
    <3>1. Matching(c, n) \subseteq Nat
      BY ConstantsLemma DEF Matching, Seen
    <3>2. PICK s \in Matching(c, n) : s = Least(Matching(c, n))
      BY <2>3, <3>1, LeastLemma
    <3>3. s \in Slots /\ sec[c][0][s].kind = "entry" /\ c \in Reach(dir) /\ fat[c] # 0
      BY <1>3, <2>3, <3>2, ConstantsLemma DEF Matching, Seen, InUse
    <3>4. <<c, s>> \in Places /\ First(<<c, s>>) = sec[c][0][s].first
      BY <2>3, <3>3 DEF Places, First
    <3>5. sec[c][0][s].first \in Here
      BY <3>3, <3>4
    <3> QED
      BY <2>1, <2>3, <3>2, <3>5
  <2>4. CASE c \in Clusters /\ ~(None = <<"dir", c>>) /\ Matching(c, n) = {}
    <3>1. get_fat_entry(c, None) = fat[c]
      BY <2>4, ConstantsLemma DEF get_fat_entry, None
    <3>2. fat[c] \in At
      BY <1>3, <2>4, ConstantsLemma DEF DiskInv, Closed
    <3> HIDE DEF At, Here
    <3> QED
      BY <1>5, <2>1, <2>4, <3>1, <3>2
  <2> QED
    BY <2>2, <2>3, <2>4
<1>6. \A m \in 0..Depth : g[m] \in S
  <2>1. g[0] \in S
    BY <1>1, <1>2, <1>4 DEF IsScan
  <2>2. ASSUME NEW m \in 1..Depth, g[m - 1] \in S PROVE g[m] \in S
    <3>1. m \in 0..Depth
      BY <1>2
    <3>2. \A c \in At : g[m - 1][c] \in Here \cup {0}
      BY <2>2
    <3> HIDE DEF Here, At
    <3> QED
      BY <1>5, <3>1, <3>2
  <2> HIDE DEF S
  <2> QED
    BY <1>2, <2>1, <2>2, IntervalRange
<1>7. g[Depth][dir] \in Here
  <2>1. g[Depth] \in S /\ dir \in At
    BY <1>2, <1>3, <1>6
  <2> QED
    BY <1>1, <2>1
<1> QED
  BY <1>1, <1>7

----------------------------------------------------------------------------
\* Scans and ways exist in every state: what the next two lemmas need of a state
\* and of the one after it.
ScanFact == \A n, fault : \E scan : /\ IsScan(scan, n, fault)
                                    /\ \A dir : Lookup(dir, n, fault) = scan[Depth][dir]
WayFact == \A path \in Seq(Names) : \A fault : \E r : IsWay(r, path, fault)

LEMMA FactsLemma == DiskInv => ScanFact /\ WayFact
<1> SUFFICES ASSUME DiskInv PROVE ScanFact /\ WayFact
  OBVIOUS
<1>1. ScanFact
  BY ScanLemma DEF ScanFact
<1>2. WayFact
  BY WayLemma DEF WayFact
<1> QED
  BY <1>1, <1>2

LEMMA FactsAfterwards == DiskInv' => ScanFact' /\ WayFact'
BY FactsLemma, PTL

\* A lookup that stays in clusters a step does not change finds what it found.
LEMMA LookupStableLemma ==
  ASSUME DiskInv, DiskInv', NEW U \in SUBSET Clusters, Closed(U),
         \A c \in U : fat'[c] = fat[c] /\ sec'[c] = sec[c],
         NEW dir \in U \cup {0}, NEW n
  PROVE  Lookup(dir, n, None)' = Lookup(dir, n, None)
<1>1. PICK f : IsScan(f, n, None) /\ \A d : Lookup(d, n, None) = f[Depth][d]
  BY ScanLemma
<1>2. PICK g : IsScan(g, n, None)' /\ \A d : Lookup(d, n, None)' = g[Depth][d]
  <2>1. ScanFact'
    BY FactsAfterwards
  <2> QED
    BY <2>1 DEF ScanFact
<1> DEFINE At == U \cup {0, EOC}
           h == [m \in 0..Depth |-> <<f[m], g[m]>>]
           S == {v \in {<<f[m], g[m]>> : m \in 0..Depth} : \A c \in At : v[1][c] = v[2][c]}
<1>3. Depth \in Nat
  BY LinksLemma DEF Depth
<1>4. At \subseteq Positions
  BY DEF Positions
<1>5. \A c \in Positions : g[0][c] = 0 /\ f[0][c] = 0
  BY <1>1, <1>2 DEF IsScan
<1>6. ASSUME NEW m \in 1..Depth, \A c \in At : f[m - 1][c] = g[m - 1][c], NEW c \in At
      PROVE  f[m][c] = g[m][c]
  <2>1. c \in Positions
    BY <1>4
  <2>2. f[m][c] = IF c \notin Clusters \/ None = <<"dir", c>> THEN 0
                  ELSE IF Matching(c, n) # {} THEN sec[c][0][Least(Matching(c, n))].first
                  ELSE f[m - 1][get_fat_entry(c, None)]
    BY <1>1, <2>1 DEF IsScan
  <2>3. g[m][c] = IF c \notin Clusters \/ None = <<"dir", c>> THEN 0
                  ELSE IF Matching(c, n)' # {} THEN sec'[c][0][Least(Matching(c, n)')].first
                  ELSE g[m - 1][get_fat_entry(c, None)']
    BY <1>2, <2>1 DEF IsScan
  <2>4. CASE c \notin Clusters
    BY <2>2, <2>3, <2>4
  <2>5. CASE c \in Clusters
    <3>1. c \in U /\ fat'[c] = fat[c] /\ sec'[c] = sec[c]
      BY <2>5, ConstantsLemma
    <3>2. Matching(c, n)' = Matching(c, n)
      BY <3>1 DEF Matching, Seen
    <3>3. get_fat_entry(c, None)' = fat[c] /\ get_fat_entry(c, None) = fat[c]
      BY <3>1, <2>5, ConstantsLemma DEF get_fat_entry, None
    <3>4. fat[c] \in At
      BY <2>5, <3>1, ConstantsLemma DEF DiskInv, Closed
    <3>5. f[m - 1][fat[c]] = g[m - 1][fat[c]]
      BY <1>6, <3>4
    <3> QED
      BY <2>2, <2>3, <3>1, <3>2, <3>3, <3>5
  <2> QED
    BY <2>4, <2>5
<1>7. \A m \in 0..Depth : h[m] \in S
  <2>1. h[0] \in S
    <3>1. 0 \in 0..Depth /\ h[0] = <<f[0], g[0]>>
      BY <1>3
    <3> QED
      BY <1>4, <1>5, <3>1
  <2>2. ASSUME NEW m \in 1..Depth, h[m - 1] \in S PROVE h[m] \in S
    <3>1. m \in 0..Depth /\ m - 1 \in 0..Depth
      BY <1>3
    <3>2. h[m - 1] = <<f[m - 1], g[m - 1]>> /\ h[m] = <<f[m], g[m]>>
      BY <3>1
    <3>3. \A c \in At : f[m - 1][c] = g[m - 1][c]
      BY <2>2, <3>2
    <3>4. \A c \in At : f[m][c] = g[m][c]
      BY <1>6, <3>3
    <3> QED
      BY <3>1, <3>2, <3>4
  <2> HIDE DEF S, h
  <2> QED
    BY <1>3, <2>1, <2>2, IntervalRange
<1>8. f[Depth][dir] = g[Depth][dir]
  <2>1. h[Depth] = <<f[Depth], g[Depth]>> /\ h[Depth] \in S
    BY <1>3, <1>7
  <2> QED
    BY <2>1
<1> QED
  BY <1>1, <1>2, <1>8

\* No directory is twice on the way along a path: each has one entry, and its
\* entry is in the chain of the directory before it.
LEMMA DistinctLemma ==
  ASSUME DiskInv, NEW path \in Seq(Names), NEW r, IsWay(r, path, None)
  PROVE  \A k, l \in 0..Len(path) : k < l /\ r[l] # 0 => r[k] # r[l]
<1> DEFINE N == Len(path)
           T == {k \in 0..N : \A l \in 0..N : k < l /\ r[l] # 0 => r[k] # r[l]}
<1>1. /\ N \in Nat /\ r[0] = ROOT /\ \A k \in 0..N : r[k] \in {ROOT, 0} \cup Owned
      /\ \A k \in 1..N : r[k] = Lookup(r[k - 1], path[k], None)
  BY DEF IsWay
<1>2. ASSUME NEW l \in 1..N, r[l] # 0
      PROVE  /\ l - 1 \in 0..N /\ Origin(r[l - 1])
             /\ \E p \in Places : p[1] \in Reach(r[l - 1]) /\ First(p) = r[l]
  <2>1. l - 1 \in 0..N /\ r[l] = Lookup(r[l - 1], path[l], None)
    BY <1>1
  <2>2. Lookup(0, path[l], None) = 0
    <3>1. PICK f : IsScan(f, path[l], None) /\ \A d : Lookup(d, path[l], None) = f[Depth][d]
      BY ScanLemma
    <3>2. Depth \in 1..Depth /\ 0 \in Positions
      BY LinksLemma, ConstantsLemma DEF Depth, Positions
    <3> QED
      BY <3>1, <3>2, ConstantsLemma DEF IsScan
  <2>3. r[l - 1] # 0
    BY <1>2, <2>1, <2>2
  <2>4. r[l - 1] \in Heads
    BY <1>1, <2>1, <2>3, HeadsLemma
  <2>5. Origin(r[l - 1])
    BY <2>4, HeadsLemma
  <2>6. r[l - 1] \in InUse
    BY <2>5 DEF Origin
  <2> QED
    BY <1>2, <2>1, <2>5, <2>6, PlaceLemma
<1>3. 0 \in T
  <2> SUFFICES ASSUME NEW l \in 0..N, 0 < l, r[l] # 0 PROVE r[l] # ROOT
    BY <1>1
  <2>1. l \in 1..N
    BY <1>1
  <2>2. PICK p \in Places : First(p) = r[l]
    BY <1>2, <2>1
  <2> QED
    BY <2>2 DEF DiskInv, OneOwner
<1>4. ASSUME NEW k \in 0..(N - 1), k \in T PROVE k + 1 \in T
  <2>1. k \in 0..N /\ k + 1 \in 1..N /\ k + 1 \in 0..N /\ (k + 1) - 1 = k
    BY <1>1
  <2> SUFFICES ASSUME NEW l \in 0..N, k + 1 < l, r[l] # 0, r[k + 1] = r[l] PROVE FALSE
    BY <2>1
  <2>2. l \in 1..N /\ l - 1 \in 0..N /\ k < l - 1
    BY <2>1
  <2>3. PICK q \in Places : q[1] \in Reach(r[l - 1]) /\ First(q) = r[l]
    BY <1>2, <2>2
  <2>4. PICK p \in Places : p[1] \in Reach(r[k]) /\ First(p) = r[k + 1]
    <3>1. \E p \in Places : p[1] \in Reach(r[(k + 1) - 1]) /\ First(p) = r[k + 1]
      BY <1>2, <2>1
    <3> QED
      BY <2>1, <3>1
  <2>5. p = q
    BY <2>3, <2>4 DEF DiskInv, OneOwner
  <2>6. Origin(r[l - 1])
    BY <1>2, <2>2
  <2>7. Origin(r[k])
    <3>1. Origin(r[(k + 1) - 1])
      BY <1>2, <2>1
    <3> QED
      BY <2>1, <3>1
  <2>8. r[k] = r[l - 1]
    BY <2>3, <2>4, <2>5, <2>6, <2>7, MeetLemma
  <2>9. r[l - 1] # 0
    BY <2>6, ConstantsLemma DEF Origin, InUse
  <2> QED
    BY <1>4, <2>2, <2>8, <2>9
<1> HIDE DEF T, N
<1>5. \A k \in 0..N : k \in T
  BY <1>1, <1>3, <1>4, IntervalInduction
<1> QED
  BY <1>5 DEF T, N

LEMMA NothingLemma ==
  ASSUME DiskInv, NEW n, NEW fault PROVE Lookup(0, n, fault) = 0
<1>1. PICK f : IsScan(f, n, fault) /\ \A d : Lookup(d, n, fault) = f[Depth][d]
  BY ScanLemma
<1>2. Depth \in 1..Depth /\ 0 \in Positions
  BY LinksLemma, ConstantsLemma DEF Depth, Positions
<1> QED
  BY <1>1, <1>2, ConstantsLemma DEF IsScan

\* A path that is found in spite of a failed transfer leads where it leads without.
LEMMA FindFaultLemma ==
  ASSUME DiskInv, NEW path \in Seq(Names), NEW fault
  PROVE  find_directory_entry(path, fault) \in {0, find_directory_entry(path, None)}
<1>1. PICK f : IsWay(f, path, fault)
  BY WayLemma
<1>2. PICK g : IsWay(g, path, None)
  BY WayLemma
<1> DEFINE N == Len(path)
           T == {k \in 0..N : f[k] \in {0, g[k]}}
<1>3. N \in Nat
  OBVIOUS
<1>4. 0 \in T
  BY <1>1, <1>2, <1>3 DEF IsWay
<1>5. ASSUME NEW k \in 0..(N - 1), k \in T PROVE k + 1 \in T
  <2>1. k \in 0..N /\ k + 1 \in 0..N /\ k + 1 \in 1..N /\ (k + 1) - 1 = k
    BY <1>3
  <2>2. /\ f[k + 1] = Lookup(f[k], path[k + 1], fault)
        /\ g[k + 1] = Lookup(g[k], path[k + 1], None)
    <3>1. /\ f[k + 1] = Lookup(f[(k + 1) - 1], path[k + 1], fault)
          /\ g[k + 1] = Lookup(g[(k + 1) - 1], path[k + 1], None)
      BY <1>1, <1>2, <2>1 DEF IsWay
    <3> QED
      BY <2>1, <3>1
  <2>3. CASE f[k] = 0
    BY <2>1, <2>2, <2>3, NothingLemma
  <2>4. CASE f[k] = g[k]
    <3>1. g[k] \in Positions
      BY <1>2, <2>1, OwnedLemma, ConstantsLemma DEF IsWay, Positions, InUse
    <3> QED
      BY <2>1, <2>2, <2>4, <3>1, LookupFaultLemma
  <2> QED
    BY <1>5, <2>3, <2>4
<1> HIDE DEF T
<1>6. \A k \in 0..N : k \in T
  BY <1>3, <1>4, <1>5, IntervalInduction
<1>7. f[N] \in {0, g[N]}
  BY <1>3, <1>6 DEF T
<1> QED
  BY <1>1, <1>2, <1>7 DEF IsWay

\* A path whose directories lie in clusters a step does not change leads after
\* the step where it led before.
LEMMA FindStableLemma ==
  ASSUME DiskInv, DiskInv', NEW U \in SUBSET Clusters, Closed(U),
         \A c \in U : fat'[c] = fat[c] /\ sec'[c] = sec[c],
         NEW path \in Seq(Names), NEW r, IsWay(r, path, None),
         \A k \in 0..Len(path) : k # Len(path) => r[k] \in U \cup {0}
  PROVE  find_directory_entry(path, None)' = find_directory_entry(path, None)
<1>1. PICK g : IsWay(g, path, None)'
  <2>1. WayFact'
    BY FactsAfterwards
  <2> QED
    BY <2>1 DEF WayFact
<1> DEFINE N == Len(path)
           T == {k \in 0..N : g[k] = r[k]}
<1>2. N \in Nat
  OBVIOUS
<1>3. /\ r[0] = ROOT /\ g[0] = ROOT
      /\ \A k \in 1..N : r[k] = Lookup(r[k - 1], path[k], None)
      /\ \A k \in 1..N : g[k] = Lookup(g[k - 1], path[k], None)'
      /\ find_directory_entry(path, None) = r[N]
      /\ find_directory_entry(path, None)' = g[N]
  <2>1. /\ r[0] = ROOT
        /\ \A k \in 1..N : r[k] = Lookup(r[k - 1], path[k], None)
        /\ find_directory_entry(path, None) = r[N]
    BY DEF IsWay
  <2>2. /\ g[0] = ROOT
        /\ \A k \in 1..N : g[k] = Lookup(g[k - 1], path[k], None)'
        /\ find_directory_entry(path, None)' = g[N]
    BY <1>1 DEF IsWay
  <2> QED
    BY <2>1, <2>2
<1>4. 0 \in T
  BY <1>2, <1>3
<1>5. ASSUME NEW k \in 0..(N - 1), k \in T PROVE k + 1 \in T
  <2>1. k \in 0..N /\ k + 1 \in 0..N /\ k + 1 \in 1..N /\ (k + 1) - 1 = k /\ k # N
    BY <1>2
  <2>2. r[k + 1] = Lookup(r[k], path[k + 1], None)
    <3>1. r[k + 1] = Lookup(r[(k + 1) - 1], path[k + 1], None)
      BY <1>3, <2>1
    <3> QED
      BY <2>1, <3>1
  <2>3. g[k + 1] = Lookup(g[k], path[k + 1], None)'
    <3>1. g[k + 1] = Lookup(g[(k + 1) - 1], path[k + 1], None)'
      BY <1>3, <2>1
    <3> QED
      BY <2>1, <3>1
  <2>4. PICK dir \in U \cup {0} : dir = r[k]
    BY <2>1
  <2>5. PICK n : n = path[k + 1]
    OBVIOUS
  <2>6. Lookup(dir, n, None)' = Lookup(dir, n, None)
    BY LookupStableLemma
  <2>7. g[k] = dir
    BY <1>5, <2>4
  <2>8. g[k + 1] = Lookup(dir, n, None)'
    BY <2>3, <2>5, <2>7
  <2> QED
    BY <2>1, <2>2, <2>4, <2>5, <2>6, <2>8
<1> HIDE DEF T
<1>6. \A k \in 0..N : k \in T
  BY <1>2, <1>4, <1>5, IntervalInduction
<1>7. g[N] = r[N]
  BY <1>2, <1>6 DEF T
<1> QED
  BY <1>3, <1>7

\* ... that is so when the step changes one cluster that nothing leads to,
LEMMA BehindLemma ==
  ASSUME DiskInv, DiskInv', NEW b, \A d \in Clusters : fat[d] # b, b \notin Heads,
         \A c \in Clusters : c # b => fat'[c] = fat[c] /\ sec'[c] = sec[c],
         NEW path \in Seq(Names)
  PROVE  find_directory_entry(path, None)' = find_directory_entry(path, None)
<1> DEFINE U == Clusters \ {b}
<1>1. PICK r : IsWay(r, path, None)
  BY WayLemma
<1>2. Closed(U)
  BY DEF Closed
<1>3. \A k \in 0..Len(path) : r[k] \in U \cup {0}
  BY <1>1, HeadsLemma, OwnedLemma, ConstantsLemma DEF IsWay, InUse
<1>4. U \in SUBSET Clusters /\ \A c \in U : fat'[c] = fat[c] /\ sec'[c] = sec[c]
  OBVIOUS
<1> HIDE DEF U
<1> QED
  BY <1>1, <1>2, <1>3, <1>4, FindStableLemma

\* ... and when it changes one chain: that of the path's own object or one that
\* no entry leads to.
LEMMA ChainLemma ==
  ASSUME DiskInv, DiskInv', NEW o, Origin(o), NEW path \in Seq(Names),
         o \notin Heads \/ o = find_directory_entry(path, None),
         \A c \in Clusters : c \notin Reach(o) => fat'[c] = fat[c] /\ sec'[c] = sec[c]
  PROVE  find_directory_entry(path, None)' = find_directory_entry(path, None)
<1> DEFINE U == Clusters \ Reach(o)
<1>1. PICK r : IsWay(r, path, None)
  BY WayLemma
<1>2. Closed(U)
  BY OutsideLemma
<1>3. ASSUME NEW k \in 0..Len(path), k # Len(path), r[k] # 0 PROVE r[k] \in U
  <2>1. r[k] \in Heads /\ Origin(r[k]) /\ r[k] \in Clusters
    BY <1>1, <1>3, HeadsLemma DEF IsWay, Origin, InUse
  <2>2. r[k] \in Reach(r[k])
    BY <2>1, ReachLemma
  <2>3. ASSUME r[k] \in Reach(o) PROVE FALSE
    <3>1. o = r[k]
      BY <2>1, <2>2, <2>3, MeetLemma
    <3>2. o = r[Len(path)]
      BY <1>1, <2>1, <3>1 DEF IsWay
    <3>3. k < Len(path) /\ Len(path) \in 0..Len(path)
      BY <1>3
    <3>4. \A a, l \in 0..Len(path) : a < l /\ r[l] # 0 => r[a] # r[l]
      BY <1>1, DistinctLemma
    <3> QED
      BY <1>3, <3>1, <3>2, <3>3, <3>4
  <2> QED
    BY <2>1, <2>3
<1>4. U \in SUBSET Clusters /\ \A c \in U : fat'[c] = fat[c] /\ sec'[c] = sec[c]
  OBVIOUS
<1> HIDE DEF U
<1> QED
  BY <1>1, <1>2, <1>3, <1>4, FindStableLemma

\* ... and when it changes nothing.
LEMMA StillLemma ==
  ASSUME DiskInv, DiskInv', UNCHANGED disk, NEW path \in Seq(Names)
  PROVE  find_directory_entry(path, None)' = find_directory_entry(path, None)
<1>1. \A d \in Clusters : fat[d] # 1
  BY ConstantsLemma DEF DiskInv
<1>2. 1 \notin Heads
  BY HeadsLemma, ConstantsLemma DEF Origin, InUse
<1> QED
  BY <1>1, <1>2, BehindLemma DEF disk

----------------------------------------------------------------------------
\* Where a call is at work: on a chain of its own object, or on one that starts
\* at a cluster nothing leads to (where a link was refused).
Home(h, c) == \E o \in InUse : c \in Reach(o) /\ (o = h \/ Fresh(o))
HomePart ==
  /\ pc \in Creation => Within # 0 /\ Home(Within, current)
  /\ pc = "clear" => Home(Within, extra)
  /\ pc \in Writing => Target # 0 /\ Home(Target, current)

\* A cluster stays on a chain when no entry before it changes, ...
LEMMA ReachKeptLemma ==
  ASSUME NEW o \in Clusters, NEW c \in Reach(o),
         \A x \in Reach(o) : x # c => fat'[x] = fat[x]
  PROVE  c \in Reach(o)'
<1> SUFFICES ASSUME NEW U \in SUBSET Clusters, o \in U, Closed(U)', c \notin U PROVE FALSE
  BY ReachLemma DEF Reach
<1> DEFINE V == U \cap Reach(o)
<1>1. V \in SUBSET Clusters /\ o \in V
  BY ReachLemma
<1>2. Closed(V)
  <2> SUFFICES ASSUME NEW x \in V, fat[x] \in Clusters PROVE fat[x] \in V
    BY DEF Closed
  <2>1. x # c /\ x \in Reach(o) /\ x \in U
    OBVIOUS
  <2>2. fat'[x] = fat[x]
    BY <2>1
  <2>3. fat[x] \in U
    BY <2>1, <2>2 DEF Closed
  <2>4. fat[x] \in Reach(o)
    BY <2>1, ReachLemma DEF Closed
  <2> QED
    BY <2>3, <2>4
<1> HIDE DEF V
<1>3. Reach(o) \subseteq V
  BY <1>1, <1>2, ReachLemma
<1> QED
  BY <1>3 DEF V

\* ... and what it leads to is on the chain as well.
LEMMA ReachNextLemma ==
  ASSUME NEW o, NEW c, c \in Reach(o)', fat'[c] \in Clusters
  PROVE  fat'[c] \in Reach(o)'
BY DEF Reach, Closed

LEMMA HomeKeptLemma ==
  ASSUME DiskInv, NEW h, NEW c, Home(h, c), InUse \subseteq InUse',
         \A x \in InUse : x # c => fat'[x] = fat[x],
         \A d \in Clusters : d <= c /\ Fresh(d) => Fresh(d)'
  PROVE  Home(h, c)'
<1>1. PICK o \in InUse : c \in Reach(o) /\ (o = h \/ Fresh(o))
  BY DEF Home
<1>2. o \in Clusters /\ Reach(o) \subseteq InUse /\ o <= c
  BY <1>1, HeadsLemma DEF InUse
<1>3. c \in Reach(o)'
  BY <1>1, <1>2, ReachKeptLemma
<1> QED
  BY <1>1, <1>2, <1>3 DEF Home

\* A cluster in use is at home with itself, and a fresh one with every call.
HomeSelf == \A c \in InUse : Home(c, c) /\ (Fresh(c) => \A h : Home(h, c))

LEMMA HomeSelfLemma == HomeSelf
BY ReachLemma DEF HomeSelf, Home, InUse

LEMMA HomeSelfAfterwards == HomeSelf'
BY HomeSelfLemma, PTL

\* A link takes its cluster home.
LEMMA HomeLinkLemma ==
  ASSUME NEW h, NEW c, Home(h, c)', NEW d \in Clusters, fat'[c] = d
  PROVE  Home(h, d)'
<1>1. PICK o \in InUse' : c \in Reach(o)' /\ (o = h \/ Fresh(o)')
  BY DEF Home
<1>2. d \in Reach(o)'
  BY <1>1, ReachNextLemma
<1> QED
  BY <1>1, <1>2 DEF Home

\* A path leads where it led after a step that changes one cluster its object is
\* at home in.
LEMMA AtHomeLemma ==
  ASSUME DiskInv, DiskInv', NEW c, NEW p \in Seq(Names),
         Home(find_directory_entry(p, None), c),
         \A x \in Clusters : x # c => fat'[x] = fat[x] /\ sec'[x] = sec[x]
  PROVE  find_directory_entry(p, None)' = find_directory_entry(p, None)
<1>1. PICK h : h = find_directory_entry(p, None)
  OBVIOUS
<1>2. PICK o \in InUse : c \in Reach(o) /\ (o = h \/ Fresh(o))
  BY <1>1 DEF Home
<1>3. o # 0 /\ o \in Clusters
  BY ConstantsLemma DEF InUse
<1>4. \A x \in Clusters : x \notin Reach(o) => fat'[x] = fat[x] /\ sec'[x] = sec[x]
  BY <1>2
<1>5. CASE o = h
  <2>1. PICK r : IsWay(r, p, None)
    BY WayLemma
  <2>2. Len(p) \in 0..Len(p) /\ h = r[Len(p)]
    BY <1>1, <2>1 DEF IsWay
  <2>3. h \in {ROOT, 0} \cup Owned
    BY <2>1, <2>2 DEF IsWay
  <2>4. Origin(o)
    BY <1>3, <1>5, <2>3, HeadsLemma
  <2> QED
    BY <1>1, <1>4, <1>5, <2>4, ChainLemma
<1>6. CASE Fresh(o)
  <2>1. Origin(o) /\ o \notin Heads
    BY <1>3, <1>6, HeadsLemma
  <2> QED
    BY <1>4, <2>1, ChainLemma
<1> QED
  BY <1>2, <1>5, <1>6

\* The paths of a call.
LEMMA CallPathLemma ==
  ASSUME IInv, pc # "idle"
  PROVE  \E path, dir \in Seq(Names) : path = call.path /\ dir = Parent(call.path)
BY ArgumentLemma, PathLemma DEF IInv, CallPart

\* Neither path of a call leads elsewhere after a step that changes one cluster
\* nothing leads to ...
LEMMA BehindStep ==
  ASSUME IInv, IInv', pc # "idle", call' = call,
         NEW b, \A d \in Clusters : fat[d] # b, b \notin Heads,
         \A c \in Clusters : c # b => fat'[c] = fat[c] /\ sec'[c] = sec[c]
  PROVE  Within' = Within /\ Target' = Target
<1>1. PICK path, dir \in Seq(Names) : path = call.path /\ dir = Parent(call.path)
  BY CallPathLemma
<1>2. DiskInv /\ DiskInv'
  BY DEF IInv
<1>3. /\ find_directory_entry(path, None)' = find_directory_entry(path, None)
      /\ find_directory_entry(dir, None)' = find_directory_entry(dir, None)
  BY <1>2, BehindLemma
<1>4. path = call'.path /\ dir = Parent(call'.path)
  BY <1>1
<1> QED
  BY <1>1, <1>3, <1>4 DEF Within, Target

\* ... and the path to the object a call is at work on does not after a step that
\* changes one cluster it is at home in.
LEMMA HomeStep ==
  ASSUME IInv, IInv', pc # "idle", call' = call, NEW h, NEW c, Home(h, c),
         \A x \in Clusters : x # c => fat'[x] = fat[x] /\ sec'[x] = sec[x]
  PROVE  (h = Within => Within' = Within) /\ (h = Target => Target' = Target)
<1>1. PICK path, dir \in Seq(Names) : path = call.path /\ dir = Parent(call.path)
  BY CallPathLemma
<1>2. DiskInv /\ DiskInv'
  BY DEF IInv
<1>3. ASSUME NEW p \in Seq(Names), h = find_directory_entry(p, None)
      PROVE  find_directory_entry(p, None)' = find_directory_entry(p, None)
  BY <1>2, <1>3, AtHomeLemma
<1>4. path = call'.path /\ dir = Parent(call'.path)
  BY <1>1
<1>5. ASSUME h = Within PROVE Within' = Within
  BY <1>1, <1>3, <1>4, <1>5 DEF Within
<1>6. ASSUME h = Target PROVE Target' = Target
  BY <1>1, <1>3, <1>4, <1>6 DEF Target
<1> QED
  BY <1>5, <1>6

\* What no other object's chain holds: a cluster nothing leads to ...
LEMMA ForeignBehindLemma ==
  ASSUME DiskInv, NEW b, \A d \in Clusters : fat[d] # b,
         b \notin Heads \ {Target, Within, cluster}
  PROVE  b \notin Foreign
<1> DEFINE U == Clusters \ {b}
           starts == Heads \ {Target, Within, cluster}
<1>1. Closed(U) /\ U \in SUBSET Clusters
  BY DEF Closed
<1>2. starts \in SUBSET U
  BY HeadsLemma DEF Origin, InUse
<1> HIDE DEF U
<1>3. Chains(starts) \subseteq U
  BY <1>1, <1>2, ChainsLemma
<1> QED
  BY <1>3 DEF Foreign, U

\* ... and one the call is at home in.
LEMMA ForeignHomeLemma ==
  ASSUME DiskInv, NEW h \in {Target, Within}, h \in Heads, NEW c, Home(h, c)
  PROVE  c \notin Foreign
<1>1. PICK o \in InUse : c \in Reach(o) /\ (o = h \/ Fresh(o))
  BY DEF Home
<1> DEFINE U == Clusters \ Reach(o)
           starts == Heads \ {Target, Within, cluster}
<1>2. SUFFICES ASSUME c \in Foreign PROVE FALSE
  OBVIOUS
<1>3. Origin(o)
  BY <1>1, HeadsLemma DEF InUse
<1>4. Closed(U) /\ U \in SUBSET Clusters
  BY <1>3, OutsideLemma
<1>5. ASSUME NEW x \in starts PROVE x \in U
  <2>1. Origin(x) /\ x \in Clusters /\ x \in Reach(x)
    BY HeadsLemma, ReachLemma DEF Origin, InUse
  <2>2. x # o
    BY <1>1, HeadsLemma DEF InUse
  <2> QED
    BY <1>3, <2>1, <2>2, MeetLemma
<1> HIDE DEF U, starts
<1>6. Chains(starts) \subseteq U
  BY <1>4, <1>5, ChainsLemma
<1> QED
  BY <1>1, <1>2, <1>6 DEF Foreign, U, starts

\* What a path leads to is an origin, or nothing.
LEMMA ObjectLemma ==
  ASSUME IInv, pc # "idle"
  PROVE  Within \in Heads \cup {0} /\ Target \in Heads \cup {0}
<1>1. PICK path, dir \in Seq(Names) : path = call.path /\ dir = Parent(call.path)
  BY CallPathLemma
<1>2. ASSUME NEW p \in Seq(Names) PROVE find_directory_entry(p, None) \in Heads \cup {0}
  <2>1. PICK r : IsWay(r, p, None)
    BY WayLemma DEF IInv
  <2>2. Len(p) \in 0..Len(p)
    OBVIOUS
  <2> QED
    BY <2>1, <2>2, HeadsLemma DEF IsWay, IInv
<1> QED
  BY <1>1, <1>2 DEF Within, Target

----------------------------------------------------------------------------
\* The steps once more: where the call is at work after them, and that they
\* change nothing foreign.
Untouched == \A c \in Foreign : fat'[c] = fat[c] /\ sec'[c] = sec[c]

\* A step that changes one cluster only.
LEMMA UntouchedLemma ==
  ASSUME NEW b, b \notin Foreign,
         \A c \in Clusters : c # b => fat'[c] = fat[c] /\ sec'[c] = sec[c],
         Foreign \subseteq Clusters
  PROVE  Untouched
BY DEF Untouched

LEMMA ForeignLemma == ASSUME DiskInv PROVE Foreign \subseteq Clusters
<1>1. Closed(Clusters)
  BY DEF Closed
<1>2. Heads \ {Target, Within, cluster} \in SUBSET Clusters
  BY HeadsLemma DEF Origin, InUse
<1> QED
  BY <1>1, <1>2, ChainsLemma DEF Foreign

\* Taking a free cluster.
LEMMA MarkHomeLemma ==
  ASSUME IInv, IInv', pc # "idle", call' = call,
         NEW new \in Clusters, fat[new] = 0, \A d \in Clusters : fat[d] = 0 => new <= d,
         fat' = [fat EXCEPT ![new] = EOC], sec' = sec
  PROVE  /\ Within' = Within /\ Target' = Target /\ Untouched
         /\ \A h : \A c \in Clusters : Home(h, c) => Home(h, c)'
<1>1. DiskInv /\ fat \in [Clusters -> {0, EOC} \cup Clusters]
  BY DEF IInv, DiskInv
<1>2. (\A d \in Clusters : fat[d] # new) /\ new \notin Heads
  <2>1. \A d \in Clusters : fat[d] # new
    BY <1>1 DEF DiskInv, ChainsApart
  <2> QED
    BY <1>1, <2>1, HeadsLemma DEF Origin, InUse
<1>3. \A c \in Clusters : c # new => fat'[c] = fat[c] /\ sec'[c] = sec[c]
  BY <1>1
<1>4. Within' = Within /\ Target' = Target
  BY <1>2, <1>3, BehindStep
<1>5. Untouched
  BY <1>1, <1>2, <1>3, ForeignBehindLemma, ForeignLemma, UntouchedLemma
<1>6. InUse \subseteq InUse' /\ new \notin InUse /\ \A d \in Clusters : Fresh(d) => Fresh(d)'
  BY <1>1, MarkLemma
<1>7. \A h : \A c \in Clusters : Home(h, c) => Home(h, c)'
  <2>1. \A x \in InUse : fat'[x] = fat[x]
    BY <1>3, <1>6 DEF InUse
  <2> QED
    BY <1>1, <1>6, <2>1, HomeKeptLemma
<1> QED
  BY <1>4, <1>5, <1>7

\* Writing a sector, or nothing.
LEMMA WriteHomeLemma ==
  ASSUME IInv, IInv', fat' = fat, NEW h, NEW c, Home(h, c),
         \A d \in Clusters : Fresh(d) => Fresh(d)'
  PROVE  Home(h, c)'
<1>1. InUse' = InUse
  BY DEF InUse
<1> QED
  BY <1>1, HomeKeptLemma DEF IInv

\* One write leaves all other clusters as they were.
LEMMA OneSectorLemma ==
  ASSUME DiskInv, NEW c \in Clusters, NEW q, NEW v, NEW fault,
         fat' = fat, SetSector(c, q, v, fault)
  PROVE  \A x \in Clusters : x # c => fat'[x] = fat[x] /\ sec'[x] = sec[x]
<1>1. sec' = sec \/ sec' = [sec EXCEPT ![c][q] = v]
  BY DEF SetSector
<1>2. sec \in [Clusters -> [Sectors -> Sector]]
  BY DEF DiskInv, Shape
<1> QED
  BY <1>1, <1>2

LEMMA StillUntouched == ASSUME DiskInv, UNCHANGED disk PROVE Untouched
BY ForeignLemma DEF disk, Untouched

\* The three ways HomePart holds after a step.
LEMMA IdleHomeLemma == ASSUME pc' \notin Creation \cup Writing PROVE HomePart'
BY DEF HomePart, Creation

LEMMA CreateHomeLemma ==
  ASSUME NEW h, NEW c, h # 0, h = Within', c = current', Home(h, c)',
         pc' \in Creation \ {"clear"}
  PROVE  HomePart'
BY DEF HomePart, Home, Creation, Writing

LEMMA WritingHomeLemma ==
  ASSUME NEW h, NEW c, h # 0, h = Target', c = current', Home(h, c)', pc' \in Writing
  PROVE  HomePart'
BY DEF HomePart, Home, Creation, Writing

LEMMA ReturnHomeLemma == ASSUME NEW v, Return(v) PROVE HomePart'
BY IdleHomeLemma DEF Return, Creation, Writing

Progress == HomePart' /\ (call.op # "delete" => Untouched)

LEMMA AllocHome ==
  ASSUME IInv, IInv', HomePart, NEW fault \in Faults, Alloc(fault) PROVE Progress
<1>1. DiskInv /\ pc = "alloc" /\ pc # "idle"
  BY DEF IInv, Alloc
<1>2. PICK dir : dir = find_directory_entry(Parent(call.path), fault)
  OBVIOUS
<1>3. PICK new : new = FreeCluster(fault)
  OBVIOUS
<1>4. CASE dir = 0 \/ new = 0
  <2>1. Return("fail") /\ UNCHANGED disk
    BY <1>2, <1>3, <1>4 DEF Alloc
  <2> QED
    BY <1>1, <2>1, ReturnHomeLemma, StillUntouched DEF Progress
<1>5. CASE dir # 0 /\ new # 0
  <2>1. /\ fat' = [fat EXCEPT ![new] = EOC] /\ sec' = sec
        /\ current' = dir /\ pc' = "zero" /\ call' = call
    BY <1>2, <1>3, <1>5 DEF Alloc, Go
  <2>2. new \in Clusters /\ fat[new] = 0 /\ \A d \in Clusters : fat[d] = 0 => new <= d
    BY <1>3, <1>5, FreeLemma
  <2>3. Within' = Within /\ Untouched
    BY <1>1, <2>1, <2>2, MarkHomeLemma
  <2>4. dir = Within
    <3>1. PICK p \in Seq(Names) : p = Parent(call.path)
      BY <1>1, CallPathLemma
    <3> QED
      BY <1>1, <1>2, <1>5, <3>1, FindFaultLemma DEF Within
  <2>5. dir \in InUse'
    BY <2>1 DEF IInv, LocalPart, Creation
  <2>6. Home(dir, dir)'
    BY <2>5, HomeSelfAfterwards DEF HomeSelf
  <2> QED
    BY <1>5, <2>1, <2>3, <2>4, <2>6, CreateHomeLemma DEF Creation, Progress
<1> QED
  BY <1>4, <1>5

LEMMA ZeroClusterHome ==
  ASSUME IInv, IInv', HomePart, NEW fault \in Faults, ZeroCluster(fault) PROVE Progress
<1>1. /\ DiskInv /\ pc = "zero" /\ pc # "idle" /\ pc \in Creation
      /\ Fresh(cluster) /\ cluster \in Clusters /\ cluster \notin Heads /\ j \in Sectors
  BY HeadsLemma DEF IInv, ZeroCluster, LocalPart, Creation, Fresh, InUse, Registers
<1>2. /\ fat' = fat /\ current' = current /\ SetSector(cluster, j, Blank, fault)
      /\ call' = call /\ pc' \in {"zero", "undo", "slot"}
  BY DEF ZeroCluster, Go
<1>3. PICK b \in Clusters : b = cluster
  BY <1>1
<1>4. \A x \in Clusters : x # b => fat'[x] = fat[x] /\ sec'[x] = sec[x]
  BY <1>1, <1>2, <1>3, OneSectorLemma
<1>5. \A d \in Clusters : fat[d] # b
  BY <1>1, <1>3 DEF Fresh
<1>6. Within' = Within
  BY <1>1, <1>2, <1>3, <1>4, <1>5, BehindStep
<1>7. Untouched
  BY <1>1, <1>3, <1>4, <1>5, ForeignBehindLemma, ForeignLemma, UntouchedLemma
<1>8. PICK h : h = Within
  OBVIOUS
<1>9. PICK c : c = current
  OBVIOUS
<1>10. h # 0 /\ Home(h, c)
  BY <1>1, <1>8, <1>9 DEF HomePart
<1>11. \A d \in Clusters : Fresh(d) => Fresh(d)'
  BY <1>1, <1>2, BlankLemma
<1>12. Home(h, c)'
  BY <1>2, <1>10, <1>11, WriteHomeLemma
<1> QED
  BY <1>2, <1>6, <1>7, <1>8, <1>9, <1>10, <1>12, CreateHomeLemma DEF Creation, Progress

LEMMA UndoHome ==
  ASSUME IInv, IInv', HomePart, NEW fault \in Faults, Undo(fault) PROVE Progress
<1>1. /\ DiskInv /\ Fresh(cluster) /\ cluster \in Clusters /\ cluster \notin Heads
  BY HeadsLemma DEF IInv, Undo, LocalPart, Creation, Fresh, InUse
<1>2. SetFat(cluster, 0, fault) /\ sec' = sec /\ Return("fail")
  BY DEF Undo
<1>3. PICK b \in Clusters : b = cluster
  BY <1>1
<1>4. \A x \in Clusters : x # b => fat'[x] = fat[x] /\ sec'[x] = sec[x]
  BY <1>1, <1>2, <1>3 DEF SetFat, DiskInv
<1>5. \A d \in Clusters : fat[d] # b
  BY <1>1, <1>3 DEF Fresh
<1>6. Untouched
  BY <1>1, <1>3, <1>4, <1>5, ForeignBehindLemma, ForeignLemma, UntouchedLemma
<1> QED
  BY <1>2, <1>6, ReturnHomeLemma DEF Progress

LEMMA FillSlotHome ==
  ASSUME IInv, IInv', HomePart, NEW fault \in Faults, FillSlot(fault) PROVE Progress
<1>1. DiskInv /\ pc = "slot" /\ pc # "idle" /\ current \in Clusters
  BY DEF IInv, FillSlot, LocalPart, Creation, InUse
<1>2. PICK h : h = Within
  OBVIOUS
<1>3. PICK c \in Clusters : c = current
  BY <1>1
<1>4. Home(h, c) /\ h # 0 /\ h \in Heads
  BY <1>1, <1>2, <1>3, ObjectLemma DEF HomePart, Creation
<1>5. \A x \in Clusters : x # c => fat'[x] = fat[x] /\ sec'[x] = sec[x]
  <2>1. /\ fat' = fat
        /\ sec' = sec \/ \E s, e : sec' = [sec EXCEPT ![c][0][s] = e]
    BY <1>3 DEF FillSlot
  <2>2. sec \in [Clusters -> [Sectors -> Sector]]
    BY <1>1 DEF DiskInv, Shape
  <2> QED
    BY <2>1, <2>2
<1>6. c \notin Foreign
  BY <1>1, <1>2, <1>4, ForeignHomeLemma
<1>7. Untouched
  BY <1>1, <1>5, <1>6, ForeignLemma, UntouchedLemma
<1>8. pc' \in {"idle", "refind"}
  BY DEF FillSlot, Created, Return, Go
<1> QED
  BY <1>7, <1>8, IdleHomeLemma DEF Creation, Writing, Progress

LEMMA NextDirClusterHome ==
  ASSUME IInv, IInv', HomePart, NEW fault \in Faults, NextDirCluster(fault) PROVE Progress
<1>1. DiskInv /\ DiskInv' /\ pc = "slot" /\ pc # "idle" /\ current \in InUse
  BY DEF IInv, NextDirCluster, LocalPart, Creation
<1>2. UNCHANGED disk /\ call' = call /\ pc' = "slot"
  BY DEF NextDirCluster, Go
<1>3. PICK c \in InUse : c = current
  BY <1>1
<1>4. PICK d \in Clusters : d = fat[c] /\ current' = d
  BY <1>1, <1>3, NextLemma DEF NextDirCluster, InUse
<1>5. PICK h : h = Within
  OBVIOUS
<1>6. h # 0 /\ Home(h, c)
  BY <1>1, <1>3, <1>5 DEF HomePart, Creation
<1>7. Home(h, c)'
  BY <1>1, <1>2, <1>6, SameDiskLemma, WriteHomeLemma DEF disk
<1>8. Home(h, d)'
  BY <1>2, <1>4, <1>7, HomeLinkLemma DEF disk
<1>9. Within' = Within
  <2>1. PICK path, dir \in Seq(Names) : path = call.path /\ dir = Parent(call.path)
    BY <1>1, CallPathLemma
  <2>2. find_directory_entry(dir, None)' = find_directory_entry(dir, None)
    BY <1>1, <1>2, StillLemma
  <2>3. dir = Parent(call'.path)
    BY <1>2, <2>1
  <2> QED
    BY <2>1, <2>2, <2>3 DEF Within
<1> QED
  BY <1>1, <1>2, <1>4, <1>5, <1>6, <1>8, <1>9, CreateHomeLemma, StillUntouched
  DEF Creation, Progress

LEMMA ExtendDirHome ==
  ASSUME IInv, IInv', HomePart, NEW fault \in Faults, ExtendDir(fault) PROVE Progress
<1>1. DiskInv /\ pc = "slot" /\ pc # "idle" /\ current \in Clusters
  BY DEF IInv, ExtendDir, LocalPart, Creation, InUse
<1>2. PICK new : new = FreeCluster(fault)
  OBVIOUS
<1>3. CASE new = 0 \/ fault = <<"dir", current>>
  <2>1. Return("fail") /\ UNCHANGED disk
    BY <1>2, <1>3 DEF ExtendDir
  <2> QED
    BY <1>1, <2>1, ReturnHomeLemma, StillUntouched DEF Progress
<1>4. CASE ~(new = 0 \/ fault = <<"dir", current>>)
  <2>1. /\ fat' = [fat EXCEPT ![new] = EOC] /\ sec' = sec
        /\ current' = current /\ pc' = "link" /\ call' = call
    BY <1>2, <1>4 DEF ExtendDir, Go
  <2>2. new \in Clusters /\ fat[new] = 0 /\ \A d \in Clusters : fat[d] = 0 => new <= d
    BY <1>2, <1>4, FreeLemma
  <2>3. /\ Within' = Within /\ Untouched
        /\ \A h : \A c \in Clusters : Home(h, c) => Home(h, c)'
    BY <1>1, <2>1, <2>2, MarkHomeLemma
  <2>4. PICK h : h = Within
    OBVIOUS
  <2>5. PICK c \in Clusters : c = current
    BY <1>1
  <2>6. h # 0 /\ Home(h, c)
    BY <1>1, <2>4, <2>5 DEF HomePart, Creation
  <2>7. Home(h, c)'
    BY <2>3, <2>6
  <2> QED
    BY <2>1, <2>3, <2>4, <2>5, <2>6, <2>7, CreateHomeLemma DEF Creation, Progress
<1> QED
  BY <1>3, <1>4

\* A link, done or refused: the call is at home in the cluster it was for.
LEMMA TieHomeLemma ==
  ASSUME DiskInv, NEW a \in InUse, NEW b, Fresh(b), a < b, NEW h, Home(h, a), NEW fault,
         SetFat(a, b, fault), sec' = sec
  PROVE  /\ \A x \in Clusters : x # a => fat'[x] = fat[x] /\ sec'[x] = sec[x]
         /\ Home(h, a)' /\ Home(h, b)'
<1>1. /\ DiskInv' /\ InUse' = InUse
      /\ \A c \in Clusters : c # b /\ Fresh(c) => Fresh(c)'
      /\ \A x \in Clusters : x # a => fat'[x] = fat[x]
      /\ fat'[a] = b \/ (fat' = fat /\ Fresh(b)')
  BY TryLinkLemma
<1>2. a \in Clusters /\ b \in InUse /\ b \in Clusters
  BY DEF InUse, Fresh
<1>3. Home(h, a)'
  <2>1. \A d \in Clusters : d <= a /\ Fresh(d) => Fresh(d)'
    BY <1>1, <1>2, ConstantsLemma
  <2>2. \A x \in InUse : x # a => fat'[x] = fat[x]
    BY <1>1 DEF InUse
  <2> QED
    BY <1>1, <2>1, <2>2, HomeKeptLemma
<1>4. Home(h, b)'
  <2>1. CASE fat'[a] = b
    BY <1>2, <1>3, <2>1, HomeLinkLemma
  <2>2. CASE Fresh(b)'
    BY <1>1, <1>2, <2>2, HomeSelfAfterwards DEF HomeSelf
  <2> QED
    BY <1>1, <2>1, <2>2
<1> QED
  BY <1>1, <1>3, <1>4

LEMMA LinkDirHome ==
  ASSUME IInv, IInv', HomePart, NEW fault \in Faults, LinkDir(fault) PROVE Progress
<1>1. /\ DiskInv /\ pc = "link" /\ pc # "idle" /\ pc \in Creation
      /\ current \in InUse /\ Fresh(extra) /\ current < extra
  BY DEF IInv, LinkDir, LocalPart, Creation
<1>2. /\ SetFat(current, extra, fault) /\ sec' = sec /\ current' = current /\ extra' = extra
      /\ pc' = "clear" /\ call' = call
  BY DEF LinkDir, Go, local
<1>3. PICK a \in InUse : a = current
  BY <1>1
<1>4. PICK b : b = extra
  OBVIOUS
<1>5. PICK h : h = Within
  OBVIOUS
<1>6. h # 0 /\ h \in Heads /\ Home(h, a) /\ a \in Clusters
  BY <1>1, <1>3, <1>5, ObjectLemma DEF HomePart, InUse
<1>7. Fresh(b) /\ a < b /\ SetFat(a, b, fault)
  BY <1>1, <1>2, <1>3, <1>4
<1>8. /\ \A x \in Clusters : x # a => fat'[x] = fat[x] /\ sec'[x] = sec[x]
      /\ Home(h, a)' /\ Home(h, b)'
  BY <1>1, <1>2, <1>6, <1>7, TieHomeLemma
<1>9. Within' = Within
  BY <1>1, <1>2, <1>5, <1>6, <1>8, HomeStep
<1>10. Untouched
  <2>1. a \notin Foreign
    BY <1>1, <1>5, <1>6, ForeignHomeLemma
  <2> QED
    BY <1>1, <1>6, <1>8, <2>1, ForeignLemma, UntouchedLemma
<1>11. HomePart'
  <2>1. h = Within' /\ a = current' /\ b = extra'
    BY <1>2, <1>3, <1>4, <1>5, <1>9
  <2>2. Within' # 0 /\ Home(Within, current)' /\ Home(Within, extra)'
    BY <1>6, <1>8, <2>1 DEF Home
  <2> QED
    BY <1>2, <2>2 DEF HomePart, Creation, Writing
<1> QED
  BY <1>10, <1>11 DEF Progress

LEMMA ClearDirHome ==
  ASSUME IInv, IInv', HomePart, NEW fault \in Faults, ClearDir(fault) PROVE Progress
<1>1. /\ DiskInv /\ pc = "clear" /\ pc # "idle" /\ pc \in Creation /\ extra \in Clusters
      /\ 0 \in Sectors
  BY ConstantsLemma DEF IInv, ClearDir, LocalPart, Creation, InUse
<1>2. fat' = fat /\ SetSector(extra, 0, Blank, fault)
  BY DEF ClearDir
<1>3. PICK c \in Clusters : c = extra
  BY <1>1
<1>4. PICK h : h = Within
  OBVIOUS
<1>5. h # 0 /\ h \in Heads /\ Home(h, c)
  BY <1>1, <1>3, <1>4, ObjectLemma DEF HomePart
<1>6. \A x \in Clusters : x # c => fat'[x] = fat[x] /\ sec'[x] = sec[x]
  BY <1>1, <1>2, <1>3, OneSectorLemma
<1>7. Untouched
  <2>1. c \notin Foreign
    BY <1>1, <1>4, <1>5, ForeignHomeLemma
  <2> QED
    BY <1>1, <1>6, <2>1, ForeignLemma, UntouchedLemma
<1>8. HomePart'
  <2>1. CASE fault # None
    BY <2>1, ReturnHomeLemma DEF ClearDir
  <2>2. CASE fault = None
    <3>1. current' = c /\ pc' = "slot" /\ call' = call
      BY <1>3, <2>2 DEF ClearDir, Go
    <3>2. Within' = Within
      BY <1>1, <1>4, <1>5, <1>6, <3>1, HomeStep
    <3>3. \A d \in Clusters : Fresh(d) => Fresh(d)'
      BY <1>1, <1>2, <1>3, BlankLemma
    <3>4. Home(h, c)'
      BY <1>2, <1>5, <3>3, WriteHomeLemma
    <3> QED
      BY <1>4, <1>5, <3>1, <3>2, <3>4, CreateHomeLemma DEF Creation
  <2> QED
    BY <2>1, <2>2
<1> QED
  BY <1>7, <1>8 DEF Progress

LEMMA FindHome ==
  ASSUME IInv, IInv', HomePart, NEW fault \in Faults, Find(fault) PROVE Progress
<1>1. DiskInv /\ DiskInv' /\ pc # "idle"
  BY DEF IInv, Find
<1>2. PICK start : start = find_directory_entry(call.path, fault)
  OBVIOUS
<1>3. start # 0 /\ current' = start /\ UNCHANGED disk /\ pc' = "data" /\ call' = call
  BY <1>2 DEF Find, Go
<1>4. PICK path, dir \in Seq(Names) : path = call.path /\ dir = Parent(call.path)
  BY <1>1, CallPathLemma
<1>5. start = Target
  BY <1>1, <1>2, <1>3, <1>4, FindFaultLemma DEF Target
<1>6. Target' = Target
  <2>1. find_directory_entry(path, None)' = find_directory_entry(path, None)
    BY <1>1, <1>3, StillLemma
  <2>2. path = call'.path
    BY <1>3, <1>4
  <2> QED
    BY <1>4, <2>1, <2>2 DEF Target
<1>7. start \in InUse'
  BY <1>3 DEF IInv, LocalPart, Writing
<1>8. Home(start, start)'
  BY <1>7, HomeSelfAfterwards DEF HomeSelf
<1> QED
  BY <1>1, <1>3, <1>5, <1>6, <1>8, WritingHomeLemma, StillUntouched DEF Writing, Progress

LEMMA NotFoundHome ==
  ASSUME IInv, IInv', HomePart, NEW fault \in Faults, NotFound(fault) PROVE Progress
<1>1. DiskInv /\ UNCHANGED disk /\ pc' \in {"alloc", "idle"}
  BY DEF IInv, NotFound, Go, Return
<1> QED
  BY <1>1, IdleHomeLemma, StillUntouched DEF Creation, Writing, Progress

LEMMA WriteDataHome ==
  ASSUME IInv, IInv', HomePart, NEW fault \in Faults, WriteData(fault) PROVE Progress
<1>1. /\ DiskInv /\ pc = "data" /\ pc # "idle" /\ pc \in Writing
      /\ current \in Clusters /\ j \in Sectors /\ i \in Nat /\ call.data \in Datas
  BY ArgumentLemma DEF IInv, WriteData, LocalPart, CallPart, Writing, InUse, Registers
<1>2. fat' = fat /\ SetSector(current, j, DataSector(call.data, i, j), fault)
  BY DEF WriteData
<1>3. PICK c \in Clusters : c = current
  BY <1>1
<1>4. PICK h : h = Target
  OBVIOUS
<1>5. h # 0 /\ h \in Heads /\ Home(h, c)
  BY <1>1, <1>3, <1>4, ObjectLemma DEF HomePart
<1>6. PICK q \in Sectors, d \in Datas, m \in Nat : q = j /\ d = call.data /\ m = i
  BY <1>1
<1>7. SetSector(c, q, DataSector(d, m, q), fault)
  BY <1>2, <1>3, <1>6
<1>8. \A x \in Clusters : x # c => fat'[x] = fat[x] /\ sec'[x] = sec[x]
  BY <1>1, <1>2, <1>7, OneSectorLemma
<1>9. Untouched
  <2>1. c \notin Foreign
    BY <1>1, <1>4, <1>5, ForeignHomeLemma
  <2> QED
    BY <1>1, <1>8, <2>1, ForeignLemma, UntouchedLemma
<1>10. \/ \E v : Return(v)
       \/ current' = c /\ pc' \in {"data", "grow"} /\ call' = call
  BY <1>3 DEF WriteData, Go
<1>11. HomePart'
  <2>1. CASE \E v : Return(v)
    BY <2>1, ReturnHomeLemma
  <2>2. CASE current' = c /\ pc' \in {"data", "grow"} /\ call' = call
    <3>1. Target' = Target
      BY <1>1, <1>4, <1>5, <1>8, <2>2, HomeStep
    <3>2. \A x \in Clusters : Fresh(x) => Fresh(x)'
      BY <1>1, <1>2, <1>7, TextLemma
    <3>3. Home(h, c)'
      BY <1>2, <1>5, <3>2, WriteHomeLemma
    <3> QED
      BY <1>4, <1>5, <2>2, <3>1, <3>3, WritingHomeLemma DEF Writing
  <2> QED
    BY <1>10, <2>1, <2>2
<1> QED
  BY <1>9, <1>11 DEF Progress

LEMMA GrowHome ==
  ASSUME IInv, IInv', HomePart, NEW fault \in Faults, Grow(fault) PROVE Progress
<1>1. DiskInv /\ pc = "grow" /\ pc # "idle" /\ current \in Clusters
  BY DEF IInv, Grow, LocalPart, Writing, InUse
<1>2. PICK new : new = FreeCluster(fault)
  OBVIOUS
<1>3. CASE new = 0
  <2>1. Return("fail") /\ UNCHANGED disk
    BY <1>2, <1>3 DEF Grow
  <2> QED
    BY <1>1, <2>1, ReturnHomeLemma, StillUntouched DEF Progress
<1>4. CASE new # 0
  <2>1. /\ fat' = [fat EXCEPT ![new] = EOC] /\ sec' = sec
        /\ current' = current /\ pc' = "tie" /\ call' = call
    BY <1>2, <1>4 DEF Grow, Go
  <2>2. new \in Clusters /\ fat[new] = 0 /\ \A d \in Clusters : fat[d] = 0 => new <= d
    BY <1>2, <1>4, FreeLemma
  <2>3. /\ Target' = Target /\ Untouched
        /\ \A h : \A c \in Clusters : Home(h, c) => Home(h, c)'
    BY <1>1, <2>1, <2>2, MarkHomeLemma
  <2>4. PICK h : h = Target
    OBVIOUS
  <2>5. PICK c \in Clusters : c = current
    BY <1>1
  <2>6. h # 0 /\ Home(h, c)
    BY <1>1, <2>4, <2>5 DEF HomePart, Writing
  <2>7. Home(h, c)'
    BY <2>3, <2>6
  <2> QED
    BY <2>1, <2>3, <2>4, <2>5, <2>6, <2>7, WritingHomeLemma DEF Writing, Progress
<1> QED
  BY <1>3, <1>4

LEMMA TieHome ==
  ASSUME IInv, IInv', HomePart, NEW fault \in Faults, Tie(fault) PROVE Progress
<1>1. /\ DiskInv /\ pc = "tie" /\ pc # "idle" /\ pc \in Writing
      /\ current \in InUse /\ Fresh(extra) /\ current < extra
  BY DEF IInv, Tie, LocalPart, Writing
<1>2. /\ SetFat(current, extra, fault) /\ sec' = sec /\ current' = extra
      /\ pc' = "data" /\ call' = call
  BY DEF Tie, Go
<1>3. PICK a \in InUse : a = current
  BY <1>1
<1>4. PICK b : b = extra
  OBVIOUS
<1>5. PICK h : h = Target
  OBVIOUS
<1>6. h # 0 /\ h \in Heads /\ Home(h, a) /\ a \in Clusters
  BY <1>1, <1>3, <1>5, ObjectLemma DEF HomePart, InUse
<1>7. Fresh(b) /\ a < b /\ SetFat(a, b, fault)
  BY <1>1, <1>2, <1>3, <1>4
<1>8. /\ \A x \in Clusters : x # a => fat'[x] = fat[x] /\ sec'[x] = sec[x]
      /\ Home(h, b)'
  BY <1>1, <1>2, <1>6, <1>7, TieHomeLemma
<1>9. Target' = Target
  BY <1>1, <1>2, <1>5, <1>6, <1>8, HomeStep
<1>10. Untouched
  <2>1. a \notin Foreign
    BY <1>1, <1>5, <1>6, ForeignHomeLemma
  <2> QED
    BY <1>1, <1>6, <1>8, <2>1, ForeignLemma, UntouchedLemma
<1> QED
  BY <1>2, <1>4, <1>5, <1>6, <1>8, <1>9, <1>10, WritingHomeLemma DEF Writing, Progress

LEMMA DeleteHome ==
  ASSUME IInv, IInv', HomePart, NEW fault \in Faults, delete_file(fault)
  PROVE  HomePart' /\ call.op = "delete"
<1>1. HomePart'
  BY ReturnHomeLemma DEF delete_file
<1>2. call.op = "delete"
  BY DEF IInv, CallPart, delete_file
<1> QED
  BY <1>1, <1>2

\* A step that leaves the disk and the call where they are.
LEMMA StillHome ==
  ASSUME IInv, IInv', HomePart, UNCHANGED <<disk, pc, call, current, extra>>
  PROVE  HomePart'
<1>1. CASE pc \notin Creation \cup Writing
  BY <1>1, IdleHomeLemma
<1>2. CASE pc \in Creation \cup Writing
  <2>1. pc # "idle" /\ DiskInv /\ DiskInv'
    BY <1>2 DEF IInv, Creation, Writing
  <2>2. PICK path, dir \in Seq(Names) : path = call.path /\ dir = Parent(call.path)
    BY <2>1, CallPathLemma
  <2>3. /\ find_directory_entry(path, None)' = find_directory_entry(path, None)
        /\ find_directory_entry(dir, None)' = find_directory_entry(dir, None)
    BY <2>1, StillLemma
  <2>4. path = call'.path /\ dir = Parent(call'.path)
    BY <2>2
  <2>5. Within' = Within /\ Target' = Target
    BY <2>2, <2>3, <2>4 DEF Within, Target
  <2>6. \A d \in Clusters : Fresh(d) => Fresh(d)'
    BY <2>1, SameDiskLemma
  <2>7. ASSUME NEW h, NEW c, Home(h, c) PROVE Home(h, c)'
    BY <2>6, <2>7, WriteHomeLemma DEF disk
  <2>8. PICK h, t, c, e : h = Within /\ t = Target /\ c = current /\ e = extra
    OBVIOUS
  <2>9. h = Within' /\ t = Target' /\ c = current' /\ e = extra'
    BY <2>5, <2>8
  <2>10. /\ pc \in Creation => h # 0 /\ Home(h, c)
         /\ pc = "clear" => Home(h, e)
         /\ pc \in Writing => t # 0 /\ Home(t, c)
    BY <2>8 DEF HomePart
  <2>11. /\ pc \in Creation => h # 0 /\ Home(h, c)'
         /\ pc = "clear" => Home(h, e)'
         /\ pc \in Writing => t # 0 /\ Home(t, c)'
    BY <2>7, <2>10
  <2> QED
    BY <2>9, <2>11 DEF HomePart, Home
<1> QED
  BY <1>1, <1>2

LEMMA StepHome ==
  ASSUME IInv, IInv', HomePart, NEW fault \in Faults, Step(fault) PROVE Progress
<1>1. CASE Alloc(fault)
  BY <1>1, AllocHome
<1>2. CASE ZeroCluster(fault)
  BY <1>2, ZeroClusterHome
<1>3. CASE Undo(fault)
  BY <1>3, UndoHome
<1>4. CASE FillSlot(fault)
  BY <1>4, FillSlotHome
<1>5. CASE NextDirCluster(fault)
  BY <1>5, NextDirClusterHome
<1>6. CASE ExtendDir(fault)
  BY <1>6, ExtendDirHome
<1>7. CASE LinkDir(fault)
  BY <1>7, LinkDirHome
<1>8. CASE ClearDir(fault)
  BY <1>8, ClearDirHome
<1>9. CASE Find(fault)
  BY <1>9, FindHome
<1>10. CASE NotFound(fault)
  BY <1>10, NotFoundHome
<1>11. CASE WriteData(fault)
  BY <1>11, WriteDataHome
<1>12. CASE Grow(fault)
  BY <1>12, GrowHome
<1>13. CASE Tie(fault)
  BY <1>13, TieHome
<1>14. CASE delete_file(fault)
  BY <1>14, DeleteHome DEF Progress
<1> QED
  BY <1>1, <1>2, <1>3, <1>4, <1>5, <1>6, <1>7, <1>8, <1>9, <1>10, <1>11, <1>12, <1>13, <1>14
  DEF Step

LEMMA NextHome ==
  ASSUME IInv, IInv', HomePart, [Next]_vars
  PROVE  HomePart' /\ (pc # "idle" /\ call.op # "delete" => Untouched)
<1>1. DiskInv
  BY DEF IInv
<1>2. CASE UNCHANGED vars
  BY <1>1, <1>2, StillHome, StillUntouched DEF vars, local
<1>3. CASE \E fault \in Faults : init(fault)
  <2>1. pc = "idle" /\ UNCHANGED <<disk, pc, call, current, extra>>
    BY <1>3 DEF init, local
  <2> QED
    BY <2>1, StillHome
<1>4. CASE Elsewhere
  <2>1. pc = "idle" /\ UNCHANGED <<disk, pc, call, current, extra>>
    BY <1>4 DEF Elsewhere, local
  <2> QED
    BY <2>1, StillHome
<1>5. CASE \E c \in Calls : Call(c)
  <2>1. PICK c \in Calls : Call(c)
    BY <1>5
  <2>2. pc = "idle" /\ pc' \in {"alloc", "find", "unlink"}
    BY <2>1, ArgumentLemma DEF Call
  <2> QED
    BY <2>2, IdleHomeLemma DEF Creation, Writing
<1>6. CASE Proceed
  BY <1>6, StepHome DEF Proceed, Progress
<1>7. CASE Crash
  <2>1. pc' = "idle" /\ UNCHANGED disk
    BY <1>7 DEF Crash
  <2> QED
    BY <1>1, <2>1, IdleHomeLemma, StillUntouched DEF Creation, Writing
<1> QED
  BY <1>2, <1>3, <1>4, <1>5, <1>6, <1>7 DEF Next

\* create_file and write_file change neither the contents nor the chain of any
\* other file or directory, whichever transfers fail in the middle and whatever
\* an earlier power failure left behind: each of their writes goes to a cluster
\* that was free, or to one on the chain of the object the call is about
\* (fat32.cpp:102-113, :398-453, :559-584).
THEOREM OthersUntouched == Spec => Isolation
<1>1. Init => HomePart
  BY DEF Init, HomePart, Creation, Writing
<1>2. IInv /\ IInv' /\ HomePart /\ [Next]_vars =>
        HomePart' /\ [pc # "idle" /\ call.op # "delete" =>
                        \A c \in Foreign : fat'[c] = fat[c] /\ sec'[c] = sec[c]]_vars
  BY NextHome DEF Untouched
<1> QED
  BY <1>1, <1>2, Invariance, PTL DEF Spec, Isolation

----------------------------------------------------------------------------
\* What a listing shows.
LEMMA ListLemma ==
  ASSUME NEW starts, NEW e
  PROVE  e \in list_directory(starts) <=>
           \E c \in Chains(starts) : \E s \in Seen(c) : e = <<c, s, sec[c][0][s]>>
BY DEF list_directory

LEMMA BareLemma == ASSUME NEW c, Bare(c) PROVE Seen(c) = {}
BY DEF Bare, Seen

\* Every entry of a cluster in use is still there after the step, and a scan
\* still gets to it.
Stays == \A c \in InUse :
           /\ Seen(c) \subseteq Seen(c)'
           /\ \A s \in Slots : sec[c][0][s].kind = "entry" =>
                                 fat'[c] # 0 /\ sec'[c][0][s] = sec[c][0][s]

LEMMA StaysLemma ==
  ASSUME DiskInv, Stays
  PROVE  Heads \subseteq Heads'
<1>1. ASSUME NEW p \in Places PROVE p \in Places' /\ First(p)' = First(p)
  <2>1. p \in Clusters \X Slots /\ fat[p[1]] # 0 /\ sec[p[1]][0][p[2]].kind = "entry"
    BY DEF Places
  <2>2. p[1] \in InUse /\ p[2] \in Slots
    BY <2>1 DEF InUse
  <2>3. fat'[p[1]] # 0 /\ sec'[p[1]][0][p[2]] = sec[p[1]][0][p[2]]
    BY <2>1, <2>2 DEF Stays
  <2> QED
    BY <2>1, <2>3 DEF Places, First
<1> QED
  BY <1>1 DEF Heads

HeadsIn == Heads \subseteq Clusters

LEMMA HeadsInLemma == DiskInv => HeadsIn
BY HeadsLemma DEF Origin, InUse, HeadsIn

LEMMA HeadsInAfter == DiskInv' => HeadsIn'
BY HeadsInLemma, PTL

\* When a step changes one link only, the entries a listing loses stand behind
\* where it led.
LEMMA LostLemma ==
  ASSUME DiskInv, DiskInv', Stays, NEW x \in Clusters,
         \A c \in Clusters : c # x /\ fat[c] \in Clusters => fat'[c] = fat[c],
         NEW e \in list_directory(Heads), e \notin list_directory(Heads)'
  PROVE  /\ fat[x] \in Clusters /\ fat'[x] # fat[x] /\ e[1] \in Chains({fat[x]})
<1>1. Heads \subseteq InUse /\ Heads \in SUBSET Clusters
  BY HeadsLemma DEF Origin, InUse
<1>2. Heads \subseteq Heads' /\ Heads' \in SUBSET Clusters
  BY StaysLemma, HeadsInAfter DEF HeadsIn
<1>3. Chains(Heads) = Along(Heads) /\ Chains(Heads)' = Along(Heads)'
  <2>1. ChainsFact /\ ChainsFact'
    BY ChainsAreAlong, ChainsAreAlongAfter
  <2> QED
    BY <1>1, <1>2, <2>1 DEF ChainsFact
<1>4. PICK c \in Chains(Heads) : \E s \in Seen(c) : e = <<c, s, sec[c][0][s]>>
  BY ListLemma
<1>5. PICK s \in Seen(c) : e = <<c, s, sec[c][0][s]>>
  BY <1>4
<1>6. PICK o \in Heads : c \in Reach(o)
  BY <1>1, <1>3, <1>4, AlongLemma
<1>7. o \in Clusters /\ o \in InUse /\ c \in InUse
  BY <1>1, <1>6, HeadsLemma
<1>8. s \in Seen(c)' /\ sec'[c][0][s] = sec[c][0][s]
  <2>1. s \in Slots /\ sec[c][0][s].kind = "entry"
    BY DEF Seen
  <2> QED
    BY <1>7, <2>1 DEF Stays
<1>9. c \notin Reach(o)'
  <2>1. c \notin Chains(Heads)'
    <3> SUFFICES ASSUME c \in Chains(Heads)' PROVE FALSE
      OBVIOUS
    <3>1. e = <<c, s, sec'[c][0][s]>>
      BY <1>5, <1>8
    <3> QED
      BY <1>8, <3>1 DEF list_directory
  <2>2. o \in Heads'
    BY <1>2, <1>6
  <2> QED
    BY <1>3, <2>1, <2>2 DEF Along
<1>10. PICK V \in SUBSET Clusters : o \in V /\ Closed(V)' /\ c \notin V
  BY <1>7, <1>9 DEF Reach, InUse
<1>11. fat[x] \in Clusters /\ fat'[x] # fat[x]
  <2> SUFFICES ASSUME ~(fat[x] \in Clusters /\ fat'[x] # fat[x]) PROVE FALSE
    OBVIOUS
  <2>1. \A y \in Clusters : fat[y] \in Clusters => fat'[y] = fat[y]
    OBVIOUS
  <2>2. Closed(V)
    BY <1>10, <2>1 DEF Closed
  <2> QED
    BY <1>6, <1>7, <1>10, <2>2, ReachLemma
<1>12. c \in Reach(fat[x])
  <2> SUFFICES ASSUME c \notin Reach(fat[x]) PROVE FALSE
    OBVIOUS
  <2>1. PICK t \in Clusters : t = fat[x]
    BY <1>11
  <2> DEFINE U == V \cup Reach(t)
  <2>2. t \in Reach(t) /\ Reach(t) \subseteq Clusters /\ Closed(Reach(t))
    BY ReachLemma
  <2>3. U \in SUBSET Clusters /\ o \in U /\ c \notin U
    BY <1>10, <2>1, <2>2
  <2>4. Closed(U)
    <3> SUFFICES ASSUME NEW y \in U, fat[y] \in Clusters PROVE fat[y] \in U
      BY DEF Closed
    <3>1. CASE y \in Reach(t)
      BY <2>2, <3>1 DEF Closed
    <3>2. CASE y = x
      BY <2>1, <2>2, <3>2
    <3>3. CASE y \in V /\ y # x
      <4>1. fat'[y] = fat[y] /\ y \in V
        BY <2>3, <3>3
      <4> QED
        BY <1>10, <4>1 DEF Closed
    <3> QED
      BY <3>1, <3>2, <3>3
  <2> HIDE DEF U
  <2> QED
    BY <1>6, <1>7, <2>3, <2>4, ReachLemma
<1>13. e[1] \in Chains({fat[x]})
  <2>1. {fat[x]} \in SUBSET Clusters
    BY <1>11
  <2>2. Chains({fat[x]}) = Along({fat[x]})
    BY <2>1, ChainsAreAlong DEF ChainsFact
  <2> QED
    BY <1>5, <1>12, <2>2 DEF Along
<1> QED
  BY <1>11, <1>13

\* In particular nothing is lost where no link changes.
LEMMA NothingLostLemma ==
  ASSUME DiskInv, DiskInv', Stays,
         \A c \in Clusters : fat[c] \in Clusters => fat'[c] = fat[c]
  PROVE  list_directory(Heads) \subseteq list_directory(Heads)'
<1> SUFFICES ASSUME NEW e \in list_directory(Heads), e \notin list_directory(Heads)' PROVE FALSE
  OBVIOUS
<1>1. PICK x \in Clusters : x = ROOT
  BY ConstantsLemma
<1>2. fat[x] \in Clusters /\ fat'[x] # fat[x]
  BY LostLemma
<1> QED
  BY <1>2

\* No entry is lost with the contents of a cluster that has none.
LEMMA BareStays ==
  ASSUME NEW b, Bare(b), \A c \in InUse : c # b => fat'[c] # 0 /\ sec'[c] = sec[c]
  PROVE  Stays
<1> SUFFICES ASSUME NEW c \in InUse
             PROVE  /\ Seen(c) \subseteq Seen(c)'
                    /\ \A s \in Slots : sec[c][0][s].kind = "entry" =>
                         fat'[c] # 0 /\ sec'[c][0][s] = sec[c][0][s]
  BY DEF Stays
<1>1. CASE c = b
  BY <1>1, BareLemma DEF Bare
<1>2. CASE c # b
  BY <1>2 DEF Seen
<1> QED
  BY <1>1, <1>2

LEMMA SameSectorsStay ==
  ASSUME sec' = sec, \A c \in InUse : fat'[c] # 0
  PROVE  Stays
BY DEF Stays, Seen

----------------------------------------------------------------------------
\* What creating a file does to listings, step by step.
Kept == list_directory(Heads) \subseteq list_directory(Heads)'

LEMMA StillKeeps == ASSUME IInv, IInv', UNCHANGED disk PROVE Kept
<1>1. DiskInv /\ DiskInv'
  BY DEF IInv
<1>2. Stays
  BY SameSectorsStay DEF disk, InUse
<1> QED
  BY <1>1, <1>2, NothingLostLemma DEF disk, Kept

LEMMA MarkKeeps ==
  ASSUME IInv, IInv', NEW new \in Clusters, fat[new] = 0,
         fat' = [fat EXCEPT ![new] = EOC], sec' = sec
  PROVE  Kept
<1>1. DiskInv /\ DiskInv' /\ fat \in [Clusters -> {0, EOC} \cup Clusters]
  BY DEF IInv, DiskInv
<1>2. \A c \in Clusters : fat[c] # 0 => fat'[c] = fat[c]
  BY <1>1
<1>3. Stays
  BY <1>2, SameSectorsStay DEF InUse
<1>4. \A c \in Clusters : fat[c] \in Clusters => fat'[c] = fat[c]
  BY <1>2, ConstantsLemma
<1> QED
  BY <1>1, <1>3, <1>4, NothingLostLemma DEF Kept

LEMMA BlankKeeps ==
  ASSUME IInv, IInv', NEW b \in Clusters, Bare(b), NEW q, NEW fault,
         fat' = fat, SetSector(b, q, Blank, fault)
  PROVE  Kept
<1>1. DiskInv /\ DiskInv'
  BY DEF IInv
<1>2. \A x \in Clusters : x # b => fat'[x] = fat[x] /\ sec'[x] = sec[x]
  BY <1>1, OneSectorLemma
<1>3. Stays
  BY <1>2, BareStays DEF InUse
<1> QED
  BY <1>1, <1>3, NothingLostLemma DEF Kept

LEMMA UndoKeeps == ASSUME IInv, IInv', NEW fault, Undo(fault) PROVE Kept
<1>1. DiskInv /\ DiskInv' /\ fat \in [Clusters -> {0, EOC} \cup Clusters]
  BY DEF IInv, DiskInv
<1>2. PICK b \in Clusters : b = cluster
  BY DEF IInv, Undo, LocalPart, Creation, Fresh, InUse
<1>3. Bare(b) /\ \A d \in Clusters : d > b => fat[d] = 0
  BY <1>2 DEF IInv, Undo, LocalPart
<1>4. SetFat(b, 0, fault) /\ sec' = sec
  BY <1>2 DEF Undo
<1>5. \A c \in Clusters : c # b => fat'[c] = fat[c]
  BY <1>1, <1>4 DEF SetFat
<1>6. fat[b] \notin Clusters
  BY <1>1, <1>3 DEF DiskInv, ChainsApart
<1>7. Stays
  BY <1>3, <1>4, <1>5, BareStays DEF InUse
<1> QED
  BY <1>1, <1>5, <1>6, <1>7, NothingLostLemma DEF Kept

LEMMA FillSlotKeeps == ASSUME IInv, IInv', NEW fault, FillSlot(fault) PROVE Kept
<1>1. DiskInv /\ DiskInv' /\ sec \in [Clusters -> [Sectors -> Sector]] /\ 0 \in Sectors
  BY ConstantsLemma DEF IInv, DiskInv, Shape
<1>2. PICK c \in Clusters : c = current
  BY DEF IInv, FillSlot, LocalPart, Creation, InUse
<1>3. PICK s : s = Least(Reusable(c))
  OBVIOUS
<1>4. s \in Slots /\ sec[c][0][s].kind \in {"zero", "deleted"}
  <2>1. Reusable(c) # {} /\ Reusable(c) \subseteq Nat
    BY <1>2, ConstantsLemma DEF FillSlot, Reusable
  <2> QED
    BY <1>3, <2>1, LeastLemma DEF Reusable
<1>5. PICK e : e = Entry(Stored[Base(call.path)], call.attributes, cluster)
  OBVIOUS
<1>6. e.kind = "entry"
  BY <1>5 DEF Entry
<1>7. fat' = fat /\ (sec' = sec \/ sec' = [sec EXCEPT ![c][0][s] = e])
  BY <1>2, <1>3, <1>5 DEF FillSlot
<1>8. CASE sec' = sec
  BY <1>7, <1>8, StillKeeps DEF disk
<1>9. CASE sec' = [sec EXCEPT ![c][0][s] = e]
  <2>1. /\ \A x \in Clusters : x # c => sec'[x] = sec[x]
        /\ sec'[c][0][s] = e
        /\ \A t \in Slots : t # s => sec'[c][0][t] = sec[c][0][t]
    <3>1. sec[c] \in [Sectors -> Sector] /\ sec[c][0] \in Sector
      BY <1>1
    <3>2. sec[c][0] \in [Slots -> Content]
      BY <3>1 DEF Sector
    <3>3. sec'[c] = [sec[c] EXCEPT ![0][s] = e] /\ \A x \in Clusters : x # c => sec'[x] = sec[x]
      BY <1>1, <1>9
    <3>4. sec'[c][0] = [sec[c][0] EXCEPT ![s] = e]
      BY <1>1, <3>1, <3>3
    <3> QED
      BY <1>4, <3>2, <3>3, <3>4
  <2>2. Seen(c) \subseteq Seen(c)'
    <3> SUFFICES ASSUME NEW t \in Seen(c) PROVE t \in Seen(c)'
      OBVIOUS
    <3>1. /\ t \in Slots /\ sec[c][0][t].kind = "entry"
          /\ \A u \in 1..t : sec[c][0][u].kind # "zero"
      BY DEF Seen
    <3>2. t # s
      BY <1>4, <3>1
    <3>3. \A u \in 1..t : u \in Slots
      BY <3>1, ConstantsLemma DEF Slots
    <3>4. \A u \in 1..t : sec'[c][0][u].kind # "zero"
      BY <1>6, <2>1, <3>1, <3>3
    <3> QED
      BY <2>1, <3>1, <3>2, <3>4 DEF Seen
  <2>3. \A t \in Slots : sec[c][0][t].kind = "entry" => sec'[c][0][t] = sec[c][0][t]
    BY <1>4, <2>1
  <2>4. ASSUME NEW x \in InUse
        PROVE  /\ Seen(x) \subseteq Seen(x)'
               /\ \A t \in Slots : sec[x][0][t].kind = "entry" =>
                    fat'[x] # 0 /\ sec'[x][0][t] = sec[x][0][t]
    <3>1. x \in Clusters /\ fat'[x] # 0
      BY <1>7 DEF InUse
    <3>2. CASE x = c
      BY <2>2, <2>3, <3>1, <3>2
    <3>3. CASE x # c
      BY <2>1, <3>1, <3>3 DEF Seen
    <3> QED
      BY <3>2, <3>3
  <2>5. Stays
    BY <2>4 DEF Stays
  <2> QED
    BY <1>1, <1>7, <2>5, NothingLostLemma DEF Kept
<1> QED
  BY <1>7, <1>8, <1>9

\* What a directory that grows links is empty; and only a FAT entry that could
\* not be read makes the code grow a directory that goes on.
LinkPart ==
  /\ pc \in {"link", "clear"} => Bare(extra)
  /\ pc = "link" /\ fat[current] \in Clusters => ~clean

Tails == \A e \in list_directory(Heads) \ (list_directory(Heads))' :
           ~clean /\ pc = "link" /\ fat[current] \in Clusters /\ e[1] \in Chains({fat[current]})

LEMMA LinkDirTails ==
  ASSUME IInv, IInv', LinkPart, NEW fault, LinkDir(fault) PROVE Tails
<1>1. /\ DiskInv /\ DiskInv' /\ pc = "link" /\ current \in InUse /\ Fresh(extra)
      /\ fat \in [Clusters -> {0, EOC} \cup Clusters]
  BY DEF IInv, DiskInv, LinkDir, LocalPart, Creation
<1>2. PICK x \in Clusters : x = current
  BY <1>1 DEF InUse
<1>3. PICK b \in Clusters : b = extra
  BY <1>1 DEF Fresh, InUse
<1>4. sec' = sec /\ (fat' = fat \/ fat' = [fat EXCEPT ![x] = b])
  BY <1>2, <1>3 DEF LinkDir, SetFat
<1>5. \A c \in Clusters : c # x => fat'[c] = fat[c]
  BY <1>1, <1>4
<1>6. Stays
  <2>1. \A c \in InUse : fat'[c] # 0
    BY <1>1, <1>3, <1>4, ConstantsLemma DEF InUse
  <2> QED
    BY <1>4, <2>1, SameSectorsStay
<1> SUFFICES ASSUME NEW e \in list_directory(Heads), e \notin list_directory(Heads)'
             PROVE  /\ ~clean /\ pc = "link" /\ fat[current] \in Clusters
                    /\ e[1] \in Chains({fat[current]})
  BY DEF Tails
<1>7. fat[x] \in Clusters /\ e[1] \in Chains({fat[x]})
  BY <1>1, <1>5, <1>6, LostLemma
<1> QED
  BY <1>1, <1>2, <1>7 DEF LinkPart

LEMMA ExtendDirLinks ==
  ASSUME IInv, NEW fault, Charge(fault), ExtendDir(fault) PROVE LinkPart'
<1>1. DiskInv /\ current \in Clusters /\ fat \in [Clusters -> {0, EOC} \cup Clusters]
  BY DEF IInv, DiskInv, ExtendDir, LocalPart, Creation, InUse
<1>2. PICK new : new = FreeCluster(fault)
  OBVIOUS
<1>3. CASE new = 0 \/ fault = <<"dir", current>>
  BY <1>2, <1>3 DEF ExtendDir, Return, LinkPart
<1>4. CASE ~(new = 0 \/ fault = <<"dir", current>>)
  <2>1. /\ fat' = [fat EXCEPT ![new] = EOC] /\ sec' = sec /\ extra' = new
        /\ current' = current
    BY <1>2, <1>4 DEF ExtendDir
  <2>2. new \in Clusters /\ fat[new] = 0
    BY <1>2, <1>4, FreeLemma
  <2>3. Bare(extra)'
    BY <1>1, <2>1, <2>2 DEF DiskInv, FreeBare, Bare
  <2>4. ASSUME fat'[current'] \in Clusters PROVE ~clean'
    <3>1. fat[current] \in Clusters
      BY <1>1, <2>1, <2>2, <2>4, ConstantsLemma
    <3>2. get_fat_entry(current, fault) \in {0, EOC}
      BY <1>4 DEF ExtendDir
    <3>3. fault # None
      BY <3>1, <3>2, <1>1, ConstantsLemma DEF get_fat_entry, None
    <3> QED
      BY <3>3 DEF Charge
  <2> QED
    BY <2>3, <2>4 DEF LinkPart
<1> QED
  BY <1>3, <1>4

\* The steps of a call that creates, and what they lead to.
LEMMA CreatingLemma ==
  ASSUME IInv, IInv', LinkPart, Creating, NEW fault, Charge(fault), Step(fault)
  PROVE  LinkPart' /\ Tails
<1>1. Kept => Tails
  BY DEF Kept, Tails
<1>2. pc' \notin {"link", "clear"} => LinkPart'
  BY DEF LinkPart
<1>3. DiskInv
  BY DEF IInv
<1>4. CASE Alloc(fault)
  <2>1. pc' \in {"idle", "zero"}
    BY <1>4 DEF Alloc, Return, Go
  <2>2. PICK new : new = FreeCluster(fault)
    OBVIOUS
  <2>3. UNCHANGED disk \/ (new # 0 /\ fat' = [fat EXCEPT ![new] = EOC] /\ sec' = sec)
    BY <1>4, <2>2 DEF Alloc
  <2>4. Kept
    <3>1. CASE UNCHANGED disk
      BY <3>1, StillKeeps
    <3>2. CASE new # 0 /\ fat' = [fat EXCEPT ![new] = EOC] /\ sec' = sec
      <4>1. new \in Clusters /\ fat[new] = 0
        BY <2>2, <3>2, FreeLemma
      <4> QED
        BY <3>2, <4>1, MarkKeeps
    <3> QED
      BY <2>3, <3>1, <3>2
  <2> QED
    BY <1>1, <1>2, <2>1, <2>4
<1>5. CASE ZeroCluster(fault)
  <2>1. pc' \in {"undo", "slot", "zero"}
    BY <1>5 DEF ZeroCluster, Go
  <2>2. PICK b \in Clusters : b = cluster
    BY <1>5 DEF IInv, ZeroCluster, LocalPart, Creation, Fresh, InUse
  <2>3. Bare(b) /\ fat' = fat /\ SetSector(b, j, Blank, fault)
    BY <1>5, <2>2 DEF IInv, ZeroCluster, LocalPart
  <2> QED
    BY <1>1, <1>2, <2>1, <2>3, BlankKeeps
<1>6. CASE Undo(fault)
  <2>1. pc' = "idle"
    BY <1>6 DEF Undo, Return
  <2> QED
    BY <1>1, <1>2, <1>6, <2>1, UndoKeeps
<1>7. CASE FillSlot(fault)
  <2>1. pc' \in {"idle", "refind"}
    BY <1>7 DEF FillSlot, Created, Return, Go
  <2> QED
    BY <1>1, <1>2, <1>7, <2>1, FillSlotKeeps
<1>8. CASE NextDirCluster(fault)
  <2>1. pc' = "slot" /\ UNCHANGED disk
    BY <1>8 DEF NextDirCluster, Go
  <2> QED
    BY <1>1, <1>2, <2>1, StillKeeps
<1>9. CASE ExtendDir(fault)
  <2>1. PICK new : new = FreeCluster(fault)
    OBVIOUS
  <2>2. UNCHANGED disk \/ (new # 0 /\ fat' = [fat EXCEPT ![new] = EOC] /\ sec' = sec)
    BY <1>9, <2>1 DEF ExtendDir
  <2>3. Kept
    <3>1. CASE UNCHANGED disk
      BY <3>1, StillKeeps
    <3>2. CASE new # 0 /\ fat' = [fat EXCEPT ![new] = EOC] /\ sec' = sec
      <4>1. new \in Clusters /\ fat[new] = 0
        BY <2>1, <3>2, FreeLemma
      <4> QED
        BY <3>2, <4>1, MarkKeeps
    <3> QED
      BY <2>2, <3>1, <3>2
  <2> QED
    BY <1>1, <1>9, <2>3, ExtendDirLinks
<1>10. CASE LinkDir(fault)
  <2>1. pc' = "clear" /\ sec' = sec /\ extra' = extra /\ pc = "link"
    BY <1>10 DEF LinkDir, Go, local
  <2>2. LinkPart'
    BY <2>1 DEF LinkPart, Bare
  <2> QED
    BY <1>10, <2>2, LinkDirTails
<1>11. CASE ClearDir(fault)
  <2>1. pc' \in {"idle", "slot"}
    BY <1>11 DEF ClearDir, Return, Go
  <2>2. PICK b \in Clusters : b = extra
    BY <1>11 DEF IInv, ClearDir, LocalPart, InUse
  <2>3. Bare(b) /\ fat' = fat /\ SetSector(b, 0, Blank, fault)
    BY <1>11, <2>2 DEF ClearDir, LinkPart
  <2> QED
    BY <1>1, <1>2, <2>1, <2>3, BlankKeeps
<1> QED
  BY <1>4, <1>5, <1>6, <1>7, <1>8, <1>9, <1>10, <1>11
  DEF Step, Creating, Find, NotFound, WriteData, Grow, Tie, delete_file

\* No other step leads to the link.
LEMMA ElsewhereLinks ==
  ASSUME ~Creating, NEW fault, Step(fault) PROVE pc' \notin {"link", "clear"}
<1>1. pc \notin {"alloc", "zero", "undo", "slot", "link", "clear"}
  BY DEF Creating
<1>2. CASE Find(fault) \/ NotFound(fault)
  BY <1>2 DEF Find, NotFound, Go, Return
<1>3. CASE WriteData(fault)
  BY <1>3 DEF WriteData, Go, Return
<1>4. CASE Grow(fault) \/ Tie(fault)
  BY <1>4 DEF Grow, Tie, Go, Return
<1>5. CASE delete_file(fault)
  BY <1>5 DEF delete_file, Return
<1> QED
  BY <1>1, <1>2, <1>3, <1>4, <1>5
  DEF Step, Alloc, ZeroCluster, Undo, FillSlot, NextDirCluster, ExtendDir, LinkDir, ClearDir

LEMMA NextTails ==
  ASSUME IInv, IInv', LinkPart, [Next]_vars PROVE LinkPart' /\ (Creating => Tails)
<1>1. pc' \notin {"link", "clear"} => LinkPart'
  BY DEF LinkPart
<1>2. UNCHANGED disk => Tails
  BY StillKeeps DEF Kept, Tails
<1>3. CASE UNCHANGED vars
  <2>1. LinkPart'
    BY <1>3 DEF LinkPart, Bare, vars, disk, local
  <2> QED
    BY <1>2, <1>3, <2>1 DEF vars
<1>4. CASE (\E fault \in Faults : init(fault)) \/ Elsewhere
  BY <1>1, <1>4 DEF init, Elsewhere, Creating
<1>5. CASE \E c \in Calls : Call(c)
  BY <1>1, <1>5, ArgumentLemma DEF Call, Creating
<1>6. CASE Proceed
  <2>1. PICK fault \in Faults : Charge(fault) /\ Step(fault)
    BY <1>6 DEF Proceed
  <2>2. CASE Creating
    BY <2>1, <2>2, CreatingLemma
  <2>3. CASE ~Creating
    BY <1>1, <2>1, <2>3, ElsewhereLinks
  <2> QED
    BY <2>2, <2>3
<1>7. CASE Crash
  BY <1>1, <1>2, <1>7 DEF Crash
<1> QED
  BY <1>3, <1>4, <1>5, <1>6, <1>7 DEF Next

\* Creating a file or a directory takes no entry from any listing, whichever
\* write is refused and whenever the power fails, with one exception: where the
\* FAT entry of a full directory's cluster cannot be read, the code takes it for
\* the end, and what stood behind is lost (fat32.cpp:60-73, :436-453).
THEOREM CreatesKeepListings == Spec => CreateLosesOnlyTails
<1>1. Init => LinkPart
  BY DEF Init, LinkPart
<1>2. IInv /\ IInv' /\ LinkPart /\ [Next]_vars =>
        LinkPart' /\ [Creating => \A e \in list_directory(Heads) \ (list_directory(Heads))' :
                        ~clean /\ pc = "link" /\ fat[current] \in Clusters
                        /\ e[1] \in Chains({fat[current]})]_vars
  BY NextTails DEF Tails
<1> QED
  BY <1>1, <1>2, Invariance, PTL DEF Spec, CreateLosesOnlyTails

----------------------------------------------------------------------------
\* A lookup finds a name that matches anywhere on the chain.
FoundFact == \A dir \in InUse : \A n : \A c \in Reach(dir) :
               Matching(c, n) # {} => Lookup(dir, n, None) # 0

LEMMA FoundLemma == DiskInv => FoundFact
<1> SUFFICES ASSUME DiskInv, NEW dir \in InUse, NEW n, NEW c \in Reach(dir),
                    Matching(c, n) # {}, Lookup(dir, n, None) = 0
             PROVE  FALSE
  BY DEF FoundFact
<1>1. PICK g : IsScan(g, n, None) /\ \A d : Lookup(d, n, None) = g[Depth][d]
  BY ScanLemma
<1> DEFINE U == {d \in Clusters : \E m \in 1..Depth : m > LAST_CLUSTER - d /\ g[m][d] = 0}
<1>2. Depth \in Nat /\ Depth = LAST_CLUSTER - ROOT + 1
  BY LinksLemma DEF Depth
<1>3. dir \in U
  <2>1. dir \in Clusters /\ Depth \in 1..Depth /\ Depth > LAST_CLUSTER - dir
    BY <1>2, ConstantsLemma DEF InUse
  <2> QED
    BY <1>1, <2>1
<1>4. ASSUME NEW d \in U
      PROVE  Matching(d, n) = {} /\ (fat[d] \in Clusters => fat[d] \in U)
  <2>1. PICK m \in 1..Depth : m > LAST_CLUSTER - d /\ g[m][d] = 0
    OBVIOUS
  <2>2. d \in Clusters /\ d \in Positions /\ None # <<"dir", d>>
    BY ConstantsLemma DEF Positions, None
  <2>3. g[m][d] = IF d \notin Clusters \/ None = <<"dir", d>> THEN 0
                  ELSE IF Matching(d, n) # {} THEN sec[d][0][Least(Matching(d, n))].first
                  ELSE g[m - 1][get_fat_entry(d, None)]
    BY <1>1, <2>2 DEF IsScan
  <2>4. Matching(d, n) = {}
    BY <2>1, <2>2, <2>3, MatchLemma, ConstantsLemma
  <2>5. ASSUME fat[d] \in Clusters PROVE fat[d] \in U
    <3>1. get_fat_entry(d, None) = fat[d]
      BY <2>2, ConstantsLemma DEF get_fat_entry, None
    <3>2. g[m - 1][fat[d]] = 0
      BY <2>1, <2>2, <2>3, <2>4, <3>1
    <3>3. fat[d] > d
      BY <2>2, <2>5 DEF DiskInv, ChainsApart
    <3>4. m - 1 \in 1..Depth /\ m - 1 > LAST_CLUSTER - fat[d]
      <4>1. PICK e \in Clusters : e = fat[d]
        BY <2>5
      <4>2. e > d /\ e \in Nat /\ d \in Nat /\ e <= LAST_CLUSTER /\ LAST_CLUSTER \in Nat
        BY <2>2, <3>3, <4>1, ConstantsLemma DEF Clusters
      <4> QED
        BY <1>2, <2>1, <4>1, <4>2
    <3> QED
      BY <2>5, <3>2, <3>4
  <2> QED
    BY <2>4, <2>5
<1>5. Reach(dir) \subseteq U
  <2>1. U \in SUBSET Clusters /\ Closed(U)
    <3> HIDE DEF U
    <3>1. U \subseteq Clusters
      BY DEF U
    <3> QED
      BY <1>4, <3>1 DEF Closed
  <2>2. dir \in Clusters
    BY DEF InUse
  <2> HIDE DEF U
  <2> QED
    BY <1>3, <2>1, <2>2, ReachLemma
<1> HIDE DEF U
<1> QED
  BY <1>4, <1>5

LEMMA FoundAfter == DiskInv' => FoundFact'
BY FoundLemma, PTL

\* A path is looked up in the directory its parent leads to.
LastFact == \A path \in Seq(Names) : \A up, n, dir :
              /\ path # << >> /\ up = Parent(path) /\ n = Base(path)
              /\ dir = find_directory_entry(up, None)
              => find_directory_entry(path, None) = Lookup(dir, n, None)

LEMMA LastLemma == DiskInv => LastFact
<1> SUFFICES ASSUME DiskInv, NEW path \in Seq(Names), path # << >>
             PROVE  find_directory_entry(path, None) =
                      Lookup(find_directory_entry(Parent(path), None), Base(path), None)
  BY DEF LastFact
<1>1. PICK up \in Seq(Names) : up = Parent(path)
  BY PathLemma
<1>2. PICK N \in Nat : N + 1 = Len(path)
  <2>1. Len(path) \in Nat /\ Len(path) # 0
    OBVIOUS
  <2>2. Len(path) - 1 \in Nat /\ (Len(path) - 1) + 1 = Len(path)
    BY <2>1
  <2> QED
    BY <2>2
<1>3. /\ Len(up) = N /\ \A k \in 1..N : up[k] = path[k]
      /\ Base(path) = path[N + 1]
  <2>1. up = SubSeq(path, 1, N)
    BY <1>1, <1>2 DEF Parent
  <2> QED
    BY <1>2, <2>1 DEF Base
<1>4. PICK r : IsWay(r, path, None)
  BY WayLemma
<1>5. PICK q : IsWay(q, up, None)
  BY WayLemma
<1>6. /\ r[0] = ROOT /\ \A k \in 1..(N + 1) : r[k] = Lookup(r[k - 1], path[k], None)
      /\ find_directory_entry(path, None) = r[N + 1]
  BY <1>2, <1>4 DEF IsWay
<1>7. /\ q[0] = ROOT /\ \A k \in 1..N : q[k] = Lookup(q[k - 1], up[k], None)
      /\ find_directory_entry(up, None) = q[N]
  BY <1>3, <1>5 DEF IsWay
<1> DEFINE T == {k \in 0..N : q[k] = r[k]}
<1>8. 0 \in T
  BY <1>6, <1>7
<1>9. ASSUME NEW k \in 0..(N - 1), k \in T PROVE k + 1 \in T
  <2>1. k + 1 \in 1..N /\ k + 1 \in 1..(N + 1) /\ k + 1 \in 0..N /\ (k + 1) - 1 = k /\ q[k] = r[k]
    BY <1>9
  <2>2. /\ q[k + 1] = Lookup(q[(k + 1) - 1], up[k + 1], None)
        /\ r[k + 1] = Lookup(r[(k + 1) - 1], path[k + 1], None)
        /\ up[k + 1] = path[k + 1]
    BY <1>3, <1>6, <1>7, <2>1
  <2>3. q[k + 1] = r[k + 1]
    BY <2>1, <2>2
  <2> QED
    BY <2>1, <2>3
<1> HIDE DEF T
<1>10. q[N] = r[N]
  <2>1. \A k \in 0..N : k \in T
    BY <1>8, <1>9, IntervalInduction
  <2> QED
    BY <2>1 DEF T
<1>11. r[N + 1] = Lookup(r[N], path[N + 1], None)
  <2>1. N + 1 \in 1..(N + 1) /\ (N + 1) - 1 = N
    OBVIOUS
  <2>2. r[N + 1] = Lookup(r[(N + 1) - 1], path[N + 1], None)
    BY <1>6, <2>1
  <2> QED
    BY <2>1, <2>2
<1> QED
  BY <1>1, <1>3, <1>6, <1>7, <1>10, <1>11

LEMMA LastAfter == DiskInv' => LastFact'
BY LastLemma, PTL

\* The path under which a created file is found has the same parent.
LEMMA StoredPathLemma ==
  ASSUME NEW path \in Seq(Names)
  PROVE  /\ StoredPath(path) \in Seq(Names) /\ StoredPath(path) # << >>
         /\ Parent(StoredPath(path)) = Parent(path)
         /\ Base(StoredPath(path)) = Stored[Base(path)]
<1>1. PICK up \in Seq(Names) : up = Parent(path)
  BY PathLemma
<1>2. PICK n \in Names : n = Stored[Base(path)]
  BY PathLemma
<1>3. PICK s : s = up \o <<n>>
  OBVIOUS
<1>4. s \in Seq(Names) /\ Len(s) = Len(up) + 1 /\ Len(up) \in Nat /\ s[Len(up) + 1] = n
  BY <1>3
<1>5. s # << >>
  BY <1>4
<1>6. SubSeq(s, 1, Len(s) - 1) = up
  <2>1. Len(s) - 1 = Len(up)
    BY <1>4
  <2>2. SubSeq(s, 1, Len(up)) = up
    BY <1>3, <1>4
  <2> QED
    BY <2>1, <2>2
<1> QED
  BY <1>1, <1>2, <1>3, <1>4, <1>5, <1>6 DEF StoredPath, Parent, Base

----------------------------------------------------------------------------
\* A file's clusters w[0] .. w[n] as they are linked.
Linked(w, n) == w \in [0..n -> Clusters] /\ \A m \in 1..n : fat[w[m - 1]] = w[m]

\* Links go up, so no cluster is twice among them and they are links of a walk.
LEMMA RisingLemma ==
  ASSUME DiskInv, NEW n \in Nat, NEW w, Linked(w, n)
  PROVE  \A k \in 0..n : k \in Links /\ \A m \in 0..n : m < k => w[m] < w[k]
<1> DEFINE T == {k \in 0..n : w[k] >= ROOT + k /\ \A m \in 0..n : m < k => w[m] < w[k]}
<1>1. \A k \in 0..n : w[k] \in Clusters /\ w[k] \in Nat /\ w[k] >= ROOT /\ w[k] <= LAST_CLUSTER
  BY ConstantsLemma DEF Linked, Clusters
<1>2. 0 \in T
  BY <1>1, ConstantsLemma
<1>3. ASSUME NEW k \in 0..(n - 1), k \in T PROVE k + 1 \in T
  <2>1. k \in 0..n /\ k + 1 \in 1..n /\ k + 1 \in 0..n /\ (k + 1) - 1 = k
    OBVIOUS
  <2>2. fat[w[k]] = w[k + 1]
    <3>1. fat[w[(k + 1) - 1]] = w[k + 1]
      BY <2>1 DEF Linked
    <3> QED
      BY <2>1, <3>1
  <2>3. w[k + 1] > w[k]
    <3>1. w[k] \in Clusters /\ fat[w[k]] \in Clusters
      BY <1>1, <2>1, <2>2
    <3>2. fat[w[k]] > w[k]
      BY <3>1 DEF DiskInv, ChainsApart
    <3> QED
      BY <2>2, <3>2
  <2>4. w[k] >= ROOT + k /\ \A m \in 0..n : m < k => w[m] < w[k]
    BY <1>3
  <2>5. w[k + 1] >= ROOT + (k + 1)
    BY <1>1, <2>1, <2>3, <2>4, ConstantsLemma
  <2>6. ASSUME NEW m \in 0..n, m < k + 1 PROVE w[m] < w[k + 1]
    <3>1. w[m] \in Nat /\ w[k] \in Nat /\ w[k + 1] \in Nat
      BY <1>1, <2>1
    <3>2. m = k \/ m < k
      BY <2>6
    <3> QED
      BY <2>3, <2>4, <3>1, <3>2
  <2> QED
    BY <2>1, <2>5, <2>6
<1> HIDE DEF T
<1>4. ASSUME NEW k \in 0..n PROVE k \in T
  BY <1>2, <1>3, IntervalInduction
<1>5. ASSUME NEW k \in 0..n PROVE k \in Links
  <2>1. w[k] >= ROOT + k
    BY <1>4 DEF T
  <2>2. k <= LAST_CLUSTER - ROOT
    BY <1>1, <2>1, ConstantsLemma
  <2> QED
    BY <2>2, LinksLemma, ConstantsLemma
<1> QED
  BY <1>4, <1>5 DEF T

WalkFact == \A n \in Nat : \A w : Linked(w, n) =>
              \A m \in 0..n : m \in Links /\ Walk(w[0], None)[m] = w[m]

LEMMA WalkLemma == DiskInv => WalkFact
<1> SUFFICES ASSUME DiskInv, NEW n \in Nat, NEW w, Linked(w, n)
             PROVE  \A m \in 0..n : m \in Links /\ Walk(w[0], None)[m] = w[m]
  BY DEF WalkFact
<1> DEFINE S == Clusters \cup {0, EOC}
           after == [d \in S |-> IF d \in Clusters THEN get_fat_entry(d, None) ELSE EOC]
           F == [p \in (1..Depth) \X S |-> after[p[2]]]
           Rec(f) == f = [k \in Links |-> IF k = 0 THEN w[0] ELSE after[f[k - 1]]]
           a == CHOOSE f : Rec(f)
<1>1. Depth \in Nat /\ Links = 0..Depth
  BY LinksLemma DEF Depth
<1>2. \A d \in Clusters : get_fat_entry(d, None) = fat[d]
  BY ConstantsLemma DEF get_fat_entry, None
<1>3. after \in [S -> S]
  <2>1. \A d \in S : after[d] \in S
    BY <1>2 DEF DiskInv
  <2> QED
    BY <2>1
<1>4. w[0] \in Clusters /\ w[0] \in S
  BY DEF Linked
<1>5. F \in [(1..Depth) \X S -> S]
  <2>1. \A p \in (1..Depth) \X S : p[2] \in S
    OBVIOUS
  <2> HIDE DEF S, after
  <2> QED
    BY <1>3, <2>1
<1>6. PICK g : Recursion(g, Depth, S, w[0], F)
  <2> HIDE DEF F, S
  <2> QED
    BY <1>1, <1>4, <1>5, IntervalRecursion
<1>7. /\ g \in [0..Depth -> S]
      /\ g = [k \in 0..Depth |-> IF k = 0 THEN w[0] ELSE F[<<k, g[k - 1]>>]]
  BY <1>6 DEF Recursion
<1>8. ASSUME NEW k \in 0..Depth, k # 0 PROVE F[<<k, g[k - 1]>>] = after[g[k - 1]]
  <2>1. k \in 1..Depth /\ k - 1 \in 0..Depth
    BY <1>1, <1>8
  <2>2. g[k - 1] \in S
    <3> HIDE DEF S
    <3> QED
      BY <1>7, <2>1
  <2> HIDE DEF S, after
  <2> QED
    BY <2>1, <2>2
<1>9. Rec(g)
  <2> HIDE DEF F, S, after
  <2> QED
    BY <1>1, <1>7, <1>8
<1>10. Rec(a)
  <2> HIDE DEF Rec
  <2> QED
    BY <1>9
<1>11. Walk(w[0], None) = a
  BY DEF Walk
<1> HIDE DEF a
<1> DEFINE T == {m \in 0..n : a[m] = w[m]}
<1>12. \A m \in 0..n : m \in Links
  BY RisingLemma
<1>13. 0 \in T
  <2>1. 0 \in Links
    BY <1>1
  <2> HIDE DEF after
  <2> QED
    BY <1>10, <2>1
<1>14. ASSUME NEW k \in 0..(n - 1), k \in T PROVE k + 1 \in T
  <2>1. k \in 0..n /\ k + 1 \in 1..n /\ k + 1 \in 0..n /\ (k + 1) - 1 = k /\ k + 1 # 0
    OBVIOUS
  <2>2. a[k + 1] = after[a[(k + 1) - 1]]
    <3>1. k + 1 \in Links
      BY <1>12, <2>1
    <3> HIDE DEF after
    <3> QED
      BY <1>10, <2>1, <3>1
  <2>3. a[k] = w[k] /\ w[k] \in Clusters
    BY <1>14, <2>1 DEF Linked
  <2>4. fat[w[(k + 1) - 1]] = w[k + 1]
    BY <2>1 DEF Linked
  <2> QED
    BY <1>2, <2>1, <2>2, <2>3, <2>4
<1> HIDE DEF T
<1>15. \A m \in 0..n : m \in T
  BY <1>13, <1>14, IntervalInduction
<1> QED
  BY <1>11, <1>12, <1>15 DEF T

LEMMA WalkAfter == DiskInv' => WalkFact'
BY WalkLemma, PTL

\* What the clusters w[0] .. w[n] hold of the contents d, when the first q
\* sectors of the last one are written.
Written(w, n, d, q) ==
  /\ Linked(w, n)
  /\ \A m \in 0..n : \A t \in Sectors : m < n \/ t < q => sec[w[m]][t] = DataSector(d, m, t)

LEMMA WriteSectorLemma ==
  ASSUME DiskInv, NEW n \in Nat, NEW w, NEW d, NEW q \in Sectors, Written(w, n, d, q),
         fat' = fat, sec' = [sec EXCEPT ![w[n]][q] = DataSector(d, n, q)]
  PROVE  Written(w, n, d, q + 1)'
<1>1. Linked(w, n) /\ n \in 0..n /\ \A m \in 0..n : w[m] \in Clusters
  BY DEF Written, Linked
<1>2. sec \in [Clusters -> [Sectors -> Sector]]
  BY DEF DiskInv, Shape
<1>3. Linked(w, n)'
  BY <1>1 DEF Linked
<1>4. ASSUME NEW m \in 0..n, NEW t \in Sectors, m < n \/ t < q + 1
      PROVE  sec'[w[m]][t] = DataSector(d, m, t)
  <2>1. CASE m = n /\ t = q
    BY <1>1, <1>2, <2>1
  <2>2. CASE ~(m = n /\ t = q)
    <3>1. m < n \/ t < q
      BY <1>4, <2>2, ConstantsLemma
    <3>2. m # n => w[m] # w[n]
      <4>1. m # n => w[m] < w[n]
        BY <1>1, RisingLemma
      <4> QED
        BY <1>1, <4>1, ConstantsLemma
    <3>3. sec'[w[m]][t] = sec[w[m]][t]
      BY <1>1, <1>2, <2>2, <3>2
    <3> QED
      BY <3>1, <3>3 DEF Written
  <2> QED
    BY <2>1, <2>2
<1> QED
  BY <1>3, <1>4 DEF Written, DataSector

LEMMA GrownLemma ==
  ASSUME DiskInv, NEW n \in Nat, NEW w, NEW d, NEW q, Written(w, n, d, q),
         NEW new \in Clusters, fat[new] = 0, fat' = [fat EXCEPT ![new] = EOC], sec' = sec
  PROVE  Written(w, n, d, q)'
<1>1. \A c \in Clusters : fat[c] # 0 => fat'[c] = fat[c]
  BY DEF DiskInv
<1>2. ASSUME NEW m \in 1..n PROVE fat'[w[m - 1]] = w[m]
  <2>1. m - 1 \in 0..n /\ m \in 0..n
    OBVIOUS
  <2>2. w[m - 1] \in Clusters /\ w[m] \in Clusters /\ fat[w[m - 1]] = w[m]
    BY <2>1 DEF Written, Linked
  <2> QED
    BY <1>1, <2>2, ConstantsLemma
<1> QED
  BY <1>2 DEF Written, Linked, DataSector

\* One cluster more, linked behind the last.
Tied(v, w, n, d, b) == Written(v, n + 1, d, 0)' /\ v[0] = w[0] /\ v[n + 1] = b

LEMMA TiedLemma ==
  ASSUME DiskInv, NEW n \in Nat, NEW w, NEW d, Written(w, n, d, SPC), NEW b \in Clusters,
         fat' = [fat EXCEPT ![w[n]] = b], sec' = sec
  PROVE  \E v : Tied(v, w, n, d, b)
<1> DEFINE v == [m \in 0..(n + 1) |-> IF m = n + 1 THEN b ELSE w[m]]
<1>1. Linked(w, n) /\ n \in 0..n /\ \A m \in 0..n : w[m] \in Clusters
  BY DEF Written, Linked
<1>2. v \in [0..(n + 1) -> Clusters] /\ v[n + 1] = b /\ \A m \in 0..n : v[m] = w[m]
  BY <1>1
<1> HIDE DEF v
<1>3. ASSUME NEW m \in 1..(n + 1) PROVE fat'[v[m - 1]] = v[m]
  <2>1. CASE m = n + 1
    BY <1>1, <1>2, <2>1 DEF DiskInv
  <2>2. CASE m # n + 1
    <3>1. m \in 1..n /\ m \in 0..n /\ m - 1 \in 0..n /\ m - 1 < n
      BY <2>2
    <3>2. fat[w[m - 1]] = w[m]
      BY <1>1, <3>1 DEF Linked
    <3>3. w[m - 1] # w[n]
      <4>1. PICK k \in 0..n : k = m - 1
        BY <3>1
      <4>2. w[k] < w[n] /\ w[k] \in Nat /\ w[n] \in Nat
        BY <1>1, <3>1, <4>1, RisingLemma, ConstantsLemma
      <4> QED
        BY <4>1, <4>2
    <3>4. fat'[w[m - 1]] = fat[w[m - 1]]
      BY <1>1, <3>1, <3>3 DEF DiskInv
    <3> QED
      BY <1>2, <3>1, <3>2, <3>4
  <2> QED
    BY <2>1, <2>2
<1>4. Linked(v, n + 1)'
  BY <1>2, <1>3 DEF Linked
<1>5. ASSUME NEW m \in 0..(n + 1), NEW t \in Sectors, m < n + 1 \/ t < 0
      PROVE  sec'[v[m]][t] = DataSector(d, m, t)
  <2>1. m \in 0..n /\ t < SPC
    BY <1>5, ConstantsLemma DEF Sectors
  <2> QED
    BY <1>2, <2>1 DEF Written
<1>6. Written(v, n + 1, d, 0)'
  BY <1>4, <1>5 DEF Written, DataSector
<1>7. v[0] = w[0]
  BY <1>1, <1>2
<1>8. Tied(v, w, n, d, b)
  BY <1>2, <1>6, <1>7 DEF Tied
<1> QED
  BY <1>8

----------------------------------------------------------------------------
\* Where slot k of the contents is: sector and slot, then cluster and sector.
LEMMA DivideLemma ==
  ASSUME NEW x \in Nat, NEW y \in Nat \ {0}
  PROVE  /\ x \div y \in Nat /\ x % y \in 0..(y - 1) /\ x = (x \div y) * y + (x % y)
  OBVIOUS

LEMMA ProductLemma ==
  ASSUME NEW a \in Nat, NEW b \in Nat, NEW c \in Nat, a >= b PROVE a * c >= b * c
<1>1. PICK e \in Nat : a = b + e
  <2>1. a - b \in Nat /\ a = b + (a - b)
    OBVIOUS
  <2> QED
    BY <2>1
<1>2. (b + e) * c = b * c + e * c /\ e * c \in Nat /\ b * c \in Nat
  OBVIOUS
<1> QED
  BY <1>1, <1>2

LEMMA EnoughLemma ==
  ASSUME NEW b \in Nat, NEW q \in Nat, NEW s \in Nat \ {0}, NEW l \in Nat,
         NEW x \in Nat \ {0}, NEW y \in Nat \ {0}, (b * x + q) * y + s <= l
  PROVE  b <= (l + x * y - 1) \div (x * y) - 1
<1>1. PICK z \in Nat \ {0} : z = x * y
  OBVIOUS
<1>2. PICK u \in Nat : u = l + z - 1
  <2>1. l + z - 1 \in Nat
    BY <1>1
  <2> QED
    BY <2>1
<1>3. PICK t \in Nat, r \in 0..(z - 1) : t = u \div z /\ u = t * z + r
  BY DivideLemma
<1>4. PICK v \in Nat : v = b * z
  OBVIOUS
<1>5. v < l
  <2>1. (b * x + q) * y = (b * x) * y + q * y /\ (b * x) * y = b * (x * y) /\ q * y \in Nat
    OBVIOUS
  <2> QED
    BY <1>1, <1>4, <2>1
<1>6. PICK p \in Nat : p = t * z
  OBVIOUS
<1>7. l <= p
  BY <1>2, <1>3, <1>6
<1>8. b < t
  <2> SUFFICES ASSUME b >= t PROVE FALSE
    OBVIOUS
  <2>1. b * z >= t * z
    BY ProductLemma
  <2> QED
    BY <1>4, <1>5, <1>6, <1>7, <2>1
<1> QED
  BY <1>1, <1>2, <1>3, <1>8

\* What was written is read back: the walk along the clusters finds every slot.
ReadFact == \A path : \A d \in Datas : \A n \in Nat : \A w :
              /\ Written(w, n, d, SPC)
              /\ n >= TotalClusters(d) - 1
              /\ w[0] = find_directory_entry(path, None)
              => \A k \in 1..Length[d] : read_file(path, k) = Text(d, k)

LEMMA ReadLemma == DiskInv => ReadFact
<1> SUFFICES ASSUME DiskInv, NEW path, NEW d \in Datas, NEW n \in Nat, NEW w,
                    Written(w, n, d, SPC), n >= TotalClusters(d) - 1,
                    w[0] = find_directory_entry(path, None), NEW k \in 1..Length[d]
             PROVE  read_file(path, k) = Text(d, k)
  BY DEF ReadFact
<1>1. /\ Length[d] \in Nat /\ k \in Nat /\ k - 1 \in Nat /\ k <= Length[d]
      /\ SPC \in Nat \ {0} /\ SLOTS \in Nat \ {0}
  <2>1. Length[d] \in Nat /\ SPC \in Nat \ {0} /\ SLOTS \in Nat \ {0}
    BY Fat32Assumption
  <2>2. PICK l \in Nat : l = Length[d]
    BY <2>1
  <2>3. k \in 1..l
    BY <2>2
  <2> QED
    BY <2>1, <2>2, <2>3
<1>2. PICK a \in Nat, s \in Slots :
        a = (k - 1) \div SLOTS /\ s = ((k - 1) % SLOTS) + 1 /\ k = a * SLOTS + s
  <2>1. PICK a \in Nat : a = (k - 1) \div SLOTS
    BY <1>1, DivideLemma
  <2>2. PICK r \in 0..(SLOTS - 1) : r = (k - 1) % SLOTS
    BY <1>1, DivideLemma
  <2>3. k - 1 = a * SLOTS + r
    BY <1>1, <2>1, <2>2, DivideLemma
  <2>4. r + 1 \in Slots
    BY <1>1, <2>2 DEF Slots
  <2>5. k = a * SLOTS + (r + 1)
    BY <1>1, <2>3
  <2> QED
    BY <2>1, <2>2, <2>4, <2>5
<1>3. PICK b \in Nat, q \in Sectors : b = a \div SPC /\ q = a % SPC /\ a = b * SPC + q
  BY <1>1, DivideLemma DEF Sectors
<1>4. (b * SPC + q) * SLOTS + s = k
  BY <1>2, <1>3
<1>5. b \in 0..n
  <2>1. q \in Nat /\ s \in Nat \ {0}
    BY <1>1 DEF Sectors, Slots
  <2>2. b <= TotalClusters(d) - 1
    BY <1>1, <1>4, <2>1, EnoughLemma DEF TotalClusters
  <2>3. TotalClusters(d) \in Nat
    <3>1. Length[d] + SPC * SLOTS - 1 \in Nat /\ SPC * SLOTS \in Nat \ {0}
      BY <1>1
    <3> QED
      BY <3>1, DivideLemma DEF TotalClusters
  <2> QED
    BY <2>2, <2>3
<1>6. Linked(w, n) /\ w[b] \in Clusters
  BY <1>5 DEF Written, Linked
<1>7. Walk(find_directory_entry(path, None), None)[b] = w[b]
  BY <1>5, <1>6, WalkLemma DEF WalkFact
<1>8. sec[w[b]][q] = DataSector(d, b, q)
  <2>1. q < SPC
    BY <1>1 DEF Sectors
  <2> QED
    BY <1>5, <2>1 DEF Written
<1>9. DataSector(d, b, q)[s] = Text(d, k)
  <2> DEFINE given == {t \in 0..q : (b * SPC + t) * SLOTS + s <= Length[d]}
  <2>1. q \in Nat /\ q \in 0..q
    BY <1>1 DEF Sectors
  <2>2. q \in given /\ given \subseteq 0..q
    BY <1>1, <1>4, <2>1
  <2>3. DataSector(d, b, q)[s] =
          IF given = {} THEN Zero ELSE Text(d, (b * SPC + Most(given)) * SLOTS + s)
    BY DEF DataSector
  <2> HIDE DEF given
  <2>4. Most(given) = q
    <3>1. Most(given) \in given /\ \A m \in given : Most(given) >= m
      BY <2>1, <2>2, MostLemma
    <3>2. Most(given) \in 0..q /\ Most(given) >= q
      BY <2>2, <3>1
    <3> QED
      BY <2>1, <3>2
  <2> QED
    BY <1>4, <2>2, <2>3, <2>4
<1>10. read_file(path, k) = sec[w[b]][q][s]
  <2>1. (k - 1) \div SLOTS = a /\ ((k - 1) % SLOTS) + 1 = s /\ a \div SPC = b /\ a % SPC = q
    BY <1>2, <1>3
  <2> QED
    BY <1>6, <1>7, <2>1 DEF read_file
<1> QED
  BY <1>8, <1>9, <1>10

LEMMA ReadAfter == DiskInv' => ReadFact'
BY ReadLemma, PTL

----------------------------------------------------------------------------
\* Where a call in which no transfer failed so far is: still unanswered, its loops
\* at their start outside their bodies, on the directory's own chain, and with all
\* that was written in place.
Waiting == pc # "idle" => ret = "waiting"
Loops == /\ pc \notin {"zero", "data", "grow", "tie"} => i = 0 /\ j = 0
         /\ pc = "zero" => i = 0
         /\ pc \in {"grow", "tie"} => j = 0
Placing == {"zero", "slot", "link", "clear"}
PlacePart == clean => /\ pc \in Placing => current \in Reach(Within)
                      /\ pc = "clear" => extra \in Reach(Within)
Done == IF pc = "data" THEN j ELSE SPC
WrittenPart == clean /\ pc \in Writing =>
                 \E w : Written(w, i, call.data, Done) /\ w[0] = Target /\ w[i] = current

\* Waiting and Loops after each step.
LEMMA ReturnWaits ==
  ASSUME NEW v, Return(v) PROVE Waiting' /\ Loops' /\ PlacePart' /\ WrittenPart'
BY DEF Return, Waiting, Loops, PlacePart, WrittenPart, Placing, Writing

LEMMA StepLoops ==
  ASSUME Waiting, Loops, NEW fault, Step(fault) PROVE Waiting' /\ Loops'
<1>1. ASSUME NEW v, Return(v) PROVE Waiting' /\ Loops'
  BY <1>1, ReturnWaits
<1>2. CASE Alloc(fault)
  BY <1>1, <1>2 DEF Alloc, Go, Waiting, Loops
<1>3. CASE ZeroCluster(fault)
  BY <1>3 DEF ZeroCluster, Go, Waiting, Loops
<1>4. CASE Undo(fault)
  BY <1>1, <1>4 DEF Undo
<1>5. CASE FillSlot(fault)
  BY <1>1, <1>5 DEF FillSlot, Created, Go, local, Waiting, Loops
<1>6. CASE NextDirCluster(fault)
  BY <1>6 DEF NextDirCluster, Go, Waiting, Loops
<1>7. CASE ExtendDir(fault)
  BY <1>1, <1>7 DEF ExtendDir, Go, Waiting, Loops
<1>8. CASE LinkDir(fault)
  BY <1>8 DEF LinkDir, Go, local, Waiting, Loops
<1>9. CASE ClearDir(fault)
  BY <1>1, <1>9 DEF ClearDir, Go, Waiting, Loops
<1>10. CASE Find(fault)
  BY <1>10 DEF Find, Go, Waiting, Loops
<1>11. CASE NotFound(fault)
  BY <1>1, <1>11 DEF NotFound, Go, local, Waiting, Loops
<1>12. CASE WriteData(fault)
  BY <1>1, <1>12 DEF WriteData, Go, Waiting, Loops
<1>13. CASE Grow(fault)
  BY <1>1, <1>13 DEF Grow, Go, Waiting, Loops
<1>14. CASE Tie(fault)
  BY <1>14 DEF Tie, Go, Waiting, Loops
<1>15. CASE delete_file(fault)
  BY <1>1, <1>15 DEF delete_file
<1> QED
  BY <1>2, <1>3, <1>4, <1>5, <1>6, <1>7, <1>8, <1>9, <1>10, <1>11, <1>12, <1>13, <1>14, <1>15
  DEF Step

\* What PlacePart and WrittenPart ask of a step.
LEMMA NoPart == ASSUME pc' \notin Placing \cup Writing PROVE PlacePart' /\ WrittenPart'
BY DEF PlacePart, WrittenPart, Placing

LEMMA UncleanPart == ASSUME ~clean' PROVE PlacePart' /\ WrittenPart'
BY DEF PlacePart, WrittenPart

LEMMA PlaceIn ==
  ASSUME NEW h, NEW c, h = Within', c = current', c \in Reach(h)', pc' \in Placing \ {"clear"}
  PROVE  PlacePart' /\ WrittenPart'
BY DEF PlacePart, WrittenPart, Placing, Writing, Reach, Closed

LEMMA WrittenIn ==
  ASSUME pc' \in Writing, NEW w, NEW n, NEW d, NEW q, Written(w, n, d, q)',
         n = i', d = call'.data, q = Done',
         w[0] = Target', w[n] = current'
  PROVE  PlacePart' /\ WrittenPart'
<1>1. PlacePart'
  BY DEF PlacePart, Placing, Writing
<1>2. Written(w, i, call.data, Done)'
  BY DEF Written, Linked
<1>3. w[0] = Target' /\ w[i'] = current'
  OBVIOUS
<1> QED
  BY <1>1, <1>2, <1>3 DEF WrittenPart

\* A chain keeps its clusters when no link changes, or only that of its last.
LEMMA SameReach == ASSUME fat' = fat, NEW o PROVE Reach(o)' = Reach(o)
BY DEF Reach, Closed

LEMMA AllocPlace ==
  ASSUME IInv, IInv', NEW fault, Charge(fault), Alloc(fault)
  PROVE  PlacePart' /\ WrittenPart'
<1>1. DiskInv /\ pc = "alloc" /\ pc # "idle"
  BY DEF IInv, Alloc
<1>2. PICK dir : dir = find_directory_entry(Parent(call.path), fault)
  OBVIOUS
<1>3. PICK new : new = FreeCluster(fault)
  OBVIOUS
<1>4. CASE dir = 0 \/ new = 0
  BY <1>2, <1>3, <1>4, ReturnWaits DEF Alloc
<1>5. CASE dir # 0 /\ new # 0 /\ fault # None
  <2>1. ~clean'
    BY <1>5 DEF Charge
  <2> QED
    BY <2>1, UncleanPart
<1>6. CASE dir # 0 /\ new # 0 /\ fault = None
  <2>1. /\ fat' = [fat EXCEPT ![new] = EOC] /\ sec' = sec
        /\ current' = dir /\ pc' = "zero" /\ call' = call
    BY <1>2, <1>3, <1>6 DEF Alloc, Go
  <2>2. new \in Clusters /\ fat[new] = 0 /\ \A d \in Clusters : fat[d] = 0 => new <= d
    BY <1>3, <1>6, FreeLemma
  <2>3. Within' = Within
    BY <1>1, <2>1, <2>2, MarkHomeLemma
  <2>4. dir = Within
    BY <1>2, <1>6 DEF Within
  <2>5. dir \in Clusters
    BY <2>1 DEF IInv, LocalPart, Creation, InUse
  <2>6. dir \in Reach(dir)'
    BY <2>5 DEF Reach
  <2> QED
    BY <2>1, <2>3, <2>4, <2>6, PlaceIn DEF Placing
<1> QED
  BY <1>4, <1>5, <1>6

LEMMA ZeroClusterPlace ==
  ASSUME IInv, IInv', PlacePart, NEW fault, Charge(fault), ZeroCluster(fault)
  PROVE  PlacePart' /\ WrittenPart'
<1>1. /\ DiskInv /\ pc = "zero" /\ pc # "idle"
      /\ Fresh(cluster) /\ cluster \in Clusters /\ cluster \notin Heads
  BY HeadsLemma DEF IInv, ZeroCluster, LocalPart, Creation, Fresh, InUse
<1>2. CASE fault # None
  BY <1>2, UncleanPart DEF Charge
<1>3. CASE fault = None
  <2>1. /\ fat' = fat /\ current' = current /\ SetSector(cluster, j, Blank, fault)
        /\ call' = call /\ pc' \in {"zero", "slot"} /\ (clean' => clean)
    BY <1>3 DEF ZeroCluster, Go, Charge
  <2>2. PICK b \in Clusters : b = cluster
    BY <1>1
  <2>3. \A x \in Clusters : x # b => fat'[x] = fat[x] /\ sec'[x] = sec[x]
    BY <1>1, <2>1, <2>2, OneSectorLemma
  <2>4. \A d \in Clusters : fat[d] # b
    BY <1>1, <2>2 DEF Fresh
  <2>5. Within' = Within
    BY <1>1, <2>1, <2>2, <2>3, <2>4, BehindStep
  <2>6. CASE ~clean
    BY <2>1, <2>6, UncleanPart
  <2>7. CASE clean
    <3>1. PICK h, c : h = Within /\ c = current
      OBVIOUS
    <3>2. c \in Reach(h)
      BY <1>1, <2>7, <3>1 DEF PlacePart, Placing
    <3>3. c \in Reach(h)'
      BY <2>1, <3>2, SameReach
    <3> QED
      BY <2>1, <2>5, <3>1, <3>3, PlaceIn DEF Placing
  <2> QED
    BY <2>6, <2>7
<1> QED
  BY <1>2, <1>3

LEMMA NextDirClusterPlace ==
  ASSUME IInv, IInv', PlacePart, NEW fault, Charge(fault), NextDirCluster(fault)
  PROVE  PlacePart' /\ WrittenPart'
<1>1. DiskInv /\ DiskInv' /\ pc = "slot" /\ pc # "idle" /\ current \in InUse
  BY DEF IInv, NextDirCluster, LocalPart, Creation
<1>2. UNCHANGED disk /\ call' = call /\ pc' = "slot" /\ (clean' => clean)
  BY DEF NextDirCluster, Go, Charge
<1>3. PICK c \in InUse : c = current
  BY <1>1
<1>4. PICK d \in Clusters : d = fat[c] /\ current' = d
  BY <1>1, <1>3, NextLemma DEF NextDirCluster, InUse
<1>5. Within' = Within
  <2>1. PICK path, dir \in Seq(Names) : path = call.path /\ dir = Parent(call.path)
    BY <1>1, CallPathLemma
  <2>2. find_directory_entry(dir, None)' = find_directory_entry(dir, None)
    BY <1>1, <1>2, StillLemma
  <2>3. dir = Parent(call'.path)
    BY <1>2, <2>1
  <2> QED
    BY <2>1, <2>2, <2>3 DEF Within
<1>6. CASE ~clean
  BY <1>2, <1>6, UncleanPart
<1>7. CASE clean
  <2>1. PICK h : h = Within
    OBVIOUS
  <2>2. c \in Reach(h)
    BY <1>1, <1>3, <1>7, <2>1 DEF PlacePart, Placing
  <2>3. fat' = fat /\ c \in Reach(h)'
    BY <1>2, <2>2, SameReach DEF disk
  <2>4. d \in Reach(h)'
    BY <1>4, <2>3, ReachNextLemma
  <2> QED
    BY <1>2, <1>4, <1>5, <2>1, <2>4, PlaceIn DEF Placing
<1> QED
  BY <1>6, <1>7

\* The directory that is being looked through is in use.
LEMMA WithinLemma ==
  ASSUME IInv, HomePart, pc \in Creation PROVE Within \in InUse /\ Within \in Clusters
<1>1. Within # 0 /\ Within \in Heads
  BY ObjectLemma DEF HomePart, Creation
<1> QED
  BY <1>1, HeadsLemma DEF IInv, Origin, InUse

LEMMA ExtendDirPlace ==
  ASSUME IInv, IInv', HomePart, PlacePart, NEW fault, Charge(fault), ExtendDir(fault)
  PROVE  PlacePart' /\ WrittenPart'
<1>1. DiskInv /\ pc = "slot" /\ pc # "idle" /\ current \in Clusters
  BY DEF IInv, ExtendDir, LocalPart, Creation, InUse
<1>2. PICK new : new = FreeCluster(fault)
  OBVIOUS
<1>3. CASE new = 0 \/ fault = <<"dir", current>>
  BY <1>2, <1>3, ReturnWaits DEF ExtendDir
<1>4. CASE ~clean
  BY <1>4, UncleanPart DEF Charge
<1>5. CASE clean /\ ~(new = 0 \/ fault = <<"dir", current>>)
  <2>1. /\ fat' = [fat EXCEPT ![new] = EOC] /\ sec' = sec
        /\ current' = current /\ pc' = "link" /\ call' = call
    BY <1>2, <1>5 DEF ExtendDir, Go
  <2>2. new \in Clusters /\ fat[new] = 0 /\ \A d \in Clusters : fat[d] = 0 => new <= d
    BY <1>2, <1>5, FreeLemma
  <2>3. Within' = Within
    BY <1>1, <2>1, <2>2, MarkHomeLemma
  <2>4. PICK h \in Clusters : h = Within /\ h \in InUse
    BY <1>1, WithinLemma DEF Creation
  <2>5. PICK c \in Reach(h) : c = current
    BY <1>1, <1>5, <2>4 DEF PlacePart, Placing
  <2>6. \A x \in Reach(h) : fat'[x] = fat[x]
    BY <1>1, <2>1, <2>2, <2>4, HeadsLemma DEF InUse, DiskInv
  <2>7. c \in Reach(h)'
    BY <2>4, <2>6, ReachKeptLemma
  <2> QED
    BY <2>1, <2>3, <2>4, <2>5, <2>7, PlaceIn DEF Placing
<1> QED
  BY <1>3, <1>4, <1>5

LEMMA LinkDirPlace ==
  ASSUME IInv, IInv', HomePart, PlacePart, NEW fault, Charge(fault), LinkDir(fault)
  PROVE  PlacePart' /\ WrittenPart'
<1>1. /\ DiskInv /\ pc = "link" /\ pc # "idle" /\ pc \in Creation
      /\ current \in InUse /\ Fresh(extra)
  BY DEF IInv, LinkDir, LocalPart, Creation
<1>2. CASE ~(clean /\ fault = None)
  BY <1>2, UncleanPart DEF Charge
<1>3. CASE clean /\ fault = None
  <2>1. PICK a \in Clusters : a = current
    BY <1>1 DEF InUse
  <2>2. PICK b \in Clusters : b = extra
    BY <1>1 DEF Fresh, InUse
  <2>3. /\ fat' = [fat EXCEPT ![a] = b] /\ sec' = sec /\ current' = a /\ extra' = b
        /\ pc' = "clear" /\ call' = call
    BY <1>3, <2>1, <2>2 DEF LinkDir, SetFat, Go, local
  <2>4. PICK h \in Clusters : h = Within /\ h \in InUse
    BY <1>1, WithinLemma
  <2>5. /\ \A x \in Clusters : x # a => fat'[x] = fat[x] /\ sec'[x] = sec[x]
        /\ fat'[a] = b
    BY <1>1, <2>3 DEF DiskInv
  <2>6. Home(h, a)
    BY <1>1, <2>1, <2>4 DEF HomePart
  <2>7. Within' = Within
    BY <1>1, <2>3, <2>4, <2>5, <2>6, HomeStep
  <2>8. a \in Reach(h)
    BY <1>1, <1>3, <2>1, <2>4 DEF PlacePart, Placing
  <2>9. a \in Reach(h)'
    BY <2>4, <2>5, <2>8, ReachKeptLemma, ReachLemma
  <2>10. b \in Reach(h)'
    BY <2>5, <2>9, ReachNextLemma
  <2>11. current' \in Reach(Within)' /\ extra' \in Reach(Within)'
    BY <2>3, <2>4, <2>7, <2>9, <2>10 DEF Reach, Closed
  <2> QED
    BY <2>3, <2>11 DEF PlacePart, WrittenPart, Writing
<1> QED
  BY <1>2, <1>3

LEMMA ClearDirPlace ==
  ASSUME IInv, IInv', HomePart, PlacePart, NEW fault, Charge(fault), ClearDir(fault)
  PROVE  PlacePart' /\ WrittenPart'
<1>1. /\ DiskInv /\ pc = "clear" /\ pc # "idle" /\ pc \in Creation /\ extra \in Clusters
  BY DEF IInv, ClearDir, LocalPart, Creation, InUse
<1>2. CASE ~(clean /\ fault = None)
  BY <1>2, UncleanPart DEF Charge
<1>3. CASE clean /\ fault = None
  <2>1. PICK c \in Clusters : c = extra
    BY <1>1
  <2>2. /\ fat' = fat /\ SetSector(c, 0, Blank, fault)
        /\ current' = c /\ pc' = "slot" /\ call' = call
    BY <1>3, <2>1 DEF ClearDir, Go
  <2>3. PICK h : h = Within
    OBVIOUS
  <2>4. Home(h, c)
    BY <1>1, <2>1, <2>3 DEF HomePart
  <2>5. \A x \in Clusters : x # c => fat'[x] = fat[x] /\ sec'[x] = sec[x]
    BY <1>1, <2>2, OneSectorLemma
  <2>6. Within' = Within
    BY <1>1, <2>2, <2>3, <2>4, <2>5, HomeStep
  <2>7. c \in Reach(h)
    BY <1>1, <1>3, <2>1, <2>3 DEF PlacePart
  <2>8. c \in Reach(h)'
    BY <2>2, <2>7, SameReach
  <2> QED
    BY <2>2, <2>3, <2>6, <2>8, PlaceIn DEF Placing
<1> QED
  BY <1>2, <1>3

LEMMA FindWritten ==
  ASSUME IInv, IInv', Loops, NEW fault, Charge(fault), Find(fault)
  PROVE  PlacePart' /\ WrittenPart'
<1>1. DiskInv /\ DiskInv' /\ pc # "idle" /\ pc \in {"find", "refind"} /\ i = 0 /\ j = 0
  BY DEF IInv, Find, Loops
<1>2. CASE fault # None
  BY <1>2, UncleanPart DEF Charge
<1>3. CASE fault = None
  <2>1. PICK start : start = find_directory_entry(call.path, None)
    OBVIOUS
  <2>2. /\ current' = start /\ UNCHANGED disk /\ pc' = "data" /\ call' = call
        /\ i' = 0 /\ j' = 0
    BY <1>1, <1>3, <2>1 DEF Find, Go
  <2>3. start \in Clusters
    BY <2>2 DEF IInv, LocalPart, Writing, InUse
  <2>4. Target' = start
    <3>1. PICK path \in Seq(Names) : path = call.path
      BY <1>1, CallPathLemma
    <3>2. find_directory_entry(path, None)' = find_directory_entry(path, None)
      BY <1>1, <2>2, StillLemma
    <3>3. path = call'.path
      BY <2>2, <3>1
    <3> QED
      BY <2>1, <3>1, <3>2, <3>3 DEF Target
  <2>5. PICK d : d = call'.data
    OBVIOUS
  <2> DEFINE w == [m \in 0..0 |-> start]
  <2>6. w \in [0..0 -> Clusters] /\ w[0] = start
    BY <2>3
  <2> HIDE DEF w
  <2>7. Written(w, 0, d, 0)'
    <3>1. Linked(w, 0)'
      BY <2>6 DEF Linked
    <3>2. \A m \in 0..0 : \A t \in Sectors : ~(m < 0 \/ t < 0)
      BY ConstantsLemma
    <3> QED
      BY <3>1, <3>2 DEF Written
  <2>8. pc' \in Writing /\ Done' = 0
    BY <2>2 DEF Writing, Done
  <2> QED
    BY <2>2, <2>4, <2>5, <2>6, <2>7, <2>8, WrittenIn
<1> QED
  BY <1>2, <1>3

LEMMA GrowWritten ==
  ASSUME IInv, IInv', WrittenPart, NEW fault, Charge(fault), Grow(fault)
  PROVE  PlacePart' /\ WrittenPart'
<1>1. DiskInv /\ pc = "grow" /\ pc # "idle" /\ i \in Nat
  BY DEF IInv, Grow, Registers
<1>2. PICK new : new = FreeCluster(fault)
  OBVIOUS
<1>3. CASE new = 0
  BY <1>2, <1>3, ReturnWaits DEF Grow
<1>4. CASE ~clean
  BY <1>4, UncleanPart DEF Charge
<1>5. CASE clean /\ new # 0
  <2>1. /\ fat' = [fat EXCEPT ![new] = EOC] /\ sec' = sec
        /\ current' = current /\ i' = i /\ pc' = "tie" /\ call' = call
    BY <1>2, <1>5 DEF Grow, Go
  <2>2. new \in Clusters /\ fat[new] = 0 /\ \A d \in Clusters : fat[d] = 0 => new <= d
    BY <1>2, <1>5, FreeLemma
  <2>3. Target' = Target
    BY <1>1, <2>1, <2>2, MarkHomeLemma
  <2>4. PICK w : Written(w, i, call.data, Done) /\ w[0] = Target /\ w[i] = current
    BY <1>1, <1>5 DEF WrittenPart, Writing
  <2>5. PICK n \in Nat : n = i
    BY <1>1
  <2>6. PICK d : d = call.data
    OBVIOUS
  <2>7. Written(w, n, d, SPC)
    BY <1>1, <2>4, <2>5, <2>6 DEF Done
  <2>8. Written(w, n, d, SPC)'
    BY <1>1, <2>1, <2>2, <2>7, GrownLemma
  <2>9. pc' \in Writing /\ Done' = SPC /\ n = i' /\ d = call'.data
    BY <2>1, <2>5, <2>6 DEF Writing, Done
  <2>10. w[0] = Target' /\ w[n] = current'
    BY <2>1, <2>3, <2>4, <2>5
  <2> QED
    BY <2>8, <2>9, <2>10, WrittenIn
<1> QED
  BY <1>3, <1>4, <1>5

LEMMA TieWritten ==
  ASSUME IInv, IInv', HomePart, WrittenPart, Loops, NEW fault, Charge(fault), Tie(fault)
  PROVE  PlacePart' /\ WrittenPart'
<1>1. /\ DiskInv /\ pc = "tie" /\ pc # "idle" /\ pc \in Writing /\ i \in Nat /\ j = 0
      /\ current \in InUse /\ Fresh(extra)
  BY DEF IInv, Tie, LocalPart, Writing, Registers, Loops
<1>2. CASE ~(clean /\ fault = None)
  BY <1>2, UncleanPart DEF Charge
<1>3. CASE clean /\ fault = None
  <2>1. PICK a \in Clusters : a = current
    BY <1>1 DEF InUse
  <2>2. PICK b \in Clusters : b = extra
    BY <1>1 DEF Fresh, InUse
  <2>3. /\ fat' = [fat EXCEPT ![a] = b] /\ sec' = sec /\ current' = b
        /\ pc' = "data" /\ call' = call /\ i' = i + 1 /\ j' = 0
    BY <1>1, <1>3, <2>1, <2>2 DEF Tie, SetFat, Go
  <2>4. PICK w : Written(w, i, call.data, Done) /\ w[0] = Target /\ w[i] = current
    BY <1>1, <1>3 DEF WrittenPart
  <2>5. PICK n \in Nat : n = i
    BY <1>1
  <2>6. PICK d, h : d = call.data /\ h = Target
    OBVIOUS
  <2>7. Written(w, n, d, SPC) /\ w[n] = a /\ w[0] = h
    BY <1>1, <2>1, <2>4, <2>5, <2>6 DEF Done
  <2>8. PICK v : Written(v, n + 1, d, 0)' /\ v[0] = w[0] /\ v[n + 1] = b
    <3>1. fat' = [fat EXCEPT ![w[n]] = b] /\ sec' = sec
      BY <2>3, <2>7
    <3>2. PICK v : Tied(v, w, n, d, b)
      BY <1>1, <2>7, <3>1, TiedLemma
    <3> QED
      BY <3>2 DEF Tied
  <2>9. Target' = Target
    <3>1. \A x \in Clusters : x # a => fat'[x] = fat[x] /\ sec'[x] = sec[x]
      BY <1>1, <2>3 DEF DiskInv
    <3>2. Home(h, a)
      BY <1>1, <2>1, <2>6 DEF HomePart
    <3> QED
      BY <1>1, <2>3, <2>6, <3>1, <3>2, HomeStep
  <2>10. pc' \in Writing /\ Done' = 0 /\ n + 1 = i' /\ d = call'.data
    BY <2>3, <2>5, <2>6 DEF Writing, Done
  <2>11. v[0] = Target' /\ v[n + 1] = current'
    BY <2>3, <2>6, <2>7, <2>8, <2>9
  <2> QED
    BY <2>8, <2>10, <2>11, WrittenIn
<1> QED
  BY <1>2, <1>3

\* One more sector of the contents is in place.
Advance(n, q, d, p, w) ==
  /\ n = i /\ q = j /\ d = call.data /\ p = call.path
  /\ w[0] = Target /\ w[n] = current /\ Written(w, n, d, q + 1)'
  /\ find_directory_entry(p, None)' = Target

LEMMA SectorWritten ==
  ASSUME IInv, IInv', HomePart, WrittenPart, clean, NEW fault, fault = None, WriteData(fault)
  PROVE  \E n \in Nat, q \in Sectors, d \in Datas, p \in Seq(Names) : \E w : Advance(n, q, d, p, w)
<1>1. /\ DiskInv /\ DiskInv' /\ pc = "data" /\ pc # "idle" /\ pc \in Writing
      /\ current \in Clusters /\ j \in Sectors /\ i \in Nat /\ call.data \in Datas
  BY ArgumentLemma DEF IInv, WriteData, LocalPart, CallPart, Writing, InUse, Registers
<1>2. fat' = fat /\ SetSector(current, j, DataSector(call.data, i, j), fault)
  BY DEF WriteData
<1>3. PICK n \in Nat, q \in Sectors, d \in Datas, c \in Clusters :
        n = i /\ q = j /\ d = call.data /\ c = current
  BY <1>1
<1>4. PICK p \in Seq(Names) : p = call.path
  BY <1>1, CallPathLemma
<1>5. PICK w : Written(w, i, call.data, Done) /\ w[0] = Target /\ w[i] = current
  BY <1>1 DEF WrittenPart
<1>6. Written(w, n, d, q) /\ w[n] = c
  BY <1>1, <1>3, <1>5 DEF Done
<1>7. sec' = [sec EXCEPT ![w[n]][q] = DataSector(d, n, q)] /\ SetSector(c, q, DataSector(d, n, q), fault)
  BY <1>2, <1>3, <1>6 DEF SetSector
<1>8. Written(w, n, d, q + 1)'
  BY <1>1, <1>2, <1>6, <1>7, WriteSectorLemma
<1>9. find_directory_entry(p, None)' = Target
  <2>1. \A x \in Clusters : x # c => fat'[x] = fat[x] /\ sec'[x] = sec[x]
    BY <1>1, <1>2, <1>7, OneSectorLemma
  <2>2. find_directory_entry(p, None) = Target
    BY <1>4 DEF Target
  <2>3. Home(find_directory_entry(p, None), c)
    BY <1>1, <1>3, <2>2 DEF HomePart
  <2>4. find_directory_entry(p, None)' = find_directory_entry(p, None)
    BY <1>1, <2>1, <2>3, AtHomeLemma
  <2> QED
    BY <2>2, <2>4
<1>10. w[0] = Target /\ w[n] = current
  BY <1>3, <1>5
<1>11. Advance(n, q, d, p, w)
  BY <1>3, <1>4, <1>8, <1>9, <1>10 DEF Advance
<1> QED
  BY <1>11

LEMMA WriteDataWritten ==
  ASSUME IInv, IInv', HomePart, WrittenPart, NEW fault, Charge(fault), WriteData(fault)
  PROVE  PlacePart' /\ WrittenPart'
<1>1. CASE ~(clean /\ fault = None)
  BY <1>1, UncleanPart DEF Charge
<1>2. CASE clean /\ fault = None
  <2>1. \/ \E v : Return(v)
        \/ /\ current' = current /\ i' = i /\ call' = call
           /\ \/ pc' = "data" /\ j' = j + 1
              \/ pc' = "grow" /\ j = SPC - 1
    BY <1>2 DEF WriteData, Go
  <2>2. CASE \E v : Return(v)
    BY <2>2, ReturnWaits
  <2>3. CASE /\ current' = current /\ i' = i /\ call' = call
             /\ \/ pc' = "data" /\ j' = j + 1
                \/ pc' = "grow" /\ j = SPC - 1
    <3>0. PICK n \in Nat, q \in Sectors, d \in Datas, p \in Seq(Names) :
            \E w : Advance(n, q, d, p, w)
      BY <1>2, SectorWritten
    <3>1. PICK w :
            /\ n = i /\ q = j /\ d = call.data /\ p = call.path
            /\ w[0] = Target /\ w[n] = current /\ Written(w, n, d, q + 1)'
            /\ find_directory_entry(p, None)' = Target
      BY <3>0 DEF Advance
    <3>2. Target' = Target
      <4>1. p = call'.path
        BY <2>3, <3>1
      <4> QED
        BY <3>1, <4>1 DEF Target
    <3>3. pc' \in Writing /\ Done' = q + 1
      BY <2>3, <3>1, ConstantsLemma DEF Writing, Done
    <3> QED
      BY <2>3, <3>1, <3>2, <3>3, WrittenIn
  <2> QED
    BY <2>1, <2>2, <2>3
<1> QED
  BY <1>1, <1>2

----------------------------------------------------------------------------
LEMMA StepParts ==
  ASSUME IInv, IInv', HomePart, Loops, PlacePart, WrittenPart, NEW fault, Charge(fault), Step(fault)
  PROVE  PlacePart' /\ WrittenPart'
<1>1. CASE Alloc(fault)
  BY <1>1, AllocPlace
<1>2. CASE ZeroCluster(fault)
  BY <1>2, ZeroClusterPlace
<1>3. CASE Undo(fault)
  BY <1>3, ReturnWaits DEF Undo
<1>4. CASE FillSlot(fault)
  <2>1. pc' \in {"idle", "refind"}
    BY <1>4 DEF FillSlot, Created, Return, Go
  <2> QED
    BY <2>1, NoPart DEF Placing, Writing
<1>5. CASE NextDirCluster(fault)
  BY <1>5, NextDirClusterPlace
<1>6. CASE ExtendDir(fault)
  BY <1>6, ExtendDirPlace
<1>7. CASE LinkDir(fault)
  BY <1>7, LinkDirPlace
<1>8. CASE ClearDir(fault)
  BY <1>8, ClearDirPlace
<1>9. CASE Find(fault)
  BY <1>9, FindWritten
<1>10. CASE NotFound(fault)
  <2>1. pc' \in {"idle", "alloc"}
    BY <1>10 DEF NotFound, Return, Go
  <2> QED
    BY <2>1, NoPart DEF Placing, Writing
<1>11. CASE WriteData(fault)
  BY <1>11, WriteDataWritten
<1>12. CASE Grow(fault)
  BY <1>12, GrowWritten
<1>13. CASE Tie(fault)
  BY <1>13, TieWritten
<1>14. CASE delete_file(fault)
  BY <1>14, ReturnWaits DEF delete_file
<1> QED
  BY <1>1, <1>2, <1>3, <1>4, <1>5, <1>6, <1>7, <1>8, <1>9, <1>10, <1>11, <1>12, <1>13, <1>14
  DEF Step

LEMMA StillParts ==
  ASSUME IInv, IInv', PlacePart, WrittenPart, UNCHANGED vars PROVE PlacePart' /\ WrittenPart'
<1>1. UNCHANGED <<disk, pc, call, current, extra, i, j, clean>>
  BY DEF vars, local
<1>2. CASE pc \notin Placing \cup Writing \/ ~clean
  BY <1>1, <1>2, NoPart, UncleanPart
<1>3. CASE pc \in Placing \cup Writing /\ clean
  <2>1. pc # "idle" /\ DiskInv /\ DiskInv'
    BY <1>3 DEF IInv, Placing, Writing
  <2>2. PICK path, dir \in Seq(Names) : path = call.path /\ dir = Parent(call.path)
    BY <2>1, CallPathLemma
  <2>3. /\ find_directory_entry(path, None)' = find_directory_entry(path, None)
        /\ find_directory_entry(dir, None)' = find_directory_entry(dir, None)
    BY <1>1, <2>1, StillLemma
  <2>4. path = call'.path /\ dir = Parent(call'.path)
    BY <1>1, <2>2
  <2>5. Within' = Within /\ Target' = Target
    BY <2>2, <2>3, <2>4 DEF Within, Target
  <2>6. \A o : Reach(o)' = Reach(o)
    BY <1>1, SameReach DEF disk
  <2>7. PICK h, c, e : h = Within /\ c = current /\ e = extra
    OBVIOUS
  <2>8. h = Within' /\ c = current' /\ e = extra'
    BY <1>1, <2>5, <2>7
  <2>9. /\ pc \in Placing => c \in Reach(h)'
        /\ pc = "clear" => e \in Reach(h)'
    BY <1>3, <2>6, <2>7 DEF PlacePart
  <2>10. PlacePart'
    BY <1>1, <2>8, <2>9 DEF PlacePart, Reach, Closed
  <2>11. ASSUME pc \in Writing PROVE PlacePart' /\ WrittenPart'
    <3>1. PICK w : Written(w, i, call.data, Done) /\ w[0] = Target /\ w[i] = current
      BY <1>3, <2>11 DEF WrittenPart
    <3>2. PICK n, d, q : n = i /\ d = call.data /\ q = Done
      OBVIOUS
    <3>3. Written(w, n, d, q)
      BY <3>1, <3>2
    <3>4. Written(w, n, d, q)'
      BY <1>1, <3>3 DEF Written, Linked, disk
    <3>5. n = i' /\ d = call'.data /\ q = Done' /\ pc' \in Writing
      BY <1>1, <2>11, <3>2 DEF Done
    <3>6. w[0] = Target' /\ w[n] = current'
      BY <1>1, <2>5, <3>1, <3>2
    <3> QED
      BY <3>4, <3>5, <3>6, WrittenIn
  <2>12. pc \notin Writing => WrittenPart'
    BY <1>1 DEF WrittenPart
  <2> QED
    BY <2>10, <2>11, <2>12
<1> QED
  BY <1>2, <1>3

\* Everything a call in which no transfer failed relies on.
Sound == HomePart /\ Waiting /\ Loops /\ PlacePart /\ WrittenPart

LEMMA NextSound == ASSUME IInv, IInv', Sound, [Next]_vars PROVE Sound'
<1>1. HomePart'
  BY NextHome DEF Sound
<1>2. CASE UNCHANGED vars
  <2>1. Waiting' /\ Loops'
    BY <1>2 DEF Sound, Waiting, Loops, vars, local
  <2> QED
    BY <1>1, <1>2, <2>1, StillParts DEF Sound
<1>3. CASE (\E fault \in Faults : init(fault)) \/ Elsewhere
  <2>1. pc' = "idle" /\ pc = "idle" /\ i' = i /\ j' = j
    BY <1>3 DEF init, Elsewhere, local
  <2> QED
    BY <1>1, <2>1, NoPart DEF Sound, Waiting, Loops, Placing, Writing
<1>4. CASE \E c \in Calls : Call(c)
  <2>1. PICK c \in Calls : Call(c)
    BY <1>4
  <2>2. /\ pc = "idle" /\ pc' \in {"alloc", "find", "unlink"} /\ ret' = "waiting"
        /\ i' = i /\ j' = j
    BY <2>1, ArgumentLemma DEF Call, local
  <2> QED
    BY <1>1, <2>2, NoPart DEF Sound, Waiting, Loops, Placing, Writing
<1>5. CASE Proceed
  BY <1>1, <1>5, StepLoops, StepParts DEF Proceed, Sound
<1>6. CASE Crash
  <2>1. pc' = "idle" /\ i' = 0 /\ j' = 0
    BY <1>6 DEF Crash
  <2> QED
    BY <1>1, <2>1, NoPart DEF Sound, Waiting, Loops, Placing, Writing
<1> QED
  BY <1>2, <1>3, <1>4, <1>5, <1>6 DEF Next

----------------------------------------------------------------------------
\* A create that reports success can be looked up under the stored name.
LEMMA CreatedLemma ==
  ASSUME IInv, IInv', HomePart, PlacePart, clean, NEW fault, fault = None, FillSlot(fault)
  PROVE  \E p \in Seq(Names) : p = StoredPath(call.path) /\ find_directory_entry(p, None)' # 0
<1>1. /\ DiskInv /\ DiskInv' /\ pc = "slot" /\ pc # "idle" /\ pc \in Creation
      /\ sec \in [Clusters -> [Sectors -> Sector]] /\ 0 \in Sectors
  BY ConstantsLemma DEF IInv, DiskInv, Shape, FillSlot, Creation
<1>2. PICK path, up \in Seq(Names) : path = call.path /\ up = Parent(call.path)
  BY <1>1, CallPathLemma
<1>3. PICK p \in Seq(Names) : p = StoredPath(path)
  BY StoredPathLemma
<1>4. PICK n : n = Stored[Base(path)]
  OBVIOUS
<1>5. p # << >> /\ up = Parent(p) /\ n = Base(p)
  BY <1>2, <1>3, <1>4, StoredPathLemma
<1>6. PICK c \in Clusters : c = current
  BY <1>1 DEF IInv, LocalPart, InUse
<1>7. PICK h \in Clusters : h = Within /\ h \in InUse
  BY <1>1, WithinLemma
<1>8. PICK s : s = Least(Reusable(c))
  OBVIOUS
<1>9. s \in Slots /\ s \in Nat /\ \A t \in Reusable(c) : s <= t
  <2>1. Reusable(c) # {} /\ Reusable(c) \subseteq Slots /\ Reusable(c) \subseteq Nat
    BY <1>6, ConstantsLemma DEF FillSlot, Reusable
  <2> QED
    BY <1>8, <2>1, LeastLemma
<1>10. PICK e : e = Entry(n, call.attributes, cluster)
  OBVIOUS
<1>11. e.kind = "entry" /\ e.name = n
  BY <1>10 DEF Entry
<1>12. fat' = fat /\ sec' = [sec EXCEPT ![c][0][s] = e]
  BY <1>2, <1>4, <1>6, <1>8, <1>10 DEF FillSlot
<1>13. /\ \A x \in Clusters : x # c => fat'[x] = fat[x] /\ sec'[x] = sec[x]
       /\ sec'[c][0][s] = e
       /\ \A t \in Slots : t # s => sec'[c][0][t] = sec[c][0][t]
  <2>1. sec[c] \in [Sectors -> Sector] /\ sec[c][0] \in Sector
    BY <1>1
  <2>2. sec[c][0] \in [Slots -> Content]
    BY <2>1 DEF Sector
  <2>3. sec'[c] = [sec[c] EXCEPT ![0][s] = e] /\ \A x \in Clusters : x # c => sec'[x] = sec[x]
    BY <1>1, <1>12
  <2>4. sec'[c][0] = [sec[c][0] EXCEPT ![s] = e]
    BY <1>1, <2>1, <2>3
  <2> QED
    BY <1>9, <1>12, <2>2, <2>3, <2>4
<1>14. s \in Seen(c)'
  <2>1. ASSUME NEW t \in 1..s PROVE sec'[c][0][t].kind # "zero"
    <3>1. CASE t = s
      BY <1>11, <1>13, <3>1
    <3>2. CASE t # s
      <4>1. t \in Slots /\ t < s
        BY <1>9, <3>2, ConstantsLemma DEF Slots
      <4>2. t \notin Reusable(c)
        BY <1>9, <4>1, ConstantsLemma
      <4>3. sec[c][0][t].kind # "zero"
        BY <4>1, <4>2 DEF Reusable
      <4> QED
        BY <1>13, <3>2, <4>1, <4>3
    <3> QED
      BY <3>1, <3>2
  <2> QED
    BY <1>9, <1>11, <1>13, <2>1 DEF Seen
<1>15. Matching(c, n)' # {}
  <2>1. s \in Matching(c, n)'
    BY <1>11, <1>13, <1>14 DEF Matching
  <2> QED
    BY <2>1
<1>16. c \in Reach(h)' /\ h \in InUse'
  <2>1. c \in Reach(h)
    BY <1>1, <1>6, <1>7 DEF PlacePart, Placing
  <2> QED
    BY <1>7, <1>12, <2>1, SameReach DEF InUse
<1>17. Lookup(h, n, None)' # 0
  BY <1>1, <1>15, <1>16, FoundAfter DEF FoundFact
<1>18. h = find_directory_entry(up, None)'
  <2>1. h = find_directory_entry(up, None)
    BY <1>2, <1>7 DEF Within
  <2>2. Home(find_directory_entry(up, None), c)
    BY <1>1, <1>6, <1>7, <2>1 DEF HomePart
  <2>3. find_directory_entry(up, None)' = find_directory_entry(up, None)
    BY <1>1, <1>13, <2>2, AtHomeLemma
  <2> QED
    BY <2>1, <2>3
<1>19. find_directory_entry(p, None)' = Lookup(h, n, None)'
  BY <1>1, <1>5, <1>18, LastAfter DEF LastFact
<1> QED
  BY <1>2, <1>3, <1>17, <1>19

\* A write that reports success has written the last sector of its last cluster.
LEMMA WroteLemma ==
  ASSUME IInv, IInv', HomePart, WrittenPart, clean, Waiting, NEW fault, fault = None,
         WriteData(fault), ret' = "ok"
  PROVE  \E p \in Seq(Names), d \in Datas :
           /\ p = call.path /\ d = call.data
           /\ \A k \in 1..Length[d] : (read_file(p, k) = Text(d, k))'
<1>1. pc = "data" /\ ret = "waiting"
  BY DEF WriteData, Waiting
<1>2. PICK n \in Nat, q \in Sectors, d \in Datas, p \in Seq(Names) :
        \E w : Advance(n, q, d, p, w)
  BY SectorWritten
<1>3. PICK w : /\ n = i /\ q = j /\ d = call.data /\ p = call.path
               /\ w[0] = Target /\ w[n] = current /\ Written(w, n, d, q + 1)'
               /\ find_directory_entry(p, None)' = Target
  BY <1>2 DEF Advance
<1>4. SPC \in Nat \ {0} /\ q \in 0..(SPC - 1)
  BY ConstantsLemma DEF Sectors
<1>5. ~(j < SPC - 1) /\ ~(j = SPC - 1 /\ i < TotalClusters(call.data) - 1)
  BY <1>1 DEF WriteData, Go
<1>6. q + 1 = SPC
  BY <1>3, <1>4, <1>5
<1>7. n >= TotalClusters(d) - 1
  <2>1. TotalClusters(d) \in Nat
    <3>1. Length[d] \in Nat /\ SPC \in Nat \ {0} /\ SLOTS \in Nat \ {0}
      BY Fat32Assumption
    <3>2. Length[d] + SPC * SLOTS - 1 \in Nat /\ SPC * SLOTS \in Nat \ {0}
      BY <3>1
    <3> QED
      BY <3>2, DivideLemma DEF TotalClusters
  <2>2. ~(n < TotalClusters(d) - 1)
    BY <1>3, <1>4, <1>5, <1>6
  <2> QED
    BY <2>1, <2>2
<1>8. Written(w, n, d, SPC)' /\ w[0] = find_directory_entry(p, None)'
  BY <1>3, <1>6
<1>9. DiskInv'
  BY DEF IInv
<1>10. \A k \in 1..Length[d] : (read_file(p, k) = Text(d, k))'
  BY <1>7, <1>8, <1>9, ReadAfter DEF ReadFact
<1> QED
  BY <1>3, <1>10

\* Where a call reports success.
LEMMA OkLemma ==
  ASSUME CallPart, Waiting, NEW fault, Step(fault), ret' = "ok"
  PROVE  \/ FillSlot(fault) /\ fault = None /\ call.op # "write"
         \/ WriteData(fault) /\ fault = None /\ call.op = "write"
         \/ call.op = "delete"
<1>1. CASE Alloc(fault) \/ ZeroCluster(fault) \/ Undo(fault)
  BY <1>1 DEF Alloc, ZeroCluster, Undo, Return, Go, Waiting
<1>2. CASE FillSlot(fault)
  BY <1>2 DEF FillSlot, Created, Return, Go, Waiting
<1>3. CASE NextDirCluster(fault) \/ ExtendDir(fault) \/ LinkDir(fault) \/ ClearDir(fault)
  BY <1>3 DEF NextDirCluster, ExtendDir, LinkDir, ClearDir, Return, Go, Waiting
<1>4. CASE Find(fault) \/ NotFound(fault) \/ Grow(fault) \/ Tie(fault)
  BY <1>4 DEF Find, NotFound, Grow, Tie, Return, Go, Waiting
<1>5. CASE WriteData(fault)
  <2>1. fault = None
    BY <1>5 DEF WriteData, Return
  <2> QED
    BY <1>5, <2>1 DEF WriteData, CallPart, Writing
<1>6. CASE delete_file(fault)
  BY <1>6 DEF delete_file, CallPart
<1> QED
  BY <1>1, <1>2, <1>3, <1>4, <1>5, <1>6 DEF Step

Promise(c) ==
  /\ c.op = "create" /\ Base(c.path) # "" =>
       (find_directory_entry(StoredPath(c.path), None) # 0)'
  /\ c.op = "write" =>
       \A k \in 1..Length[c.data] : (read_file(c.path, k) = Text(c.data, k))'

LEMMA PromiseLemma ==
  ASSUME IInv, IInv', Sound, [Next]_vars, NEW c \in Calls,
         pc # "idle", call = c, ret' = "ok", clean'
  PROVE  Promise(c)
<1>1. ret = "waiting"
  BY DEF Sound, Waiting
<1>2. PICK fault : Charge(fault) /\ Step(fault)
  <2>1. ~UNCHANGED vars
    BY <1>1 DEF vars
  <2>2. ~(\E fault \in Faults : init(fault)) /\ ~Elsewhere /\ ~(\E d \in Calls : Call(d))
    BY DEF init, Elsewhere, Call
  <2>3. ~Crash
    BY DEF Crash
  <2> QED
    BY <2>1, <2>2, <2>3 DEF Next, Proceed
<1>3. clean
  BY <1>2 DEF Charge
<1>4. CallPart /\ Waiting /\ HomePart /\ PlacePart /\ WrittenPart
  BY DEF IInv, Sound
<1>5. CASE FillSlot(fault) /\ fault = None /\ call.op # "write"
  <2>1. PICK p \in Seq(Names) : p = StoredPath(call.path) /\ find_directory_entry(p, None)' # 0
    BY <1>3, <1>4, <1>5, CreatedLemma
  <2>2. p = StoredPath(c.path) /\ c.op # "write"
    BY <1>5, <2>1
  <2>3. (find_directory_entry(StoredPath(c.path), None) # 0)'
    BY <2>1, <2>2
  <2> QED
    BY <2>2, <2>3 DEF Promise
<1>6. CASE WriteData(fault) /\ fault = None /\ call.op = "write"
  <2>1. PICK p \in Seq(Names), d \in Datas :
          /\ p = call.path /\ d = call.data
          /\ \A k \in 1..Length[d] : (read_file(p, k) = Text(d, k))'
    BY <1>3, <1>4, <1>6, WroteLemma
  <2>2. p = c.path /\ d = c.data /\ c.op = "write"
    BY <1>6, <2>1
  <2>3. \A k \in 1..Length[c.data] : (read_file(c.path, k) = Text(c.data, k))'
    BY <2>1, <2>2
  <2> QED
    BY <2>2, <2>3 DEF Promise
<1>7. CASE call.op = "delete"
  BY <1>7 DEF Promise
<1> QED
  BY <1>2, <1>4, <1>5, <1>6, <1>7, OkLemma

\* A call that reports success, and in which no transfer failed, did what it was
\* asked: what create_file made is found under the name it has on the disk, and
\* what write_file wrote is read back to the last slot, whatever else the volume
\* holds and whatever went wrong before (fat32.cpp:388-459, :535-590).
THEOREM SuccessIsTrue == Spec => Acknowledged
<1>1. Init => Sound
  BY DEF Init, Sound, HomePart, Waiting, Loops, PlacePart, WrittenPart, Creation, Writing, Placing
<1>2. IInv /\ IInv' /\ Sound /\ [Next]_vars =>
        Sound' /\ [\A c \in Calls : pc # "idle" /\ call = c /\ ret' = "ok" /\ clean' =>
                     Promise(c)]_vars
  BY NextSound, PromiseLemma
<1>3. [\A c \in Calls : pc # "idle" /\ call = c /\ ret' = "ok" /\ clean' => Promise(c)]_vars
      <=> [\A c \in Calls : pc # "idle" /\ call = c /\ ret' = "ok" /\ clean' =>
             /\ c.op = "create" /\ Base(c.path) # "" =>
                  (find_directory_entry(StoredPath(c.path), None) # 0)'
             /\ c.op = "write" =>
                  \A k \in 1..Length[c.data] : (read_file(c.path, k) = Text(c.data, k))']_vars
  BY DEF Promise
<1> QED
  BY <1>1, <1>2, <1>3, Invariance, PTL DEF Spec, Acknowledged
====
