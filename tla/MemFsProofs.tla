---- MODULE MemFsProofs ----
(***************************************************************************)
(* Proofs about MemFs for every heap size, node size, set of names and set *)
(* of contents: the list never has a cycle, the loops over it descend, and *)
(* live memory is disjoint.                                                *)
(***************************************************************************)
EXTENDS MemFs, Induction

\* Two address ranges, of la bytes from a and of lb bytes from b, do not meet.
Apart(a, la, b, lb) == a + la <= b \/ b + lb <= a

\* The range of n bytes from a lies in the part of the heap handed out so far.
Below(a, n, p) == HEAP_BASE <= a /\ a + n <= HEAP_BASE + p

\* Disjoint is not inductive: a new block is apart from the old ones because
\* those lie below heap_ptr and the new one starts there.
Layout ==
  /\ \A a \in DOMAIN node :
       /\ Below(a, NODE_SIZE, heap_ptr)
       /\ node[a].data = Null \/ Below(node[a].data, node[a].capacity, heap_ptr)
  /\ \A a, b \in DOMAIN node :
       /\ a # b => Apart(a, NODE_SIZE, b, NODE_SIZE)
       /\ node[b].data # Null => Apart(a, NODE_SIZE, node[b].data, node[b].capacity)
       /\ a # b /\ node[a].data # Null /\ node[b].data # Null =>
            Apart(node[a].data, node[a].capacity, node[b].data, node[b].capacity)

IInv == TypeOK /\ Descending /\ Layout /\ PrevLinks

----------------------------------------------------------------------------
\* malloc returns null or a block that starts at heap_ptr, lies inside the heap
\* and is covered by the bump of heap_ptr (libc.cpp:500-507).
LEMMA MallocLemma ==
  ASSUME NEW p \in Nat, p <= HEAP_SIZE, NEW size \in Nat
  PROVE  /\ Bump(p, size) \in Nat /\ p <= Bump(p, size) /\ Bump(p, size) <= HEAP_SIZE
         /\ malloc(p, size) # Null => /\ malloc(p, size) = HEAP_BASE + p
                                      /\ p + size <= Bump(p, size)
         /\ malloc(p, size) \in Nat
<1>1. Align(size) \in Nat /\ Align(size) >= size
  BY DEF Align
<1>2. p + Align(size) \in Nat
  BY <1>1
<1> QED
  BY <1>1, <1>2, HeapAssumption DEF Bump, malloc, Fits, Null

\* The calls by kind: what Found, Overwrite and WriteNew may select from call.
LEMMA CallLemma ==
  ASSUME call \in Calls
  PROVE  /\ call.op # "list" => call.path \in Names
         /\ call.op = "write" => call.data \in Datas
BY DEF Calls

----------------------------------------------------------------------------
\* The invariant holds before init() runs: no node exists.
LEMMA InitLemma == Init => IInv
BY HeapAssumption DEF Init, IInv, TypeOK, Descending, Layout, PrevLinks, Calls, Put, Null

\* Pushing a node keeps the list descending and its memory apart: the new node
\* lies above every older one, and its next is the old head.  The block of its
\* data, when it has one, lies above the node.
LEMMA PushLemma ==
  ASSUME IInv, NEW n \in Names, NEW a \in Attributes, NEW d \in Nat, NEW size \in Nat,
         NEW h \in Nat, h <= HEAP_SIZE, Bump(heap_ptr, NODE_SIZE) <= h, heap_ptr' = h,
         d # Null => Below(d, size, h) /\ HEAP_BASE + Bump(heap_ptr, NODE_SIZE) <= d,
         PushNode(n, a, d, size)
  PROVE  /\ root_directory' \in DOMAIN node' \cup {Null}
         /\ \A x \in DOMAIN node' : node'[x] \in Fields
         /\ Descending' /\ Layout'
         /\ DOMAIN node \subseteq DOMAIN node' /\ DOMAIN node' \subseteq Nat
<1> DEFINE at == malloc(heap_ptr, NODE_SIZE)
           new == MemoryFile(n, a, d, size, root_directory)
<1>1. heap_ptr \in Nat /\ heap_ptr <= HEAP_SIZE /\ NODE_SIZE \in Nat /\ NODE_SIZE > 0
  BY MemFsAssumption DEF IInv, TypeOK
<1>2. /\ Bump(heap_ptr, NODE_SIZE) \in Nat /\ heap_ptr <= Bump(heap_ptr, NODE_SIZE)
      /\ at # Null => at = HEAP_BASE + heap_ptr /\ heap_ptr + NODE_SIZE <= Bump(heap_ptr, NODE_SIZE)
      /\ at \in Nat
  BY <1>1, MallocLemma
<1>3. CASE at = Null
  <2>1. node' = node /\ root_directory' = Null
    BY <1>3 DEF PushNode
  <2>2. Layout'
    BY <2>1, <1>1, <1>2, HeapAssumption DEF IInv, TypeOK, Layout, Below, Apart, Fields
  <2> QED
    BY <2>1, <2>2 DEF IInv, Descending, TypeOK
<1>4. CASE at # Null
  <2>1. /\ DOMAIN node' = DOMAIN node \cup {at}
        /\ node'[at] = new
        /\ \A x \in DOMAIN node \ {at} : node'[x] = node[x]
        /\ root_directory' = at
    BY <1>4 DEF PushNode, Put
  <2>2. \A x \in DOMAIN node : x + NODE_SIZE <= at /\ x < at
    BY <1>1, <1>2, <1>4, HeapAssumption DEF IInv, TypeOK, Layout, Below
  <2>3. at \notin DOMAIN node
    BY <2>2, <1>2
  <2>4. /\ new = [name |-> n, attributes |-> a, data |-> d, size |-> size,
                  capacity |-> size, next |-> root_directory]
        /\ root_directory \in Nat
    BY DEF MemoryFile, IInv, TypeOK, Null
  <2>5. Descending'
    BY <2>1, <2>2, <2>4, <1>2, <1>4 DEF IInv, TypeOK, Descending, Null, Fields
  <2>6. Layout'
    BY <2>1, <2>2, <2>4, <1>1, <1>2, <1>4, HeapAssumption
       DEF IInv, TypeOK, Layout, Below, Apart, Fields
  <2> QED
    <3>1. DOMAIN node' \subseteq Nat /\ \A x \in DOMAIN node' : node'[x] \in Fields
      BY <2>1, <2>4, <1>2 DEF IInv, TypeOK, Fields
    <3> QED
      BY <2>1, <2>5, <2>6, <3>1
<1> QED
  BY <1>3, <1>4

----------------------------------------------------------------------------
\* Overwriting a file keeps the layout: its contents stay in their own block
\* or move to one above all others.
LEMMA OverwriteLemma == IInv /\ Overwrite => IInv'
<1> SUFFICES ASSUME IInv, Overwrite PROVE IInv'
  OBVIOUS
<1> DEFINE size == Size[call.data]
           at == IF NeedsBlock THEN malloc(heap_ptr, size) ELSE node[file].data
<1>1. file \in DOMAIN node /\ call.data \in Datas /\ size \in Nat
  BY CallLemma, MemFsAssumption DEF Overwrite, Found, IInv, TypeOK
<1>2. /\ heap_ptr \in Nat /\ heap_ptr <= HEAP_SIZE
      /\ heap_ptr' \in Nat /\ heap_ptr' <= HEAP_SIZE /\ heap_ptr <= heap_ptr'
  BY <1>1, MallocLemma DEF IInv, TypeOK, Overwrite
<1>3. /\ at \in Nat
      /\ NeedsBlock /\ at # Null =>
           at = HEAP_BASE + heap_ptr /\ at + size <= HEAP_BASE + heap_ptr'
  BY <1>1, <1>2, MallocLemma, HeapAssumption DEF IInv, TypeOK, Fields, Overwrite
<1>4. /\ DOMAIN node' = DOMAIN node
      /\ \A x \in DOMAIN node \ {file} : node'[x] = node[x]
      /\ node'[file].name = node[file].name /\ node'[file].next = node[file].next
      /\ node'[file].data = at
      /\ node'[file].capacity = IF NeedsBlock THEN size ELSE node[file].capacity
      /\ node'[file] \in Fields
  <2>1. node' = [node EXCEPT ![file].data = at, ![file].size = size,
                             ![file].capacity = IF NeedsBlock THEN size ELSE @]
    BY DEF Overwrite
  <2>2. node[file] \in Fields
    BY <1>1 DEF IInv, TypeOK
  <2> HIDE DEF at, size
  <2> QED
    BY <1>1, <1>3, <2>1, <2>2 DEF Fields
<1>5. Descending'
  BY <1>1, <1>4 DEF IInv, Descending
<1>6. Layout'
  <2>1. \A x \in DOMAIN node : /\ x \in Nat /\ node[x] \in Fields
                              /\ node[x].data \in Nat /\ node[x].capacity \in Nat
    BY DEF IInv, TypeOK, Fields
  <2>2. CASE NeedsBlock
    BY <2>1, <2>2, <1>1, <1>2, <1>3, <1>4, HeapAssumption, MemFsAssumption
       DEF IInv, Layout, Below, Apart
  <2>3. CASE ~NeedsBlock
    BY <2>1, <2>3, <1>1, <1>2, <1>4, HeapAssumption, MemFsAssumption
       DEF IInv, Layout, Below, Apart
  <2> QED
    BY <2>2, <2>3
<1>7. TypeOK'
  <2>1. Null \in DOMAIN bytes' /\ \A x \in DOMAIN bytes' : bytes'[x] \in Datas \cup {Lost}
    BY <1>1 DEF Overwrite, Put, IInv, TypeOK
  <2> QED
    BY <2>1, <1>2, <1>4 DEF Overwrite, Return, mount, IInv, TypeOK, Calls
<1> QED
  BY <1>5, <1>6, <1>7 DEF IInv, PrevLinks, Overwrite, Return

\* Unlinking a node replaces a pointer to it by its own next, which is lower.
LEMMA DeleteLemma == IInv /\ delete_file => IInv'
<1> SUFFICES ASSUME IInv, delete_file PROVE IInv'
  OBVIOUS
<1>1. CASE Found /\ prev # Null
  <2>1. /\ file \in DOMAIN node /\ prev \in DOMAIN node
        /\ node[prev].next = file /\ root_directory' = root_directory
        /\ node' = [node EXCEPT ![prev].next = node[file].next]
    BY <1>1 DEF delete_file, Found, Unlink, IInv, TypeOK, PrevLinks
  <2>2. /\ DOMAIN node' = DOMAIN node
        /\ \A x \in DOMAIN node \ {prev} : node'[x] = node[x]
        /\ node'[prev].next = node[file].next
        /\ node'[prev].data = node[prev].data
        /\ node'[prev].capacity = node[prev].capacity
        /\ node'[prev] \in Fields
    BY <2>1 DEF IInv, TypeOK, Fields
  <2>3. Descending'
    <3>1. node[file].next \in DOMAIN node \cup {Null} /\ node[file].next < file /\ file < prev
      BY <2>1 DEF IInv, Descending
    <3>2. node[file].next < prev
      BY <3>1, <2>1 DEF IInv, TypeOK, Null
    <3> QED
      BY <2>1, <2>2, <3>1, <3>2 DEF IInv, Descending
  <2>4. Layout'
    BY <2>2, <2>1 DEF IInv, Layout, delete_file
  <2> QED
    BY <2>1, <2>2, <2>3, <2>4
       DEF IInv, TypeOK, PrevLinks, delete_file, Return, mount, Calls
<1>2. CASE Found /\ prev = Null
  <2>1. node' = node /\ root_directory' \in DOMAIN node \cup {Null}
    BY <1>2 DEF delete_file, Found, Unlink, IInv, TypeOK, Descending
  <2> QED
    BY <2>1 DEF IInv, TypeOK, Descending, Layout, PrevLinks, delete_file, Return, mount, Calls
<1>3. CASE ~Found
  BY <1>3 DEF IInv, TypeOK, Descending, Layout, PrevLinks, delete_file, Return, mount, Calls
<1> QED
  BY <1>1, <1>2, <1>3

\* A file written under a new name: its node, then its block above the node.
LEMMA WriteNewLemma == IInv /\ WriteNew => IInv'
<1> SUFFICES ASSUME IInv, WriteNew PROVE IInv'
  OBVIOUS
<1> DEFINE size == Size[call.data]
           p == Bump(heap_ptr, NODE_SIZE)
           at == malloc(p, size)
<1>1. call.path \in Names /\ call.data \in Datas /\ size \in Nat /\ NODE_SIZE \in Nat
  BY CallLemma, MemFsAssumption DEF WriteNew, IInv, TypeOK
<1>2. heap_ptr \in Nat /\ heap_ptr <= HEAP_SIZE /\ p \in Nat /\ p <= HEAP_SIZE
  BY <1>1, MallocLemma DEF IInv, TypeOK
<1>3. /\ heap_ptr' = Bump(p, size) /\ heap_ptr' \in Nat /\ p <= heap_ptr'
      /\ heap_ptr' <= HEAP_SIZE /\ at \in Nat
      /\ at # Null => at = HEAP_BASE + p /\ p + size <= heap_ptr'
  BY <1>1, <1>2, MallocLemma DEF WriteNew
<1>4. at # Null => Below(at, size, heap_ptr') /\ HEAP_BASE + p <= at
  BY <1>1, <1>2, <1>3, HeapAssumption DEF Below
<1>5. PushNode(call.path, 0, at, size) /\ 0 \in Attributes
  BY DEF WriteNew, Attributes
<1> HIDE DEF p, at, size
<1>6. /\ root_directory' \in DOMAIN node' \cup {Null}
      /\ \A x \in DOMAIN node' : node'[x] \in Fields
      /\ Descending' /\ Layout'
      /\ DOMAIN node' \subseteq Nat
  BY <1>1, <1>2, <1>3, <1>4, <1>5, PushLemma DEF p
<1>7. Null \in DOMAIN bytes' /\ \A x \in DOMAIN bytes' : bytes'[x] \in Datas \cup {Lost}
  BY <1>1 DEF WriteNew, Put, IInv, TypeOK
<1> QED
  BY <1>3, <1>6, <1>7 DEF IInv, TypeOK, PrevLinks, WriteNew, Return, mount, Calls

\* Creating a file pushes a node without contents.
LEMMA CreateLemma ==
  ASSUME IInv, NEW n \in Names, NEW a \in Attributes, create_file(n, a)
  PROVE  IInv'
<1> DEFINE p == Bump(heap_ptr, NODE_SIZE)
<1>1. CASE fs_initialized /\ use_memory_fs
  <2>1. heap_ptr \in Nat /\ NODE_SIZE \in Nat /\ p \in Nat /\ p <= HEAP_SIZE /\ heap_ptr' = p
    BY <1>1, MallocLemma, MemFsAssumption DEF create_file, IInv, TypeOK
  <2>2. PushNode(n, a, Null, 0) /\ Null \in Nat
    BY <1>1 DEF create_file, Null
  <2> HIDE DEF p
  <2>3. /\ root_directory' \in DOMAIN node' \cup {Null}
        /\ \A x \in DOMAIN node' : node'[x] \in Fields
        /\ Descending' /\ Layout'
        /\ DOMAIN node \subseteq DOMAIN node' /\ DOMAIN node' \subseteq Nat
    BY <2>1, <2>2, PushLemma DEF p
  <2>4. Null \in DOMAIN bytes' /\ \A x \in DOMAIN bytes' : bytes'[x] \in Datas \cup {Lost}
    BY <1>1 DEF create_file, Put, IInv, TypeOK
  <2> QED
    BY <1>1, <2>1, <2>3, <2>4 DEF IInv, TypeOK, PrevLinks, create_file, mount, loop
<1>2. CASE ~(fs_initialized /\ use_memory_fs)
  BY <1>2 DEF create_file, IInv, TypeOK, Descending, Layout, PrevLinks, store, mount, loop
<1> QED
  BY <1>1, <1>2

----------------------------------------------------------------------------
\* Every step keeps the invariant.
LEMMA NextLemma == IInv /\ [Next]_vars => IInv'
<1> SUFFICES ASSUME IInv, [Next]_vars PROVE IInv'
  OBVIOUS
<1> USE DEF IInv, TypeOK, Descending, Layout, PrevLinks
<1>1. ASSUME NEW d \in Drives, init(d) PROVE IInv'
  BY <1>1 DEF init, store, loop
<1>2. ASSUME NEW n \in Names, create_file(n, ARCHIVE) PROVE IInv'
  BY <1>2, CreateLemma DEF Attributes
<1>3. ASSUME NEW n \in NewDirs, create_directory(n) PROVE IInv'
  BY <1>3, CreateLemma, MemFsAssumption DEF Attributes, create_directory
<1>4. ASSUME NEW d \in Dirs, set_current_dir(d) PROVE IInv'
  BY <1>4 DEF set_current_dir, store, mount, loop
<1>5. ASSUME NEW c \in Calls, Enter(c) PROVE IInv'
  BY <1>5 DEF Enter, store, mount, loop
<1>6. CASE Advance
  BY <1>6 DEF Advance, store, mount, Null
<1>7. CASE list_directory
  BY <1>7 DEF list_directory, Return, store, mount, Calls
<1>8. CASE read_file
  BY <1>8 DEF read_file, Return, store, mount, Calls
<1>9. CASE UNCHANGED vars
  BY <1>9 DEF vars, store, mount, loop
<1> QED
  BY <1>1, <1>2, <1>3, <1>4, <1>5, <1>6, <1>7, <1>8, <1>9,
     OverwriteLemma, WriteNewLemma, DeleteLemma DEF Next, Proceed

THEOREM Inductive == Spec => []IInv
BY InitLemma, NextLemma, PTL DEF Spec

\* Every variable of the file system keeps its type, whatever the calls.
THEOREM TypeCorrect == Spec => []TypeOK
BY Inductive, PTL DEF IInv

\* The lists in memory are acyclic: every next pointer leads to an older node
\* or is null (ntfs.cpp:164, :227, :254).
THEOREM ListsDescend == Spec => []Descending
BY Inductive, PTL DEF IInv

\* delete_file unlinks through the pointer that leads to the file (ntfs.cpp:252-257).
THEOREM PrevIsPredecessor == Spec => []PrevLinks
BY Inductive, PTL DEF IInv

\* Nodes and blocks never overlap, so no write reaches another file.
THEOREM MemoryDisjoint == Spec => []Disjoint
<1>1. IInv => Disjoint
  <2> SUFFICES ASSUME IInv, NEW a \in DOMAIN node, NEW b \in DOMAIN node
               PROVE  /\ a # b => NodeRange(a) \cap NodeRange(b) = {}
                                  /\ DataRange(a) \cap DataRange(b) = {}
                      /\ NodeRange(a) \cap DataRange(b) = {}
    BY DEF Disjoint
  <2>1. /\ a \in Nat /\ b \in Nat /\ NODE_SIZE \in Nat
        /\ node[a].data \in Nat /\ node[a].capacity \in Nat
        /\ node[b].data \in Nat /\ node[b].capacity \in Nat
    BY MemFsAssumption DEF IInv, TypeOK, Fields
  <2>2. a # b => NodeRange(a) \cap NodeRange(b) = {}
    BY <2>1 DEF IInv, Layout, Apart, NodeRange
  <2>3. a # b => DataRange(a) \cap DataRange(b) = {}
    BY <2>1 DEF IInv, Layout, Apart, DataRange
  <2>4. NodeRange(a) \cap DataRange(b) = {}
    BY <2>1 DEF IInv, Layout, Apart, NodeRange, DataRange
  <2> QED
    BY <2>2, <2>3, <2>4
<1> QED
  BY <1>1, Inductive, PTL

\* The loops over the list have a variant: every iteration moves to a lower
\* address, so a loop takes at most as many iterations as there are nodes.
THEOREM LoopsDescend == Spec => WalkDescends
<1>1. IInv /\ [Next]_vars => [pc = "walk" /\ pc' = "walk" => file' < file]_vars
  <2> SUFFICES ASSUME IInv, Next, pc = "walk", pc' = "walk" PROVE file' < file
    OBVIOUS
  <2>1. Advance
    BY DEF Next, Proceed, init, create_file, create_directory, set_current_dir, Enter,
           list_directory, read_file, Overwrite, WriteNew, delete_file, Return
  <2> QED
    BY <2>1 DEF Advance, IInv, TypeOK, Descending
<1> QED
  BY <1>1, Inductive, PTL DEF Spec, WalkDescends

----------------------------------------------------------------------------
\* The list as a sequence of addresses: s is what the links lead through from
\* head, in the memory nd.
IsChain(s, nd, head) ==
  /\ s \in Seq(DOMAIN nd)
  /\ head = IF Len(s) = 0 THEN Null ELSE s[1]
  /\ \A k \in 1..Len(s) : nd[s[k]].next = IF k = Len(s) THEN Null ELSE s[k + 1]

\* The file at an address, and the files of a chain.
FileIn(nd, bs, a) ==
  [name |-> nd[a].name, attributes |-> nd[a].attributes,
   data |-> IF nd[a].size = 0 THEN Empty ELSE IF nd[a].data = Null THEN Lost ELSE bs[nd[a].data]]
FilesOf(s, nd, bs) == [k \in 1..Len(s) |-> FileIn(nd, bs, s[k])]

\* Where a loop over s stands: the files before place k do not have the name
\* that is looked for, or were listed.
Walking(s, k) ==
  /\ k \in 1..(Len(s) + 1)
  /\ file = IF k <= Len(s) THEN s[k] ELSE Null
  /\ prev = IF k = 1 THEN Null ELSE s[k - 1]
  /\ call.op # "list" => \A m \in 1..(k - 1) : node[s[m]].name # call.path
  /\ call.op = "list" => listed = [m \in 1..(k - 1) |-> Entry(node[s[m]].name, node[s[m]].attributes)]

ChainPart == \E s : /\ IsChain(s, node, root_directory)
                    /\ pc = "walk" => \E k : Walking(s, k)

\* Contents are where their node says; a block that is missing was refused.
DataPart ==
  /\ IsFiniteSet(DOMAIN node)
  /\ \A a \in DOMAIN node :
       /\ node[a].data # Null => node[a].data \in DOMAIN bytes /\ node[a].capacity # 0
       /\ node[a].data = Null /\ node[a].capacity # 0 => ~Fits(heap_ptr, NODE_SIZE)
       /\ node[a].size # 0 => node[a].capacity # 0

\* Who waits for an answer is in the loop.
ReplyPart ==
  /\ pc = "walk" => ret = Waiting /\ fs_initialized /\ use_memory_fs
  /\ pc = "idle" => ret # Waiting /\ call = [op |-> "list"]

RInv == IInv /\ ChainPart /\ DataPart /\ ReplyPart

\* No address is twice in a chain, so it is no longer than there are nodes.
LEMMA ChainDescends ==
  ASSUME IInv, NEW s, IsChain(s, node, root_directory)
  PROVE  \A l \in 1..Len(s) : \A k \in 1..Len(s) : k < l => s[l] < s[k]
<1>1. PICK N \in Nat : N = Len(s)
  BY DEF IsChain
<1>2. \A k \in 1..N : /\ s[k] \in DOMAIN node /\ s[k] \in Int
                      /\ k # N => node[s[k]].next = s[k + 1] /\ node[s[k]].next < s[k]
  BY <1>1 DEF IsChain, IInv, TypeOK, Descending
<1> DEFINE T == {l \in 0..N : \A k \in 1..N : k < l => s[l] < s[k]}
<1>3. 0 \in T
  BY <1>1
<1> HIDE DEF T
<1>4. ASSUME NEW l \in 0..(N - 1), l \in T PROVE l + 1 \in T
  <2>0. \A k \in 1..N : k < l => s[l] < s[k]
    BY <1>4 DEF T
  <2>1. l + 1 \in 0..N /\ l + 1 \in 1..N
    BY <1>1
  <2>2. ASSUME NEW k \in 1..N, k < l + 1 PROVE s[l + 1] < s[k]
    <3>1. l \in 1..N /\ l # N
      BY <1>1, <2>2
    <3>2. s[l + 1] < s[l] /\ s[l + 1] \in Int /\ s[l] \in Int /\ s[k] \in Int
      <4>1. s[l + 1] \in Int /\ s[l] \in Int /\ s[k] \in Int
        BY <1>2, <2>1, <3>1
      <4>2. node[s[l]].next = s[l + 1] /\ node[s[l]].next < s[l]
        BY <1>2, <3>1
      <4> QED
        BY <4>1, <4>2
    <3>3. CASE k = l
      BY <3>2, <3>3
    <3>4. CASE k < l
      <4>1. s[l] < s[k]
        BY <2>0, <3>4
      <4> QED
        BY <3>2, <4>1
    <3> QED
      BY <2>2, <3>3, <3>4
  <2> QED
    BY <2>1, <2>2 DEF T
<1>5. \A l \in 0..N : l \in T
  BY <1>3, <1>4, IntervalInduction
<1>6. \A l \in 1..N : l \in T
  BY <1>5
<1> QED
  BY <1>1, <1>6 DEF T

LEMMA ChainLemma ==
  ASSUME IInv, IsFiniteSet(DOMAIN node), NEW s, IsChain(s, node, root_directory)
  PROVE  /\ Len(s) \in 0..Cardinality(DOMAIN node) /\ Cardinality(DOMAIN node) \in Nat
         /\ \A k, l \in 1..Len(s) : s[k] = s[l] => k = l
         /\ \A k \in 1..Len(s) : s[k] \in DOMAIN node /\ s[k] # Null
<1>1. PICK N \in Nat : N = Len(s)
  BY DEF IsChain
<1>2. \A k \in 1..N : s[k] \in DOMAIN node /\ s[k] \in Nat
  BY <1>1 DEF IsChain, IInv, TypeOK
<1>3. ASSUME NEW k \in 1..N, NEW l \in 1..N, s[k] = s[l] PROVE k = l
  <2>1. \A m, n \in 1..N : m < n => s[n] < s[m]
    BY <1>1, ChainDescends
  <2>2. s[k] \in Int /\ s[l] \in Int
    BY <1>2
  <2> QED
    BY <1>3, <2>1, <2>2
<1>4. \A k \in 1..N : s[k] # Null
  <2>1. \A a \in DOMAIN node : a # Null
    BY HeapAssumption DEF IInv, Layout, Below, Null
  <2> QED
    BY <1>2, <2>1
<1>5. N <= Cardinality(DOMAIN node) /\ Cardinality(DOMAIN node) \in Nat
  <2>1. s \in Injection(1..N, DOMAIN node)
    <3>1. s = [k \in 1..N |-> s[k]]
      BY <1>1 DEF IsChain
    <3>2. s \in [1..N -> DOMAIN node]
      BY <1>2, <3>1
    <3> QED
      BY <1>3, <3>2 DEF Injection, IsInjective
  <2>2. IsFiniteSet(1..N) /\ Cardinality(1..N) = N
    <3>1. IsFiniteSet(1..N) /\ Cardinality(1..N) = IF 1 > N THEN 0 ELSE N - 1 + 1
      BY FS_Interval
    <3> QED
      BY <3>1
  <2>3. Cardinality(1..N) <= Cardinality(DOMAIN node)
    BY <2>1, FS_Injection
  <2> QED
    BY <2>2, <2>3, FS_CardinalityType
<1> QED
  BY <1>1, <1>2, <1>3, <1>4, <1>5

\* The files of the specification are those of the chain.
FilesFact == \A s : IsChain(s, node, root_directory) => Files = FilesOf(s, node, bytes)

LEMMA FilesLemma == RInv => FilesFact
<1> SUFFICES ASSUME RInv, NEW s, IsChain(s, node, root_directory)
             PROVE  Files = FilesOf(s, node, bytes)
  BY DEF FilesFact
<1>1. /\ Len(s) \in 0..Cardinality(DOMAIN node) /\ Cardinality(DOMAIN node) \in Nat
      /\ \A k \in 1..Len(s) : s[k] \in DOMAIN node /\ s[k] # Null
  BY ChainLemma DEF RInv, DataPart
<1>2. PICK N \in Nat : N = Cardinality(DOMAIN node)
  BY <1>1
<1>20. PICK L \in 0..N : L = Len(s)
  BY <1>1, <1>2
<1> DEFINE Def(c) == c = [k \in 0..N |-> IF k = 0 THEN root_directory
                                        ELSE IF c[k - 1] = Null THEN Null ELSE node[c[k - 1]].next]
           w == [k \in 0..N |-> IF k < L THEN s[k + 1] ELSE Null]
<1>3. /\ root_directory = IF L = 0 THEN Null ELSE s[1]
      /\ \A k \in 1..L : node[s[k]].next = IF k = L THEN Null ELSE s[k + 1]
      /\ \A k \in 1..L : s[k] # Null
  BY <1>1, <1>20 DEF IsChain
<1>4. ASSUME NEW k \in 0..N
      PROVE  w[k] = IF k = 0 THEN root_directory
                    ELSE IF w[k - 1] = Null THEN Null ELSE node[w[k - 1]].next
  <2>1. w[k] = IF k < L THEN s[k + 1] ELSE Null
    OBVIOUS
  <2>2. CASE k = 0
    BY <1>2, <1>3, <2>1, <2>2
  <2>3. CASE k # 0
    <3>1. k - 1 \in 0..N /\ k \in Int
      BY <1>2, <2>3
    <3>2. w[k - 1] = IF k - 1 < L THEN s[k] ELSE Null
      BY <3>1
    <3>3. CASE k - 1 < L
      <4>1. k \in 1..L
        BY <1>2, <2>3, <3>1, <3>3
      <4>2. w[k - 1] = s[k] /\ w[k - 1] # Null
        BY <1>3, <3>2, <3>3, <4>1
      <4>3. k < L <=> k # L
        BY <3>1, <3>3
      <4> QED
        BY <1>3, <2>1, <2>3, <4>1, <4>2, <4>3
    <3>4. CASE ~(k - 1 < L)
      <4>1. ~(k < L)
        BY <1>2, <3>1, <3>4
      <4> QED
        BY <2>1, <2>3, <3>2, <3>4, <4>1
    <3> QED
      BY <3>3, <3>4
  <2> QED
    BY <2>2, <2>3
<1>5. Def(w)
  BY <1>4
<1>6. Chain = CHOOSE c : Def(c)
  BY <1>2 DEF Chain
<1> HIDE DEF w
<1>7. PICK c : c = Chain /\ Def(c)
  BY <1>5, <1>6
<1>8. \A k \in 0..N : c[k] = w[k]
  <2> DEFINE T == {k \in 0..N : c[k] = w[k]}
  <2>1. DOMAIN c = 0..N /\ c[0] = root_directory
    BY <1>7
  <2>2. 0 \in T
    BY <1>4, <2>1
  <2>3. ASSUME NEW k \in 0..(N - 1), k \in T PROVE k + 1 \in T
    <3>1. k + 1 \in 0..N /\ k + 1 # 0 /\ (k + 1) - 1 = k
      BY <1>2
    <3>2. c[k + 1] = IF c[k] = Null THEN Null ELSE node[c[k]].next
      BY <1>7, <3>1
    <3>3. w[k + 1] = IF w[k] = Null THEN Null ELSE node[w[k]].next
      BY <1>4, <3>1
    <3> QED
      BY <2>3, <3>1, <3>2, <3>3
  <2> HIDE DEF T
  <2>4. \A k \in 0..N : k \in T
    BY <2>2, <2>3, IntervalInduction
  <2> QED
    BY <2>4 DEF T
<1>9. \A k \in 0..N : c[k] = IF k < L THEN s[k + 1] ELSE Null
  BY <1>8 DEF w
<1>10. \A k \in 0..N : k < L => k + 1 \in 1..L
  BY <1>2
<1>11. \A k \in 0..N : (c[k] = Null /\ \A m \in 0..(k - 1) : c[m] # Null) <=> k = L
  <2>1. ASSUME NEW k \in 0..N, c[k] = Null, \A m \in 0..(k - 1) : c[m] # Null PROVE k = L
    <3>1. ~(k < L)
      BY <1>3, <1>9, <1>10, <2>1
    <3>2. ~(L < k)
      <4>1. SUFFICES ASSUME L < k PROVE FALSE
        OBVIOUS
      <4>2. L \in 0..(k - 1) /\ L \in 0..N
        BY <1>2, <4>1
      <4>3. c[L] = Null
        BY <1>9, <4>2
      <4> QED
        BY <2>1, <4>2, <4>3
    <3> QED
      BY <1>2, <3>1, <3>2
  <2>2. c[L] = Null
    BY <1>2, <1>9
  <2>3. \A m \in 0..(L - 1) : c[m] # Null
    <3>1. ASSUME NEW m \in 0..(L - 1) PROVE c[m] # Null
      <4>1. m \in 0..N /\ m < L
        BY <1>2
      <4> QED
        BY <1>3, <1>9, <1>10, <4>1
    <3> QED
      BY <3>1
  <2> QED
    BY <2>1, <2>2, <2>3
<1>12. Length = L
  <2>1. DOMAIN Chain = 0..N
    BY <1>7
  <2>2. Length = CHOOSE k \in 0..N : c[k] = Null /\ \A m \in 0..(k - 1) : c[m] # Null
    BY <1>7, <2>1 DEF Length
  <2> QED
    BY <1>2, <1>11, <2>2
<1>13. \A k \in 1..L : Chain[k - 1] = s[k]
  <2>1. ASSUME NEW k \in 1..L PROVE Chain[k - 1] = s[k]
    <3>1. k - 1 \in 0..N /\ k - 1 < L /\ (k - 1) + 1 = k
      BY <1>2
    <3> QED
      BY <1>7, <1>9, <3>1
  <2> QED
    BY <2>1
<1>14. \A a : File(a) = FileIn(node, bytes, a)
  BY DEF File, FileIn, Contents
<1>15. Files = [k \in 1..L |-> File(Chain[k - 1])]
  BY <1>12 DEF Files
<1>16. FilesOf(s, node, bytes) = [k \in 1..L |-> FileIn(node, bytes, s[k])]
  BY <1>20 DEF FilesOf
<1>17. \A k \in 1..L : File(Chain[k - 1]) = FileIn(node, bytes, s[k])
  BY <1>13, <1>14
<1> QED
  BY <1>15, <1>16, <1>17

LEMMA FilesAfter == RInv' => FilesFact'
BY FilesLemma, PTL

----------------------------------------------------------------------------
\* A sequence without its element i.
Drop(s, i) == SubSeq(s, 1, i - 1) \o SubSeq(s, i + 1, Len(s))

LEMMA DropLemma ==
  ASSUME NEW S, NEW s \in Seq(S), NEW i \in 1..Len(s)
  PROVE  /\ Drop(s, i) \in Seq(S) /\ Len(Drop(s, i)) = Len(s) - 1
         /\ \A k \in 1..(Len(s) - 1) : Drop(s, i)[k] = IF k < i THEN s[k] ELSE s[k + 1]
<1>1. PICK N \in Nat : N = Len(s)
  OBVIOUS
<1> DEFINE a == SubSeq(s, 1, i - 1)
           b == SubSeq(s, i + 1, N)
<1>2. /\ a \in Seq(S) /\ Len(a) = i - 1 /\ \A k \in 1..(i - 1) : a[k] = s[k]
      /\ i - 1 \in Nat
  BY <1>1
<1>3. b \in Seq(S) /\ Len(b) = N - i /\ \A k \in 1..(N - i) : b[k] = s[k + i]
  <2>1. \A k \in 1..(N - i) : i + 1 + k - 1 = k + i
    BY <1>1
  <2> QED
    BY <1>1, <2>1
<1> HIDE DEF a, b
<1>4. a \o b \in Seq(S) /\ Len(a \o b) = (i - 1) + (N - i)
      /\ \A k \in 1..((i - 1) + (N - i)) :
           (a \o b)[k] = IF k <= i - 1 THEN a[k] ELSE b[k - (i - 1)]
  <2>1. PICK m \in Nat, n \in Nat : m = i - 1 /\ n = N - i
    <3>1. i \in 1..N
      BY <1>1
    <3>2. i - 1 \in Nat /\ N - i \in Nat
      BY <3>1
    <3> QED
      BY <3>2
  <2>2. /\ a \o b \in Seq(S) /\ Len(a \o b) = m + n
        /\ \A k \in 1..(m + n) : (a \o b)[k] = IF k <= m THEN a[k] ELSE b[k - m]
    <3>1. a \in Seq(S) /\ b \in Seq(S) /\ Len(a) = m /\ Len(b) = n
      BY <1>2, <1>3, <2>1
    <3> QED
      BY <3>1
  <2> QED
    BY <2>1, <2>2
<1>5. ASSUME NEW k \in 1..(N - 1)
      PROVE  (a \o b)[k] = IF k < i THEN s[k] ELSE s[k + 1]
  <2>1. k \in 1..((i - 1) + (N - i)) /\ (k <= i - 1 <=> k < i)
    BY <1>1
  <2>2. k < i => k \in 1..(i - 1)
    BY <1>1
  <2>3. ~(k < i) => k - (i - 1) \in 1..(N - i) /\ k - (i - 1) + i = k + 1
    BY <1>1
  <2> QED
    BY <1>2, <1>3, <1>4, <2>1, <2>2, <2>3
<1>6. Drop(s, i) = a \o b
  BY <1>1 DEF Drop, a, b
<1>7. (i - 1) + (N - i) = N - 1
  BY <1>1
<1> QED
  BY <1>1, <1>4, <1>5, <1>6, <1>7

\* An address that is pushed in front of a chain, with the old head as its next.
LEMMA ChainPush ==
  ASSUME NEW nd, NEW nd2, NEW head, NEW s, IsChain(s, nd, head), NEW at,
         DOMAIN nd2 = DOMAIN nd \cup {at}, nd2[at].next = head,
         \A x \in DOMAIN nd : nd2[x].next = nd[x].next
  PROVE  IsChain(<<at>> \o s, nd2, at)
<1> DEFINE t == <<at>> \o s
<1>1. PICK N \in Nat : N = Len(s)
  BY DEF IsChain
<1>2. s \in Seq(DOMAIN nd2) /\ \A k \in 1..N : s[k] \in DOMAIN nd
  BY <1>1 DEF IsChain
<1>3. /\ t \in Seq(DOMAIN nd2) /\ Len(t) = N + 1 /\ t[1] = at
      /\ \A k \in 1..N : t[k + 1] = s[k]
  BY <1>1, <1>2
<1> HIDE DEF t
<1>4. ASSUME NEW k \in 1..(N + 1)
      PROVE  nd2[t[k]].next = IF k = N + 1 THEN Null ELSE t[k + 1]
  <2>1. CASE k = 1
    <3>1. N # 0 => t[2] = s[1]
      <4>1. N # 0 => 1 \in 1..N /\ 1 + 1 = 2
        OBVIOUS
      <4> QED
        BY <1>3, <4>1
    <3>2. head = IF N = 0 THEN Null ELSE s[1]
      BY <1>1 DEF IsChain
    <3> QED
      BY <1>3, <2>1, <3>1, <3>2
  <2>2. CASE k # 1
    <3>1. k - 1 \in 1..N /\ (k - 1) + 1 = k
      BY <2>2
    <3>2. t[k] = s[k - 1] /\ s[k - 1] \in DOMAIN nd
      BY <1>2, <1>3, <3>1
    <3>3. nd[s[k - 1]].next = IF k - 1 = N THEN Null ELSE s[(k - 1) + 1]
      BY <1>1, <3>1 DEF IsChain
    <3>4. k # N + 1 => k \in 1..N /\ t[k + 1] = s[k]
      BY <1>3
    <3> QED
      BY <3>1, <3>2, <3>3, <3>4
  <2> QED
    BY <2>1, <2>2
<1>5. N + 1 # 0
  OBVIOUS
<1> QED
  BY <1>3, <1>4, <1>5 DEF IsChain, t

\* The links alone make a chain.
LEMMA ChainSame ==
  ASSUME NEW nd, NEW nd2, NEW head, NEW s, IsChain(s, nd, head),
         DOMAIN nd2 = DOMAIN nd, \A x \in DOMAIN nd : nd2[x].next = nd[x].next
  PROVE  IsChain(s, nd2, head)
<1>1. PICK N \in Nat : N = Len(s)
  BY DEF IsChain
<1>2. \A k \in 1..N : s[k] \in DOMAIN nd
  BY <1>1 DEF IsChain
<1> QED
  BY <1>1, <1>2 DEF IsChain

\* Unlinking element i: its predecessor, or the head, takes over its next.
LEMMA ChainDrop ==
  ASSUME NEW nd, NEW nd2, NEW head, NEW s, IsChain(s, nd, head), NEW i \in 1..Len(s),
         \A k, l \in 1..Len(s) : s[k] = s[l] => k = l,
         DOMAIN nd2 = DOMAIN nd,
         \A x \in DOMAIN nd :
           nd2[x].next = IF i # 1 /\ x = s[i - 1] THEN nd[s[i]].next ELSE nd[x].next
  PROVE  IsChain(Drop(s, i), nd2, IF i = 1 THEN nd[s[i]].next ELSE head)
<1> DEFINE t == Drop(s, i)
<1>1. PICK N \in Nat : N = Len(s)
  BY DEF IsChain
<1>2. i \in 1..N /\ s \in Seq(DOMAIN nd2) /\ \A k \in 1..N : s[k] \in DOMAIN nd
  BY <1>1 DEF IsChain
<1>3. /\ t \in Seq(DOMAIN nd2) /\ Len(t) = N - 1
      /\ \A k \in 1..(N - 1) : t[k] = IF k < i THEN s[k] ELSE s[k + 1]
  BY <1>1, <1>2, DropLemma
<1> HIDE DEF t
<1>4. \A k \in 1..N : nd[s[k]].next = IF k = N THEN Null ELSE s[k + 1]
  BY <1>1 DEF IsChain
<1>5. ASSUME NEW k \in 1..(N - 1)
      PROVE  nd2[t[k]].next = IF k = N - 1 THEN Null ELSE t[k + 1]
  <2>0. k \in 1..N /\ k + 1 \in 1..N /\ (k # N - 1 => k + 1 \in 1..(N - 1))
    OBVIOUS
  <2>1. CASE k + 1 < i
    <3>1. t[k] = s[k] /\ k # N - 1 /\ t[k + 1] = s[k + 1]
      BY <1>2, <1>3, <2>0, <2>1
    <3>2. i - 1 \in 1..N /\ k # i - 1 /\ k # N
      BY <1>2, <2>1
    <3>3. s[k] # s[i - 1]
      BY <1>1, <2>0, <3>2
    <3> QED
      BY <1>2, <1>4, <2>0, <3>1, <3>2, <3>3
  <2>2. CASE k + 1 = i
    <3>1. t[k] = s[k] /\ i # 1 /\ k = i - 1
      BY <1>2, <1>3, <2>2
    <3>2. nd2[t[k]].next = nd[s[i]].next
      BY <1>2, <2>0, <3>1
    <3>3. k = N - 1 <=> i = N
      BY <1>2, <2>2
    <3>4. k # N - 1 => t[k + 1] = s[i + 1]
      BY <1>3, <2>0, <2>2
    <3> QED
      BY <1>2, <1>4, <3>2, <3>3, <3>4
  <2>3. CASE k >= i
    <3>1. t[k] = s[k + 1] /\ ~(k < i)
      BY <1>2, <1>3, <2>3
    <3>2. i - 1 \in Int /\ k + 1 # i - 1 /\ (i # 1 => i - 1 \in 1..N)
      BY <1>2, <2>3
    <3>3. i # 1 => s[k + 1] # s[i - 1]
      BY <1>1, <2>0, <3>2
    <3>4. k = N - 1 <=> k + 1 = N
      BY <1>1
    <3>5. k # N - 1 => t[k + 1] = s[(k + 1) + 1]
      <4>1. ~(k + 1 < i)
        BY <2>3
      <4> QED
        BY <1>3, <2>0, <4>1
    <3>6. nd2[s[k + 1]].next = nd[s[k + 1]].next
      BY <1>2, <2>0, <3>3
    <3> QED
      BY <1>4, <2>0, <3>1, <3>4, <3>5, <3>6
  <2> QED
    BY <1>2, <2>1, <2>2, <2>3
<1>6. (IF i = 1 THEN nd[s[i]].next ELSE head) = IF N - 1 = 0 THEN Null ELSE t[1]
  <2>1. head = s[1] /\ 1 \in 1..N
    BY <1>1, <1>2 DEF IsChain
  <2>2. CASE i = 1
    <3>1. N # 1 => 1 \in 1..(N - 1) /\ t[1] = s[2]
      BY <1>2, <1>3, <2>2
    <3>2. nd[s[1]].next = IF 1 = N THEN Null ELSE s[2]
      BY <1>4, <2>1
    <3> QED
      BY <1>1, <2>2, <3>1, <3>2
  <2>3. CASE i # 1
    <3>1. 1 \in 1..(N - 1) /\ 1 < i /\ N - 1 # 0
      BY <1>2, <2>3
    <3> QED
      BY <1>3, <2>1, <2>3, <3>1
  <2> QED
    BY <2>2, <2>3
<1> QED
  BY <1>3, <1>5, <1>6 DEF IsChain, t

\* The files at the addresses of S are the same in two states of the memory.
SameOn(S, nd, bs, nd2, bs2) == \A x \in S : FileIn(nd2, bs2, x) = FileIn(nd, bs, x)

\* The same for the files of a chain.
LEMMA FilesPush ==
  ASSUME NEW nd, NEW nd2, NEW bs, NEW bs2, NEW S, NEW s \in Seq(S), NEW at,
         SameOn(S, nd, bs, nd2, bs2)
  PROVE  FilesOf(<<at>> \o s, nd2, bs2) = <<FileIn(nd2, bs2, at)>> \o FilesOf(s, nd, bs)
<1> DEFINE t == <<at>> \o s
           f == FilesOf(s, nd, bs)
           new == FileIn(nd2, bs2, at)
<1>1. PICK N \in Nat : N = Len(s)
  OBVIOUS
<1>2. Len(t) = N + 1 /\ t[1] = at /\ \A k \in 2..(N + 1) : t[k] = s[k - 1] /\ k - 1 \in 1..N
  BY <1>1
<1>3. Len(f) = N /\ \A k \in 1..N : f[k] = FileIn(nd, bs, s[k])
  BY <1>1 DEF FilesOf
<1>4. DOMAIN f = 1..N /\ f = [k \in 1..N |-> f[k]]
  BY <1>1 DEF FilesOf
<1>5. \A k \in 1..N : s[k] \in S
  BY <1>1
<1> HIDE DEF t, f, new
<1>6. f \in Seq({f[k] : k \in 1..N})
  BY <1>4
<1>7. <<new>> \o f = [k \in 1..(N + 1) |-> IF k = 1 THEN new ELSE f[k - 1]]
  BY <1>3, <1>6
<1>8. FilesOf(t, nd2, bs2) = [k \in 1..(N + 1) |-> FileIn(nd2, bs2, t[k])]
  BY <1>2 DEF FilesOf
<1>90. \A x \in S : FileIn(nd2, bs2, x) = FileIn(nd, bs, x)
  BY DEF SameOn
<1>9. ASSUME NEW k \in 1..(N + 1)
      PROVE  FileIn(nd2, bs2, t[k]) = IF k = 1 THEN new ELSE f[k - 1]
  <2>1. CASE k = 1
    BY <1>2, <2>1 DEF new
  <2>2. CASE k # 1
    <3>1. k \in 2..(N + 1)
      BY <2>2
    <3>2. t[k] = s[k - 1] /\ k - 1 \in 1..N /\ s[k - 1] \in S
      BY <1>2, <1>5, <3>1
    <3> QED
      BY <1>3, <1>90, <2>2, <3>2
  <2> QED
    BY <2>1, <2>2
<1> QED
  BY <1>7, <1>8, <1>9 DEF t, f, new

LEMMA FilesSame ==
  ASSUME NEW nd, NEW nd2, NEW bs, NEW bs2, NEW S, NEW s \in Seq(S),
         SameOn(S, nd, bs, nd2, bs2)
  PROVE  FilesOf(s, nd2, bs2) = FilesOf(s, nd, bs)
<1>1. PICK N \in Nat : N = Len(s)
  OBVIOUS
<1>2. \A k \in 1..N : s[k] \in S
  BY <1>1
<1>3. \A k \in 1..N : FileIn(nd2, bs2, s[k]) = FileIn(nd, bs, s[k])
  BY <1>2 DEF SameOn
<1> QED
  BY <1>1, <1>3 DEF FilesOf

LEMMA FilesDrop ==
  ASSUME NEW nd, NEW nd2, NEW bs, NEW S, NEW s \in Seq(S), NEW i \in 1..Len(s),
         SameOn(S, nd, bs, nd2, bs)
  PROVE  FilesOf(Drop(s, i), nd2, bs) = Drop(FilesOf(s, nd, bs), i)
<1> DEFINE f == FilesOf(s, nd, bs)
           t == Drop(s, i)
<1>1. PICK N \in Nat : N = Len(s)
  OBVIOUS
<1>2. i \in 1..N /\ \A k \in 1..N : s[k] \in S
  BY <1>1
<1>3. Len(f) = N /\ DOMAIN f = 1..N /\ f = [k \in 1..N |-> f[k]]
      /\ \A k \in 1..N : f[k] = FileIn(nd, bs, s[k])
  BY <1>1 DEF FilesOf
<1>4. Len(t) = N - 1 /\ \A k \in 1..(N - 1) : t[k] = IF k < i THEN s[k] ELSE s[k + 1]
  BY <1>1, DropLemma
<1> HIDE DEF f, t
<1>5. f \in Seq({f[k] : k \in 1..N})
  BY <1>3
<1>6. /\ Len(Drop(f, i)) = N - 1
      /\ \A k \in 1..(N - 1) : Drop(f, i)[k] = IF k < i THEN f[k] ELSE f[k + 1]
      /\ Drop(f, i) \in Seq({f[k] : k \in 1..N})
  <2> DEFINE S2 == {f[k] : k \in 1..N}
  <2>1. f \in Seq(S2) /\ i \in 1..Len(f) /\ Len(f) = N
    BY <1>2, <1>3, <1>5
  <2> HIDE DEF S2
  <2>2. /\ Drop(f, i) \in Seq(S2) /\ Len(Drop(f, i)) = N - 1
        /\ \A k \in 1..(N - 1) : Drop(f, i)[k] = IF k < i THEN f[k] ELSE f[k + 1]
    BY <2>1, DropLemma
  <2> QED
    BY <2>2 DEF S2
<1>7. Drop(f, i) = [k \in 1..(N - 1) |-> Drop(f, i)[k]]
  BY <1>6
<1>8. FilesOf(t, nd2, bs) = [k \in 1..(N - 1) |-> FileIn(nd2, bs, t[k])]
  BY <1>4 DEF FilesOf
<1>9. ASSUME NEW k \in 1..(N - 1) PROVE FileIn(nd2, bs, t[k]) = Drop(f, i)[k]
  <2>1. k \in 1..N /\ k + 1 \in 1..N
    OBVIOUS
  <2>2. FileIn(nd2, bs, s[k]) = f[k] /\ FileIn(nd2, bs, s[k + 1]) = f[k + 1]
    BY <1>2, <1>3, <2>1 DEF SameOn
  <2> QED
    BY <1>4, <1>6, <2>2
<1> QED
  BY <1>7, <1>8, <1>9 DEF f, t

----------------------------------------------------------------------------
\* Memory that is too full for a node stays so, and what has no room for some
\* contents has none for a node.
LEMMA FullLemma ==
  ASSUME NEW p \in Nat, NEW q \in Nat, p <= q, NEW size \in Nat, size <= NODE_SIZE
  PROVE  /\ ~Fits(p, NODE_SIZE) => ~Fits(q, NODE_SIZE)
         /\ ~Fits(p, size) => ~Fits(p, NODE_SIZE)
<1>1. NODE_SIZE \in Nat /\ HEAP_SIZE \in Nat
  BY MemFsAssumption, HeapAssumption
<1>2. Align(size) \in Nat /\ Align(NODE_SIZE) \in Nat /\ Align(size) <= Align(NODE_SIZE)
  BY <1>1 DEF Align
<1> QED
  BY <1>1, <1>2 DEF Fits

\* A call that found its name stands at the topmost file of that name.
FoundAt(s, k) ==
  /\ IsChain(s, node, root_directory) /\ Files = FilesOf(s, node, bytes)
  /\ k \in 1..Len(s) /\ file = s[k] /\ prev = IF k = 1 THEN Null ELSE s[k - 1]
  /\ Store!Has(call.path) /\ Store!Top(call.path) = k

LEMMA FoundLemma ==
  ASSUME RInv, pc = "walk", Found
  PROVE  \E s, k : FoundAt(s, k)
<1>1. PICK s, k : IsChain(s, node, root_directory) /\ Walking(s, k)
  BY DEF RInv, ChainPart
<1>2. PICK N \in Nat : N = Len(s)
  BY <1>1 DEF IsChain
<1>3. Files = FilesOf(s, node, bytes)
  BY <1>1, FilesLemma DEF FilesFact
<1>4. k \in 1..N /\ file = s[k] /\ node[file].name = call.path /\ call.op # "list"
  BY <1>1, <1>2 DEF Walking, Found
<1>5. Len(Files) = N /\ \A m \in 1..N : Files[m].name = node[s[m]].name
  BY <1>2, <1>3 DEF FilesOf, FileIn
<1>6. \A m \in 1..(k - 1) : Files[m].name # call.path
  <2>1. \A m \in 1..(k - 1) : m \in 1..N /\ node[s[m]].name # call.path
    BY <1>1, <1>2, <1>4 DEF Walking
  <2> QED
    BY <1>5, <2>1
<1>7. Files[k].name = call.path
  BY <1>4, <1>5
<1>8. Store!Has(call.path)
  BY <1>4, <1>5, <1>7 DEF Store!Has
<1>9. Store!Top(call.path) = k
  <2>1. ASSUME NEW m \in 1..N, Files[m].name = call.path,
               \A j \in 1..(m - 1) : Files[j].name # call.path
        PROVE  m = k
    <3>1. ~(m < k)
      BY <1>4, <1>6, <2>1
    <3>2. ~(k < m)
      BY <1>4, <1>7, <2>1
    <3> QED
      BY <1>4, <3>1, <3>2
  <2>2. Store!Top(call.path) = CHOOSE m \in 1..N : Files[m].name = call.path
                                 /\ \A j \in 1..(m - 1) : Files[j].name # call.path
    BY <1>5 DEF Store!Top
  <2> QED
    BY <1>4, <1>6, <1>7, <2>1, <2>2
<1>10. FoundAt(s, k)
  BY <1>1, <1>2, <1>3, <1>4, <1>8, <1>9 DEF FoundAt, Walking
<1> QED
  BY <1>10

\* A call at the end of the list has seen all of it.
SeenAll(s) ==
  /\ IsChain(s, node, root_directory) /\ Files = FilesOf(s, node, bytes)
  /\ call.op # "list" => ~Store!Has(call.path)
  /\ call.op = "list" =>
       listed = [m \in 1..Len(s) |-> Entry(node[s[m]].name, node[s[m]].attributes)]

LEMMA EndLemma ==
  ASSUME RInv, pc = "walk", file = Null
  PROVE  \E s : SeenAll(s)
<1>1. PICK s, k : IsChain(s, node, root_directory) /\ Walking(s, k)
  BY DEF RInv, ChainPart
<1>2. PICK N \in Nat : N = Len(s)
  BY <1>1 DEF IsChain
<1>3. Files = FilesOf(s, node, bytes) /\ \A m \in 1..N : s[m] # Null
  BY <1>1, <1>2, FilesLemma, ChainLemma DEF FilesFact, RInv, DataPart
<1>4. k - 1 = N /\ k \in Int
  BY <1>1, <1>2, <1>3 DEF Walking
<1>5. Len(Files) = N /\ \A m \in 1..N : Files[m].name = node[s[m]].name
  BY <1>2, <1>3 DEF FilesOf, FileIn
<1>6. call.op # "list" => ~Store!Has(call.path)
  <2>1. call.op # "list" => \A m \in 1..N : node[s[m]].name # call.path
    BY <1>1, <1>4 DEF Walking
  <2> QED
    BY <1>5, <2>1 DEF Store!Has
<1>7. SeenAll(s)
  BY <1>1, <1>2, <1>3, <1>4, <1>6 DEF SeenAll, Walking
<1> QED
  BY <1>7

----------------------------------------------------------------------------
\* Who moves nothing in memory changes no file.
LEMMA QuietLemma ==
  ASSUME RInv, IInv', UNCHANGED store, ReplyPart',
         pc' = "walk" => \E s, k : IsChain(s, node, root_directory) /\ Walking(s, k)'
  PROVE  RInv' /\ Files' = Files
<1>1. heap_ptr' = heap_ptr /\ node' = node /\ bytes' = bytes /\ root_directory' = root_directory
  BY DEF store
<1>2. DataPart'
  BY <1>1 DEF RInv, DataPart
<1>3. ChainPart'
  BY <1>1 DEF RInv, ChainPart
<1>4. RInv'
  BY <1>2, <1>3 DEF RInv
<1>5. PICK s : IsChain(s, node, root_directory)
  BY DEF RInv, ChainPart
<1>6. Files = FilesOf(s, node, bytes)
  BY <1>5, FilesLemma DEF FilesFact
<1>7. Files' = FilesOf(s, node', bytes')
  BY <1>1, <1>4, <1>5, FilesAfter DEF FilesFact
<1> QED
  BY <1>1, <1>4, <1>6, <1>7

StoreStep == [Store!StoreNext]_(Store!storeVars)

\* The mount.
LEMMA InitStep ==
  ASSUME RInv, IInv', NEW d \in Drives, init(d)
  PROVE  RInv' /\ StoreStep
<1>1. /\ pc = "idle" /\ ~fs_initialized /\ fs_initialized' = TRUE /\ ret' = Yes
      /\ use_memory_fs' = (d # "ntfs") /\ pc' = pc /\ call' = call /\ UNCHANGED store
  BY DEF init, loop
<1>2. ReplyPart'
  BY <1>1 DEF RInv, ReplyPart, Yes, Waiting, Reply, Empty
<1>3. RInv' /\ Files' = Files
  BY <1>1, <1>2, QuietLemma
<1>4. Store!Mount
  BY <1>1, <1>3 DEF Store!Mount, store, Store!Yes, Yes, Reply, Store!Reply, Empty, Store!Empty
<1> QED
  BY <1>3, <1>4 DEF StoreStep, Store!StoreNext

\* A change of directory.
LEMMA ChdirStep ==
  ASSUME RInv, IInv', NEW d \in Dirs, set_current_dir(d)
  PROVE  RInv' /\ StoreStep
<1>1. /\ pc = "idle" /\ pc' = pc /\ call' = call /\ UNCHANGED <<store, mount>>
      /\ ret' = IF fs_initialized THEN Yes ELSE No
  BY DEF set_current_dir, loop
<1>2. ReplyPart'
  BY <1>1 DEF RInv, ReplyPart, Yes, No, Waiting, Reply, Empty, mount
<1>3. RInv' /\ Files' = Files
  BY <1>1, <1>2, QuietLemma
<1>4. CASE fs_initialized
  <2>1. Store!Chdir
    BY <1>1, <1>3, <1>4 DEF Store!Chdir, store, mount, Store!Yes, Yes, Reply, Store!Reply, Empty,
       Store!Empty, RInv, ReplyPart, Waiting, Store!Waiting
  <2> QED
    BY <1>3, <2>1 DEF StoreStep, Store!StoreNext
<1>5. CASE ~fs_initialized
  <2>1. Store!Refuse
    BY <1>1, <1>3, <1>5 DEF Store!Refuse, store, mount, Store!No, No, Reply, Store!Reply, Empty,
       Store!Empty
  <2> QED
    BY <1>3, <2>1 DEF StoreStep, Store!StoreNext
<1> QED
  BY <1>4, <1>5

\* A call that enters its loop, or is answered at once where there is no list.
LEMMA EnterStep ==
  ASSUME RInv, IInv', NEW c \in Calls, Enter(c)
  PROVE  RInv' /\ StoreStep
<1>1. CASE fs_initialized /\ use_memory_fs
  <2>1. /\ pc = "idle" /\ pc' = "walk" /\ call' = c /\ listed' = << >> /\ ret' = Waiting
        /\ file' = root_directory /\ prev' = Null /\ UNCHANGED <<store, mount>>
    BY <1>1 DEF Enter
  <2>2. ReplyPart'
    BY <1>1, <2>1 DEF ReplyPart, mount
  <2>3. PICK s : IsChain(s, node, root_directory)
    BY DEF RInv, ChainPart
  <2>4. Walking(s, 1)'
    <3>1. PICK N \in Nat : N = Len(s)
      BY <2>3 DEF IsChain
    <3>2. root_directory = IF N = 0 THEN Null ELSE s[1]
      BY <2>3, <3>1 DEF IsChain
    <3>3. 1 \in 1..(N + 1) /\ (1 <= N <=> N # 0) /\ 1..(1 - 1) = {}
      BY <3>1
    <3>4. << >> = [m \in 1..(1 - 1) |-> Entry(node'[s[m]].name, node'[s[m]].attributes)]
      BY <3>3
    <3> QED
      BY <2>1, <3>1, <3>2, <3>3, <3>4 DEF Walking
  <2>5. RInv' /\ Files' = Files
    BY <2>1, <2>2, <2>3, <2>4, QuietLemma
  <2>6. Store!Ask(c)
    BY <1>1, <2>1, <2>5 DEF Store!Ask, store, mount, RInv, ReplyPart, Waiting, Store!Waiting, Reply,
       Store!Reply
  <2>7. c \in Store!Requests
    BY DEF Store!Requests, Calls
  <2> QED
    BY <2>5, <2>6, <2>7 DEF StoreStep, Store!StoreNext
<1>2. CASE ~(fs_initialized /\ use_memory_fs)
  <2>1. /\ pc = "idle" /\ pc' = pc /\ call' = call /\ ret' = StubReply(c)
        /\ UNCHANGED <<store, mount>>
    BY <1>2 DEF Enter, loop
  <2>2. ret' \in {No, Reply(TRUE, Fixed, Empty), Yes} /\ (~fs_initialized => ret' = No)
    BY <2>1 DEF StubReply
  <2>3. ReplyPart'
    BY <2>1, <2>2 DEF RInv, ReplyPart, Yes, No, Waiting, Reply, Empty, mount
  <2>4. RInv' /\ Files' = Files
    BY <2>1, <2>3, QuietLemma
  <2>5. CASE ret' = No
    <3>1. Store!Refuse
      BY <1>2, <2>1, <2>4, <2>5 DEF Store!Refuse, store, mount, Store!No, No, Reply, Store!Reply,
         Empty, Store!Empty
    <3> QED
      BY <2>4, <3>1 DEF StoreStep, Store!StoreNext
  <2>6. CASE ret' # No
    <3>1. ret' \in {Store!Reply(TRUE, Fixed, Store!Empty), Store!Yes}
      BY <2>2, <2>6 DEF Yes, Reply, Store!Reply, Empty, Store!Empty, Store!Yes
    <3>2. Store!Stub
      BY <1>2, <2>1, <2>2, <2>4, <2>6, <3>1 DEF Store!Stub, store, mount
    <3> QED
      BY <2>4, <3>2 DEF StoreStep, Store!StoreNext
  <2> QED
    BY <2>5, <2>6
<1> QED
  BY <1>1, <1>2

\* One more iteration.
LEMMA AdvanceStep ==
  ASSUME RInv, IInv', Advance
  PROVE  RInv' /\ StoreStep
<1>1. /\ pc = "walk" /\ file # Null /\ ~Found /\ prev' = file /\ file' = node[file].next
      /\ listed' = IF call.op # "list" THEN listed
                   ELSE Append(listed, Entry(node[file].name, node[file].attributes))
      /\ pc' = pc /\ call' = call /\ ret' = ret /\ UNCHANGED <<store, mount>>
  BY DEF Advance
<1>2. PICK s, k : IsChain(s, node, root_directory) /\ Walking(s, k)
  BY <1>1 DEF RInv, ChainPart
<1>3. PICK N \in Nat : N = Len(s)
  BY <1>2 DEF IsChain
<1>4. k \in 1..N /\ file = s[k]
  BY <1>1, <1>2, <1>3 DEF Walking
<1>5. file' = IF k + 1 <= N THEN s[k + 1] ELSE Null
  <2>1. node[s[k]].next = IF k = N THEN Null ELSE s[k + 1]
    BY <1>2, <1>3, <1>4 DEF IsChain
  <2>2. k + 1 <= N <=> k # N
    BY <1>4
  <2> QED
    BY <1>1, <1>4, <2>1, <2>2
<1>6. k + 1 \in 1..(N + 1) /\ k + 1 # 1 /\ (k + 1) - 1 = k /\ node' = node
  BY <1>1, <1>4 DEF store
<1>7. ASSUME call.op # "list" PROVE \A m \in 1..k : node[s[m]].name # call.path
  <2>1. \A m \in 1..(k - 1) : node[s[m]].name # call.path
    BY <1>2, <1>7 DEF Walking
  <2>2. node[s[k]].name # call.path
    BY <1>1, <1>4, <1>7 DEF Found
  <2>3. \A m \in 1..k : m = k \/ m \in 1..(k - 1)
    BY <1>4
  <2> QED
    BY <2>1, <2>2, <2>3
<1>8. ASSUME call.op = "list"
      PROVE  listed' = [m \in 1..k |-> Entry(node[s[m]].name, node[s[m]].attributes)]
  <2> DEFINE e == [m \in 1..N |-> Entry(node[s[m]].name, node[s[m]].attributes)]
             E == {e[m] : m \in 1..N}
  <2>1. listed = [m \in 1..(k - 1) |-> e[m]]
    <3>1. listed = [m \in 1..(k - 1) |-> Entry(node[s[m]].name, node[s[m]].attributes)]
      BY <1>2, <1>8 DEF Walking
    <3>2. \A m \in 1..(k - 1) : m \in 1..N
      BY <1>4
    <3> QED
      BY <3>1, <3>2
  <2>2. listed' = Append(listed, e[k])
    BY <1>1, <1>4, <1>8
  <2>3. k - 1 \in Nat /\ \A m \in 1..k : m \in 1..N
    BY <1>4
  <2>4. \A m \in 1..k : e[m] = Entry(node[s[m]].name, node[s[m]].attributes)
    BY <2>3
  <2> HIDE DEF e
  <2>5. listed \in Seq(E) /\ Len(listed) = k - 1 /\ e[k] \in E
    BY <1>4, <2>1, <2>3
  <2>6. Append(listed, e[k]) = [m \in 1..k |-> e[m]]
    <3>1. PICK n \in Nat : n = k - 1 /\ k = n + 1
      BY <1>4, <2>3
    <3>2. Append(listed, e[k]) = [m \in 1..(n + 1) |-> IF m = n + 1 THEN e[k] ELSE listed[m]]
      BY <2>5, <3>1
    <3>3. \A m \in 1..(n + 1) : m # n + 1 => m \in 1..(k - 1) /\ listed[m] = e[m]
      BY <2>1, <3>1
    <3> QED
      BY <3>1, <3>2, <3>3
  <2> QED
    BY <2>2, <2>4, <2>6
<1>9. Walking(s, k + 1)'
  <2> DEFINE j == k + 1
  <2>1. j \in 1..(N + 1) /\ j # 1 /\ j - 1 = k /\ file' = (IF j <= N THEN s[j] ELSE Null)
    BY <1>5, <1>6
  <2> HIDE DEF j
  <2>2. Walking(s, j)'
    BY <1>1, <1>3, <1>4, <1>6, <1>7, <1>8, <2>1 DEF Walking
  <2> QED
    BY <2>2 DEF j
<1>10. ReplyPart'
  BY <1>1 DEF RInv, ReplyPart, mount
<1>11. RInv' /\ Files' = Files
  BY <1>1, <1>2, <1>9, <1>10, QuietLemma
<1>12. UNCHANGED Store!storeVars
  BY <1>1, <1>11 DEF Store!storeVars, store, mount
<1> QED
  BY <1>11, <1>12 DEF StoreStep

\* The replies that leave a loop are not the one of a call that waits.
LEMMA AnswerLemma ==
  ASSUME RInv, NEW v, Return(v), v \in {Yes, No} \/ v.ok = TRUE
  PROVE  /\ ReplyPart' /\ pc' = "idle" /\ call' = Store!None /\ ret' = v /\ UNCHANGED mount
BY DEF Return, ReplyPart, Yes, No, Waiting, Reply, Empty, mount, Store!None

LEMMA ListStep ==
  ASSUME RInv, IInv', list_directory
  PROVE  RInv' /\ StoreStep
<1>1. /\ pc = "walk" /\ call.op = "list" /\ file = Null /\ UNCHANGED store
      /\ Return(Reply(TRUE, listed, Empty))
  BY DEF list_directory
<1>2. /\ ReplyPart' /\ pc' = "idle" /\ call' = Store!None /\ UNCHANGED mount
      /\ ret' = Reply(TRUE, listed, Empty)
  <2>1. Reply(TRUE, listed, Empty).ok = TRUE
    BY DEF Reply
  <2> QED
    BY <1>1, <2>1, AnswerLemma
<1>3. RInv' /\ Files' = Files
  BY <1>1, <1>2, QuietLemma
<1>4. PICK s : SeenAll(s)
  BY <1>1, EndLemma
<1>5. PICK N \in Nat : N = Len(s)
  BY <1>4 DEF SeenAll, IsChain
<1>6. listed = [i \in 1..Len(Files) |-> [name |-> Files[i].name, attributes |-> Files[i].attributes]]
  <2>1. Len(Files) = N /\ \A m \in 1..N : Files[m].name = node[s[m]].name
                                         /\ Files[m].attributes = node[s[m]].attributes
    BY <1>4, <1>5 DEF SeenAll, FilesOf, FileIn
  <2>2. listed = [m \in 1..N |-> [name |-> node[s[m]].name, attributes |-> node[s[m]].attributes]]
    BY <1>1, <1>4, <1>5 DEF SeenAll, Entry
  <2> QED
    BY <2>1, <2>2
<1>7. ret = Waiting
  BY <1>1 DEF RInv, ReplyPart
<1>8. Store!List
  BY <1>1, <1>2, <1>3, <1>6, <1>7 DEF Store!List, Store!Asked, Store!Answer, store, mount, Waiting,
     Store!Waiting, Reply, Store!Reply, Empty, Store!Empty
<1> QED
  BY <1>3, <1>8 DEF StoreStep, Store!StoreNext

LEMMA ReadStep ==
  ASSUME RInv, IInv', read_file
  PROVE  RInv' /\ StoreStep
<1>1. /\ pc = "walk" /\ call.op = "read" /\ (file = Null \/ Found) /\ UNCHANGED store
      /\ Return(IF Found THEN Reply(TRUE, << >>, ReadValue) ELSE No)
  BY DEF read_file
<1>2. /\ ReplyPart' /\ pc' = "idle" /\ call' = Store!None /\ UNCHANGED mount
      /\ ret' = IF Found THEN Reply(TRUE, << >>, ReadValue) ELSE No
  <2>1. Reply(TRUE, << >>, ReadValue).ok = TRUE
    BY DEF Reply
  <2> QED
    BY <1>1, <2>1, AnswerLemma
<1>3. RInv' /\ Files' = Files
  BY <1>1, <1>2, QuietLemma
<1>4. ret = Waiting
  BY <1>1 DEF RInv, ReplyPart
<1>5. CASE Found
  <2>1. PICK s, k : FoundAt(s, k)
    BY <1>1, <1>5, FoundLemma
  <2>2. k \in 1..Len(s) /\ s[k] = file /\ Files[k] = FileIn(node, bytes, s[k])
    BY <2>1 DEF FoundAt, FilesOf
  <2>3. file \in DOMAIN node
    BY <1>5 DEF Found, RInv, IInv, TypeOK
  <2>4. ReadValue \in Datas \cup {Empty, Lost} /\ Files[k].data \in {ReadValue, Lost}
    <3>1. node[file].data # Null => node[file].data \in DOMAIN bytes
      BY <2>3 DEF RInv, DataPart
    <3>2. Null \in DOMAIN bytes /\ \A a \in DOMAIN bytes : bytes[a] \in Datas \cup {Lost}
      BY DEF RInv, IInv, TypeOK
    <3>3. Files[k].data = IF node[file].size = 0 THEN Empty
                          ELSE IF node[file].data = Null THEN Lost ELSE bytes[node[file].data]
      BY <2>2 DEF FileIn
    <3> QED
      BY <3>1, <3>2, <3>3 DEF ReadValue
  <2>5. Store!Read
    <3>1. Store!Has(call.path) /\ Store!Top(call.path) = k
      BY <2>1 DEF FoundAt
    <3>2. Store!Answer(Store!Reply(TRUE, << >>, ReadValue))
      BY <1>2, <1>5 DEF Store!Answer, Store!Reply, Reply, mount
    <3>3. Store!Asked("read")
      BY <1>1, <1>4 DEF Store!Asked, Waiting, Store!Waiting, Reply, Store!Reply
    <3>4. Files' = Files /\ heap_ptr' = heap_ptr
      BY <1>1, <1>3 DEF store
    <3> QED
      BY <2>4, <3>1, <3>2, <3>3, <3>4 DEF Store!Read, Empty, Lost, Store!Empty, Store!Lost
  <2> QED
    BY <1>3, <2>5 DEF StoreStep, Store!StoreNext
<1>6. CASE ~Found
  <2>1. PICK s : SeenAll(s)
    BY <1>1, <1>6, EndLemma
  <2>2. ~Store!Has(call.path)
    BY <1>1, <2>1 DEF SeenAll
  <2>3. Store!Read
    BY <1>1, <1>2, <1>3, <1>4, <1>6, <2>2 DEF Store!Read, Store!Asked, Store!Answer, store, mount,
       Waiting, Store!Waiting, Reply, Store!Reply, No, Store!No, Empty, Store!Empty
  <2> QED
    BY <1>3, <2>3 DEF StoreStep, Store!StoreNext
<1> QED
  BY <1>5, <1>6

----------------------------------------------------------------------------
\* A push: the new file goes on top of the others, or none is left.
LEMMA PushStep ==
  ASSUME RInv, IInv', pc' = "idle", ReplyPart',
         NEW n, NEW a, NEW d, NEW size, PushNode(n, a, d, size),
         heap_ptr <= heap_ptr', size = 0 \/ d # Null \/ ~Fits(heap_ptr', NODE_SIZE),
         d # Null => d \in DOMAIN bytes' /\ size # 0,
         \A x \in DOMAIN node : node[x].data # Null =>
           node[x].data \in DOMAIN bytes' /\ bytes'[node[x].data] = bytes[node[x].data]
  PROVE  /\ RInv'
         /\ \/ Files' = <<[name |-> n, attributes |-> a,
                           data |-> IF size = 0 THEN Empty ELSE IF d = Null THEN Lost ELSE bytes'[d]]>>
                         \o Files
            \/ ~Fits(heap_ptr', NODE_SIZE) /\ Files' = << >>
<1> DEFINE at == malloc(heap_ptr, NODE_SIZE)
           new == MemoryFile(n, a, d, size, root_directory)
<1>1. /\ heap_ptr \in Nat /\ heap_ptr' \in Nat /\ NODE_SIZE \in Nat /\ NODE_SIZE # 0
      /\ root_directory \in DOMAIN node \cup {Null}
  BY MemFsAssumption DEF RInv, IInv, TypeOK
<1>2. ~Fits(heap_ptr, NODE_SIZE) => ~Fits(heap_ptr', NODE_SIZE)
  BY <1>1, FullLemma
<1>3. PICK s : IsChain(s, node, root_directory)
  BY DEF RInv, ChainPart
<1>4. Files = FilesOf(s, node, bytes) /\ s \in Seq(DOMAIN node)
  BY <1>3, FilesLemma DEF FilesFact, IsChain
<1>5. CASE at = Null
  <2>1. node' = node /\ root_directory' = Null
    BY <1>5 DEF PushNode
  <2>2. ~Fits(heap_ptr', NODE_SIZE)
    BY <1>1, <1>2, <1>5, HeapAssumption DEF malloc, Null
  <2>3. IsChain(<< >>, node', root_directory')
    BY <2>1 DEF IsChain
  <2>4. DataPart'
    BY <2>1, <2>2 DEF RInv, DataPart
  <2>5. RInv'
    BY <2>3, <2>4 DEF RInv, ChainPart
  <2>6. Files' = FilesOf(<< >>, node', bytes')
    BY <2>3, <2>5, FilesAfter DEF FilesFact
  <2>7. FilesOf(<< >>, node', bytes') = << >>
    BY DEF FilesOf
  <2> QED
    BY <2>2, <2>5, <2>6, <2>7
<1>6. CASE at # Null
  <2>1. /\ DOMAIN node' = DOMAIN node \cup {at} /\ node'[at] = new
        /\ \A x \in DOMAIN node \ {at} : node'[x] = node[x]
        /\ root_directory' = at
    BY <1>6 DEF PushNode, Put
  <2>2. at \notin DOMAIN node
    <3>1. \A x \in DOMAIN node : x + NODE_SIZE <= HEAP_BASE + heap_ptr /\ x \in Nat
      BY DEF RInv, IInv, TypeOK, Layout, Below
    <3>2. at = HEAP_BASE + heap_ptr /\ at \in Nat
      BY <1>1, <1>6, HeapAssumption DEF malloc
    <3> QED
      BY <1>1, <3>1, <3>2
  <2> HIDE DEF at
  <2>3. /\ new.name = n /\ new.attributes = a /\ new.data = d /\ new.size = size
        /\ new.capacity = size /\ new.next = root_directory
    BY DEF MemoryFile
  <2> HIDE DEF new
  <2>4. \A x \in DOMAIN node : node'[x] = node[x]
    BY <2>1, <2>2
  <2>5. IsChain(<<at>> \o s, node', root_directory')
    BY <1>3, <2>1, <2>3, <2>4, ChainPush
  <2>6. DataPart'
    <3>1. IsFiniteSet(DOMAIN node')
      BY <2>1, FS_AddElement DEF RInv, DataPart
    <3>2. ASSUME NEW x \in DOMAIN node
          PROVE  /\ node'[x].data # Null => node'[x].data \in DOMAIN bytes' /\ node'[x].capacity # 0
                 /\ node'[x].data = Null /\ node'[x].capacity # 0 => ~Fits(heap_ptr', NODE_SIZE)
                 /\ node'[x].size # 0 => node'[x].capacity # 0
      BY <1>2, <2>4 DEF RInv, DataPart
    <3>3. /\ node'[at].data # Null => node'[at].data \in DOMAIN bytes' /\ node'[at].capacity # 0
          /\ node'[at].data = Null /\ node'[at].capacity # 0 => ~Fits(heap_ptr', NODE_SIZE)
          /\ node'[at].size # 0 => node'[at].capacity # 0
      BY <2>1, <2>3
    <3> QED
      BY <2>1, <3>1, <3>2, <3>3 DEF DataPart
  <2>7. RInv'
    BY <2>5, <2>6 DEF RInv, ChainPart
  <2>8. Files' = FilesOf(<<at>> \o s, node', bytes')
    BY <2>5, <2>7, FilesAfter DEF FilesFact
  <2>9. SameOn(DOMAIN node, node, bytes, node', bytes')
    BY <2>4 DEF FileIn, SameOn
  <2>10. FilesOf(<<at>> \o s, node', bytes') = <<FileIn(node', bytes', at)>> \o Files
    <3>1. s \in Seq(DOMAIN node)
      BY <1>4, Zenon
    <3>2. FilesOf(<<at>> \o s, node', bytes') = <<FileIn(node', bytes', at)>> \o FilesOf(s, node, bytes)
      BY <2>9, <3>1, FilesPush
    <3> QED
      BY <1>4, <3>2
  <2>11. FileIn(node', bytes', at) =
           [name |-> n, attributes |-> a,
            data |-> IF size = 0 THEN Empty ELSE IF d = Null THEN Lost ELSE bytes'[d]]
    BY <2>1, <2>3 DEF FileIn
  <2> QED
    BY <2>7, <2>8, <2>10, <2>11
<1> QED
  BY <1>5, <1>6

\* The bytes of a block are not touched by what is put elsewhere.
LEMMA BlocksStay ==
  ASSUME RInv, NEW at, NEW v, NEW x \in DOMAIN node, node[x].data # Null, node[x].data # at
  PROVE  /\ node[x].data \in DOMAIN bytes
         /\ node[x].data \in DOMAIN Put(bytes, at, v)
         /\ Put(bytes, at, v)[node[x].data] = bytes[node[x].data]
BY DEF RInv, DataPart, Put

LEMMA CreateStep ==
  ASSUME RInv, IInv', NEW n \in Names, NEW a \in Attributes, create_file(n, a)
  PROVE  RInv' /\ StoreStep
<1>1. CASE fs_initialized /\ use_memory_fs
  <2>1. /\ pc = "idle" /\ PushNode(n, a, Null, 0) /\ heap_ptr' = Bump(heap_ptr, NODE_SIZE)
        /\ bytes' = IF Fits(heap_ptr, NODE_SIZE) THEN bytes ELSE Put(bytes, Null, Lost)
        /\ ret' = Yes /\ pc' = pc /\ call' = call /\ UNCHANGED mount
    BY <1>1 DEF create_file, loop
  <2>2. ReplyPart'
    BY <2>1 DEF RInv, ReplyPart, Yes, Waiting, Reply, Empty
  <2>3. heap_ptr \in Nat /\ heap_ptr' \in Nat /\ NODE_SIZE \in Nat /\ heap_ptr <= heap_ptr'
    <3>1. heap_ptr \in Nat /\ NODE_SIZE \in Nat /\ heap_ptr <= HEAP_SIZE
      BY MemFsAssumption DEF RInv, IInv, TypeOK
    <3> QED
      BY <2>1, <3>1, MallocLemma
  <2>4. ASSUME NEW x \in DOMAIN node, node[x].data # Null
        PROVE  node[x].data \in DOMAIN bytes' /\ bytes'[node[x].data] = bytes[node[x].data]
    BY <2>1, <2>4, BlocksStay
  <2>5. /\ RInv'
        /\ \/ Files' = <<[name |-> n, attributes |-> a,
                          data |-> IF 0 = 0 THEN Empty ELSE IF Null = Null THEN Lost ELSE bytes'[Null]]>>
                        \o Files
           \/ ~Fits(heap_ptr', NODE_SIZE) /\ Files' = << >>
    BY <2>1, <2>2, <2>3, <2>4, PushStep
  <2>6. \/ Files' = <<Store!File(n, a, Store!Empty)>> \o Files
        \/ ~Fits(heap_ptr', NODE_SIZE) /\ Files' = << >>
    BY <2>5 DEF Store!File, Store!Empty, Empty
  <2>7. ~Fits(heap_ptr, NODE_SIZE) => ~Fits(heap_ptr', NODE_SIZE)
    BY <2>3, FullLemma
  <2>8. Store!Create(n, a)
    BY <1>1, <2>1, <2>6, <2>7 DEF Store!Create, Store!Push, Store!Consume, RInv, ReplyPart, Waiting,
       Store!Waiting, Reply, Store!Reply, Yes, Store!Yes, Empty, Store!Empty, mount
  <2> QED
    BY <2>5, <2>8 DEF StoreStep, Store!StoreNext
<1>2. CASE ~(fs_initialized /\ use_memory_fs)
  <2>1. /\ pc = "idle" /\ pc' = pc /\ call' = call /\ ret' = No /\ UNCHANGED <<store, mount>>
    BY <1>2 DEF create_file, loop
  <2>2. ReplyPart'
    BY <2>1 DEF RInv, ReplyPart, No, Waiting, Reply, Empty, mount
  <2>3. RInv' /\ Files' = Files
    BY <2>1, <2>2, QuietLemma
  <2>4. Store!Refuse
    BY <1>2, <2>1, <2>3 DEF Store!Refuse, store, mount, Store!No, No, Reply, Store!Reply, Empty,
       Store!Empty
  <2> QED
    BY <2>3, <2>4 DEF StoreStep, Store!StoreNext
<1> QED
  BY <1>1, <1>2

LEMMA WriteNewStep ==
  ASSUME RInv, IInv', WriteNew
  PROVE  RInv' /\ StoreStep
<1> DEFINE size == Size[call.data]
           p == Bump(heap_ptr, NODE_SIZE)
           at == malloc(p, size)
           b == IF Fits(heap_ptr, NODE_SIZE) THEN bytes ELSE Put(bytes, Null, Lost)
<1>1. /\ pc = "walk" /\ call.op = "write" /\ file = Null /\ PushNode(call.path, 0, at, size)
      /\ bytes' = Put(b, at, call.data) /\ heap_ptr' = Bump(p, size) /\ Return(Yes)
  BY DEF WriteNew
<1>2. ReplyPart' /\ pc' = "idle" /\ call' = Store!None /\ ret' = Yes /\ UNCHANGED mount
  BY <1>1, AnswerLemma
<1>3. /\ heap_ptr \in Nat /\ heap_ptr <= HEAP_SIZE /\ NODE_SIZE \in Nat
      /\ call.data \in Datas /\ size \in Nat \ {0} /\ size <= NODE_SIZE
  BY <1>1, CallLemma, MemFsAssumption DEF RInv, IInv, TypeOK
<1>4. /\ p \in Nat /\ heap_ptr <= p /\ p <= HEAP_SIZE
  BY <1>3, MallocLemma
<1>5. heap_ptr' \in Nat /\ p <= heap_ptr' /\ at \in Nat /\ (at # Null => at = HEAP_BASE + p)
  BY <1>1, <1>3, <1>4, MallocLemma
<1> HIDE DEF p
<1>6. heap_ptr <= heap_ptr'
  BY <1>3, <1>4, <1>5
<1>7. at = Null => ~Fits(heap_ptr', NODE_SIZE)
  <2>1. at = Null => ~Fits(p, size)
    BY <1>3, <1>4, HeapAssumption DEF malloc, Null
  <2>2. ~Fits(p, size) => ~Fits(p, NODE_SIZE)
    BY <1>3, <1>4, FullLemma
  <2>3. ~Fits(p, NODE_SIZE) => ~Fits(heap_ptr', NODE_SIZE)
    BY <1>3, <1>4, <1>5, FullLemma
  <2> QED
    BY <2>1, <2>2, <2>3
<1> HIDE DEF at, size
<1>8. ASSUME NEW x \in DOMAIN node, node[x].data # Null
      PROVE  node[x].data \in DOMAIN bytes' /\ bytes'[node[x].data] = bytes[node[x].data]
  <2>1. node[x].data \in Nat /\ node[x].data # at
    <3>1. /\ node[x].data \in Nat /\ node[x].capacity \in Nat /\ node[x].capacity # 0
          /\ node[x].data + node[x].capacity <= HEAP_BASE + heap_ptr
      BY <1>8 DEF RInv, IInv, TypeOK, Fields, DataPart, Layout, Below
    <3> QED
      BY <1>3, <1>4, <1>5, <1>8, <3>1, HeapAssumption
  <2>2. node[x].data \in DOMAIN bytes
    BY <1>8 DEF RInv, DataPart
  <2>3. node[x].data \in DOMAIN b /\ b[node[x].data] = bytes[node[x].data]
    BY <1>8, <2>2 DEF Put
  <2> HIDE DEF b
  <2> QED
    BY <1>1, <2>1, <2>3 DEF Put
<1> HIDE DEF b
<1>9. at # Null => at \in DOMAIN bytes' /\ bytes'[at] = call.data
  BY <1>1 DEF Put
<1>10. /\ RInv'
       /\ \/ Files' = <<[name |-> call.path, attributes |-> 0,
                         data |-> IF size = 0 THEN Empty ELSE IF at = Null THEN Lost ELSE bytes'[at]]>>
                       \o Files
          \/ ~Fits(heap_ptr', NODE_SIZE) /\ Files' = << >>
  BY <1>1, <1>2, <1>3, <1>6, <1>7, <1>8, <1>9, PushStep
<1>11. PICK s : SeenAll(s)
  BY <1>1, EndLemma
<1>12. ~Store!Has(call.path)
  BY <1>1, <1>11 DEF SeenAll
<1> DEFINE stored == IF at = Null THEN Lost ELSE call.data
<1>13. stored \in {call.data, Store!Lost} /\ (stored = Store!Lost => ~Fits(heap_ptr', NODE_SIZE))
  BY <1>3, <1>7, MemFsAssumption DEF Lost, Store!Lost
<1>14. \/ Files' = <<Store!File(call.path, 0, stored)>> \o Files
       \/ ~Fits(heap_ptr', NODE_SIZE) /\ Files' = << >>
  BY <1>3, <1>9, <1>10 DEF Store!File
<1> HIDE DEF stored
<1>15. ~Fits(heap_ptr, NODE_SIZE) => ~Fits(heap_ptr', NODE_SIZE)
  BY <1>3, <1>5, <1>6, FullLemma
<1>16. Store!Push(Store!File(call.path, 0, stored))
  BY <1>14, <1>15 DEF Store!Push, Store!Consume
<1>17. Store!Write
  <2>1. Store!Asked("write")
    BY <1>1 DEF RInv, ReplyPart, Store!Asked, Waiting, Store!Waiting, Reply, Store!Reply
  <2>2. Store!Answer(Store!Yes)
    BY <1>2 DEF Store!Answer, Store!Yes, Yes, Reply, Store!Reply, Empty, Store!Empty, mount
  <2> QED
    BY <1>12, <1>13, <1>16, <2>1, <2>2 DEF Store!Write
<1> QED
  BY <1>10, <1>17 DEF StoreStep, Store!StoreNext

LEMMA OverwriteStep ==
  ASSUME RInv, IInv', Overwrite
  PROVE  RInv' /\ StoreStep
<1> DEFINE size == Size[call.data]
           at == IF NeedsBlock THEN malloc(heap_ptr, size) ELSE node[file].data
           capacity == IF NeedsBlock THEN size ELSE node[file].capacity
<1>1. /\ pc = "walk" /\ call.op = "write" /\ Found /\ Return(Yes) /\ root_directory' = root_directory
      /\ node' = [node EXCEPT ![file].data = at, ![file].size = size, ![file].capacity = capacity]
      /\ bytes' = Put(bytes, at, call.data)
      /\ heap_ptr' = IF NeedsBlock THEN Bump(heap_ptr, size) ELSE heap_ptr
  BY DEF Overwrite
<1>2. ReplyPart' /\ pc' = "idle" /\ call' = Store!None /\ ret' = Yes /\ UNCHANGED mount
  BY <1>1, AnswerLemma
<1>3. /\ heap_ptr \in Nat /\ heap_ptr <= HEAP_SIZE /\ NODE_SIZE \in Nat
      /\ call.data \in Datas /\ size \in Nat \ {0} /\ size <= NODE_SIZE
      /\ file \in DOMAIN node /\ node[file] \in Fields
  BY <1>1, CallLemma, MemFsAssumption DEF RInv, IInv, TypeOK, Found
<1>4. heap_ptr' \in Nat /\ heap_ptr <= heap_ptr'
  BY <1>1, <1>3, MallocLemma
<1>5. capacity \in Nat \ {0}
  BY <1>3 DEF NeedsBlock, Fields
<1>6. at = Null => ~Fits(heap_ptr', NODE_SIZE)
  <2>1. CASE NeedsBlock
    <3>1. at = Null => ~Fits(heap_ptr, size)
      BY <1>3, <2>1, HeapAssumption DEF malloc, Null
    <3>2. ~Fits(heap_ptr, size) => ~Fits(heap_ptr, NODE_SIZE)
      BY <1>3, FullLemma
    <3>3. ~Fits(heap_ptr, NODE_SIZE) => ~Fits(heap_ptr', NODE_SIZE)
      BY <1>3, <1>4, FullLemma
    <3> QED
      BY <3>1, <3>2, <3>3
  <2>2. CASE ~NeedsBlock
    <3>1. node[file].capacity # 0 /\ heap_ptr' = heap_ptr /\ at = node[file].data
      BY <1>1, <1>5, <2>2
    <3> QED
      BY <1>3, <3>1 DEF RInv, DataPart
  <2> QED
    BY <2>1, <2>2
<1>7. ASSUME NEW x \in DOMAIN node, x # file, node[x].data # Null PROVE node[x].data # at
  <2>1. /\ node[x].data \in Nat /\ node[x].capacity \in Nat /\ node[x].capacity # 0
        /\ node[x].data + node[x].capacity <= HEAP_BASE + heap_ptr
    BY <1>7 DEF RInv, IInv, TypeOK, Fields, DataPart, Layout, Below
  <2>2. CASE NeedsBlock
    <3>1. at = Null \/ at = HEAP_BASE + heap_ptr
      BY <2>2 DEF malloc
    <3> QED
      BY <1>3, <1>7, <2>1, <3>1, HeapAssumption
  <2>3. CASE ~NeedsBlock
    <3>1. at = node[file].data
      BY <2>3
    <3>2. SUFFICES ASSUME node[file].data # Null PROVE node[x].data # node[file].data
      BY <1>7, <3>1
    <3>3. /\ node[file].data \in Nat /\ node[file].capacity \in Nat /\ node[file].capacity # 0
      BY <1>3, <3>2 DEF RInv, Fields, DataPart
    <3>4. Apart(node[x].data, node[x].capacity, node[file].data, node[file].capacity)
      BY <1>3, <1>7, <3>2 DEF RInv, IInv, Layout
    <3> QED
      BY <2>1, <3>3, <3>4 DEF Apart
  <2> QED
    BY <2>2, <2>3
<1>8. /\ DOMAIN node' = DOMAIN node /\ \A x \in DOMAIN node : x # file => node'[x] = node[x]
      /\ node'[file].name = node[file].name /\ node'[file].attributes = node[file].attributes
      /\ node'[file].next = node[file].next
      /\ node'[file].data = at /\ node'[file].size = size /\ node'[file].capacity = capacity
  <2> HIDE DEF at, size, capacity
  <2> QED
    BY <1>1, <1>3 DEF Fields
<1> HIDE DEF size, at, capacity
<1>9. at \in DOMAIN bytes' /\ bytes'[at] = call.data
      /\ \A c \in DOMAIN bytes : c \in DOMAIN bytes' /\ (c # at => bytes'[c] = bytes[c])
  BY <1>1 DEF Put
<1>10. PICK s, k : FoundAt(s, k)
  BY <1>1, FoundLemma
<1>11. PICK N \in Nat : N = Len(s)
  BY <1>10 DEF FoundAt, IsChain
<1>12. /\ k \in 1..N /\ file = s[k] /\ Files = FilesOf(s, node, bytes)
       /\ IsChain(s, node, root_directory)
       /\ Store!Has(call.path) /\ Store!Top(call.path) = k
  BY <1>10, <1>11 DEF FoundAt
<1>13. IsChain(s, node', root_directory')
  <2>1. \A x \in DOMAIN node : node'[x].next = node[x].next
    BY <1>8
  <2>2. IsChain(s, node', root_directory)
    BY <1>8, <1>12, <2>1, ChainSame
  <2> QED
    BY <1>1, <2>2
<1>14. DataPart'
  <2>1. ASSUME NEW x \in DOMAIN node, x # file
        PROVE  /\ node'[x].data # Null => node'[x].data \in DOMAIN bytes' /\ node'[x].capacity # 0
               /\ node'[x].data = Null /\ node'[x].capacity # 0 => ~Fits(heap_ptr', NODE_SIZE)
               /\ node'[x].size # 0 => node'[x].capacity # 0
    <3>1. ~Fits(heap_ptr, NODE_SIZE) => ~Fits(heap_ptr', NODE_SIZE)
      BY <1>3, <1>4, FullLemma
    <3> QED
      BY <1>8, <1>9, <2>1, <3>1 DEF RInv, DataPart
  <2>2. /\ node'[file].data # Null => node'[file].data \in DOMAIN bytes' /\ node'[file].capacity # 0
        /\ node'[file].data = Null /\ node'[file].capacity # 0 => ~Fits(heap_ptr', NODE_SIZE)
        /\ node'[file].size # 0 => node'[file].capacity # 0
    BY <1>5, <1>6, <1>8, <1>9
  <2>3. IsFiniteSet(DOMAIN node')
    BY <1>8 DEF RInv, DataPart
  <2> QED
    BY <1>8, <2>1, <2>2, <2>3 DEF DataPart
<1>15. RInv'
  BY <1>2, <1>13, <1>14 DEF RInv, ChainPart
<1>16. Files' = FilesOf(s, node', bytes')
  BY <1>13, <1>15, FilesAfter DEF FilesFact
<1> DEFINE stored == IF at = Null THEN Lost ELSE call.data
<1>17. stored \in {call.data, Store!Lost} /\ (stored = Store!Lost => ~Fits(heap_ptr', NODE_SIZE))
  BY <1>3, <1>6, MemFsAssumption DEF Lost, Store!Lost
<1>18. Files' = [Files EXCEPT ![k].data = stored]
  <2>1. /\ Files' = [m \in 1..N |-> FileIn(node', bytes', s[m])]
        /\ Files = [m \in 1..N |-> FileIn(node, bytes, s[m])]
    BY <1>11, <1>12, <1>16 DEF FilesOf
  <2>2. ASSUME NEW m \in 1..N, m # k PROVE FileIn(node', bytes', s[m]) = FileIn(node, bytes, s[m])
    <3>1. s[m] \in DOMAIN node /\ s[m] # file
      BY <1>11, <1>12, <2>2, ChainLemma DEF RInv, DataPart
    <3>2. node'[s[m]] = node[s[m]]
      BY <1>8, <3>1
    <3>3. node[s[m]].data # Null => bytes'[node[s[m]].data] = bytes[node[s[m]].data]
      BY <1>7, <1>9, <3>1 DEF RInv, DataPart
    <3> QED
      BY <3>2, <3>3 DEF FileIn
  <2>3. FileIn(node', bytes', s[k]) = [FileIn(node, bytes, s[k]) EXCEPT !.data = stored]
    <3>1. FileIn(node', bytes', s[k]) =
            [name |-> node[file].name, attributes |-> node[file].attributes, data |-> stored]
      BY <1>3, <1>8, <1>9, <1>12 DEF FileIn
    <3>2. FileIn(node, bytes, s[k]) =
            [name |-> node[file].name, attributes |-> node[file].attributes,
             data |-> FileIn(node, bytes, s[k]).data]
      BY <1>12 DEF FileIn
    <3> HIDE DEF stored
    <3> QED
      BY <3>1, <3>2
  <2> HIDE DEF stored
  <2>4. k \in 1..N
    BY <1>12
  <2> QED
    BY <2>1, <2>2, <2>3, <2>4
<1> HIDE DEF stored
<1>19. ~Fits(heap_ptr, NODE_SIZE) => ~Fits(heap_ptr', NODE_SIZE)
  BY <1>3, <1>4, FullLemma
<1>20. Store!Write
  <2>1. Store!Asked("write")
    BY <1>1 DEF RInv, ReplyPart, Store!Asked, Waiting, Store!Waiting, Reply, Store!Reply
  <2>2. Store!Answer(Store!Yes)
    BY <1>2 DEF Store!Answer, Store!Yes, Yes, Reply, Store!Reply, Empty, Store!Empty, mount
  <2>3. Store!Consume
    BY <1>19 DEF Store!Consume
  <2>4. Files' = [Files EXCEPT ![Store!Top(call.path)].data = stored]
    BY <1>12, <1>18
  <2> QED
    BY <1>12, <1>17, <2>1, <2>2, <2>3, <2>4 DEF Store!Write
<1> QED
  BY <1>15, <1>20 DEF StoreStep, Store!StoreNext

LEMMA DeleteStep ==
  ASSUME RInv, IInv', delete_file
  PROVE  RInv' /\ StoreStep
<1>1. /\ pc = "walk" /\ call.op = "delete" /\ (file = Null \/ Found)
      /\ Return(IF Found THEN Yes ELSE No) /\ heap_ptr' = heap_ptr /\ bytes' = bytes
  BY DEF delete_file
<1>2. /\ ReplyPart' /\ pc' = "idle" /\ call' = Store!None /\ UNCHANGED mount
      /\ ret' = IF Found THEN Yes ELSE No
  BY <1>1, AnswerLemma
<1>3. Store!Asked("delete")
  BY <1>1 DEF RInv, ReplyPart, Store!Asked, Waiting, Store!Waiting, Reply, Store!Reply
<1>4. CASE Found
  <2>1. PICK s, k : FoundAt(s, k)
    BY <1>1, <1>4, FoundLemma
  <2>2. PICK N \in Nat : N = Len(s)
    BY <2>1 DEF FoundAt, IsChain
  <2>3. /\ k \in 1..N /\ k \in 1..Len(s) /\ file = s[k] /\ prev = IF k = 1 THEN Null ELSE s[k - 1]
        /\ Files = FilesOf(s, node, bytes) /\ IsChain(s, node, root_directory)
        /\ Store!Has(call.path) /\ Store!Top(call.path) = k
    BY <2>1, <2>2 DEF FoundAt
  <2>4. /\ \A l, m \in 1..Len(s) : s[l] = s[m] => l = m
        /\ \A m \in 1..Len(s) : s[m] \in DOMAIN node /\ s[m] # Null
    BY <2>3, ChainLemma DEF RInv, DataPart
  <2>5. k # 1 => prev \in DOMAIN node /\ prev # Null /\ prev = s[k - 1]
    <3>1. k # 1 => k - 1 \in 1..N
      BY <2>3
    <3> QED
      BY <2>2, <2>3, <2>4, <3>1
  <2>6. /\ DOMAIN node' = DOMAIN node
        /\ \A x \in DOMAIN node :
             /\ node'[x].next = IF k # 1 /\ x = s[k - 1] THEN node[s[k]].next ELSE node[x].next
             /\ node'[x].name = node[x].name /\ node'[x].attributes = node[x].attributes
             /\ node'[x].data = node[x].data /\ node'[x].size = node[x].size
             /\ node'[x].capacity = node[x].capacity
        /\ root_directory' = IF k = 1 THEN node[s[k]].next ELSE root_directory
    <3>1. Unlink
      BY <1>4 DEF delete_file
    <3>2. CASE k = 1
      BY <2>3, <3>1, <3>2 DEF Unlink
    <3>3. CASE k # 1
      <4>1. node' = [node EXCEPT ![prev].next = node[file].next] /\ root_directory' = root_directory
        BY <2>5, <3>1, <3>3 DEF Unlink
      <4>2. node[prev] \in Fields
        BY <2>5, <3>3 DEF RInv, IInv, TypeOK
      <4> QED
        BY <2>3, <2>5, <3>3, <4>1, <4>2 DEF Fields
    <3> QED
      BY <3>2, <3>3
  <2>7. IsChain(Drop(s, k), node', root_directory')
    <3>1. \A x \in DOMAIN node :
            node'[x].next = IF k # 1 /\ x = s[k - 1] THEN node[s[k]].next ELSE node[x].next
      BY <2>6
    <3>2. IsChain(Drop(s, k), node', IF k = 1 THEN node[s[k]].next ELSE root_directory)
      BY <2>3, <2>4, <2>6, <3>1, ChainDrop
    <3> QED
      BY <2>6, <3>2
  <2>8. DataPart'
    BY <1>1, <2>6 DEF RInv, DataPart
  <2>9. RInv'
    BY <1>2, <2>7, <2>8 DEF RInv, ChainPart
  <2>10. Files' = FilesOf(Drop(s, k), node', bytes')
    BY <2>7, <2>9, FilesAfter DEF FilesFact
  <2>11. SameOn(DOMAIN node, node, bytes, node', bytes)
    BY <2>6 DEF SameOn, FileIn
  <2>12. Files' = Drop(Files, k)
    <3>1. s \in Seq(DOMAIN node)
      BY <2>3 DEF IsChain
    <3>2. FilesOf(Drop(s, k), node', bytes) = Drop(FilesOf(s, node, bytes), k)
      BY <2>3, <2>11, <3>1, FilesDrop
    <3> QED
      BY <1>1, <2>3, <2>10, <3>2
  <2>13. Store!Delete
    <3>1. Files' = Store!Without(Store!Top(call.path))
      BY <2>3, <2>12 DEF Store!Without, Drop
    <3>2. Store!Answer(Store!Yes)
      BY <1>2, <1>4 DEF Store!Answer, Store!Yes, Yes, Reply, Store!Reply, Empty, Store!Empty, mount
    <3> QED
      BY <1>1, <1>3, <2>3, <3>1, <3>2 DEF Store!Delete
  <2> QED
    BY <2>9, <2>13 DEF StoreStep, Store!StoreNext
<1>5. CASE ~Found
  <2>1. UNCHANGED store
    BY <1>1, <1>5 DEF delete_file, store
  <2>2. RInv' /\ Files' = Files
    BY <1>2, <2>1, QuietLemma
  <2>3. PICK s : SeenAll(s)
    BY <1>1, <1>5, EndLemma
  <2>4. ~Store!Has(call.path)
    BY <1>1, <2>3 DEF SeenAll
  <2>5. Store!Delete
    BY <1>1, <1>2, <1>3, <1>5, <2>2, <2>4 DEF Store!Delete, Store!Answer, mount,
       Reply, Store!Reply, No, Store!No, Empty, Store!Empty
  <2> QED
    BY <2>2, <2>5 DEF StoreStep, Store!StoreNext
<1> QED
  BY <1>4, <1>5

----------------------------------------------------------------------------
LEMMA RInitLemma == Init => RInv /\ Store!StoreInit
<1> SUFFICES ASSUME Init PROVE RInv /\ Store!StoreInit
  OBVIOUS
<1>1. IInv
  BY InitLemma
<1>2. /\ node = << >> /\ root_directory = Null /\ pc = "idle" /\ call = [op |-> "list"] /\ ret = No
      /\ ~fs_initialized
  BY DEF Init
<1>3. IsChain(<< >>, node, root_directory)
  BY <1>2 DEF IsChain
<1>4. DataPart
  <2>1. DOMAIN node = {}
    BY <1>2
  <2> QED
    BY <2>1, FS_EmptySet DEF DataPart
<1>5. ReplyPart
  BY <1>2 DEF ReplyPart, No, Waiting, Reply, Empty
<1>6. RInv
  BY <1>1, <1>2, <1>3, <1>4, <1>5 DEF RInv, ChainPart
<1>7. Files = << >>
  <2>1. Files = FilesOf(<< >>, node, bytes)
    BY <1>3, <1>6, FilesLemma DEF FilesFact
  <2> QED
    BY <2>1 DEF FilesOf
<1>8. Store!StoreInit
  BY <1>2, <1>7 DEF Store!StoreInit, Store!None, No, Store!No, Reply, Store!Reply, Empty, Store!Empty
<1> QED
  BY <1>6, <1>8

\* Every step of the code is a step of the stack of files, or none.
LEMMA RNextLemma == RInv /\ IInv' /\ [Next]_vars => RInv' /\ StoreStep
<1> SUFFICES ASSUME RInv, IInv', [Next]_vars PROVE RInv' /\ StoreStep
  OBVIOUS
<1>1. ASSUME NEW n \in NewDirs, create_directory(n) PROVE RInv' /\ StoreStep
  <2>1. n \in Names /\ 0 \in Attributes /\ create_file(n, 0)
    BY <1>1, MemFsAssumption DEF create_directory, Attributes
  <2> QED
    BY <2>1, CreateStep
<1>2. ASSUME NEW n \in Names, create_file(n, ARCHIVE) PROVE RInv' /\ StoreStep
  BY <1>2, CreateStep DEF Attributes
<1>3. CASE UNCHANGED vars
  <2>1. UNCHANGED <<store, mount, pc, call, file, prev, listed, ret>>
    BY <1>3 DEF vars, loop
  <2>2. ReplyPart'
    BY <2>1 DEF RInv, ReplyPart, mount
  <2>3. pc' = "walk" => \E s, k : IsChain(s, node, root_directory) /\ Walking(s, k)'
    BY <2>1 DEF RInv, ChainPart, Walking, store
  <2>4. RInv' /\ Files' = Files
    BY <2>1, <2>2, <2>3, QuietLemma
  <2>5. UNCHANGED Store!storeVars
    BY <2>1, <2>4 DEF Store!storeVars, store, mount
  <2> QED
    BY <2>4, <2>5 DEF StoreStep
<1>4. CASE Next
  BY <1>1, <1>2, <1>4, InitStep, ChdirStep, EnterStep, AdvanceStep, ListStep, ReadStep, OverwriteStep,
     WriteNewStep, DeleteStep DEF Next, Proceed
<1> QED
  BY <1>3, <1>4

\* The list of nodes is the stack of files that FileStore describes: every call
\* acts in one step on the newest file of its name, whatever the calls before it
\* left in memory, and nothing is lost before the heap is full
\* (ntfs.cpp:124-270).
THEOREM ListIsFileStore == Spec => ImplementsFileStore
<1>1. Init => RInv /\ Store!StoreInit
  BY RInitLemma
<1>2. IInv /\ RInv /\ [Next]_vars => RInv' /\ [Store!StoreNext]_(Store!storeVars)
  BY NextLemma, RNextLemma DEF StoreStep
<1> QED
  BY <1>1, <1>2, Inductive, PTL DEF Spec, ImplementsFileStore, Store!StoreSpec
====
