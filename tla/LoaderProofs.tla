---- MODULE LoaderProofs ----
(***************************************************************************)
(* Proofs about Loader for any files, buffer, window and address space:    *)
(* nothing outside user space is changed by a segment that a linker wrote, *)
(* a program is entered where its entry was copied to, and what is entered *)
(* is the file that was named.                                             *)
(***************************************************************************)
EXTENDS Loader, SequenceTheorems, TLAPS

----------------------------------------------------------------------------
\* Relocation.
Constants == /\ WINDOW \in Nat \ {0} /\ USER_BASE \in Nat /\ USER_BASE % WINDOW = 0
             /\ WORDS \in Nat /\ BUFFER \in Nat \ {0} /\ MAX_EXECS \in Nat
             /\ USER_STACK_SIZE \in 1..WINDOW
             /\ USER_STACK_TOP = USER_BASE + WINDOW /\ USER_STACK_TOP <= WORDS

LEMMA ConstantsLemma == Constants
BY LoaderAssumption DEF Constants, USER_STACK_TOP

\* A relocated address is in user space or above it.
LEMMA RelocatedLemma ==
  ASSUME NEW a \in Nat
  PROVE  /\ Relocated(a) \in Nat /\ Relocated(a) >= USER_BASE
         /\ a >= USER_BASE => Relocated(a) = a
         /\ a < USER_BASE => Relocated(a) < USER_STACK_TOP
<1>1. a % WINDOW \in 0..(WINDOW - 1)
  BY ConstantsLemma DEF Constants
<1> QED
  BY <1>1, ConstantsLemma DEF Constants, Relocated

\* A division into windows.
LEMMA WindowLemma ==
  ASSUME NEW a \in Nat
  PROVE  /\ a \div WINDOW \in Nat /\ a % WINDOW \in 0..(WINDOW - 1)
         /\ a = (a \div WINDOW) * WINDOW + (a % WINDOW)
BY ConstantsLemma DEF Constants

\* An address below user space shares no window with one above its start.
LEMMA BelowLemma ==
  ASSUME NEW a \in Nat, a < USER_BASE
  PROVE  (a \div WINDOW) * WINDOW + WINDOW <= USER_BASE
<1> DEFINE q == a \div WINDOW
           m == USER_BASE \div WINDOW
<1>1. /\ q \in Nat /\ m \in Nat /\ WINDOW \in Nat \ {0}
      /\ a = q * WINDOW + (a % WINDOW) /\ a % WINDOW \in 0..(WINDOW - 1)
      /\ USER_BASE = m * WINDOW
  BY WindowLemma, ConstantsLemma DEF Constants
<1>2. q < m
  <2>1. SUFFICES ASSUME m <= q PROVE FALSE
    BY <1>1
  <2>2. m * WINDOW <= q * WINDOW
    BY <1>1, <2>1
  <2> HIDE DEF q, m
  <2> QED
    BY <1>1, <2>2
<1>3. (q + 1) * WINDOW <= m * WINDOW
  BY <1>1, <1>2
<1>4. (q + 1) * WINDOW = q * WINDOW + WINDOW
  BY <1>1
<1> QED
  BY <1>1, <1>3, <1>4

\* What a division gives back.
LEMMA DivisionLemma ==
  ASSUME NEW W \in Nat \ {0}, NEW q \in Nat, NEW r \in 0..(W - 1)
  PROVE  (q * W + r) % W = r
BY SMTT(30)

\* Counting on inside a window.
LEMMA ModLemma ==
  ASSUME NEW a \in Nat, NEW d \in Nat, (a % WINDOW) + d < WINDOW
  PROVE  (a + d) % WINDOW = (a % WINDOW) + d
<1> DEFINE q == a \div WINDOW
           r == a % WINDOW
<1>1. /\ WINDOW \in Nat \ {0} /\ q \in Nat /\ r + d \in 0..(WINDOW - 1)
      /\ q * WINDOW \in Nat /\ r \in Nat /\ a = q * WINDOW + r
  BY WindowLemma, ConstantsLemma DEF Constants
<1>2. (q * WINDOW + (r + d)) % WINDOW = r + d
  BY <1>1, DivisionLemma
<1>3. a + d = q * WINDOW + (r + d)
  <2> HIDE DEF q, r
  <2> QED
    BY <1>1
<1> QED
  BY <1>2, <1>3

\* Inside a segment that ends below the top of the stack, relocation keeps distances.
LEMMA SegmentLemma ==
  ASSUME NEW v \in Nat, NEW d \in Nat, Relocated(v) + d < USER_STACK_TOP
  PROVE  Relocated(v + d) = Relocated(v) + d
<1>1. CASE v >= USER_BASE
  BY <1>1, ConstantsLemma DEF Constants, Relocated
<1>2. CASE v < USER_BASE
  <2> DEFINE start == (v \div WINDOW) * WINDOW
             vd == v % WINDOW
  <2>1. /\ start \in Int /\ vd \in Nat /\ v = start + vd
        /\ start + WINDOW <= USER_BASE
    BY <1>2, BelowLemma, WindowLemma, ConstantsLemma DEF Constants
  <2>2. Relocated(v) = USER_BASE + vd
    BY <1>2 DEF Relocated
  <2> HIDE DEF start, vd
  <2>3. vd + d < WINDOW
    BY <2>1, <2>2, ConstantsLemma DEF Constants
  <2>4. v + d < USER_BASE
    BY <2>1, <2>3, ConstantsLemma DEF Constants
  <2>5. (v + d) % WINDOW = vd + d
    BY <2>3, ModLemma DEF vd
  <2> QED
    BY <2>1, <2>2, <2>4, <2>5, ConstantsLemma DEF Constants, Relocated
<1> QED
  BY <1>1, <1>2, ConstantsLemma DEF Constants

\* Addresses of one window are relocated by the same distance.
LEMMA SameWindowLemma ==
  ASSUME NEW v \in Nat, NEW w \in Nat, v \div WINDOW = w \div WINDOW
  PROVE  Relocated(v) - v = Relocated(w) - w
<1>1. v < USER_BASE <=> w < USER_BASE
  <2>1. PICK b \in Int : b = (v \div WINDOW) * WINDOW /\ b = (w \div WINDOW) * WINDOW
    BY WindowLemma, ConstantsLemma DEF Constants
  <2>2. b <= v /\ v < b + WINDOW /\ b <= w /\ w < b + WINDOW
    BY <2>1, WindowLemma, ConstantsLemma DEF Constants
  <2>3. v < USER_BASE => b + WINDOW <= USER_BASE
    BY <2>1, BelowLemma
  <2>4. w < USER_BASE => b + WINDOW <= USER_BASE
    BY <2>1, BelowLemma
  <2> QED
    BY <2>2, <2>3, <2>4, ConstantsLemma DEF Constants
<1> DEFINE start == (v \div WINDOW) * WINDOW
           vd == v % WINDOW
           wd == w % WINDOW
<1>2. start \in Int /\ vd \in Int /\ wd \in Int /\ v = start + vd /\ w = start + wd
  BY WindowLemma, ConstantsLemma DEF Constants
<1>3. Relocated(v) = IF v < USER_BASE THEN USER_BASE + vd ELSE v
  BY DEF Relocated
<1>4. Relocated(w) = IF w < USER_BASE THEN USER_BASE + wd ELSE w
  BY DEF Relocated
<1> HIDE DEF start, vd, wd
<1> QED
  BY <1>1, <1>2, <1>3, <1>4, ConstantsLemma DEF Constants

----------------------------------------------------------------------------
\* Words.
LEMMA PlusLemma ==
  ASSUME NEW x \in Nat, NEW y \in Nat, x + y < WORDS
  PROVE  Plus(x, y) = x + y
<1>1. WORDS \in Nat \ {0} /\ 0 \in Nat /\ x + y \in 0..(WORDS - 1)
  BY ConstantsLemma DEF Constants
<1>2. (0 * WORDS + (x + y)) % WORDS = x + y
  BY <1>1, DivisionLemma
<1>3. 0 * WORDS + (x + y) = x + y
  BY <1>1
<1> QED
  BY <1>2, <1>3 DEF Plus

\* A segment that does not wrap is ahead of its start by as much as it is behind.
LEMMA AheadLemma ==
  ASSUME NEW start \in Words, NEW a \in Words, NEW n \in Nat, start + n <= WORDS
  PROVE  /\ Ahead(start, a) \in Nat
         /\ Ahead(start, a) < n <=> a \in start..(start + n - 1)
         /\ Ahead(start, a) < n => Ahead(start, a) = a - start
<1>1. WORDS \in Nat /\ start \in 0..(WORDS - 1) /\ a \in 0..(WORDS - 1)
  BY ConstantsLemma DEF Constants, Words
<1>2. CASE a >= start
  BY <1>1, <1>2 DEF Ahead
<1>3. CASE a < start
  <2>1. Ahead(start, a) = WORDS - start + a /\ ~(WORDS - start + a < n)
    BY <1>1, <1>3 DEF Ahead
  <2> QED
    BY <1>1, <1>3, <2>1
<1> QED
  BY <1>1, <1>2, <1>3

----------------------------------------------------------------------------
\* What the loop has established for program header k of file f: a segment that is
\* well formed was below the top of the stack ...
Checked(f, k) ==
  f.phs[k].load /\ WellFormed(f.phs[k]) => Relocated(f.phs[k].vaddr) + f.phs[k].memsz <= USER_STACK_TOP

\* ... and is in memory.
Placed(f, k) ==
  f.phs[k].load => \A n \in 0..(f.phs[k].memsz - 1) :
    memory[Relocated(f.phs[k].vaddr) + n] =
      IF n < f.phs[k].filesz THEN [from |-> f, at |-> f.phs[k].offset + n] ELSE Zero

\* The first n program headers of f are done.
Done(f, n) == /\ \A k \in 1..n : Checked(f, k)
              /\ Loadable(f) => \A k \in 1..n : Placed(f, k)

\* While a file is loaded the buffer starts with what was read of it; the loop
\* gets past the first header only if that is more than the file's own header.
Loading ==
  pc = "load" =>
    /\ file \in Files /\ buffer[0] \in Files /\ buffer[0].valid
    /\ i >= 1
    /\ \A o \in 0..(size - 1) : buffer[o] = file
    /\ i > 1 => size >= i /\ Done(file, i - 1)

Running ==
  pc = "running" =>
    /\ file \in Files /\ file.valid
    /\ Done(file, Len(file.phs))
    /\ entry_point = Relocated(file.entry)

IInv == TypeOK /\ Loading /\ Running

\* The parts of a file.
LEMMA FileLemma ==
  ASSUME NEW f \in Files
  PROVE  /\ f.valid \in BOOLEAN /\ f.size \in 0..BUFFER /\ f.entry \in Words
         /\ f.phs \in Seq(ProgramHeaders) /\ Len(f.phs) \in Nat /\ DOMAIN f.phs = 1..Len(f.phs)
         /\ f.valid => Len(f.phs) \in 1..(f.size - 1)
         /\ f # NoFile
         /\ \A k \in 1..Len(f.phs) :
              /\ f.phs[k] \in ProgramHeaders
              /\ f.phs[k].load \in BOOLEAN
              /\ f.phs[k].offset \in Words /\ f.phs[k].offset \in Nat
              /\ f.phs[k].vaddr \in Words /\ f.phs[k].vaddr \in Nat
              /\ f.phs[k].filesz \in Words /\ f.phs[k].filesz \in Nat
              /\ f.phs[k].memsz \in Words /\ f.phs[k].memsz \in Nat
<1>1. f \in [valid : BOOLEAN, size : 0..BUFFER, entry : Words, phs : Seq(ProgramHeaders)]
  BY LoaderAssumption
<1>2. f.phs \in Seq(ProgramHeaders) /\ Len(f.phs) \in Nat /\ DOMAIN f.phs = 1..Len(f.phs)
  BY <1>1
<1>3. \A k \in 1..Len(f.phs) : f.phs[k] \in ProgramHeaders
  BY <1>2
<1>4. f # NoFile /\ (f.valid => Len(f.phs) \in 1..(f.size - 1))
  BY LoaderAssumption
<1>5. \A w \in Words : w \in Nat
  BY ConstantsLemma DEF Constants, Words
<1> QED
  BY <1>1, <1>2, <1>3, <1>4, <1>5 DEF ProgramHeaders

LEMMA InitLemma == Init => IInv
<1> SUFFICES ASSUME Init PROVE IInv
  OBVIOUS
<1>1. TypeOK
  BY ConstantsLemma DEF Init, TypeOK, Words, Constants
<1>2. Loading /\ Running
  BY DEF Init, Loading, Running
<1> QED
  BY <1>1, <1>2 DEF IInv

\* A read overwrites the start of the buffer only; memory stays.
LEMMA ExecLemma ==
  ASSUME IInv, NEW f \in Files, Exec(f)
  PROVE  IInv'
<1> USE DEF IInv
<1>1. PICK n \in 0..f.size, success \in BOOLEAN :
        /\ buffer' = [o \in DOMAIN buffer |-> IF o < n THEN f ELSE buffer[o]]
        /\ size' = IF success THEN n ELSE 0
        /\ IF success /\ is_valid_elf(buffer')
             THEN pc' = "load" /\ i' = 1 ELSE UNCHANGED <<pc, i>>
  BY DEF Exec
<1>2. /\ pc = "idle" /\ execs > 0 /\ execs' = execs - 1 /\ file' = f
      /\ UNCHANGED <<memory, entry_point>>
  BY DEF Exec
<1>3. n \in Nat /\ n <= BUFFER /\ BUFFER \in Nat \ {0}
  BY FileLemma, ConstantsLemma DEF Constants
<1>4. /\ buffer' \in [0..(BUFFER - 1) -> {NoFile} \cup Files]
      /\ size' \in 0..BUFFER
      /\ \A o \in 0..(size' - 1) : buffer'[o] = f
  BY <1>1, <1>3 DEF TypeOK
<1>7. execs' \in 0..MAX_EXECS /\ memory' = memory /\ entry_point' = entry_point
  BY <1>2, ConstantsLemma DEF TypeOK, Constants
<1>5. CASE pc' = "load" /\ i' = 1 /\ is_valid_elf(buffer')
  <2>1. buffer'[0] \in Files /\ buffer'[0].valid
    BY <1>3, <1>4, <1>5 DEF is_valid_elf
  <2>2. Len(buffer'[0].phs) \in Nat
    BY <2>1, FileLemma
  <2>3. TypeOK'
    BY <1>2, <1>4, <1>5, <1>7, <2>2 DEF TypeOK, Header
  <2>5. ~(i' > 1) /\ i' >= 1 /\ file' \in Files
    BY <1>2, <1>5
  <2>6. Loading'
    BY <1>2, <1>4, <2>1, <2>5 DEF Loading
  <2>7. Running'
    BY <1>5 DEF Running
  <2> QED
    BY <2>3, <2>6, <2>7
<1>6. CASE UNCHANGED <<pc, i>>
  <2>1. pc' = "idle" /\ i' = 0
    BY <1>2, <1>6 DEF TypeOK
  <2>2. TypeOK'
    BY <1>2, <1>4, <1>7, <2>1 DEF TypeOK
  <2> QED
    BY <1>2, <2>1, <2>2 DEF Loading, Running
<1> QED
  BY <1>1, <1>5, <1>6

\* In a round that goes on, the header of the buffer is that of the file named,
\* and so is the program header.
LEMMA HeaderLemma ==
  ASSUME IInv, pc = "load", MoreHeaders, Inside(i + 1)
  PROVE  /\ Header = file /\ file \in Files /\ i \in 1..Len(file.phs)
         /\ ProgramHeader = file.phs[i] /\ file.valid
<1> USE DEF IInv
<1>1. size \in 0..BUFFER /\ i \in Nat /\ i + 1 <= size /\ i >= 1
  <2>1. i \in 0..(Len(Header.phs) + 1) /\ buffer[0] \in Files
    BY DEF TypeOK, Loading
  <2> QED
    BY <2>1, FileLemma, ConstantsLemma DEF TypeOK, Loading, Inside, Header, Constants
<1>2. buffer[0] = file /\ buffer[i] = file /\ file \in Files
  BY <1>1, ConstantsLemma DEF Loading, Constants
<1>3. Header = file /\ i <= Len(file.phs) /\ file.valid
  BY <1>2 DEF Header, MoreHeaders, Loading
<1>4. Len(file.phs) \in Nat /\ file # NoFile
  BY <1>2, FileLemma
<1> QED
  BY <1>1, <1>2, <1>3, <1>4 DEF ProgramHeader

\* Segments of a program that can be loaded do not meet after relocation.
LEMMA ApartLemma ==
  ASSUME NEW f \in Files, Loadable(f), NEW p \in Loads(f), NEW q \in Loads(f), p # q,
         NEW x \in Nat, NEW y \in Nat, x < p.memsz, y < q.memsz
  PROVE  Relocated(p.vaddr) + x # Relocated(q.vaddr) + y
<1> DEFINE pv == p.vaddr
           pm == p.memsz
           qv == q.vaddr
           qm == q.memsz
           pr == Relocated(pv)
           qr == Relocated(qv)
<1>1. pv \in Nat /\ pm \in Nat /\ qv \in Nat /\ qm \in Nat
  BY FileLemma DEF Loads
<1>2. pv \div WINDOW = qv \div WINDOW /\ (pv .. (pv + pm - 1)) \cap (qv .. (qv + qm - 1)) = {}
  BY DEF Loadable, Linked
<1>3. pr - pv = qr - qv /\ pr \in Nat /\ qr \in Nat
  BY <1>1, <1>2, SameWindowLemma, RelocatedLemma
<1>4. x < pm /\ y < qm
  OBVIOUS
<1> HIDE DEF pv, pm, qv, qm, pr, qr
<1>5. pv + x \in pv .. (pv + pm - 1) /\ qv + y \in qv .. (qv + qm - 1)
  BY <1>1, <1>4
<1>6. pv + x # qv + y
  BY <1>2, <1>5
<1>7. pr + x # qr + y
  BY <1>1, <1>3, <1>6
<1> QED
  BY <1>7 DEF pr, qr, pv, qv

\* The cell at dest + n after the round that copies a segment of fs cells, which
\* are zeroed up to ms.
CellAfter(a, dest, off, fs, ms) ==
  IF a \in dest..(dest + fs - 1)
    THEN [from |-> buffer[off + a - dest], at |-> off + a - dest]
  ELSE IF a \in dest..(dest + ms - 1) THEN Zero ELSE memory[a]

\* What the round that copies a segment does.
LEMMA CopyLemma ==
  ASSUME IInv, pc = "load", MoreHeaders, Inside(i + 1), ProgramHeader.load,
         Inside(Plus(ProgramHeader.offset, ProgramHeader.filesz)),
         Fits(Relocated(ProgramHeader.vaddr), ProgramHeader.memsz), LoadSegment,
         NEW dest, dest = Relocated(file.phs[i].vaddr),
         NEW off, off = file.phs[i].offset,
         NEW fs, fs = file.phs[i].filesz,
         NEW ms, ms = file.phs[i].memsz
  PROVE  /\ file \in Files /\ file.valid /\ i \in 1..Len(file.phs) /\ i + 1 <= size
         /\ ProgramHeader = file.phs[i]
         /\ dest \in Nat /\ off \in Nat /\ fs \in Nat /\ ms \in Nat
         /\ dest \in Words /\ dest >= USER_BASE
         /\ DOMAIN memory' = DOMAIN memory
         /\ WellFormed(file.phs[i]) =>
              /\ fs <= ms /\ dest + ms <= USER_STACK_TOP
              /\ \A n \in 0..(fs - 1) : buffer[off + n] = file
              /\ memory' = [a \in DOMAIN memory |-> CellAfter(a, dest, off, fs, ms)]
         /\ Header = file
         /\ (pc' = "lost" /\ i' = 0) \/ (pc' = pc /\ i' = i + 1)
         /\ UNCHANGED <<buffer, size, file, entry_point, execs>>
<1>1. /\ Header = file /\ file \in Files /\ i \in 1..Len(file.phs)
      /\ ProgramHeader = file.phs[i] /\ file.valid
  BY HeaderLemma
<1>2. Plus(off, fs) <= size /\ Plus(dest, ms) <= USER_STACK_TOP /\ i + 1 <= size
  BY <1>1 DEF Inside, Fits
<1>3. /\ memory' = Copied(file.phs[i], dest)
      /\ (pc' = "lost" /\ i' = 0) \/ (pc' = pc /\ i' = i + 1)
      /\ UNCHANGED <<buffer, size, file, entry_point, execs>>
  BY <1>1 DEF LoadSegment
<1>4. /\ off \in Nat /\ fs \in Nat /\ ms \in Nat
      /\ dest \in Nat /\ dest >= USER_BASE /\ dest \in Words
  <2>1. file.phs[i].vaddr \in Nat /\ file.phs[i].vaddr \in Words
    BY <1>1, FileLemma
  <2>2. dest \in Nat /\ dest >= USER_BASE
    BY <2>1, RelocatedLemma
  <2>3. dest < WORDS
    <3>1. PICK v \in Nat : v = file.phs[i].vaddr /\ v < WORDS
      BY <2>1, ConstantsLemma DEF Constants, Words
    <3>2. USER_BASE \in Nat /\ USER_STACK_TOP \in Nat /\ WORDS \in Nat /\ USER_STACK_TOP <= WORDS
      BY ConstantsLemma DEF Constants
    <3>3. CASE v < USER_BASE
      BY <2>2, <3>1, <3>2, <3>3, RelocatedLemma
    <3>4. CASE v >= USER_BASE
      BY <2>2, <3>1, <3>2, <3>4, RelocatedLemma
    <3> QED
      BY <3>1, <3>2, <3>3, <3>4
  <2> QED
    BY <1>1, <2>2, <2>3, FileLemma, ConstantsLemma DEF Constants, Words
<1>5. /\ size \in Nat /\ \A o \in 0..(size - 1) : buffer[o] = file
      /\ DOMAIN memory = Words /\ DOMAIN buffer = 0..(BUFFER - 1) /\ size <= BUFFER /\ BUFFER \in Nat
  BY ConstantsLemma DEF IInv, TypeOK, Loading, Constants
<1>6. DOMAIN memory' = DOMAIN memory
  BY <1>3 DEF Copied
<1>7. ASSUME WellFormed(file.phs[i])
      PROVE  /\ fs <= ms /\ dest + ms <= USER_STACK_TOP
             /\ \A n \in 0..(fs - 1) : buffer[off + n] = file
             /\ memory' = [a \in DOMAIN memory |-> CellAfter(a, dest, off, fs, ms)]
  <2>1. fs <= ms /\ off + fs < WORDS /\ dest + ms < WORDS
    BY <1>7 DEF WellFormed
  <2>2. off + fs <= size /\ dest + ms <= USER_STACK_TOP
    BY <1>2, <1>4, <2>1, PlusLemma
  <2>3. \A n \in 0..(fs - 1) : /\ off + n \in 0..(size - 1) /\ off + n \in 0..(BUFFER - 1)
                               /\ off + n < WORDS /\ n \in Nat
    <3>1. off \in Nat /\ fs \in Nat /\ size \in Nat /\ BUFFER \in Nat /\ WORDS \in Nat
          /\ off + fs <= size /\ size <= BUFFER /\ off + fs < WORDS
      BY <1>4, <1>5, <2>1, <2>2, ConstantsLemma DEF Constants
    <3> QED
      BY <3>1
  <2>4. ASSUME NEW a \in DOMAIN memory
        PROVE  memory'[a] = CellAfter(a, dest, off, fs, ms)
    <3> DEFINE n == Ahead(dest, a)
    <3>1. a \in Words /\ a \in Int
      BY <1>5, <2>4, ConstantsLemma DEF Constants, Words
    <3>2. /\ n < fs <=> a \in dest..(dest + fs - 1)
          /\ n < ms <=> a \in dest..(dest + ms - 1)
          /\ n < fs => n = a - dest
          /\ n \in Nat
      BY <1>4, <2>1, <3>1, AheadLemma, ConstantsLemma DEF Constants
    <3> HIDE DEF n
    <3>3. memory'[a] = IF n < fs THEN Source(Plus(off, n))
                       ELSE IF n < ms THEN Zero ELSE memory[a]
      BY <1>3, <2>4 DEF Copied, n
    <3>4. ASSUME n < fs
          PROVE  Source(Plus(off, n)) = [from |-> buffer[off + a - dest], at |-> off + a - dest]
      <4>1. n \in 0..(fs - 1) /\ off + n = off + a - dest
        BY <1>4, <3>1, <3>2, <3>4
      <4>2. Plus(off, n) = off + n
        BY <1>4, <2>3, <4>1, PlusLemma
      <4> QED
        BY <1>5, <2>3, <4>1, <4>2 DEF Source
    <3> QED
      BY <3>2, <3>3, <3>4 DEF CellAfter
  <2>5. memory' = [a \in DOMAIN memory |-> memory'[a]]
    BY <1>3 DEF Copied
  <2>6. memory' = [a \in DOMAIN memory |-> CellAfter(a, dest, off, fs, ms)]
    BY <2>4, <2>5
  <2> QED
    BY <1>5, <2>1, <2>2, <2>3, <2>6
<1> QED
  BY <1>1, <1>2, <1>3, <1>4, <1>6, <1>7

LEMMA CopyKeeps ==
  ASSUME IInv, pc = "load", MoreHeaders, Inside(i + 1), ProgramHeader.load,
         Inside(Plus(ProgramHeader.offset, ProgramHeader.filesz)),
         Fits(Relocated(ProgramHeader.vaddr), ProgramHeader.memsz), LoadSegment
  PROVE  IInv'
<1> DEFINE dest == Relocated(file.phs[i].vaddr)
           off  == file.phs[i].offset
           fs   == file.phs[i].filesz
           ms   == file.phs[i].memsz
           good == WellFormed(file.phs[i])
<1>1. /\ file \in Files /\ file.valid /\ i \in 1..Len(file.phs) /\ i + 1 <= size
      /\ dest \in Nat /\ off \in Nat /\ fs \in Nat /\ ms \in Nat
      /\ dest >= USER_BASE
      /\ DOMAIN memory' = DOMAIN memory
      /\ Header = file
      /\ UNCHANGED <<buffer, size, file, entry_point, execs>>
  BY CopyLemma
<1>21. (pc' = "lost" /\ i' = 0) \/ (pc' = pc /\ i' = i + 1)
  BY CopyLemma
<1>22. good => /\ fs <= ms /\ dest + ms <= USER_STACK_TOP
               /\ \A n \in 0..(fs - 1) : buffer[off + n] = file
               /\ memory' = [a \in DOMAIN memory |-> CellAfter(a, dest, off, fs, ms)]
  BY CopyLemma, SMTT(30)
<1>2. /\ file.phs[i].load /\ Len(file.phs) \in Nat
      /\ DOMAIN memory = 0..(WORDS - 1) /\ size \in Nat
  <2>1. file.phs[i].load
    BY HeaderLemma
  <2>2. Len(file.phs) \in Nat
    BY <1>1, FileLemma
  <2> QED
    BY <2>1, <2>2, ConstantsLemma DEF IInv, TypeOK, Words, Constants
<1>3. Checked(file, i)
  BY <1>22 DEF Checked
<1> HIDE DEF dest, off, fs, ms, good
<1>4. TypeOK'
  <2>1. i' \in 0..(IF pc' = "load" THEN Len(Header'.phs) + 1 ELSE 0)
    BY <1>1, <1>2, <1>21 DEF Header
  <2> QED
    BY <1>1, <1>2, <1>21, <2>1 DEF IInv, TypeOK
<1>5. CASE pc' = "lost"
  BY <1>4, <1>5 DEF IInv, Loading, Running
<1>6. \A k \in 1..i : Checked(file, k)
  <2> TAKE k \in 1..i
  <2>1. CASE k = i
    BY <1>3, <2>1
  <2>2. CASE k # i
    <3>1. i > 1 /\ k \in 1..(i - 1)
      BY <1>1, <1>2, <2>2
    <3> QED
      BY <3>1 DEF IInv, Loading, Done
  <2> QED
    BY <2>1, <2>2
<1>7. ASSUME Loadable(file), NEW k \in 1..i PROVE Placed(file, k)'
  <2> DEFINE qr == Relocated(file.phs[k].vaddr)
             qo == file.phs[k].offset
             qf == file.phs[k].filesz
             qm == file.phs[k].memsz
  <2>1. SUFFICES ASSUME file.phs[k].load, NEW n \in 0..(qm - 1)
                 PROVE  memory'[qr + n] = IF n < qf THEN [from |-> file, at |-> qo + n] ELSE Zero
    BY <1>1 DEF Placed
  <2>2. /\ k \in 1..Len(file.phs) /\ qm \in Nat /\ qf \in Nat /\ qo \in Nat /\ qr \in Nat
        /\ qr >= USER_BASE
    <3>1. k \in 1..Len(file.phs)
      BY <1>1, <1>2
    <3> QED
      BY <1>1, <3>1, FileLemma, RelocatedLemma
  <2>14. file.phs[k] \in Loads(file) /\ file.phs[i] \in Loads(file)
    BY <1>1, <1>2, <2>1, <2>2, FileLemma DEF Loads
  <2>3. qr + qm <= USER_STACK_TOP
    BY <1>6, <1>7, <2>1, <2>14 DEF Checked, Loadable
  <2>4. /\ fs <= ms /\ dest + ms <= USER_STACK_TOP
        /\ \A m \in 0..(fs - 1) : buffer[off + m] = file
        /\ memory' = [a \in DOMAIN memory |-> CellAfter(a, dest, off, fs, ms)]
    BY <1>7, <1>22, <2>14 DEF Loadable, good
  <2>5. k = i => qr = dest /\ qo = off /\ qf = fs /\ qm = ms
    BY DEF dest, off, fs, ms
  <2>6. file.phs[k] = file.phs[i] => qr = dest /\ qo = off /\ qf = fs /\ qm = ms
    BY DEF dest, off, fs, ms
  <2>7. ASSUME file.phs[k] # file.phs[i], NEW x \in Nat, x < ms
        PROVE  qr + n # dest + x
    <3>2. n \in Nat /\ n < qm
      BY <2>2
    <3>3. n < file.phs[k].memsz /\ x < file.phs[i].memsz
      BY <2>7, <3>2 DEF ms
    <3> QED
      BY <1>1, <1>7, <2>7, <2>14, <3>2, <3>3, ApartLemma DEF dest
  <2>8. file.phs[k] # file.phs[i] =>
          memory[qr + n] = IF n < qf THEN [from |-> file, at |-> qo + n] ELSE Zero
    <3>1. SUFFICES ASSUME file.phs[k] # file.phs[i]
                   PROVE  memory[qr + n] = IF n < qf THEN [from |-> file, at |-> qo + n] ELSE Zero
      OBVIOUS
    <3>2. i > 1 /\ k \in 1..(i - 1)
      BY <1>1, <1>2, <3>1
    <3>3. Placed(file, k)
      BY <1>7, <3>2 DEF IInv, Loading, Done
    <3> QED
      BY <2>1, <3>3 DEF Placed
  <2>9. n \in Nat /\ n < qm
    BY <2>2
  <2>10. qr + n \in DOMAIN memory
    <3> HIDE DEF qr, qm, qf, qo
    <3> QED
      BY <1>2, <2>2, <2>3, <2>9, ConstantsLemma DEF Constants
  <2> HIDE DEF qr, qo, qf, qm
  <2>11. memory'[qr + n] = CellAfter(qr + n, dest, off, fs, ms)
    BY <2>4, <2>10
  <2>12. CASE file.phs[k] = file.phs[i]
    <3>1. CASE n < fs
      <4>1. dest + n \in dest..(dest + fs - 1) /\ off + (dest + n) - dest = off + n
        BY <1>1, <2>9, <3>1
      <4>2. buffer[off + n] = file
        <5>1. n \in 0..(fs - 1)
          BY <1>1, <2>9, <3>1
        <5> QED
          BY <2>4, <5>1
      <4> QED
        BY <2>6, <2>11, <2>12, <3>1, <4>1, <4>2 DEF CellAfter
    <3>2. CASE ~(n < fs)
      <4>1. dest + n \notin dest..(dest + fs - 1) /\ dest + n \in dest..(dest + ms - 1)
        BY <1>1, <2>4, <2>6, <2>9, <2>12, <3>2, SMTT(30)
      <4> QED
        BY <2>6, <2>11, <2>12, <3>2, <4>1 DEF CellAfter
    <3> QED
      BY <3>1, <3>2
  <2>13. CASE file.phs[k] # file.phs[i]
    <3>1. qr + n \notin dest..(dest + ms - 1)
      <4> SUFFICES ASSUME qr + n \in dest..(dest + ms - 1) PROVE FALSE
        OBVIOUS
      <4> DEFINE x == qr + n - dest
      <4>1. x \in Nat /\ x < ms /\ qr + n = dest + x
        BY <1>1, <2>2, <2>9
      <4> HIDE DEF x
      <4> QED
        BY <2>7, <2>13, <4>1
    <3>2. qr + n \notin dest..(dest + fs - 1)
      BY <1>1, <2>2, <2>4, <2>9, <3>1
    <3> QED
      BY <2>8, <2>11, <2>13, <3>1, <3>2 DEF CellAfter
  <2> QED
    BY <2>12, <2>13
<1>9. CASE pc' = pc /\ i' = i + 1
  <2>0. i' - 1 = i /\ i' > 1 /\ size' >= i' /\ i' >= 1
    BY <1>1, <1>2, <1>9
  <2>1. \A k \in 1..(i' - 1) : Checked(file, k)'
    BY <1>1, <1>6, <2>0 DEF Checked
  <2>2. Loadable(file)' => \A k \in 1..(i' - 1) : Placed(file, k)'
    BY <1>1, <1>7, <2>0
  <2>3. file' \in Files /\ buffer'[0] \in Files /\ buffer'[0].valid
        /\ \A o \in 0..(size' - 1) : buffer'[o] = file'
    BY <1>1 DEF IInv, Loading
  <2>4. pc' = "load"
    BY <1>9
  <2>5. Loading' /\ Running'
    BY <2>0, <2>1, <2>2, <2>3, <2>4 DEF Loading, Running, Done
  <2> QED
    BY <1>4, <2>5 DEF IInv
<1> QED
  BY <1>5, <1>9, <1>21

LEMMA LoadSegmentKeeps == ASSUME IInv, LoadSegment PROVE IInv'
<1>1. /\ pc = "load" /\ MoreHeaders
      /\ UNCHANGED <<buffer, size, file, entry_point, execs>>
  BY DEF LoadSegment
<1>2. CASE GiveUp
  <2>1. pc' = "idle" /\ i' = 0 /\ memory' = memory
    BY <1>2 DEF GiveUp
  <2>2. TypeOK'
    BY <1>1, <2>1 DEF IInv, TypeOK
  <2> QED
    BY <2>1, <2>2 DEF IInv, Loading, Running
<1>3. CASE Inside(i + 1) /\ ~ProgramHeader.load /\ i' = i + 1 /\ UNCHANGED <<pc, memory>>
  <2>1. Header = file /\ file \in Files /\ i \in 1..Len(file.phs) /\ ProgramHeader = file.phs[i]
    BY <1>1, <1>3, HeaderLemma
  <2>2. Len(file.phs) \in Nat /\ size \in Nat /\ i + 1 <= size
    BY <1>3, <2>1, FileLemma, ConstantsLemma DEF IInv, TypeOK, Inside, Constants
  <2>3. TypeOK'
    <3>1. i' \in 0..(Len(Header'.phs) + 1)
      BY <1>1, <1>3, <2>1, <2>2 DEF Header
    <3> QED
      BY <1>1, <1>3, <3>1 DEF IInv, TypeOK
  <2>5. i' - 1 = i /\ i' > 1 /\ i' >= 1 /\ size' >= i'
    BY <1>1, <1>3, <2>1, <2>2
  <2>6. ~file.phs[i].load
    BY <1>3, <2>1
  <2>7. ASSUME NEW k \in 1..(i' - 1)
        PROVE  Checked(file, k)' /\ (Loadable(file) => Placed(file, k)')
    <3>1. CASE k = i
      BY <1>1, <2>6, <3>1 DEF Checked, Placed
    <3>2. CASE k # i
      <4>1. i > 1 /\ k \in 1..(i - 1)
        BY <2>1, <2>2, <2>5, <3>2
      <4>2. Checked(file, k) /\ (Loadable(file) => Placed(file, k))
        BY <1>1, <4>1 DEF IInv, Loading, Done
      <4> QED
        BY <1>1, <1>3, <4>2 DEF Checked, Placed
    <3> QED
      BY <3>1, <3>2
  <2>8. Done(file, i - 1)'
    BY <1>1, <2>7 DEF Done
  <2>9. file' \in Files /\ buffer'[0] \in Files /\ buffer'[0].valid
        /\ \A o \in 0..(size' - 1) : buffer'[o] = file'
    BY <1>1 DEF IInv, Loading
  <2> QED
    BY <1>1, <1>3, <2>3, <2>5, <2>8, <2>9 DEF IInv, Loading, Running
<1>4. CASE /\ Inside(i + 1) /\ ProgramHeader.load
           /\ Inside(Plus(ProgramHeader.offset, ProgramHeader.filesz))
           /\ Fits(Relocated(ProgramHeader.vaddr), ProgramHeader.memsz)
  BY <1>1, <1>4, CopyKeeps
<1> QED
  BY <1>2, <1>3, <1>4 DEF LoadSegment

LEMMA EnterKeeps == ASSUME IInv, Enter PROVE IInv'
<1>1. /\ pc = "load" /\ ~MoreHeaders /\ pc' = "running" /\ i' = 0
      /\ entry_point' = Relocated(buffer[0].entry)
      /\ memory' = [a \in DOMAIN memory |->
           IF a \in (USER_STACK_TOP - USER_STACK_SIZE)..(USER_STACK_TOP - 1)
             THEN Zero ELSE memory[a]]
      /\ UNCHANGED <<buffer, size, file, execs>>
  BY DEF Enter, Entry, Header
<1>2. /\ buffer[0] \in Files /\ buffer[0].valid /\ file \in Files
      /\ size \in Nat /\ DOMAIN memory = 0..(WORDS - 1)
      /\ i \in 0..(Len(buffer[0].phs) + 1)
  BY <1>1, ConstantsLemma DEF IInv, TypeOK, Loading, Header, Words, Constants
<1>3. Len(buffer[0].phs) \in Nat /\ Len(buffer[0].phs) >= 1 /\ i = Len(buffer[0].phs) + 1
  <2>1. Len(buffer[0].phs) \in Nat /\ Len(buffer[0].phs) >= 1
    BY <1>2, FileLemma
  <2>2. ~(i <= Len(buffer[0].phs))
    BY <1>1 DEF MoreHeaders, Header
  <2> QED
    BY <1>2, <2>1, <2>2
<1>4. size >= i /\ Done(file, i - 1) /\ \A o \in 0..(size - 1) : buffer[o] = file
  BY <1>1, <1>2, <1>3 DEF IInv, Loading
<1>5. buffer[0] = file /\ Done(file, Len(file.phs))
  <2>1. 0 \in 0..(size - 1)
    BY <1>2, <1>3, <1>4
  <2>2. buffer[0] = file
    BY <1>4, <2>1
  <2>3. i - 1 = Len(file.phs)
    BY <1>3, <2>2
  <2> QED
    BY <1>4, <2>2, <2>3
<1>6. file.entry \in Nat /\ file.entry < WORDS
  BY <1>2, FileLemma, ConstantsLemma DEF Words, Constants
<1>7. entry_point' \in Words
  <2>1. entry_point' = Relocated(file.entry)
    BY <1>1, <1>5
  <2> QED
    BY <1>6, <2>1, RelocatedLemma, ConstantsLemma DEF Words, Constants
<1>8. TypeOK'
  BY <1>1, <1>2, <1>7 DEF IInv, TypeOK
<1>10. ASSUME Loadable(file), NEW k \in 1..Len(file.phs)
       PROVE  Placed(file, k)'
  <2> DEFINE qr == Relocated(file.phs[k].vaddr)
             qm == file.phs[k].memsz
  <2>1. SUFFICES ASSUME file.phs[k].load, NEW n \in 0..(qm - 1)
                 PROVE  memory'[qr + n] = memory[qr + n]
    <3>1. file' = file /\ Placed(file, k)
      BY <1>1, <1>5, <1>10 DEF Done
    <3> QED
      BY <3>1 DEF Placed
  <2>2. /\ qm \in Nat /\ qr \in Nat /\ qr + qm <= USER_STACK_TOP - USER_STACK_SIZE
    <3>1. file.phs[k] \in Loads(file)
      BY <1>2, <2>1, FileLemma DEF Loads
    <3> QED
      BY <1>2, <1>10, <3>1, FileLemma, RelocatedLemma DEF Loadable
  <2>3. n \in Nat /\ n < qm
    BY <2>2
  <2> HIDE DEF qr, qm
  <2>4. /\ qr + n \in DOMAIN memory
        /\ qr + n \notin (USER_STACK_TOP - USER_STACK_SIZE)..(USER_STACK_TOP - 1)
    BY <1>2, <2>2, <2>3, ConstantsLemma DEF Constants
  <2> QED
    BY <1>1, <2>4
<1>11. Loading' /\ Running'
  <2>1. file.valid /\ \A k \in 1..Len(file.phs) : Checked(file, k)
    BY <1>2, <1>5 DEF Done
  <2>2. Done(file, Len(file.phs))'
    BY <1>1, <1>10, <2>1 DEF Done, Checked
  <2> QED
    BY <1>1, <1>2, <1>5, <2>1, <2>2 DEF Loading, Running
<1> QED
  BY <1>8, <1>11 DEF IInv

----------------------------------------------------------------------------
\* The invariant holds in every state (elf.cpp:50-133, shell.cpp:290-331).
THEOREM Inductive == Spec => []IInv
<1>1. Init => IInv
  BY InitLemma
<1>2. IInv /\ [Next]_vars => IInv'
  <2> SUFFICES ASSUME IInv, [Next]_vars PROVE IInv'
    OBVIOUS
  <2>1. ASSUME NEW f \in Files, Exec(f) PROVE IInv'
    BY <2>1, ExecLemma
  <2>2. CASE LoadSegment
    BY <2>2, LoadSegmentKeeps
  <2>3. CASE Enter
    BY <2>3, EnterKeeps
  <2>4. CASE UNCHANGED vars
    <3>1. Header' = Header
      BY <2>4 DEF vars, Header
    <3>2. TypeOK'
      BY <2>4, <3>1 DEF vars, IInv, TypeOK
    <3>4. Loading' /\ Running'
      BY <2>4 DEF vars, IInv, Loading, Running, Done, Checked, Placed
    <3> QED
      BY <3>2, <3>4 DEF IInv
  <2> QED
    BY <2>1, <2>2, <2>3, <2>4 DEF Next
<1> QED
  BY <1>1, <1>2, PTL DEF Spec

\* The loop over program headers and the addresses keep their types.
THEOREM TypeCorrect == Spec => []TypeOK
BY Inductive, PTL DEF IInv

\* A step that changes memory outside user space copies a segment whose program
\* header is not well formed, of whatever file (elf.cpp:88-117).
THEOREM WindowKept == Spec => StaysInWindow
<1> DEFINE Kept == \A a \in DOMAIN memory :
                     a \notin USER_BASE..(USER_STACK_TOP - 1) /\ memory'[a] # memory[a] =>
                       pc = "load" /\ MoreHeaders /\ ~WellFormed(ProgramHeader)
<1>1. IInv /\ [Next]_vars => [Kept]_vars
  <2> SUFFICES ASSUME IInv, Next, NEW a \in DOMAIN memory,
                      a \notin USER_BASE..(USER_STACK_TOP - 1), memory'[a] # memory[a]
               PROVE  pc = "load" /\ MoreHeaders /\ ~WellFormed(ProgramHeader)
    OBVIOUS
  <2>1. a \in Int
    BY ConstantsLemma DEF IInv, TypeOK, Words, Constants
  <2>2. ~(\E f \in Files : Exec(f))
    BY DEF Exec
  <2>3. ~Enter
    <3>1. a \notin (USER_STACK_TOP - USER_STACK_SIZE)..(USER_STACK_TOP - 1)
      BY <2>1, ConstantsLemma DEF Constants
    <3> QED
      BY <3>1 DEF Enter
  <2>4. LoadSegment
    BY <2>2, <2>3 DEF Next
  <2>5. /\ pc = "load" /\ MoreHeaders /\ Inside(i + 1) /\ ProgramHeader.load
        /\ Inside(Plus(ProgramHeader.offset, ProgramHeader.filesz))
        /\ Fits(Relocated(ProgramHeader.vaddr), ProgramHeader.memsz)
    BY <2>4 DEF LoadSegment, GiveUp
  <2>6. SUFFICES ASSUME WellFormed(ProgramHeader) PROVE FALSE
    BY <2>5
  <2> DEFINE dest == Relocated(file.phs[i].vaddr)
             off  == file.phs[i].offset
             fs   == file.phs[i].filesz
             ms   == file.phs[i].memsz
  <2>7. /\ dest \in Nat /\ fs \in Nat /\ ms \in Nat /\ dest >= USER_BASE
        /\ fs <= ms /\ dest + ms <= USER_STACK_TOP
        /\ memory' = [b \in DOMAIN memory |-> CellAfter(b, dest, off, fs, ms)]
    BY <2>4, <2>5, <2>6, CopyLemma
  <2> HIDE DEF dest, off, fs, ms
  <2>8. a \notin dest..(dest + ms - 1) /\ a \notin dest..(dest + fs - 1)
    BY <2>1, <2>7, ConstantsLemma DEF Constants
  <2> QED
    BY <2>7, <2>8 DEF CellAfter
<1> QED
  BY <1>1, Inductive, PTL DEF Spec, StaysInWindow

\* A program is entered in the segment its entry is linked in, at the same
\* distance from its start (elf.cpp:95-103, :121-124).
THEOREM EntryMovesAlong == Spec => []EntersItsSegment
<1>1. IInv => EntersItsSegment
  <2> SUFFICES ASSUME IInv, pc = "running", NEW ph \in Loads(file), WellFormed(ph),
                      file.entry \in Linked(ph)
               PROVE  entry_point - Relocated(ph.vaddr) = file.entry - ph.vaddr
    BY DEF EntersItsSegment
  <2>1. file \in Files /\ entry_point = Relocated(file.entry) /\ Done(file, Len(file.phs))
    BY DEF IInv, Running
  <2>2. PICK k \in 1..Len(file.phs) : ph = file.phs[k] /\ ph.load
    BY <2>1, FileLemma DEF Loads
  <2> DEFINE v == ph.vaddr
             m == ph.memsz
             e == file.entry
  <2>3. Relocated(v) + m <= USER_STACK_TOP
    BY <2>1, <2>2 DEF Done, Checked
  <2>4. v \in Nat /\ m \in Nat /\ e \in Int
    BY <2>1, <2>2, FileLemma, ConstantsLemma DEF Words, Constants
  <2>5. e \in v..(v + m - 1)
    BY DEF Linked
  <2>6. Relocated(v) \in Nat
    BY <2>4, RelocatedLemma
  <2> HIDE DEF v, m, e
  <2> DEFINE d == e - v
  <2>7. d \in Nat /\ Relocated(v) + d < USER_STACK_TOP /\ v + d = e
    BY <2>3, <2>4, <2>5, <2>6, ConstantsLemma DEF Constants
  <2> HIDE DEF d
  <2>8. Relocated(e) = Relocated(v) + d
    BY <2>4, <2>7, SegmentLemma
  <2>9. Relocated(e) - Relocated(v) = e - v
    BY <2>4, <2>6, <2>7, <2>8
  <2> QED
    BY <2>1, <2>9 DEF v, e
<1> QED
  BY <1>1, Inductive, PTL

\* What runs is the program that was named, complete, whatever the buffer and
\* memory held before (shell.cpp:296-313, elf.cpp:63-117).
THEOREM NamedProgramRuns == Spec => []RunsWhatWasNamed
<1>1. IInv => RunsWhatWasNamed
  <2> SUFFICES ASSUME IInv, pc = "running"
               PROVE  /\ file.valid
                      /\ Loadable(file) => \A ph \in Loads(file) : \A k \in 0..(ph.memsz - 1) :
                           memory[Relocated(ph.vaddr) + k] =
                             IF k < ph.filesz THEN [from |-> file, at |-> ph.offset + k] ELSE Zero
    BY DEF RunsWhatWasNamed
  <2>1. file \in Files /\ file.valid /\ Done(file, Len(file.phs))
    BY DEF IInv, Running
  <2>2. ASSUME Loadable(file), NEW ph \in Loads(file), NEW k \in 0..(ph.memsz - 1)
        PROVE  memory[Relocated(ph.vaddr) + k] =
                 IF k < ph.filesz THEN [from |-> file, at |-> ph.offset + k] ELSE Zero
    <3>1. PICK n \in 1..Len(file.phs) : ph = file.phs[n] /\ ph.load
      BY <2>1, FileLemma DEF Loads
    <3> QED
      BY <2>1, <2>2, <3>1 DEF Done, Placed
  <2> QED
    BY <2>1, <2>2
<1> QED
  BY <1>1, Inductive, PTL
====
