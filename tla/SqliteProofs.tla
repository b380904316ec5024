---- MODULE SqliteProofs ----
(***************************************************************************)
(* Proofs about Sqlite for heaps, tables and values of any size: the       *)
(* tables keep their shape, and every cell that is not null has its string *)
(* to itself.                                                              *)
(***************************************************************************)
EXTENDS Sqlite, Induction

Strings == Stored \cup {Empty}

----------------------------------------------------------------------------
\* The shape of the tables: every row has a pointer for each column.
Rows(w) == [1..w -> Nat]
Tables  == [name : TableNames, rows : Seq(UNION {Rows(w) : w \in Nat}), columns : Seq(Nat)]
IsTable(t) == /\ t \in Tables
              /\ Len(t.columns) <= MAX_COLUMNS /\ Len(t.rows) <= MAX_ROWS
              /\ \A r \in DOMAIN t.rows : t.rows[r] \in Rows(Len(t.columns))
Shape == /\ tables \in Seq(Tables) /\ Len(tables) <= MAX_TABLES
         /\ \A t \in DOMAIN tables : IsTable(tables[t])
         /\ \A t, u \in DOMAIN tables : tables[t].name = tables[u].name => t = u

\* The strings lie behind the database block, one behind the other.
Memory == \A a \in DOMAIN bytes :
            /\ a \in Nat /\ bytes[a] \in Strings /\ HEAP_BASE + DB_SIZE <= a
            /\ a + Size[bytes[a]] <= HEAP_BASE + heap_ptr
            /\ \A b \in DOMAIN bytes : a < b => a + Size[bytes[a]] <= b

\* A cell that is not null has a string, and no other cell has it.
Owners == \A x \in Live : /\ At(x) \in DOMAIN bytes
                          /\ \A y \in Live : At(y) = At(x) => y = x

\* Without a session there is nothing; with one, the block of the database.
Session == /\ heap_ptr \in 0..HEAP_SIZE /\ first_row \in BOOLEAN
           /\ current_db \in {Null, HEAP_BASE} /\ db_name \in DbNames \cup {Empty}
           /\ current_db = Null => tables = << >> /\ bytes = << >>
           /\ current_db # Null => DB_SIZE <= heap_ptr

IInv == Session /\ Shape /\ Memory /\ Owners

----------------------------------------------------------------------------
\* One allocation: where it lies, and how far the pointer moves.
LEMMA MallocLemma ==
  ASSUME NEW p \in 0..HEAP_SIZE, NEW size \in Nat
  PROVE  /\ Bump(p, size) \in 0..HEAP_SIZE /\ p <= Bump(p, size)
         /\ malloc(p, size) \in Nat
         /\ malloc(p, size) # Null => /\ malloc(p, size) = HEAP_BASE + p
                                      /\ p + size <= Bump(p, size)
<1>1. Align(size) \in Nat /\ Align(size) >= size
  BY DEF Align
<1>2. p + Align(size) \in Nat
  BY <1>1
<1> QED
  BY <1>1, <1>2, HeapAssumption DEF Bump, malloc, Fits, Null

\* Several, one after the other: the recursion of After.
IsAfter(q, p, sizes) ==
  /\ q \in [0..Len(sizes) -> 0..HEAP_SIZE] /\ q[0] = p
  /\ \A k \in 1..Len(sizes) : q[k] = Bump(q[k - 1], sizes[k])

LEMMA AfterLemma ==
  ASSUME NEW p \in 0..HEAP_SIZE, NEW sizes \in Seq(Nat)
  PROVE  IsAfter(After(p, sizes), p, sizes)
<1> DEFINE N == Len(sizes)
           S == 0..HEAP_SIZE
           F == [v \in (1..N) \X S |-> Bump(v[2], sizes[v[1]])]
           Def(f) == f = [k \in 0..N |-> IF k = 0 THEN p ELSE Bump(f[k - 1], sizes[k])]
<1>1. N \in Nat /\ \A k \in 1..N : sizes[k] \in Nat
  OBVIOUS
<1>2. F \in [(1..N) \X S -> S]
  <2>1. \A k \in 1..N : \A w \in S : Bump(w, sizes[k]) \in S
    BY <1>1, MallocLemma
  <2> QED
    BY <2>1
<1>3. \A k \in 1..N, v \in S : F[<<k, v>>] = Bump(v, sizes[k])
  OBVIOUS
<1> HIDE DEF F
<1>4. PICK f : Recursion(f, N, S, p, F)
  BY <1>1, <1>2, IntervalRecursion
<1>5. Def(f)
  <2>1. f \in [0..N -> S] /\ f = [k \in 0..N |-> IF k = 0 THEN p ELSE F[<<k, f[k - 1]>>]]
    BY <1>4 DEF Recursion
  <2>2. \A k \in 0..N : k # 0 => k \in 1..N /\ f[k - 1] \in S
    <3> HIDE DEF N, S
    <3>1. \A k \in 0..N : k # 0 => k \in 1..N /\ k - 1 \in 0..N
      BY <1>1
    <3> QED
      BY <2>1, <3>1
  <2>3. \A k \in 0..N : (IF k = 0 THEN p ELSE F[<<k, f[k - 1]>>])
                          = (IF k = 0 THEN p ELSE Bump(f[k - 1], sizes[k]))
    BY <1>3, <2>2
  <2> QED
    BY <2>1, <2>3
<1>6. After(p, sizes) = CHOOSE g : Def(g)
  BY DEF After
<1>7. Def(After(p, sizes))
  BY <1>5, <1>6
<1> DEFINE g == After(p, sizes)
<1> HIDE DEF g
<1>8. g[0] = p /\ \A k \in 1..N : g[k] = Bump(g[k - 1], sizes[k])
  <2>1. 0 \in 0..N /\ \A k \in 1..N : k \in 0..N /\ k # 0
    BY <1>1
  <2> HIDE DEF N
  <2> QED
    BY <1>7, <2>1 DEF g
<1>9. \A k \in 0..N : g[k] \in S
  <2>1. \A k \in 1..N : g[k - 1] \in S => g[k] \in S
    <3>1. ASSUME NEW k \in 1..N, g[k - 1] \in S PROVE Bump(g[k - 1], sizes[k]) \in S
      BY <1>1, <3>1, MallocLemma
    <3> QED
      BY <1>8, <3>1
  <2>2. g[0] \in S
    BY <1>8
  <2> HIDE DEF S
  <2> QED
    BY <1>1, <2>1, <2>2, IntervalRange
<1>10. g = [k \in 0..N |-> g[k]]
  BY <1>7 DEF g
<1> QED
  BY <1>8, <1>9, <1>10 DEF IsAfter, g

\* The pointer only moves up.
LEMMA RisingLemma ==
  ASSUME NEW p \in 0..HEAP_SIZE, NEW sizes \in Seq(Nat), NEW q, IsAfter(q, p, sizes)
  PROVE  \A l \in 0..Len(sizes) : \A k \in 0..l : q[k] <= q[l]
<1> DEFINE N == Len(sizes)
           T == {l \in 0..N : \A k \in 0..l : q[k] <= q[l]}
<1>1. /\ N \in Nat /\ \A k \in 1..N : sizes[k] \in Nat
      /\ \A k \in 0..N : q[k] \in 0..HEAP_SIZE /\ q[k] \in Int
      /\ \A k \in 1..N : q[k] = Bump(q[k - 1], sizes[k])
  <2>1. N \in Nat /\ \A k \in 1..N : sizes[k] \in Nat
    OBVIOUS
  <2>2. \A k \in 0..N : q[k] \in 0..HEAP_SIZE
    BY DEF IsAfter
  <2>3. \A k \in 1..N : q[k] = Bump(q[k - 1], sizes[k])
    BY DEF IsAfter
  <2> HIDE DEF N
  <2> QED
    BY <2>1, <2>2, <2>3
<1> HIDE DEF N
<1>2. 0 \in T
  <2>1. \A k \in 0..0 : q[k] <= q[0]
    BY <1>1
  <2> QED
    BY <1>1, <2>1
<1>3. ASSUME NEW l \in 0..(N - 1), l \in T PROVE l + 1 \in T
  <2>1. l + 1 \in 1..N /\ l + 1 \in 0..N /\ l \in 0..N /\ (l + 1) - 1 = l
    BY <1>1
  <2>2. q[l] \in 0..HEAP_SIZE /\ sizes[l + 1] \in Nat /\ q[l + 1] = Bump(q[l], sizes[l + 1])
    BY <1>1, <2>1
  <2>3. q[l] <= q[l + 1]
    BY <2>2, MallocLemma
  <2>4. ASSUME NEW k \in 0..(l + 1) PROVE q[k] <= q[l + 1]
    <3>1. CASE k = l + 1
      BY <1>1, <2>1, <3>1
    <3>2. CASE k # l + 1
      <4>1. k \in 0..l /\ k \in 0..N
        <5>1. k \in Int /\ l \in Int /\ N \in Int /\ 0 <= k /\ k <= l + 1 /\ l <= N
          BY <1>1, <2>1
        <5> QED
          BY <3>2, <5>1
      <4>2. q[k] <= q[l]
        BY <1>3, <4>1
      <4> QED
        BY <1>1, <2>1, <2>3, <4>1, <4>2
    <3> QED
      BY <3>1, <3>2
  <2> QED
    BY <2>1, <2>4
<1> HIDE DEF T
<1>4. \A l \in 0..N : l \in T
  BY <1>1, <1>2, <1>3, IntervalInduction
<1> QED
  BY <1>4 DEF T, N

\* The blocks handed out lie behind the pointer, one behind the other, and one
\* that was refused would not fit afterwards either.
LEMMA AddressLemma ==
  ASSUME NEW p \in 0..HEAP_SIZE, NEW sizes \in Seq(Nat)
  PROVE  LET at == Addresses(p, sizes)
             end == Consumed(p, sizes)
         IN  /\ at \in Seq(Nat) /\ DOMAIN at = 1..Len(sizes) /\ Len(at) = Len(sizes)
             /\ end \in 0..HEAP_SIZE /\ p <= end
             /\ \A k \in 1..Len(sizes) :
                  /\ at[k] \in Nat
                  /\ at[k] # Null => /\ HEAP_BASE + p <= at[k]
                                     /\ at[k] + sizes[k] <= HEAP_BASE + end
                  /\ at[k] = Null /\ sizes[k] # 0 => ~Fits(end, sizes[k])
                  /\ \A l \in 1..Len(sizes) :
                       k < l /\ at[k] # Null /\ at[l] # Null => at[k] + sizes[k] <= at[l]
<1> DEFINE N == Len(sizes)
           q == After(p, sizes)
           at == Addresses(p, sizes)
           end == Consumed(p, sizes)
<1>1. IsAfter(q, p, sizes)
  BY AfterLemma
<1> HIDE DEF q
<1>2. \A l \in 0..N : \A k \in 0..l : q[k] <= q[l]
  BY <1>1, RisingLemma
<1>3. at = [k \in 1..N |-> malloc(q[k - 1], sizes[k])] /\ end = q[N]
  BY DEF Addresses, Consumed, q
<1> HIDE DEF at, end
<1>4. /\ N \in Nat /\ \A k \in 1..N : sizes[k] \in Nat
      /\ \A k \in 0..N : q[k] \in 0..HEAP_SIZE /\ q[k] \in Int
      /\ \A k \in 1..N : q[k] = Bump(q[k - 1], sizes[k])
      /\ q[0] = p /\ p \in Int /\ HEAP_BASE \in Nat
  <2>1. N \in Nat /\ \A k \in 1..N : sizes[k] \in Nat
    OBVIOUS
  <2>2. \A k \in 0..N : q[k] \in 0..HEAP_SIZE
    BY <1>1 DEF IsAfter
  <2>3. q[0] = p /\ \A k \in 1..N : q[k] = Bump(q[k - 1], sizes[k])
    BY <1>1 DEF IsAfter
  <2> HIDE DEF N
  <2> QED
    BY <2>1, <2>2, <2>3, HeapAssumption
<1> HIDE DEF N
<1>5. ASSUME NEW k \in 1..N
      PROVE  /\ at[k] = malloc(q[k - 1], sizes[k]) /\ at[k] \in Nat
             /\ k - 1 \in 0..N /\ k \in 0..N
             /\ p <= q[k - 1] /\ q[k - 1] <= q[k] /\ q[k] <= end
             /\ at[k] # Null => at[k] = HEAP_BASE + q[k - 1] /\ q[k - 1] + sizes[k] <= q[k]
  <2>1. k - 1 \in 0..N /\ k \in 0..N /\ N \in 0..N /\ 0 \in 0..(k - 1) /\ k - 1 \in 0..k /\ k \in 0..N
    BY <1>4
  <2>2. p <= q[k - 1] /\ q[k - 1] <= q[k] /\ q[k] <= end
    BY <1>2, <1>3, <1>4, <2>1
  <2>3. at[k] = malloc(q[k - 1], sizes[k])
    BY <1>3
  <2>4. q[k - 1] \in 0..HEAP_SIZE /\ sizes[k] \in Nat
    BY <1>4, <2>1
  <2> QED
    BY <1>4, <2>1, <2>2, <2>3, <2>4, MallocLemma
<1>6. at \in Seq(Nat) /\ DOMAIN at = 1..N /\ Len(at) = N
  <2>1. at \in [1..N -> Nat]
    BY <1>3, <1>5
  <2> QED
    BY <1>4, <2>1
<1>7. end \in 0..HEAP_SIZE /\ p <= end
  <2>1. N \in 0..N /\ 0 \in 0..N
    BY <1>4
  <2> QED
    BY <1>2, <1>3, <1>4, <2>1
<1>70. ASSUME NEW k \in 1..N
       PROVE  q[k - 1] \in Int /\ q[k] \in Int /\ sizes[k] \in Int /\ end \in Int
  <2>1. q[k - 1] \in 0..HEAP_SIZE /\ q[k] \in 0..HEAP_SIZE /\ sizes[k] \in Nat
    BY <1>4, <1>5
  <2> QED
    BY <1>7, <2>1
<1>8. ASSUME NEW k \in 1..N, at[k] # Null
      PROVE  HEAP_BASE + p <= at[k] /\ at[k] + sizes[k] <= HEAP_BASE + end
  <2>1. at[k] = HEAP_BASE + q[k - 1] /\ q[k - 1] + sizes[k] <= q[k] /\ p <= q[k - 1] /\ q[k] <= end
    BY <1>5, <1>8
  <2>2. q[k - 1] \in Int /\ q[k] \in Int /\ sizes[k] \in Int /\ end \in Int /\ p \in Int
        /\ HEAP_BASE \in Int
    BY <1>4, <1>70
  <2>3. PICK x \in Int, y \in Int, z \in Int, e \in Int :
          x = q[k - 1] /\ y = q[k] /\ z = sizes[k] /\ e = end
    BY <2>2
  <2>4. at[k] = HEAP_BASE + x /\ x + z <= y /\ p <= x /\ y <= e
    BY <2>1, <2>3
  <2>5. HEAP_BASE + p <= HEAP_BASE + x /\ HEAP_BASE + x + z <= HEAP_BASE + e
    BY <2>2, <2>4
  <2> QED
    BY <2>3, <2>4, <2>5
<1>9. ASSUME NEW k \in 1..N, at[k] = Null, sizes[k] # 0 PROVE ~Fits(end, sizes[k])
  <2>1. q[k - 1] \in Nat /\ q[k - 1] <= end /\ Align(sizes[k]) \in Nat
    <3>1. q[k - 1] \in 0..HEAP_SIZE /\ sizes[k] \in Nat /\ q[k - 1] <= q[k] /\ q[k] <= end
      BY <1>4, <1>5
    <3>2. q[k - 1] \in Int /\ q[k] \in Int /\ end \in Int
      BY <1>70
    <3>3. Align(sizes[k]) \in Nat
      BY <3>1 DEF Align
    <3> QED
      BY <3>1, <3>2, <3>3
  <2>2. ~Fits(q[k - 1], sizes[k])
    BY <1>5, <1>9, <2>1, HeapAssumption DEF malloc, Null
  <2> QED
    BY <1>7, <2>1, <2>2, HeapAssumption DEF Fits
<1>10. ASSUME NEW k \in 1..N, NEW l \in 1..N, k < l, at[k] # Null, at[l] # Null
       PROVE  at[k] + sizes[k] <= at[l]
  <2>1. k \in 0..(l - 1) /\ l - 1 \in 0..N /\ k \in 0..N
    BY <1>4, <1>10
  <2>2. q[k] <= q[l - 1]
    BY <1>2, <2>1
  <2>3. q[k] \in Int /\ q[l - 1] \in Int /\ q[k - 1] \in Int /\ sizes[k] \in Int
    BY <1>70
  <2>4. /\ at[k] = HEAP_BASE + q[k - 1] /\ q[k - 1] + sizes[k] <= q[k]
        /\ at[l] = HEAP_BASE + q[l - 1] /\ HEAP_BASE \in Int
    BY <1>4, <1>5, <1>10
  <2>5. PICK a, b, c, d, e \in Int :
          /\ a = q[k - 1] /\ b = q[k] /\ c = q[l - 1] /\ d = sizes[k] /\ e = HEAP_BASE
    BY <2>3, <2>4
  <2>6. a + d <= b /\ at[k] = e + a /\ at[l] = e + c
    BY <2>4, <2>5
  <2>7. b <= c
    BY <2>2, <2>5
  <2>8. e + a + d <= e + c
    BY <2>6, <2>7
  <2> QED
    BY <2>5, <2>6, <2>8
<1> QED
  BY <1>5, <1>6, <1>7, <1>8, <1>9, <1>10 DEF N, at, end

\* What does not fit does not fit further up.
LEMMA FitsLemma ==
  ASSUME NEW x \in Nat, NEW y \in Nat, x <= y, NEW size \in Nat, ~Fits(x, size)
  PROVE  ~Fits(y, size)
<1>1. PICK a \in Nat : a = Align(size)
  BY DEF Align
<1>2. HEAP_SIZE \in Nat /\ ~(x + a <= HEAP_SIZE)
  BY <1>1, HeapAssumption DEF Fits
<1>3. ~(y + a <= HEAP_SIZE)
  BY <1>2
<1> QED
  BY <1>1, <1>3 DEF Fits

\* Of several requests of one size, those after a refused one are refused.
LEMMA RefusedLemma ==
  ASSUME NEW p \in 0..HEAP_SIZE, NEW sizes \in Seq(Nat),
         NEW k \in 1..Len(sizes), NEW l \in 1..Len(sizes), k <= l, sizes[k] = sizes[l],
         Addresses(p, sizes)[k] = Null
  PROVE  Addresses(p, sizes)[l] = Null
<1>1. PICK q : q = After(p, sizes) /\ IsAfter(q, p, sizes)
  BY AfterLemma
<1>2. PICK x \in Nat, y \in Nat, size \in Nat : x = q[k - 1] /\ y = q[l - 1] /\ size = sizes[k] /\ x <= y
  <2>1. k - 1 \in 0..(l - 1) /\ l - 1 \in 0..Len(sizes) /\ k - 1 \in 0..Len(sizes)
    OBVIOUS
  <2>2. q[k - 1] <= q[l - 1]
    BY <1>1, <2>1, RisingLemma
  <2>3. q[k - 1] \in 0..HEAP_SIZE /\ q[l - 1] \in 0..HEAP_SIZE
    BY <1>1, <2>1 DEF IsAfter
  <2> QED
    BY <2>2, <2>3
<1>3. Addresses(p, sizes)[k] = malloc(x, size) /\ Addresses(p, sizes)[l] = malloc(y, size)
  BY <1>1, <1>2 DEF Addresses
<1>4. size = 0 \/ ~Fits(x, size)
  <2>1. malloc(x, size) = Null /\ HEAP_BASE + x # 0
    BY <1>2, <1>3, HeapAssumption
  <2> QED
    BY <2>1 DEF malloc, Null
<1>5. ~Fits(x, size) => ~Fits(y, size)
  BY <1>2, FitsLemma
<1> QED
  BY <1>3, <1>4, <1>5 DEF malloc

\* What the values of an INSERT are cut into.
LEMMA FlatLemma == ASSUME NEW vs \in Seq(Values) PROVE Flat(vs) \in Seq(Stored)
<1> DEFINE N == Len(vs)
           S == Seq(Stored)
           F == [v \in (1..N) \X S |-> v[2] \o Pieces[vs[v[1]]]]
           Def(f) == f = [k \in 0..N |-> IF k = 0 THEN << >> ELSE f[k - 1] \o Pieces[vs[k]]]
<1>1. N \in Nat /\ \A k \in 1..N : Pieces[vs[k]] \in S
  <2>1. N \in Nat /\ \A k \in 1..N : vs[k] \in Values
    OBVIOUS
  <2> QED
    BY <2>1, SqliteAssumption
<1>2. F \in [(1..N) \X S -> S]
  <2>1. \A k \in 1..N : \A w \in S : w \o Pieces[vs[k]] \in S
    BY <1>1
  <2> HIDE DEF S
  <2> QED
    BY <2>1
<1>3. \A k \in 1..N, v \in S : F[<<k, v>>] = v \o Pieces[vs[k]]
  <2> HIDE DEF S
  <2> QED
    OBVIOUS
<1>4. << >> \in S
  OBVIOUS
<1> HIDE DEF F, S
<1>5. PICK f : Recursion(f, N, S, << >>, F)
  BY <1>1, <1>2, <1>4, IntervalRecursion
<1>6. Def(f)
  <2>1. f \in [0..N -> S] /\ f = [k \in 0..N |-> IF k = 0 THEN << >> ELSE F[<<k, f[k - 1]>>]]
    BY <1>5 DEF Recursion
  <2>2. \A k \in 0..N : k # 0 => k \in 1..N /\ f[k - 1] \in S
    <3> HIDE DEF N
    <3>1. \A k \in 0..N : k # 0 => k \in 1..N /\ k - 1 \in 0..N
      BY <1>1
    <3> QED
      BY <2>1, <3>1
  <2>3. \A k \in 0..N : (IF k = 0 THEN << >> ELSE F[<<k, f[k - 1]>>])
                          = (IF k = 0 THEN << >> ELSE f[k - 1] \o Pieces[vs[k]])
    BY <1>3, <2>2
  <2> QED
    BY <2>1, <2>3
<1>7. PICK g : g = CHOOSE x : Def(x)
  OBVIOUS
<1>8. Def(g) /\ Flat(vs) = g[N]
  BY <1>6, <1>7 DEF Flat
<1>9. g[0] = << >> /\ \A k \in 1..N : g[k] = g[k - 1] \o Pieces[vs[k]]
  <2>1. 0 \in 0..N /\ \A k \in 1..N : k \in 0..N /\ k # 0
    BY <1>1
  <2> HIDE DEF N
  <2> QED
    BY <1>8, <2>1
<1>10. \A k \in 1..N : g[k - 1] \in S => g[k] \in S
  <2>1. ASSUME NEW k \in 1..N, NEW v, v \in S PROVE v \o Pieces[vs[k]] \in S
    BY <1>1, <2>1 DEF S
  <2> QED
    BY <1>9, <2>1
<1>11. \A k \in 0..N : g[k] \in S
  BY <1>1, <1>4, <1>9, <1>10, IntervalRange
<1> QED
  BY <1>1, <1>8, <1>11 DEF S

\* The cells an INSERT fills: its values, and empty strings behind them.
LEMMA CellsLemma ==
  ASSUME NEW s \in Inserts, NEW width \in Nat
  PROVE  LET cells == Cells(s, width)
             given == Flat(s.values)
         IN  /\ given \in Seq(Stored) /\ cells \in Seq(Strings) /\ Len(cells) <= width
             /\ \A k \in 1..width : k <= Len(given) => k <= Len(cells) /\ cells[k] = given[k]
             /\ \A k \in 1..Len(cells) : ~(k <= Len(given)) => cells[k] = Empty
<1>1. PICK given \in Seq(Stored) : given = Flat(s.values)
  BY SqliteAssumption, FlatLemma DEF Inserts
<1>2. PICK n \in Nat : n = IF s.closed THEN width ELSE Smaller(Len(given), width)
  BY DEF Smaller
<1>3. n <= width /\ \A k \in 1..width : k <= Len(given) => k <= n
  BY <1>2 DEF Smaller
<1>4. PICK cells : cells = Cells(s, width)
  OBVIOUS
<1>5. cells = [k \in 1..n |-> IF k <= Len(given) THEN given[k] ELSE Empty]
  BY <1>1, <1>2, <1>4 DEF Cells
<1>6. \A k \in 1..n : k <= Len(given) => given[k] \in Stored
  OBVIOUS
<1>7. cells \in [1..n -> Strings]
  BY <1>5, <1>6 DEF Strings
<1>8. cells \in Seq(Strings) /\ Len(cells) = n
  BY <1>7
<1>9. ASSUME NEW k \in 1..width, k <= Len(given) PROVE k <= Len(cells) /\ cells[k] = given[k]
  <2>1. k <= n /\ k \in 1..n
    BY <1>3, <1>9
  <2> QED
    BY <1>5, <1>8, <1>9, <2>1
<1>10. \A k \in 1..Len(cells) : ~(k <= Len(given)) => cells[k] = Empty
  BY <1>5, <1>8
<1>11. Len(cells) <= width
  BY <1>3, <1>8
<1> QED
  BY <1>1, <1>4, <1>8, <1>9, <1>10, <1>11

\* The cells, one by one.
LEMMA LiveLemma ==
  \A x : x \in Live <=> \E t \in DOMAIN tables : \E r \in DOMAIN tables[t].rows :
                          \E c \in DOMAIN tables[t].columns :
                            x = <<t, r, c>> /\ tables[t].rows[r][c] # Null
BY DEF Live, AllCells, CellsOf, At

LEMMA LiveLemmaAfterwards ==
  \A x : x \in Live' <=> \E t \in DOMAIN tables' : \E r \in DOMAIN tables'[t].rows :
                           \E c \in DOMAIN tables'[t].columns :
                             x = <<t, r, c>> /\ tables'[t].rows[r][c] # Null
BY DEF Live, AllCells, CellsOf, At

----------------------------------------------------------------------------
\* The steps that keep no tables, ...
LEMMA EmptyLemma ==
  ASSUME tables' = << >>, bytes' = << >> PROVE Shape' /\ Memory' /\ Owners'
<1>1. tables' \in Seq(Tables) /\ Len(tables') = 0 /\ DOMAIN tables' = {}
  OBVIOUS
<1>2. DOMAIN bytes' = {}
  OBVIOUS
<1>3. Live' = {}
  BY <1>1, LiveLemmaAfterwards
<1> QED
  BY <1>1, <1>2, <1>3, SqliteAssumption DEF Shape, Memory, Owners

\* ... and those that only move the pointer.
LEMMA MoveLemma ==
  ASSUME IInv, tables' = tables, bytes' = bytes, heap_ptr' \in Nat, heap_ptr <= heap_ptr'
  PROVE  Shape' /\ Memory' /\ Owners'
<1>1. Shape'
  BY DEF IInv, Shape
<1>2. Memory'
  <2>1. heap_ptr \in Nat /\ HEAP_BASE \in Nat
    BY HeapAssumption DEF IInv, Session
  <2>2. ASSUME NEW a \in DOMAIN bytes PROVE a + Size[bytes[a]] <= HEAP_BASE + heap_ptr'
    <3>1. a \in Nat /\ Size[bytes[a]] \in Nat /\ a + Size[bytes[a]] <= HEAP_BASE + heap_ptr
      BY SqliteAssumption DEF IInv, Memory, Strings
    <3> QED
      BY <2>1, <3>1
  <2> QED
    BY <2>2 DEF IInv, Memory
<1>3. Owners'
  BY DEF IInv, Owners, Live, AllCells, CellsOf, At
<1> QED
  BY <1>1, <1>2, <1>3

LEMMA Initially == ASSUME Init PROVE IInv
<1>1. tables = << >> /\ bytes = << >> /\ DOMAIN tables = {} /\ DOMAIN bytes = {}
  BY DEF Init
<1>2. Shape
  BY <1>1, SqliteAssumption DEF Shape
<1>3. Memory
  BY <1>1 DEF Memory
<1>4. Owners
  BY <1>1, LiveLemma DEF Owners
<1>5. Session
  BY HeapAssumption DEF Init, Session
<1> QED
  BY <1>2, <1>3, <1>4, <1>5 DEF IInv

LEMMA UsageStep == ASSUME IInv, Usage PROVE IInv'
<1>1. tables' = << >> /\ bytes' = << >>
  BY DEF IInv, Session, Usage
<1>2. Session'
  BY HeapAssumption DEF IInv, Session, Usage
<1> QED
  BY <1>1, <1>2, EmptyLemma DEF IInv

LEMMA OpenStep == ASSUME IInv, NEW d \in DbNames, sqlite3_open(d) PROVE IInv'
<1>1. tables' = << >> /\ bytes' = << >> /\ UNCHANGED first_row
      /\ heap_ptr' = Bump(0, DB_SIZE) /\ current_db' = malloc(0, DB_SIZE) /\ db_name' = d
  BY DEF sqlite3_open
<1>2. Session'
  <2>1. 0 \in 0..HEAP_SIZE /\ DB_SIZE \in Nat
    BY HeapAssumption, SqliteAssumption
  <2>2. /\ heap_ptr' \in 0..HEAP_SIZE
        /\ current_db' # Null => current_db' = HEAP_BASE + 0 /\ 0 + DB_SIZE <= heap_ptr'
    BY <1>1, <2>1, MallocLemma
  <2> QED
    BY <1>1, <2>1, <2>2, HeapAssumption DEF IInv, Session
<1> QED
  BY <1>1, <1>2, EmptyLemma DEF IInv

LEMMA OneShotStep == ASSUME IInv, NEW d \in DbNames, NEW s, OneShot(d, s) PROVE IInv'
<1>1. tables' = << >> /\ bytes' = << >> /\ UNCHANGED first_row /\ current_db = Null
  BY DEF OneShot, IInv, Session
<1>2. 0 \in 0..HEAP_SIZE /\ DB_SIZE \in Nat /\ TEXT \in Nat
  BY HeapAssumption, SqliteAssumption
<1>3. /\ Bump(0, DB_SIZE) \in 0..HEAP_SIZE
      /\ malloc(0, DB_SIZE) # Null => malloc(0, DB_SIZE) = HEAP_BASE /\ DB_SIZE <= Bump(0, DB_SIZE)
  <2>1. malloc(0, DB_SIZE) # Null => malloc(0, DB_SIZE) = HEAP_BASE + 0 /\ 0 + DB_SIZE <= Bump(0, DB_SIZE)
    BY <1>2, MallocLemma
  <2> QED
    BY <1>2, <2>1, MallocLemma, HeapAssumption
<1>4. CASE ret' = Never
  <2>1. /\ malloc(0, DB_SIZE) # Null /\ heap_ptr' = Bump(0, DB_SIZE)
        /\ current_db' = malloc(0, DB_SIZE) /\ db_name' = d
    BY <1>4 DEF OneShot, Never, Error, Answer
  <2>2. Session'
    BY <1>1, <1>3, <2>1 DEF IInv, Session
  <2> QED
    BY <1>1, <2>2, EmptyLemma DEF IInv
<1>5. CASE ret' # Never
  <2>1. UNCHANGED <<current_db, db_name>>
    BY <1>5 DEF OneShot
  <2>2. PICK message \in {0, TEXT} : heap_ptr' = Bump(Bump(0, DB_SIZE), message)
    BY <1>5 DEF OneShot
  <2>3. heap_ptr' \in 0..HEAP_SIZE
    BY <1>2, <1>3, <2>2, MallocLemma
  <2>4. Session'
    BY <1>1, <2>1, <2>3 DEF IInv, Session
  <2> QED
    BY <1>1, <2>4, EmptyLemma DEF IInv
<1> QED
  BY <1>4, <1>5

LEMMA CloseStep == ASSUME IInv, sqlite3_close PROVE IInv'
<1>1. /\ tables' = << >> /\ bytes' = << >> /\ current_db' = Null /\ db_name' = Empty
      /\ UNCHANGED <<heap_ptr, first_row>>
  BY DEF sqlite3_close
<1> QED
  BY <1>1, EmptyLemma DEF IInv, Session

LEMMA HangStep == ASSUME IInv, Hang, UNCHANGED <<current_db, db_name>> PROVE IInv'
<1>1. UNCHANGED <<heap_ptr, tables, bytes, first_row, current_db, db_name>>
  BY DEF Hang
<1>2. heap_ptr \in Nat
  BY HeapAssumption DEF IInv, Session
<1> QED
  BY <1>1, <1>2, MoveLemma DEF IInv, Session

LEMMA FailStep == ASSUME IInv, Fail, UNCHANGED <<current_db, db_name>> PROVE IInv'
<1>1. UNCHANGED <<heap_ptr, tables, bytes, first_row, current_db, db_name>>
  BY DEF Fail
<1>2. heap_ptr \in Nat
  BY HeapAssumption DEF IInv, Session
<1> QED
  BY <1>1, <1>2, MoveLemma DEF IInv, Session

\* A session in which the pointer moved up.
LEMMA SessionLemma ==
  ASSUME IInv, current_db # Null, UNCHANGED <<current_db, db_name>>,
         heap_ptr' \in 0..HEAP_SIZE, heap_ptr <= heap_ptr', first_row' \in BOOLEAN
  PROVE  Session' /\ heap_ptr' \in Nat
<1>1. heap_ptr \in 0..HEAP_SIZE /\ HEAP_SIZE \in Nat /\ DB_SIZE \in Nat /\ DB_SIZE <= heap_ptr
  BY HeapAssumption, SqliteAssumption DEF IInv, Session
<1>2. heap_ptr' \in Nat /\ DB_SIZE <= heap_ptr'
  BY <1>1
<1> QED
  BY <1>2 DEF IInv, Session

\* Several allocations move the pointer up.
LEMMA ConsumedLemma ==
  ASSUME IInv, NEW sizes \in Seq(Nat)
  PROVE  Consumed(heap_ptr, sizes) \in 0..HEAP_SIZE /\ heap_ptr <= Consumed(heap_ptr, sizes)
BY AddressLemma DEF IInv, Session

LEMMA TimesLemma ==
  ASSUME NEW n \in Nat, NEW size \in Nat
  PROVE  Times(n, size) \in Seq(Nat) /\ Len(Times(n, size)) = n
<1>1. Times(n, size) \in [1..n -> Nat]
  BY DEF Times
<1> QED
  BY <1>1 DEF Times

\* The table a CREATE TABLE adds: empty, with as many columns as there is room for.
Added(s, t) ==
  /\ t \in Tables /\ t.name = s.table /\ t.rows = << >>
  /\ Len(t.columns) = IF s.listed THEN Smaller(s.columns, MAX_COLUMNS) ELSE 0

LEMMA CreateLemma ==
  ASSUME IInv, NEW s \in Creates, parse_create_table(s),
         find_table(s.table) = {}, Len(tables) < MAX_TABLES
  PROVE  /\ \E new : Added(s, new) /\ tables' = Append(tables, new)
         /\ bytes' = bytes /\ first_row' = first_row
         /\ heap_ptr' \in 0..HEAP_SIZE /\ heap_ptr <= heap_ptr'
         /\ ret' = IF s.listed THEN OK ELSE Error
<1>1. s.columns \in Nat /\ s.table \in TableNames /\ TEXT \in Nat /\ MAX_COLUMNS \in Nat
  BY SqliteAssumption DEF Creates
<1>2. ~(find_table(s.table) # {} \/ Len(tables) >= MAX_TABLES)
  <2>1. Len(tables) \in Nat /\ MAX_TABLES \in Nat
    BY SqliteAssumption DEF IInv, Shape
  <2> QED
    BY <2>1
<1>3. PICK n \in Nat : n = IF s.listed THEN s.columns ELSE 0
  BY <1>1
<1>4. PICK sizes : sizes = Times(IF s.listed THEN 2 * s.columns ELSE 0, TEXT)
  OBVIOUS
<1>5. sizes \in Seq(Nat) /\ Len(sizes) = 2 * n
  <2>1. 2 * n \in Nat /\ sizes = Times(2 * n, TEXT)
    BY <1>3, <1>4
  <2> QED
    BY <1>1, <2>1, TimesLemma
<1>6. PICK at : at = Addresses(heap_ptr, sizes)
  OBVIOUS
<1>7. PICK new : new = [name |-> s.table, rows |-> << >>,
                        columns |-> [k \in 1..Smaller(Len(sizes) \div 2, MAX_COLUMNS) |->
                                       at[2 * k - 1]]]
  OBVIOUS
<1>8. /\ tables' = Append(tables, new) /\ bytes' = bytes /\ first_row' = first_row
      /\ heap_ptr' = Consumed(heap_ptr, sizes)
      /\ ret' = IF s.listed THEN OK ELSE Error
  BY <1>2, <1>4, <1>6, <1>7 DEF parse_create_table
<1>9. Added(s, new)
  <2>1. PICK m \in Nat : m = Smaller(n, MAX_COLUMNS)
    BY <1>1, <1>3 DEF Smaller
  <2>2. Len(sizes) \div 2 = n /\ m <= n /\ m = IF s.listed THEN Smaller(s.columns, MAX_COLUMNS) ELSE 0
    BY <1>1, <1>3, <1>5, <2>1 DEF Smaller
  <2>3. \A k \in 1..m : at[2 * k - 1] \in Nat
    <3>1. ASSUME NEW k \in 1..m PROVE 2 * k - 1 \in 1..Len(sizes)
      BY <1>5, <2>2
    <3> QED
      BY <1>5, <1>6, <3>1, AddressLemma DEF IInv, Session
  <2>4. new.columns = [k \in 1..m |-> at[2 * k - 1]]
    BY <1>7, <2>1, <2>2
  <2>5. new.columns \in Seq(Nat) /\ Len(new.columns) = m
    <3>1. new.columns \in [1..m -> Nat]
      BY <2>3, <2>4
    <3> QED
      BY <2>4, <3>1
  <2>6. << >> \in Seq(UNION {Rows(w) : w \in Nat})
    OBVIOUS
  <2> QED
    BY <1>1, <1>7, <2>2, <2>5, <2>6 DEF Added, Tables
<1>10. Consumed(heap_ptr, sizes) \in 0..HEAP_SIZE /\ heap_ptr <= Consumed(heap_ptr, sizes)
  BY <1>5, ConsumedLemma
<1> QED
  BY <1>8, <1>9, <1>10

LEMMA CreateStep ==
  ASSUME IInv, NEW s \in Creates, parse_create_table(s), current_db # Null,
         UNCHANGED <<current_db, db_name>>
  PROVE  IInv'
<1>1. Len(tables) \in Nat /\ MAX_TABLES \in Nat /\ tables \in Seq(Tables) /\ MAX_COLUMNS \in Nat
      /\ MAX_ROWS \in Nat
  BY SqliteAssumption DEF IInv, Shape
<1>2. CASE find_table(s.table) # {} \/ Len(tables) >= MAX_TABLES
  BY <1>2, FailStep DEF parse_create_table
<1>3. CASE find_table(s.table) = {} /\ Len(tables) < MAX_TABLES
  <2>1. PICK new : Added(s, new) /\ tables' = Append(tables, new)
    BY <1>3, CreateLemma
  <2>2. /\ bytes' = bytes /\ first_row' = first_row
        /\ heap_ptr' \in 0..HEAP_SIZE /\ heap_ptr <= heap_ptr'
    BY <1>3, CreateLemma
  <2>3. Session' /\ heap_ptr' \in Nat
    BY <2>2, SessionLemma DEF IInv, Session
  <2>4. Memory'
    <3>1. heap_ptr \in Nat /\ HEAP_BASE \in Nat
      BY HeapAssumption DEF IInv, Session
    <3>2. ASSUME NEW a \in DOMAIN bytes PROVE a + Size[bytes[a]] <= HEAP_BASE + heap_ptr'
      <4>1. a \in Nat /\ Size[bytes[a]] \in Nat /\ a + Size[bytes[a]] <= HEAP_BASE + heap_ptr
        BY SqliteAssumption DEF IInv, Memory, Strings
      <4> QED
        BY <2>2, <2>3, <3>1, <4>1
    <3> QED
      BY <2>2, <3>2 DEF IInv, Memory
  <2>5. /\ tables' \in Seq(Tables) /\ Len(tables') = Len(tables) + 1
        /\ \A t \in 1..Len(tables) : tables'[t] = tables[t]
        /\ tables'[Len(tables) + 1] = new
        /\ DOMAIN tables = 1..Len(tables) /\ DOMAIN tables' = 1..(Len(tables) + 1)
    BY <1>1, <2>1 DEF Added
  <2>6. Shape'
    <3>1. IsTable(new)
      <4>1. Len(new.columns) <= MAX_COLUMNS
        BY <1>1, <2>1, SqliteAssumption DEF Added, Smaller, Creates
      <4> QED
        BY <1>1, <2>1, <4>1 DEF IsTable, Added
    <3>2. ASSUME NEW t \in DOMAIN tables' PROVE IsTable(tables'[t])
      BY <1>1, <2>5, <3>1 DEF IInv, Shape
    <3>3. ASSUME NEW t \in DOMAIN tables PROVE tables[t].name # new.name
      BY <1>3, <2>1 DEF find_table, Added
    <3>4. ASSUME NEW t \in DOMAIN tables', NEW u \in DOMAIN tables', tables'[t].name = tables'[u].name
          PROVE  t = u
      BY <1>1, <2>5, <3>3, <3>4 DEF IInv, Shape
    <3>5. Len(tables') <= MAX_TABLES
      BY <1>1, <1>3, <2>5
    <3> QED
      BY <2>5, <3>2, <3>4, <3>5 DEF Shape
  <2>7. \A x : x \in Live' <=> x \in Live
    <3>1. new.rows = << >>
      BY <2>1 DEF Added
    <3>2. ASSUME NEW x \in Live PROVE x \in Live'
      <4>1. PICK t \in DOMAIN tables : \E r \in DOMAIN tables[t].rows : \E c \in DOMAIN tables[t].columns :
              x = <<t, r, c>> /\ tables[t].rows[r][c] # Null
        BY LiveLemma
      <4>2. t \in DOMAIN tables' /\ tables'[t] = tables[t]
        BY <1>1, <2>5
      <4> QED
        BY <4>1, <4>2, LiveLemmaAfterwards
    <3>3. ASSUME NEW x \in Live' PROVE x \in Live
      <4>1. PICK t \in DOMAIN tables' : \E r \in DOMAIN tables'[t].rows : \E c \in DOMAIN tables'[t].columns :
              x = <<t, r, c>> /\ tables'[t].rows[r][c] # Null
        BY LiveLemmaAfterwards
      <4>2. t # Len(tables) + 1
        BY <2>5, <3>1, <4>1
      <4>3. t \in DOMAIN tables /\ tables'[t] = tables[t]
        BY <1>1, <2>5, <4>2
      <4> QED
        BY <4>1, <4>3, LiveLemma
    <3> QED
      BY <3>2, <3>3
  <2>8. \A x \in Live : At(x)' = At(x)
    <3> SUFFICES ASSUME NEW x \in Live PROVE At(x)' = At(x)
      OBVIOUS
    <3>1. PICK t \in DOMAIN tables : \E r, c : x = <<t, r, c>>
      BY LiveLemma
    <3>2. tables'[t] = tables[t] /\ x[1] = t
      BY <2>5, <3>1
    <3> QED
      BY <3>2 DEF At
  <2>9. Owners'
    BY <2>2, <2>7, <2>8 DEF IInv, Owners
  <2> QED
    BY <2>3, <2>4, <2>6, <2>9 DEF IInv
<1> QED
  BY <1>1, <1>2, <1>3

\* The strings of an INSERT in new memory: where each was copied, or null.
Placed(cells, at) ==
  /\ cells \in Seq(Strings) /\ at \in Seq(Nat) /\ Len(at) = Len(cells)
  /\ heap_ptr' \in 0..HEAP_SIZE /\ heap_ptr <= heap_ptr'
  /\ \A k \in 1..Len(cells) :
       /\ at[k] # Null => /\ HEAP_BASE + heap_ptr <= at[k]
                          /\ at[k] + Size[cells[k]] <= HEAP_BASE + heap_ptr'
       /\ at[k] = Null => ~Fits(heap_ptr', Size[cells[k]])
       /\ \A l \in 1..Len(cells) :
            k < l /\ at[k] # Null /\ at[l] # Null => at[k] + Size[cells[k]] <= at[l]

LEMMA SizeLemma == \A v \in Strings : Size[v] \in Nat /\ Size[v] # 0
BY SqliteAssumption DEF Strings

LEMMA TableLemma ==
  ASSUME IInv, NEW t \in DOMAIN tables
  PROVE  /\ IsTable(tables[t]) /\ tables[t] \in Tables
         /\ tables[t].name \in TableNames /\ find_table(tables[t].name) = {t}
         /\ Len(tables[t].columns) \in Nat /\ Len(tables[t].rows) \in Nat
         /\ tables[t].rows \in Seq(UNION {Rows(w) : w \in Nat})
         /\ DOMAIN tables[t].columns = 1..Len(tables[t].columns)
         /\ DOMAIN tables[t].rows = 1..Len(tables[t].rows)
<1>1. IsTable(tables[t]) /\ tables[t] \in Tables
  BY DEF IInv, Shape, IsTable
<1>2. /\ tables[t].name \in TableNames /\ tables[t].columns \in Seq(Nat)
      /\ tables[t].rows \in Seq(UNION {Rows(w) : w \in Nat})
  BY <1>1 DEF Tables
<1>3. find_table(tables[t].name) = {t}
  BY DEF IInv, Shape, find_table
<1> QED
  BY <1>1, <1>2, <1>3

LEMMA InsertLemma ==
  ASSUME IInv, NEW s \in Inserts, parse_insert(s),
         NEW t \in DOMAIN tables, tables[t].name = s.table, ~TableFull(t)
  PROVE  \E cells, at :
           /\ cells = Cells(s, Len(tables[t].columns)) /\ Placed(cells, at)
           /\ Len(cells) <= Len(tables[t].columns)
           /\ tables' = [tables EXCEPT ![t].rows =
                           Append(@, NewRow(Len(tables[t].columns), at))]
           /\ bytes' = NewBytes(cells, at)
           /\ ret' = OK /\ first_row' = first_row
<1>1. find_table(s.table) = {t} /\ Len(tables[t].columns) \in Nat
  BY TableLemma
<1>2. PICK width \in Nat : width = Len(tables[t].columns)
  BY <1>1
<1>3. PICK cells : cells = Cells(s, width)
  OBVIOUS
<1>4. cells \in Seq(Strings) /\ Len(cells) <= width
  BY <1>3, CellsLemma
<1>5. PICK sizes : sizes = [k \in DOMAIN cells |-> Bytes(cells[k])]
  OBVIOUS
<1>6. sizes \in Seq(Nat) /\ Len(sizes) = Len(cells) /\ \A k \in 1..Len(cells) : sizes[k] = Size[cells[k]]
  <2>1. \A k \in 1..Len(cells) : cells[k] \in Strings
    BY <1>4
  <2>2. DOMAIN cells = 1..Len(cells) /\ Len(cells) \in Nat
    BY <1>4
  <2>3. sizes \in [1..Len(cells) -> Nat]
    BY <1>5, <2>1, <2>2, SizeLemma DEF Bytes
  <2>4. \A k \in 1..Len(cells) : sizes[k] = Size[cells[k]]
    BY <1>5, <2>2 DEF Bytes
  <2> QED
    BY <2>2, <2>3, <2>4
<1>7. PICK at : at = Addresses(heap_ptr, sizes)
  OBVIOUS
<1>8. /\ ret' = OK /\ first_row' = first_row /\ heap_ptr' = Consumed(heap_ptr, sizes)
      /\ tables' = [tables EXCEPT ![t].rows = Append(@, NewRow(width, at))]
      /\ bytes' = NewBytes(cells, at)
  <2>1. PICK u : u = CHOOSE x \in find_table(s.table) : TRUE
    OBVIOUS
  <2>2. u = t
    BY <1>1, <2>1
  <2>3. find_table(s.table) # {}
    BY <1>1
  <2>4. LET c == Cells(s, Len(tables[u].columns))
            z == [k \in DOMAIN c |-> Bytes(c[k])]
            a == Addresses(heap_ptr, z)
        IN  /\ ret' = OK /\ UNCHANGED first_row
            /\ heap_ptr' = Consumed(heap_ptr, z)
            /\ tables' = [tables EXCEPT ![u].rows =
                            Append(@, NewRow(Len(tables[u].columns), a))]
            /\ bytes' = NewBytes(c, a)
    BY <2>1, <2>2, <2>3 DEF parse_insert
  <2> QED
    BY <1>2, <1>3, <1>5, <1>7, <2>2, <2>4
<1>9. Placed(cells, at)
  <2>1. heap_ptr \in 0..HEAP_SIZE
    BY DEF IInv, Session
  <2>2. /\ at \in Seq(Nat) /\ Len(at) = Len(cells)
        /\ heap_ptr' \in 0..HEAP_SIZE /\ heap_ptr <= heap_ptr'
    BY <1>6, <1>7, <1>8, <2>1, AddressLemma
  <2>3. ASSUME NEW k \in 1..Len(cells)
        PROVE  /\ at[k] # Null => /\ HEAP_BASE + heap_ptr <= at[k]
                                  /\ at[k] + Size[cells[k]] <= HEAP_BASE + heap_ptr'
               /\ at[k] = Null => ~Fits(heap_ptr', Size[cells[k]])
               /\ \A l \in 1..Len(cells) :
                    k < l /\ at[k] # Null /\ at[l] # Null => at[k] + Size[cells[k]] <= at[l]
    <3>1. k \in 1..Len(sizes) /\ sizes[k] = Size[cells[k]] /\ cells[k] \in Strings
      BY <1>4, <1>6
    <3>2. sizes[k] # 0
      BY <3>1, SizeLemma
    <3>3. /\ at[k] # Null => /\ HEAP_BASE + heap_ptr <= at[k]
                             /\ at[k] + sizes[k] <= HEAP_BASE + heap_ptr'
          /\ at[k] = Null /\ sizes[k] # 0 => ~Fits(heap_ptr', sizes[k])
          /\ \A l \in 1..Len(sizes) :
               k < l /\ at[k] # Null /\ at[l] # Null => at[k] + sizes[k] <= at[l]
      BY <1>6, <1>7, <1>8, <2>1, <3>1, AddressLemma
    <3> QED
      BY <1>6, <3>1, <3>2, <3>3
  <2> QED
    BY <1>4, <2>2, <2>3 DEF Placed
<1> QED
  BY <1>2, <1>3, <1>4, <1>8, <1>9

\* The memory after an INSERT: the old strings, and each new one where it was put.
LEMMA BytesLemma ==
  ASSUME IInv, NEW cells, NEW at, Placed(cells, at), bytes' = NewBytes(cells, at)
  PROVE  /\ \A a \in DOMAIN bytes : /\ a \in DOMAIN bytes' /\ bytes'[a] = bytes[a]
                                    /\ a < HEAP_BASE + heap_ptr /\ a # Null
                                    /\ \A k \in 1..Len(cells) : at[k] # a
         /\ \A k \in 1..Len(cells) : at[k] # Null => at[k] \in DOMAIN bytes' /\ bytes'[at[k]] = cells[k]
         /\ \A a \in DOMAIN bytes' : a \in DOMAIN bytes \/ \E k \in 1..Len(cells) : a = at[k] /\ a # Null
         /\ \A k, l \in 1..Len(cells) : at[k] # Null /\ at[k] = at[l] => k = l
<1>1. /\ DOMAIN at = 1..Len(cells) /\ \A k \in 1..Len(cells) : at[k] \in Nat /\ cells[k] \in Strings
      /\ \A k \in 1..Len(cells) : Size[cells[k]] \in Nat /\ Size[cells[k]] # 0
      /\ Len(cells) \in Nat
  BY SizeLemma DEF Placed
<1>2. heap_ptr \in Nat /\ HEAP_BASE \in Nat /\ HEAP_BASE # 0 /\ DB_SIZE \in Nat
  BY HeapAssumption, SqliteAssumption DEF IInv, Session
<1>3. ASSUME NEW a \in DOMAIN bytes PROVE a < HEAP_BASE + heap_ptr /\ a # Null /\ a \in Nat
  <2>1. /\ a \in Nat /\ HEAP_BASE + DB_SIZE <= a /\ a + Size[bytes[a]] <= HEAP_BASE + heap_ptr
        /\ Size[bytes[a]] \in Nat /\ Size[bytes[a]] # 0
    BY SizeLemma DEF IInv, Memory
  <2> QED
    BY <1>2, <2>1 DEF Null
<1>4. ASSUME NEW a \in DOMAIN bytes, NEW k \in 1..Len(cells) PROVE at[k] # a
  <2>1. CASE at[k] = Null
    BY <1>3, <2>1
  <2>2. CASE at[k] # Null
    <3>1. HEAP_BASE + heap_ptr <= at[k] /\ at[k] \in Nat
      BY <1>1, <2>2 DEF Placed
    <3> QED
      BY <1>2, <1>3, <3>1
  <2> QED
    BY <2>1, <2>2
<1>5. ASSUME NEW k \in 1..Len(cells), NEW l \in 1..Len(cells), at[k] # Null, at[k] = at[l] PROVE k = l
  <2>1. \A m, n \in 1..Len(cells) : m < n /\ at[m] # Null /\ at[n] # Null => at[m] + Size[cells[m]] <= at[n]
    BY DEF Placed
  <2>2. ASSUME NEW m \in 1..Len(cells), NEW n \in 1..Len(cells), m < n, at[m] # Null, at[n] # Null
        PROVE  at[m] # at[n]
    <3>1. at[m] + Size[cells[m]] <= at[n]
      BY <2>1, <2>2
    <3>2. at[m] \in Nat /\ at[n] \in Nat /\ Size[cells[m]] \in Nat /\ Size[cells[m]] # 0
      BY <1>1
    <3> QED
      BY <3>1, <3>2
  <2>3. k \in Nat /\ l \in Nat
    OBVIOUS
  <2> QED
    BY <1>5, <2>2, <2>3
<1>6. DOMAIN bytes' = DOMAIN bytes \cup ({at[k] : k \in DOMAIN at} \ {Null})
  BY DEF NewBytes
<1>7. ASSUME NEW a \in DOMAIN bytes PROVE a \in DOMAIN bytes' /\ bytes'[a] = bytes[a]
  <2>1. ~\E k \in DOMAIN at : at[k] = a
    BY <1>1, <1>4
  <2> QED
    BY <1>6, <2>1 DEF NewBytes
<1>8. ASSUME NEW k \in 1..Len(cells), at[k] # Null
      PROVE  at[k] \in DOMAIN bytes' /\ bytes'[at[k]] = cells[k]
  <2>1. k \in DOMAIN at /\ at[k] \in DOMAIN bytes'
    BY <1>1, <1>6, <1>8
  <2>2. PICK m : m = CHOOSE x \in DOMAIN at : at[x] = at[k]
    OBVIOUS
  <2>3. m \in DOMAIN at /\ at[m] = at[k]
    BY <2>1, <2>2
  <2>4. m = k
    BY <1>1, <1>5, <1>8, <2>3
  <2>5. bytes'[at[k]] = cells[CHOOSE x \in DOMAIN at : at[x] = at[k]]
    BY <1>6, <2>1 DEF NewBytes
  <2> QED
    BY <2>1, <2>2, <2>4, <2>5
<1>9. \A a \in DOMAIN bytes' : a \in DOMAIN bytes \/ \E k \in 1..Len(cells) : a = at[k] /\ a # Null
  BY <1>1, <1>6
<1> QED
  BY <1>3, <1>4, <1>5, <1>7, <1>8, <1>9

\* The tables after an INSERT.
LEMMA RowsLemma ==
  ASSUME IInv, NEW t \in DOMAIN tables, NEW row \in Rows(Len(tables[t].columns)),
         tables' = [tables EXCEPT ![t].rows = Append(@, row)]
  PROVE  /\ tables' \in Seq(Tables) /\ Len(tables') = Len(tables) /\ DOMAIN tables' = DOMAIN tables
         /\ \A u \in DOMAIN tables : /\ tables'[u].name = tables[u].name
                                     /\ tables'[u].columns = tables[u].columns
                                     /\ u # t => tables'[u] = tables[u]
         /\ Len(tables'[t].rows) = Len(tables[t].rows) + 1
         /\ DOMAIN tables'[t].rows = 1..(Len(tables[t].rows) + 1)
         /\ \A r \in 1..Len(tables[t].rows) : tables'[t].rows[r] = tables[t].rows[r]
         /\ tables'[t].rows[Len(tables[t].rows) + 1] = row
<1> DEFINE Any == UNION {Rows(w) : w \in Nat}
<1>1. /\ tables \in Seq(Tables) /\ tables[t] \in Tables /\ tables[t].rows \in Seq(Any)
      /\ Len(tables[t].columns) \in Nat
  BY TableLemma DEF IInv, Shape
<1>2. row \in Any
  BY <1>1
<1> HIDE DEF Any
<1>3. PICK new : new = [tables[t] EXCEPT !.rows = Append(@, row)]
  OBVIOUS
<1>4. PICK rows : rows = Append(tables[t].rows, row)
  OBVIOUS
<1>5. /\ rows \in Seq(Any) /\ Len(rows) = Len(tables[t].rows) + 1
      /\ DOMAIN rows = 1..(Len(tables[t].rows) + 1)
      /\ \A r \in 1..Len(tables[t].rows) : rows[r] = tables[t].rows[r]
      /\ rows[Len(tables[t].rows) + 1] = row
  BY <1>1, <1>2, <1>4
<1>6. /\ new \in Tables /\ new.rows = rows
      /\ new.name = tables[t].name /\ new.columns = tables[t].columns
  BY <1>1, <1>3, <1>4, <1>5 DEF Tables, Any
<1>7. tables' = [tables EXCEPT ![t] = new]
  BY <1>1, <1>3
<1>8. /\ tables' \in Seq(Tables) /\ Len(tables') = Len(tables) /\ DOMAIN tables' = DOMAIN tables
      /\ tables'[t] = new /\ \A u \in DOMAIN tables : u # t => tables'[u] = tables[u]
  <2>1. PICK N \in Nat : N = Len(tables) /\ DOMAIN tables = 1..N /\ tables \in [1..N -> Tables]
    BY <1>1
  <2>2. t \in 1..N /\ tables' \in [1..N -> Tables]
    BY <1>6, <1>7, <2>1
  <2>3. tables' \in Seq(Tables) /\ Len(tables') = N
    BY <2>1, <2>2
  <2> QED
    BY <1>7, <2>1, <2>2, <2>3
<1> QED
  BY <1>5, <1>6, <1>8

LEMMA NewRowLemma ==
  ASSUME NEW width \in Nat, NEW at \in Seq(Nat)
  PROVE  NewRow(width, at) \in Rows(width)
<1>1. \A k \in 1..width : k <= Len(at) => at[k] \in Nat
  OBVIOUS
<1> QED
  BY <1>1 DEF NewRow, Rows, Null

LEMMA InsertShape ==
  ASSUME IInv, NEW t \in DOMAIN tables, NEW row \in Rows(Len(tables[t].columns)),
         tables' = [tables EXCEPT ![t].rows = Append(@, row)], ~TableFull(t)
  PROVE  Shape'
<1>1. /\ tables' \in Seq(Tables) /\ Len(tables') = Len(tables) /\ DOMAIN tables' = DOMAIN tables
      /\ \A u \in DOMAIN tables : /\ tables'[u].name = tables[u].name
                                  /\ tables'[u].columns = tables[u].columns
                                  /\ u # t => tables'[u] = tables[u]
  BY RowsLemma
<1>2. Len(tables[t].rows) + 1 <= MAX_ROWS
  BY TableLemma, SqliteAssumption DEF TableFull
<1>3. ASSUME NEW u \in DOMAIN tables PROVE IsTable(tables'[u])
  <2>1. tables'[u] \in Tables /\ IsTable(tables[u])
    <3>1. u \in DOMAIN tables'
      BY <1>1
    <3>2. tables'[u] \in Tables
      BY <1>1, <3>1
    <3> QED
      BY <3>2, TableLemma
  <2>2. CASE u # t
    BY <1>1, <2>1, <2>2
  <2>3. CASE u = t
    <3>1. Len(tables'[t].rows) <= MAX_ROWS
      BY <1>2, RowsLemma
    <3>2. Len(tables'[t].columns) = Len(tables[t].columns)
      BY <1>1
    <3>3. \A r \in DOMAIN tables'[t].rows : tables'[t].rows[r] \in Rows(Len(tables[t].columns))
      <4>1. ASSUME NEW r \in 1..(Len(tables[t].rows) + 1)
            PROVE  tables'[t].rows[r] \in Rows(Len(tables[t].columns))
        <5>1. CASE r = Len(tables[t].rows) + 1
          <6>1. tables'[t].rows[Len(tables[t].rows) + 1] = row
            BY RowsLemma
          <6> QED
            BY <5>1, <6>1
        <5>2. CASE r # Len(tables[t].rows) + 1
          <6>1. r \in 1..Len(tables[t].rows) /\ r \in DOMAIN tables[t].rows
            BY <5>2, TableLemma
          <6>2. tables'[t].rows[r] = tables[t].rows[r]
            BY <6>1, RowsLemma
          <6> QED
            BY <2>1, <2>3, <6>1, <6>2 DEF IsTable
        <5> QED
          BY <5>1, <5>2
      <4>2. DOMAIN tables'[t].rows = 1..(Len(tables[t].rows) + 1)
        BY RowsLemma
      <4> QED
        BY <4>1, <4>2
    <3> QED
      BY <2>1, <2>3, <3>1, <3>2, <3>3 DEF IsTable
  <2> QED
    BY <2>2, <2>3
<1>4. ASSUME NEW u \in DOMAIN tables', NEW v \in DOMAIN tables', tables'[u].name = tables'[v].name
      PROVE  u = v
  <2>1. u \in DOMAIN tables /\ v \in DOMAIN tables /\ tables[u].name = tables[v].name
    BY <1>1, <1>4
  <2> QED
    BY <2>1 DEF IInv, Shape
<1>5. Len(tables') <= MAX_TABLES /\ tables' \in Seq(Tables)
  BY <1>1 DEF IInv, Shape
<1> QED
  BY <1>1, <1>3, <1>4, <1>5 DEF Shape

LEMMA InsertMemory ==
  ASSUME IInv, current_db # Null, NEW cells, NEW at, Placed(cells, at),
         bytes' = NewBytes(cells, at)
  PROVE  Memory'
<1>1. /\ heap_ptr \in Nat /\ heap_ptr' \in Nat /\ heap_ptr <= heap_ptr'
      /\ HEAP_BASE \in Nat /\ DB_SIZE \in Nat /\ DB_SIZE <= heap_ptr
  BY HeapAssumption, SqliteAssumption DEF IInv, Session, Placed
<1>2. PICK n \in Nat : n = Len(cells)
  BY DEF Placed
<1>3. \A k \in 1..n : /\ at[k] \in Nat /\ cells[k] \in Strings
                      /\ Size[cells[k]] \in Nat /\ Size[cells[k]] # 0
  BY <1>2, SizeLemma DEF Placed
<1>4. \A k, l \in 1..n : k < l /\ at[k] # Null /\ at[l] # Null => at[k] + Size[cells[k]] <= at[l]
  BY <1>2 DEF Placed
<1>5. \A k \in 1..n : at[k] # Null => /\ HEAP_BASE + heap_ptr <= at[k]
                                      /\ at[k] + Size[cells[k]] <= HEAP_BASE + heap_ptr'
  BY <1>2 DEF Placed
<1>6. \A a \in DOMAIN bytes : /\ bytes'[a] = bytes[a] /\ a \in Nat
                              /\ bytes[a] \in Strings /\ Size[bytes[a]] \in Nat
                              /\ HEAP_BASE + DB_SIZE <= a
                              /\ a + Size[bytes[a]] <= HEAP_BASE + heap_ptr
                              /\ \A b \in DOMAIN bytes : a < b => a + Size[bytes[a]] <= b
  BY BytesLemma, SizeLemma DEF IInv, Memory
<1>7. \A k \in 1..n : at[k] # Null => bytes'[at[k]] = cells[k]
  BY <1>2, BytesLemma
<1>8. \A a \in DOMAIN bytes' : a \in DOMAIN bytes \/ \E k \in 1..n : a = at[k] /\ a # Null
  BY <1>2, BytesLemma
<1>9. ASSUME NEW a \in DOMAIN bytes'
      PROVE  /\ a \in Nat /\ bytes'[a] \in Strings /\ HEAP_BASE + DB_SIZE <= a
             /\ a + Size[bytes'[a]] <= HEAP_BASE + heap_ptr'
  <2>1. CASE a \in DOMAIN bytes
    BY <1>1, <1>6, <2>1
  <2>2. ASSUME NEW k \in 1..n, a = at[k], a # Null
        PROVE  /\ a \in Nat /\ bytes'[a] \in Strings /\ HEAP_BASE + DB_SIZE <= a
               /\ a + Size[bytes'[a]] <= HEAP_BASE + heap_ptr'
    <3>1. /\ bytes'[a] = cells[k] /\ a \in Nat /\ cells[k] \in Strings
          /\ HEAP_BASE + heap_ptr <= a /\ a + Size[cells[k]] <= HEAP_BASE + heap_ptr'
      BY <1>3, <1>5, <1>7, <2>2
    <3> QED
      BY <1>1, <3>1
  <2> QED
    BY <1>8, <2>1, <2>2
<1>10. ASSUME NEW a \in DOMAIN bytes', NEW b \in DOMAIN bytes', a < b
       PROVE  a + Size[bytes'[a]] <= b
  <2>1. CASE a \in DOMAIN bytes /\ b \in DOMAIN bytes
    BY <1>6, <1>10, <2>1
  <2>2. ASSUME NEW k \in 1..n, b = at[k], b # Null, a \in DOMAIN bytes
        PROVE  a + Size[bytes'[a]] <= b
    <3>1. /\ a \in Nat /\ Size[bytes[a]] \in Nat /\ b \in Nat /\ bytes'[a] = bytes[a]
          /\ a + Size[bytes[a]] <= HEAP_BASE + heap_ptr /\ HEAP_BASE + heap_ptr <= b
      BY <1>3, <1>5, <1>6, <2>2
    <3> QED
      BY <1>1, <3>1
  <2>3. ASSUME NEW k \in 1..n, a = at[k], a # Null, b \in DOMAIN bytes
        PROVE  FALSE
    <3>1. /\ b \in Nat /\ Size[bytes[b]] \in Nat /\ a \in Nat
          /\ b + Size[bytes[b]] <= HEAP_BASE + heap_ptr /\ HEAP_BASE + heap_ptr <= a
      BY <1>3, <1>5, <1>6, <2>3
    <3> QED
      BY <1>1, <1>10, <3>1
  <2>4. ASSUME NEW k \in 1..n, NEW l \in 1..n, a = at[k], b = at[l], a # Null, b # Null
        PROVE  a + Size[bytes'[a]] <= b
    <3>1. bytes'[a] = cells[k] /\ a \in Nat /\ b \in Nat
      BY <1>3, <1>7, <2>4
    <3>2. CASE k < l
      BY <1>4, <2>4, <3>1, <3>2
    <3>3. CASE k = l
      BY <1>10, <2>4, <3>1, <3>3
    <3>4. CASE l < k
      <4>1. b + Size[cells[l]] <= a /\ Size[cells[l]] \in Nat
        BY <1>3, <1>4, <2>4, <3>4
      <4> QED
        BY <1>10, <3>1, <4>1
    <3>5. k \in Nat /\ l \in Nat
      OBVIOUS
    <3> QED
      BY <3>2, <3>3, <3>4, <3>5
  <2> QED
    BY <1>8, <2>1, <2>2, <2>3, <2>4
<1> QED
  BY <1>9, <1>10 DEF Memory

LEMMA InsertOwners ==
  ASSUME IInv, NEW t \in DOMAIN tables, NEW cells, NEW at, Placed(cells, at),
         Len(cells) <= Len(tables[t].columns),
         tables' = [tables EXCEPT ![t].rows = Append(@, NewRow(Len(tables[t].columns), at))],
         bytes' = NewBytes(cells, at)
  PROVE  Owners'
<1>1. PICK R \in Nat, width \in Nat : R = Len(tables[t].rows) /\ width = Len(tables[t].columns)
  BY TableLemma
<1>2. PICK row \in Rows(width) : row = NewRow(width, at)
  BY NewRowLemma DEF Placed
<1>3. /\ DOMAIN tables' = DOMAIN tables
      /\ \A u \in DOMAIN tables : /\ tables'[u].columns = tables[u].columns
                                  /\ u # t => tables'[u] = tables[u]
      /\ DOMAIN tables'[t].rows = 1..(R + 1)
      /\ \A r \in 1..R : tables'[t].rows[r] = tables[t].rows[r]
      /\ tables'[t].rows[R + 1] = row
  <2>1. /\ row \in Rows(Len(tables[t].columns))
        /\ tables' = [tables EXCEPT ![t].rows = Append(@, row)]
    BY <1>1, <1>2
  <2> QED
    BY <1>1, <2>1, RowsLemma
<1>4. PICK n \in Nat : n = Len(cells) /\ n = Len(at) /\ n <= width
  BY <1>1 DEF Placed
<1>5. \A k \in 1..width : row[k] = IF k <= n THEN at[k] ELSE Null
  BY <1>2, <1>4 DEF NewRow
<1>6. ASSUME NEW x \in Live'
      PROVE  \/ x \in Live /\ At(x)' = At(x)
             \/ \E k \in 1..n : x = <<t, R + 1, k>> /\ At(x)' = at[k] /\ at[k] # Null
  <2>1. PICK u \in DOMAIN tables' : \E r \in DOMAIN tables'[u].rows : \E c \in DOMAIN tables'[u].columns :
          x = <<u, r, c>> /\ tables'[u].rows[r][c] # Null
    BY LiveLemmaAfterwards
  <2>2. PICK r \in DOMAIN tables'[u].rows, c \in DOMAIN tables'[u].columns :
          x = <<u, r, c>> /\ tables'[u].rows[r][c] # Null
    BY <2>1
  <2>3. At(x)' = tables'[u].rows[r][c] /\ At(x) = tables[u].rows[r][c]
    BY <2>2 DEF At
  <2>4. u \in DOMAIN tables /\ c \in DOMAIN tables[u].columns
    BY <1>3, <2>2
  <2>5. CASE u # t
    <3>1. r \in DOMAIN tables[u].rows /\ tables'[u].rows[r][c] = tables[u].rows[r][c]
      BY <1>3, <2>2, <2>4, <2>5
    <3> QED
      BY <2>2, <2>3, <2>4, <3>1, LiveLemma
  <2>6. CASE u = t /\ r # R + 1
    <3>1. r \in 1..R
      <4>1. r \in 1..(R + 1)
        BY <1>3, <2>2, <2>6
      <4> QED
        BY <2>6, <4>1
    <3>2. r \in DOMAIN tables[u].rows /\ tables'[u].rows[r][c] = tables[u].rows[r][c]
      <4>1. DOMAIN tables[t].rows = 1..R
        BY <1>1, TableLemma
      <4>2. tables'[t].rows[r] = tables[t].rows[r]
        BY <1>3, <3>1
      <4> QED
        BY <2>6, <3>1, <4>1, <4>2
    <3> QED
      BY <2>2, <2>3, <2>4, <3>2, LiveLemma
  <2>7. CASE u = t /\ r = R + 1
    <3>1. c \in 1..width
      BY <1>1, <2>4, <2>7, TableLemma
    <3>2. tables'[u].rows[r][c] = row[c]
      BY <1>3, <2>7
    <3>3. c \in 1..n /\ row[c] = at[c]
      BY <1>5, <2>2, <3>1, <3>2
    <3>4. At(x)' = at[c] /\ at[c] # Null
      BY <2>2, <2>3, <3>2, <3>3
    <3>5. x = <<t, R + 1, c>>
      BY <2>2, <2>7
    <3> QED
      BY <3>3, <3>4, <3>5
  <2> QED
    BY <2>5, <2>6, <2>7
<1>7. \A x \in Live : /\ At(x) \in DOMAIN bytes
                      /\ \A y \in Live : At(y) = At(x) => y = x
  BY DEF IInv, Owners
<1>8. /\ \A a \in DOMAIN bytes : a \in DOMAIN bytes' /\ \A k \in 1..n : at[k] # a
      /\ \A k \in 1..n : at[k] # Null => at[k] \in DOMAIN bytes'
      /\ \A k, l \in 1..n : at[k] # Null /\ at[k] = at[l] => k = l
  <2>1. /\ \A a \in DOMAIN bytes : a \in DOMAIN bytes' /\ \A k \in 1..Len(cells) : at[k] # a
        /\ \A k \in 1..Len(cells) : at[k] # Null => at[k] \in DOMAIN bytes'
    BY BytesLemma
  <2>2. \A k, l \in 1..Len(cells) : at[k] # Null /\ at[k] = at[l] => k = l
    BY BytesLemma
  <2> QED
    BY <1>4, <2>1, <2>2
<1>9. ASSUME NEW x \in Live' PROVE At(x)' \in DOMAIN bytes'
  BY <1>6, <1>7, <1>8
<1>10. ASSUME NEW x \in Live', NEW y \in Live', At(y)' = At(x)' PROVE y = x
  <2>1. CASE x \in Live /\ At(x)' = At(x)
    BY <1>6, <1>7, <1>8, <1>10, <2>1
  <2>2. CASE \E k \in 1..n : x = <<t, R + 1, k>> /\ At(x)' = at[k] /\ at[k] # Null
    <3>1. PICK k \in 1..n : x = <<t, R + 1, k>> /\ At(x)' = at[k] /\ at[k] # Null
      BY <2>2
    <3>2. CASE y \in Live /\ At(y)' = At(y)
      BY <1>7, <1>8, <1>10, <3>1, <3>2
    <3>3. CASE \E l \in 1..n : y = <<t, R + 1, l>> /\ At(y)' = at[l] /\ at[l] # Null
      BY <1>8, <1>10, <3>1, <3>3
    <3> QED
      BY <1>6, <3>2, <3>3
  <2> QED
    BY <1>6, <2>1, <2>2
<1> QED
  BY <1>9, <1>10 DEF Owners

LEMMA InsertStep ==
  ASSUME IInv, NEW s \in Inserts, parse_insert(s), current_db # Null,
         UNCHANGED <<current_db, db_name>>
  PROVE  IInv'
<1>1. CASE find_table(s.table) = {}
  BY <1>1, FailStep DEF parse_insert
<1>2. CASE find_table(s.table) # {}
  <2>1. PICK t \in DOMAIN tables : tables[t].name = s.table
    BY <1>2 DEF find_table
  <2>2. find_table(s.table) = {t} /\ (CHOOSE x \in find_table(s.table) : TRUE) = t
    BY <2>1, TableLemma
  <2>3. CASE TableFull(t)
    BY <1>2, <2>2, <2>3, FailStep DEF parse_insert
  <2>4. CASE ~TableFull(t)
    <3>1. PICK cells, at :
            /\ Placed(cells, at) /\ Len(cells) <= Len(tables[t].columns)
            /\ tables' = [tables EXCEPT ![t].rows =
                            Append(@, NewRow(Len(tables[t].columns), at))]
            /\ bytes' = NewBytes(cells, at) /\ first_row' = first_row
      BY <2>1, <2>4, InsertLemma
    <3>2. PICK row \in Rows(Len(tables[t].columns)) : row = NewRow(Len(tables[t].columns), at)
      BY <3>1, NewRowLemma, TableLemma DEF Placed
    <3>3. Shape'
      BY <2>4, <3>1, <3>2, InsertShape
    <3>4. Memory'
      BY <3>1, InsertMemory
    <3>5. Owners'
      BY <3>1, InsertOwners
    <3>6. Session'
      BY <3>1, SessionLemma DEF Placed, IInv, Session
    <3> QED
      BY <3>3, <3>4, <3>5, <3>6 DEF IInv
  <2> QED
    BY <2>3, <2>4
<1> QED
  BY <1>1, <1>2

\* A SELECT refused after some copies were made.
LEMMA FailAfterLemma ==
  ASSUME IInv, NEW n \in Nat, FailAfter(n)
  PROVE  /\ tables' = tables /\ bytes' = bytes /\ first_row' = first_row /\ ret' = Error
         /\ heap_ptr' \in 0..HEAP_SIZE /\ heap_ptr <= heap_ptr'
<1>1. Times(n, TEXT) \in Seq(Nat)
  BY SqliteAssumption, TimesLemma
<1> QED
  BY <1>1, ConsumedLemma DEF FailAfter

LEMMA FailAfterStep ==
  ASSUME IInv, NEW n \in Nat, FailAfter(n), current_db # Null, UNCHANGED <<current_db, db_name>>
  PROVE  IInv'
<1>1. /\ tables' = tables /\ bytes' = bytes /\ first_row' = first_row
      /\ heap_ptr' \in 0..HEAP_SIZE /\ heap_ptr <= heap_ptr'
  BY FailAfterLemma
<1>2. Session' /\ heap_ptr' \in Nat
  BY <1>1, SessionLemma DEF IInv, Session
<1> QED
  BY <1>1, <1>2, MoveLemma DEF IInv

LEMMA ConcatLemma ==
  ASSUME NEW S, NEW s \in Seq(S), NEW u \in Seq(S)
  PROVE  s \o u \in Seq(S) /\ Len(s \o u) = Len(s) + Len(u)
OBVIOUS

\* What a SELECT asks of malloc: the arrays of the rows are equally large.
LEMMA SelectSizesLemma ==
  ASSUME NEW width \in Nat, NEW rows \in Nat
  PROVE  LET sizes == SelectSizes(width, rows)
         IN  /\ sizes \in Seq(Nat) /\ Len(sizes) = 1 + width + rows
             /\ \A k \in 1..rows : 1 + width + k \in 1..Len(sizes) /\ sizes[1 + width + k] = width * PTR
<1>1. PICK a \in Nat : a = width * PTR
  BY SqliteAssumption
<1>2. PICK names : names = Times(width, TEXT)
  OBVIOUS
<1>3. PICK arrays : arrays = Times(rows, a)
  OBVIOUS
<1>4. /\ names \in Seq(Nat) /\ Len(names) = width
      /\ arrays \in Seq(Nat) /\ Len(arrays) = rows /\ \A k \in 1..rows : arrays[k] = a
  BY <1>2, <1>3, TimesLemma, SqliteAssumption DEF Times
<1>5. PICK front : front = <<a>> \o names
  OBVIOUS
<1>6. front \in Seq(Nat) /\ Len(front) = 1 + width
  BY <1>4, <1>5
<1>7. PICK sizes : sizes = front \o arrays
  OBVIOUS
<1>8. sizes \in Seq(Nat) /\ Len(sizes) = 1 + width + rows
  <2>1. sizes \in Seq(Nat) /\ Len(sizes) = Len(front) + Len(arrays)
    BY <1>4, <1>6, <1>7, ConcatLemma
  <2> QED
    BY <1>4, <1>6, <2>1
<1>9. \A k \in 1..rows : 1 + width + k \in 1..Len(sizes) /\ sizes[1 + width + k] = a
  BY <1>4, <1>6, <1>7, <1>8
<1>10. sizes = SelectSizes(width, rows)
  BY <1>1, <1>2, <1>3, <1>5, <1>7 DEF SelectSizes
<1> QED
  BY <1>1, <1>8, <1>9, <1>10

\* What a SELECT * does to the state.
LEMMA SelectLemma ==
  ASSUME IInv, NEW s \in Selects, exec_select(s), s.star,
         NEW t \in DOMAIN tables, tables[t].name = s.table
  PROVE  LET rows == tables[t].rows
             width == Len(tables[t].columns)
             at == Addresses(heap_ptr, SelectSizes(width, Len(rows)))
         IN  /\ tables' = tables /\ bytes' = bytes /\ first_row' \in BOOLEAN
             /\ heap_ptr' = Consumed(heap_ptr, SelectSizes(width, Len(rows)))
             /\ heap_ptr' \in 0..HEAP_SIZE /\ heap_ptr <= heap_ptr'
             /\ ret' = Answer("ok", Shown(rows, [k \in DOMAIN rows |-> at[1 + width + k]]))
<1>1. find_table(s.table) = {t}
  BY TableLemma
<1>2. find_table(s.table) # {} /\ (CHOOSE x \in find_table(s.table) : TRUE) = t
  BY <1>1
<1>3. PICK rows, width, at :
        /\ rows = tables[t].rows /\ width = Len(tables[t].columns)
        /\ at = Addresses(heap_ptr, SelectSizes(width, Len(rows)))
  OBVIOUS
<1>4. /\ UNCHANGED <<tables, bytes>>
      /\ heap_ptr' = Consumed(heap_ptr, SelectSizes(width, Len(rows)))
      /\ first_row' = (first_row /\ at[1] = Null)
      /\ ret' = Answer("ok", Shown(rows, [k \in DOMAIN rows |-> at[1 + width + k]]))
  BY <1>2, <1>3 DEF exec_select
<1>5. SelectSizes(width, Len(rows)) \in Seq(Nat)
  BY <1>3, TableLemma, SelectSizesLemma
<1>6. heap_ptr' \in 0..HEAP_SIZE /\ heap_ptr <= heap_ptr'
  BY <1>4, <1>5, ConsumedLemma
<1>7. first_row' \in BOOLEAN
  BY <1>4
<1> QED
  BY <1>3, <1>4, <1>6, <1>7

LEMMA SelectStep ==
  ASSUME IInv, NEW s \in Selects, exec_select(s), current_db # Null,
         UNCHANGED <<current_db, db_name>>
  PROVE  IInv'
<1>1. CASE ~s.star
  BY <1>1, FailAfterStep DEF exec_select
<1>2. CASE s.star /\ find_table(s.table) = {}
  BY <1>2, FailStep DEF exec_select
<1>3. CASE s.star /\ find_table(s.table) # {}
  <2>1. PICK t \in DOMAIN tables : tables[t].name = s.table
    BY <1>3 DEF find_table
  <2>2. /\ tables' = tables /\ bytes' = bytes /\ first_row' \in BOOLEAN
        /\ heap_ptr' \in 0..HEAP_SIZE /\ heap_ptr <= heap_ptr'
    BY <1>3, <2>1, SelectLemma
  <2>3. Session' /\ heap_ptr' \in Nat
    BY <2>2, SessionLemma
  <2> QED
    BY <2>2, <2>3, MoveLemma DEF IInv
<1> QED
  BY <1>1, <1>2, <1>3

LEMMA UnsupportedStep ==
  ASSUME IInv, Unsupported, current_db # Null, UNCHANGED <<current_db, db_name>>
  PROVE  IInv'
<1>1. tables' = tables /\ bytes' = bytes /\ first_row' = first_row /\ heap_ptr' = Bump(heap_ptr, TEXT)
  BY DEF Unsupported
<1>2. heap_ptr' \in 0..HEAP_SIZE /\ heap_ptr <= heap_ptr'
  <2>1. heap_ptr \in 0..HEAP_SIZE /\ TEXT \in Nat
    BY SqliteAssumption DEF IInv, Session
  <2> QED
    BY <1>1, <2>1, MallocLemma
<1>3. Session' /\ heap_ptr' \in Nat
  BY <1>1, <1>2, SessionLemma DEF IInv, Session
<1> QED
  BY <1>1, <1>2, <1>3, MoveLemma DEF IInv

\* The statements by kind.
Bare == {"bare create", "bare insert"}
LEMMA StatementLemma ==
  ASSUME NEW s \in Statements, sqlite3_exec(s)
  PROVE  /\ Open /\ UNCHANGED <<current_db, db_name>>
         /\ \/ s.op = "create" /\ s \in Creates /\ parse_create_table(s)
            \/ s.op = "insert" /\ s \in Inserts /\ parse_insert(s)
            \/ s.op = "select" /\ s \in Selects /\ exec_select(s)
            \/ s.op = "other" /\ Unsupported
            \/ s.op = "bad select" /\ \E n \in Nat : FailAfter(n)
            \/ s.op = "bare create" /\ \E x \in Creates : parse_create_table(x)
            \/ s.op = "bare insert" /\ \E x \in Inserts : parse_insert(x)
            \/ s.op \in {"bare create", "endless"} /\ Hang
            \/ s.op \in {"bad create", "bad insert"} \cup Bare /\ Fail
<1>1. /\ s.op \in {"create", "insert", "select", "other", "bad create", "bad insert",
                   "bad select", "bare create", "bare insert", "endless"}
      /\ s.op = "create" => s \in Creates
      /\ s.op = "insert" => s \in Inserts
      /\ s.op = "select" => s \in Selects
  BY DEF Statements, Creates, Inserts, Selects
<1>2. /\ Open /\ UNCHANGED <<current_db, db_name>>
      /\ s.op = "create" => parse_create_table(s)
      /\ s.op = "insert" => parse_insert(s)
      /\ s.op = "select" => exec_select(s)
      /\ s.op = "other"  => Unsupported
      /\ s.op = "bad select" => \E n \in {0, 1} : FailAfter(n)
      /\ s.op = "bare create" => Fail \/ Hang \/ \E x \in Creates : parse_create_table(x)
      /\ s.op = "bare insert" => Fail \/ \E x \in Inserts : parse_insert(x)
      /\ s.op = "endless" => Hang
      /\ s.op \in {"bad create", "bad insert"} => Fail
  BY DEF sqlite3_exec
<1>3. (\E n \in {0, 1} : FailAfter(n)) => \E n \in Nat : FailAfter(n)
  OBVIOUS
<1> QED
  BY <1>1, <1>2, <1>3 DEF Bare

LEMMA ExecStep == ASSUME IInv, NEW s \in Statements, sqlite3_exec(s) PROVE IInv'
<1>1. current_db # Null /\ UNCHANGED <<current_db, db_name>>
  BY StatementLemma DEF Open
<1>2. CASE \E x \in Creates : parse_create_table(x)
  BY <1>1, <1>2, CreateStep
<1>3. CASE \E x \in Inserts : parse_insert(x)
  BY <1>1, <1>3, InsertStep
<1>4. CASE \E x \in Selects : exec_select(x)
  BY <1>1, <1>4, SelectStep
<1>5. CASE Unsupported
  BY <1>1, <1>5, UnsupportedStep
<1>6. CASE \E n \in Nat : FailAfter(n)
  BY <1>1, <1>6, FailAfterStep
<1>7. CASE Hang
  BY <1>1, <1>7, HangStep
<1>8. CASE Fail
  BY <1>1, <1>8, FailStep
<1> QED
  BY <1>2, <1>3, <1>4, <1>5, <1>6, <1>7, <1>8, StatementLemma

LEMMA StutterStep == ASSUME IInv, UNCHANGED vars PROVE IInv'
<1>1. Session' /\ heap_ptr \in Nat
  BY HeapAssumption DEF IInv, Session, vars
<1> QED
  BY <1>1, MoveLemma DEF vars, IInv

LEMMA Inductive == ASSUME IInv, [Next]_vars PROVE IInv'
<1>1. CASE Usage
  BY <1>1, UsageStep
<1>2. CASE \E d \in DbNames : sqlite3_open(d)
  BY <1>2, OpenStep
<1>3. CASE \E d \in DbNames, s \in Statements : OneShot(d, s)
  BY <1>3, OneShotStep
<1>4. CASE sqlite3_close
  BY <1>4, CloseStep
<1>5. CASE \E s \in Statements : sqlite3_exec(s)
  BY <1>5, ExecStep
<1>6. CASE Looping \/ UNCHANGED vars
  BY <1>6, StutterStep DEF Looping
<1> QED
  BY <1>1, <1>2, <1>3, <1>4, <1>5, <1>6 DEF Next

LEMMA Invariance == Spec => []IInv
<1>1. Init => IInv
  BY Initially
<1>2. IInv /\ [Next]_vars => IInv'
  BY Inductive
<1> QED
  BY <1>1, <1>2, PTL DEF Spec

----------------------------------------------------------------------------
\* No table has more columns or rows than its arrays have room for, every row
\* has a pointer for each column, and the open database is the first block of
\* the heap (sqlite3.cpp:20-48, :185-232).
THEOREM TypeCorrect == Spec => []TypeOK
<1>1. IInv => TypeOK
  <2> SUFFICES ASSUME IInv PROVE TypeOK
    OBVIOUS
  <2>1. Session /\ Shape /\ Memory
    BY DEF IInv
  <2>2. ASSUME NEW t \in DOMAIN tables
        PROVE  /\ tables[t].name \in TableNames
               /\ Len(tables[t].columns) <= MAX_COLUMNS /\ Len(tables[t].rows) <= MAX_ROWS
               /\ \A r \in DOMAIN tables[t].rows :
                    DOMAIN tables[t].rows[r] = DOMAIN tables[t].columns
    <3>1. IsTable(tables[t]) /\ DOMAIN tables[t].columns = 1..Len(tables[t].columns)
          /\ tables[t].name \in TableNames
      BY TableLemma
    <3>2. \A r \in DOMAIN tables[t].rows : DOMAIN tables[t].rows[r] = 1..Len(tables[t].columns)
      BY <3>1 DEF IsTable, Rows
    <3> QED
      BY <3>1, <3>2 DEF IsTable
  <2>3. \A a \in DOMAIN bytes : bytes[a] \in Stored \cup {Empty}
    BY <2>1 DEF Memory, Strings
  <2> QED
    BY <2>1, <2>2, <2>3 DEF TypeOK, Session, Shape
<1> QED
  BY <1>1, Invariance, PTL

\* However many statements allocate in between, and wherever in the middle of one
\* the heap is full, each cell that is not null points to a string of its own, in
\* memory that was handed out and behind the database block (sqlite3.cpp:224-225,
\* libc.cpp:500-507).
THEOREM CellsStayApart == Spec => []CellsApart
<1>1. IInv => CellsApart
  <2> SUFFICES ASSUME IInv, NEW x \in Live
               PROVE  /\ At(x) \in DOMAIN bytes
                      /\ Extent(At(x)) \subseteq (HEAP_BASE + DB_SIZE) .. (HEAP_BASE + heap_ptr - 1)
                      /\ \A y \in Live : y # x => Extent(At(x)) \cap Extent(At(y)) = {}
    BY DEF CellsApart
  <2>1. Memory /\ Owners /\ heap_ptr \in Nat /\ HEAP_BASE \in Nat /\ DB_SIZE \in Nat
    BY HeapAssumption, SqliteAssumption DEF IInv, Session
  <2>2. ASSUME NEW a \in DOMAIN bytes
        PROVE  /\ a \in Nat /\ Size[bytes[a]] \in Nat /\ Size[bytes[a]] # 0
               /\ HEAP_BASE + DB_SIZE <= a /\ a + Size[bytes[a]] <= HEAP_BASE + heap_ptr
               /\ \A b \in DOMAIN bytes : a < b => a + Size[bytes[a]] <= b
    BY <2>1, SizeLemma DEF Memory
  <2>3. At(x) \in DOMAIN bytes
    BY <2>1 DEF Owners
  <2>4. Extent(At(x)) \subseteq (HEAP_BASE + DB_SIZE) .. (HEAP_BASE + heap_ptr - 1)
    BY <2>1, <2>2, <2>3 DEF Extent
  <2>5. ASSUME NEW y \in Live, y # x PROVE Extent(At(x)) \cap Extent(At(y)) = {}
    <3>1. At(y) \in DOMAIN bytes /\ At(y) # At(x)
      BY <2>1, <2>5 DEF Owners
    <3>2. PICK a \in DOMAIN bytes, b \in DOMAIN bytes : a = At(x) /\ b = At(y) /\ a # b
      BY <2>3, <3>1
    <3>3. a + Size[bytes[a]] <= b \/ b + Size[bytes[b]] <= a
      BY <2>2, <3>2
    <3> QED
      BY <2>2, <3>2, <3>3 DEF Extent
  <2> QED
    BY <2>3, <2>4, <2>5
<1> QED
  BY <1>1, Invariance, PTL

----------------------------------------------------------------------------
\* The tables as relations.
LEMMA StoreEmpty == Store!Empty = Empty
BY Zenon DEF Empty, Store!Empty

\* Database takes Cardinality from the same module.
LEMMA StoreCardinality == \A S : Store!Cardinality(S) = Cardinality(S)
BY DEF Store!Cardinality, Cardinality

\* The relation that table t of ts stands for, with the strings m in memory.
RowIn(m, r) == [k \in DOMAIN r |-> IF r[k] = Null THEN Empty ELSE m[r[k]]]
Image(ts, m, t) == [width |-> Len(ts[t].columns),
                    rows  |-> [r \in DOMAIN ts[t].rows |-> RowIn(m, ts[t].rows[r])]]
RelationFact ==
  /\ DOMAIN Relation = UsedNames /\ Relation = [n \in UsedNames |-> Relation[n]]
  /\ \A t \in DOMAIN tables : tables[t].name \in UsedNames /\ Relation[tables[t].name] = Image(tables, bytes, t)
  /\ \A n : n \in UsedNames <=> \E t \in DOMAIN tables : tables[t].name = n

LEMMA RelationLemma == IInv => RelationFact
<1> SUFFICES ASSUME IInv PROVE RelationFact
  OBVIOUS
<1>1. DOMAIN Relation = UsedNames /\ Relation = [n \in UsedNames |-> Relation[n]]
  BY DEF Relation
<1>2. \A n : n \in UsedNames <=> \E t \in DOMAIN tables : tables[t].name = n
  BY DEF UsedNames
<1>3. ASSUME NEW t \in DOMAIN tables PROVE Relation[tables[t].name] = Image(tables, bytes, t)
  <2>1. find_table(tables[t].name) = {t}
    BY TableLemma
  <2>2. (CHOOSE x \in find_table(tables[t].name) : TRUE) = t
    BY <2>1
  <2>3. tables[t].name \in UsedNames
    BY <1>2
  <2>4. \A r : Row(r) = RowIn(bytes, r)
    BY DEF Row, RowIn, Read
  <2>5. Relation[tables[t].name] =
          [width |-> Len(tables[t].columns),
           rows  |-> [r \in DOMAIN tables[t].rows |-> Row(tables[t].rows[r])]]
    <3> DEFINE Of(u) == [width |-> Len(tables[u].columns),
                         rows  |-> [r \in DOMAIN tables[u].rows |-> Row(tables[u].rows[r])]]
    <3>1. Relation = [n \in UsedNames |-> Of(CHOOSE x \in find_table(n) : TRUE)]
      BY DEF Relation
    <3> HIDE DEF Of
    <3>2. Relation[tables[t].name] = Of(CHOOSE x \in find_table(tables[t].name) : TRUE)
      BY <2>3, <3>1
    <3>3. Relation[tables[t].name] = Of(t)
      BY <2>2, <3>2
    <3> QED
      BY <3>3 DEF Of
  <2>6. [r \in DOMAIN tables[t].rows |-> Row(tables[t].rows[r])]
          = [r \in DOMAIN tables[t].rows |-> RowIn(bytes, tables[t].rows[r])]
    BY <2>4
  <2> QED
    BY <2>5, <2>6 DEF Image
<1> QED
  BY <1>1, <1>2, <1>3 DEF RelationFact

LEMMA RelationAfter == IInv' => RelationFact'
BY RelationLemma, PTL

\* No table, no relation.
NoRelationFact == tables = << >> => Relation = << >>
LEMMA NoRelation == NoRelationFact
<1> SUFFICES ASSUME tables = << >> PROVE Relation = << >>
  BY DEF NoRelationFact
<1>1. UsedNames = {}
  BY DEF UsedNames
<1>2. DOMAIN Relation = {} /\ Relation = [n \in {} |-> Relation[n]]
  BY <1>1 DEF Relation
<1> QED
  BY <1>2

LEMMA NoRelationAfter == NoRelationFact'
BY NoRelation, PTL

\* Steps that keep tables and strings keep the relations.
LEMMA SameRelation == ASSUME tables' = tables, bytes' = bytes PROVE Relation' = Relation
BY DEF Relation, UsedNames, find_table, Row, Read

\* A session that waits for a statement.
LEMMA ReadyLemma == ASSUME Open PROVE current_db # Null /\ Store!Ready
BY DEF Open, Never, Answer, Store!Ready, Store!Never, Store!Answer

\* Once there is no room for a value or a row's array there is none afterwards.
LEMMA ConsumeLemma ==
  ASSUME IInv, current_db # Null, current_db' = current_db,
         heap_ptr' \in 0..HEAP_SIZE, heap_ptr <= heap_ptr'
  PROVE  Store!Consume
<1>1. heap_ptr \in Nat /\ heap_ptr' \in Nat /\ HEAP_SIZE \in Nat
  BY HeapAssumption DEF IInv, Session
<1>2. ASSUME NEW size \in Nat, ~Fits(heap_ptr, size) PROVE ~Fits(heap_ptr', size)
  BY <1>1, <1>2, FitsLemma
<1>3. \A v \in Stored : Size[v] \in Nat
  BY SizeLemma DEF Strings
<1>4. \A w \in 1..MAX_COLUMNS : w * PTR \in Nat
  BY SqliteAssumption
<1>5. Full => Full'
  BY <1>2, <1>3, <1>4 DEF Full
<1>6. Full \in BOOLEAN /\ Full' \in BOOLEAN
  BY DEF Full
<1> QED
  BY <1>5, <1>6, Zenon DEF Store!Consume

LEMMA RefuseLemma ==
  ASSUME IInv, Open, current_db' = current_db, tables' = tables, bytes' = bytes,
         heap_ptr' \in 0..HEAP_SIZE, heap_ptr <= heap_ptr', ret' = Error
  PROVE  Refused /\ Store!Refuse
<1>1. Store!Consume /\ Relation' = Relation /\ Store!Ready
  BY ConsumeLemma, SameRelation, ReadyLemma
<1> QED
  BY <1>1 DEF Refused, Store!Refuse, Store!Error, Store!Answer, Error, Answer

LEMMA FailRefuses ==
  ASSUME IInv, Open, current_db' = current_db, Fail
  PROVE  Refused /\ Store!Refuse
<1>1. heap_ptr' = heap_ptr /\ heap_ptr \in 0..HEAP_SIZE /\ heap_ptr \in Int
  BY HeapAssumption DEF Fail, IInv, Session
<1> QED
  BY <1>1, RefuseLemma DEF Fail

LEMMA HangImplements ==
  ASSUME IInv, Open, current_db' = current_db, Hang
  PROVE  Store!Hang
<1>1. heap_ptr' = heap_ptr /\ heap_ptr \in 0..HEAP_SIZE /\ heap_ptr \in Int
  BY HeapAssumption DEF Hang, IInv, Session
<1>2. Store!Consume /\ Relation' = Relation /\ Store!Ready
  BY <1>1, ConsumeLemma, SameRelation, ReadyLemma DEF Hang
<1> QED
  BY <1>2 DEF Hang, Store!Hang, Store!Never, Store!Answer, Never, Answer

\* There are as many relations as tables.
LEMMA CardinalityLemma == ASSUME IInv PROVE Cardinality(UsedNames) = Len(tables) /\ Len(tables) \in Nat
<1> DEFINE n == Len(tables)
           f == [t \in 1..n |-> tables[t].name]
<1>1. n \in Nat /\ DOMAIN tables = 1..n
  BY DEF IInv, Shape
<1>2. \A t, u \in 1..n : tables[t].name = tables[u].name => t = u
  BY <1>1 DEF IInv, Shape
<1>3. UsedNames = {tables[t].name : t \in 1..n}
  BY <1>1 DEF UsedNames
<1> HIDE DEF n
<1>4. f \in Bijection(1..n, UsedNames)
  BY <1>2, <1>3 DEF Bijection, Injection, Surjection, IsInjective
<1>5. ExistsBijection(1..n, UsedNames)
  BY <1>4 DEF ExistsBijection
<1> QED
  BY <1>1, <1>5, FS_CountingElements DEF n

----------------------------------------------------------------------------
\* The steps outside a session.
LEMMA StartsEmpty == ASSUME Init PROVE Store!DatabaseInit
<1>1. current_db = Null /\ Relation = << >> /\ ret = OK /\ Full = FALSE
  BY NoRelation DEF Init, NoRelationFact, Full
<1> QED
  BY <1>1 DEF Store!DatabaseInit, Store!OK, Store!Answer, OK, Answer

LEMMA UsageImplements == ASSUME IInv, Usage PROVE UNCHANGED Store!databaseVars
<1>1. current_db = Null /\ current_db' = Null /\ tables' = tables /\ bytes' = bytes /\ ret' = ret
  BY DEF Usage
<1>2. Full = FALSE /\ Full' = FALSE
  BY <1>1 DEF Full
<1> QED
  BY <1>1, <1>2, SameRelation DEF Store!databaseVars

LEMMA StutterImplements == ASSUME UNCHANGED vars PROVE UNCHANGED Store!databaseVars
<1>1. /\ heap_ptr' = heap_ptr /\ current_db' = current_db /\ tables' = tables
      /\ bytes' = bytes /\ ret' = ret
  BY DEF vars
<1>2. Full' = Full
  BY <1>1 DEF Full
<1> QED
  BY <1>1, <1>2, SameRelation DEF Store!databaseVars

LEMMA StartLemma ==
  ASSUME current_db = Null, tables' = << >>,
         ret' \in IF current_db' = Null THEN {Error} ELSE {OK, Never}
  PROVE  Store!Start
<1>1. Relation' = << >>
  BY NoRelationAfter DEF NoRelationFact
<1>2. Full' \in BOOLEAN /\ (Full' => current_db' # Null)
  BY DEF Full
<1>3. Full' \in {FALSE, current_db' # Null}
  BY <1>2, Zenon
<1>4. ret' \in IF current_db' # Null THEN {Store!OK, Store!Never} ELSE {Store!Error}
  BY DEF Store!OK, Store!Never, Store!Error, Store!Answer, OK, Never, Error, Answer
<1>5. (current_db' # Null) \in BOOLEAN
  OBVIOUS
<1> QED
  BY <1>1, <1>3, <1>4, <1>5, Zenon DEF Store!Start

LEMMA OpenImplements == ASSUME NEW d, sqlite3_open(d) PROVE Store!Start
<1>1. current_db = Null /\ tables' = << >> /\ ret' = IF current_db' = Null THEN Error ELSE OK
  BY DEF sqlite3_open
<1> QED
  BY <1>1, StartLemma

LEMMA OneShotImplements == ASSUME IInv, NEW d, NEW s, OneShot(d, s) PROVE Store!Start
<1>1. tables' = << >> /\ current_db = Null
  BY DEF OneShot, IInv, Session
<1>2. \/ current_db' # Null /\ ret' = Never
      \/ current_db' = Null /\ ret' = Error
  BY DEF OneShot
<1> QED
  BY <1>1, <1>2, StartLemma

LEMMA CloseImplements == ASSUME sqlite3_close PROVE Store!Leave
<1>1. Open /\ current_db' = Null /\ tables' = << >> /\ ret' = OK
  BY DEF sqlite3_close
<1>2. Relation' = << >> /\ Store!Ready
  BY <1>1, NoRelationAfter, ReadyLemma DEF NoRelationFact
<1>3. ~Full' /\ Full' \in BOOLEAN
  BY <1>1 DEF Full
<1> QED
  BY <1>1, <1>2, <1>3 DEF Store!Leave, Store!OK, Store!Answer, OK, Answer

\* The names in use are the relations known.
LEMMA KnownLemma ==
  ASSUME IInv, NEW n
  PROVE  /\ Store!Known = UsedNames
         /\ n \in Store!Known <=> find_table(n) # {}
<1>1. RelationFact
  BY RelationLemma
<1> QED
  BY <1>1 DEF RelationFact, Store!Known, find_table

----------------------------------------------------------------------------
\* CREATE TABLE adds an empty relation.
LEMMA CreateImplements ==
  ASSUME IInv, IInv', NEW s \in Creates, parse_create_table(s), Open, current_db' = current_db
  PROVE  /\ Creating(s)
         /\ Store!CreateTable(s.table, s.columns, s.listed) \/ Store!Refuse
<1>1. Len(tables) \in Nat /\ MAX_TABLES \in Nat /\ tables \in Seq(Tables)
      /\ MAX_COLUMNS \in Nat /\ s.columns \in Nat
  <2>1. s.columns \in Nat
    BY SqliteAssumption DEF Creates
  <2> QED
    BY <2>1, SqliteAssumption DEF IInv, Shape
<1>2. /\ Store!Known = UsedNames /\ Store!Cardinality(Store!Known) = Len(tables)
      /\ s.table \in Store!Known <=> find_table(s.table) # {}
  BY KnownLemma, CardinalityLemma, StoreCardinality
<1>3. CASE find_table(s.table) # {} \/ Len(tables) >= MAX_TABLES
  <2>1. Refused /\ Store!Refuse
    BY <1>3, FailRefuses DEF parse_create_table
  <2>2. ~Store!CanCreate(s.table)
    BY <1>1, <1>2, <1>3 DEF Store!CanCreate
  <2> QED
    BY <2>1, <2>2 DEF Creating
<1>4. CASE find_table(s.table) = {} /\ Len(tables) < MAX_TABLES
  <2>1. PICK new : Added(s, new) /\ tables' = Append(tables, new)
    BY <1>4, CreateLemma
  <2>2. /\ bytes' = bytes /\ heap_ptr' \in 0..HEAP_SIZE /\ heap_ptr <= heap_ptr'
        /\ ret' = IF s.listed THEN OK ELSE Error
    BY <1>4, CreateLemma
  <2>3. Store!Consume /\ Store!Ready
    BY <2>2, ConsumeLemma, ReadyLemma
  <2>4. PICK N \in Nat : N = Len(tables)
    BY <1>1
  <2>5. /\ DOMAIN tables = 1..N /\ DOMAIN tables' = 1..(N + 1) /\ tables'[N + 1] = new
        /\ \A t \in 1..N : tables'[t] = tables[t]
    BY <1>1, <2>1, <2>4 DEF Added
  <2>6. RelationFact /\ RelationFact'
    BY RelationLemma, RelationAfter
  <2>7. \A n : n \in UsedNames <=> \E t \in 1..N : tables[t].name = n
    BY <2>5, <2>6 DEF RelationFact
  <2>8. \A n : n \in UsedNames' <=> \E t \in 1..(N + 1) : tables'[t].name = n
    BY <2>5, <2>6 DEF RelationFact
  <2>9. new.name = s.table /\ new.rows = << >>
        /\ Len(new.columns) = IF s.listed THEN Smaller(s.columns, MAX_COLUMNS) ELSE 0
    BY <2>1 DEF Added
  <2>10. \A t \in 1..(N + 1) : t \in 1..N \/ t = N + 1
    BY <2>4
  <2>11. N + 1 \in 1..(N + 1) /\ \A t \in 1..N : t \in 1..(N + 1)
    BY <2>4
  <2>12. UsedNames' = UsedNames \cup {s.table}
    <3>1. ASSUME NEW n \in UsedNames' PROVE n \in UsedNames \cup {s.table}
      BY <2>5, <2>7, <2>8, <2>9, <2>10
    <3>2. ASSUME NEW n \in UsedNames \cup {s.table} PROVE n \in UsedNames'
      BY <2>5, <2>7, <2>8, <2>9, <2>11
    <3> QED
      BY <3>1, <3>2
  <2>13. ASSUME NEW n \in UsedNames PROVE n # s.table /\ Relation'[n] = Relation[n]
    <3>1. PICK t \in 1..N : tables[t].name = n
      BY <2>7
    <3>2. Relation[n] = Image(tables, bytes, t)
      BY <2>5, <2>6, <3>1 DEF RelationFact
    <3>3. t \in DOMAIN tables' /\ tables'[t] = tables[t]
      BY <2>5, <2>11
    <3>4. Relation'[n] = Image(tables', bytes', t)
      BY <2>6, <3>1, <3>3 DEF RelationFact
    <3>5. Image(tables', bytes', t) = Image(tables, bytes, t)
      BY <2>2, <3>3 DEF Image
    <3> QED
      BY <1>4, <2>5, <3>1, <3>2, <3>4, <3>5 DEF find_table
  <2>14. Relation'[s.table] = [rows |-> << >>,
                               width |-> IF ~s.listed THEN 0
                                         ELSE IF s.columns < MAX_COLUMNS THEN s.columns
                                         ELSE MAX_COLUMNS]
    <3>1. Relation'[s.table] = Image(tables', bytes', N + 1)
      BY <2>5, <2>6, <2>9, <2>11 DEF RelationFact
    <3>2. Image(tables', bytes', N + 1) = [width |-> Len(new.columns), rows |-> << >>]
      BY <2>5, <2>9 DEF Image
    <3> QED
      BY <2>9, <3>1, <3>2 DEF Smaller
  <2>15. Relation' = [m \in UsedNames \cup {s.table} |->
                         IF m # s.table THEN Relation[m]
                         ELSE [rows |-> << >>,
                               width |-> IF ~s.listed THEN 0
                                         ELSE IF s.columns < MAX_COLUMNS THEN s.columns
                                         ELSE MAX_COLUMNS]]
    <3>1. Relation' = [m \in UsedNames \cup {s.table} |-> Relation'[m]]
      BY <2>6, <2>12 DEF RelationFact
    <3> QED
      BY <2>13, <2>14, <3>1
  <2>16. Store!CanCreate(s.table)
    BY <1>1, <1>2, <1>4 DEF Store!CanCreate
  <2>17. ret' = IF s.listed THEN Store!OK ELSE Store!Error
    BY <2>2 DEF Store!OK, Store!Error, Store!Answer, OK, Error, Answer
  <2>18. Store!CreateTable(s.table, s.columns, s.listed)
    BY <1>2, <2>3, <2>15, <2>16, <2>17 DEF Store!CreateTable
  <2> QED
    BY <2>16, <2>18 DEF Creating
<1> QED
  BY <1>1, <1>3, <1>4

----------------------------------------------------------------------------
\* INSERT adds a row and keeps the others.
\* A row that was there still reads the same.
LEMMA KeptLemma ==
  ASSUME IInv, NEW t \in DOMAIN tables, NEW r \in DOMAIN tables[t].rows,
         NEW m, \A a \in DOMAIN bytes : m[a] = bytes[a]
  PROVE  RowIn(m, tables[t].rows[r]) = RowIn(bytes, tables[t].rows[r])
<1>1. PICK w \in Nat : w = Len(tables[t].columns) /\ DOMAIN tables[t].columns = 1..w
  BY TableLemma
<1>2. tables[t].rows[r] \in Rows(w)
  BY <1>1, TableLemma DEF IsTable
<1>3. PICK row \in Rows(w) : row = tables[t].rows[r]
  BY <1>2
<1>4. DOMAIN row = 1..w
  BY DEF Rows
<1>5. ASSUME NEW c \in 1..w, row[c] # Null PROVE row[c] \in DOMAIN bytes
  <2>1. <<t, r, c>> \in Live
    BY <1>1, <1>3, <1>5, LiveLemma
  <2>2. At(<<t, r, c>>) = row[c]
    BY <1>3 DEF At
  <2> QED
    BY <2>1, <2>2 DEF IInv, Owners
<1>6. \A c \in 1..w : (IF row[c] = Null THEN Empty ELSE m[row[c]])
                        = (IF row[c] = Null THEN Empty ELSE bytes[row[c]])
  BY <1>5
<1> QED
  BY <1>3, <1>4, <1>6 DEF RowIn

\* What an INSERT reads back.
LEMMA AddedRow ==
  ASSUME IInv, current_db # Null, current_db' = current_db,
         NEW s \in Inserts, NEW width \in Nat, NEW cells, NEW at,
         cells = Cells(s, width), Placed(cells, at), bytes' = NewBytes(cells, at)
  PROVE  LET row == RowIn(bytes', NewRow(width, at))
             given == Flat(s.values)
         IN  /\ row \in [1..width -> Strings]
             /\ \A k \in 1..width :
                  IF k <= Len(given) THEN row[k] = given[k] \/ (row[k] = Empty /\ Full')
                  ELSE row[k] = Empty
<1>1. PICK given \in Seq(Stored) : given = Flat(s.values)
  BY CellsLemma
<1>2. /\ cells \in Seq(Strings) /\ Len(cells) <= width
      /\ \A k \in 1..width : k <= Len(given) => k <= Len(cells) /\ cells[k] = given[k]
      /\ \A k \in 1..Len(cells) : ~(k <= Len(given)) => cells[k] = Empty
  BY <1>1, CellsLemma
<1>3. PICK n \in Nat : n = Len(cells) /\ Len(at) = n
  BY DEF Placed
<1>4. PICK new : new = NewRow(width, at)
  OBVIOUS
<1>5. new = [k \in 1..width |-> IF k <= n THEN at[k] ELSE Null]
  BY <1>3, <1>4 DEF NewRow
<1>6. PICK row : row = RowIn(bytes', new)
  OBVIOUS
<1>7. row = [k \in 1..width |-> IF new[k] = Null THEN Empty ELSE bytes'[new[k]]]
  <2>1. DOMAIN new = 1..width
    BY <1>5
  <2> QED
    BY <1>6, <2>1 DEF RowIn
<1>8. \A k \in 1..n : at[k] # Null => bytes'[at[k]] = cells[k]
  BY <1>3, BytesLemma
<1>9. \A k \in 1..n : at[k] = Null => ~Fits(heap_ptr', Size[cells[k]])
  BY <1>3 DEF Placed
<1>10. \A k \in 1..n : cells[k] \in Strings
  BY <1>2, <1>3
<1>11. ASSUME NEW k \in 1..width
       PROVE  /\ row[k] \in Strings
              /\ IF k <= Len(given) THEN row[k] = given[k] \/ (row[k] = Empty /\ Full')
                 ELSE row[k] = Empty
  <2>1. CASE ~(k <= n)
    <3>1. row[k] = Empty /\ Empty \in Strings
      BY <1>5, <1>7, <2>1 DEF Strings
    <3> QED
      BY <1>2, <1>3, <2>1, <3>1
  <2>2. CASE k <= n /\ at[k] # Null
    <3>1. k \in 1..n
      BY <2>2
    <3>2. row[k] = cells[k]
      BY <1>5, <1>7, <1>8, <2>2, <3>1
    <3> QED
      BY <1>2, <1>3, <1>10, <3>1, <3>2
  <2>3. CASE k <= n /\ at[k] = Null
    <3>1. k \in 1..n
      BY <2>3
    <3>2. row[k] = Empty /\ Empty \in Strings
      BY <1>5, <1>7, <2>3 DEF Strings
    <3>3. ASSUME k <= Len(given) PROVE Full'
      <4>1. cells[k] = given[k] /\ given[k] \in Stored
        BY <1>1, <1>2, <3>3
      <4> QED
        BY <1>9, <2>3, <3>1, <4>1 DEF Full
    <3> QED
      BY <3>2, <3>3
  <2> QED
    BY <2>1, <2>2, <2>3
<1>12. row \in [1..width -> Strings]
  BY <1>7, <1>11
<1> QED
  BY <1>1, <1>4, <1>6, <1>11, <1>12

\* The relation of the table with the new row.
LEMMA ImageLemma ==
  ASSUME IInv, NEW t \in DOMAIN tables, NEW new \in Rows(Len(tables[t].columns)),
         tables' = [tables EXCEPT ![t].rows = Append(@, new)],
         \A a \in DOMAIN bytes : bytes'[a] = bytes[a]
  PROVE  /\ \A u \in DOMAIN tables : u # t => Image(tables', bytes', u) = Image(tables, bytes, u)
         /\ Image(tables', bytes', t) =
              [Image(tables, bytes, t) EXCEPT !.rows = Append(@, RowIn(bytes', new))]
<1>1. PICK R \in Nat, width \in Nat :
        R = Len(tables[t].rows) /\ width = Len(tables[t].columns) /\ DOMAIN tables[t].rows = 1..R
  BY TableLemma
<1>2. /\ \A u \in DOMAIN tables : u # t => tables'[u] = tables[u]
      /\ tables'[t].columns = tables[t].columns
      /\ DOMAIN tables'[t].rows = 1..(R + 1)
      /\ \A r \in 1..R : tables'[t].rows[r] = tables[t].rows[r]
      /\ tables'[t].rows[R + 1] = new
  <2>1. \A u \in DOMAIN tables : /\ tables'[u].columns = tables[u].columns
                                 /\ u # t => tables'[u] = tables[u]
    BY RowsLemma
  <2>2. /\ DOMAIN tables'[t].rows = 1..(Len(tables[t].rows) + 1)
        /\ \A r \in 1..Len(tables[t].rows) : tables'[t].rows[r] = tables[t].rows[r]
        /\ tables'[t].rows[Len(tables[t].rows) + 1] = new
    BY RowsLemma
  <2> QED
    BY <1>1, <2>1, <2>2
<1>3. \A u \in DOMAIN tables : \A r \in DOMAIN tables[u].rows :
        RowIn(bytes', tables[u].rows[r]) = RowIn(bytes, tables[u].rows[r])
  BY KeptLemma
<1>4. ASSUME NEW u \in DOMAIN tables, u # t
      PROVE  Image(tables', bytes', u) = Image(tables, bytes, u)
  <2>1. tables'[u] = tables[u]
    BY <1>2, <1>4
  <2>2. [r \in DOMAIN tables[u].rows |-> RowIn(bytes', tables[u].rows[r])]
          = [r \in DOMAIN tables[u].rows |-> RowIn(bytes, tables[u].rows[r])]
    BY <1>3
  <2> QED
    BY <2>1, <2>2 DEF Image
<1>5. PICK old : old = [r \in 1..R |-> RowIn(bytes, tables[t].rows[r])]
  OBVIOUS
<1>6. PICK now : now = [r \in 1..(R + 1) |-> RowIn(bytes', tables'[t].rows[r])]
  OBVIOUS
<1>7. now = Append(old, RowIn(bytes', new))
  <2>1. PICK row : row = RowIn(bytes', new)
    OBVIOUS
  <2>2. \A r \in 1..R : r \in 1..(R + 1) /\ now[r] = old[r]
    <3>1. ASSUME NEW r \in 1..R PROVE r \in 1..(R + 1) /\ now[r] = old[r]
      <4>1. r \in 1..(R + 1) /\ tables'[t].rows[r] = tables[t].rows[r]
        <5>1. r \in 1..(R + 1)
          OBVIOUS
        <5>2. tables'[t].rows[r] = tables[t].rows[r]
          BY <1>2
        <5> QED
          BY <5>1, <5>2
      <4>2. RowIn(bytes', tables[t].rows[r]) = RowIn(bytes, tables[t].rows[r])
        BY <1>1, <1>3
      <4> QED
        BY <1>5, <1>6, <4>1, <4>2
    <3> QED
      BY <3>1
  <2>3. now[R + 1] = row
    BY <1>2, <1>6, <2>1
  <2>4. Len(old) = R /\ DOMAIN now = 1..(R + 1)
    BY <1>5, <1>6
  <2>5. PICK S : S = {old[r] : r \in 1..R} \cup {row}
    OBVIOUS
  <2>6. old \in Seq(S) /\ row \in S
    <3>1. old = [r \in 1..R |-> old[r]]
      BY <1>5
    <3>2. old \in [1..R -> S]
      BY <2>5, <3>1
    <3> QED
      BY <2>5, <3>2
  <2>7. PICK both : both = Append(old, row)
    OBVIOUS
  <2>8. /\ both \in Seq(S) /\ Len(both) = R + 1
        /\ \A r \in 1..R : both[r] = old[r]
        /\ both[R + 1] = row
    BY <2>4, <2>6, <2>7
  <2>9. both = [r \in 1..(R + 1) |-> both[r]]
    BY <2>8
  <2>10. now = [r \in 1..(R + 1) |-> now[r]]
    BY <1>6
  <2>11. \A r \in 1..(R + 1) : r \in 1..R \/ r = R + 1
    OBVIOUS
  <2>12. \A r \in 1..(R + 1) : now[r] = both[r]
    BY <2>2, <2>3, <2>8, <2>11
  <2> QED
    BY <2>1, <2>7, <2>9, <2>10, <2>12
<1>8. Image(tables, bytes, t) = [width |-> width, rows |-> old]
  BY <1>1, <1>5 DEF Image
<1>9. Image(tables', bytes', t) = [width |-> width, rows |-> now]
  BY <1>1, <1>2, <1>6 DEF Image
<1>10. Image(tables', bytes', t) = [Image(tables, bytes, t) EXCEPT !.rows = Append(@, RowIn(bytes', new))]
  <2>1. PICK row, both : row = RowIn(bytes', new) /\ both = Append(old, row)
    OBVIOUS
  <2>2. PICK image : image = Image(tables, bytes, t)
    OBVIOUS
  <2>3. image = [width |-> width, rows |-> old]
    BY <1>8, <2>2
  <2>4. [image EXCEPT !.rows = Append(@, row)] = [width |-> width, rows |-> both]
    <3>1. Append(image.rows, row) = both
      BY <2>1, <2>3
    <3>2. [image EXCEPT !.rows = both] = [width |-> width, rows |-> both]
      BY <2>3
    <3> QED
      BY <3>1, <3>2
  <2>5. Image(tables', bytes', t) = [width |-> width, rows |-> both]
    BY <1>7, <1>9, <2>1
  <2> QED
    BY <2>1, <2>2, <2>4, <2>5
<1> QED
  BY <1>4, <1>10

LEMMA InsertImplements ==
  ASSUME IInv, IInv', NEW s \in Inserts, parse_insert(s), Open, current_db' = current_db
  PROVE  /\ Inserting(s)
         /\ Store!Insert(s.table, Flat(s.values)) \/ Store!Refuse
<1>1. s.table \in Store!Known <=> find_table(s.table) # {}
  BY KnownLemma
<1>2. CASE find_table(s.table) = {}
  <2>1. Refused /\ Store!Refuse
    BY <1>2, FailRefuses DEF parse_insert
  <2> QED
    BY <1>1, <1>2, <2>1 DEF Inserting, Store!CanInsert
<1>3. CASE find_table(s.table) # {}
  <2>1. PICK t \in DOMAIN tables : tables[t].name = s.table
    BY <1>3 DEF find_table
  <2>2. (CHOOSE x \in find_table(s.table) : TRUE) = t
    BY <2>1, TableLemma
  <2>3. RelationFact /\ RelationFact'
    BY RelationLemma, RelationAfter
  <2>4. Relation[s.table] = Image(tables, bytes, t)
    BY <2>1, <2>3 DEF RelationFact
  <2>5. PICK R \in Nat, width \in Nat : R = Len(tables[t].rows) /\ width = Len(tables[t].columns)
    BY TableLemma
  <2>6. Len(Relation[s.table].rows) = R /\ Relation[s.table].width = width
    <3>1. DOMAIN Relation[s.table].rows = 1..R
      BY <2>4, <2>5, TableLemma DEF Image
    <3>2. Len([r \in 1..R |-> RowIn(bytes, tables[t].rows[r])]) = R
      BY <2>5
    <3>3. Relation[s.table].rows = [r \in 1..R |-> RowIn(bytes, tables[t].rows[r])]
      BY <2>4, <2>5, TableLemma DEF Image
    <3> QED
      BY <2>4, <2>5, <3>2, <3>3 DEF Image
  <2>7. TableFull(t) <=> ~Store!CanInsert(s.table)
    <3>1. MAX_ROWS \in Nat
      BY SqliteAssumption
    <3>2. TableFull(t) <=> ~(Len(Relation[s.table].rows) < MAX_ROWS)
      BY <2>5, <2>6, <3>1 DEF TableFull
    <3> QED
      BY <1>1, <1>3, <3>2 DEF Store!CanInsert
  <2>8. CASE TableFull(t)
    <3>1. Refused /\ Store!Refuse
      BY <1>3, <2>2, <2>8, FailRefuses DEF parse_insert
    <3> QED
      BY <2>7, <2>8, <3>1 DEF Inserting
  <2>9. CASE ~TableFull(t)
    <3>1. PICK cells, at :
            /\ cells = Cells(s, width) /\ Placed(cells, at)
            /\ tables' = [tables EXCEPT ![t].rows = Append(@, NewRow(width, at))]
            /\ bytes' = NewBytes(cells, at) /\ ret' = OK
      BY <2>1, <2>5, <2>9, InsertLemma
    <3>2. PICK new \in Rows(width) : new = NewRow(width, at)
      BY <3>1, NewRowLemma DEF Placed
    <3>3. PICK row : row = RowIn(bytes', new)
      OBVIOUS
    <3>4. PICK given : given = Flat(s.values)
      OBVIOUS
    <3>5. /\ row \in [1..width -> Strings]
          /\ \A k \in 1..width :
               IF k <= Len(given)
                 THEN row[k] = given[k] \/ (row[k] = Empty /\ Full')
                 ELSE row[k] = Empty
      BY <3>1, <3>2, <3>3, <3>4, AddedRow, ReadyLemma
    <3>6. /\ DOMAIN tables' = DOMAIN tables
          /\ \A u \in DOMAIN tables : tables'[u].name = tables[u].name
      BY <2>5, <3>1, <3>2, RowsLemma
    <3>7. /\ \A u \in DOMAIN tables : u # t => Image(tables', bytes', u) = Image(tables, bytes, u)
          /\ Image(tables', bytes', t) = [Image(tables, bytes, t) EXCEPT !.rows = Append(@, row)]
      <4>1. \A a \in DOMAIN bytes : bytes'[a] = bytes[a]
        BY <3>1, BytesLemma
      <4> QED
        BY <2>5, <3>1, <3>2, <3>3, <4>1, ImageLemma
    <3>8. UsedNames' = UsedNames
      BY <2>3, <3>6 DEF RelationFact
    <3>9. \A n \in UsedNames : n # s.table => Relation'[n] = Relation[n]
      <4>1. ASSUME NEW n \in UsedNames, n # s.table PROVE Relation'[n] = Relation[n]
        <5>1. PICK u \in DOMAIN tables : tables[u].name = n
          BY <2>3 DEF RelationFact
        <5>2. u # t /\ Relation[n] = Image(tables, bytes, u)
          BY <2>1, <2>3, <4>1, <5>1 DEF RelationFact
        <5>3. Relation'[n] = Image(tables', bytes', u)
          BY <2>3, <3>6, <5>1 DEF RelationFact
        <5> QED
          BY <3>7, <5>2, <5>3
      <4> QED
        BY <4>1
    <3>10. Relation'[s.table] = [Relation[s.table] EXCEPT !.rows = Append(@, row)]
      <4>1. Relation'[s.table] = Image(tables', bytes', t)
        BY <2>1, <2>3, <3>6 DEF RelationFact
      <4> QED
        BY <2>4, <3>7, <4>1
    <3>11. Relation' = [Relation EXCEPT ![s.table].rows = Append(@, row)]
      <4>1. Relation' = [n \in UsedNames |-> Relation'[n]]
        BY <2>3, <3>8 DEF RelationFact
      <4>2. s.table \in UsedNames /\ Relation = [n \in UsedNames |-> Relation[n]]
        BY <2>1, <2>3 DEF RelationFact
      <4>3. PICK more : more = [Relation[s.table] EXCEPT !.rows = Append(@, row)]
        OBVIOUS
      <4>4. [Relation EXCEPT ![s.table] = more]
              = [n \in UsedNames |-> IF n = s.table THEN more ELSE Relation[n]]
        BY <4>2
      <4>5. \A n \in UsedNames : Relation'[n] = IF n = s.table THEN more ELSE Relation[n]
        BY <3>9, <3>10, <4>3
      <4> QED
        BY <4>1, <4>3, <4>4, <4>5
    <3>12. Store!Consume /\ Store!Ready
      BY <3>1, ConsumeLemma, ReadyLemma DEF Placed
    <3>13. ret' = Store!OK
      BY <3>1 DEF Store!OK, Store!Answer, OK, Answer
    <3>14. row \in [1..Relation[s.table].width -> Stored \cup {Store!Empty}]
      BY <2>6, <3>5, StoreEmpty DEF Strings
    <3>15. \A k \in 1..Relation[s.table].width :
             IF k <= Len(given)
               THEN row[k] = given[k] \/ (row[k] = Store!Empty /\ Full')
               ELSE row[k] = Store!Empty
      BY <2>6, <3>5, StoreEmpty
    <3>16. Store!CanInsert(s.table)
      BY <2>7, <2>9
    <3>17. Store!Insert(s.table, Flat(s.values))
      BY <3>4, <3>11, <3>12, <3>13, <3>14, <3>15, <3>16 DEF Store!Insert
    <3> QED
      BY <3>16, <3>17 DEF Inserting
  <2> QED
    BY <2>8, <2>9
<1> QED
  BY <1>2, <1>3

----------------------------------------------------------------------------
\* The rows a SELECT * prints: the first ones, all of them while memory lasts, and
\* none of a table without columns, whose arrays have no size.
Printed(at, width, R) == {k \in 1..R : at[1 + width + k] # Null}
LEMMA ShownLemma ==
  ASSUME IInv, Open, current_db' = current_db,
         NEW t \in DOMAIN tables, NEW width \in Nat, NEW R \in Nat, NEW at,
         width = Len(tables[t].columns), at = Addresses(heap_ptr, SelectSizes(width, R)),
         heap_ptr' = Consumed(heap_ptr, SelectSizes(width, R))
  PROVE  \E m \in 0..R :
           /\ Printed(at, width, R) = 1..m
           /\ width = 0 => m = 0
           /\ width # 0 /\ m < R => Full'
<1> DEFINE sizes == SelectSizes(width, R)
           Lost == {k \in 1..R : at[1 + width + k] = Null}
<1>1. /\ sizes \in Seq(Nat) /\ Len(sizes) = 1 + width + R
      /\ \A k \in 1..R : 1 + width + k \in 1..Len(sizes) /\ sizes[1 + width + k] = width * PTR
  BY SelectSizesLemma
<1>2. at = Addresses(heap_ptr, sizes) /\ heap_ptr' = Consumed(heap_ptr, sizes)
  OBVIOUS
<1>3. heap_ptr \in 0..HEAP_SIZE /\ PTR \in Nat \ {0} /\ width <= MAX_COLUMNS
  BY TableLemma, SqliteAssumption DEF IInv, Session, IsTable
<1> HIDE DEF sizes
<1>4. ASSUME NEW k \in Lost, NEW l \in k..R PROVE l \in Lost
  <2> PICK a : a = width * PTR
    OBVIOUS
  <2>1. k \in 1..R /\ l \in 1..R /\ at[1 + width + k] = Null
    OBVIOUS
  <2>2. 1 + width + k \in 1..Len(sizes) /\ 1 + width + l \in 1..Len(sizes)
        /\ 1 + width + k <= 1 + width + l /\ sizes[1 + width + k] = sizes[1 + width + l]
    <3>1. \A j \in 1..R : 1 + width + j \in 1..Len(sizes) /\ sizes[1 + width + j] = a
      BY <1>1
    <3> QED
      BY <2>1, <3>1
  <2>3. Addresses(heap_ptr, sizes)[1 + width + l] = Null
    BY <1>1, <1>2, <1>3, <2>1, <2>2, RefusedLemma
  <2> QED
    BY <1>2, <2>1, <2>3
<1>5. \E m \in 0..R : Printed(at, width, R) = 1..m /\ (m < R => m + 1 \in Lost)
  <2>1. CASE Lost = {}
    <3>1. Printed(at, width, R) = 1..R
      BY <2>1 DEF Printed
    <3> QED
      BY <3>1
  <2>2. CASE Lost # {}
    <3>1. Lost \subseteq Nat
      OBVIOUS
    <3>2. PICK n \in Lost : \A m \in Lost : n <= m
      BY <2>2, <3>1, LeastNatural
    <3>3. n \in 1..R
      OBVIOUS
    <3>4. ASSUME NEW k \in 1..R PROVE at[1 + width + k] # Null <=> k \in 1..(n - 1)
      <4>1. CASE k < n
        <5>1. k \notin Lost
          BY <3>2, <3>3, <4>1
        <5> QED
          BY <3>3, <4>1, <5>1
      <4>2. CASE ~(k < n)
        <5>1. k \in n..R
          BY <3>3, <4>2
        <5>2. k \in Lost
          BY <1>4, <5>1
        <5> QED
          BY <3>3, <4>2, <5>2
      <4> QED
        BY <4>1, <4>2
    <3>5. Printed(at, width, R) = 1..(n - 1)
      <4>1. \A k \in 1..(n - 1) : k \in 1..R
        BY <3>3
      <4> QED
        BY <3>4, <4>1 DEF Printed
    <3>6. n - 1 \in 0..R /\ (n - 1) + 1 = n
      BY <3>3
    <3> QED
      BY <3>5, <3>6
  <2> QED
    BY <2>1, <2>2
<1>6. PICK m \in 0..R : Printed(at, width, R) = 1..m /\ (m < R => m + 1 \in Lost)
  BY <1>5
<1>7. CASE width = 0
  <2>1. ASSUME NEW k \in 1..R PROVE at[1 + width + k] = Null
    <3>1. sizes[1 + width + k] = 0 /\ 1 + width + k \in 1..Len(sizes)
      BY <1>1, <1>3, <1>7
    <3> QED
      BY <1>2, <3>1 DEF Addresses, malloc
  <2>2. Printed(at, width, R) = {}
    BY <2>1 DEF Printed
  <2>3. m = 0
    <3>1. m # 0 => 1 \in 1..m
      OBVIOUS
    <3> QED
      BY <1>6, <2>2, <3>1
  <2> QED
    BY <1>6, <1>7, <2>3
<1>8. CASE width # 0
  <2>1. ASSUME m < R PROVE Full'
    <3>1. m + 1 \in 1..R /\ at[1 + width + (m + 1)] = Null
      BY <1>6, <2>1
    <3>2. width * PTR \in Nat /\ width * PTR # 0
      BY <1>3, <1>8
    <3>3. 1 + width + (m + 1) \in 1..Len(sizes) /\ sizes[1 + width + (m + 1)] = width * PTR
      BY <1>1, <3>1
    <3>4. PICK k \in 1..Len(sizes) : k = 1 + width + (m + 1)
      BY <3>3
    <3>5. Addresses(heap_ptr, sizes)[k] = Null /\ sizes[k] # 0 /\ sizes[k] = width * PTR
      BY <1>2, <3>1, <3>2, <3>3, <3>4
    <3>6. ~Fits(heap_ptr', width * PTR)
      <4>1. Addresses(heap_ptr, sizes)[k] = Null /\ sizes[k] # 0 => ~Fits(Consumed(heap_ptr, sizes), sizes[k])
        BY <1>1, <1>3, AddressLemma
      <4> QED
        BY <1>2, <3>5, <4>1
    <3>7. width \in 1..MAX_COLUMNS
      BY <1>3, <1>8, SqliteAssumption
    <3>8. current_db' # Null
      BY ReadyLemma
    <3> QED
      BY <3>6, <3>7, <3>8 DEF Full
  <2> QED
    BY <1>6, <1>8, <2>1
<1> QED
  BY <1>7, <1>8

\* SELECT * answers the first rows of the relation.
LEMMA SelectImplements ==
  ASSUME IInv, NEW s \in Selects, exec_select(s), Open, current_db' = current_db
  PROVE  Selecting(s) /\ (Store!Select(s.table) \/ Store!Refuse)
<1>1. s.table \in Store!Known <=> find_table(s.table) # {}
  BY KnownLemma
<1>2. CASE ~s.star
  <2>1. FailAfter(2)
    BY <1>2 DEF exec_select
  <2>2. Refused /\ Store!Refuse
    BY <2>1, FailAfterLemma, RefuseLemma
  <2> QED
    BY <1>2, <2>2 DEF Selecting
<1>3. CASE s.star /\ find_table(s.table) = {}
  <2>1. Refused /\ Store!Refuse
    BY <1>3, FailRefuses DEF exec_select
  <2> QED
    BY <1>1, <1>3, <2>1 DEF Selecting
<1>4. CASE s.star /\ find_table(s.table) # {}
  <2>1. PICK t \in DOMAIN tables : tables[t].name = s.table
    BY <1>4 DEF find_table
  <2>2. PICK width \in Nat, R \in Nat : /\ width = Len(tables[t].columns) /\ R = Len(tables[t].rows)
                                        /\ DOMAIN tables[t].rows = 1..R
    BY TableLemma
  <2> DEFINE rows == tables[t].rows
  <2>3. PICK at : at = Addresses(heap_ptr, SelectSizes(width, R))
    OBVIOUS
  <2>4. PICK shown : shown = Shown(rows, [k \in DOMAIN rows |-> at[1 + width + k]])
    OBVIOUS
  <2>5. /\ tables' = tables /\ bytes' = bytes
        /\ heap_ptr' = Consumed(heap_ptr, SelectSizes(width, R))
        /\ heap_ptr' \in 0..HEAP_SIZE /\ heap_ptr <= heap_ptr'
        /\ ret' = Answer("ok", shown)
    BY <1>4, <2>1, <2>2, <2>3, <2>4, SelectLemma
  <2>6. PICK m \in 0..R : /\ Printed(at, width, R) = 1..m
                          /\ width = 0 => m = 0
                          /\ width # 0 /\ m < R => Full'
    BY <2>2, <2>3, <2>5, ShownLemma
  <2>7. PICK read : read = [r \in 1..R |-> RowIn(bytes, tables[t].rows[r])]
    OBVIOUS
  <2>8. /\ s.table \in Store!Known
        /\ Relation[s.table].rows = read /\ Relation[s.table].width = width /\ Len(read) = R
    <3>1. Relation[s.table] = Image(tables, bytes, t)
      BY <2>1, RelationLemma DEF RelationFact
    <3> QED
      BY <1>1, <1>4, <2>2, <2>7, <3>1 DEF Image
  <2>9. shown = [k \in 1..m |-> read[k]]
    <3>1. shown = [k \in 1..m |-> Row(rows[k])]
      <4>1. {j \in DOMAIN rows : [k \in DOMAIN rows |-> at[1 + width + k]][j] # Null} = 1..m
        BY <2>2, <2>6 DEF Printed
      <4> QED
        BY <2>4, <4>1 DEF Shown
    <3>2. \A r : Row(r) = RowIn(bytes, r)
      BY DEF Row, RowIn, Read
    <3>3. \A k \in 1..m : k \in 1..R
      OBVIOUS
    <3>4. \A k \in 1..m : Row(rows[k]) = read[k]
      BY <2>2, <2>7, <3>2, <3>3
    <3> QED
      BY <3>1, <3>4
  <2>10. SubSeq(read, 1, m) = [k \in 1..m |-> read[k]]
    OBVIOUS
  <2>11. Store!Consume /\ Store!Ready /\ Relation' = Relation
    BY <2>5, ConsumeLemma, ReadyLemma, SameRelation
  <2>12. ret' = Store!Answer("ok", SubSeq(Relation[s.table].rows, 1, m))
    BY <2>5, <2>8, <2>9, <2>10 DEF Store!Answer, Answer
  <2>13. m \in 0..Len(Relation[s.table].rows)
         /\ IF Relation[s.table].width = 0 THEN m = 0 ELSE m < Len(Relation[s.table].rows) => Full'
    BY <2>6, <2>8
  <2>14. Store!Select(s.table)
    BY <2>5, <2>8, <2>11, <2>12, <2>13 DEF Store!Select
  <2> QED
    BY <1>4, <2>8, <2>14 DEF Selecting
<1> QED
  BY <1>2, <1>3, <1>4

LEMMA UnsupportedRefuses ==
  ASSUME IInv, Unsupported, Open, current_db' = current_db
  PROVE  Refused /\ Store!Refuse
<1>1. tables' = tables /\ bytes' = bytes /\ ret' = Error /\ heap_ptr' = Bump(heap_ptr, TEXT)
  BY DEF Unsupported
<1>2. heap_ptr \in 0..HEAP_SIZE /\ TEXT \in Nat
  BY SqliteAssumption DEF IInv, Session
<1>3. heap_ptr' \in 0..HEAP_SIZE /\ heap_ptr <= heap_ptr'
  BY <1>1, <1>2, MallocLemma
<1> QED
  BY <1>1, <1>3, RefuseLemma

\* A step of the database, by the statement it answers.
LEMMA CreateNext ==
  ASSUME NEW s \in Creates, Store!CreateTable(s.table, s.columns, s.listed)
  PROVE  Store!DatabaseNext
<1>1. s.table \in TableNames /\ s.columns \in Columns /\ s.listed \in BOOLEAN
  BY DEF Creates
<1> QED
  BY <1>1 DEF Store!DatabaseNext

LEMMA InsertNext ==
  ASSUME NEW s \in Inserts, Store!Insert(s.table, Flat(s.values))
  PROVE  Store!DatabaseNext
<1>1. s.table \in TableNames /\ Flat(s.values) \in {Flat(vs) : vs \in Lists}
  BY DEF Inserts
<1> QED
  BY <1>1 DEF Store!DatabaseNext

\* A statement does what it says to the relations, which is a step of the database.
LEMMA StatementImplements ==
  ASSUME IInv, IInv', NEW s \in Statements, sqlite3_exec(s)
  PROVE  Does(s) /\ Store!DatabaseNext
<1>1. Open /\ current_db' = current_db
  BY StatementLemma
<1>2. CASE s.op = "create" /\ s \in Creates /\ parse_create_table(s)
  BY <1>1, <1>2, CreateImplements, CreateNext DEF Does, Store!DatabaseNext
<1>3. CASE s.op = "insert" /\ s \in Inserts /\ parse_insert(s)
  BY <1>1, <1>3, InsertImplements, InsertNext DEF Does, Store!DatabaseNext
<1>4. CASE s.op = "select" /\ s \in Selects /\ exec_select(s)
  <2>1. Selecting(s) /\ (Store!Select(s.table) \/ Store!Refuse) /\ s.table \in TableNames
    BY <1>1, <1>4, SelectImplements DEF Selects
  <2> QED
    BY <1>4, <2>1 DEF Does, Store!DatabaseNext
<1>5. CASE s.op = "other" /\ Unsupported
  BY <1>1, <1>5, UnsupportedRefuses DEF Does, Store!DatabaseNext
<1>6. CASE s.op = "bad select" /\ \E n \in Nat : FailAfter(n)
  <2>1. Refused /\ Store!Refuse
    BY <1>1, <1>6, FailAfterLemma, RefuseLemma
  <2> QED
    BY <1>6, <2>1 DEF Does, Store!DatabaseNext
<1>7. CASE s.op = "bare create" /\ \E x \in Creates : parse_create_table(x)
  <2>1. PICK x \in Creates : parse_create_table(x)
    BY <1>7
  <2>2. Creating(x) /\ (Store!CreateTable(x.table, x.columns, x.listed) \/ Store!Refuse)
    BY <1>1, <2>1, CreateImplements
  <2>3. Store!DatabaseNext
    BY <2>2, CreateNext DEF Store!DatabaseNext
  <2> QED
    BY <1>7, <2>2, <2>3 DEF Does
<1>8. CASE s.op = "bare insert" /\ \E x \in Inserts : parse_insert(x)
  <2>1. PICK x \in Inserts : parse_insert(x)
    BY <1>8
  <2>2. Inserting(x) /\ (Store!Insert(x.table, Flat(x.values)) \/ Store!Refuse)
    BY <1>1, <2>1, InsertImplements
  <2>3. Store!DatabaseNext
    BY <2>2, InsertNext DEF Store!DatabaseNext
  <2> QED
    BY <1>8, <2>2, <2>3 DEF Does
<1>9. CASE s.op \in {"bare create", "endless"} /\ Hang
  BY <1>1, <1>9, HangImplements DEF Does, Store!DatabaseNext
<1>10. CASE s.op \in {"bad create", "bad insert"} \cup Bare /\ Fail
  BY <1>1, <1>10, FailRefuses DEF Bare, Does, Store!DatabaseNext
<1> QED
  BY <1>2, <1>3, <1>4, <1>5, <1>6, <1>7, <1>8, <1>9, <1>10, StatementLemma

LEMMA StepImplements ==
  ASSUME IInv, IInv', [Next]_vars
  PROVE  [Store!DatabaseNext]_(Store!databaseVars)
<1>1. CASE Usage
  BY <1>1, UsageImplements
<1>2. CASE \E d \in DbNames : sqlite3_open(d)
  BY <1>2, OpenImplements DEF Store!DatabaseNext
<1>3. CASE \E d \in DbNames, s \in Statements : OneShot(d, s)
  BY <1>3, OneShotImplements DEF Store!DatabaseNext
<1>4. CASE sqlite3_close
  BY <1>4, CloseImplements DEF Store!DatabaseNext
<1>5. CASE \E s \in Statements : sqlite3_exec(s)
  BY <1>5, StatementImplements
<1>6. CASE Looping \/ UNCHANGED vars
  BY <1>6, StutterImplements DEF Looping
<1> QED
  BY <1>1, <1>2, <1>3, <1>4, <1>5, <1>6 DEF Next

\* The session keeps the promise of the abstract database for every heap size,
\* value length and sequence of statements: an acknowledged statement did what it
\* says to the table it names and to no other, a refused one changed nothing
\* except for a CREATE TABLE without columns, and a value, or a row of a listing,
\* is lost only once another value or row array no longer fits the heap
\* (sqlite3.cpp:263-285, :330-355).  A line that ends in its keyword does all of
\* what one statement of its kind does, or nothing, or never answers.
THEOREM SessionIsDatabase == Spec => ImplementsDatabase
<1>1. Init => Store!DatabaseInit
  BY StartsEmpty
<1>2. IInv /\ IInv' /\ [Next]_vars => [Store!DatabaseNext]_(Store!databaseVars)
  BY StepImplements
<1>3. IInv /\ IInv' => [\A s \in Statements : sqlite3_exec(s) => Does(s)]_vars
  BY StatementImplements
<1> QED
  BY <1>1, <1>2, <1>3, Invariance, PTL DEF Spec, Store!DatabaseSpec, ImplementsDatabase
====
