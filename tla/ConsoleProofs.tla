---- MODULE ConsoleProofs ----
(***************************************************************************)
(* Proofs about Console for screens, buffers and texts of any size: what   *)
(* is typed is what is seen and what is run, and a line is split into its  *)
(* words.                                                                  *)
(***************************************************************************)
EXTENDS Console, Induction

----------------------------------------------------------------------------
\* Screens, and the number of the cell under the cursor.
Screens == [cell : [0..Last -> Glyphs], x : 0..WIDTH, y : 0..(HEIGHT - 1)]
Place(s) == s.y * WIDTH + s.x
Clean(s) == \A k \in Place(s)..Last : s.cell[k] = Space

\* What a screen shows before its cursor; behind it there is nothing.
Shows(s, t) == /\ Len(t) <= Place(s) /\ Clean(s)
               /\ \A k \in 1..Len(t) : s.cell[Place(s) - Len(t) + k - 1] = t[k]

\* Where a row begins.
RowsLemma(y) == /\ y * WIDTH \in Nat /\ (y + 1) * WIDTH = y * WIDTH + WIDTH
                /\ (y + 1) * WIDTH <= WIDTH * HEIGHT
                /\ y + 1 < HEIGHT => (y + 2) * WIDTH <= WIDTH * HEIGHT
                /\ y + 1 = HEIGHT => (y + 1) * WIDTH = WIDTH * HEIGHT
LEMMA RowLemma == \A y \in 0..(HEIGHT - 1) : RowsLemma(y)
<1>1. WIDTH \in Nat /\ HEIGHT \in Nat
  BY ConsoleAssumption
<1>2. ASSUME NEW y \in 0..(HEIGHT - 1) PROVE RowsLemma(y)
  <2>1. y \in Nat /\ y * WIDTH \in Nat /\ (y + 1) * WIDTH = y * WIDTH + WIDTH
    BY <1>1
  <2>2. \A a, b, c \in Nat : a <= b => a * c <= b * c
    OBVIOUS
  <2>3. (y + 1) * WIDTH <= HEIGHT * WIDTH
    BY <1>1, <2>1, <2>2
  <2>4. y + 1 < HEIGHT => (y + 2) * WIDTH <= HEIGHT * WIDTH
    BY <1>1, <2>1, <2>2
  <2>5. HEIGHT * WIDTH = WIDTH * HEIGHT
    BY <1>1
  <2> QED
    BY <2>1, <2>3, <2>4, <2>5 DEF RowsLemma
<1> QED
  BY <1>2

LEMMA SizesLemma ==
  /\ WIDTH \in Nat /\ WIDTH # 0 /\ HEIGHT \in Nat /\ HEIGHT # 0
  /\ WIDTH * HEIGHT \in Nat /\ Last = WIDTH * HEIGHT - 1 /\ Last \in Nat
  /\ HEIGHT - 1 \in 0..(HEIGHT - 1) /\ (HEIGHT - 1) * WIDTH = WIDTH * (HEIGHT - 1)
  /\ WIDTH * (HEIGHT - 1) + WIDTH = WIDTH * HEIGHT
<1>1. WIDTH \in Nat /\ WIDTH # 0 /\ HEIGHT \in Nat /\ HEIGHT # 0
  BY ConsoleAssumption
<1>2. HEIGHT - 1 \in Nat /\ HEIGHT - 1 \in 0..(HEIGHT - 1)
  BY <1>1
<1>3. WIDTH * HEIGHT \in Nat /\ Last = WIDTH * HEIGHT - 1
  BY <1>1 DEF Last
<1>4. WIDTH * (HEIGHT - 1) + WIDTH = WIDTH * HEIGHT /\ (HEIGHT - 1) * WIDTH = WIDTH * (HEIGHT - 1)
  BY <1>1, <1>2
<1>5. WIDTH * (HEIGHT - 1) \in Nat
  BY <1>1, <1>2
<1> QED
  BY <1>1, <1>2, <1>3, <1>4, <1>5

\* A new line keeps the screen's shape and what is blank; from behind the last
\* column it takes the text along.
LEMMA NewlineLemma ==
  ASSUME NEW s \in Screens
  PROVE  /\ newline(s) \in Screens /\ newline(s).x = 0
         /\ Clean(s) => Clean(newline(s))
<1>1. s.cell \in [0..Last -> Glyphs] /\ s.x \in 0..WIDTH /\ s.y \in 0..(HEIGHT - 1)
  BY DEF Screens
<1>2. RowsLemma(s.y)
  BY <1>1, RowLemma
<1>3. CASE s.y + 1 < HEIGHT
  <2>1. newline(s) = [cell |-> s.cell, x |-> 0, y |-> s.y + 1]
    BY <1>3 DEF newline, Screens
  <2>2. s.y + 1 \in 0..(HEIGHT - 1) /\ 0 \in 0..WIDTH
    BY <1>1, <1>3, SizesLemma
  <2>3. newline(s) \in Screens
    BY <1>1, <2>1, <2>2 DEF Screens
  <2>4. Place(newline(s)) = s.y * WIDTH + WIDTH /\ Place(s) <= Place(newline(s)) /\ Place(s) \in Int
    BY <1>1, <1>2, <2>1, SizesLemma, SMTT(30) DEF Place, RowsLemma
  <2>5. Clean(s) => Clean(newline(s))
    <3>1. Place(newline(s)) \in Int
      BY <1>1, <1>2, <2>4, SizesLemma DEF RowsLemma
    <3>2. \A k \in Place(newline(s))..Last : k \in Place(s)..Last
      BY <2>4, <3>1, SizesLemma
    <3>3. newline(s).cell = s.cell
      BY <2>1
    <3> QED
      BY <3>2, <3>3 DEF Clean
  <2> QED
    BY <2>1, <2>3, <2>5
<1>4. CASE ~(s.y + 1 < HEIGHT)
  <2> DEFINE cell == [k \in 0..Last |-> IF k + WIDTH <= Last THEN s.cell[k + WIDTH] ELSE Space]
  <2>1. newline(s) = [cell |-> cell, x |-> 0, y |-> HEIGHT - 1]
    BY <1>4 DEF newline
  <2>2. cell \in [0..Last -> Glyphs]
    <3>1. \A k \in 0..Last : k + WIDTH <= Last => k + WIDTH \in 0..Last
      BY SizesLemma
    <3>2. Space \in Glyphs
      BY DEF Glyphs
    <3>3. \A k \in 0..Last : (IF k + WIDTH <= Last THEN s.cell[k + WIDTH] ELSE Space) \in Glyphs
      BY <1>1, <3>1, <3>2
    <3> QED
      BY <3>3
  <2>3. newline(s) \in Screens
    <3> HIDE DEF cell
    <3>1. 0 \in 0..WIDTH
      BY SizesLemma
    <3> QED
      BY <2>1, <2>2, <3>1, SizesLemma DEF Screens
  <2>4. Place(newline(s)) = WIDTH * (HEIGHT - 1)
    BY <2>1, SizesLemma DEF Place
  <2>5. \A k \in Place(newline(s))..Last : cell[k] = Space
    BY <2>4, SizesLemma
  <2> QED
    BY <2>1, <2>3, <2>5 DEF Clean
<1> QED
  BY <1>3, <1>4

LEMMA WrapLemma ==
  ASSUME NEW s \in Screens, NEW t \in Seq(Glyphs), Shows(s, t),
         Len(t) <= WIDTH * (HEIGHT - 1), s.x = WIDTH
  PROVE  Shows(newline(s), t)
<1> DEFINE n == newline(s)
           L == Len(t)
           P == Place(s)
<1>1. s.cell \in [0..Last -> Glyphs] /\ s.x = WIDTH /\ s.y \in 0..(HEIGHT - 1)
  BY DEF Screens
<1>2. RowsLemma(s.y)
  BY <1>1, RowLemma
<1>3. L \in Nat /\ P \in Int /\ L <= P /\ P = (s.y + 1) * WIDTH
      /\ \A k \in 1..L : s.cell[P - L + k - 1] = t[k]
  BY <1>1, <1>2, SizesLemma, SMTT(30) DEF Place, Shows, RowsLemma
<1>4. Clean(n)
  BY NewlineLemma DEF Shows
<1>5. CASE s.y + 1 < HEIGHT
  <2>1. n = [cell |-> s.cell, x |-> 0, y |-> s.y + 1]
    BY <1>5 DEF newline, Screens
  <2>2. Place(n) = P
    BY <1>1, <1>2, <1>3, <2>1, SizesLemma DEF Place, RowsLemma
  <2> QED
    BY <1>3, <1>4, <2>1, <2>2 DEF Shows
<1>6. CASE ~(s.y + 1 < HEIGHT)
  <2> DEFINE cell == [k \in 0..Last |-> IF k + WIDTH <= Last THEN s.cell[k + WIDTH] ELSE Space]
  <2>1. n = [cell |-> cell, x |-> 0, y |-> HEIGHT - 1]
    BY <1>6 DEF newline
  <2>2. Place(n) = WIDTH * (HEIGHT - 1) /\ Place(n) \in Int
    BY <2>1, SizesLemma DEF Place
  <2>3. P = WIDTH * HEIGHT /\ P = Place(n) + WIDTH
    <3>1. s.y + 1 = HEIGHT
      BY <1>1, <1>6, SizesLemma, SMTT(30)
    <3> QED
      BY <1>2, <1>3, <2>2, <3>1, SizesLemma, SMTT(30) DEF RowsLemma
  <2>4. ASSUME NEW k \in 1..L PROVE n.cell[Place(n) - L + k - 1] = t[k]
    <3> DEFINE j == Place(n) - L + k - 1
    <3>0. L \in Int /\ k \in Int /\ 1 <= k /\ k <= L /\ L <= Place(n)
      BY <1>3, <2>2
    <3>1. j \in 0..Last /\ j + WIDTH <= Last /\ j + WIDTH = P - L + k - 1
      <4> HIDE DEF L, P, n
      <4> QED
        BY <3>0, <2>2, <2>3, SizesLemma
    <3>2. n.cell[j] = s.cell[j + WIDTH]
      <4> HIDE DEF j, n
      <4> QED
        BY <2>1, <3>1
    <3> QED
      BY <1>3, <3>1, <3>2
  <2> QED
    BY <1>3, <1>4, <2>2, <2>4 DEF Shows
<1> QED
  BY <1>5, <1>6

\* A character in the cell under a cursor that stands in a column.
Put(s, c) == [s EXCEPT !.cell[s.y * WIDTH + s.x] = c, !.x = @ + 1]
LEMMA PutLemma ==
  ASSUME NEW s \in Screens, NEW c \in Glyphs, s.x < WIDTH
  PROVE  /\ Put(s, c) \in Screens /\ Put(s, c).x = s.x + 1 /\ Place(Put(s, c)) = Place(s) + 1
         /\ Place(s) \in 0..Last
         /\ Put(s, c).cell = [s.cell EXCEPT ![Place(s)] = c]
         /\ Clean(s) => Clean(Put(s, c))
         /\ \A t \in Seq(Glyphs) : Shows(s, t) => Shows(Put(s, c), Append(t, c))
<1> DEFINE n == Put(s, c)
           P == Place(s)
<1>1. s.cell \in [0..Last -> Glyphs] /\ s.x \in 0..WIDTH /\ s.y \in 0..(HEIGHT - 1)
  BY DEF Screens
<1>2. RowsLemma(s.y)
  BY <1>1, RowLemma
<1>3. P \in Int /\ P \in 0..Last
  <2>1. PICK a \in Nat : a = s.y * WIDTH /\ a + WIDTH <= WIDTH * HEIGHT
    BY <1>2, SizesLemma DEF RowsLemma
  <2>2. P = a + s.x
    BY <2>1 DEF Place
  <2>3. PICK b \in Nat : b = WIDTH * HEIGHT /\ Last = b - 1
    BY SizesLemma
  <2>4. a + WIDTH <= b /\ WIDTH \in Nat
    BY <2>1, <2>3, SizesLemma
  <2> HIDE DEF P
  <2> QED
    BY <1>1, <2>2, <2>3, <2>4
<1>4. n = [cell |-> [s.cell EXCEPT ![P] = c], x |-> s.x + 1, y |-> s.y]
  <2> DEFINE a == [s EXCEPT !.cell[s.y * WIDTH + s.x] = c]
  <2>1. s = [cell |-> s.cell, x |-> s.x, y |-> s.y]
    BY DEF Screens
  <2>2. a = [cell |-> [s.cell EXCEPT ![P] = c], x |-> s.x, y |-> s.y]
    BY <2>1 DEF Place
  <2>3. n = [a EXCEPT !.x = @ + 1]
    BY DEF Put
  <2> HIDE DEF a, n, P
  <2> QED
    BY <2>2, <2>3
<1>5. s.x + 1 \in 0..WIDTH
  BY <1>1, SizesLemma
<1>6. n \in Screens
  <2>1. [s.cell EXCEPT ![P] = c] \in [0..Last -> Glyphs]
    BY <1>1
  <2> HIDE DEF n, P
  <2> QED
    BY <1>1, <1>4, <1>5, <2>1 DEF Screens
<1>7. Place(n) = P + 1
  BY <1>1, <1>2, <1>4, SizesLemma DEF Place, RowsLemma
<1>8. n.cell = [s.cell EXCEPT ![P] = c]
  BY <1>4
<1>9. n.cell[P] = c /\ \A k \in 0..Last : k # P => n.cell[k] = s.cell[k]
  BY <1>1, <1>3, <1>8
<1> HIDE DEF n, P
<1>10. Clean(s) => Clean(n)
  <2>1. \A k \in (P + 1)..Last : k \in P..Last /\ k \in 0..Last /\ k # P
    BY <1>3, SizesLemma
  <2> QED
    BY <1>7, <1>9, <2>1 DEF Clean, P
<1>11. ASSUME NEW t \in Seq(Glyphs), Shows(s, t) PROVE Shows(n, Append(t, c))
  <2> DEFINE L == Len(t)
             u == Append(t, c)
  <2>1. L \in Nat /\ L <= P /\ \A k \in 1..L : s.cell[P - L + k - 1] = t[k]
    BY <1>11 DEF Shows, P
  <2>2. Len(u) = L + 1 /\ u[L + 1] = c /\ \A k \in 1..L : u[k] = t[k]
    OBVIOUS
  <2>3. Clean(n)
    BY <1>10, <1>11 DEF Shows
  <2> HIDE DEF u, L
  <2>4. ASSUME NEW k \in 1..(L + 1) PROVE n.cell[Place(n) - (L + 1) + k - 1] = u[k]
    <3>0. Place(n) - (L + 1) + k - 1 = P - L + k - 1
      BY <1>3, <1>7, <2>1
    <3>1. CASE k = L + 1
      <4>1. P - L + k - 1 = P
        BY <1>3, <2>1, <3>1
      <4> QED
        BY <1>9, <2>2, <3>0, <3>1, <4>1
    <3>2. CASE k # L + 1
      <4>1. k \in 1..L /\ P - L + k - 1 \in 0..Last /\ P - L + k - 1 # P
        BY <1>3, <2>1, <3>2, SizesLemma
      <4> QED
        BY <1>9, <2>1, <2>2, <3>0, <4>1
    <3> QED
      BY <3>1, <3>2
  <2> QED
    BY <1>3, <1>7, <2>1, <2>2, <2>3, <2>4 DEF Shows, u
<1> QED
  BY <1>3, <1>4, <1>6, <1>7, <1>8, <1>10, <1>11 DEF n, P

LEMMA GlyphsLemma == /\ Space \in Glyphs /\ Backspace \in Glyphs /\ Plain \subseteq Glyphs
                     /\ Char \subseteq Plain
                     /\ \A c \in Plain : c # Backspace /\ c # "\n" /\ c # NUL
BY ConsoleAssumption DEF Glyphs, Plain

\* A character that takes a cell goes behind the text.
LEMMA ShowLemma ==
  ASSUME NEW s \in Screens, NEW c \in Glyphs
  PROVE  /\ Show(s, c) \in Screens
         /\ Clean(s) => Clean(Show(s, c))
         /\ \A t \in Seq(Glyphs) : Shows(s, t) /\ Len(t) <= WIDTH * (HEIGHT - 1)
                                     => Shows(Show(s, c), Append(t, c))
<1> DEFINE at == IF s.x >= WIDTH THEN newline(s) ELSE s
<1>1. s.x \in 0..WIDTH
  BY DEF Screens
<1>2. at \in Screens /\ at.x < WIDTH /\ (Clean(s) => Clean(at))
  BY <1>1, NewlineLemma, SizesLemma
<1>3. Show(s, c) = Put(at, c)
  BY DEF Show, Put
<1>4. ASSUME NEW t \in Seq(Glyphs), Shows(s, t), Len(t) <= WIDTH * (HEIGHT - 1)
      PROVE  Shows(at, t)
  <2>1. CASE s.x >= WIDTH
    <3>1. s.x = WIDTH
      BY <1>1, <2>1, SizesLemma
    <3> QED
      BY <1>4, <3>1, <2>1, WrapLemma
  <2>2. CASE ~(s.x >= WIDTH)
    BY <1>4, <2>2
  <2> QED
    BY <2>1, <2>2
<1> HIDE DEF at
<1>5. Put(at, c) \in Screens /\ (Clean(at) => Clean(Put(at, c)))
  BY <1>2, PutLemma
<1>6. ASSUME NEW t \in Seq(Glyphs), Shows(s, t), Len(t) <= WIDTH * (HEIGHT - 1)
      PROVE  Shows(Put(at, c), Append(t, c))
  <2>1. Shows(at, t)
    BY <1>4, <1>6
  <2> QED
    BY <1>2, <2>1, PutLemma
<1> QED
  BY <1>2, <1>3, <1>5, <1>6

\* The cursor's move of a backspace: one cell back, over the edge of a row too.
LEMMA BackLemma ==
  ASSUME NEW s \in Screens
  PROVE  /\ Back(s) \in Screens /\ Back(s).x < WIDTH /\ Back(s).cell = s.cell
         /\ Place(s) \in Nat /\ Place(Back(s)) \in Nat /\ Place(Back(s)) <= Place(s)
         /\ Place(Back(s)) \in 0..Last
         /\ Place(s) # 0 => Place(Back(s)) = Place(s) - 1
<1> DEFINE b == Back(s)
<1>0. s = [cell |-> s.cell, x |-> s.x, y |-> s.y]
  BY DEF Screens
<1>1. s.cell \in [0..Last -> Glyphs] /\ s.x \in 0..WIDTH /\ s.y \in 0..(HEIGHT - 1)
  BY DEF Screens
<1>2. RowsLemma(s.y)
  BY <1>1, RowLemma
<1>3. PICK a \in Nat : a = s.y * WIDTH /\ a + WIDTH <= WIDTH * HEIGHT
  BY <1>2, SizesLemma DEF RowsLemma
<1>4. PICK w \in Nat : w = WIDTH * HEIGHT /\ Last = w - 1
  BY SizesLemma
<1>5. Place(s) = a + s.x
  BY <1>3 DEF Place
<1>6. CASE s.x > 0
  <2>1. b = [cell |-> s.cell, x |-> s.x - 1, y |-> s.y]
    BY <1>0, <1>6 DEF Back
  <2>2. s.x - 1 \in 0..WIDTH /\ s.x - 1 < WIDTH /\ s.x - 1 \in Int
    BY <1>1, <1>6, SizesLemma
  <2>3. Place(b) = a + s.x - 1
    <3>1. Place(b) = a + (s.x - 1)
      BY <1>3, <2>1 DEF Place
    <3> QED
      BY <1>1, <1>3, <3>1
  <2>4. b \in Screens /\ b.x < WIDTH /\ b.cell = s.cell
    BY <1>1, <2>1, <2>2 DEF Screens
  <2>5. PICK c \in Nat : c = s.x
    BY <1>1
  <2>6. /\ a \in Nat /\ c \in Nat /\ w \in Nat /\ c <= WIDTH /\ WIDTH \in Nat /\ c > 0
        /\ a + WIDTH <= w /\ Place(s) = a + c /\ Place(b) = a + c - 1 /\ Last = w - 1
    BY <1>1, <1>3, <1>4, <1>5, <1>6, <2>3, <2>5, SizesLemma
  <2>7. /\ Place(s) \in Nat /\ Place(b) \in Nat /\ Place(b) <= Place(s)
        /\ Place(b) \in 0..Last /\ Place(b) = Place(s) - 1
    <3> HIDE DEF b
    <3> QED
      BY <2>6
  <2> QED
    BY <2>4, <2>7
<1>7. CASE ~(s.x > 0) /\ s.y > 0
  <2>1. b = [cell |-> s.cell, x |-> WIDTH - 1, y |-> s.y - 1]
    BY <1>0, <1>7 DEF Back
  <2>2. WIDTH - 1 \in 0..WIDTH /\ WIDTH - 1 < WIDTH /\ s.y - 1 \in 0..(HEIGHT - 1) /\ s.x = 0
    BY <1>1, <1>7, SizesLemma
  <2>3. RowsLemma(s.y - 1)
    BY <2>2, RowLemma
  <2>4. a = (s.y - 1) * WIDTH + WIDTH
    <3>1. (s.y - 1) + 1 = s.y
      BY <1>1
    <3> QED
      BY <1>3, <2>3, <3>1 DEF RowsLemma
  <2>5. PICK c \in Nat : c = (s.y - 1) * WIDTH
    BY <2>3 DEF RowsLemma
  <2>6. Place(b) = c + (WIDTH - 1) /\ a = c + WIDTH
    BY <2>1, <2>4, <2>5 DEF Place
  <2>7. b \in Screens /\ b.x < WIDTH /\ b.cell = s.cell
    BY <1>1, <2>1, <2>2 DEF Screens
  <2> QED
    <3>1. /\ a \in Nat /\ c \in Nat /\ w \in Nat /\ WIDTH \in Nat /\ WIDTH > 0 /\ s.x = 0
          /\ a + WIDTH <= w /\ Place(s) = a + s.x /\ Last = w - 1
          /\ Place(b) = c + (WIDTH - 1) /\ a = c + WIDTH
      BY <1>3, <1>4, <1>5, <2>2, <2>6, SizesLemma
    <3>2. /\ Place(s) \in Nat /\ Place(b) \in Nat /\ Place(b) <= Place(s)
          /\ Place(b) \in 0..Last /\ Place(b) = Place(s) - 1
      <4> HIDE DEF b
      <4> QED
        BY <3>1
    <3> QED
      BY <2>7, <3>2
<1>8. CASE ~(s.x > 0) /\ ~(s.y > 0)
  <2>1. b = s /\ s.x = 0 /\ s.y = 0 /\ 0 < WIDTH
    <3>1. WIDTH \in Nat /\ WIDTH # 0 /\ HEIGHT \in Nat
      BY SizesLemma
    <3> QED
      BY <1>1, <1>8, <3>1 DEF Back
  <2>2. Place(s) = 0
    BY <2>1, SizesLemma DEF Place
  <2> QED
    BY <2>1, <2>2, SizesLemma
<1> QED
  BY <1>6, <1>7, <1>8

\* A backspace blanks the cell before the cursor, and takes the last character
\* of a text back.
LEMMA EraseLemma ==
  ASSUME NEW s \in Screens
  PROVE  /\ put_char(s, Backspace) \in Screens /\ put_char(s, Backspace).x < WIDTH
         /\ Clean(s) => Clean(put_char(s, Backspace))
         /\ \A t \in Seq(Glyphs), c \in Glyphs :
              Shows(s, Append(t, c)) => Shows(put_char(s, Backspace), t)
<1> DEFINE b == Back(s)
           P == Place(b)
           n == put_char(s, Backspace)
<1>1. /\ b \in Screens /\ b.x < WIDTH /\ b.cell = s.cell /\ P \in 0..Last
      /\ Place(s) \in Nat /\ P \in Nat /\ P <= Place(s)
      /\ Place(s) # 0 => P = Place(s) - 1
  BY BackLemma
<1>2. n = [b EXCEPT !.cell[b.y * WIDTH + b.x] = Space]
  BY DEF put_char, Backspace
<1>3. n = [cell |-> [b.cell EXCEPT ![P] = Space], x |-> b.x, y |-> b.y]
  <2>1. b = [cell |-> b.cell, x |-> b.x, y |-> b.y]
    BY <1>1 DEF Screens
  <2> HIDE DEF b, n
  <2> QED
    BY <1>2, <2>1 DEF Place
<1>4. b.cell \in [0..Last -> Glyphs] /\ s.cell \in [0..Last -> Glyphs] /\ b.x \in 0..WIDTH /\ b.y \in 0..(HEIGHT - 1)
  BY <1>1 DEF Screens
<1> HIDE DEF b, n
<1>5. n \in Screens /\ n.x < WIDTH
  <2>1. [b.cell EXCEPT ![P] = Space] \in [0..Last -> Glyphs]
    BY <1>4, GlyphsLemma
  <2> QED
    BY <1>1, <1>3, <1>4, <2>1 DEF Screens
<1>6. Place(n) = P
  BY <1>3 DEF Place
<1>7. n.cell[P] = Space /\ \A k \in 0..Last : k # P => n.cell[k] = s.cell[k]
  BY <1>1, <1>3, <1>4
<1> HIDE DEF P
<1>8. Clean(s) => Clean(n)
  <2>1. ASSUME Clean(s), NEW k \in P..Last PROVE n.cell[k] = Space
    <3>1. CASE k = P
      BY <1>7, <3>1
    <3>2. CASE k # P
      <4>1. k \in 0..Last /\ k \in Place(s)..Last
        BY <1>1, <3>2, SizesLemma
      <4> QED
        BY <1>7, <2>1, <3>2, <4>1 DEF Clean
    <3> QED
      BY <3>1, <3>2
  <2> QED
    BY <1>6, <2>1 DEF Clean
<1>9. ASSUME NEW t \in Seq(Glyphs), NEW c \in Glyphs, Shows(s, Append(t, c))
      PROVE  Shows(n, t)
  <2> DEFINE u == Append(t, c)
             L == Len(t)
  <2>1. L \in Nat /\ Len(u) = L + 1 /\ \A k \in 1..L : u[k] = t[k] /\ k \in 1..(L + 1)
    OBVIOUS
  <2>2. L + 1 <= Place(s) /\ Clean(s) /\ \A k \in 1..(L + 1) : s.cell[Place(s) - (L + 1) + k - 1] = u[k]
    BY <1>9, <2>1 DEF Shows
  <2> HIDE DEF u, L
  <2>3. P = Place(s) - 1
    BY <1>1, <2>1, <2>2
  <2>4. ASSUME NEW k \in 1..L PROVE n.cell[P - L + k - 1] = t[k]
    <3>0. Last \in Nat
      BY SizesLemma
    <3>1. P - L + k - 1 \in 0..Last /\ P - L + k - 1 # P /\ P - L + k - 1 = Place(s) - (L + 1) + k - 1
      BY <1>1, <2>1, <2>2, <2>3, <3>0
    <3> QED
      BY <1>7, <2>1, <2>2, <3>1
  <2> QED
    BY <1>1, <1>6, <1>8, <2>1, <2>2, <2>3, <2>4 DEF Shows, L
<1> QED
  BY <1>5, <1>8, <1>9 DEF n

LEMMA PutCharLemma ==
  ASSUME NEW s \in Screens, NEW c \in Glyphs
  PROVE  put_char(s, c) \in Screens /\ (Clean(s) => Clean(put_char(s, c)))
<1>1. CASE c = Backspace
  BY <1>1, EraseLemma
<1>2. CASE c # Backspace /\ c = "\n"
  <2>1. put_char(s, c) = newline(s)
    BY <1>2 DEF put_char
  <2> QED
    BY <2>1, NewlineLemma
<1>3. CASE c # Backspace /\ c # "\n"
  <2>1. put_char(s, c) = Show(s, c)
    BY <1>3 DEF put_char
  <2> QED
    BY <2>1, ShowLemma
<1> QED
  BY <1>1, <1>2, <1>3

\* A text is put character by character.
IsPut(f, s, text) == /\ f \in [0..Len(text) -> Screens] /\ f[0] = s
                     /\ \A k \in 1..Len(text) : f[k] = put_char(f[k - 1], text[k])
LEMMA PutStringLemma ==
  ASSUME NEW s \in Screens, NEW text \in Seq(Glyphs)
  PROVE  \E f : IsPut(f, s, text) /\ put_string(s, text) = f[Len(text)]
<1> DEFINE N == Len(text)
           F == [v \in (1..N) \X Screens |-> put_char(v[2], text[v[1]])]
           Def(f) == f = [k \in 0..N |-> IF k = 0 THEN s ELSE put_char(f[k - 1], text[k])]
<1>1. N \in Nat /\ \A k \in 1..N : text[k] \in Glyphs
  OBVIOUS
<1>2. F \in [(1..N) \X Screens -> Screens]
  <2>1. \A k \in 1..N : \A w \in Screens : put_char(w, text[k]) \in Screens
    BY <1>1, PutCharLemma
  <2> QED
    BY <2>1
<1>3. \A k \in 1..N, v \in Screens : F[<<k, v>>] = put_char(v, text[k])
  OBVIOUS
<1> HIDE DEF F
<1>4. PICK f : Recursion(f, N, Screens, s, F)
  BY <1>1, <1>2, IntervalRecursion
<1>5. Def(f)
  <2>1. f \in [0..N -> Screens] /\ f = [k \in 0..N |-> IF k = 0 THEN s ELSE F[<<k, f[k - 1]>>]]
    BY <1>4 DEF Recursion
  <2>2. \A k \in 0..N : k # 0 => k \in 1..N /\ f[k - 1] \in Screens
    <3> HIDE DEF N
    <3>1. \A k \in 0..N : k # 0 => k \in 1..N /\ k - 1 \in 0..N
      BY <1>1
    <3> QED
      BY <2>1, <3>1
  <2>3. \A k \in 0..N : (IF k = 0 THEN s ELSE F[<<k, f[k - 1]>>])
                          = (IF k = 0 THEN s ELSE put_char(f[k - 1], text[k]))
    BY <1>3, <2>2
  <2> QED
    BY <2>1, <2>3
<1> DEFINE g == CHOOSE h : Def(h)
<1>6. put_string(s, text) = g[N]
  BY DEF put_string
<1>7. Def(g)
  BY <1>5
<1> HIDE DEF g
<1>8. g[0] = s /\ \A k \in 1..N : g[k] = put_char(g[k - 1], text[k])
  <2>1. 0 \in 0..N /\ \A k \in 1..N : k \in 0..N /\ k # 0
    BY <1>1
  <2> HIDE DEF N
  <2> QED
    BY <1>7, <2>1
<1>9. \A k \in 0..N : g[k] \in Screens
  <2>1. \A k \in 1..N : g[k - 1] \in Screens => g[k] \in Screens
    <3>1. ASSUME NEW k \in 1..N, g[k - 1] \in Screens PROVE put_char(g[k - 1], text[k]) \in Screens
      BY <1>1, <3>1, PutCharLemma
    <3> QED
      BY <1>8, <3>1
  <2>2. g[0] \in Screens
    BY <1>8
  <2> QED
    BY <1>1, <2>1, <2>2, IntervalRange
<1>10. g = [k \in 0..N |-> g[k]]
  BY <1>7
<1>11. IsPut(g, s, text)
  BY <1>8, <1>9, <1>10 DEF IsPut
<1> QED
  BY <1>6, <1>11

LEMMA TextLemma ==
  ASSUME NEW s \in Screens, NEW text \in Seq(Glyphs)
  PROVE  put_string(s, text) \in Screens /\ (Clean(s) => Clean(put_string(s, text)))
<1> DEFINE N == Len(text)
<1>1. PICK f : IsPut(f, s, text) /\ put_string(s, text) = f[N]
  BY PutStringLemma
<1>2. /\ N \in Nat /\ \A k \in 1..N : text[k] \in Glyphs /\ k - 1 \in 0..N
      /\ f \in [0..N -> Screens] /\ f[0] = s
      /\ \A k \in 1..N : f[k] = put_char(f[k - 1], text[k])
  BY <1>1 DEF IsPut
<1> HIDE DEF N
<1>3. ASSUME Clean(s) PROVE Clean(f[N])
  <2> DEFINE S == {n \in Screens : Clean(n)}
  <2>1. ASSUME NEW k \in 1..N, f[k - 1] \in S PROVE f[k] \in S
    <3>1. f[k - 1] \in Screens /\ Clean(f[k - 1]) /\ text[k] \in Glyphs
      BY <1>2, <2>1
    <3> QED
      BY <1>2, <3>1, PutCharLemma
  <2>2. f[0] \in S
    BY <1>2, <1>3
  <2> HIDE DEF S
  <2>3. \A k \in 0..N : f[k] \in S
    BY <1>2, <2>1, <2>2, IntervalRange
  <2> QED
    BY <1>2, <2>3 DEF S
<1> QED
  BY <1>1, <1>2, <1>3

\* A text without control characters stands behind what was there.
LEMMA PlainLemma ==
  ASSUME NEW s \in Screens, NEW t \in Seq(Glyphs), NEW text \in Seq(Plain),
         Shows(s, t), Len(t) + Len(text) <= WIDTH * (HEIGHT - 1)
  PROVE  Shows(put_string(s, text), t \o text)
<1> DEFINE N == Len(text)
           L == Len(t)
           H == WIDTH * (HEIGHT - 1)
           U(k) == t \o SubSeq(text, 1, k)
<1>0. text \in Seq(Glyphs)
  BY GlyphsLemma
<1>1. PICK f : IsPut(f, s, text) /\ put_string(s, text) = f[N]
  BY <1>0, PutStringLemma
<1>2. /\ N \in Nat /\ \A k \in 1..N : text[k] \in Plain /\ k - 1 \in 0..N
      /\ f \in [0..N -> Screens] /\ f[0] = s
      /\ \A k \in 1..N : f[k] = put_char(f[k - 1], text[k])
  BY <1>0, <1>1 DEF IsPut
<1>3. ASSUME NEW k \in 0..N
      PROVE  /\ U(k) \in Seq(Glyphs) /\ Len(U(k)) = L + k /\ L \in Nat
             /\ k < N => U(k + 1) = Append(U(k), text[k + 1])
  <2>1. /\ L \in Nat /\ SubSeq(text, 1, k) \in Seq(Glyphs) /\ Len(SubSeq(text, 1, k)) = k
        /\ \A j \in 1..k : SubSeq(text, 1, k)[j] = text[j]
    BY <1>0, <1>2
  <2>2. ASSUME k < N PROVE U(k + 1) = Append(U(k), text[k + 1])
    <3>1. SubSeq(text, 1, k + 1) = Append(SubSeq(text, 1, k), text[k + 1])
      BY <1>0, <1>2, <2>2
    <3>2. text[k + 1] \in Glyphs
      BY <1>0, <1>2, <2>2
    <3> QED
      BY <2>1, <3>1, <3>2
  <2> QED
    BY <2>1, <2>2
<1> HIDE DEF N, L, U
<1>4. 0 \in {k \in 0..N : Shows(f[k], U(k))}
  <2>1. U(0) = t
    BY <1>0 DEF U
  <2> QED
    BY <1>2, <2>1
<1>5. ASSUME NEW n \in 0..(N - 1), n \in {k \in 0..N : Shows(f[k], U(k))}
      PROVE  n + 1 \in {k \in 0..N : Shows(f[k], U(k))}
  <2>1. n \in 0..N /\ n + 1 \in 0..N /\ n + 1 \in 1..N /\ n < N /\ (n + 1) - 1 = n
    BY <1>2
  <2>2. f[n] \in Screens /\ Shows(f[n], U(n)) /\ text[n + 1] \in Plain
        /\ f[n + 1] = put_char(f[n], text[n + 1])
    BY <1>2, <1>5, <2>1
  <2>3. f[n + 1] = Show(f[n], text[n + 1])
    BY <2>2, GlyphsLemma DEF put_char
  <2>4. U(n) \in Seq(Glyphs) /\ Len(U(n)) <= H
    <3>1. U(n) \in Seq(Glyphs) /\ Len(U(n)) = L + n /\ L \in Nat
      BY <1>3, <2>1
    <3>2. L + N <= H
      BY DEF L, N
    <3>3. H \in Int
      BY SizesLemma
    <3> QED
      BY <1>2, <2>1, <3>1, <3>2, <3>3
  <2>5. Shows(f[n + 1], Append(U(n), text[n + 1]))
    BY <2>2, <2>3, <2>4, GlyphsLemma, ShowLemma
  <2> QED
    BY <1>3, <2>1, <2>5
<1>6. \A k \in 0..N : k \in {l \in 0..N : Shows(f[l], U(l))}
  <2> DEFINE A == {l \in 0..N : Shows(f[l], U(l))}
  <2>1. 0 \in A /\ \A n \in 0..(N - 1) : n \in A => n + 1 \in A
    BY <1>4, <1>5
  <2> HIDE DEF A
  <2>2. \A k \in 0..N : k \in A
    BY <1>2, <2>1, IntervalInduction
  <2> QED
    BY <2>2 DEF A
<1>7. U(N) = t \o text
  BY <1>0 DEF U, N
<1>8. Shows(f[N], U(N))
  BY <1>2, <1>6
<1> QED
  BY <1>1, <1>7, <1>8 DEF N

\* Taking back a character: backspace, space, backspace.
LEMMA TakeBackLemma ==
  ASSUME NEW s \in Screens, NEW t \in Seq(Glyphs), NEW c \in Glyphs, Shows(s, Append(t, c))
  PROVE  /\ put_string(s, <<Backspace, Space, Backspace>>) \in Screens
         /\ Shows(put_string(s, <<Backspace, Space, Backspace>>), t)
<1> DEFINE text == <<Backspace, Space, Backspace>>
<1>1. /\ text \in Seq(Glyphs) /\ Len(text) = 3
      /\ text[1] = Backspace /\ text[2] = Space /\ text[3] = Backspace
  BY GlyphsLemma
<1> HIDE DEF text
<1>2. PICK f : IsPut(f, s, text) /\ put_string(s, text) = f[3]
  BY <1>1, PutStringLemma
<1>3. /\ f[0] = s /\ f[1] = put_char(f[0], Backspace)
      /\ f[2] = put_char(f[1], Space) /\ f[3] = put_char(f[2], Backspace)
  <2>1. \A k \in 1..3 : f[k] = put_char(f[k - 1], text[k])
    BY <1>1, <1>2 DEF IsPut
  <2>2. 1 \in 1..3 /\ 2 \in 1..3 /\ 3 \in 1..3 /\ 1 - 1 = 0 /\ 2 - 1 = 1 /\ 3 - 1 = 2
    OBVIOUS
  <2> QED
    BY <1>1, <1>2, <2>1, <2>2 DEF IsPut
<1>4. f[1] \in Screens /\ f[1].x < WIDTH /\ Shows(f[1], t)
  BY <1>3, EraseLemma
<1>5. f[2] = Put(f[1], Space)
  <2>1. put_char(f[1], Space) = Show(f[1], Space)
    BY DEF put_char, Space, Backspace
  <2>2. ~(f[1].x >= WIDTH)
    BY <1>4, SizesLemma DEF Screens
  <2> QED
    BY <1>3, <2>1, <2>2 DEF Show, Put
<1>6. f[2] \in Screens /\ Shows(f[2], Append(t, Space))
  <2>1. Space \in Glyphs
    BY GlyphsLemma
  <2>2. Put(f[1], Space) \in Screens
    BY <1>4, <2>1, PutLemma
  <2>3. Shows(Put(f[1], Space), Append(t, Space))
    BY <1>4, <2>1, PutLemma
  <2> QED
    BY <1>5, <2>2, <2>3
<1>7. f[3] \in Screens /\ Shows(f[3], t)
  BY <1>3, <1>6, GlyphsLemma, EraseLemma
<1> QED
  BY <1>2, <1>7 DEF text

----------------------------------------------------------------------------
\* The inductive invariant: the keys, the buffer and the screen.
Chars == Char \cup {NUL, Garbage}
Buffers(r) == [0..(Size[r] - 1) -> Chars]

Kbd == /\ shift_pressed \in BOOLEAN /\ capslock_on \in BOOLEAN
       /\ down \subseteq ShiftKeys /\ missed \in BOOLEAN
       /\ ShiftRecovers

\* What was typed is in the buffer; the shell's has zeros behind it.
Buffer == /\ reader \in Readers /\ input \in Buffers(reader)
          /\ input_len \in 0..(Size[reader] - 1)
          /\ \A k \in 0..(input_len - 1) : input[k] \in Char
          /\ reader = "shell" => \A k \in input_len..(Size[reader] - 1) : input[k] = NUL

Seen == screen \in Screens /\ Shows(screen, Visible)

IInv == Kbd /\ Buffer /\ Seen /\ ran.reader \in Readers \cup {"none"}

LEMMA SizeLemma == /\ \A r \in Readers : Size[r] \in Nat /\ Size[r] - 1 \in Nat /\ Size[r] >= 2
                   /\ Size["shell"] = MAX_CMD_LEN /\ "shell" \in Readers
                   /\ "sql" \in Readers /\ "format" \in Readers
                   /\ \A r \in Readers : r = "shell" \/ r = "sql" \/ r = "format"
<1>1. \A r \in Readers : Size[r] \in Nat \ {0, 1}
  BY ConsoleAssumption
<1>2. \A r \in Readers : Size[r] \in Nat /\ Size[r] - 1 \in Nat /\ Size[r] >= 2
  BY <1>1
<1> QED
  BY <1>2 DEF Size, Readers

LEMMA PromptLemma ==
  \A r \in Readers : /\ Prompt[r] \in Seq(Plain) /\ Prompt[r] \in Seq(Glyphs)
                     /\ Len(Prompt[r]) + Size[r] - 1 <= WIDTH * (HEIGHT - 1)
                     /\ Len(Prompt[r]) <= WIDTH * (HEIGHT - 1)
<1>1. ASSUME NEW r \in Readers
      PROVE  /\ Prompt[r] \in Seq(Plain) /\ Prompt[r] \in Seq(Glyphs)
             /\ Len(Prompt[r]) + Size[r] - 1 <= WIDTH * (HEIGHT - 1)
             /\ Len(Prompt[r]) <= WIDTH * (HEIGHT - 1)
  <2>1. Prompt[r] \in Seq(Plain) /\ Len(Prompt[r]) + Size[r] - 1 <= WIDTH * (HEIGHT - 1)
    BY ConsoleAssumption
  <2>2. Prompt[r] \in Seq(Glyphs)
    BY <2>1, GlyphsLemma
  <2>3. Len(Prompt[r]) \in Nat /\ WIDTH * (HEIGHT - 1) \in Int
    BY <2>1, SizesLemma
  <2> QED
    BY <2>1, <2>2, <2>3, SizeLemma
<1> QED
  BY <1>1

\* A reader begins with an empty line behind its prompt.
LEMMA BeginLemma ==
  ASSUME NEW r \in Readers, NEW b \in Buffers(r), NEW s \in Screens, Clean(s),
         r = "shell" => b = EmptyLine, Begin(r, b, s)
  PROVE  Buffer' /\ Seen'
<1>1. reader' = r /\ input' = b /\ input_len' = 0 /\ screen' = put_string(s, Prompt[r])
  BY DEF Begin
<1>2. Buffer'
  <2>1. \A k \in 0..(0 - 1) : b[k] \in Char
    OBVIOUS
  <2>2. r = "shell" => \A k \in 0..(Size[r] - 1) : b[k] = NUL
    BY SizeLemma DEF EmptyLine
  <2>3. 0 \in 0..(Size[r] - 1)
    BY SizeLemma
  <2> QED
    BY <1>1, <2>1, <2>2, <2>3 DEF Buffer
<1>3. Prompt[r] \in Seq(Plain) /\ Prompt[r] \in Seq(Glyphs) /\ Len(Prompt[r]) <= WIDTH * (HEIGHT - 1)
  BY PromptLemma
<1>4. Visible' = Prompt[r]
  <2>1. Line' = << >>
    BY <1>1 DEF Line
  <2> QED
    BY <1>1, <1>3, <2>1 DEF Visible
<1>5. Shows(s, << >>)
  <2>1. 0 <= Place(s)
    BY BackLemma
  <2> QED
    BY <2>1 DEF Shows
<1>6. Shows(put_string(s, Prompt[r]), << >> \o Prompt[r])
  <2>1. << >> \in Seq(Glyphs) /\ Len(<< >>) + Len(Prompt[r]) = Len(Prompt[r])
    BY <1>3
  <2> QED
    BY <1>3, <1>5, <2>1, PlainLemma
<1>7. << >> \o Prompt[r] = Prompt[r]
  BY <1>3
<1>8. put_string(s, Prompt[r]) \in Screens
  BY <1>3, TextLemma
<1> QED
  BY <1>1, <1>2, <1>4, <1>6, <1>7, <1>8 DEF Seen

LEMMA EmptyLineLemma == EmptyLine \in Buffers("shell")
BY SizeLemma DEF EmptyLine, Buffers, Chars

LEMMA StackLemma == \A r \in Readers : Stack(r) \subseteq Buffers(r)
BY DEF Stack, Buffers, Chars

LEMMA ClearLemma == clear \in Screens /\ Clean(clear)
<1>1. Blank \in [0..Last -> Glyphs] /\ 0 \in 0..WIDTH /\ 0 \in 0..(HEIGHT - 1)
  BY SizesLemma, GlyphsLemma DEF Blank
<1>2. clear \in Screens
  BY <1>1 DEF clear, Screens
<1>3. Place(clear) = 0
  BY SizesLemma DEF Place, clear
<1> QED
  BY <1>2, <1>3 DEF Clean, clear, Blank

LEMMA OutputLemma ==
  ASSUME NEW s \in Screens, Clean(s), NEW text \in Outputs
  PROVE  put_string(s, text) \in Screens /\ Clean(put_string(s, text))
<1>1. text \in Seq(Glyphs)
  BY ConsoleAssumption
<1> QED
  BY <1>1, TextLemma

\* Keys that moved unseen are remembered.
LEMMA UnseenLemma == ASSUME Kbd, Unseen \/ UNCHANGED kbd PROVE Kbd'
<1>1. CASE Unseen
  BY <1>1 DEF Kbd, Unseen, ShiftRecovers
<1>2. CASE UNCHANGED kbd
  BY <1>2 DEF Kbd, kbd, ShiftRecovers
<1> QED
  BY <1>1, <1>2

\* The end of a line, whoever reads it and whatever runs.
LEMMA FinishLemma ==
  ASSUME IInv, NEW b \in Buffers(reader), NEW s \in Screens, Clean(s), Finish(b, s)
  PROVE  IInv' /\ (ran' # Nothing => ran'.text = Text(b) /\ ran'.behind = Leftover(b))
<1>1. newline(s) \in Screens /\ Clean(newline(s))
  BY NewlineLemma
<1>2. reader \in Readers
  BY DEF IInv, Buffer
<1>3. CASE reader = "shell" /\ parse_command(Text(b)) = << >>
  <2>1. Begin("shell", EmptyLine, newline(s)) /\ ran' = Nothing /\ UNCHANGED kbd
    BY <1>3 DEF Finish
  <2>2. Buffer' /\ Seen'
    BY <1>1, <2>1, EmptyLineLemma, SizeLemma, BeginLemma
  <2>3. Kbd'
    BY <2>1, UnseenLemma DEF IInv
  <2> QED
    BY <2>1, <2>2, <2>3 DEF IInv, Nothing
<1>4. CASE ~(reader = "shell" /\ parse_command(Text(b)) = << >>)
  <2>1. ran' = [reader |-> reader, text |-> Text(b), behind |-> Leftover(b)] /\ Unseen
    BY <1>4 DEF Finish
  <2>2. Kbd'
    BY <2>1, UnseenLemma DEF IInv
  <2>3. ASSUME NEW n \in Screens, Clean(n), Begin("shell", EmptyLine, n) PROVE Buffer' /\ Seen'
    BY <2>3, EmptyLineLemma, SizeLemma, BeginLemma
  <2>4. CASE reader = "shell"
    <3>1. ShellRuns(newline(s))
      BY <1>4, <2>4 DEF Finish
    <3>2. ASSUME \E shown \in {put_string(newline(s), t) : t \in Outputs} \cup {clear} :
                   Begin("shell", EmptyLine, shown)
          PROVE  Buffer' /\ Seen'
      <4>1. PICK shown \in {put_string(newline(s), t) : t \in Outputs} \cup {clear} :
                 Begin("shell", EmptyLine, shown)
        BY <3>2
      <4>2. shown \in Screens /\ Clean(shown)
        BY <1>1, OutputLemma, ClearLemma
      <4> QED
        BY <2>3, <4>1, <4>2
    <3>3. ASSUME \E r \in {"sql", "format"} : \E c \in Stack(r) : Begin(r, c, newline(s))
          PROVE  Buffer' /\ Seen'
      <4>1. PICK r \in {"sql", "format"} : \E c \in Stack(r) : Begin(r, c, newline(s))
        BY <3>3
      <4>2. PICK c \in Stack(r) : Begin(r, c, newline(s))
        BY <4>1
      <4>3. r \in Readers /\ c \in Buffers(r) /\ r # "shell"
        BY StackLemma, SizeLemma
      <4> QED
        BY <1>1, <4>2, <4>3, BeginLemma
    <3>4. Buffer' /\ Seen'
      BY <3>1, <3>2, <3>3 DEF ShellRuns
    <3> QED
      BY <1>2, <2>1, <2>2, <3>4 DEF IInv
  <2>5. CASE reader = "sql"
    <3>1. SqlRuns(b, newline(s))
      BY <1>4, <2>5 DEF Finish
    <3>2. ASSUME Text(b) \in Exits PROVE Buffer' /\ Seen'
      BY <1>1, <2>3, <3>1, <3>2 DEF SqlRuns
    <3>3. ASSUME Text(b) \notin Exits PROVE Buffer' /\ Seen'
      <4>1. PICK text \in IF Text(b) = << >> THEN {<< >>} ELSE Outputs :
                   Begin("sql", b, put_string(newline(s), text))
        BY <3>1, <3>3 DEF SqlRuns
      <4>2. text \in Seq(Glyphs)
        <5>1. << >> \in Seq(Glyphs) /\ Outputs \subseteq Seq(Glyphs)
          BY ConsoleAssumption
        <5> QED
          BY <4>1, <5>1
      <4>3. put_string(newline(s), text) \in Screens /\ Clean(put_string(newline(s), text))
        BY <1>1, <4>2, TextLemma
      <4> QED
        BY <2>5, <4>1, <4>3, SizeLemma, BeginLemma
    <3>4. Buffer' /\ Seen'
      BY <3>2, <3>3
    <3> QED
      BY <1>2, <2>1, <2>2, <3>4 DEF IInv
  <2>6. CASE reader = "format"
    <3>1. FormatRuns(newline(s))
      BY <1>4, <2>6 DEF Finish
    <3>2. PICK text \in Outputs : Begin("shell", EmptyLine, put_string(newline(s), text))
      BY <3>1 DEF FormatRuns
    <3>3. put_string(newline(s), text) \in Screens /\ Clean(put_string(newline(s), text))
      BY <1>1, OutputLemma
    <3>4. Buffer' /\ Seen'
      BY <2>3, <3>2, <3>3
    <3> QED
      BY <1>2, <2>1, <2>2, <3>4 DEF IInv
  <2> QED
    BY <1>2, <2>4, <2>5, <2>6, SizeLemma
<1> QED
  BY <1>3, <1>4

\* The string in a buffer ends at its first zero.
LEMMA EndLemma ==
  ASSUME reader \in Readers, NEW b, NEW n \in 0..Size[reader],
         n < Size[reader] => b[n] = NUL, \A m \in 0..(n - 1) : b[m] # NUL
  PROVE  Text(b) = [k \in 1..n |-> b[k - 1]]
<1> DEFINE size == Size[reader]
           P(k) == /\ k < size => b[k] = NUL
                   /\ \A m \in 0..(k - 1) : b[m] # NUL
           end == CHOOSE k \in 0..size : P(k)
           text == [k \in 1..(end - 0) |-> b[0 + k - 1]]
<1>1. size \in Nat
  BY SizeLemma
<1>2. end \in 0..size /\ P(end)
  OBVIOUS
<1> HIDE DEF end
<1>3. end = n
  <2>1. CASE end < n
    <3>1. end \in 0..(n - 1) /\ end < size
      BY <1>1, <1>2, <2>1
    <3> QED
      BY <1>2, <3>1
  <2>2. CASE n < end
    <3>1. n \in 0..(end - 1) /\ n < size
      BY <1>1, <1>2, <2>2
    <3> QED
      BY <1>2, <3>1
  <2> QED
    BY <1>1, <1>2, <2>1, <2>2
<1>4. Text(b) = text
  BY DEF Text, TextFrom, end
<1>5. \A k \in 1..n : 0 + k - 1 = k - 1
  OBVIOUS
<1> QED
  BY <1>1, <1>3, <1>4, <1>5

\* What is run behind the end of a line is what the buffer holds from the place on
\* where the parser starts, and all of it lies in the buffer.
LEMMA LeftoverLemma ==
  ASSUME reader \in Readers, NEW b, Len(Text(b)) \in Nat, Leftover(b) # << >>
  PROVE  /\ reader = "sql" /\ Text(b) \in DOMAIN Skip
         /\ \A k \in DOMAIN Leftover(b) :
              /\ Skip[Text(b)] + k - 1 \in (Len(Text(b)) + 1)..(Size[reader] - 1)
              /\ Leftover(b)[k] = b[Skip[Text(b)] + k - 1]
<1> DEFINE size == Size[reader]
           t == Text(b)
           p == Skip[t]
           P(k) == /\ k < size => b[k] = NUL
                   /\ \A m \in p..(k - 1) : b[m] # NUL
           end == CHOOSE k \in p..size : P(k)
<1>1. reader = "sql" /\ t \in DOMAIN Skip /\ Leftover(b) = TextFrom(b, p)
  BY DEF Leftover
<1>2. size \in Nat /\ size = SQL_LEN
  BY <1>1, SizeLemma DEF Size
<1>3. p \in (Len(t) + 1)..(SQL_LEN - 1)
  BY <1>1, ConsoleAssumption
<1> HIDE DEF t, p, size
<1>4. p \in Nat /\ Len(t) \in Nat /\ Len(t) + 1 <= p /\ p < size
  BY <1>2, <1>3 DEF t
<1>5. \E k \in p..size : P(k)
  <2> DEFINE T == {k \in p..size : k < size => b[k] = NUL}
  <2>1. size \in T /\ T \subseteq Nat
    BY <1>2, <1>4
  <2>2. PICK n \in T : \A m \in T : n <= m
    <3> HIDE DEF T
    <3> QED
      BY <2>1, LeastNatural
  <2>3. \A m \in p..(n - 1) : m \in p..size /\ m < n
    BY <1>2, <1>4
  <2>4. \A m \in p..(n - 1) : b[m] # NUL
    BY <1>2, <1>4, <2>2, <2>3
  <2> QED
    BY <2>2, <2>4
<1>6. end \in p..size
  BY <1>5
<1>7. TextFrom(b, p) = [k \in 1..(end - p) |-> b[p + k - 1]]
  BY DEF TextFrom, size
<1> HIDE DEF end
<1>8. \A k \in 1..(end - p) : p + k - 1 \in (Len(t) + 1)..(size - 1)
  BY <1>2, <1>4, <1>6
<1>9. DOMAIN Leftover(b) = 1..(end - p) /\ \A k \in 1..(end - p) : Leftover(b)[k] = b[p + k - 1]
  BY <1>1, <1>7
<1> QED
  BY <1>1, <1>8, <1>9 DEF t, p, size

\* What a step that ends a line runs.
RunsLine == ran' # Nothing =>
              /\ \/ ran'.text = Line
                 \/ /\ input_len = Size[reader] - 2 /\ SubSeq(ran'.text, 1, input_len) = Line
                    /\ Len(ran'.text) = input_len + 1 \/ reader = "sql"
              /\ ran'.behind # << >> =>
                   /\ reader = "sql" /\ Line \in DOMAIN Skip
                   /\ \A k \in DOMAIN ran'.behind : ran'.behind[k] = input[Skip[Line] + k - 1]

LEMMA BufferLemma ==
  ASSUME IInv
  PROVE  /\ reader \in Readers /\ input \in Buffers(reader) /\ input_len \in Nat
         /\ Size[reader] \in Nat /\ input_len <= Size[reader] - 1 /\ Size[reader] >= 2
         /\ \A k \in 0..(input_len - 1) : input[k] \in Char /\ input[k] # NUL
         /\ reader = "shell" => \A k \in input_len..(Size[reader] - 1) : input[k] = NUL
         /\ screen \in Screens /\ Clean(screen) /\ Shows(screen, Visible)
<1>1. Buffer /\ Seen
  BY DEF IInv
<1>2. \A c \in Char : c # NUL
  BY GlyphsLemma
<1> QED
  BY <1>1, <1>2, SizeLemma DEF Buffer, Seen, Shows

LEMMA EnterStep == ASSUME IInv, enter PROVE IInv' /\ RunsLine
<1> DEFINE b == Terminated(input, input_len)
           size == Size[reader]
<1>1. /\ reader \in Readers /\ input \in Buffers(reader) /\ input_len \in Nat
      /\ size \in Nat /\ input_len <= size - 1 /\ size >= 2
      /\ \A k \in 0..(input_len - 1) : input[k] \in Char /\ input[k] # NUL
      /\ reader = "shell" => \A k \in input_len..(size - 1) : input[k] = NUL
      /\ screen \in Screens /\ Clean(screen)
  BY BufferLemma
<1> HIDE DEF size
<1>2. input \in [0..(size - 1) -> Chars] /\ NUL \in Chars /\ input_len \in 0..(size - 1)
  BY <1>1 DEF Buffers, size, Chars
<1>3. b \in Buffers(reader) /\ b[input_len] = NUL
      /\ \A k \in 0..(size - 1) : k # input_len => b[k] = input[k]
  <2>1. CASE reader = "shell"
    <3>1. input_len \in input_len..(size - 1)
      BY <1>1
    <3> QED
      BY <1>1, <2>1, <3>1 DEF Terminated
  <2>2. CASE reader # "shell"
    <3>1. b = [input EXCEPT ![input_len] = NUL]
      BY <2>2 DEF Terminated
    <3>2. b \in [0..(size - 1) -> Chars] /\ b[input_len] = NUL
      BY <1>2, <3>1
    <3> QED
      BY <1>2, <3>1, <3>2 DEF Buffers, size
  <2> QED
    BY <2>1, <2>2
<1> HIDE DEF b
<1>31. \A k \in 0..(input_len - 1) : b[k] = input[k]
  <2>1. \A k \in 0..(input_len - 1) : k \in 0..(size - 1) /\ k # input_len
    BY <1>1
  <2> QED
    BY <1>3, <2>1
<1>4. Text(b) = Line
  <2>1. input_len \in 0..Size[reader]
    BY <1>1 DEF size
  <2>2. Text(b) = [k \in 1..input_len |-> b[k - 1]]
    BY <1>1, <1>3, <1>31, <2>1, EndLemma
  <2>3. \A k \in 1..input_len : b[k - 1] = input[k - 1]
    <3>1. \A k \in 1..input_len : k - 1 \in 0..(input_len - 1)
      BY <1>1
    <3> QED
      BY <1>31, <3>1
  <2> QED
    BY <2>2, <2>3 DEF Line
<1>5. Finish(b, screen)
  BY DEF enter, b
<1>6. IInv' /\ (ran' # Nothing => ran'.text = Line /\ ran'.behind = Leftover(b))
  BY <1>1, <1>3, <1>4, <1>5, FinishLemma
<1>7. ASSUME Leftover(b) # << >>
      PROVE  /\ reader = "sql" /\ Line \in DOMAIN Skip
             /\ \A k \in DOMAIN Leftover(b) : Leftover(b)[k] = input[Skip[Line] + k - 1]
  <2>1. Len(Text(b)) = input_len
    BY <1>1, <1>2, <1>4 DEF Line
  <2>2. /\ reader = "sql" /\ Line \in DOMAIN Skip
        /\ \A k \in DOMAIN Leftover(b) : /\ Skip[Line] + k - 1 \in (input_len + 1)..(size - 1)
                                         /\ Leftover(b)[k] = b[Skip[Line] + k - 1]
    BY <1>1, <1>4, <1>7, <2>1, LeftoverLemma DEF size
  <2>3. \A j \in (input_len + 1)..(size - 1) : b[j] = input[j]
    <3>1. \A j \in (input_len + 1)..(size - 1) : j \in 0..(size - 1) /\ j # input_len
      BY <1>1
    <3> QED
      BY <1>3, <3>1
  <2> QED
    BY <2>2, <2>3
<1> QED
  BY <1>6, <1>7 DEF RunsLine

LEMMA IgnoreStep == ASSUME IInv, Ignore PROVE IInv' /\ RunsLine
<1>1. UNCHANGED <<shift_pressed, capslock_on, down, missed, reader, input, input_len, screen>>
      /\ ran' = Nothing
  BY DEF Ignore, kbd, line
<1>2. Kbd' /\ Buffer' /\ Seen'
  BY <1>1 DEF IInv, Kbd, Buffer, Seen, ShiftRecovers, Visible, Line
<1> QED
  BY <1>1, <1>2 DEF IInv, RunsLine, Nothing

LEMMA ConcatAppend ==
  ASSUME NEW S, NEW p \in Seq(S), NEW u \in Seq(S), NEW c \in S
  PROVE  p \o Append(u, c) = Append(p \o u, c)
OBVIOUS

LEMMA AppendForm ==
  ASSUME NEW S, NEW u \in Seq(S), NEW c \in S
  PROVE  Append(u, c) = [k \in 1..(Len(u) + 1) |-> IF k = Len(u) + 1 THEN c ELSE u[k]]
<1> DEFINE a == Append(u, c)
           n == Len(u) + 1
<1>1. /\ a \in Seq(S) /\ Len(a) = n /\ n \in Nat /\ n >= 1
      /\ a[n] = c /\ \A k \in 1..Len(u) : a[k] = u[k]
  OBVIOUS
<1>2. \A k \in 1..n : k # n => k \in 1..Len(u)
  OBVIOUS
<1> HIDE DEF a
<1>3. a = [k \in 1..n |-> a[k]]
  BY <1>1
<1> HIDE DEF n
<1>4. \A k \in 1..n : a[k] = IF k = n THEN c ELSE u[k]
  BY <1>1, <1>2
<1>5. a = [k \in 1..n |-> IF k = n THEN c ELSE u[k]]
  BY <1>3, <1>4
<1> QED
  BY <1>5 DEF a, n

LEMMA BackspaceStep == ASSUME IInv, backspace PROVE IInv' /\ RunsLine
<1>1. CASE input_len = 0 \/ reader = "format"
  BY <1>1, IgnoreStep DEF backspace
<1>2. CASE ~(input_len = 0 \/ reader = "format")
  <2> DEFINE n == input_len - 1
             size == Size[reader]
  <2>1. /\ input_len' = n
        /\ input' = IF reader = "shell" THEN [input EXCEPT ![n] = NUL] ELSE input
        /\ screen' = put_string(screen, <<Backspace, Space, Backspace>>)
        /\ ran' = Nothing /\ UNCHANGED kbd /\ reader' = reader
    BY <1>2 DEF backspace
  <2>2. /\ reader \in Readers /\ input \in [0..(size - 1) -> Chars] /\ input_len \in Nat
        /\ size \in Nat /\ input_len <= size - 1 /\ size >= 2
        /\ \A k \in 0..(input_len - 1) : input[k] \in Char /\ input[k] # NUL
        /\ reader = "shell" => \A k \in input_len..(size - 1) : input[k] = NUL
        /\ screen \in Screens /\ Clean(screen) /\ Shows(screen, Visible)
    BY BufferLemma DEF Buffers
  <2> HIDE DEF size
  <2>3. n \in 0..(size - 1) /\ n \in Nat /\ input_len = n + 1
    BY <1>2, <2>2
  <2> HIDE DEF n
  <2>4. /\ input' \in [0..(size - 1) -> Chars]
        /\ \A k \in 0..(n - 1) : input'[k] = input[k] /\ k \in 0..(input_len - 1)
    <3>1. \A k \in 0..(n - 1) : k \in 0..(size - 1) /\ k # n /\ k \in 0..(input_len - 1)
      BY <2>2, <2>3
    <3> QED
      BY <2>1, <2>2, <2>3, <3>1 DEF Chars
  <2>5. Buffer'
    <3>1. ASSUME reader = "shell", NEW k \in n..(size - 1) PROVE input'[k] = NUL
      <4>1. k \in 0..(size - 1) /\ (k # n => k \in input_len..(size - 1))
        BY <2>2, <2>3
      <4> QED
        BY <2>1, <2>2, <2>3, <3>1, <4>1
    <3> QED
      BY <2>1, <2>2, <2>3, <2>4, <3>1 DEF Buffer, Buffers, size
  <2>6. Line' = [k \in 1..n |-> input[k - 1]]
    <3>1. \A k \in 1..n : k - 1 \in 0..(n - 1)
      BY <2>3
    <3> QED
      BY <2>1, <2>4, <3>1 DEF Line
  <2>7. Visible' \in Seq(Glyphs) /\ input[n] \in Glyphs /\ Visible = Append(Visible', input[n])
    <3> DEFINE u == [k \in 1..n |-> input[k - 1]]
               p == Prompt[reader]
    <3>1. n \in 0..(input_len - 1) /\ \A k \in 1..(n + 1) : k - 1 \in 0..(input_len - 1)
      BY <2>3
    <3>2. \A k \in 0..(input_len - 1) : input[k] \in Glyphs
      BY <2>2, GlyphsLemma
    <3>3. u \in Seq(Glyphs) /\ Len(u) = n /\ \A k \in 1..n : u[k] = input[k - 1]
      BY <2>3, <3>1, <3>2
    <3>4. Line = Append(u, input[n])
      <4>1. Line = [k \in 1..(n + 1) |-> input[k - 1]]
        BY <2>3 DEF Line
      <4>2. Append(u, input[n]) = [k \in 1..(n + 1) |-> IF k = n + 1 THEN input[n] ELSE u[k]]
        <5> HIDE DEF u
        <5> QED
          BY <2>3, <3>3
      <4>3. \A k \in 1..(n + 1) : input[k - 1] = IF k = n + 1 THEN input[n] ELSE u[k]
        BY <2>3, <3>3
      <4> QED
        BY <4>1, <4>2, <4>3
    <3>5. p \in Seq(Glyphs)
      BY <2>2, PromptLemma
    <3> HIDE DEF u, p
    <3>6. p \o Append(u, input[n]) = Append(p \o u, input[n])
      BY <3>1, <3>2, <3>3, <3>5, ConcatAppend
    <3>7. Visible' = p \o u
      BY <2>1, <2>6 DEF Visible, u, p
    <3> QED
      BY <3>1, <3>2, <3>3, <3>4, <3>5, <3>6, <3>7 DEF Visible, p
  <2>8. Seen'
    <3>1. PICK v \in Seq(Glyphs), c \in Glyphs : v = Visible' /\ Visible = Append(v, c)
      BY <2>7
    <3>2. Shows(screen, Append(v, c))
      BY <2>2, <3>1
    <3>3. screen' \in Screens /\ Shows(screen', v)
      BY <2>1, <2>2, <3>2, TakeBackLemma
    <3> QED
      BY <3>1, <3>3 DEF Seen, Shows, Clean, Place
  <2>9. Kbd'
    BY <2>1, UnseenLemma DEF IInv
  <2> QED
    BY <2>1, <2>5, <2>8, <2>9 DEF IInv, RunsLine, Nothing
<1> QED
  BY <1>1, <1>2

\* The buffer with one more character.
TypedFact(b, c) ==
  /\ b \in Buffers(reader) /\ b[input_len] = c /\ input_len + 1 <= Size[reader] - 1
  /\ \A k \in 0..(Size[reader] - 1) : k # input_len => b[k] = input[k]
  /\ \A k \in 0..input_len : b[k] \in Char /\ b[k] # NUL

LEMMA TypedLemma ==
  ASSUME IInv, NEW c \in Char, Room
  PROVE  TypedFact([input EXCEPT ![input_len] = c], c)
<1> DEFINE b == [input EXCEPT ![input_len] = c]
           size == Size[reader]
<1>1. /\ reader \in Readers /\ input \in [0..(size - 1) -> Chars] /\ input_len \in Nat
      /\ size \in Nat /\ input_len <= size - 1
      /\ \A k \in 0..(input_len - 1) : input[k] \in Char /\ input[k] # NUL
  BY BufferLemma DEF Buffers
<1>2. input_len < size - 1
  BY DEF Room
<1> HIDE DEF size
<1>3. input_len \in 0..(size - 1) /\ c \in Chars /\ c # NUL
  BY <1>1, <1>2, GlyphsLemma DEF Chars
<1>4. b \in [0..(size - 1) -> Chars] /\ b[input_len] = c
      /\ \A k \in 0..(size - 1) : k # input_len => b[k] = input[k]
  BY <1>1, <1>3
<1>5. \A k \in 0..input_len : k \in 0..(size - 1) /\ (k # input_len => k \in 0..(input_len - 1))
  BY <1>1, <1>2
<1>6. \A k \in 0..input_len : b[k] \in Char /\ b[k] # NUL
  BY <1>1, <1>3, <1>4, <1>5
<1> HIDE DEF b
<1>7. TypedFact(b, c)
  BY <1>1, <1>2, <1>4, <1>6 DEF size, Buffers, TypedFact
<1> QED
  BY <1>7 DEF b

LEMMA GrowStep ==
  ASSUME IInv, NEW c \in Char, Room, ~Full(input_len + 1), Type(c)
  PROVE  IInv' /\ RunsLine
<1> DEFINE b == [input EXCEPT ![input_len] = c]
<1>1. /\ input' = b /\ input_len' = input_len + 1 /\ screen' = put_char(screen, c)
      /\ ran' = Nothing /\ UNCHANGED kbd /\ reader' = reader
  BY DEF Type
<1>0. TypedFact(b, c)
  BY TypedLemma
<1> HIDE DEF b
<1>2. /\ b \in Buffers(reader) /\ b[input_len] = c /\ input_len + 1 <= Size[reader] - 1
      /\ \A k \in 0..(Size[reader] - 1) : k # input_len => b[k] = input[k]
      /\ \A k \in 0..input_len : b[k] \in Char /\ b[k] # NUL
  BY <1>0 DEF TypedFact
<1>3. /\ reader \in Readers /\ input_len \in Nat /\ Size[reader] \in Nat
      /\ reader = "shell" => \A k \in input_len..(Size[reader] - 1) : input[k] = NUL
      /\ \A k \in 0..(input_len - 1) : input[k] \in Char
      /\ screen \in Screens /\ Shows(screen, Visible)
  BY BufferLemma
<1>4. Buffer'
  <2>1. input_len + 1 \in 0..(Size[reader] - 1)
    BY <1>2, <1>3
  <2>2. \A k \in 0..((input_len + 1) - 1) : b[k] \in Char
    BY <1>2, <1>3
  <2>3. ASSUME reader = "shell", NEW k \in (input_len + 1)..(Size[reader] - 1) PROVE b[k] = NUL
    <3>1. k \in 0..(Size[reader] - 1) /\ k # input_len /\ k \in input_len..(Size[reader] - 1)
      BY <1>3
    <3> QED
      BY <1>2, <1>3, <2>3, <3>1
  <2> QED
    BY <1>1, <1>2, <1>3, <2>1, <2>2, <2>3 DEF Buffer
<1>5. /\ Visible \in Seq(Glyphs) /\ Visible' = Append(Visible, c)
      /\ Len(Visible) <= WIDTH * (HEIGHT - 1)
  <2> DEFINE n == input_len
             p == Prompt[reader]
             u == [k \in 1..n |-> input[k - 1]]
  <2>1. \A k \in 1..n : k - 1 \in 0..(n - 1) /\ k - 1 \in 0..(Size[reader] - 1) /\ k - 1 # n
    BY <1>2, <1>3
  <2>2. /\ u \in Seq(Glyphs) /\ Len(u) = n /\ \A k \in 1..n : u[k] = input[k - 1]
        /\ n \in Nat
    BY <1>3, <2>1, GlyphsLemma
  <2>3. Line = u
    BY DEF Line
  <2>4. c \in Glyphs
    BY GlyphsLemma
  <2> HIDE DEF u
  <2>5. Line' = Append(u, c)
    <3>1. Line' = [k \in 1..(n + 1) |-> b[k - 1]]
      BY <1>1 DEF Line
    <3>2. Append(u, c) = [k \in 1..(n + 1) |-> IF k = n + 1 THEN c ELSE u[k]]
      <4>1. Append(u, c) = [k \in 1..(Len(u) + 1) |-> IF k = Len(u) + 1 THEN c ELSE u[k]]
        BY <2>2, <2>4, AppendForm, SMTT(30)
      <4> QED
        BY <2>2, <4>1, SMTT(30)
    <3>3. ASSUME NEW k \in 1..(n + 1) PROVE b[k - 1] = IF k = n + 1 THEN c ELSE u[k]
      <4>1. CASE k = n + 1
        BY <1>2, <1>3, <4>1
      <4>2. CASE k # n + 1
        <5>1. k \in 1..n
          BY <1>3, <4>2
        <5> QED
          BY <1>2, <2>1, <2>2, <4>2, <5>1
      <4> QED
        BY <4>1, <4>2
    <3> QED
      BY <3>1, <3>2, <3>3
  <2>6. p \in Seq(Glyphs) /\ Len(p) + Size[reader] - 1 <= WIDTH * (HEIGHT - 1)
    BY <1>3, PromptLemma
  <2> HIDE DEF p
  <2>7. Visible = p \o u /\ Visible' = p \o Append(u, c)
    BY <1>1, <2>3, <2>5 DEF Visible, p
  <2>8. Len(p \o u) = Len(p) + n /\ p \o u \in Seq(Glyphs) /\ Len(p) \in Nat
    <3> HIDE DEF n
    <3>1. u \in Seq(Glyphs) /\ p \in Seq(Glyphs) /\ Len(u) = n
      BY <2>2, <2>6
    <3> QED
      BY <3>1
  <2>9. WIDTH * (HEIGHT - 1) \in Int
    BY SizesLemma
  <2>10. p \o Append(u, c) = Append(p \o u, c)
    BY <2>2, <2>4, <2>6, ConcatAppend
  <2>11. Len(p) + n <= WIDTH * (HEIGHT - 1)
    BY <1>2, <1>3, <2>6, <2>8, <2>9
  <2> HIDE DEF n
  <2> QED
    BY <2>7, <2>8, <2>10, <2>11
<1>6. Seen'
  <2>1. c # Backspace /\ c # "\n" /\ c \in Glyphs
    BY GlyphsLemma
  <2>2. screen' = Show(screen, c)
    BY <1>1, <2>1 DEF put_char
  <2>3. PICK v \in Seq(Glyphs) : v = Visible
    BY <1>5
  <2>4. Shows(screen, v) /\ Len(v) <= WIDTH * (HEIGHT - 1)
    BY <1>3, <1>5, <2>3
  <2>5. screen' \in Screens /\ Shows(screen', Append(v, c))
    BY <1>3, <2>1, <2>2, <2>4, ShowLemma
  <2>6. PICK w : w = Visible' /\ w = Append(v, c)
    BY <1>5, <2>3
  <2> QED
    BY <2>5, <2>6 DEF Seen, Shows, Clean, Place
<1>7. Kbd'
  BY <1>1, UnseenLemma DEF IInv
<1> QED
  BY <1>1, <1>4, <1>6, <1>7 DEF IInv, RunsLine, Nothing

\* The character that fills the line of the SQL shell or of format.
LEMMA FullStep ==
  ASSUME IInv, NEW c \in Char, Room, Full(input_len + 1), Type(c)
  PROVE  IInv' /\ RunsLine
<1> DEFINE b == [input EXCEPT ![input_len] = c]
           n == input_len + 1
           e == IF reader = "format" THEN Terminated(b, n) ELSE b
           size == Size[reader]
           text == Text(e)
<1> HIDE DEF n, e, size, text
<1>00. TypedFact(b, c)
  BY TypedLemma
<1> HIDE DEF b
<1>0. /\ b \in Buffers(reader) /\ b[input_len] = c /\ input_len + 1 <= Size[reader] - 1
      /\ \A k \in 0..(Size[reader] - 1) : k # input_len => b[k] = input[k]
      /\ \A k \in 0..input_len : b[k] \in Char /\ b[k] # NUL
  BY <1>00 DEF TypedFact
<1> USE DEF b
<1> USE DEF n, e, size, text
<1>1. EndFull(b, n)
  BY DEF Type
<1>2. reader # "shell" /\ n = size - 1
  BY DEF Full
<1>3. /\ b \in Buffers(reader) /\ b[input_len] = c
      /\ \A k \in 0..(size - 1) : k # input_len => b[k] = input[k]
      /\ \A k \in 0..input_len : b[k] \in Char /\ b[k] # NUL
  <2> HIDE DEF b
  <2> QED
    BY <1>0
<1>4. reader \in Readers /\ input_len \in Nat /\ size \in Nat /\ screen \in Screens /\ Clean(screen)
  BY BufferLemma
<1>5. Finish(e, put_char(screen, b[n - 1]))
  BY <1>1 DEF EndFull
<1>6. n - 1 = input_len /\ n \in 0..(size - 1) /\ \A k \in 0..(n - 1) : k \in 0..input_len /\ k \in 0..(size - 1) /\ k # n
  BY <1>2, <1>4
<1> HIDE DEF b, n, size
<1>7. e \in Buffers(reader) /\ (\A k \in 0..(n - 1) : e[k] = b[k]) /\ (reader = "format" => e[n] = NUL)
  <2>1. CASE reader = "format"
    <3>1. e = [b EXCEPT ![n] = NUL]
      BY <2>1 DEF Terminated
    <3>2. b \in [0..(size - 1) -> Chars] /\ NUL \in Chars
      BY <1>3 DEF Buffers, Chars, size
    <3>3. e \in [0..(size - 1) -> Chars] /\ e[n] = NUL /\ \A k \in 0..(size - 1) : k # n => e[k] = b[k]
      BY <1>6, <3>1, <3>2
    <3> QED
      BY <1>6, <3>3 DEF Buffers, size
  <2>2. CASE reader # "format"
    BY <1>3, <2>2
  <2> QED
    BY <2>1, <2>2
<1> HIDE DEF e
<1>8. put_char(screen, b[n - 1]) \in Screens /\ Clean(put_char(screen, b[n - 1]))
  BY <1>3, <1>4, <1>6, GlyphsLemma, PutCharLemma
<1>9. IInv' /\ (ran' # Nothing => ran'.text = text /\ ran'.behind = Leftover(e))
  BY <1>5, <1>7, <1>8, FinishLemma DEF text
<1>10. /\ SubSeq(text, 1, input_len) = Line /\ (reader = "format" => Len(text) = n)
       /\ Len(text) \in Nat /\ n <= Len(text)
  <2>1. PICK m \in {n, size} : text = [k \in 1..m |-> e[k - 1]] /\ (reader = "format" => m = n)
    <3>1. CASE e[n] = NUL
      <4>1. n \in 0..Size[reader] /\ \A k \in 0..(n - 1) : e[k] # NUL
        BY <1>3, <1>4, <1>6, <1>7 DEF size
      <4> QED
        BY <1>4, <3>1, <4>1, EndLemma
    <3>2. CASE e[n] # NUL
      <4>1. size \in 0..Size[reader] /\ ~(size < Size[reader])
        BY <1>4 DEF size
      <4>2. \A k \in 0..(size - 1) : e[k] # NUL
        <5>1. \A k \in 0..(size - 1) : k # n => k \in 0..(n - 1)
          BY <1>2, <1>4, <1>6
        <5> QED
          BY <1>3, <1>6, <1>7, <3>2, <5>1
      <4>3. text = [k \in 1..size |-> e[k - 1]]
        BY <1>4, <4>1, <4>2, EndLemma
      <4> QED
        BY <1>7, <3>2, <4>3
    <3> QED
      BY <3>1, <3>2
  <2>2. m \in Nat /\ input_len <= m /\ n <= m /\ m <= size /\ n \in Nat
    BY <1>2, <1>4, <1>6
  <2> HIDE DEF text
  <2>3. \A k \in 1..m : e[k - 1] \in Chars
    <3>1. \A k \in 1..m : k - 1 \in 0..(size - 1)
      BY <1>4, <2>2
    <3> QED
      BY <1>7, <3>1 DEF Buffers, size
  <2>4. text \in Seq(Chars) /\ Len(text) = m
    BY <2>1, <2>2, <2>3
  <2>5. SubSeq(text, 1, input_len) = [k \in 1..input_len |-> e[k - 1]]
    <3>1. SubSeq(text, 1, input_len) = [k \in 1..input_len |-> text[k]]
      BY <1>4, <2>2, <2>4
    <3>2. \A k \in 1..input_len : text[k] = e[k - 1]
      BY <1>4, <2>1, <2>2
    <3> QED
      BY <3>1, <3>2
  <2>6. \A k \in 1..input_len : e[k - 1] = input[k - 1]
    <3>1. \A k \in 1..input_len : k - 1 \in 0..(n - 1) /\ k - 1 \in 0..(size - 1) /\ k - 1 # input_len
      BY <1>2, <1>4, <1>6
    <3> QED
      BY <1>3, <1>7, <3>1
  <2> QED
    BY <2>1, <2>2, <2>4, <2>5, <2>6 DEF Line
\* A line this long is not shorter than what its parser skips.
<1>13. Leftover(e) = << >>
  <2>1. SUFFICES ASSUME Leftover(e) # << >> PROVE FALSE
    OBVIOUS
  <2>2. reader = "sql" /\ text \in DOMAIN Skip
    BY <1>4, <1>10, <2>1, LeftoverLemma DEF text
  <2>3. Skip[text] \in (Len(text) + 1)..(SQL_LEN - 1)
    BY <2>2, ConsoleAssumption
  <2>4. size = SQL_LEN
    BY <1>4, <2>2 DEF size, Size, Readers
  <2> QED
    BY <1>2, <1>4, <1>10, <2>3, <2>4
<1>11. input_len = Size[reader] - 2 /\ n = input_len + 1
  BY <1>2, <1>4 DEF n, size
<1>12. reader = "sql" \/ reader = "format"
  BY <1>2, <1>4, SizeLemma
<1> HIDE DEF text
<1> QED
  BY <1>9, <1>10, <1>11, <1>12, <1>13 DEF RunsLine

LEMMA TypeStep == ASSUME IInv, NEW c \in Char, Type(c) PROVE IInv' /\ RunsLine
<1>1. CASE ~Room
  BY <1>1, IgnoreStep DEF Type
<1>2. CASE Room /\ Full(input_len + 1)
  BY <1>2, FullStep
<1>3. CASE Room /\ ~Full(input_len + 1)
  BY <1>3, GrowStep
<1> QED
  BY <1>1, <1>2, <1>3

\* The keys that give no character.
LEMMA KeyStep ==
  ASSUME IInv, capslock \/ \E k \in ShiftKeys : press_shift(k) \/ release_shift(k)
  PROVE  IInv' /\ RunsLine
<1>1. CASE capslock
  <2>1. UNCHANGED <<shift_pressed, down, missed, reader, input, input_len, screen>>
        /\ ran' = Nothing /\ capslock_on' = ~capslock_on
    BY <1>1 DEF capslock, line
  <2>2. Kbd' /\ Buffer' /\ Seen'
    BY <2>1 DEF IInv, Kbd, Buffer, Seen, ShiftRecovers, Visible, Line
  <2> QED
    BY <2>1, <2>2 DEF IInv, RunsLine, Nothing
<1>2. ASSUME NEW k \in ShiftKeys, press_shift(k) \/ release_shift(k) PROVE IInv' /\ RunsLine
  <2>1. UNCHANGED <<capslock_on, reader, input, input_len, screen>> /\ ran' = Nothing
    BY <1>2 DEF press_shift, release_shift, line
  <2>2. /\ missed' = FALSE
        /\ \/ shift_pressed' = TRUE /\ down' = down \cup {k}
           \/ shift_pressed' = FALSE /\ down' = down \ {k}
    BY <1>2 DEF press_shift, release_shift
  <2>3. Kbd'
    BY <2>1, <2>2 DEF IInv, Kbd, ShiftRecovers
  <2>4. Buffer' /\ Seen'
    BY <2>1 DEF IInv, Buffer, Seen, Visible, Line
  <2> QED
    BY <2>1, <2>3, <2>4 DEF IInv, RunsLine, Nothing
<1> QED
  BY <1>1, <1>2

LEMMA NextStep == ASSUME IInv, Next PROVE IInv' /\ RunsLine
<1>1. ASSUME NEW c \in DOMAIN Letters, letter(c) PROVE IInv' /\ RunsLine
  <2>1. Letters[c] \in Char /\ c \in Char
    BY DEF Char
  <2> QED
    BY <1>1, <2>1, TypeStep DEF letter
<1>2. ASSUME NEW c \in DOMAIN Others, other(c) PROVE IInv' /\ RunsLine
  <2>1. Others[c] \in Char /\ c \in Char
    BY DEF Char
  <2> QED
    BY <1>2, <2>1, TypeStep DEF other
<1>3. CASE enter
  BY <1>3, EnterStep
<1>4. CASE backspace
  BY <1>4, BackspaceStep
<1>5. CASE capslock \/ \E k \in ShiftKeys : press_shift(k) \/ release_shift(k)
  BY <1>5, KeyStep
<1> QED
  BY <1>1, <1>2, <1>3, <1>4, <1>5 DEF Next

LEMMA StutterStep == ASSUME IInv, UNCHANGED vars PROVE IInv'
BY DEF IInv, Kbd, Buffer, Seen, ShiftRecovers, Visible, Line, vars, kbd, line

LEMMA Initially == ASSUME Init PROVE IInv
<1>1. /\ shift_pressed = FALSE /\ capslock_on = FALSE /\ down = {} /\ missed = FALSE
      /\ screen = put_string(clear, Prompt["shell"])
      /\ reader = "shell" /\ input = EmptyLine /\ input_len = 0 /\ ran = Nothing
  BY DEF Init
<1>2. Kbd
  BY <1>1 DEF Kbd, ShiftRecovers
<1>3. Buffer
  BY <1>1, EmptyLineLemma, SizeLemma DEF Buffer, EmptyLine
<1>4. /\ Prompt["shell"] \in Seq(Plain) /\ Prompt["shell"] \in Seq(Glyphs)
      /\ Len(Prompt["shell"]) <= WIDTH * (HEIGHT - 1)
  BY PromptLemma, SizeLemma
<1>5. Visible = << >> \o Prompt["shell"]
  <2>1. Line = << >>
    BY <1>1 DEF Line
  <2> QED
    BY <1>1, <1>4, <2>1 DEF Visible
<1>6. Shows(clear, << >>)
  BY ClearLemma, BackLemma DEF Shows
<1>7. screen \in Screens /\ Shows(screen, << >> \o Prompt["shell"])
  <2>1. screen \in Screens
    BY <1>1, <1>4, ClearLemma, TextLemma
  <2>2. << >> \in Seq(Glyphs) /\ Len(<< >>) + Len(Prompt["shell"]) = Len(Prompt["shell"])
    BY <1>4
  <2>3. Shows(put_string(clear, Prompt["shell"]), << >> \o Prompt["shell"])
    BY <1>4, <1>6, <2>2, ClearLemma, PlainLemma
  <2> QED
    BY <1>1, <2>1, <2>3
<1> QED
  BY <1>1, <1>2, <1>3, <1>5, <1>7 DEF IInv, Seen, Nothing

LEMMA Invariance == Spec => []IInv
<1>1. Init => IInv
  BY Initially
<1>2. IInv /\ [Next]_vars => IInv'
  BY NextStep, StutterStep
<1> QED
  BY <1>1, <1>2, PTL DEF Spec

----------------------------------------------------------------------------
\* Words: where the next one starts from position p on, and where it ends.
IsSkip(text, p, k) == /\ k \in p..Len(text)
                      /\ k < Len(text) => text[k + 1] # Space
                      /\ \A m \in p..(k - 1) : text[m + 1] = Space
IsEnd(text, p, k) == /\ k \in p..Len(text)
                     /\ k < Len(text) => text[k + 1] = Space
                     /\ \A m \in p..(k - 1) : text[m + 1] # Space

LEMMA SkipLemma ==
  ASSUME NEW S, NEW text \in Seq(S), NEW p \in 0..Len(text)
  PROVE  IsSkip(text, p, SkipFrom(text, p))
<1> DEFINE L == Len(text)
           T == {k \in p..L : k < L => text[k + 1] # Space}
<1>1. L \in Nat /\ L \in T /\ T \subseteq Nat
  OBVIOUS
<1>2. PICK k \in T : \A m \in T : k <= m
  BY <1>1, LeastNatural
<1>3. \A m \in p..(k - 1) : m \in p..L /\ m < L /\ m \notin T
  BY <1>1, <1>2
<1>4. IsSkip(text, p, k)
  BY <1>2, <1>3 DEF IsSkip
<1> QED
  BY <1>4 DEF IsSkip, SkipFrom

LEMMA WordEndLemma ==
  ASSUME NEW S, NEW text \in Seq(S), NEW p \in 0..Len(text)
  PROVE  IsEnd(text, p, EndFrom(text, p))
<1> DEFINE L == Len(text)
           T == {k \in p..L : k < L => text[k + 1] = Space}
<1>1. L \in Nat /\ L \in T /\ T \subseteq Nat
  OBVIOUS
<1>2. PICK k \in T : \A m \in T : k <= m
  BY <1>1, LeastNatural
<1>3. \A m \in p..(k - 1) : m \in p..L /\ m < L /\ m \notin T
  BY <1>1, <1>2
<1>4. IsEnd(text, p, k)
  BY <1>2, <1>3 DEF IsEnd
<1> QED
  BY <1>4 DEF IsEnd, EndFrom

\* The recursion of States.
After(text, p) == LET end == EndFrom(text, SkipFrom(text, p))
                  IN  IF end < Len(text) THEN end + 1 ELSE Len(text)
IsStates(q, text) == /\ q \in [0..MAX_ARGS -> 0..Len(text)] /\ q[0] = 0
                     /\ \A k \in 1..MAX_ARGS : q[k] = After(text, q[k - 1])

LEMMA AfterLemma ==
  ASSUME NEW S, NEW text \in Seq(S), NEW p \in 0..Len(text)
  PROVE  After(text, p) \in 0..Len(text)
<1>1. SkipFrom(text, p) \in 0..Len(text)
  BY SkipLemma DEF IsSkip
<1>2. EndFrom(text, SkipFrom(text, p)) \in 0..Len(text)
  BY <1>1, WordEndLemma DEF IsEnd
<1> QED
  BY <1>2 DEF After

LEMMA StatesLemma ==
  ASSUME NEW S, NEW text \in Seq(S)
  PROVE  IsStates(States(text), text)
<1> DEFINE N == MAX_ARGS
           R == 0..Len(text)
           F == [v \in (1..N) \X R |-> After(text, v[2])]
           Def(f) == f = [k \in 0..N |-> IF k = 0 THEN 0 ELSE After(text, f[k - 1])]
<1>1. N \in Nat /\ 0 \in R
  BY ConsoleAssumption
<1>2. F \in [(1..N) \X R -> R]
  BY AfterLemma
<1>3. \A k \in 1..N, v \in R : F[<<k, v>>] = After(text, v)
  OBVIOUS
<1> HIDE DEF F, R
<1>4. PICK f : Recursion(f, N, R, 0, F)
  BY <1>1, <1>2, IntervalRecursion
<1>5. Def(f)
  <2>1. f \in [0..N -> R] /\ f = [k \in 0..N |-> IF k = 0 THEN 0 ELSE F[<<k, f[k - 1]>>]]
    BY <1>4 DEF Recursion
  <2>2. \A k \in 0..N : k # 0 => k \in 1..N /\ f[k - 1] \in R
    <3>1. \A k \in 0..N : k # 0 => k \in 1..N /\ k - 1 \in 0..N
      BY <1>1
    <3> QED
      BY <2>1, <3>1
  <2>3. \A k \in 0..N : (IF k = 0 THEN 0 ELSE F[<<k, f[k - 1]>>])
                          = (IF k = 0 THEN 0 ELSE After(text, f[k - 1]))
    BY <1>3, <2>2
  <2> QED
    BY <2>1, <2>3
<1> DEFINE g == States(text)
<1>6. g = CHOOSE h : Def(h)
  BY DEF States, After
<1>7. Def(g)
  BY <1>5, <1>6
<1> HIDE DEF g
<1>8. g[0] = 0 /\ \A k \in 1..N : g[k] = After(text, g[k - 1])
  <2>1. 0 \in 0..N /\ \A k \in 1..N : k \in 0..N /\ k # 0
    BY <1>1
  <2> QED
    BY <1>7, <2>1
<1>9. \A k \in 0..N : g[k] \in R
  <2>1. \A k \in 1..N : g[k - 1] \in R => g[k] \in R
    BY <1>8, AfterLemma DEF R
  <2>2. g[0] \in R
    BY <1>1, <1>8
  <2> QED
    BY <1>1, <2>1, <2>2, IntervalRange
<1>10. g = [k \in 0..N |-> g[k]]
  BY <1>7
<1> QED
  BY <1>8, <1>9, <1>10 DEF IsStates, g, R

\* How many words start up to a position; words are told apart by it.
Upto(text, p) == {x \in Starts(text) : x <= p}
Rank(text, p) == Cardinality(Upto(text, p))

LEMMA StartsLemma ==
  ASSUME NEW S, NEW text \in Seq(S)
  PROVE  /\ IsFiniteSet(Starts(text)) /\ Starts(text) \subseteq 1..Len(text)
         /\ Cardinality(Starts(text)) \in Nat
         /\ \A p : IsFiniteSet(Upto(text, p)) /\ Rank(text, p) \in Nat
         /\ Upto(text, Len(text)) = Starts(text)
<1>1. Starts(text) \subseteq 1..Len(text) /\ Len(text) \in Nat
  BY DEF Starts
<1>2. IsFiniteSet(Starts(text))
  <2>1. IsFiniteSet(1..Len(text))
    BY <1>1, FS_Interval
  <2> QED
    BY <1>1, <2>1, FS_Subset
<1>3. \A p : IsFiniteSet(Upto(text, p))
  BY <1>2, FS_Subset DEF Upto
<1>4. Upto(text, Len(text)) = Starts(text)
  BY <1>1 DEF Upto
<1> QED
  BY <1>1, <1>2, <1>3, <1>4, FS_CardinalityType DEF Rank

LEMMA RankLemma ==
  ASSUME NEW S, NEW text \in Seq(S), NEW x \in Starts(text), NEW y \in Starts(text),
         Rank(text, x) = Rank(text, y)
  PROVE  x = y
<1>1. \A u, v \in Starts(text) : u < v => Rank(text, u) < Rank(text, v)
  <2>1. ASSUME NEW u \in Starts(text), NEW v \in Starts(text), u < v
        PROVE  Rank(text, u) < Rank(text, v)
    <3>1. u \in Int /\ v \in Int /\ Starts(text) \subseteq Int
      BY StartsLemma
    <3>2. Upto(text, u) \subseteq Upto(text, v) /\ v \in Upto(text, v) /\ v \notin Upto(text, u)
      BY <2>1, <3>1 DEF Upto
    <3>3. IsFiniteSet(Upto(text, v))
      BY StartsLemma
    <3>4. /\ Cardinality(Upto(text, u)) <= Cardinality(Upto(text, v))
          /\ Cardinality(Upto(text, v)) # Cardinality(Upto(text, u))
      BY <3>2, <3>3, FS_Subset
    <3>5. Rank(text, u) \in Nat /\ Rank(text, v) \in Nat
      BY StartsLemma
    <3> QED
      BY <3>4, <3>5 DEF Rank
  <2> QED
    BY <2>1
<1>2. x \in Int /\ y \in Int /\ Rank(text, x) \in Nat
  BY StartsLemma
<1> QED
  BY <1>1, <1>2

\* One call of strtok: it finds the first word that starts behind p, or none does.
Behind(text, p) == p = 0 \/ p = Len(text) \/ text[p] = Space

LEMMA StrtokLemma ==
  ASSUME NEW S, NEW text \in Seq(S), NEW p \in 0..Len(text), Behind(text, p)
  PROVE  LET s == SkipFrom(text, p) IN
         /\ s \in 0..Len(text) /\ Behind(text, After(text, p))
         /\ s < Len(text) =>
              /\ s + 1 \in Starts(text) /\ Rank(text, s + 1) = Rank(text, p) + 1
              /\ Rank(text, After(text, p)) = Rank(text, p) + 1
         /\ s = Len(text) => After(text, p) = Len(text) /\ Rank(text, Len(text)) = Rank(text, p)
<1> DEFINE L == Len(text)
           s == SkipFrom(text, p)
           e == EndFrom(text, s)
           a == After(text, p)
<1>1. L \in Nat /\ s \in p..L /\ s \in 0..L /\ (s < L => text[s + 1] # Space)
      /\ \A m \in p..(s - 1) : text[m + 1] = Space
  BY SkipLemma DEF IsSkip
<1>2. e \in s..L /\ (e < L => text[e + 1] = Space) /\ \A m \in s..(e - 1) : text[m + 1] # Space
  BY <1>1, WordEndLemma DEF IsEnd
<1>3. a = IF e < L THEN e + 1 ELSE L
  BY DEF After
<1> HIDE DEF s, e, a
<1>4. a \in 0..L /\ Behind(text, a)
  BY <1>1, <1>2, <1>3 DEF Behind
<1>5. Starts(text) = {k \in 1..L : text[k] # Space /\ (k = 1 \/ text[k - 1] = Space)}
  BY DEF Starts
<1>6. \A k \in (p + 1)..s : k \notin Starts(text)
  <2>1. ASSUME NEW k \in (p + 1)..s PROVE text[k] = Space
    <3>1. k - 1 \in p..(s - 1) /\ (k - 1) + 1 = k
      BY <1>1
    <3> QED
      BY <1>1, <3>1
  <2> QED
    BY <1>5, <2>1
<1>7. CASE s < L
  <2>1. s + 1 \in Starts(text)
    <3>1. s + 1 = 1 \/ text[(s + 1) - 1] = Space
      <4>1. CASE s = p
        BY <1>1, <1>7, <4>1 DEF Behind
      <4>2. CASE s # p
        <5>1. s - 1 \in p..(s - 1) /\ (s - 1) + 1 = s /\ (s + 1) - 1 = s
          BY <1>1, <4>2
        <5> QED
          BY <1>1, <5>1
      <4> QED
        BY <4>1, <4>2
    <3>2. s + 1 \in 1..L
      BY <1>1, <1>7
    <3> QED
      BY <1>1, <1>5, <1>7, <3>1, <3>2
  <2>2. \A k \in (s + 2)..a : k \notin Starts(text)
    <3>1. ASSUME NEW k \in (s + 2)..a, k \in Starts(text) PROVE FALSE
      <4>1. k # 1 /\ text[k] # Space /\ text[k - 1] = Space
        BY <1>1, <1>5, <3>1
      <4>2. CASE k <= e
        <5>1. k - 2 \in s..(e - 1) /\ (k - 2) + 1 = k - 1
          BY <1>1, <1>2, <4>2
        <5> QED
          BY <1>2, <4>1, <5>1
      <4>3. CASE ~(k <= e)
        <5>1. e < L /\ k = e + 1
          BY <1>1, <1>2, <1>3, <4>3
        <5> QED
          BY <1>2, <4>1, <5>1
      <4> QED
        BY <4>2, <4>3
    <3> QED
      BY <3>1
  <2>3. s < e /\ s + 1 <= a
    BY <1>1, <1>2, <1>3, <1>7
  <2>4. Starts(text) \subseteq Int
    BY StartsLemma
  <2>5. /\ Upto(text, s + 1) = Upto(text, p) \cup {s + 1}
        /\ Upto(text, a) = Upto(text, p) \cup {s + 1}
        /\ s + 1 \notin Upto(text, p)
    <3>1. ASSUME NEW k \in Starts(text)
          PROVE  /\ k <= s + 1 <=> (k <= p \/ k = s + 1)
                 /\ k <= a <=> (k <= p \/ k = s + 1)
      <4>1. k \in Int /\ p \in Int /\ s \in Int /\ a \in Int /\ p <= s
        BY <1>1, <1>4, <2>4
      <4>2. k \notin (p + 1)..s /\ k \notin (s + 2)..a
        BY <1>6, <2>2
      <4> QED
        BY <2>3, <4>1, <4>2
    <3> QED
      BY <1>1, <2>1, <3>1 DEF Upto
  <2>6. Rank(text, s + 1) = Rank(text, p) + 1 /\ Rank(text, a) = Rank(text, p) + 1
    <3>1. IsFiniteSet(Upto(text, p))
      BY StartsLemma
    <3> QED
      BY <2>5, <3>1, FS_AddElement DEF Rank
  <2> QED
    BY <1>1, <1>4, <1>7, <2>1, <2>6 DEF s, a
<1>8. CASE s = L
  <2>1. a = L
    BY <1>1, <1>2, <1>3, <1>8
  <2>2. Upto(text, L) = Upto(text, p)
    <3>1. Starts(text) \subseteq 1..L
      BY StartsLemma
    <3>2. \A k \in Starts(text) : k <= L <=> k <= p
      BY <1>1, <1>6, <1>8, <3>1
    <3> QED
      BY <3>2 DEF Upto
  <2> QED
    BY <1>1, <1>4, <1>8, <2>1, <2>2 DEF s, a, Rank
<1> QED
  BY <1>1, <1>7, <1>8

\* After k calls k words are found, or all of them.
LEMMA CountLemma ==
  ASSUME NEW S, NEW text \in Seq(S), NEW q, IsStates(q, text)
  PROVE  \A k \in 0..MAX_ARGS :
           /\ Behind(text, q[k])
           /\ \/ Rank(text, q[k]) = k
              \/ q[k] = Len(text) /\ Rank(text, Len(text)) <= k
<1> DEFINE N == MAX_ARGS
           L == Len(text)
           P(k) == /\ Behind(text, q[k])
                   /\ Rank(text, q[k]) = k \/ (q[k] = L /\ Rank(text, L) <= k)
           T == {k \in 0..N : P(k)}
<1>1. /\ N \in Nat /\ L \in Nat /\ q[0] = 0 /\ \A k \in 0..N : q[k] \in 0..L
      /\ \A k \in 1..N : q[k] = After(text, q[k - 1])
  <2>1. N \in Nat
    BY ConsoleAssumption
  <2>2. L \in Nat
    OBVIOUS
  <2> HIDE DEF N, L
  <2>3. q \in [0..N -> 0..L] /\ q[0] = 0 /\ \A k \in 1..N : q[k] = After(text, q[k - 1])
    BY DEF IsStates, N, L
  <2> QED
    BY <2>1, <2>2, <2>3
<1>2. Rank(text, L) \in Nat
  BY StartsLemma
<1>3. P(0)
  <2>1. Upto(text, 0) = {}
    BY StartsLemma DEF Upto
  <2> QED
    BY <1>1, <2>1, FS_EmptySet DEF Behind, Rank
<1>4. ASSUME NEW n \in 0..(N - 1), n \in T PROVE n + 1 \in T
  <2>1. n \in 0..N /\ n + 1 \in 1..N /\ n + 1 \in 0..N /\ (n + 1) - 1 = n
    BY <1>1
  <2>2. q[n] \in 0..L /\ q[n + 1] = After(text, q[n]) /\ P(n)
    BY <1>1, <1>4, <2>1
  <2> DEFINE s == SkipFrom(text, q[n])
  <2>3. /\ s \in 0..L /\ Behind(text, After(text, q[n]))
        /\ s < L => Rank(text, After(text, q[n])) = Rank(text, q[n]) + 1
        /\ s = L => After(text, q[n]) = L /\ Rank(text, L) = Rank(text, q[n])
    BY <2>2, StrtokLemma
  <2>4. q[n] = L => s = L
    BY <1>1, <2>2, SkipLemma DEF IsSkip
  <2> HIDE DEF s, L
  <2>5. Rank(text, q[n + 1]) = n + 1 \/ (q[n + 1] = L /\ Rank(text, L) <= n + 1)
    BY <1>1, <1>2, <2>1, <2>2, <2>3, <2>4
  <2> QED
    BY <2>1, <2>2, <2>3, <2>5
<1>5. 0 \in T
  BY <1>1, <1>3
<1> HIDE DEF T
<1>6. \A k \in 0..N : k \in T
  BY <1>1, <1>4, <1>5, IntervalInduction
<1> QED
  BY <1>6 DEF T

\* The word that starts at k ends where strtok ends it.
LEMMA WordLemma ==
  ASSUME NEW S, NEW text \in Seq(S), NEW s \in 0..Len(text), s < Len(text), text[s + 1] # Space
  PROVE  WordAt(text, s + 1) = SubSeq(text, s + 1, EndFrom(text, s))
<1> DEFINE L == Len(text)
           e == EndFrom(text, s)
           Q(m) == /\ \A q \in (s + 1)..m : text[q] # Space
                   /\ m = L \/ text[m + 1] = Space
           w == CHOOSE m \in (s + 1)..L : Q(m)
<1>1. L \in Nat /\ e \in s..L /\ (e < L => text[e + 1] = Space) /\ \A m \in s..(e - 1) : text[m + 1] # Space
  BY WordEndLemma DEF IsEnd
<1> HIDE DEF e
<1>2. e \in (s + 1)..L
  BY <1>1
<1>3. Q(e)
  <2>1. \A q \in (s + 1)..e : q - 1 \in s..(e - 1) /\ (q - 1) + 1 = q
    BY <1>1
  <2> QED
    BY <1>1, <2>1
<1>4. w \in (s + 1)..L /\ Q(w)
  BY <1>2, <1>3
<1> HIDE DEF w
<1>5. w = e
  <2>1. ASSUME w < e PROVE FALSE
    <3>1. w + 1 \in (s + 1)..e /\ w # L
      BY <1>1, <1>2, <1>4, <2>1
    <3> QED
      BY <1>3, <1>4, <3>1
  <2>2. ASSUME e < w PROVE FALSE
    <3>1. e + 1 \in (s + 1)..w /\ e # L
      BY <1>1, <1>2, <1>4, <2>2
    <3> QED
      BY <1>3, <1>4, <3>1
  <2> QED
    BY <1>1, <1>2, <1>4, <2>1, <2>2
<1> QED
  BY <1>5 DEF WordAt, w, e

\* Splitting a line finds its words, as many as there is room for.
LEMMA ParseLemma ==
  ASSUME NEW S, NEW text \in Seq(S)
  PROVE  LET words == Words(text) IN
           parse_command(text) =
             SubSeq(words, 1, IF Len(words) < MAX_ARGS THEN Len(words) ELSE MAX_ARGS)
<1> DEFINE N == MAX_ARGS
           L == Len(text)
           C == Cardinality(Starts(text))
           q == States(text)
           start(k) == SkipFrom(text, q[k - 1])
           kth(n) == CHOOSE k \in Starts(text) : Rank(text, k) = n
           M == IF C < N THEN C ELSE N
<1>1. IsStates(q, text)
  BY StatesLemma
<1> HIDE DEF q
<1>2. N \in Nat /\ L \in Nat /\ C \in Nat /\ Rank(text, L) = C
  BY ConsoleAssumption, StartsLemma DEF Rank
<1>3. ASSUME NEW k \in 1..N
      PROVE  /\ start(k) \in 0..L /\ (start(k) < L <=> k <= C)
             /\ start(k) < L => kth(k) = start(k) + 1 /\ text[start(k) + 1] # Space
  <2> DEFINE p == q[k - 1]
             s == SkipFrom(text, p)
  <2>1. k - 1 \in 0..N
    BY <1>2
  <2>2. p \in 0..L /\ Behind(text, p) /\ (Rank(text, p) = k - 1 \/ (p = L /\ Rank(text, L) <= k - 1))
    BY <1>1, <2>1, CountLemma DEF IsStates
  <2> HIDE DEF p
  <2>3. /\ s \in 0..L
        /\ s < L => /\ s + 1 \in Starts(text) /\ Rank(text, s + 1) = Rank(text, p) + 1
        /\ s = L => Rank(text, L) = Rank(text, p)
    BY <2>2, StrtokLemma
  <2>4. p = L => s = L
    BY <1>2, <2>2, SkipLemma DEF IsSkip
  <2>5. s < L => text[s + 1] # Space
    BY <2>2, SkipLemma DEF IsSkip
  <2> HIDE DEF s
  <2>6. CASE s < L
    <3>1. s + 1 \in Starts(text) /\ Rank(text, s + 1) = k
      <4>1. p # L
        BY <1>2, <2>4, <2>6
      <4> QED
        BY <1>2, <2>2, <2>3, <2>6, <4>1
    <3>2. kth(k) = s + 1
      <4>1. kth(k) \in Starts(text) /\ Rank(text, kth(k)) = k
        BY <3>1
      <4> HIDE DEF kth
      <4> QED
        BY <3>1, <4>1, RankLemma
    <3>3. k <= C
      <4>1. Upto(text, s + 1) \subseteq Starts(text) /\ IsFiniteSet(Starts(text))
        BY StartsLemma DEF Upto
      <4> QED
        BY <3>1, <4>1, FS_Subset DEF Rank
    <3> QED
      BY <2>3, <2>5, <2>6, <3>2, <3>3 DEF s, p
  <2>7. CASE s = L
    <3>1. Rank(text, L) <= k - 1
      BY <1>2, <2>2, <2>3, <2>7
    <3>2. ~(k <= C)
      BY <1>2, <3>1
    <3> QED
      BY <1>2, <2>3, <2>7, <3>2 DEF s, p
  <2> QED
    BY <1>2, <2>3, <2>6, <2>7
<1>4. parse_command(text) = [k \in {n \in 1..N : start(n) < L} |->
                               SubSeq(text, start(k) + 1, EndFrom(text, start(k)))]
  BY DEF parse_command, q
<1>5. Words(text) = [n \in 1..C |-> WordAt(text, kth(n))]
  BY DEF Words, Rank, Upto
<1> HIDE DEF start, kth, C
<1>6. {n \in 1..N : start(n) < L} = 1..M
  BY <1>2, <1>3
<1>7. M \in Nat /\ M <= C /\ \A k \in 1..M : k \in 1..N /\ k \in 1..C /\ k <= C
  BY <1>2
<1>8. \A k \in 1..M : SubSeq(text, start(k) + 1, EndFrom(text, start(k))) = WordAt(text, kth(k))
  BY <1>3, <1>7, WordLemma
<1>9. parse_command(text) = [k \in 1..M |-> WordAt(text, kth(k))]
  BY <1>4, <1>6, <1>8
<1>10. Len(Words(text)) = C /\ SubSeq(Words(text), 1, M) = [k \in 1..M |-> Words(text)[k]]
  <2> DEFINE V == {WordAt(text, kth(n)) : n \in 1..C}
  <2>1. Words(text) \in [1..C -> V]
    BY <1>5
  <2> HIDE DEF V, M
  <2>2. Words(text) \in Seq(V) /\ Len(Words(text)) = C
    BY <1>2, <2>1
  <2> QED
    BY <1>2, <1>7, <2>2
<1>11. \A k \in 1..M : Words(text)[k] = WordAt(text, kth(k))
  BY <1>5, <1>7
<1> QED
  BY <1>9, <1>10, <1>11

----------------------------------------------------------------------------
\* The state is well formed: the cursor stays on the screen, the line in the
\* buffer of its reader (kbd.cpp, vga.cpp, shell.cpp:441-476).
THEOREM TypeCorrect == Spec => []TypeOK
<1>1. IInv => TypeOK
  <2> SUFFICES ASSUME IInv PROVE TypeOK
    OBVIOUS
  <2>1. screen.x \in 0..WIDTH /\ screen.y \in 0..(HEIGHT - 1) /\ DOMAIN screen.cell = 0..Last
    BY DEF IInv, Seen, Screens
  <2>2. input \in [0..(Size[reader] - 1) -> Char \cup {NUL, Garbage}]
    BY DEF IInv, Buffer, Buffers, Chars
  <2> QED
    BY <2>1, <2>2 DEF IInv, Kbd, Buffer, TypeOK
<1> QED
  BY <1>1, Invariance, PTL

\* A shift that stays on with no shift key down is the trace of a key that moved
\* while a command ran (kbd.cpp:72-83).
THEOREM ShiftIsReleased == Spec => []ShiftRecovers
<1>1. IInv => ShiftRecovers
  BY DEF IInv, Kbd
<1> QED
  BY <1>1, Invariance, PTL

\* What is seen is what was typed, for every width and height of the screen and
\* every prompt and line that fit it (vga.cpp:72-106, shell.cpp:463-471).
THEOREM TheLineIsShown == Spec => []ShowsTheLine
<1>1. IInv => ShowsTheLine
  <2> SUFFICES ASSUME IInv PROVE ShowsTheLine
    OBVIOUS
  <2>1. Shows(screen, Visible) /\ Cursor = Place(screen)
    BY DEF IInv, Seen, Cursor, Place
  <2> QED
    BY <2>1 DEF ShowsTheLine, Shows, Clean
<1> QED
  BY <1>1, Invariance, PTL

\* What is run is the line that was seen, whatever the buffers held before
\* (shell.cpp:343-356, :451-468, sqlite_shell.cpp:83-103), with two exceptions, both
\* of the SQL shell: a line that fills its buffer, and a line shorter than what its
\* parser skips, after which the old characters from that place on are run as well
\* (sqlite3.cpp:64, :140).
THEOREM TheLineIsRun == Spec => RunsTheLine
<1>1. IInv /\ [Next]_vars => [RunsLine]_vars
  BY NextStep
<1>2. [RunsLine]_vars =>
      [ran' # Nothing =>
       /\ \/ ran'.text = Line
          \/ /\ input_len = Size[reader] - 2 /\ SubSeq(ran'.text, 1, input_len) = Line
             /\ Len(ran'.text) = input_len + 1 \/ reader = "sql"
       /\ ran'.behind # << >> =>
            /\ reader = "sql" /\ Line \in DOMAIN Skip
            /\ \A k \in DOMAIN ran'.behind : ran'.behind[k] = input[Skip[Line] + k - 1]]_vars
  BY DEF RunsLine
<1> QED
  BY <1>1, <1>2, Invariance, PTL DEF Spec, RunsTheLine

\* The words a command is given are the words of the line, for every line and
\* every number of arguments (shell.cpp:44-50, libc.cpp:135-152).
THEOREM TheWordsAreParsed == Spec => []ParsesTheWords
<1>1. IInv => ParsesTheWords
  <2> SUFFICES ASSUME IInv, reader = "shell"
               PROVE  LET words == Words(Text(input)) IN
                      parse_command(Text(input)) =
                          SubSeq(words, 1, IF Len(words) < MAX_ARGS THEN Len(words) ELSE MAX_ARGS)
    BY DEF ParsesTheWords
  <2>1. /\ reader \in Readers /\ input_len \in Nat /\ Size[reader] \in Nat
        /\ input_len <= Size[reader] - 1
        /\ \A k \in 0..(input_len - 1) : input[k] \in Char /\ input[k] # NUL
        /\ \A k \in input_len..(Size[reader] - 1) : input[k] = NUL
    BY BufferLemma
  <2>2. Text(input) = [k \in 1..input_len |-> input[k - 1]]
    <3>1. input_len \in 0..Size[reader] /\ input_len \in input_len..(Size[reader] - 1)
      BY <2>1
    <3> QED
      BY <2>1, <3>1, EndLemma
  <2>3. Text(input) \in Seq(Char)
    <3>1. \A k \in 1..input_len : k - 1 \in 0..(input_len - 1)
      BY <2>1
    <3> QED
      BY <2>1, <2>2, <3>1
  <2>4. PICK text \in Seq(Char) : text = Text(input)
    BY <2>3
  <2> QED
    BY <2>4, ParseLemma
<1> QED
  BY <1>1, Invariance, PTL
====
