--------------------------- MODULE ByteArrayProofs ---------------------------
(***************************************************************************)
(* Proofs about ByteArray for any block size, any number of blocks and any *)
(* length of a read or write.                                              *)
(*                                                                         *)
(* The arithmetic is that of a position in a list of blocks: position x is *)
(* in block x \div Base + 1 at offset x % Base.  A walk that starts at the *)
(* block of position at visits the cells of the positions behind it        *)
(* (WalkCells); so m_cur, kept right by every operation (CursorAgrees),    *)
(* makes every copy go to, or come from, the cells of its positions, which *)
(* are different for different positions (CellInjective).                  *)
(***************************************************************************)
EXTENDS ByteArray, SequenceTheorems, TLAPS

----------------------------------------------------------------------------
(***************************************************************************)
(* Quotient and remainder.                                                 *)
(***************************************************************************)
LEMMA DivMod ==
    ASSUME NEW x \in Nat
    PROVE  /\ x \div Base \in Nat /\ x % Base \in 0..Base-1
           /\ x = Base * (x \div Base) + (x % Base)
<1>1. x \div Base \in Nat /\ x % Base \in 0..Base-1  BY ByteArrayAssumption
<1>2. x = Base * (x \div Base) + (x % Base)  BY ByteArrayAssumption
<1>3. QED  BY <1>1, <1>2

LEMMA DivUnique ==
    ASSUME NEW x \in Nat, NEW q \in Nat, NEW r \in 0..Base-1, x = Base * q + r
    PROVE  q = x \div Base /\ r = x % Base
BY ByteArrayAssumption

\* Whole blocks.
LEMMA Blocks ==
    ASSUME NEW a \in Nat, NEW b \in Nat
    PROVE  /\ a * Base \in Nat /\ a * Base = Base * a
           /\ (a + b) * Base = a * Base + b * Base
           /\ a <= b => a * Base <= b * Base
           /\ a < b => a * Base + Base <= b * Base
<1>1. a * Base \in Nat /\ a * Base = Base * a  BY ByteArrayAssumption
<1>2. (a + b) * Base = a * Base + b * Base  BY ByteArrayAssumption
<1>3. a <= b => a * Base <= b * Base  BY ByteArrayAssumption
<1>4. a < b => a * Base + Base <= b * Base  BY ByteArrayAssumption
<1>5. QED  BY <1>1, <1>2, <1>3, <1>4

\* Position x + n, counted from the block of x.
LEMMA Shift ==
    ASSUME NEW x \in Nat, NEW n \in Nat
    PROVE  /\ (x \div Base) + (((x % Base) + n) \div Base) = (x + n) \div Base
           /\ ((x % Base) + n) % Base = (x + n) % Base
<1> DEFINE q == x \div Base
           r == x % Base
           p == (r + n) \div Base
           s == (r + n) % Base
<1>1. q \in Nat /\ r \in 0..Base-1 /\ x = Base * q + r  BY DivMod
<1>2. r + n \in Nat  BY <1>1
<1>3. p \in Nat /\ s \in 0..Base-1 /\ r + n = Base * p + s  BY <1>2, DivMod
<1> HIDE DEF q, r, p, s
<1>4. x + n = Base * (q + p) + s  BY <1>1, <1>3, ByteArrayAssumption
<1>5. x + n \in Nat /\ q + p \in Nat  BY <1>1, <1>3
<1>6. q + p = (x + n) \div Base /\ s = (x + n) % Base  BY <1>3, <1>4, <1>5, DivUnique
<1>7. QED  BY <1>6 DEF q, r, p, s

\* The first m blocks hold the positions below m * Base.
LEMMA InBlocks ==
    ASSUME NEW x \in Nat, NEW m \in Nat
    PROVE  (x \div Base < m) <=> (x < m * Base)
<1> DEFINE q == x \div Base
           r == x % Base
<1>1. q \in Nat /\ r \in 0..Base-1 /\ x = Base * q + r  BY DivMod
<1> HIDE DEF q, r
<1>2. Base * q = q * Base /\ q * Base \in Nat /\ m * Base \in Nat  BY <1>1, Blocks
<1>3. CASE q < m
  <2>1. q * Base + Base <= m * Base  BY <1>1, <1>3, Blocks
  <2>2. QED  BY <1>1, <1>2, <1>3, <2>1, ByteArrayAssumption DEF q
<1>4. CASE m <= q
  <2>1. m * Base <= q * Base  BY <1>1, <1>4, Blocks
  <2>2. QED  BY <1>1, <1>2, <1>4, <2>1, ByteArrayAssumption DEF q
<1>5. QED  BY <1>1, <1>3, <1>4

\* Rounding up gives enough blocks.
LEMMA RoundUp ==
    ASSUME NEW a \in Nat
    PROVE  (a + Base - 1) \div Base \in Nat /\ a <= ((a + Base - 1) \div Base) * Base
<1> DEFINE x == a + Base - 1
           q == x \div Base
           r == x % Base
<1>1. x \in Nat  BY ByteArrayAssumption
<1>2. q \in Nat /\ r \in 0..Base-1 /\ x = Base * q + r  BY <1>1, DivMod
<1>3. Base * q = q * Base /\ q * Base \in Nat  BY <1>2, Blocks
<1>4. x = a + Base - 1  OBVIOUS
<1> HIDE DEF q, r, x
<1>5. a <= q * Base  BY <1>2, <1>3, <1>4, ByteArrayAssumption
<1>6. QED  BY <1>2, <1>5 DEF q, x

----------------------------------------------------------------------------
(***************************************************************************)
(* Walking the list.                                                       *)
(***************************************************************************)
\* The block of a position.
BlockOf(at) == at \div Base + 1

\* A walk from the block of a position visits the cells of the positions
\* behind it.
LEMMA WalkCells ==
    ASSUME NEW at \in Nat, NEW k \in Nat \ {0}
    PROVE  /\ Cell(BlockOf(at), at % Base, k) = Cell(1, 0, at + k)
           /\ Cell(1, 0, at + k) = <<BlockOf(at + k - 1), (at + k - 1) % Base>>
<1>1. k - 1 \in Nat /\ at + (k - 1) = at + k - 1 /\ 0 + (at + k) - 1 = at + k - 1  OBVIOUS
<1>2. /\ at \div Base \in Nat /\ at % Base \in Nat
      /\ (at + k - 1) \div Base \in Nat
      /\ ((at % Base) + (k - 1)) \div Base \in Nat
  <2>1. at \div Base \in Nat /\ at % Base \in Nat  BY DivMod
  <2>2. at + k - 1 \in Nat /\ (at % Base) + (k - 1) \in Nat  BY <1>1, <2>1
  <2>3. QED  BY <2>1, <2>2, DivMod
<1>3. /\ (at \div Base) + (((at % Base) + (k - 1)) \div Base) = (at + k - 1) \div Base
      /\ ((at % Base) + (k - 1)) % Base = (at + k - 1) % Base
  BY <1>1, Shift
<1>4. (at % Base) + k - 1 = (at % Base) + (k - 1)  BY <1>2
<1>5. Cell(BlockOf(at), at % Base, k) = <<BlockOf(at + k - 1), (at + k - 1) % Base>>
  BY <1>2, <1>3, <1>4 DEF Cell, BlockOf
<1>6. Cell(1, 0, at + k) = <<BlockOf(at + k - 1), (at + k - 1) % Base>>
  BY <1>1, <1>2 DEF Cell, BlockOf
<1>7. QED  BY <1>5, <1>6

\* Different positions have different cells, within the blocks there may be.
LEMMA CellInjective ==
    ASSUME NEW i \in Nat \ {0}, NEW j \in Nat \ {0}, Cell(1, 0, i) = Cell(1, 0, j)
    PROVE  i = j
<1>1. i - 1 \in Nat /\ j - 1 \in Nat  OBVIOUS
<1>2. /\ (i - 1) \div Base \in Nat /\ (j - 1) \div Base \in Nat
      /\ i - 1 = Base * ((i - 1) \div Base) + ((i - 1) % Base)
      /\ j - 1 = Base * ((j - 1) \div Base) + ((j - 1) % Base)
  BY <1>1, DivMod
<1>3. 0 + i - 1 = i - 1 /\ 0 + j - 1 = j - 1  OBVIOUS
<1>4. /\ 1 + ((i - 1) \div Base) = 1 + ((j - 1) \div Base)
      /\ (i - 1) % Base = (j - 1) % Base
  BY <1>3 DEF Cell
<1>5. (i - 1) \div Base = (j - 1) \div Base  BY <1>2, <1>4
<1>6. QED  BY <1>2, <1>4, <1>5

LEMMA CellExists ==
    ASSUME NEW i \in 1..(MaxNodes * Base)
    PROVE  Cell(1, 0, i) \in Cells
<1>1. MaxNodes \in Nat /\ MaxNodes * Base \in Nat  BY ByteArrayAssumption, Blocks
<1>2. i - 1 \in Nat /\ i - 1 < MaxNodes * Base /\ 0 + i - 1 = i - 1  BY <1>1
<1>3. (i - 1) \div Base \in Nat /\ (i - 1) % Base \in 0..Base-1  BY <1>2, DivMod
<1>4. (i - 1) \div Base < MaxNodes  BY <1>1, <1>2, InBlocks
<1>5. 1 + ((i - 1) \div Base) \in 1..MaxNodes  BY <1>1, <1>3, <1>4
<1>6. QED  BY <1>2, <1>3, <1>5 DEF Cell, Cells

\* Where a walk ends, and whether it finds all its blocks.
LEMMA WalkEnds ==
    ASSUME NEW at \in Nat, NEW n \in Nat, NEW last \in Nat
    PROVE  /\ After(last, BlockOf(at), at % Base, n) =
                 IF at + n < last * Base THEN BlockOf(at + n) ELSE Null
           /\ n > 0 => (Reaches(last, BlockOf(at), at % Base, n) <=> at + n <= last * Base)
           /\ BlockOf(at) \in Nat \ {0}
<1>0. at \div Base \in Nat /\ last * Base \in Nat  BY DivMod, Blocks
<1>1. BlockOf(at) \in Nat \ {0}  BY <1>0 DEF BlockOf
<1>2. After(last, BlockOf(at), at % Base, n) = IF at + n < last * Base THEN BlockOf(at + n) ELSE Null
  <2>1. n + 1 \in Nat \ {0} /\ at + (n + 1) - 1 = at + n /\ at + n \in Nat  OBVIOUS
  <2>2. Cell(BlockOf(at), at % Base, n + 1) = <<BlockOf(at + n), (at + n) % Base>>
    BY <2>1, WalkCells
  <2>3. BlockOf(at + n) <= last <=> at + n < last * Base
    <3>1. (at + n) \div Base \in Nat  BY <2>1, DivMod
    <3>2. ((at + n) \div Base < last) <=> (at + n < last * Base)  BY <2>1, InBlocks
    <3>3. QED  BY <3>1, <3>2 DEF BlockOf
  <2>4. QED  BY <2>2, <2>3 DEF After
<1>3. ASSUME n > 0
      PROVE  Reaches(last, BlockOf(at), at % Base, n) <=> at + n <= last * Base
  <2>1. n \in Nat \ {0} /\ at + n - 1 \in Nat  BY <1>3
  <2>2. Cell(BlockOf(at), at % Base, n) = <<BlockOf(at + n - 1), (at + n - 1) % Base>>
    BY <2>1, WalkCells
  <2>3. BlockOf(at + n - 1) <= last <=> at + n <= last * Base
    <3>1. (at + n - 1) \div Base \in Nat  BY <2>1, DivMod
    <3>2. ((at + n - 1) \div Base < last) <=> (at + n - 1 < last * Base)  BY <2>1, InBlocks
    <3>3. QED  BY <1>0, <2>1, <3>1, <3>2 DEF BlockOf
  <2>4. QED  BY <1>1, <1>3, <2>2, <2>3 DEF Reaches, Null
<1>4. QED  BY <1>1, <1>2, <1>3

\* setPosition and getReadBuffers(position) find the block of the position.
LEMMA SeekFinds ==
    ASSUME NEW p \in Nat, NEW last \in Nat
    PROVE  Seek(last, p) = IF p < last * Base THEN BlockOf(p) ELSE Null
<1>1. 0 \div Base = 0 /\ 0 % Base = 0
  <2>1. 0 = Base * 0 + 0 /\ 0 \in 0..Base-1  BY ByteArrayAssumption
  <2>2. QED  BY <2>1, DivUnique
<1>2. BlockOf(0) = 1 /\ 0 % Base = 0  BY <1>1 DEF BlockOf
<1>3. After(last, BlockOf(0), 0 % Base, p) = IF 0 + p < last * Base THEN BlockOf(0 + p) ELSE Null
  BY WalkEnds
<1>4. 0 + p = p  OBVIOUS
<1>5. QED  BY <1>2, <1>3, <1>4 DEF Seek

----------------------------------------------------------------------------
(***************************************************************************)
(* The inductive invariant.                                                *)
(***************************************************************************)
\* Every byte that was written is in the cell of its position.
MemInv ==
    /\ Len(text) = size
    /\ \A i \in 1..size : text[i] # Unset => mem[Cell(1, 0, i)] = text[i]

\* What the last operation returned, writeToFile apart.
ReadInv ==
    asked # "file" =>
        /\ asked \in {"elsewhere", "beyond"} \/ (exact /\ fault # "file")
        /\ fault = "null" =>
             asked \in {"elsewhere", "beyond"} \/ (asked = "empty" /\ position = capacity)

IInv == CursorAgrees /\ MemInv /\ ReadInv

\* The numbers of a buffer.
LEMMA Numbers ==
    ASSUME CursorAgrees
    PROVE  /\ nodes \in Nat /\ nodes >= 1 /\ nodes <= MaxNodes
           /\ position \in Nat /\ size \in Nat /\ capacity \in Nat
           /\ position <= size /\ size <= capacity /\ capacity = nodes * Base
           /\ Base \in Nat /\ Base >= 1 /\ MaxNodes \in Nat /\ MaxNodes * Base \in Nat
           /\ capacity <= MaxNodes * Base
<1>1. /\ Base \in Nat /\ Base >= 1 /\ MaxNodes \in Nat  BY ByteArrayAssumption
<1>2. MaxNodes * Base \in Nat  BY <1>1, Blocks
<1>3. QED  BY <1>1, <1>2 DEF CursorAgrees, TypeOK

\* m_cur at the position, wherever a byte can be read there.
LEMMA CursorBlock ==
    ASSUME CursorAgrees
    PROVE  cur = IF position = capacity THEN Null ELSE BlockOf(position)
BY DEF CursorAgrees, BlockOf

\* addCapacity(n) makes room for n bytes and leaves m_cur at the position.
LEMMA GrowMakesRoom ==
    ASSUME CursorAgrees, NEW n \in Nat \ {0}, Grow(n)
    PROVE  /\ nodes' \in 1..MaxNodes /\ nodes' >= nodes
           /\ capacity' \in Nat /\ capacity' = nodes' * Base /\ capacity' >= capacity
           /\ capacity' <= MaxNodes * Base
           /\ position + n <= capacity'
           /\ GrownCur(n) = BlockOf(position)
<1> DEFINE free == capacity - position
           more == NewNodes(n)
<1>0. /\ nodes \in Nat /\ nodes >= 1 /\ position \in Nat /\ capacity \in Nat /\ free \in Nat
      /\ position <= capacity /\ capacity = nodes * Base /\ MaxNodes \in Nat
  BY Numbers
<1>1. more \in Nat /\ (n > free => n - free <= more * Base) /\ (n <= free => more = 0)
  <2>1. CASE n > free
    <3>1. n - free \in Nat  BY <1>0, <2>1
    <3>2. (n - free + Base - 1) \div Base \in Nat /\ n - free <= ((n - free + Base - 1) \div Base) * Base
      BY <3>1, RoundUp
    <3>3. QED  BY <1>0, <2>1, <3>2 DEF NewNodes
  <2>2. CASE n <= free  BY <1>0, <2>2 DEF NewNodes
  <2>3. QED  BY <1>0, <2>1, <2>2
<1>2. nodes' = nodes + more /\ nodes' <= MaxNodes /\ capacity' = capacity + more * Base  BY DEF Grow
<1> HIDE DEF more
<1>3. more * Base \in Nat /\ (nodes + more) * Base = nodes * Base + more * Base  BY <1>0, <1>1, Blocks
<1>4. nodes' \in Nat /\ nodes' \in 1..MaxNodes /\ nodes' >= nodes  BY <1>0, <1>1, <1>2
<1>5. capacity' \in Nat /\ capacity' = nodes' * Base /\ capacity' >= capacity  BY <1>0, <1>2, <1>3
<1>6. capacity' <= MaxNodes * Base  BY <1>0, <1>4, <1>5, Blocks
<1>7. position + n <= capacity'  BY <1>0, <1>1, <1>2, <1>3
<1>8. GrownCur(n) = BlockOf(position)
  <2>1. CASE position = capacity
    <3>1. n > free  BY <1>0, <2>1
    <3>2. more # 0
      <4>1. 0 * Base = 0  BY ByteArrayAssumption
      <4>2. QED  BY <1>0, <1>1, <3>1, <4>1
    <3>3. position = Base * nodes + 0 /\ 0 \in 0..Base-1  BY <1>0, <2>1, Blocks, ByteArrayAssumption
    <3>4. nodes = position \div Base  BY <1>0, <3>3, DivUnique
    <3>5. QED  BY <1>0, <1>1, <2>1, <3>2, <3>4 DEF GrownCur, BlockOf, more
  <2>2. CASE position # capacity
    <3>1. cur = BlockOf(position)  BY <2>2, CursorBlock
    <3>2. QED  BY <1>0, <2>2, <3>1 DEF GrownCur
  <2>3. QED  BY <2>1, <2>2
<1>9. QED  BY <1>4, <1>5, <1>6, <1>7, <1>8

\* A function on 1..n is a sequence of length n.
LEMMA SeqOfLength ==
    ASSUME NEW S, NEW n \in Nat, NEW f \in [1..n -> S]
    PROVE  f \in Seq(S) /\ Len(f) = n
<1>1. f \in Seq(S)  BY SeqDef
<1>2. Len(f) \in Nat /\ 1..n = 1..Len(f)  BY <1>1, LenProperties
<1>3. ASSUME NEW m \in Nat, 1..n = 1..m PROVE m = n
  <2>1. CASE m < n
    <3>1. n \in 1..n /\ n \notin 1..m  BY <2>1
    <3>2. QED  BY <1>3, <3>1
  <2>2. CASE n < m
    <3>1. m \in 1..m /\ m \notin 1..n  BY <2>2
    <3>2. QED  BY <1>3, <3>1
  <2>3. QED  BY <2>1, <2>2
<1>4. QED  BY <1>1, <1>2, <1>3

\* A sequence of bytes.
LEMMA DataSeq ==
    ASSUME NEW n \in Nat, NEW data \in Data(n)
    PROVE  Len(data) = n /\ \A k \in 1..n : data[k] \in Bytes
<1>1. data \in [1..n -> Bytes]  BY DEF Data
<1>2. QED  BY <1>1, SeqOfLength

\* A copy into the list changes the cells of its positions and no other.
LEMMA StoreWrites ==
    ASSUME CursorAgrees, NEW n \in Nat, NEW data \in Data(n),
           position + n <= MaxNodes * Base, Store(BlockOf(position), data)
    PROVE  /\ mem' \in [Cells -> Bytes \cup {Junk}]
           /\ \A k \in 1..n : mem'[Cell(1, 0, position + k)] = data[k]
           /\ \A i \in 1..(MaxNodes * Base) :
                 ~(position < i /\ i <= position + n) => mem'[Cell(1, 0, i)] = mem[Cell(1, 0, i)]
<1> DEFINE cells == Walk(BlockOf(position), position % Base, n)
           Hits(c) == {k \in 1..n : cells[k] = c}
<1>0. position \in Nat /\ MaxNodes * Base \in Nat /\ mem \in [Cells -> Bytes \cup {Junk}]
  BY Numbers DEF CursorAgrees, TypeOK
<1>1. Len(data) = n /\ \A k \in 1..n : data[k] \in Bytes  BY DataSeq
<1>2. \A k \in 1..n : cells[k] = Cell(1, 0, position + k)
  BY <1>0, WalkCells DEF Walk
<1>3. mem' = [c \in Cells |-> IF \E k \in 1..n : cells[k] = c
                                THEN data[CHOOSE k \in 1..n : cells[k] = c] ELSE mem[c]]
  BY <1>1 DEF Store
<1> HIDE DEF cells
<1>4. mem' \in [Cells -> Bytes \cup {Junk}]
  <2>1. ASSUME NEW c \in Cells PROVE mem'[c] \in Bytes \cup {Junk}
    <3>1. CASE \E k \in 1..n : cells[k] = c
      <4>1. (CHOOSE k \in 1..n : cells[k] = c) \in 1..n  BY <3>1
      <4>2. QED  BY <1>1, <1>3, <3>1, <4>1
    <3>2. CASE ~\E k \in 1..n : cells[k] = c  BY <1>0, <1>3, <3>2
    <3>3. QED  BY <3>1, <3>2
  <2>2. QED  BY <1>3, <2>1
<1>5. ASSUME NEW k \in 1..n PROVE mem'[Cell(1, 0, position + k)] = data[k]
  <2>1. Cell(1, 0, position + k) \in Cells
    <3>1. position + k \in 1..(MaxNodes * Base)  BY <1>0
    <3>2. QED  BY <3>1, CellExists
  <2>2. \A j \in 1..n : cells[j] = cells[k] => j = k
    <3>1. SUFFICES ASSUME NEW j \in 1..n, cells[j] = cells[k] PROVE j = k  OBVIOUS
    <3>2. Cell(1, 0, position + j) = Cell(1, 0, position + k)  BY <1>2, <3>1
    <3>3. position + j \in Nat \ {0} /\ position + k \in Nat \ {0}  BY <1>0
    <3>4. position + j = position + k  BY <3>2, <3>3, CellInjective
    <3>5. QED  BY <1>0, <3>4
  <2>3. (CHOOSE j \in 1..n : cells[j] = cells[k]) = k  BY <2>2
  <2>4. QED  BY <1>2, <1>3, <2>1, <2>3
<1>6. ASSUME NEW i \in 1..(MaxNodes * Base), ~(position < i /\ i <= position + n)
      PROVE  mem'[Cell(1, 0, i)] = mem[Cell(1, 0, i)]
  <2>1. Cell(1, 0, i) \in Cells  BY CellExists
  <2>2. ASSUME NEW k \in 1..n, cells[k] = Cell(1, 0, i) PROVE FALSE
    <3>1. Cell(1, 0, position + k) = Cell(1, 0, i)  BY <1>2, <2>2
    <3>2. position + k \in Nat \ {0} /\ i \in Nat \ {0}  BY <1>0
    <3>3. position + k = i  BY <3>1, <3>2, CellInjective
    <3>4. QED  BY <1>0, <1>6, <3>3
  <2>3. QED  BY <1>3, <2>1, <2>2
<1>7. QED  BY <1>4, <1>5, <1>6

\* The text after a copy.
LEMMA NewTextIs ==
    ASSUME CursorAgrees, MemInv, NEW n \in Nat, NEW data \in Data(n)
    PROVE  /\ NewText(data) \in Seq(Bytes \cup {Unset})
           /\ Len(NewText(data)) = Larger(size, position + n)
           /\ \A i \in 1..Larger(size, position + n) :
                 NewText(data)[i] = IF position < i /\ i <= position + n THEN data[i - position] ELSE text[i]
<1> DEFINE m == Larger(size, position + n)
<1>0. position \in Nat /\ size \in Nat /\ m \in Nat /\ m >= size /\ m >= position + n
      /\ (m = size \/ m = position + n) /\ position <= size
  BY Numbers DEF Larger
<1>1. Len(data) = n /\ \A k \in 1..n : data[k] \in Bytes  BY DataSeq
<1>2. \A i \in 1..size : text[i] \in Bytes \cup {Unset}
  BY ElementOfSeq DEF CursorAgrees, TypeOK, MemInv
<1>3. NewText(data) = [i \in 1..m |-> IF i \in position + 1..position + n THEN data[i - position] ELSE text[i]]
  BY <1>1 DEF NewText
<1> HIDE DEF m
<1>4. \A i \in 1..m : NewText(data)[i] =
                        IF position < i /\ i <= position + n THEN data[i - position] ELSE text[i]
  BY <1>0, <1>3
<1>5. ASSUME NEW i \in 1..m PROVE NewText(data)[i] \in Bytes \cup {Unset}
  <2>1. CASE position < i /\ i <= position + n
    <3>1. i - position \in 1..n  BY <1>0, <2>1
    <3>2. QED  BY <1>1, <1>4, <2>1, <3>1
  <2>2. CASE ~(position < i /\ i <= position + n)
    <3>1. i \in 1..size  BY <1>0, <2>2
    <3>2. QED  BY <1>2, <1>4, <2>2, <3>1
  <2>3. QED  BY <2>1, <2>2
<1>6. NewText(data) \in [1..m -> Bytes \cup {Unset}]  BY <1>3, <1>5
<1>7. NewText(data) \in Seq(Bytes \cup {Unset}) /\ Len(NewText(data)) = m  BY <1>0, <1>6, SeqOfLength
<1>8. QED  BY <1>4, <1>7 DEF m

----------------------------------------------------------------------------
(***************************************************************************)
(* The operations.                                                         *)
(***************************************************************************)
\* Copying n bytes in at the position, write() and recv() into the blocks of
\* getWriteBuffers alike.
LEMMA Written ==
    ASSUME IInv, NEW room \in Nat \ {0}, NEW n \in 0..room, NEW data \in Data(n), Grow(room),
           Store(BlockOf(position), data), text' = NewText(data),
           position' = position + n, size' = Larger(size, position'),
           cur' = (IF position' = capacity' THEN Null ELSE BlockOf(position')),
           fault' = "none", asked' = "none", exact' = TRUE
    PROVE  IInv'
<1> CursorAgrees /\ MemInv  BY DEF IInv
<1>0. n \in Nat /\ n <= room  OBVIOUS
<1>1. /\ nodes \in Nat /\ position \in Nat /\ size \in Nat /\ capacity \in Nat
      /\ position <= size /\ size <= capacity /\ MaxNodes * Base \in Nat /\ MaxNodes \in Nat
  BY Numbers
<1>2. /\ nodes' \in 1..MaxNodes /\ capacity' \in Nat /\ capacity' = nodes' * Base
      /\ capacity' >= capacity /\ capacity' <= MaxNodes * Base /\ position + room <= capacity'
  BY GrowMakesRoom
<1>3. position + n <= MaxNodes * Base  BY <1>0, <1>1, <1>2
<1>4. /\ mem' \in [Cells -> Bytes \cup {Junk}]
      /\ \A k \in 1..n : mem'[Cell(1, 0, position + k)] = data[k]
      /\ \A i \in 1..(MaxNodes * Base) :
            ~(position < i /\ i <= position + n) => mem'[Cell(1, 0, i)] = mem[Cell(1, 0, i)]
  BY <1>0, <1>3, StoreWrites
<1>5. /\ text' \in Seq(Bytes \cup {Unset}) /\ Len(text') = Larger(size, position + n)
      /\ \A i \in 1..Larger(size, position + n) :
            text'[i] = IF position < i /\ i <= position + n THEN data[i - position] ELSE text[i]
  BY <1>0, NewTextIs
<1>6. /\ size' = Larger(size, position + n) /\ size' \in Nat /\ position' <= size' /\ size' <= capacity'
      /\ size' >= size /\ (size' = size \/ size' = position + n) /\ position' \in Nat
  BY <1>0, <1>1, <1>2 DEF Larger
<1>7. cur' \in 0..MaxNodes
  <2>1. CASE position' = capacity'  BY <1>1, <2>1 DEF Null
  <2>2. CASE position' # capacity'
    <3>1. position' < nodes' * Base /\ nodes' \in Nat  BY <1>2, <1>6, <2>2
    <3>2. position' \div Base \in Nat /\ position' \div Base < nodes'  BY <1>6, <3>1, DivMod, InBlocks
    <3>3. QED  BY <1>1, <1>2, <2>2, <3>2 DEF BlockOf
  <2>3. QED  BY <2>1, <2>2
<1>8. CursorAgrees'
  <2>1. TypeOK'  BY <1>1, <1>2, <1>4, <1>5, <1>6, <1>7 DEF TypeOK, Readers
  <2>2. QED  BY <2>1, <1>2, <1>6 DEF CursorAgrees, BlockOf
<1>9. MemInv'
  <2>1. Len(text') = size'  BY <1>5, <1>6
  <2>2. ASSUME NEW i \in 1..size', text'[i] # Unset PROVE mem'[Cell(1, 0, i)] = text'[i]
    <3>1. i \in 1..(MaxNodes * Base)  BY <1>1, <1>2, <1>6
    <3>2. CASE position < i /\ i <= position + n
      <4>1. i - position \in 1..n /\ position + (i - position) = i  BY <1>0, <1>1, <3>2
      <4>2. mem'[Cell(1, 0, i)] = data[i - position]  BY <1>4, <4>1
      <4>3. QED  BY <1>5, <1>6, <3>2, <4>2
    <3>3. CASE ~(position < i /\ i <= position + n)
      <4>1. i \in 1..size  BY <1>0, <1>1, <1>6, <3>3
      <4>2. text'[i] = text[i]  BY <1>5, <1>6, <3>3
      <4>3. mem'[Cell(1, 0, i)] = mem[Cell(1, 0, i)]  BY <1>4, <3>1, <3>3
      <4>4. QED  BY <2>2, <4>1, <4>2, <4>3 DEF MemInv
    <3>4. QED  BY <3>2, <3>3
  <2>3. QED  BY <2>1, <2>2 DEF MemInv, Cell
<1>10. ReadInv'  BY DEF ReadInv
<1>11. QED  BY <1>8, <1>9, <1>10 DEF IInv

\* write().
LEMMA WriteStep ==
    ASSUME IInv, NEW n \in 1..MaxLen, NEW data \in Data(n), Write(data)
    PROVE  IInv'
<1> CursorAgrees /\ MemInv  BY DEF IInv
<1>0. n \in Nat \ {0} /\ n \in Nat /\ n \in 0..n /\ Len(data) = n  BY ByteArrayAssumption, DataSeq
<1>1. Grow(n)  BY <1>0 DEF Write
<1>2. /\ nodes' \in Nat /\ capacity' = nodes' * Base /\ capacity' \in Nat
      /\ position + n <= capacity' /\ GrownCur(n) = BlockOf(position)
  <2>1. MaxNodes \in Nat  BY Numbers
  <2>2. QED  BY <1>0, <1>1, <2>1, GrowMakesRoom
<1>3. position \in Nat  BY Numbers
<1>4. /\ Reaches(nodes', BlockOf(position), position % Base, n)
      /\ After(nodes', BlockOf(position), position % Base, n) =
            IF position + n < nodes' * Base THEN BlockOf(position + n) ELSE Null
  <2>1. n > 0  BY <1>0
  <2>2. QED  BY <1>0, <1>2, <1>3, <2>1, WalkEnds
<1>5. /\ Store(BlockOf(position), data) /\ text' = NewText(data) /\ position' = position + n
      /\ size' = Larger(size, position')
      /\ cur' = After(nodes', BlockOf(position), position % Base, n)
      /\ fault' = "none" /\ asked' = "none" /\ exact' = TRUE
  BY <1>0, <1>2, <1>4 DEF Write
<1>6. cur' = IF position' = capacity' THEN Null ELSE BlockOf(position')
  BY <1>0, <1>2, <1>3, <1>4, <1>5
<1>7. QED  BY <1>0, <1>1, <1>5, <1>6, Written

\* recv() into the blocks of getWriteBuffers, then setPosition.
LEMMA ReceiveStep ==
    ASSUME IInv, NEW n \in 1..MaxLen, NEW k \in 0..MaxLen, NEW data \in Data(k), Receive(n, data)
    PROVE  IInv'
<1> CursorAgrees /\ MemInv  BY DEF IInv
<1>0. n \in Nat \ {0} /\ k \in Nat /\ Len(data) = k  BY ByteArrayAssumption, DataSeq
<1>1. Grow(n) /\ k \in 0..n  BY <1>0 DEF Receive
<1>2. /\ nodes' \in Nat /\ capacity' = nodes' * Base /\ capacity' \in Nat
      /\ position + n <= capacity' /\ GrownCur(n) = BlockOf(position)
  <2>1. MaxNodes \in Nat  BY Numbers
  <2>2. QED  BY <1>0, <1>1, <2>1, GrowMakesRoom
<1>3. position \in Nat  BY Numbers
<1>4. Reaches(nodes', BlockOf(position), position % Base, n)
  <2>1. n > 0 /\ n \in Nat  BY <1>0
  <2>2. QED  BY <1>2, <1>3, <2>1, WalkEnds
<1>5. /\ Store(BlockOf(position), data) /\ text' = NewText(data) /\ position' = position + k
      /\ size' = Larger(size, position')
      /\ cur' = IF k > 0 THEN Seek(nodes', position') ELSE BlockOf(position)
      /\ fault' = "none" /\ asked' = "none" /\ exact' = TRUE
  BY <1>0, <1>2, <1>4 DEF Receive
<1>6. cur' = IF position' = capacity' THEN Null ELSE BlockOf(position')
  <2>1. position' \in Nat /\ position' <= capacity'  BY <1>0, <1>1, <1>2, <1>3, <1>5
  <2>2. CASE k > 0
    <3>1. Seek(nodes', position') = IF position' < nodes' * Base THEN BlockOf(position') ELSE Null
      BY <1>2, <2>1, SeekFinds
    <3>2. QED  BY <1>2, <1>5, <2>1, <2>2, <3>1
  <2>3. CASE k = 0
    <3>1. position' = position /\ position' # capacity'  BY <1>0, <1>2, <1>3, <1>5, <2>3
    <3>2. QED  BY <1>5, <2>3, <3>1
  <2>4. QED  BY <1>0, <2>2, <2>3
<1>7. QED  BY <1>0, <1>1, <1>5, <1>6, Written

\* A walk from the block of a position reads the text from there on.
LEMMA WalkMatches ==
    ASSUME CursorAgrees, MemInv, NEW at \in Nat, NEW n \in Nat
    PROVE  Match(Walk(BlockOf(at), at % Base, n), at)
<1> DEFINE cells == Walk(BlockOf(at), at % Base, n)
<1>1. \A k \in 1..n : cells[k] = Cell(1, 0, at + k)  BY WalkCells DEF Walk
<1>2. Len(cells) = n
  <2>1. cells \in [1..n -> {cells[k] : k \in 1..n}]  BY DEF Walk
  <2>2. QED  BY <2>1, SeqOfLength
<1> HIDE DEF cells
<1>3. ASSUME NEW k \in 1..n, at + k <= size, text[at + k] # Unset
      PROVE  mem[cells[k]] = text[at + k]
  <2>1. at + k \in 1..size  BY <1>3, Numbers
  <2>2. QED  BY <1>1, <1>3, <2>1 DEF MemInv
<1>4. Match(cells, at)  BY <1>2, <1>3 DEF Match
<1>5. QED  BY <1>4 DEF cells

\* A step that moves nothing keeps what does not depend on the last operation.
LEMMA Unmoved ==
    ASSUME CursorAgrees, MemInv, asked' \in Readers, exact' \in BOOLEAN,
           fault' \in {"none", "null", "file"},
           UNCHANGED <<nodes, mem, capacity, position, size, cur, text>>
    PROVE  CursorAgrees' /\ MemInv'
<1>1. TypeOK'  BY DEF CursorAgrees, TypeOK
<1>2. QED  BY <1>1 DEF CursorAgrees, MemInv, Cell

\* read().
LEMMA ReadStep ==
    ASSUME IInv, NEW n \in 0..MaxLen, Read(n)
    PROVE  IInv'
<1> CursorAgrees /\ MemInv  BY DEF IInv
<1>0. /\ n \in Nat /\ nodes \in Nat /\ position \in Nat /\ size \in Nat /\ capacity \in Nat
      /\ size <= capacity /\ capacity = nodes * Base
      /\ cur = IF position = capacity THEN Null ELSE BlockOf(position)
  BY ByteArrayAssumption, Numbers, CursorBlock
<1>1. n <= size - position /\ UNCHANGED <<nodes, mem, capacity, size, text>>
  BY DEF Read, ReadSize
<1>2. CASE position = capacity
  <2>1. n = 0 /\ ~Reaches(nodes, cur, position % Base, n)  BY <1>0, <1>1, <1>2 DEF Reaches
  <2>2. asked' = "empty" /\ fault' = "null" /\ exact' = TRUE /\ UNCHANGED <<position, cur>>
    BY <2>1 DEF Read
  <2>3. CursorAgrees' /\ MemInv'  BY <1>1, <2>2, Unmoved DEF Readers
  <2>4. ReadInv'  BY <1>1, <1>2, <2>2 DEF ReadInv
  <2>5. QED  BY <2>3, <2>4 DEF IInv
<1>3. CASE position # capacity
  <2>1. Reaches(nodes, BlockOf(position), position % Base, n)
    <3>1. CASE n = 0
      <4>1. BlockOf(position) \in Nat \ {0}  BY <1>0, WalkEnds
      <4>2. QED  BY <3>1, <4>1 DEF Reaches, Null
    <3>2. CASE n > 0
      <4>1. position + n <= nodes * Base  BY <1>0, <1>1
      <4>2. QED  BY <1>0, <3>2, <4>1, WalkEnds
    <3>3. QED  BY <1>0, <3>1, <3>2
  <2>2. /\ exact' = Match(Walk(BlockOf(position), position % Base, n), position)
        /\ position' = position + n /\ fault' = "none"
        /\ cur' = After(nodes, BlockOf(position), position % Base, n)
        /\ asked' \in {"empty", "read"}
    BY <1>0, <1>3, <2>1 DEF Read
  <2>3. exact' = TRUE
    <3>1. Match(Walk(BlockOf(position), position % Base, n), position)  BY <1>0, WalkMatches
    <3>2. QED  BY <2>2, <3>1 DEF Match
  <2>4. position' \in Nat /\ position' <= size' /\ position' <= capacity
    BY <1>0, <1>1, <2>2
  <2>5. cur' = IF position' = capacity THEN Null ELSE BlockOf(position')
    <3>1. cur' = IF position + n < nodes * Base THEN BlockOf(position + n) ELSE Null
      BY <1>0, <2>2, WalkEnds
    <3>2. QED  BY <1>0, <2>2, <2>4, <3>1
  <2>6. cur' \in 0..MaxNodes
    <3>1. nodes <= MaxNodes /\ MaxNodes \in Nat  BY Numbers
    <3>2. CASE position' = capacity  BY <2>5, <3>1, <3>2 DEF Null
    <3>3. CASE position' # capacity
      <4>1. position' < nodes * Base  BY <1>0, <2>4, <3>3
      <4>2. position' \div Base \in Nat /\ position' \div Base < nodes  BY <1>0, <2>4, <4>1, DivMod, InBlocks
      <4>3. QED  BY <1>0, <2>5, <3>1, <3>3, <4>2 DEF BlockOf
    <3>4. QED  BY <3>2, <3>3
  <2>7. CursorAgrees'
    <3>1. capacity <= MaxNodes * Base /\ MaxNodes * Base \in Nat  BY Numbers
    <3>2. position' \in 0..(MaxNodes * Base)  BY <1>0, <2>4, <3>1
    <3>3. TypeOK'  BY <1>1, <2>2, <2>3, <2>6, <3>2 DEF CursorAgrees, TypeOK, Readers
    <3>4. QED  BY <1>0, <1>1, <2>4, <2>5, <3>3 DEF CursorAgrees, BlockOf
  <2>8. MemInv'  BY <1>1 DEF MemInv, Cell
  <2>9. ReadInv'  BY <2>2, <2>3 DEF ReadInv
  <2>10. QED  BY <2>7, <2>8, <2>9 DEF IInv
<1>4. QED  BY <1>2, <1>3

\* What an operation that moves nothing has read, if its bytes are there.
LEMMA PeekStep ==
    ASSUME IInv, NEW at \in Nat, NEW n \in Nat \ {0}, NEW node, Peek(at, node, n), asked' \in Readers \ {"file"},
           asked' \notin {"elsewhere", "beyond"} => at + n <= size /\ node = BlockOf(at)
    PROVE  IInv'
<1> CursorAgrees /\ MemInv  BY DEF IInv
<1>0. /\ nodes \in Nat /\ size \in Nat /\ capacity \in Nat /\ size <= capacity /\ capacity = nodes * Base
      /\ n \in Nat /\ n > 0
  BY Numbers
<1>1. UNCHANGED <<nodes, mem, capacity, position, size, cur, text>>  BY DEF Peek
<1>2. exact' \in BOOLEAN /\ fault' \in {"none", "null"}  BY DEF Peek, Match
<1>3. CursorAgrees' /\ MemInv'  BY <1>1, <1>2, Unmoved
<1>4. CASE asked' \in {"elsewhere", "beyond"}  BY <1>3, <1>4 DEF IInv, ReadInv
<1>5. CASE asked' \notin {"elsewhere", "beyond"}
  <2>1. at + n <= nodes * Base /\ node = BlockOf(at)  BY <1>0, <1>5
  <2>2. Reaches(nodes, BlockOf(at), at % Base, n)  BY <1>0, <2>1, WalkEnds
  <2>3. Match(Walk(BlockOf(at), at % Base, n), at)  BY <1>0, WalkMatches
  <2>4. fault' = "none" /\ exact'  BY <2>1, <2>2, <2>3 DEF Peek
  <2>5. QED  BY <1>3, <2>4 DEF IInv, ReadInv
<1>6. QED  BY <1>4, <1>5

\* read(buf, size, position).
LEMMA ReadAtStep ==
    ASSUME IInv, NEW n \in 1..MaxLen, NEW at \in 0..size, ReadAt(n, at)
    PROVE  IInv'
<1>0. /\ n \in Nat \ {0} /\ at \in Nat /\ position \in Nat /\ size \in Nat /\ capacity \in Nat /\ size <= capacity
      /\ cur = IF position = capacity THEN Null ELSE BlockOf(position)
  BY ByteArrayAssumption, Numbers, CursorBlock DEF IInv
<1>1. n <= size - position /\ Peek(at, cur, n)  BY DEF ReadAt, ReadSize
<1>2. cur = BlockOf(position)  BY <1>0, <1>1
<1>3. asked' \notin {"elsewhere", "beyond"} => at + n <= size /\ cur = BlockOf(at)
  BY <1>0, <1>2 DEF ReadAt, BlockOf
<1>4. asked' \in Readers \ {"file"}  BY DEF ReadAt, Readers
<1>5. QED  BY <1>0, <1>1, <1>3, <1>4, PeekStep

\* getReadBuffers(buffers, len) and toString().
LEMMA GetReadBuffersStep ==
    ASSUME IInv, NEW n \in 0..MaxLen, GetReadBuffers(n)
    PROVE  IInv'
<1>0. /\ n \in Nat /\ position \in Nat /\ size \in Nat /\ capacity \in Nat /\ size <= capacity
      /\ cur = IF position = capacity THEN Null ELSE BlockOf(position)
  BY ByteArrayAssumption, Numbers, CursorBlock DEF IInv
<1>1. 0 < n /\ n <= size - position /\ asked' = "buffers" /\ Peek(position, cur, n)
  BY DEF GetReadBuffers, ReadSize
<1>2. n \in Nat \ {0} /\ position + n <= size /\ cur = BlockOf(position)  BY <1>0, <1>1
<1>3. asked' \in Readers \ {"file"}  BY <1>1 DEF Readers
<1>4. QED  BY <1>0, <1>1, <1>2, <1>3, PeekStep

\* getReadBuffers(buffers, len, position).
LEMMA GetReadBuffersAtStep ==
    ASSUME IInv, NEW n \in 1..MaxLen, NEW at \in 0..size, GetReadBuffersAt(n, at)
    PROVE  IInv'
<1>0. /\ n \in Nat \ {0} /\ at \in Nat /\ nodes \in Nat /\ size \in Nat /\ capacity \in Nat
      /\ size <= capacity /\ capacity = nodes * Base
  BY ByteArrayAssumption, Numbers DEF IInv
<1>1. Peek(at, Seek(nodes, at), n)  BY DEF GetReadBuffersAt
<1>2. asked' \in Readers \ {"file"}  BY DEF GetReadBuffersAt, Readers
<1>3. ASSUME asked' \notin {"elsewhere", "beyond"} PROVE at + n <= size /\ Seek(nodes, at) = BlockOf(at)
  <2>1. at + n <= size  BY <1>0, <1>3 DEF GetReadBuffersAt
  <2>2. at < nodes * Base  BY <1>0, <2>1
  <2>3. QED  BY <1>0, <2>1, <2>2, SeekFinds
<1>4. QED  BY <1>0, <1>1, <1>2, <1>3, PeekStep

\* setPosition().
LEMMA SetPositionStep ==
    ASSUME IInv, fault = "none", NEW p \in 0..(MaxNodes * Base), SetPosition(p)
    PROVE  IInv'
<1> CursorAgrees /\ MemInv  BY DEF IInv
<1>0. /\ nodes \in Nat /\ size \in Nat /\ capacity \in Nat /\ size <= capacity /\ capacity = nodes * Base
      /\ MaxNodes \in Nat /\ nodes <= MaxNodes /\ MaxNodes * Base \in Nat /\ capacity <= MaxNodes * Base
      /\ p \in Nat /\ p <= capacity
  BY Numbers DEF SetPosition
<1>1. /\ position' = p /\ size' = Larger(size, p) /\ cur' = Seek(nodes, p)
      /\ text' = [i \in 1..Larger(size, p) |-> IF i <= size THEN text[i] ELSE Unset]
      /\ asked' = "none" /\ exact' = TRUE /\ fault' = "none" /\ UNCHANGED <<nodes, mem, capacity>>
  BY DEF SetPosition
<1>2. size' \in Nat /\ size <= size' /\ p <= size' /\ size' <= capacity  BY <1>0, <1>1 DEF Larger
<1>3. cur' = IF p = capacity THEN Null ELSE BlockOf(p)
  <2>1. cur' = IF p < nodes * Base THEN BlockOf(p) ELSE Null  BY <1>0, <1>1, SeekFinds
  <2>2. QED  BY <1>0, <2>1
<1>4. cur' \in 0..MaxNodes
  <2>1. CASE p = capacity  BY <1>0, <1>3, <2>1 DEF Null
  <2>2. CASE p # capacity
    <3>1. p \div Base \in Nat /\ p \div Base < nodes  BY <1>0, <2>2, DivMod, InBlocks
    <3>2. QED  BY <1>0, <1>3, <2>2, <3>1 DEF BlockOf
  <2>3. QED  BY <2>1, <2>2
<1>5. \A i \in 1..size : text[i] \in Bytes \cup {Unset}
  BY ElementOfSeq DEF CursorAgrees, TypeOK, MemInv
<1>6. \A i \in 1..size' : text'[i] = IF i <= size THEN text[i] ELSE Unset  BY <1>1
<1>7. text' \in [1..size' -> Bytes \cup {Unset}]
  <2>1. \A i \in 1..size' : text'[i] \in Bytes \cup {Unset}  BY <1>0, <1>2, <1>5, <1>6
  <2>2. QED  BY <1>1, <2>1
<1>8. text' \in Seq(Bytes \cup {Unset}) /\ Len(text') = size'  BY <1>2, <1>7, SeqOfLength
<1>9. CursorAgrees'
  <2>1. position' \in 0..(MaxNodes * Base) /\ size' \in 0..(MaxNodes * Base)  BY <1>0, <1>1, <1>2
  <2>2. TypeOK'  BY <1>1, <1>4, <1>8, <2>1 DEF CursorAgrees, TypeOK, Readers
  <2>3. QED  BY <1>0, <1>1, <1>2, <1>3, <2>2 DEF CursorAgrees, BlockOf
<1>10. MemInv'
  <2>1. ASSUME NEW i \in 1..size', text'[i] # Unset PROVE mem'[Cell(1, 0, i)] = text'[i]
    <3>1. i \in 1..size /\ text'[i] = text[i]  BY <1>0, <1>6, <2>1
    <3>2. QED  BY <1>1, <2>1, <3>1 DEF MemInv
  <2>2. QED  BY <1>8, <2>1 DEF MemInv, Cell
<1>11. ReadInv'  BY <1>1 DEF ReadInv
<1>12. QED  BY <1>9, <1>10, <1>11 DEF IInv

\* writeToFile().
LEMMA WriteToFileStep ==
    ASSUME IInv, WriteToFile
    PROVE  IInv'
<1>1. asked' = "file" /\ UNCHANGED <<nodes, mem, capacity, position, size, cur, text>>  BY DEF WriteToFile
<1>2. exact' \in BOOLEAN /\ fault' \in {"none", "null", "file"}  BY DEF WriteToFile, Match
<1>3. CursorAgrees' /\ MemInv'  BY <1>1, <1>2, Unmoved DEF IInv, Readers
<1>4. QED  BY <1>1, <1>3 DEF IInv, ReadInv

\* clear().
LEMMA ClearStep ==
    ASSUME IInv, fault = "none", Clear
    PROVE  IInv'
<1> CursorAgrees  BY DEF IInv
<1>0. Base \in Nat /\ Base >= 1 /\ MaxNodes \in Nat /\ MaxNodes >= 1 /\ MaxNodes * Base \in Nat /\ Base <= MaxNodes * Base
  <2>1. nodes \in Nat /\ nodes >= 1 /\ nodes <= MaxNodes /\ MaxNodes \in Nat /\ Base \in Nat /\ Base >= 1
        /\ MaxNodes * Base \in Nat
    BY Numbers
  <2>2. 1 * Base <= MaxNodes * Base /\ 1 * Base = Base  BY <2>1, Blocks
  <2>3. QED  BY <2>1, <2>2
<1>1. /\ nodes' = 1 /\ capacity' = Base /\ position' = 0 /\ size' = 0 /\ cur' = 1 /\ text' = <<>>
      /\ asked' = "none" /\ exact' = TRUE /\ fault' = "none"
      /\ mem' \in [Cells -> Bytes \cup {Junk}]
  BY DEF Clear, CursorAgrees, TypeOK
<1>2. text' \in Seq(Bytes \cup {Unset}) /\ Len(text') = 0  BY <1>1, EmptySeq
<1>3. 0 \div Base = 0
  <2>1. 0 = Base * 0 + 0 /\ 0 \in 0..Base-1  BY <1>0
  <2>2. QED  BY <2>1, DivUnique
<1>4. TypeOK'  BY <1>0, <1>1, <1>2 DEF TypeOK, Readers
<1>5. CursorAgrees'
  <2>1. capacity' = nodes' * Base  BY <1>0, <1>1
  <2>2. cur' = IF position' = capacity' THEN Null ELSE position' \div Base + 1  BY <1>0, <1>1, <1>3
  <2>3. QED  BY <1>0, <1>1, <1>4, <2>1, <2>2 DEF CursorAgrees
<1>6. MemInv' /\ ReadInv'  BY <1>1, <1>2 DEF MemInv, ReadInv
<1>7. QED  BY <1>5, <1>6 DEF IInv

----------------------------------------------------------------------------
(***************************************************************************)
(* The theorems.                                                           *)
(***************************************************************************)
LEMMA InitIInv == Init => IInv
<1> SUFFICES ASSUME Init PROVE IInv  OBVIOUS
<1>0. Base \in Nat /\ Base >= 1 /\ MaxNodes \in Nat /\ MaxNodes >= 1 /\ MaxNodes * Base \in Nat /\ Base <= MaxNodes * Base
  <2>1. Base \in Nat /\ Base >= 1 /\ MaxNodes \in Nat /\ MaxNodes >= 1  BY ByteArrayAssumption
  <2>2. 1 * Base <= MaxNodes * Base /\ 1 * Base = Base /\ MaxNodes * Base \in Nat  BY <2>1, Blocks
  <2>3. QED  BY <2>1, <2>2
<1>1. text \in Seq(Bytes \cup {Unset}) /\ Len(text) = 0  BY EmptySeq DEF Init
<1>2. 0 \div Base = 0
  <2>1. 0 = Base * 0 + 0 /\ 0 \in 0..Base-1  BY <1>0
  <2>2. QED  BY <2>1, DivUnique
<1>3. TypeOK  BY <1>0, <1>1 DEF Init, TypeOK, Readers
<1>4. CursorAgrees  BY <1>0, <1>2, <1>3 DEF Init, CursorAgrees
<1>5. MemInv /\ ReadInv  BY <1>1 DEF Init, MemInv, ReadInv
<1>6. QED  BY <1>4, <1>5 DEF IInv

LEMMA NextIInv == IInv /\ [Next]_vars => IInv'
<1> SUFFICES ASSUME IInv, [Next]_vars PROVE IInv'  OBVIOUS
<1>1. CASE UNCHANGED vars
  BY <1>1 DEF vars, IInv, CursorAgrees, TypeOK, MemInv, ReadInv, Cell
<1>2. ASSUME NEW n \in 1..MaxLen, NEW data \in Data(n), Write(data) PROVE IInv'  BY <1>2, WriteStep
<1>3. ASSUME NEW n \in 0..MaxLen, Read(n) PROVE IInv'  BY <1>3, ReadStep
<1>4. ASSUME NEW n \in 0..MaxLen, GetReadBuffers(n) PROVE IInv'  BY <1>4, GetReadBuffersStep
<1>5. ASSUME fault = "none", NEW p \in 0..(MaxNodes * Base), SetPosition(p) PROVE IInv'
  BY <1>5, SetPositionStep
<1>6. ASSUME NEW n \in 1..MaxLen, NEW at \in 0..size, ReadAt(n, at) PROVE IInv'  BY <1>6, ReadAtStep
<1>7. ASSUME NEW n \in 1..MaxLen, NEW at \in 0..size, GetReadBuffersAt(n, at) PROVE IInv'
  BY <1>7, GetReadBuffersAtStep
<1>8. ASSUME NEW n \in 1..MaxLen, NEW k \in 0..MaxLen, NEW data \in Data(k), Receive(n, data) PROVE IInv'
  BY <1>8, ReceiveStep
<1>9. CASE WriteToFile  BY <1>9, WriteToFileStep
<1>10. CASE fault = "none" /\ Clear  BY <1>10, ClearStep
<1>11. QED  BY <1>1, <1>2, <1>3, <1>4, <1>5, <1>6, <1>7, <1>8, <1>9, <1>10 DEF Next

\* The invariant of the buffer: cursor, bytes and results.
THEOREM Invariance == Spec => []IInv
BY InitIInv, NextIInv, PTL DEF Spec

\* m_cur is the block of m_position after every sequence of operations, and
\* position, size, capacity and the number of blocks agree, for every block
\* size (bytearray.cpp: write, read, setPosition, addCapacity, clear).
THEOREM CursorStaysRight == Spec => []CursorAgrees
<1>1. IInv => CursorAgrees  BY DEF IInv
<1>2. QED  BY <1>1, Invariance, PTL

\* A byte that was written stays in the cell of its position whatever is done
\* to the buffer, and what read, getReadBuffers and toString return is what was
\* written; the result of writeToFile, a recursion over the blocks, is left to
\* the run.
THEOREM BytesReadBack == Spec => [](MemInv /\ (asked # "file" => ReadsBack))
<1>1. IInv => MemInv /\ (asked # "file" => ReadsBack)
  BY DEF IInv, MemInv, ReadInv, ReadsBack
<1>2. QED  BY <1>1, Invariance, PTL
=============================================================================
