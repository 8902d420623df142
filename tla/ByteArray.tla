----------------------------- MODULE ByteArray -----------------------------
(***************************************************************************)
(* The buffer of luwu/bytearray.{h,cpp}: a list of memory blocks of        *)
(* m_baseSize bytes behind a position, a size and a pointer m_cur to the   *)
(* block that holds the position.  m_cur is a cache of the position: every *)
(* copy starts at m_cur, offset m_position % m_baseSize, and it is null    *)
(* when the position is at the end of the last block.                      *)
(*                                                                         *)
(* text is what the buffer means: the bytes by position, or Unset where    *)
(* setPosition has skipped bytes nobody wrote.  asked and exact record     *)
(* what the last operation was asked to read, and whether it returned the  *)
(* bytes of text.                                                          *)
(***************************************************************************)
EXTENDS Integers, Sequences

CONSTANTS
    Base,        \* m_baseSize
    MaxNodes,    \* bound on the number of blocks
    MaxLen,      \* bound on the length of one read or write
    Bytes,       \* byte values
    Junk,        \* what new char[] leaves in a block
    Unset        \* in text: a byte nobody wrote

Null == 0

ASSUME ByteArrayAssumption ==
    /\ Base \in Nat \ {0} /\ MaxNodes \in Nat \ {0} /\ MaxLen \in Nat
    /\ Junk \notin Bytes /\ Unset \notin Bytes

VARIABLES
    nodes,       \* blocks in the list, numbered from m_root = 1
    mem,         \* their contents
    capacity, position, size, cur,
    text,        \* what the buffer holds, by position
    asked,       \* what the last operation was asked to read: see Readers
    exact,       \* what it returned, if anything, is what was written there
    fault        \* "none", "null" (null pointer), "file" (writeToFile lost its way)

vars == <<nodes, mem, capacity, position, size, cur, text, asked, exact, fault>>

Cells == (1..MaxNodes) \X (0..Base-1)
\* "elsewhere": a position in another block than the current one; "beyond": more
\* than there is behind the position.
Readers == {"none", "read", "empty", "readAt", "elsewhere", "buffers", "buffersAt", "beyond", "file"}

Data(n) == [1..n -> Bytes]

TypeOK ==
    /\ nodes \in 1..MaxNodes
    /\ mem \in [Cells -> Bytes \cup {Junk}]
    /\ {capacity, position, size} \subseteq 0..(MaxNodes * Base)
    /\ cur \in 0..MaxNodes
    /\ text \in Seq(Bytes \cup {Unset})
    /\ asked \in Readers
    /\ exact \in BOOLEAN
    /\ fault \in {"none", "null", "file"}

Init ==
    /\ nodes = 1
    /\ mem = [c \in Cells |-> Junk]
    /\ capacity = Base /\ position = 0 /\ size = 0
    /\ cur = 1
    /\ text = <<>>
    /\ asked = "none" /\ exact = TRUE
    /\ fault = "none"

----------------------------------------------------------------------------
(***************************************************************************)
(* Walking the list: n bytes from offset off of block node.                *)
(***************************************************************************)
ReadSize == size - position

Cell(node, off, k) == <<node + ((off + k - 1) \div Base), (off + k - 1) % Base>>

Walk(node, off, n) == [k \in 1..n |-> Cell(node, off, k)]

\* No block of the walk is missing; m_cur->size is read even if n = 0.
Reaches(last, node, off, n) == node # Null /\ (n = 0 \/ Cell(node, off, n)[1] <= last)

\* Mutant: the pointer stays on a block that was used up.
AfterStays(last, node, off, n) == IF n = 0 THEN node ELSE Cell(node, off, n)[1]

\* The block pointer after the walk: a block that is used up is left.
After(last, node, off, n) ==
    LET next == Cell(node, off, n + 1)[1] IN IF next <= last THEN next ELSE Null

\* The bytes in these cells are the text from position at on; bytes past
\* m_size are not data and say nothing.
Match(cells, at) ==
    \A k \in 1..Len(cells) :
        at + k <= size /\ text[at + k] # Unset => mem[cells[k]] = text[at + k]

Larger(a, b) == IF a > b THEN a ELSE b

\* addCapacity(n): blocks to append, and m_cur afterwards.
NewNodes(n) == IF n > capacity - position THEN (n - (capacity - position) + Base - 1) \div Base ELSE 0

GrownCur(n) == IF NewNodes(n) > 0 /\ capacity = position THEN nodes + 1 ELSE cur

Grow(n) ==
    /\ nodes + NewNodes(n) <= MaxNodes
    /\ nodes' = nodes + NewNodes(n)
    /\ capacity' = capacity + NewNodes(n) * Base

\* Copy data into the list from the position on, which is in block node.
Store(node, data) ==
    LET cells == Walk(node, position % Base, Len(data)) IN
    mem' = [c \in Cells |->
              IF \E k \in 1..Len(data) : cells[k] = c
                THEN data[CHOOSE k \in 1..Len(data) : cells[k] = c]
                ELSE mem[c]]

\* The bytes at position become data, everything behind them stays.
NewText(data) ==
    [i \in 1..Larger(size, position + Len(data)) |->
        IF i \in position + 1..position + Len(data) THEN data[i - position] ELSE text[i]]

\* The m_cur of setPosition(p): from the root, block by block.
Seek(last, p) == After(last, 1, 0, p)

----------------------------------------------------------------------------
(***************************************************************************)
(* Operations.                                                             *)
(***************************************************************************)
\* write(buf, size); with size 0 it returns at once.
Write(data) ==
    /\ Grow(Len(data))
    /\ IF Reaches(nodes', GrownCur(Len(data)), position % Base, Len(data))
         THEN /\ Store(GrownCur(Len(data)), data)
              /\ text' = NewText(data)
              /\ position' = position + Len(data)
              /\ size' = Larger(size, position')
              /\ cur' = After(nodes', GrownCur(Len(data)), position % Base, Len(data))
              /\ fault' = "none"
         ELSE fault' = "null" /\ UNCHANGED <<mem, text, position, size, cur>>
    /\ asked' = "none" /\ exact' = TRUE

\* read(buf, size); more than getReadSize() throws.
Read(n) ==
    /\ n <= ReadSize
    /\ asked' = IF n = 0 THEN "empty" ELSE "read"
    /\ IF Reaches(nodes, cur, position % Base, n)
         THEN /\ exact' = Match(Walk(cur, position % Base, n), position)
              /\ position' = position + n
              /\ cur' = After(nodes, cur, position % Base, n)
              /\ fault' = "none"
         ELSE fault' = "null" /\ exact' = TRUE /\ UNCHANGED <<position, cur>>
    /\ UNCHANGED <<nodes, mem, capacity, size, text>>

\* setPosition(pos) moves the size along when the position passes it.
SetPosition(p) ==
    /\ p <= capacity
    /\ position' = p
    /\ size' = Larger(size, p)
    /\ text' = [i \in 1..Larger(size, p) |-> IF i <= size THEN text[i] ELSE Unset]
    /\ cur' = Seek(nodes, p)
    /\ asked' = "none" /\ exact' = TRUE
    /\ UNCHANGED <<nodes, mem, capacity, fault>>

\* What an operation that moves nothing has read.
Peek(at, node, n) ==
    /\ IF Reaches(nodes, node, at % Base, n)
         THEN exact' = Match(Walk(node, at % Base, n), at) /\ fault' = "none"
         ELSE fault' = "null" /\ exact' = TRUE
    /\ UNCHANGED <<nodes, mem, capacity, position, size, cur, text>>

\* read(buf, size, position): the walk starts at m_cur.
ReadAt(n, at) ==
    /\ 0 < n /\ n <= ReadSize
    /\ asked' = IF at + n > size THEN "beyond"
               ELSE IF at \div Base # position \div Base THEN "elsewhere" ELSE "readAt"
    /\ Peek(at, cur, n)

\* getReadBuffers(buffers, len), and toString() with len = getReadSize().
GetReadBuffers(n) ==
    /\ 0 < n /\ n <= ReadSize
    /\ asked' = "buffers"
    /\ Peek(position, cur, n)

\* getReadBuffers(buffers, len, position): the walk starts at the root.
GetReadBuffersAt(n, at) ==
    /\ 0 < n /\ n <= ReadSize
    /\ asked' = IF at + n > size THEN "beyond" ELSE "buffersAt"
    /\ Peek(at, Seek(nodes, at), n)

\* SocketStream::read(ba, n): getWriteBuffers(n), recv of data, setPosition.
Receive(n, data) ==
    /\ 0 < n /\ Len(data) <= n
    /\ Grow(n)
    /\ LET first == GrownCur(n) k == Len(data) IN
         IF Reaches(nodes', first, position % Base, n)
           THEN /\ Store(first, data)
                /\ text' = NewText(data)
                /\ position' = position + k
                /\ size' = Larger(size, position')
                /\ cur' = IF k > 0 THEN Seek(nodes', position') ELSE first
                /\ fault' = "none"
           ELSE fault' = "null" /\ UNCHANGED <<mem, text, position, size, cur>>
    /\ asked' = "none" /\ exact' = TRUE

\* The cells writeToFile copies for rest bytes from position pos of block node;
\* a missing block or a chunk without bytes is a cell of no block.
FileCells[rest \in Nat, pos \in Nat, node \in Nat] ==
    LET off == pos % Base
        len == (IF rest > Base THEN Base ELSE rest) - off
    IN IF rest = 0 THEN <<>>
       ELSE IF node = Null \/ len <= 0 THEN <<<<Null, 0>>>>
       ELSE [k \in 1..len |-> <<node, off + k - 1>>]
              \o FileCells[rest - len, pos + len, IF node < nodes THEN node + 1 ELSE Null]

WriteToFile ==
    /\ asked' = "file"
    /\ LET cells == FileCells[ReadSize, position, cur] IN
         IF \E k \in 1..Len(cells) : cells[k][1] = Null
           THEN fault' = "file" /\ exact' = TRUE
           ELSE fault' = "none" /\ exact' = Match(cells, position)
    /\ UNCHANGED <<nodes, mem, capacity, position, size, cur, text>>

\* Mutant: clear() leaves m_cur on a deleted block.
ClearKeepsCur ==
    /\ nodes' = 1
    /\ capacity' = Base /\ position' = 0 /\ size' = 0
    /\ mem' = [c \in Cells |-> IF c[1] = 1 THEN mem[c] ELSE Junk]
    /\ text' = <<>>
    /\ asked' = "none" /\ exact' = TRUE
    /\ UNCHANGED <<cur, fault>>

\* clear(): the first block is kept, with its bytes.
Clear ==
    /\ nodes' = 1
    /\ capacity' = Base /\ position' = 0 /\ size' = 0
    /\ mem' = [c \in Cells |-> IF c[1] = 1 THEN mem[c] ELSE Junk]
    /\ cur' = 1
    /\ text' = <<>>
    /\ asked' = "none" /\ exact' = TRUE
    /\ UNCHANGED fault

Next ==
    \/ /\ fault = "none"
       /\ \/ \E n \in 1..MaxLen : \E data \in Data(n) : Write(data)
          \/ \E n \in 0..MaxLen : Read(n) \/ GetReadBuffers(n)
          \/ \E p \in 0..(MaxNodes * Base) : SetPosition(p)
          \/ \E n \in 1..MaxLen, at \in 0..size : ReadAt(n, at) \/ GetReadBuffersAt(n, at)
          \/ \E n \in 1..MaxLen, k \in 0..MaxLen : \E data \in Data(k) : Receive(n, data)
          \/ WriteToFile
          \/ Clear
    \/ fault # "none" /\ UNCHANGED vars

Spec == Init /\ [][Next]_vars

----------------------------------------------------------------------------
(***************************************************************************)
(* Properties.                                                             *)
(***************************************************************************)
\* The cached pointer m_cur is the block that holds the position after every
\* sequence of operations, and null exactly at the end of the last block;
\* position, size and capacity stay in order (write, read, setPosition,
\* addCapacity, clear).
CursorAgrees ==
    /\ TypeOK
    /\ position <= size /\ size <= capacity /\ capacity = nodes * Base
    /\ cur = IF position = capacity THEN Null ELSE position \div Base + 1

\* A byte written at a position is in the cell that belongs to it, whatever was
\* written, skipped or received around it.  What read, getReadBuffers (with and
\* without a position) and toString return is what was written at those
\* positions; so is what read with a position in the current block returns (in
\* another block it starts at m_cur all the same), and what writeToFile writes
\* from the start of a block (from inside one the length of a chunk may come out
\* too short, zero or negative).  And no operation walks past the end of the
\* block list, unless it is asked for bytes that are not there, for a position
\* in another block, or for none at all at the end of the last block, where
\* read() looks at m_cur->size first.
ReadsBack ==
    /\ Len(text) = size
    /\ \A i \in 1..size : text[i] # Unset => mem[Cell(1, 0, i)] = text[i]
    /\ \/ asked \in {"elsewhere", "beyond"} \/ (asked = "file" /\ position % Base # 0)
       \/ exact /\ fault # "file"
    /\ fault = "null" =>
         asked \in {"elsewhere", "beyond"} \/ (asked = "empty" /\ position = capacity)
=============================================================================
