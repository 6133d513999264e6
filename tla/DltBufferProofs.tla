--------------------------- MODULE DltBufferProofs ---------------------------
(***************************************************************************)
(* For every set of messages that fit in the smallest ring, and all sizes: *)
(* the layout of the ring is invariant, dlt_buffer_get never finds it      *)
(* corrupt, and the ring implements the bounded FIFO queue of DltFifo.     *)
(***************************************************************************)
EXTENDS DltBuffer, TLAPS

IInv == TypeOK /\ Layout

-----------------------------------------------------------------------------
(* Sizes and pointer arithmetic.                                           *)

(* A message's block is at least its header.                               *)
LEMMA NeedType ==
    ASSUME NEW m \in Msg
    PROVE  /\ Parts[m][1] \in Nat /\ Parts[m][2] \in Nat /\ Parts[m][3] \in Nat
           /\ Length(m) \in Nat /\ Need(m) \in Nat
           /\ Need(m) >= BlockHead /\ Need(m) > 0
           /\ Need(m) = BlockHead + Parts[m][1] + Parts[m][2] + Parts[m][3]
BY PartsAssumption, HeadAssumption DEF Length, Need

(* A pointer stays within the ring.                                        *)
LEMMA AdvanceType ==
    ASSUME NEW sz \in Nat, NEW r \in 0 .. sz, NEW n \in 0 .. sz
    PROVE  Advance(sz, r, n) \in 0 .. sz
BY DEF Advance

(* Advancing in two steps is advancing once.                               *)
LEMMA AdvanceAdd ==
    ASSUME NEW sz \in Nat, NEW r \in 0 .. sz, NEW a \in Nat, NEW b \in Nat, a + b <= sz
    PROVE  Advance(sz, Advance(sz, r, a), b) = Advance(sz, r, a + b)
BY DEF Advance

(* A cell counted from an advanced pointer is a cell counted from the      *)
(* pointer it came from.                                                   *)
LEMMA CellAdd ==
    ASSUME NEW sz \in Nat, NEW r \in 0 .. sz, NEW a \in Nat, NEW k \in Nat, a + k < sz
    PROVE  CellAt(sz, Advance(sz, r, a), k) = CellAt(sz, r, a + k)
BY DEF Advance, CellAt

(* Cells within the ring's size are cells of the ring.                     *)
LEMMA CellType ==
    ASSUME NEW sz \in Nat, NEW r \in 0 .. sz, NEW k \in Nat, k < sz
    PROVE  CellAt(sz, r, k) \in 0 .. sz - 1
BY DEF CellAt

(* From the start of the ring, cells are their distances.                  *)
LEMMA CellZero ==
    ASSUME NEW sz \in Nat, NEW k \in Nat, k < sz
    PROVE  CellAt(sz, 0, k) = k
BY DEF CellAt

(* What Append leaves alone and what it adds.                              *)
LEMMA AppendIs ==
    ASSUME NEW S, NEW s \in Seq(S), NEW e \in S
    PROVE  /\ Len(Append(s, e)) = Len(s) + 1
           /\ \A i \in 1 .. Len(s) : Append(s, e)[i] = s[i]
           /\ Append(s, e)[Len(s) + 1] = e
OBVIOUS

(* Distance and CellAt are inverse.                                        *)
LEMMA DistanceCell ==
    ASSUME NEW sz \in Nat, NEW r \in 0 .. sz, NEW k \in Nat, k < sz
    PROVE  Distance(sz, r, CellAt(sz, r, k)) = k
BY DEF CellAt, Distance

(* A cell below the used bytes is, seen from the write pointer, beyond the *)
(* free bytes.                                                             *)
LEMMA DistanceUsed ==
    ASSUME NEW sz \in Nat, NEW r \in 0 .. sz, NEW u \in 0 .. sz, NEW k \in Nat, k < u
    PROVE  Distance(sz, Advance(sz, r, u), CellAt(sz, r, k)) >= sz - u
BY DEF Advance, CellAt, Distance

(* Writing two consecutive blocks is writing one.                          *)
LEMMA WriteTwice ==
    ASSUME size \in Nat, NEW b, NEW m, NEW k \in Nat, NEW n1 \in Nat, NEW n2 \in Nat,
           b.write \in 0 .. size, n1 + n2 <= size
    PROVE  dlt_buffer_write_block(dlt_buffer_write_block(b, m, k, n1), m, k + n1, n2)
              = dlt_buffer_write_block(b, m, k, n1 + n2)
<1> DEFINE w == b.write
           w1 == Advance(size, w, n1)
           b1 == dlt_buffer_write_block(b, m, k, n1)
<1>1. b1 = [mem |-> [p \in 0 .. size - 1 |->
                        IF Distance(size, w, p) < n1
                        THEN Block(m, k + Distance(size, w, p)) ELSE b.mem[p]],
            write |-> w1]
  BY DEF dlt_buffer_write_block
<1>2. Advance(size, w1, n2) = Advance(size, w, n1 + n2)
  BY AdvanceAdd
<1>3. ASSUME NEW p \in 0 .. size - 1
      PROVE  /\ Distance(size, w, p) \in Nat
             /\ Distance(size, w1, p) \in Nat
             /\ Distance(size, w1, p) < n2
                  => Distance(size, w, p) = n1 + Distance(size, w1, p)
             /\ Distance(size, w, p) < n1 + n2 /\ ~(Distance(size, w, p) < n1)
                  => Distance(size, w1, p) < n2
  BY DEF Distance, Advance
<1>4. [p \in 0 .. size - 1 |->
          IF Distance(size, w1, p) < n2
          THEN Block(m, k + n1 + Distance(size, w1, p)) ELSE b1.mem[p]]
      = [p \in 0 .. size - 1 |->
          IF Distance(size, w, p) < n1 + n2
          THEN Block(m, k + Distance(size, w, p)) ELSE b.mem[p]]
  <2> SUFFICES ASSUME NEW p \in 0 .. size - 1
               PROVE  (IF Distance(size, w1, p) < n2
                       THEN Block(m, k + n1 + Distance(size, w1, p)) ELSE b1.mem[p])
                    = (IF Distance(size, w, p) < n1 + n2
                       THEN Block(m, k + Distance(size, w, p)) ELSE b.mem[p])
    OBVIOUS
  <2>1. b1.mem[p] = IF Distance(size, w, p) < n1
                    THEN Block(m, k + Distance(size, w, p)) ELSE b.mem[p]
    BY <1>1
  <2> HIDE DEF w, w1, b1
  <2>2. CASE Distance(size, w1, p) < n2
    <3>1. Distance(size, w, p) = n1 + Distance(size, w1, p)
      BY <2>2, <1>3
    <3>2. Distance(size, w, p) < n1 + n2 /\ k + n1 + Distance(size, w1, p) = k + Distance(size, w, p)
      BY <3>1, <2>2, <1>3
    <3> QED BY <3>2, <2>2
  <2>3. CASE ~(Distance(size, w1, p) < n2)
    BY <2>3, <2>1, <1>3
  <2> QED BY <2>2, <2>3
<1>5. dlt_buffer_write_block(b1, m, k + n1, n2)
        = [mem |-> [p \in 0 .. size - 1 |->
                      IF Distance(size, w1, p) < n2
                      THEN Block(m, k + n1 + Distance(size, w1, p)) ELSE b1.mem[p]],
           write |-> Advance(size, w1, n2)]
  <2>1. b1.write = w1
    BY <1>1
  <2> HIDE DEF b1, w1
  <2> QED BY <2>1 DEF dlt_buffer_write_block
<1>6. dlt_buffer_write_block(b, m, k, n1 + n2)
        = [mem |-> [p \in 0 .. size - 1 |->
                      IF Distance(size, w, p) < n1 + n2
                      THEN Block(m, k + Distance(size, w, p)) ELSE b.mem[p]],
           write |-> Advance(size, w, n1 + n2)]
  BY DEF dlt_buffer_write_block
<1> QED BY <1>2, <1>4, <1>5, <1>6

(* push3 writes the header and the three parts as one block.               *)
LEMMA WrittenBlock ==
    ASSUME size \in Nat, write \in 0 .. size, NEW m \in Msg, Need(m) <= size
    PROVE  Written(m) = dlt_buffer_write_block([mem |-> mem, write |-> write], m, 0, Need(m))
<1> DEFINE b0 == [mem |-> mem, write |-> write]
           n1 == Parts[m][1]
           n2 == Parts[m][2]
           n3 == Parts[m][3]
           H == BlockHead
<1>1. /\ H \in Nat /\ n1 \in Nat /\ n2 \in Nat /\ n3 \in Nat
      /\ Need(m) = H + n1 + n2 + n3 /\ Need(m) <= size
  BY NeedType, HeadAssumption
<1>2. b0.write \in 0 .. size
  OBVIOUS
<1> DEFINE b1 == dlt_buffer_write_block(b0, m, 0, H)
           b2 == dlt_buffer_write_block(b1, m, H, n1)
           b3 == dlt_buffer_write_block(b2, m, H + n1, n2)
<1>3. Written(m) = dlt_buffer_write_block(b3, m, H + n1 + n2, n3)
  BY DEF Written
<1> HIDE DEF b0, n1, n2, n3, H
<1>4. b2 = dlt_buffer_write_block(b0, m, 0, H + n1)
  BY <1>1, <1>2, WriteTwice, 0 + H = H
<1>5. b3 = dlt_buffer_write_block(b0, m, 0, H + n1 + n2)
  <2>1. H + n1 \in Nat /\ 0 + (H + n1) = H + n1 /\ (H + n1) + n2 <= size
    BY <1>1
  <2> QED BY <1>1, <1>2, <1>4, <2>1, WriteTwice
<1>6. dlt_buffer_write_block(b3, m, H + n1 + n2, n3)
        = dlt_buffer_write_block(b0, m, 0, H + n1 + n2 + n3)
  <2>1. H + n1 + n2 \in Nat /\ 0 + (H + n1 + n2) = H + n1 + n2 /\ (H + n1 + n2) + n3 <= size
    BY <1>1
  <2> HIDE DEF b3
  <2> QED BY <1>1, <1>2, <1>5, <2>1, WriteTwice
<1> QED BY <1>1, <1>3, <1>6 DEF b0

-----------------------------------------------------------------------------
(* What the size computations of the code return.                          *)

(* A queued message occupies bytes.                                        *)
LEMMA UsedPositive ==
    ASSUME IInv
    PROVE  /\ count > 0 => used > 0
           /\ count > 0 => queue[1] \in Msg /\ Need(queue[1]) <= used
           /\ used \in 0 .. size
BY NeedType DEF IInv, TypeOK, Layout, Chained, Pointers

(* Every queued block lies within the used bytes.                          *)
LEMMA Entry ==
    ASSUME IInv, NEW i \in 1 .. count
    PROVE  /\ at[i] \in Nat /\ queue[i] \in Msg /\ Need(queue[i]) \in Nat
           /\ at[i] + Need(queue[i]) <= used
<1>1. i \in 1 .. Len(queue) /\ i \in 1 .. Len(at) /\ queue \in Seq(Msg) /\ at \in Seq(Nat)
  BY DEF IInv, TypeOK, Layout, Chained
<1>2. at[i] \in Nat /\ queue[i] \in Msg
  BY <1>1
<1>3. Need(queue[i]) \in Nat
  BY <1>2, NeedType
<1> QED BY <1>2, <1>3 DEF IInv, Layout, Chained

(* FreeSize, UsedSize and CopySize tell a full ring from an empty one.     *)
LEMMA Sizes ==
    ASSUME IInv
    PROVE  /\ FreeSize = size - used
           /\ count > 0 => UsedSize = used /\ CopySize = used
           /\ count = 0 => read = write
BY UsedPositive DEF IInv, TypeOK, Layout, Chained, Pointers, Advance,
                    FreeSize, UsedSize, CopySize

(* The block at the read pointer is the oldest queued message.             *)
LEMMA HeadBlock ==
    ASSUME IInv, count > 0
    PROVE  /\ \A j \in 0 .. BlockHead - 1 : HeadCell(j) = Block(queue[1], j)
           /\ HeadValid
           /\ HeadSize = Length(queue[1])
<1>1. queue[1] \in Msg /\ Need(queue[1]) >= BlockHead /\ at[1] = 0 /\ Need(queue[1]) \in Nat
  BY NeedType, UsedPositive DEF IInv, TypeOK, Layout, Chained
<1>2. ASSUME NEW j \in 0 .. BlockHead - 1
      PROVE  HeadCell(j) = Block(queue[1], j)
  <2>1. 1 \in 1 .. count /\ j \in 0 .. Need(queue[1]) - 1 /\ at[1] + j = j
    BY <1>1, HeadAssumption DEF IInv, TypeOK
  <2>2. mem[CellAt(size, read, at[1] + j)] = Block(queue[1], j)
    BY <2>1 DEF IInv, Layout, Stored
  <2> QED BY <2>1, <2>2 DEF HeadCell
<1>3. HeadValid
  BY <1>1, <1>2, HeadAssumption DEF HeadValid, Block
<1>4. HeadCell(BlockHead - 1) = Block(queue[1], BlockHead - 1)
  BY <1>2, HeadAssumption
<1>5. HeadSize = Length(queue[1])
  BY <1>4 DEF HeadSize, Block
<1> QED BY <1>2, <1>3, <1>5

(* A call of dlt_buffer_get finds no corruption.                           *)
LEMMA NotCorrupt ==
    ASSUME IInv
    PROVE  ~Corrupt
<1>1. ~PointersOutOfRange /\ ~(count < 0)
  BY DEF IInv, TypeOK, PointersOutOfRange
<1>2. ~(count = 0 /\ write # read)
  BY Sizes
<1>3. ASSUME count > 0
      PROVE  ~(UsedSize < BlockHead) /\ HeadValid /\ ~(UsedSize < BlockHead + HeadSize)
  <2>1. Need(queue[1]) <= used /\ queue[1] \in Msg /\ UsedSize = used
    BY <1>3, UsedPositive, Sizes
  <2>2. HeadValid /\ BlockHead + HeadSize = Need(queue[1])
    BY <1>3, HeadBlock DEF Need
  <2>3. Need(queue[1]) >= BlockHead /\ Need(queue[1]) \in Nat /\ used \in Nat /\ BlockHead \in Nat
    BY <2>1, NeedType, HeadAssumption DEF IInv, TypeOK
  <2> QED BY <2>1, <2>2, <2>3
<1> QED BY <1>1, <1>2, <1>3 DEF Corrupt

(* What dlt_buffer_get copies to the caller is the oldest message.         *)
LEMMA ReadsHead ==
    ASSUME IInv, count > 0
    PROVE  Result = Data(Payload(queue[1]))
<1> DEFINE m == queue[1]
           L == Length(m)
           r == Advance(size, read, BlockHead)
<1>1. /\ m \in Msg /\ Need(m) <= used /\ Need(m) \in Nat /\ L \in Nat
      /\ Need(m) = BlockHead + L /\ at[1] = 0 /\ BlockHead \in Nat
      /\ used \in 0 .. size /\ size \in Nat /\ read \in 0 .. size /\ HeadSize = L
  BY NeedType, UsedPositive, HeadBlock, HeadAssumption DEF IInv, TypeOK, Layout, Chained, Need
<1>2. ASSUME NEW k \in 1 .. L
      PROVE  mem[CellAt(size, r, k - 1)] = Block(m, BlockHead + k - 1)
  <2>1. /\ k - 1 \in Nat /\ BlockHead + (k - 1) < size
        /\ BlockHead + (k - 1) = BlockHead + k - 1
        /\ BlockHead + (k - 1) \in 0 .. Need(m) - 1
        /\ at[1] + (BlockHead + (k - 1)) = BlockHead + (k - 1)
    BY <1>1
  <2>2. CellAt(size, r, k - 1) = CellAt(size, read, BlockHead + (k - 1))
    BY <2>1, <1>1, CellAdd
  <2>3. 1 \in 1 .. count
    BY DEF IInv, TypeOK
  <2>4. mem[CellAt(size, read, at[1] + (BlockHead + (k - 1)))] = Block(m, BlockHead + (k - 1))
    BY <2>1, <2>3 DEF IInv, Layout, Stored
  <2> QED BY <2>1, <2>2, <2>4
<1> HIDE DEF m, L, r
<1>3. dlt_buffer_read_block(r, L) = Payload(m)
  BY <1>2 DEF dlt_buffer_read_block, Payload, L
<1> QED BY <1>1, <1>3 DEF Result, r, m, L

-----------------------------------------------------------------------------
(* The inductive step, one lemma per operation.                            *)

(* The initial ring is laid out correctly.                                 *)
LEMMA InitIInv == Init => IInv
BY SizeAssumption, HeadAssumption, ValueAssumption
   DEF Init, IInv, TypeOK, Layout, Chained, Pointers, Stored, Cells, Advance

(* dlt_buffer_increase_size moves the blocks, in order, to the start of a  *)
(* larger ring; MessagesFit rules out growing an empty one.                *)
LEMMA IncreaseIInv ==
    ASSUME IInv, MessagesFit, dlt_buffer_increase_size
    PROVE  IInv'
<1>1. pending \in Msg /\ step_size \in Nat /\ BufferHead \in Nat
  BY SizeAssumption, HeadAssumption DEF IInv, TypeOK, dlt_buffer_increase_size
<1>2. count > 0 /\ CopySize = used /\ used \in 0 .. size /\ used > 0
  <2>1. size - used < Need(pending)
    BY Sizes DEF dlt_buffer_increase_size
  <2>2. Need(pending) <= size /\ Need(pending) \in Nat
    BY <1>1, NeedType, SizeAssumption DEF MessagesFit, IInv, TypeOK
  <2>3. count # 0
    BY <2>1, <2>2 DEF IInv, TypeOK, Layout, Chained
  <2> QED BY <2>3, UsedPositive, Sizes DEF IInv, TypeOK
<1>3. /\ size' = size + step_size /\ size' <= max_size - BufferHead
      /\ size' \in Nat /\ size <= size' /\ read' = 0 /\ write' = used
      /\ mem' = [p \in 0 .. size' - 1 |->
                   IF p < used THEN mem[CellAt(size, read, p)] ELSE Junk]
      /\ count' = count /\ pending' = pending /\ queue' = queue /\ at' = at /\ used' = used
  BY <1>1, <1>2, SizeAssumption DEF dlt_buffer_increase_size, IInv, TypeOK, hist
<1>4. \A k \in 0 .. used - 1 : CellAt(size, read, k) \in 0 .. size - 1
  <2> SUFFICES ASSUME NEW k \in 0 .. used - 1
               PROVE  CellAt(size, read, k) \in 0 .. size - 1
    OBVIOUS
  <2>1. k \in Nat /\ k < size /\ size \in Nat /\ read \in 0 .. size
    BY <1>2 DEF IInv, TypeOK
  <2> QED BY <2>1, CellType
<1>5. mem' \in [0 .. size' - 1 -> [msg : Msg, off : Nat] \cup {Zero, Junk}]
  BY <1>2, <1>3, <1>4 DEF IInv, TypeOK
<1>6. TypeOK'
  BY <1>2, <1>3, <1>5, SizeAssumption, HeadAssumption DEF IInv, TypeOK
<1>7. Chained'
  <2>1. Chained
    BY DEF IInv, Layout
  <2> QED BY <1>3, <2>1 DEF Chained, Need, Length
<1>8. Pointers'
  BY <1>2, <1>3 DEF IInv, TypeOK, Pointers, Advance
<1>9. Stored'
  <2> SUFFICES ASSUME NEW i \in 1 .. count, NEW k \in 0 .. Need(queue[i]) - 1
               PROVE  mem'[CellAt(size', 0, at[i] + k)] = Block(queue[i], k)
    BY <1>3 DEF Stored, Need, Length, Block, CellAt
  <2>1. /\ at[i] \in Nat /\ queue[i] \in Msg /\ Need(queue[i]) \in Nat
        /\ at[i] + Need(queue[i]) <= used
    BY Entry
  <2>2. at[i] + k \in 0 .. used - 1 /\ k \in Nat
    BY <2>1, <1>2
  <2>3. CellAt(size', 0, at[i] + k) = at[i] + k /\ at[i] + k \in 0 .. size' - 1
    <3>1. at[i] + k \in Nat /\ at[i] + k < size'
      BY <2>2, <1>2, <1>3 DEF IInv, TypeOK
    <3> QED BY <3>1, <1>3, CellZero
  <2>4. mem'[at[i] + k] = mem[CellAt(size, read, at[i] + k)]
    BY <1>2, <1>3, <2>2, <2>3
  <2>5. mem[CellAt(size, read, at[i] + k)] = Block(queue[i], k)
    BY DEF IInv, Layout, Stored
  <2> QED BY <2>3, <2>4, <2>5
<1> QED BY <1>6, <1>7, <1>8, <1>9 DEF IInv, Layout

(* The block written at the write pointer leaves every queued byte alone,  *)
(* wraps included, and is itself found from the read pointer.              *)
LEMMA WriteIInv ==
    ASSUME IInv, PushWrite
    PROVE  IInv'
<1> DEFINE m == pending
           N == Need(pending)
<1>1. /\ m \in Msg /\ N \in Nat /\ N > 0 /\ used + N <= size
      /\ size \in Nat /\ read \in 0 .. size /\ used \in 0 .. size /\ write \in 0 .. size
      /\ write = Advance(size, read, used) /\ count \in Nat
      /\ queue \in Seq(Msg) /\ at \in Seq(Nat) /\ Len(queue) = count /\ Len(at) = count
  <2>1. m \in Msg
    BY DEF PushWrite, IInv, TypeOK
  <2>2. N \in Nat /\ N > 0
    BY <2>1, NeedType
  <2> QED BY <2>1, <2>2, Sizes, UsedPositive DEF PushWrite, IInv, TypeOK, Layout, Pointers, Chained
<1>2. Written(m) = dlt_buffer_write_block([mem |-> mem, write |-> write], m, 0, N)
  BY <1>1, WrittenBlock
<1>3. /\ mem' = [p \in 0 .. size - 1 |->
                   IF Distance(size, write, p) < N
                   THEN Block(m, 0 + Distance(size, write, p)) ELSE mem[p]]
      /\ write' = Advance(size, write, N)
      /\ count' = count + 1 /\ size' = size /\ read' = read /\ pending' = NoMsg
      /\ queue' = Append(queue, m) /\ at' = Append(at, used) /\ used' = used + N
  BY <1>1, <1>2 DEF PushWrite, dlt_buffer_write_block
<1> HIDE DEF m, N
<1>4. \A p \in 0 .. size - 1 : Distance(size, write, p) \in Nat
  BY <1>1 DEF Distance
<1>5. mem' \in [0 .. size - 1 -> [msg : Msg, off : Nat] \cup {Zero, Junk}]
  BY <1>1, <1>3, <1>4 DEF IInv, TypeOK, Block
<1>6. write' = Advance(size, read, used + N) /\ write' \in 0 .. size
  BY <1>1, <1>3, AdvanceAdd, AdvanceType
<1>7. TypeOK'
  BY <1>1, <1>3, <1>5, <1>6 DEF IInv, TypeOK
<1>8. /\ \A i \in 1 .. count : queue'[i] = queue[i] /\ at'[i] = at[i]
      /\ queue'[count + 1] = m /\ at'[count + 1] = used
      /\ Len(queue') = count + 1 /\ Len(at') = count + 1
  <2>1. m \in Msg /\ queue \in Seq(Msg) /\ queue' = Append(queue, m) /\ Len(queue) = count
    BY <1>1, <1>3
  <2>2. used \in Nat /\ at \in Seq(Nat) /\ at' = Append(at, used) /\ Len(at) = count
    BY <1>1, <1>3
  <2>3. /\ Len(queue') = count + 1
        /\ \A i \in 1 .. count : queue'[i] = queue[i]
        /\ queue'[count + 1] = m
    BY <2>1, AppendIs
  <2>4. /\ Len(at') = count + 1
        /\ \A i \in 1 .. count : at'[i] = at[i]
        /\ at'[count + 1] = used
    BY <2>2, AppendIs
  <2> QED BY <2>3, <2>4
<1>9. \A i \in 1 .. count : /\ queue[i] \in Msg /\ Need(queue[i]) \in Nat /\ at[i] \in Nat
                            /\ at[i] + Need(queue[i]) <= used
  BY Entry
<1>10. Need(m) = N
  BY DEF m, N
<1>11. Chained'
  <2>1. count' > 0 => at'[1] = 0 /\ at'[count'] + Need(queue'[count']) = used'
    BY <1>1, <1>3, <1>8, <1>10 DEF IInv, Layout, Chained
  <2>2. ASSUME NEW i \in 1 .. count'
        PROVE  at'[i] + Need(queue'[i]) <= used'
    <3>1. CASE i = count + 1
      BY <3>1, <1>1, <1>3, <1>8, <1>10
    <3>2. CASE i \in 1 .. count
      <4>1. at[i] + Need(queue[i]) <= used /\ at[i] \in Nat /\ Need(queue[i]) \in Nat
        BY <3>2, <1>9
      <4>2. at'[i] = at[i] /\ queue'[i] = queue[i]
        BY <3>2, <1>8
      <4>3. used' = used + N /\ N \in Nat /\ used \in Nat
        BY <1>1, <1>3
      <4> QED BY <4>1, <4>2, <4>3
    <3> QED BY <3>1, <3>2, <1>1, <1>3
  <2>3. ASSUME NEW i \in 1 .. count', NEW j \in 1 .. count', i < j
        PROVE  at'[i] + Need(queue'[i]) <= at'[j]
    <3>0. /\ i \in 1 .. count
          /\ j \in 1 .. count \/ j = count + 1
      BY <2>3, <1>1, <1>3
    <3>1. i \in 1 .. count /\ at'[i] = at[i] /\ queue'[i] = queue[i]
      BY <3>0, <1>8
    <3>2. CASE j = count + 1
      <4>1. at'[j] = used /\ at[i] + Need(queue[i]) <= used
        BY <3>1, <3>2, <1>8, <1>9
      <4> QED BY <3>1, <4>1
    <3>3. CASE j \in 1 .. count
      <4>1. at'[j] = at[j] /\ at[i] + Need(queue[i]) <= at[j]
        BY <2>3, <3>1, <3>3, <1>8 DEF IInv, Layout, Chained
      <4> QED BY <3>1, <4>1
    <3> QED BY <3>0, <3>2, <3>3
  <2>4. ASSUME NEW i \in 1 .. count' - 1
        PROVE  at'[i + 1] = at'[i] + Need(queue'[i])
    <3>1. i \in 1 .. count /\ at'[i] = at[i] /\ queue'[i] = queue[i]
      BY <1>1, <1>3, <1>8
    <3>2. CASE i = count
      <4>1. at'[i + 1] = used /\ at[i] + Need(queue[i]) = used
        BY <3>1, <3>2, <1>1, <1>8 DEF IInv, Layout, Chained
      <4> QED BY <3>1, <4>1
    <3>3. CASE i \in 1 .. count - 1
      <4>1. i + 1 \in 1 .. count
        BY <3>3, <1>1
      <4>2. at'[i + 1] = at[i + 1] /\ at[i + 1] = at[i] + Need(queue[i])
        BY <3>3, <4>1, <1>8 DEF IInv, Layout, Chained
      <4> QED BY <3>1, <4>2
    <3> QED BY <3>1, <3>2, <3>3, <1>1
  <2>5. Len(queue') = count' /\ Len(at') = count' /\ ~(count' = 0)
    BY <1>1, <1>3, <1>8
  <2> QED BY <2>1, <2>2, <2>3, <2>4, <2>5 DEF Chained
<1>12. Pointers'
  BY <1>1, <1>3, <1>6 DEF Pointers, Advance
<1>13. Stored'
  <2> SUFFICES ASSUME NEW i \in 1 .. count + 1, NEW k \in 0 .. Need(queue'[i]) - 1
               PROVE  mem'[CellAt(size, read, at'[i] + k)] = Block(queue'[i], k)
    BY <1>3 DEF Stored
  <2>1. CASE i = count + 1
    <3>1. queue'[i] = m /\ at'[i] = used /\ k \in 0 .. N - 1
      BY <2>1, <1>8, <1>10
    <3>2. k \in Nat /\ used + k < size
      BY <3>1, <1>1
    <3>3. CellAt(size, read, used + k) = CellAt(size, write, k)
      BY <3>2, <1>1, CellAdd
    <3>4. Distance(size, write, CellAt(size, write, k)) = k /\ CellAt(size, write, k) \in 0 .. size - 1
      BY <3>2, <1>1, DistanceCell, CellType
    <3>5. mem'[CellAt(size, write, k)] = Block(m, 0 + k)
      <4>1. k < N
        BY <1>1, <3>1
      <4> QED BY <1>3, <3>4, <4>1
    <3>6. 0 + k = k
      OBVIOUS
    <3> QED BY <3>1, <3>3, <3>5, <3>6
  <2>2. CASE i \in 1 .. count
    <3>1. queue'[i] = queue[i] /\ at'[i] = at[i] /\ k \in 0 .. Need(queue[i]) - 1
      BY <2>2, <1>8
    <3>2. at[i] + k \in Nat /\ at[i] + k < used /\ at[i] + k < size
      <4>1. at[i] + Need(queue[i]) <= used /\ at[i] \in Nat /\ Need(queue[i]) \in Nat
        BY <2>2, <1>9
      <4>2. used \in 0 .. size /\ size \in Nat
        BY <1>1
      <4> QED BY <3>1, <4>1, <4>2
    <3>3. Distance(size, write, CellAt(size, read, at[i] + k)) >= size - used
      BY <3>2, <1>1, DistanceUsed
    <3>4. CellAt(size, read, at[i] + k) \in 0 .. size - 1
      BY <3>2, <1>1, CellType
    <3>5. ~(Distance(size, write, CellAt(size, read, at[i] + k)) < N)
      BY <3>3, <3>4, <1>1, <1>4
    <3>6. mem'[CellAt(size, read, at[i] + k)] = mem[CellAt(size, read, at[i] + k)]
      BY <1>3, <3>4, <3>5
    <3>7. mem[CellAt(size, read, at[i] + k)] = Block(queue[i], k)
      BY <2>2, <3>1 DEF IInv, Layout, Stored
    <3> QED BY <3>1, <3>6, <3>7
  <2> QED BY <2>1, <2>2, <1>1
<1> QED BY <1>7, <1>11, <1>12, <1>13 DEF IInv, Layout

(* Deleting the oldest block: the others stay where they are, now counted  *)
(* from the advanced read pointer; when none is left the ring may shrink.  *)
LEMMA DeleteIInv ==
    ASSUME IInv, count > 0, Delete, pending' = pending
    PROVE  IInv'
<1> DEFINE N == Need(queue[1])
           r == Advance(size, read, N)
<1>1. /\ N \in Nat /\ N > 0 /\ N <= used /\ at[1] = 0 /\ queue[1] \in Msg
      /\ size \in Nat /\ read \in 0 .. size /\ used \in 0 .. size /\ write \in 0 .. size
      /\ write = Advance(size, read, used) /\ count \in Nat
      /\ queue \in Seq(Msg) /\ at \in Seq(Nat) /\ Len(queue) = count /\ Len(at) = count
  <2>1. queue[1] \in Msg /\ N <= used /\ used \in 0 .. size
    BY UsedPositive
  <2>2. N \in Nat /\ N > 0
    BY <2>1, NeedType
  <2> QED BY <2>1, <2>2 DEF IInv, TypeOK, Layout, Pointers, Chained
<1>2. Advance(size, Advance(size, read, BlockHead), HeadSize) = r
  <2>1. HeadSize = Length(queue[1]) /\ Length(queue[1]) \in Nat /\ BlockHead \in Nat
    BY <1>1, HeadBlock, NeedType, HeadAssumption
  <2>2. BlockHead + HeadSize = N
    BY <2>1 DEF Need
  <2> HIDE DEF N
  <2>3. BlockHead + HeadSize <= size
    BY <1>1, <2>2
  <2> QED BY <1>1, <2>1, <2>2, <2>3, AdvanceAdd
<1>3. /\ count' = count - 1
      /\ queue' = Tail(queue)
      /\ at' = [i \in 1 .. count - 1 |-> at[i + 1] - N]
      /\ used' = used - N
      /\ \/ read' = r /\ size' = size /\ mem' = mem /\ write' = write
         \/ /\ count = 1 /\ size' = min_size - BufferHead
            /\ mem' = Cells(min_size - BufferHead, Zero) /\ write' = 0 /\ read' = 0
  BY <1>1, <1>2 DEF Delete, dlt_buffer_minimize_size
<1> HIDE DEF N, r
<1>4. /\ Len(queue') = count - 1 /\ queue' \in Seq(Msg)
      /\ \A i \in 1 .. count - 1 : queue'[i] = queue[i + 1]
  BY <1>1, <1>3
<1>5. ASSUME NEW i \in 1 .. count - 1
      PROVE  /\ i + 1 \in 1 .. count
             /\ at[i + 1] \in Nat /\ queue[i + 1] \in Msg /\ Need(queue[i + 1]) \in Nat
             /\ N <= at[i + 1] /\ at[i + 1] + Need(queue[i + 1]) <= used
             /\ at'[i] = at[i + 1] - N /\ at'[i] \in Nat
  <2>1. i + 1 \in 1 .. count /\ 1 \in 1 .. count /\ 1 < i + 1
    BY <1>1
  <2>2. /\ at[i + 1] \in Nat /\ queue[i + 1] \in Msg /\ Need(queue[i + 1]) \in Nat
        /\ at[i + 1] + Need(queue[i + 1]) <= used
    BY <2>1, Entry
  <2>3. at[1] + Need(queue[1]) <= at[i + 1]
    BY <2>1 DEF IInv, Layout, Chained
  <2>4. N <= at[i + 1] /\ N \in Nat
    <3>1. at[1] = 0 /\ Need(queue[1]) = N /\ N \in Nat
      BY <1>1 DEF N
    <3> QED BY <2>3, <3>1
  <2>5. at'[i] = at[i + 1] - N
    BY <1>3
  <2>6. at'[i] \in Nat
    <3>1. \A a, n \in Nat : n <= a => a - n \in Nat
      OBVIOUS
    <3> QED BY <3>1, <2>2, <2>4, <2>5
  <2> QED BY <2>1, <2>2, <2>4, <2>5, <2>6
<1>6. at' \in Seq(Nat) /\ Len(at') = count - 1
  BY <1>1, <1>3, <1>5
<1>7. used' \in Nat /\ count' \in Nat
  BY <1>1, <1>3
<1>8. Chained'
  <2>1. Len(queue') = count' /\ Len(at') = count'
    BY <1>3, <1>4, <1>6
  <2>2. count' = 0 => used' = 0
    <3> SUFFICES ASSUME count = 1 PROVE used - N = 0
      BY <1>1, <1>3
    <3>1. at[1] + Need(queue[1]) = used
      BY DEF IInv, Layout, Chained
    <3> QED BY <3>1, <1>1 DEF N
  <2>3. ASSUME count' > 0
        PROVE  at'[1] = 0 /\ at'[count'] + Need(queue'[count']) = used'
    <3>1. 1 \in 1 .. count - 1 /\ count - 1 \in 1 .. count - 1 /\ (count - 1) + 1 = count
      BY <2>3, <1>1, <1>3
    <3>2. at[1 + 1] = at[1] + Need(queue[1]) /\ at[count] + Need(queue[count]) = used
      BY <3>1 DEF IInv, Layout, Chained
    <3>3. at'[1] = at[1 + 1] - N /\ at[1 + 1] = N
      BY <3>1, <3>2, <1>1, <1>5 DEF N
    <3>4. at'[count - 1] = at[count] - N /\ queue'[count - 1] = queue[count]
          /\ at[count] \in Nat /\ Need(queue[count]) \in Nat
      BY <3>1, <1>4, <1>5
    <3>5. N \in Nat /\ used \in Nat /\ used' = used - N /\ count' = count - 1
      BY <1>1, <1>3
    <3>6. at'[1] = 0
      BY <3>3, <3>5
    <3>7. at'[count - 1] + Need(queue'[count - 1]) = used'
      BY <3>2, <3>4, <3>5
    <3> QED BY <3>5, <3>6, <3>7
  <2>4. ASSUME NEW i \in 1 .. count'
        PROVE  at'[i] + Need(queue'[i]) <= used'
    <3>1. i \in 1 .. count - 1
      BY <1>3
    <3>2. queue'[i] = queue[i + 1]
      BY <3>1, <1>4
    <3>3. N \in Nat /\ used \in Nat /\ used' = used - N
      BY <1>1, <1>3
    <3>4. /\ at[i + 1] \in Nat /\ Need(queue[i + 1]) \in Nat
          /\ at[i + 1] + Need(queue[i + 1]) <= used /\ at'[i] = at[i + 1] - N
      BY <3>1, <1>5
    <3> QED BY <3>2, <3>3, <3>4
  <2>5. ASSUME NEW i \in 1 .. count', NEW j \in 1 .. count', i < j
        PROVE  at'[i] + Need(queue'[i]) <= at'[j]
    <3>1. i \in 1 .. count - 1 /\ j \in 1 .. count - 1 /\ queue'[i] = queue[i + 1]
      BY <1>3, <1>4
    <3>2. i + 1 \in 1 .. count /\ j + 1 \in 1 .. count /\ i + 1 < j + 1
      BY <3>1, <2>5, <1>1
    <3>3. at[i + 1] + Need(queue[i + 1]) <= at[j + 1]
      BY <3>2 DEF IInv, Layout, Chained
    <3>4. /\ at[i + 1] \in Nat /\ at[j + 1] \in Nat /\ Need(queue[i + 1]) \in Nat /\ N \in Nat
          /\ at'[i] = at[i + 1] - N /\ at'[j] = at[j + 1] - N
      BY <3>1, <1>1, <1>5
    <3>5. \A a, b, k, n \in Nat : a + k <= b => (a - n) + k <= b - n
      OBVIOUS
    <3> QED BY <3>1, <3>3, <3>4, <3>5
  <2>6. ASSUME NEW i \in 1 .. count' - 1
        PROVE  at'[i + 1] = at'[i] + Need(queue'[i])
    <3>0. count' = count - 1 /\ count \in Nat
      BY <1>1, <1>3
    <3>1. i \in 1 .. count - 1 /\ i + 1 \in 1 .. count - 1 /\ queue'[i] = queue[i + 1]
      BY <3>0, <1>4
    <3>2. at[(i + 1) + 1] = at[i + 1] + Need(queue[i + 1])
      BY <3>1 DEF IInv, Layout, Chained
    <3>3. \A a, k, n \in Nat : (a + k) - n = (a - n) + k
      OBVIOUS
    <3>4. /\ at[i + 1] \in Nat /\ Need(queue[i + 1]) \in Nat /\ N \in Nat
          /\ at'[i] = at[i + 1] - N /\ at'[i + 1] = at[(i + 1) + 1] - N
      BY <3>1, <1>1, <1>5
    <3> QED BY <3>1, <3>2, <3>3, <3>4
  <2> QED BY <2>1, <2>2, <2>3, <2>4, <2>5, <2>6 DEF Chained
<1>9. CASE read' = r /\ size' = size /\ mem' = mem /\ write' = write
  <2>1. r \in 0 .. size
    <3>1. N \in 0 .. size
      BY <1>1
    <3> QED BY <1>1, <3>1, AdvanceType DEF r
  <2>2. TypeOK'
    BY <1>1, <1>4, <1>6, <1>7, <1>9, <2>1 DEF IInv, TypeOK
  <2>3. write' = Advance(size', read', used') /\ used' <= size'
    <3>1. Advance(size, r, used - N) = Advance(size, read, N + (used - N)) /\ N + (used - N) = used
      BY <1>1, AdvanceAdd DEF r
    <3> QED BY <3>1, <1>1, <1>3, <1>9
  <2>4. Stored'
    <3> SUFFICES ASSUME NEW i \in 1 .. count', NEW k \in 0 .. Need(queue'[i]) - 1
                 PROVE  mem'[CellAt(size', read', at'[i] + k)] = Block(queue'[i], k)
      BY DEF Stored
    <3>1. i \in 1 .. count - 1 /\ queue'[i] = queue[i + 1] /\ i + 1 \in 1 .. count
      BY <1>3, <1>4, <1>5
    <3>2. /\ at'[i] = at[i + 1] - N /\ at'[i] \in Nat /\ at[i + 1] \in Nat
          /\ at[i + 1] + Need(queue[i + 1]) <= used /\ Need(queue[i + 1]) \in Nat
          /\ k \in 0 .. Need(queue[i + 1]) - 1
      BY <3>1, <1>5
    <3>3. at'[i] + k \in Nat /\ N + (at'[i] + k) = at[i + 1] + k /\ N + (at'[i] + k) < size
      <4>1. N \in Nat /\ used \in 0 .. size /\ size \in Nat
        BY <1>1
      <4>2. k \in Nat /\ at[i + 1] + k < used
        BY <3>2, <4>1
      <4> QED BY <3>2, <4>1, <4>2
    <3>4. CellAt(size, r, at'[i] + k) = CellAt(size, read, at[i + 1] + k)
      BY <3>3, <1>1, CellAdd DEF r
    <3>5. mem[CellAt(size, read, at[i + 1] + k)] = Block(queue[i + 1], k)
      BY <3>1, <3>2 DEF IInv, Layout, Stored
    <3> QED BY <1>9, <3>1, <3>4, <3>5
  <2> QED BY <1>8, <2>2, <2>3, <2>4 DEF IInv, Layout, Pointers
<1>10. CASE /\ count = 1 /\ size' = min_size - BufferHead
            /\ mem' = Cells(min_size - BufferHead, Zero) /\ write' = 0 /\ read' = 0
  <2>1. count' = 0 /\ used' = 0
    BY <1>3, <1>8, <1>10 DEF Chained
  <2>2. size' \in Nat /\ size' <= max_size - BufferHead
    BY <1>10, SizeAssumption, HeadAssumption
  <2>3. TypeOK'
    BY <1>4, <1>6, <1>10, <2>1, <2>2, SizeAssumption, HeadAssumption DEF IInv, TypeOK, Cells
  <2>4. Pointers' /\ Stored'
    BY <1>10, <2>1, <2>2 DEF Pointers, Stored, Advance
  <2> QED BY <1>8, <2>3, <2>4 DEF IInv, Layout
<1> QED BY <1>3, <1>9, <1>10

(* Steps that leave the ring alone keep the invariant.                     *)
LEMMA SameIInv ==
    ASSUME IInv, UNCHANGED <<buf, hist>>, pending' \in Msg \cup {NoMsg}
    PROVE  IInv'
<1>1. /\ size' = size /\ mem' = mem /\ write' = write /\ read' = read /\ count' = count
      /\ queue' = queue /\ at' = at /\ used' = used
  BY DEF buf, hist
<1>2. TypeOK'
  BY <1>1 DEF IInv, TypeOK
<1>3. Chained' /\ Pointers' /\ Stored'
  BY <1>1 DEF IInv, Layout, Chained, Pointers, Stored
<1> QED BY <1>2, <1>3 DEF IInv, Layout

(* Every operation keeps the layout.                                       *)
LEMMA NextIInv == ASSUME MessagesFit, IInv, [Next]_vars PROVE IInv'
<1>1. ASSUME NEW m \in Msg, dlt_buffer_push3(m) PROVE IInv'
  <2>1. ~PointersOutOfRange
    BY DEF IInv, TypeOK, PointersOutOfRange
  <2> QED BY <1>1, <2>1, SameIInv DEF dlt_buffer_push3
<1>2. CASE dlt_buffer_increase_size
  BY <1>2, IncreaseIInv
<1>3. CASE PushFull
  BY <1>3, SameIInv DEF PushFull
<1>4. CASE PushWrite
  BY <1>4, WriteIInv
<1>5. ASSUME GetFails, pending' = pending PROVE IInv'
  <2>1. UNCHANGED <<buf, hist>>
    BY <1>5, NotCorrupt DEF GetFails
  <2> QED BY <1>5, <2>1, SameIInv DEF IInv, TypeOK
<1>6. ASSUME GetSucceeds, Delete, pending' = pending PROVE IInv'
  <2>1. count > 0
    BY <1>6 DEF GetSucceeds, IInv, TypeOK
  <2> QED BY <1>6, <2>1, DeleteIInv
<1>7. CASE dlt_buffer_pull
  BY <1>5, <1>6, <1>7 DEF dlt_buffer_pull
<1>8. CASE dlt_buffer_copy
  <2>1. CASE GetFails
    BY <1>5, <1>8, <2>1 DEF dlt_buffer_copy
  <2>2. CASE UNCHANGED <<buf, hist>>
    BY <1>8, <2>2, SameIInv DEF dlt_buffer_copy, IInv, TypeOK
  <2> QED BY <1>8, <2>1, <2>2 DEF dlt_buffer_copy
<1>9. CASE dlt_buffer_remove
  BY <1>5, <1>6, <1>9 DEF dlt_buffer_remove
<1>10. CASE UNCHANGED vars
  BY <1>10, SameIInv DEF vars, buf, hist, IInv, TypeOK
<1> QED BY <1>1, <1>2, <1>3, <1>4, <1>7, <1>8, <1>9, <1>10 DEF Next

(* The layout is an invariant of the ring buffer.                          *)
THEOREM LayoutTheorem == ASSUME MessagesFit PROVE Spec => [](TypeOK /\ Layout)
<1>1. Init => IInv
  BY InitIInv
<1>2. IInv /\ [Next]_vars => IInv'
  BY NextIInv
<1>3. IInv => TypeOK /\ Layout
  BY DEF IInv
<1> QED BY <1>1, <1>2, <1>3, PTL DEF Spec

(* dlt_buffer_get never resets the ring, so no accepted message is lost to *)
(* a reset.                                                                *)
THEOREM NeverCorruptTheorem == ASSUME MessagesFit PROVE Spec => []NeverCorrupt
<1>1. IInv => NeverCorrupt
  BY NotCorrupt DEF NeverCorrupt
<1>2. Spec => []IInv
  <2>1. Init => IInv
    BY InitIInv
  <2>2. IInv /\ [Next]_vars => IInv'
    BY NextIInv
  <2> QED BY <2>1, <2>2, PTL DEF Spec
<1> QED BY <1>1, <1>2, PTL

-----------------------------------------------------------------------------
(* The refinement.                                                         *)

(* A step of the ring is a step of the queue, or leaves it alone.          *)
LEMMA StepRefines ==
    ASSUME MessagesFit, IInv, IInv', [Next]_vars
    PROVE  [Fifo!Next]_(Fifo!vars)
<1> DEFINE skip == UNCHANGED <<queue, used, out>>
<1>0. skip => [Fifo!Next]_(Fifo!vars)
  BY DEF Fifo!vars
<1>1. ASSUME NEW m \in Msg, dlt_buffer_push3(m) PROVE skip
  BY <1>1 DEF dlt_buffer_push3, IInv, TypeOK, PointersOutOfRange, hist
<1>2. CASE dlt_buffer_increase_size
  BY <1>2, <1>0 DEF dlt_buffer_increase_size, hist
<1>3. CASE PushFull
  <2>1. pending \in Msg /\ out' = ERROR /\ UNCHANGED <<queue, used>>
    BY <1>3 DEF PushFull, IInv, TypeOK, hist
  <2>2. used + Need(pending) > min_size - BufferHead
    <3>1. size - used < Need(pending)
      BY <1>3, Sizes DEF PushFull
    <3>2. Need(pending) \in Nat
      BY <2>1, NeedType
    <3>3. /\ min_size - BufferHead <= size /\ min_size - BufferHead \in Int
          /\ used \in Nat /\ size \in Nat
      BY SizeAssumption, HeadAssumption DEF IInv, TypeOK
    <3>4. \A u, z, n \in Nat, k \in Int : z - u < n /\ k <= z => u + n > k
      OBVIOUS
    <3> QED BY <3>1, <3>2, <3>3, <3>4
  <2>3. Fifo!Refuse(pending)
    BY <2>1, <2>2 DEF Fifo!Refuse, Fifo!ERROR, ERROR
  <2> QED BY <2>1, <2>3 DEF Fifo!Next
<1>4. CASE PushWrite
  <2>1. /\ pending \in Msg /\ out' = OK /\ queue' = Append(queue, pending)
        /\ used' = used + Need(pending)
    BY <1>4 DEF PushWrite, IInv, TypeOK
  <2>2. used + Need(pending) <= max_size - BufferHead
    <3>1. used' <= size' /\ size' <= max_size - BufferHead /\ used' \in Nat /\ size' \in Nat
      BY DEF IInv, TypeOK, Layout, Pointers
    <3> QED BY <2>1, <3>1, SizeAssumption, HeadAssumption
  <2>3. Fifo!Push(pending)
    BY <2>1, <2>2 DEF Fifo!Push, Fifo!OK, OK
  <2> QED BY <2>1, <2>3 DEF Fifo!Next
<1>5. ASSUME GetFails PROVE Fifo!Empty
  <2>1. count = 0 /\ out' = ERROR /\ UNCHANGED <<queue, used>>
    BY <1>5, NotCorrupt DEF GetFails, hist
  <2>2. queue = <<>>
    BY <2>1 DEF IInv, TypeOK, Layout, Chained
  <2> QED BY <2>1, <2>2 DEF Fifo!Empty, Fifo!ERROR, ERROR
<1>6. ASSUME GetSucceeds
      PROVE  count > 0 /\ queue # <<>> /\ Head(queue) = queue[1]
  BY <1>6 DEF GetSucceeds, IInv, TypeOK, Layout, Chained
<1>7. CASE dlt_buffer_pull
  <2>1. CASE GetFails
    BY <1>5, <2>1 DEF Fifo!Next
  <2>2. CASE GetSucceeds /\ out' = Result /\ Delete
    <3>1. out' = Data(Payload(queue[1]))
      BY <1>6, <2>2, ReadsHead
    <3>2. Fifo!Pull
      BY <1>6, <2>2, <3>1 DEF Fifo!Pull, Delete, Data
    <3> QED BY <3>2 DEF Fifo!Next
  <2> QED BY <1>7, <2>1, <2>2 DEF dlt_buffer_pull
<1>8. CASE dlt_buffer_copy
  <2>1. CASE GetFails
    BY <1>5, <2>1 DEF Fifo!Next
  <2>2. CASE GetSucceeds /\ out' = Result /\ UNCHANGED <<buf, hist>>
    <3>1. out' = Data(Payload(queue[1]))
      BY <1>6, <2>2, ReadsHead
    <3>2. Fifo!Copy
      BY <1>6, <2>2, <3>1 DEF Fifo!Copy, hist, Data
    <3> QED BY <3>2 DEF Fifo!Next
  <2> QED BY <1>8, <2>1, <2>2 DEF dlt_buffer_copy
<1>9. CASE dlt_buffer_remove
  <2>1. CASE GetFails
    BY <1>5, <2>1 DEF Fifo!Next
  <2>2. CASE GetSucceeds /\ out' = OK /\ Delete
    <3>1. Fifo!Remove
      BY <1>6, <2>2 DEF Fifo!Remove, Delete, Fifo!OK, OK
    <3> QED BY <3>1 DEF Fifo!Next
  <2> QED BY <1>9, <2>1, <2>2 DEF dlt_buffer_remove
<1>10. CASE UNCHANGED vars
  BY <1>0, <1>10 DEF vars
<1> QED BY <1>0, <1>1, <1>2, <1>3, <1>4, <1>7, <1>8, <1>9, <1>10 DEF Next

(* The ring buffer implements the bounded FIFO queue.                      *)
THEOREM RingImplementsFifo == ASSUME MessagesFit PROVE Spec => FifoSpec
<1>1. Init => IInv /\ Fifo!Init
  BY InitIInv DEF Init, Fifo!Init, Fifo!OK, OK
<1>2. IInv /\ [Next]_vars => IInv' /\ [Fifo!Next]_(Fifo!vars)
  BY NextIInv, StepRefines
<1> QED BY <1>1, <1>2, PTL DEF Spec, FifoSpec, Fifo!Spec
==============================================================================
