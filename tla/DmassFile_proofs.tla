--------------------------- MODULE DmassFile_proofs ---------------------------
(***************************************************************************)
(* What holds of the data of a file of the RAM file system for any number  *)
(* of vnodes and file objects, any block size and any requests.            *)
(***************************************************************************)
EXTENDS DmassFile, SequenceTheorems, TLAPS

-----------------------------------------------------------------------------
(* Rounding to blocks *)

\* FAPS_DMASS_BLOCK_ALIGN never rounds down.
LEMMA BlockAlignCovers ==
    ASSUME NEW n \in Nat
    PROVE  BlockAlign(n) \in Nat /\ BlockAlign(n) >= n
  BY FileAssumption DEF BlockAlign

\* It keeps the order.
LEMMA BlockAlignMonotone ==
    ASSUME NEW m \in Nat, NEW n \in Nat, m <= n
    PROVE  BlockAlign(m) <= BlockAlign(n)
  BY FileAssumption DEF BlockAlign

-----------------------------------------------------------------------------
(* Buffers *)

LEMMA NewBufferType ==
    ASSUME TypeOK, NEW n \in Nat, NEW k \in Nat, k <= Len(data)
    PROVE  /\ NewBuffer(n, k) \in Seq(Byte \cup {Junk})
           /\ Len(NewBuffer(n, k)) = n
  <1>1. \A i \in 1..n : (IF i <= k THEN data[i] ELSE Junk) \in Byte \cup {Junk}
    BY DEF TypeOK
  <1> QED
    BY <1>1 DEF NewBuffer

LEMMA StoredType ==
    ASSUME NEW d \in Seq(Byte \cup {Junk}), NEW at \in Nat, NEW n \in Nat,
           NEW b \in Byte
    PROVE  /\ Stored(d, at, n, b) \in Seq(Byte \cup {Junk})
           /\ Len(Stored(d, at, n, b)) = Len(d)
  <1>1. \A i \in 1..Len(d) : (IF i \in (at + 1)..(at + n) THEN b ELSE d[i])
                               \in Byte \cup {Junk}
    OBVIOUS
  <1> QED
    BY <1>1 DEF Stored

-----------------------------------------------------------------------------
(* Types, and what keeps the buffer as long as the size *)

\* Refused and overrunning handlers leave the buffer and the size alone.
LEMMA TypeQuiet ==
    ASSUME TypeOK, Refuse \/ Overrun
    PROVE  TypeOK' /\ UNCHANGED <<data, st_size>>
  BY DEF TypeOK, Refuse, Overrun, vars

\* What Put stores lies in the buffer, old or grown.  So does the new end,
\* unless nothing is stored and the write is from behind the end.
LEMMA TypePut ==
    ASSUME TypeOK, NEW f \in Fd, Open(f), NEW at \in Nat, NEW n \in Nat,
           NEW b \in Byte, NEW extended, NEW newOffset \in Size,
           at + n \in Size, Put(f, at, n, b, extended, newOffset)
    PROVE  /\ TypeOK'
           /\ BufferCoversSize /\ (n > 0 \/ at <= st_size) => BufferCoversSize'
  <1> DEFINE size == BlockAlign(st_size + n)
             buffer == IF Grows(n) THEN NewBuffer(size, st_size) ELSE data
  <1>1. CASE Refuse \/ Overrun
    BY <1>1, TypeQuiet DEF BufferCoversSize
  <1>2. CASE ~(Refuse \/ Overrun)
    <2>1. /\ Grows(n) => st_size <= Len(data)
          /\ n = 0 \/ at + n <= Len(buffer)
          /\ data' = Stored(buffer, at, n, b)
          /\ st_size' = IF extended THEN at + n ELSE st_size
          /\ node_size' = IF extended
                          THEN [node_size EXCEPT ![node[f]] = at + n]
                          ELSE node_size
          /\ offset' = [offset EXCEPT ![f] = newOffset]
          /\ UNCHANGED <<bound, node, overrun>>
      BY <1>2 DEF Put
    <2>2. st_size \in Nat /\ st_size + n \in Nat
      BY FileAssumption DEF TypeOK, Size
    <2>3. size \in Nat /\ size >= st_size
      BY <2>2, BlockAlignCovers
    <2>4. /\ buffer \in Seq(Byte \cup {Junk})
          /\ BufferCoversSize => st_size <= Len(buffer)
      BY <2>1, <2>2, <2>3, NewBufferType DEF TypeOK, BufferCoversSize
    <2> HIDE DEF buffer
    <2>5. data' \in Seq(Byte \cup {Junk}) /\ Len(data') = Len(buffer)
      BY <2>1, <2>4, StoredType
    <2>6. /\ st_size' \in Size
          /\ node_size' \in [Vnode -> Size]
          /\ offset' \in [Fd -> Size]
      BY <2>1 DEF TypeOK
    <2>7. TypeOK'
      BY <2>1, <2>5, <2>6 DEF TypeOK
    <2>8. ASSUME BufferCoversSize, n > 0 \/ at <= st_size
          PROVE  BufferCoversSize'
      BY <2>1, <2>2, <2>4, <2>5, <2>8 DEF BufferCoversSize
    <2> QED
      BY <2>7, <2>8
  <1> QED
    BY <1>1, <1>2

\* Nothing stored and nothing grown: an empty write leaves the buffer alone.
LEMMA EmptyPut ==
    ASSUME TypeOK, NEW f \in Fd, NEW at \in Nat, NEW n \in Nat, n = 0,
           NEW b \in Byte, NEW extended, extended, NEW newOffset,
           Put(f, at, n, b, extended, newOffset), ~(Refuse \/ Overrun)
    PROVE  data' = data /\ st_size' = at
  <1>1. st_size \in Nat /\ st_size + n = st_size /\ at + n = at
    BY FileAssumption DEF TypeOK, Size
  <1>2. ~Grows(n)
    BY <1>1, BlockAlignCovers DEF Grows
  <1>3. data' = Stored(data, at, n, b) /\ st_size' = at
    BY <1>1, <1>2 DEF Put
  <1>4. Stored(data, at, n, b) = [i \in 1..Len(data) |-> data[i]]
    BY <1>1 DEF Stored
  <1>5. data = [i \in 1..Len(data) |-> data[i]]
    BY DEF TypeOK
  <1> QED
    BY <1>3, <1>4, <1>5

LEMMA TypeResize ==
    ASSUME TypeOK, NEW v \in Vnode, NEW size \in ChstatSize, Resize(v, size)
    PROVE  TypeOK' /\ (BufferCoversSize => BufferCoversSize')
  <1>1. CASE Refuse \/ Overrun
    BY <1>1, TypeQuiet DEF BufferCoversSize
  <1>2. CASE ~(Refuse \/ Overrun)
    <2>1. /\ size = 0 \/ st_size <= Len(data)
          /\ data' = NewBuffer(size, st_size)
          /\ st_size' = size
          /\ node_size' = [node_size EXCEPT ![v] = size]
          /\ UNCHANGED <<bound, node, offset, overrun>>
      BY <1>2 DEF Resize
    <2>2. size \in Size /\ size \in Nat /\ st_size \in Nat
      BY FileAssumption DEF TypeOK, Size
    <2>3. data' \in Seq(Byte \cup {Junk}) /\ Len(data') = size
      <3>1. CASE size = 0
        BY <2>1, <3>1 DEF NewBuffer
      <3>2. CASE st_size <= Len(data)
        BY <2>1, <2>2, <3>2, NewBufferType
      <3> QED
        BY <2>1, <3>1, <3>2
    <2> QED
      BY <2>1, <2>2, <2>3 DEF TypeOK, BufferCoversSize
  <1> QED
    BY <1>1, <1>2

\* Handlers that move offsets and vnodes, and no byte.
Moves ==
    \/ \E v \in Vnode : vop_part_init(v)
    \/ \E v \in Vnode : vop_inactive(v)
    \/ \E v \in Vnode, f \in Fd, append \in BOOLEAN : vop_open(v, f, append)
    \/ \E f \in Fd : vop_close(f)
    \/ \E f \in Fd, n \in Request : vop_read(f, n)
    \/ \E f \in Fd, at \in Size, n \in Request : vop_pread(f, at, n)
    \/ \E f \in Fd, to \in Size : vop_lseek(f, to)

LEMMA TypeMove ==
    ASSUME TypeOK, Moves
    PROVE  TypeOK' /\ UNCHANGED <<data, st_size>>
  <1>0. 0 \in Size /\ Size \subseteq Nat /\ st_size \in Size
    BY FileAssumption DEF TypeOK, Size
  <1>1. CASE \E v \in Vnode : vop_part_init(v)
    BY <1>1 DEF TypeOK, vop_part_init
  <1>7. CASE \E v \in Vnode : vop_inactive(v)
    BY <1>7 DEF TypeOK, vop_inactive
  <1>2. CASE \E v \in Vnode, f \in Fd, append \in BOOLEAN : vop_open(v, f, append)
    BY <1>0, <1>2, FileAssumption DEF TypeOK, vop_open
  <1>3. CASE \E f \in Fd : vop_close(f)
    BY <1>0, <1>3 DEF TypeOK, vop_close
  <1>4. CASE \E f \in Fd, to \in Size : vop_lseek(f, to)
    BY <1>4, TypeQuiet DEF TypeOK, vop_lseek
  <1>5. CASE \E f \in Fd, n \in Request : vop_read(f, n)
    <2>1. PICK f \in Fd, n \in Request : vop_read(f, n)
      BY <1>5
    <2>2. CASE Refuse \/ Overrun
      BY <2>2, TypeQuiet
    <2>3. CASE ~(Refuse \/ Overrun)
      <3> DEFINE r == Least(n, st_size - offset[f])
      <3>1. /\ offset[f] <= st_size
            /\ offset' = [offset EXCEPT ![f] = @ + r]
            /\ UNCHANGED <<data, st_size, node_size, bound, node, overrun>>
        BY <2>1, <2>3 DEF vop_read
      <3>2. offset[f] + r \in Size
        BY <1>0, <3>1, FileAssumption DEF TypeOK, Size, Least
      <3> QED
        BY <3>1, <3>2 DEF TypeOK
    <2> QED
      BY <2>2, <2>3
  <1>6. CASE \E f \in Fd, at \in Size, n \in Request : vop_pread(f, at, n)
    BY <1>6, TypeQuiet DEF vop_pread
  <1> QED
    BY <1>1, <1>2, <1>3, <1>4, <1>5, <1>6, <1>7 DEF Moves

\* A step keeps the types, and the buffer ahead of the size unless an empty
\* write moves the end.
LEMMA TypeNext ==
    ASSUME TypeOK, [Next]_vars
    PROVE  /\ TypeOK'
           /\ BufferCoversSize /\ ~EmptyWriteExtends => BufferCoversSize'
  <1>0. /\ \A n \in Request : n \in Nat
        /\ \A k \in Nat : k <= MaxSize => k \in Size
        /\ Size \subseteq Nat
        /\ offset \in [Fd -> Size]
        /\ st_size \in Nat
    BY FileAssumption DEF TypeOK, Size
  <1>1. CASE \E f \in Fd, n \in Request, b \in Byte : vop_write(f, n, b)
    <2>1. PICK f \in Fd, n \in Request, b \in Byte : vop_write(f, n, b)
      BY <1>1
    <2> DEFINE extended == offset[f] + n >= st_size
    <2>2. /\ offset[f] \in Nat /\ n \in Nat /\ offset[f] + n <= MaxSize
          /\ Open(f)
          /\ Put(f, offset[f], n, b, extended, offset[f] + n)
      BY <1>0, <2>1 DEF vop_write
    <2>3. offset[f] + n \in Size
      BY <1>0, <2>2
    <2>4. /\ TypeOK'
          /\ BufferCoversSize /\ (n > 0 \/ offset[f] <= st_size)
               => BufferCoversSize'
      BY <2>2, <2>3, TypePut
    <2>5. CASE n = 0 /\ offset[f] > st_size /\ ~(Refuse \/ Overrun)
      <3>0. extended
        BY <1>0, <2>2, <2>5
      <3> HIDE DEF extended
      <3>1. data' = data /\ st_size' = offset[f]
        BY <2>2, <2>5, <3>0, EmptyPut
      <3>2. EmptyWriteExtends
        BY <2>2, <2>5, <3>1 DEF EmptyWriteExtends, Open
      <3> QED
        BY <2>4, <3>2
    <2>6. CASE Refuse \/ Overrun
      BY <2>4, <2>6, TypeQuiet DEF BufferCoversSize
    <2> QED
      BY <1>0, <2>2, <2>4, <2>5, <2>6
  <1>2. CASE \E f \in Fd, at \in Size, n \in Request, b \in Byte :
                vop_pwrite(f, at, n, b)
    <2>1. PICK f \in Fd, at \in Size, n \in Request, b \in Byte :
             vop_pwrite(f, at, n, b)
      BY <1>2
    <2>2. at \in Nat /\ n \in Nat /\ at + n <= MaxSize /\ offset[f] \in Size
      BY <1>0, <2>1 DEF vop_pwrite
    <2>3. at + n \in Size
      BY <1>0, <2>2
    <2>4. CASE Refuse \/ Overrun
      BY <2>4, TypeQuiet DEF BufferCoversSize
    <2>5. CASE ~(Refuse \/ Overrun)
      <3> DEFINE extended == at + n > st_size
      <3>1. /\ Open(f) /\ at <= node_size[node[f]]
            /\ Put(f, at, n, b, extended, offset[f])
        BY <2>1, <2>5 DEF vop_pwrite
      <3>2. /\ TypeOK'
            /\ BufferCoversSize /\ (n > 0 \/ at <= st_size)
                 => BufferCoversSize'
        BY <2>2, <2>3, <3>1, TypePut
      <3>3. CASE n = 0 /\ at > st_size
        <4>0. extended
          BY <1>0, <2>2, <3>3
        <4> HIDE DEF extended
        <4>1. data' = data /\ st_size' = at
          BY <2>2, <2>5, <3>1, <3>3, <4>0, EmptyPut
        <4>2. EmptyWriteExtends
          BY <3>1, <3>3, <4>1 DEF EmptyWriteExtends, Open
        <4> QED
          BY <3>2, <4>2
      <3> QED
        BY <1>0, <2>2, <3>2, <3>3
    <2> QED
      BY <2>4, <2>5
  <1>3. CASE \E v \in Vnode, size \in ChstatSize : Resize(v, size)
    BY <1>3, TypeResize
  <1>4. CASE Stopped \/ UNCHANGED vars
    BY <1>4, TypeQuiet DEF Stopped, Refuse, BufferCoversSize
  <1>5. CASE Moves
    BY <1>5, TypeMove DEF BufferCoversSize
  <1> QED
    BY <1>1, <1>2, <1>3, <1>4, <1>5 DEF Next, Moves

LEMMA TypeInit == Init => TypeOK /\ BufferCoversSize
  <1> SUFFICES ASSUME Init
               PROVE  TypeOK /\ BufferCoversSize
    OBVIOUS
  <1>1. 0 \in Size /\ Len(data) = 0 /\ data \in Seq(Byte \cup {Junk})
    BY FileAssumption DEF Init, Size
  <1>2. TypeOK
    BY <1>1 DEF Init, TypeOK
  <1>3. BufferCoversSize
    BY <1>1 DEF Init, BufferCoversSize
  <1> QED
    BY <1>2, <1>3

\* Sizes, offsets and vnodes keep their type.
THEOREM TypeCorrect == Spec => []TypeOK
  <1>1. TypeOK /\ [Next]_vars => TypeOK'
    BY TypeNext
  <1> QED
    BY TypeInit, <1>1, PTL DEF Spec

\* In every step, through whichever vnode the file is written and however it
\* is resized, the buffer stays as long as the size, or an empty write from
\* behind the end moved the end.
THEOREM CoverLost == Spec => CoverLostByEmptyWrite
  <1>1. TypeOK /\ [Next]_vars
          => [BufferCoversSize /\ ~EmptyWriteExtends => BufferCoversSize']_vars
    BY TypeNext
  <1> QED
    BY TypeCorrect, <1>1, PTL DEF Spec, CoverLostByEmptyWrite

-----------------------------------------------------------------------------
(* Files that are never resized *)

CoverInv == TypeOK /\ BufferCoversSize

\* Sizes only grow, so every copy of the size and every offset stays behind
\* the size, and the buffer keeps whole blocks.
BoundInv ==
    /\ CoverInv
    /\ CopiesInBounds
    /\ CopyNotAhead
    /\ \A f \in Fd : offset[f] <= st_size
    /\ BlockAlign(st_size) <= Len(data)

LEMMA BoundQuiet ==
    ASSUME BoundInv, Refuse
    PROVE  BoundInv'
  <1>1. CoverInv'
    BY TypeQuiet DEF BoundInv, CoverInv, BufferCoversSize
  <1>2. UNCHANGED <<data, st_size, node_size, bound, node, offset, overrun>>
    BY DEF Refuse, vars
  <1> QED
    BY <1>1, <1>2 DEF BoundInv, CopiesInBounds, CopyNotAhead, BlockAlign

\* A write that starts inside the file: growth makes room for st_size + n
\* bytes, and the write ends no later than that.
LEMMA BoundPut ==
    ASSUME BoundInv, NEW f \in Fd, Open(f), NEW at \in Nat, NEW n \in Nat,
           NEW b \in Byte, NEW extended, NEW newOffset \in Size,
           at + n \in Size, at <= st_size,
           extended \/ at + n <= st_size, extended => at + n >= st_size,
           newOffset <= at + n \/ newOffset <= st_size,
           Put(f, at, n, b, extended, newOffset)
    PROVE  BoundInv' /\ ~Overrun
  <1> DEFINE size == BlockAlign(st_size + n)
             buffer == IF Grows(n) THEN NewBuffer(size, st_size) ELSE data
  <1>1. /\ st_size \in Nat /\ st_size + n \in Nat /\ at + n \in Nat
        /\ at + n <= st_size + n
        /\ Len(data) \in Nat
    BY FileAssumption DEF BoundInv, CoverInv, TypeOK, Size
  <1>2. /\ size \in Nat /\ BlockAlign(st_size) \in Nat
        /\ st_size + n <= size
        /\ BlockAlign(at + n) <= size
        /\ BlockAlign(at + n) \in Nat
    BY <1>1, BlockAlignCovers, BlockAlignMonotone
  <1> HIDE DEF size
  <1>3. st_size <= Len(data) /\ BlockAlign(st_size) <= Len(data)
    BY DEF BoundInv, CoverInv, BufferCoversSize
  <1>4. /\ buffer \in Seq(Byte \cup {Junk})
        /\ Len(buffer) = IF Grows(n) THEN size ELSE Len(data)
    BY <1>1, <1>2, <1>3, NewBufferType DEF BoundInv, CoverInv, TypeOK
  <1>5. Len(buffer) >= size
    BY <1>1, <1>2, <1>3, <1>4 DEF Grows, size
  <1>6. at + n <= Len(buffer)
    BY <1>1, <1>2, <1>4, <1>5
  <1>7. CASE Refuse
    BY <1>7, BoundQuiet DEF Refuse, vars, Overrun, BoundInv, CopiesInBounds
  <1>8. CASE /\ data' = Stored(buffer, at, n, b)
             /\ st_size' = IF extended THEN at + n ELSE st_size
             /\ node_size' = IF extended
                             THEN [node_size EXCEPT ![node[f]] = at + n]
                             ELSE node_size
             /\ offset' = [offset EXCEPT ![f] = newOffset]
             /\ UNCHANGED <<bound, node, overrun>>
    <2>1. CoverInv'
      BY TypePut DEF BoundInv, CoverInv
    <2>2. st_size' >= st_size /\ newOffset <= st_size' /\ st_size' \in Nat
      BY <1>1, <1>8 DEF Size
    <2>3. \A g \in Fd : offset'[g] <= st_size'
      BY <1>1, <1>8, <2>2 DEF BoundInv, CoverInv, TypeOK, Size
    <2>4. CopyNotAhead'
      BY <1>1, <1>8, <2>2
         DEF BoundInv, CoverInv, TypeOK, CopyNotAhead, Size
    <2>5. Len(data') = Len(buffer)
      BY <1>4, <1>8, StoredType
    <2>6. BlockAlign(st_size') <= Len(data')
      <3>1. BlockAlign(st_size) <= Len(buffer)
        BY <1>1, <1>2, <1>3, <1>5, BlockAlignMonotone DEF size
      <3>2. CASE extended
        BY <1>2, <1>4, <1>5, <1>8, <2>5, <3>2
      <3>3. CASE ~extended
        BY <1>8, <2>5, <3>1, <3>3
      <3> QED
        BY <3>2, <3>3
    <2>7. CopiesInBounds' /\ ~Overrun
      BY <1>8 DEF BoundInv, CopiesInBounds, Overrun
    <2> QED
      BY <2>1, <2>3, <2>4, <2>6, <2>7 DEF BoundInv
  <1> HIDE DEF buffer
  <1>9. ~(n > 0 /\ at + n > Len(buffer)) /\ ~(st_size > Len(data))
    BY <1>1, <1>3, <1>6
  <1> QED
    BY <1>7, <1>8, <1>9 DEF Put, buffer, size

\* Reading and seeking stay behind the size, and every read is in the buffer.
LEMMA BoundMove ==
    ASSUME BoundInv, Moves
    PROVE  BoundInv'
  <1>0. /\ CoverInv'
        /\ st_size \in Nat /\ 0 <= st_size /\ Len(data) \in Nat
        /\ st_size <= Len(data)
        /\ Size \subseteq Nat
        /\ \A v \in bound : node_size[v] <= st_size /\ node_size[v] \in Nat
        /\ \A f \in Fd : node[f] # NULL => node[f] \in bound
        /\ \A f \in Fd : offset[f] \in Nat
        /\ \A n \in Request : n \in Nat
        /\ ~overrun
    BY TypeMove, FileAssumption
       DEF BoundInv, CoverInv, TypeOK, BufferCoversSize, CopyNotAhead, Size,
           CopiesInBounds
  <1>1. CASE \E v \in Vnode : vop_part_init(v)
    BY <1>0, <1>1
       DEF BoundInv, CoverInv, TypeOK, CopiesInBounds, CopyNotAhead,
           vop_part_init, BlockAlign
  <1>2. CASE \E v \in Vnode : vop_inactive(v)
    BY <1>0, <1>2
       DEF BoundInv, CopiesInBounds, CopyNotAhead, vop_inactive, BlockAlign
  <1>3. CASE \E v \in Vnode, f \in Fd, append \in BOOLEAN : vop_open(v, f, append)
    BY <1>0, <1>3
       DEF BoundInv, CoverInv, TypeOK, CopiesInBounds, CopyNotAhead, vop_open,
           BlockAlign
  <1>4. CASE \E f \in Fd : vop_close(f)
    BY <1>0, <1>4
       DEF BoundInv, CoverInv, TypeOK, CopiesInBounds, CopyNotAhead, vop_close,
           BlockAlign
  <1>5. CASE \E f \in Fd, n \in Request : vop_read(f, n)
    <2>1. PICK f \in Fd, n \in Request : vop_read(f, n)
      BY <1>5
    <2> DEFINE r == Least(n, st_size - offset[f])
    <2>2. offset[f] <= st_size
      BY DEF BoundInv
    <2>3. r \in Nat /\ offset[f] + r <= st_size
      BY <1>0, <2>2 DEF Least
    <2>4. ~(r > 0 /\ offset[f] + r > Len(data))
      BY <1>0, <2>3
    <2>5. /\ offset' = [offset EXCEPT ![f] = @ + r]
          /\ UNCHANGED <<data, st_size, node_size, bound, node, overrun>>
      BY <1>0, <2>1, <2>2, <2>4 DEF vop_read
    <2> HIDE DEF r
    <2>6. \A g \in Fd : offset'[g] <= st_size
      BY <2>3, <2>5 DEF BoundInv, CoverInv, TypeOK
    <2> QED
      BY <1>0, <2>5, <2>6 DEF BoundInv, CopiesInBounds, CopyNotAhead, BlockAlign
  <1>6. CASE \E f \in Fd, at \in Size, n \in Request : vop_pread(f, at, n)
    <2>1. PICK f \in Fd, at \in Size, n \in Request : vop_pread(f, at, n)
      BY <1>6
    <2> DEFINE size == node_size[node[f]]
    <2>2. size \in Nat /\ size <= st_size /\ at \in Nat /\ n \in Nat
      BY <1>0, <2>1 DEF vop_pread, Open
    <2>3. at < size => ~(at + Least(n, size - at) > Len(data))
      BY <1>0, <2>2 DEF Least
    <2>4. Refuse
      BY <2>1, <2>3 DEF vop_pread
    <2> QED
      BY <2>4, BoundQuiet
  <1>7. CASE \E f \in Fd, to \in Size : vop_lseek(f, to)
    <2>1. PICK f \in Fd, to \in Size : vop_lseek(f, to)
      BY <1>7
    <2>2. CASE Refuse
      BY <2>2, BoundQuiet
    <2>3. CASE ~Refuse
      <3>1. /\ to <= node_size[node[f]] /\ node[f] \in bound
            /\ offset' = [offset EXCEPT ![f] = to]
            /\ UNCHANGED <<data, st_size, node_size, bound, node, overrun>>
        BY <1>0, <2>1, <2>3 DEF vop_lseek, Open
      <3>2. to <= st_size
        BY <1>0, <3>1
      <3>3. \A g \in Fd : offset'[g] <= st_size
        BY <3>1, <3>2 DEF BoundInv, CoverInv, TypeOK
      <3> QED
        BY <1>0, <3>1, <3>3
           DEF BoundInv, CopiesInBounds, CopyNotAhead, BlockAlign
    <2> QED
      BY <2>2, <2>3
  <1> QED
    BY <1>1, <1>2, <1>3, <1>4, <1>5, <1>6, <1>7 DEF Moves

\* The conditions under which vop_write and vop_pwrite reach Put.
LEMMA BoundWrites ==
    ASSUME BoundInv, NEW f \in Fd, NEW n \in Request, NEW b \in Byte,
           \/ vop_write(f, n, b)
           \/ \E at \in Size : vop_pwrite(f, at, n, b)
    PROVE  BoundInv' /\ ~Overrun
  <1>0. /\ st_size \in Nat /\ n \in Nat /\ MaxSize \in Nat
        /\ offset[f] \in Nat /\ offset[f] \in Size /\ offset[f] <= st_size
        /\ \A k \in Nat : k \in Size <=> k <= MaxSize
        /\ \A v \in bound : node_size[v] <= st_size /\ node_size[v] \in Nat
        /\ node[f] # NULL => node[f] \in bound
        /\ ~overrun
    BY FileAssumption
       DEF BoundInv, CoverInv, TypeOK, Size, CopyNotAhead, CopiesInBounds
  <1>1. CASE vop_write(f, n, b)
    <2> DEFINE end == offset[f] + n
    <2>1. end \in Size /\ end \in Nat
      BY <1>0, <1>1 DEF vop_write
    <2>2. /\ Put(f, offset[f], n, b, end >= st_size, end)
          /\ Open(f)
      BY <1>1 DEF vop_write
    <2>3. /\ (end >= st_size) \/ end <= st_size
          /\ (end >= st_size) => end >= st_size
          /\ end <= end
      BY <1>0, <2>1
    <2> QED
      BY <1>0, <2>1, <2>2, <2>3, BoundPut
  <1>2. CASE \E at \in Size : vop_pwrite(f, at, n, b)
    <2>1. PICK at \in Size : vop_pwrite(f, at, n, b)
      BY <1>2
    <2>2. CASE Refuse
      BY <2>2, BoundQuiet, <1>0 DEF Refuse, vars, Overrun
    <2>3. CASE ~Refuse
      <3> DEFINE end == at + n
      <3>1. /\ Put(f, at, n, b, end > st_size, offset[f])
            /\ Open(f)
            /\ at <= node_size[node[f]]
        BY <2>1, <2>3 DEF vop_pwrite
      <3>2. /\ at \in Nat /\ end \in Nat /\ end \in Size
            /\ at <= st_size
        BY <1>0, <2>1, <3>1 DEF vop_pwrite, Open, Size
      <3>3. /\ (end > st_size) \/ end <= st_size
            /\ (end > st_size) => end >= st_size
        BY <1>0, <3>2
      <3> QED
        BY <1>0, <3>1, <3>2, <3>3, BoundPut
    <2> QED
      BY <2>2, <2>3
  <1> QED
    BY <1>1, <1>2

LEMMA BoundNext == ChstatSize = {} /\ BoundInv /\ [Next]_vars => BoundInv'
  <1> SUFFICES ASSUME ChstatSize = {}, BoundInv, [Next]_vars
               PROVE  BoundInv'
    OBVIOUS
  <1>1. CASE Moves
    BY <1>1, BoundMove
  <1>2. CASE \E f \in Fd, n \in Request, b \in Byte : vop_write(f, n, b)
    BY <1>2, BoundWrites
  <1>3. CASE \E f \in Fd, at \in Size, n \in Request, b \in Byte :
                vop_pwrite(f, at, n, b)
    BY <1>3, BoundWrites
  <1>4. CASE Stopped \/ UNCHANGED vars
    BY <1>4, BoundQuiet DEF Stopped, Refuse
  <1> QED
    BY <1>1, <1>2, <1>3, <1>4 DEF Next, Moves

LEMMA BoundInit == Init => BoundInv
  <1> SUFFICES ASSUME Init
               PROVE  BoundInv
    OBVIOUS
  <1>1. CoverInv
    BY TypeInit DEF CoverInv
  <1>2. BlockAlign(st_size) = 0 /\ Len(data) = 0
    BY FileAssumption DEF Init, BlockAlign
  <1>3. CopiesInBounds /\ CopyNotAhead /\ \A f \in Fd : offset[f] <= st_size
    BY DEF Init, CopiesInBounds, CopyNotAhead
  <1> QED
    BY <1>1, <1>2, <1>3 DEF BoundInv

LEMMA Bounded ==
    ASSUME ChstatSize = {}
    PROVE  Spec => []BoundInv
  <1>1. BoundInv /\ [Next]_vars => BoundInv'
    BY BoundNext
  <1> QED
    BY BoundInit, <1>1, PTL DEF Spec

\* Of a file that nobody resizes or truncates, no copy ever leaves its buffer,
\* through any number of vnodes with copies of the size of any age.
THEOREM UnresizedInBounds ==
    ASSUME ChstatSize = {}
    PROVE  Spec => []CopiesInBounds
  <1>1. BoundInv => CopiesInBounds
    BY DEF BoundInv
  <1> QED
    BY Bounded, <1>1, PTL

\* And no vnode believes the file longer than it is.
THEOREM UnresizedCopies ==
    ASSUME ChstatSize = {}
    PROVE  Spec => []CopyNotAhead
  <1>1. BoundInv => CopyNotAhead
    BY DEF BoundInv
  <1> QED
    BY Bounded, <1>1, PTL

-----------------------------------------------------------------------------
(* The abstract file *)

\* The bytes of the file: the part of the buffer that st_size counts.
Content == SubSeq(data, 1, st_size)

LEMMA PrefixIs ==
    ASSUME NEW S, NEW s \in Seq(S), NEW n \in Nat, n <= Len(s)
    PROVE  /\ SubSeq(s, 1, n) \in Seq(S)
           /\ Len(SubSeq(s, 1, n)) = n
           /\ \A i \in 1..n : SubSeq(s, 1, n)[i] = s[i]
  <1>1. \A i \in 1..n : s[i] \in S
    OBVIOUS
  <1> QED
    BY <1>1, SubSeqProperties

LEMMA ContentIs ==
    ASSUME CoverInv
    PROVE  /\ Content \in Seq(Byte \cup {Junk})
           /\ Len(Content) = st_size
           /\ \A i \in 1..st_size : Content[i] = data[i]
  <1>1. st_size \in Nat /\ st_size <= Len(data) /\ data \in Seq(Byte \cup {Junk})
    BY FileAssumption DEF CoverInv, TypeOK, BufferCoversSize, Size
  <1> QED
    BY <1>1, PrefixIs DEF Content

\* Writing n bytes from a position in the file on.
LEMMA PutOverwrites ==
    ASSUME BoundInv, BoundInv', NEW f \in Fd, NEW at \in Nat, NEW n \in Nat,
           NEW b \in Byte, NEW extended, NEW newOffset,
           at <= st_size,
           extended => at + n >= st_size, extended \/ at + n <= st_size,
           Put(f, at, n, b, extended, newOffset), ~Refuse, ~Overrun
    PROVE  /\ Content' = Bytes!Overwrite(Content, at, n, b)
           /\ offset' = [offset EXCEPT ![f] = newOffset]
  <1> DEFINE size == BlockAlign(st_size + n)
             buffer == IF Grows(n) THEN NewBuffer(size, st_size) ELSE data
  <1>1. /\ data' = Stored(buffer, at, n, b)
        /\ st_size' = IF extended THEN at + n ELSE st_size
        /\ offset' = [offset EXCEPT ![f] = newOffset]
    BY DEF Put
  <1>2. /\ CoverInv /\ CoverInv'
        /\ st_size \in Nat /\ st_size' \in Nat
        /\ st_size <= Len(data)
        /\ data \in Seq(Byte \cup {Junk})
    BY FileAssumption
       DEF BoundInv, CoverInv, TypeOK, Size, BufferCoversSize
  <1>3. size \in Nat /\ st_size <= size
    <2>1. st_size + n \in Nat /\ st_size <= st_size + n
      BY <1>2
    <2>2. size \in Nat /\ size >= st_size + n
      BY <2>1, BlockAlignCovers
    <2> HIDE DEF size
    <2> QED
      BY <1>2, <2>1, <2>2
  <1>4. /\ buffer \in Seq(Byte \cup {Junk})
        /\ st_size <= Len(buffer)
        /\ \A i \in 1..st_size : buffer[i] = data[i]
    BY <1>2, <1>3, NewBufferType DEF NewBuffer, CoverInv
  <1> HIDE DEF buffer
  <1>5. /\ Len(Content') = st_size'
        /\ \A i \in 1..st_size' : Content'[i] = data'[i]
        /\ Content' \in Seq(Byte \cup {Junk})
    <2>1. st_size' <= Len(data') /\ data' \in Seq(Byte \cup {Junk})
      BY <1>2 DEF CoverInv, TypeOK, BufferCoversSize
    <2> QED
      BY <1>2, <2>1, PrefixIs DEF Content
  <1>6. st_size' = IF at + n > st_size THEN at + n ELSE st_size
    BY <1>1, <1>2
  <1>7. st_size' <= Len(buffer)
    <2>1. /\ Stored(buffer, at, n, b) \in Seq(Byte \cup {Junk})
          /\ Len(Stored(buffer, at, n, b)) = Len(buffer)
      BY <1>1, <1>4, StoredType
    <2> QED
      BY <1>1, <1>2, <2>1 DEF CoverInv, BufferCoversSize
  <1>8. \A i \in 1..st_size' :
           data'[i] = IF i \in (at + 1)..(at + n) THEN b ELSE buffer[i]
    BY <1>1, <1>2, <1>4, <1>7 DEF Stored
  <1>9. \A i \in 1..st_size' : i \notin (at + 1)..(at + n) => i \in 1..st_size
    BY <1>2, <1>6
  <1>10. \A i \in 1..st_size' :
           Content'[i] = IF i \in (at + 1)..(at + n) THEN b ELSE Content[i]
    BY <1>2, <1>4, <1>5, <1>8, <1>9, ContentIs
  <1>11. Content' = [i \in 1..st_size' |->
                       IF i \in (at + 1)..(at + n) THEN b ELSE Content[i]]
    BY <1>2, <1>5, <1>10
  <1> QED
    BY <1>1, <1>2, <1>6, <1>11, ContentIs DEF Bytes!Overwrite

\* A handler that moves no byte moves at most one position, within the file.
LEMMA MovesImplement ==
    ASSUME BoundInv, BoundInv', Moves
    PROVE  UNCHANGED <<Content, offset>> \/ \E f \in Fd : Bytes!Move(f)
  <1>0. /\ CoverInv /\ st_size \in Nat /\ st_size' \in Nat
        /\ offset \in [Fd -> Size] /\ offset' \in [Fd -> Size]
        /\ Size \subseteq Nat
        /\ \A f \in Fd : offset'[f] <= st_size'
    BY FileAssumption DEF BoundInv, CoverInv, TypeOK, Size
  <1>1. UNCHANGED <<data, st_size>>
    BY DEF Moves, vop_part_init, vop_inactive, vop_open, vop_close, vop_read,
           vop_pread, vop_lseek, Refuse, Overrun, vars
  <1>2. UNCHANGED Content
    BY <1>1 DEF Content
  <1>3. UNCHANGED offset \/ \E f \in Fd : \E p : offset' = [offset EXCEPT ![f] = p]
    BY DEF Moves, vop_part_init, vop_inactive, vop_open, vop_close, vop_read,
           vop_pread, vop_lseek, Refuse, Overrun, vars
  <1>4. ASSUME NEW f \in Fd, NEW p, offset' = [offset EXCEPT ![f] = p]
        PROVE  Bytes!Move(f)
    <2>1. offset'[f] = p
      BY <1>0, <1>4
    <2>2. p \in Nat /\ p <= st_size
      BY <1>0, <1>1, <2>1
    <2>3. p \in 0..Len(Content)
      BY <1>0, <2>2, ContentIs
    <2> QED
      BY <1>2, <1>4, <2>3 DEF Bytes!Move, Content
  <1> QED
    BY <1>2, <1>3, <1>4

\* A write is a write of the abstract file, when it is not refused.
LEMMA WritesImplement ==
    ASSUME BoundInv, BoundInv', NEW f \in Fd, NEW n \in Request, NEW b \in Byte,
           \/ vop_write(f, n, b)
           \/ \E at \in Size : vop_pwrite(f, at, n, b)
    PROVE  UNCHANGED <<Content, offset>> \/ Bytes!Next
  <1>0. /\ CoverInv /\ st_size \in Nat /\ n \in Nat /\ MaxSize \in Nat
        /\ offset \in [Fd -> Size]
        /\ offset[f] \in Nat /\ offset[f] <= st_size
        /\ \A v \in bound : node_size[v] <= st_size /\ node_size[v] \in Nat
        /\ node[f] # NULL => node[f] \in bound
        /\ ~Overrun
    BY BoundWrites, FileAssumption
       DEF BoundInv, CoverInv, TypeOK, Size, CopyNotAhead
  <1>1. CASE Refuse
    BY <1>1 DEF Refuse, vars, Content
  <1>2. ASSUME ~Refuse, NEW at \in Nat, at <= st_size, at + n <= MaxSize,
               Content' = Bytes!Overwrite(Content, at, n, b),
               offset' \in {offset, [offset EXCEPT ![f] = at + n]}
        PROVE  Bytes!Next
    <2>1. Bytes!Write(f, at, n, b)
      BY <1>2 DEF Bytes!Write, Content
    <2>2. at \in 0..Len(Content) /\ n \in 0..(MaxSize - at)
      BY <1>0, <1>2, ContentIs
    <2> QED
      BY <2>1, <2>2 DEF Bytes!Next, Content
  <1>3. CASE ~Refuse /\ vop_write(f, n, b)
    <2> DEFINE end == offset[f] + n
    <2>1. /\ Put(f, offset[f], n, b, end >= st_size, end)
          /\ end <= MaxSize
      BY <1>3 DEF vop_write
    <2>2. /\ (end >= st_size) \/ end <= st_size
          /\ (end >= st_size) => end >= st_size
      BY <1>0
    <2>3. /\ Content' = Bytes!Overwrite(Content, offset[f], n, b)
          /\ offset' = [offset EXCEPT ![f] = end]
      BY <1>0, <1>3, <2>1, <2>2, PutOverwrites
    <2> QED
      BY <1>0, <1>2, <1>3, <2>1, <2>3
  <1>4. CASE ~Refuse /\ \E at \in Size : vop_pwrite(f, at, n, b)
    <2>1. PICK at \in Size : vop_pwrite(f, at, n, b)
      BY <1>4
    <2> DEFINE end == at + n
    <2>2. /\ Put(f, at, n, b, end > st_size, offset[f])
          /\ end <= MaxSize /\ at \in Nat
          /\ node[f] # NULL /\ at <= node_size[node[f]]
      BY <1>4, <2>1 DEF vop_pwrite, Open, Size
    <2>3. /\ at <= st_size
          /\ (end > st_size) \/ end <= st_size
          /\ (end > st_size) => end >= st_size
      BY <1>0, <2>2
    <2>4. /\ Content' = Bytes!Overwrite(Content, at, n, b)
          /\ offset' = [offset EXCEPT ![f] = offset[f]]
      BY <1>0, <1>4, <2>2, <2>3, PutOverwrites
    <2>5. offset' = offset
      BY <1>0, <2>4
    <2> QED
      BY <1>2, <1>4, <2>2, <2>3, <2>4, <2>5
  <1> QED
    BY <1>1, <1>3, <1>4

LEMMA InitImplements == Init => Bytes!Init
  BY FileAssumption, SubSeqEmpty DEF Init, Bytes!Init

LEMMA NextImplements ==
    ASSUME ChstatSize = {}, BoundInv, BoundInv', [Next]_vars
    PROVE  [Bytes!Next]_<<Content, offset>>
  <1>1. CASE Moves
    BY <1>1, MovesImplement DEF Bytes!Next, Content
  <1>2. CASE \E f \in Fd, n \in Request, b \in Byte : vop_write(f, n, b)
    BY <1>2, WritesImplement
  <1>3. CASE \E f \in Fd, at \in Size, n \in Request, b \in Byte :
                vop_pwrite(f, at, n, b)
    BY <1>3, WritesImplement
  <1>4. CASE Stopped \/ UNCHANGED vars
    BY <1>4 DEF Stopped, vars, Content
  <1> QED
    BY <1>1, <1>2, <1>3, <1>4 DEF Next, Moves

\* Of a file that nobody resizes, the buffer, the sizes and the offsets are an
\* implementation of a sequence of bytes with a position per file object:
\* writes through different vnodes, with copies of the size of different
\* ages, lose no byte and leave no gap.
THEOREM UnresizedImplements ==
    ASSUME ChstatSize = {}
    PROVE  Spec => ImplementsByteFile
  <1>1. BoundInv /\ BoundInv' /\ [Next]_vars => [Bytes!Next]_<<Content, offset>>
    BY NextImplements
  <1> QED
    BY InitImplements, Bounded, <1>1, PTL
       DEF Spec, ImplementsByteFile, Bytes!Spec, Content

=============================================================================
