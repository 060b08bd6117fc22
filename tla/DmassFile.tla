------------------------------ MODULE DmassFile ------------------------------
(***************************************************************************)
(* The data of one regular file of the RAM file system mounted by          *)
(* kernel/SceVfsMountPoC: the heap buffer behind FapsDmassFs.data, the     *)
(* size in the entry, the copy of the size in every vnode of the entry,    *)
(* and the offsets of the open file objects.                               *)
(*                                                                         *)
(* One action is one handler of vop_table_test.  A byte is a member of     *)
(* Byte; what the heap leaves in a new buffer is Junk.  A memcpy of one    *)
(* byte or more that runs past the buffer it is given ends the behaviour:  *)
(* what it overwrites is not this file's.  A memcpy of none touches none.  *)
(***************************************************************************)
EXTENDS Integers, Sequences

CONSTANTS Fd,         \* file objects open on the file
          Vnode,      \* vnodes lookups have made for it
          Byte,       \* values the caller writes
          Junk,       \* what dmass_malloc hands out
          NULL,
          BLOCK,      \* FAPS_DMASS_BLOCK_SIZE
          Request,    \* byte counts of one read or write, 0 among them
          ChstatSize, \* sizes that chstat and O_TRUNC ask for
          MaxSize     \* bound: no write ends behind it; the sizes the code
                      \* narrows to 32 bits are below 2^32

ASSUME FileAssumption ==
    /\ BLOCK \in Nat \ {0} /\ MaxSize \in Nat
    /\ Request \subseteq Nat
    /\ ChstatSize \subseteq 0..MaxSize
    /\ Junk \notin Byte
    /\ NULL \notin Vnode

VARIABLES
    data,       \* the buffer, <<>> when data is NULL
    st_size,    \* FapsDmassFs.stat.st_size
    node_size,  \* vnode -> core.st_size, taken when the vnode is made
    bound,      \* the vnodes in use
    node,       \* file object -> its vnode, NULL when closed
    offset,     \* file object -> its offset
    overrun     \* a memcpy ran past a buffer

vars == <<data, st_size, node_size, bound, node, offset, overrun>>

Size == 0..MaxSize

TypeOK ==
    /\ data \in Seq(Byte \cup {Junk})
    /\ st_size \in Size
    /\ node_size \in [Vnode -> Size]
    /\ bound \subseteq Vnode
    /\ node \in [Fd -> Vnode \cup {NULL}]
    /\ \A f \in Fd : node[f] # NULL => node[f] \in bound
    /\ offset \in [Fd -> Size]
    /\ overrun \in BOOLEAN

Init ==
    /\ data = <<>>
    /\ st_size = 0
    /\ node_size = [v \in Vnode |-> 0]
    /\ bound = {}
    /\ node = [f \in Fd |-> NULL]
    /\ offset = [f \in Fd |-> 0]
    /\ overrun = FALSE

-----------------------------------------------------------------------------
(* Buffers *)

\* FAPS_DMASS_BLOCK_ALIGN
BlockAlign(n) == ((n + BLOCK - 1) \div BLOCK) * BLOCK

\* A new buffer of n bytes that begins with the first k bytes of data.
NewBuffer(n, k) == [i \in 1..n |-> IF i <= k THEN data[i] ELSE Junk]

\* memcpy of n bytes, all b, into buffer d from at on.
Stored(d, at, n, b) ==
    [i \in 1..Len(d) |-> IF i \in (at + 1)..(at + n) THEN b ELSE d[i]]

Overrun ==
    /\ overrun' = TRUE
    /\ UNCHANGED <<data, st_size, node_size, bound, node, offset>>
Refuse == UNCHANGED vars
Open(f) == ~overrun /\ node[f] # NULL

-----------------------------------------------------------------------------
(* Vnodes and file objects *)

\* vop_lookup: a new vnode takes a copy of the size.
vop_part_init(v) ==
    /\ ~overrun
    /\ v \notin bound
    /\ bound' = bound \cup {v}
    /\ node_size' = [node_size EXCEPT ![v] = st_size]
    /\ UNCHANGED <<data, st_size, node, offset, overrun>>

vop_inactive(v) ==
    /\ ~overrun
    /\ v \in bound
    /\ \A f \in Fd : node[f] # v
    /\ bound' = bound \ {v}
    /\ UNCHANGED <<data, st_size, node_size, node, offset, overrun>>

\* VFS: the file object starts at offset 0; SCE_O_APPEND moves it to the end.
vop_open(v, f, append) ==
    /\ ~overrun
    /\ v \in bound
    /\ node[f] = NULL
    /\ node' = [node EXCEPT ![f] = v]
    /\ offset' = [offset EXCEPT ![f] = IF append THEN st_size ELSE 0]
    /\ UNCHANGED <<data, st_size, node_size, bound, overrun>>

vop_close(f) ==
    /\ Open(f)
    /\ node' = [node EXCEPT ![f] = NULL]
    /\ offset' = [offset EXCEPT ![f] = 0]
    /\ UNCHANGED <<data, st_size, node_size, bound, overrun>>

-----------------------------------------------------------------------------
(* Reading and seeking *)

\* Mistake: the request is not cut to what remains.
Bug_LeastIsRequest(m, n) == m

Least(m, n) == IF m <= n THEN m ELSE n

\* vop_read measures what remains with the size in the entry.
vop_read(f, n) ==
    /\ Open(f)
    /\ \/ offset[f] > st_size /\ Refuse
       \/ /\ offset[f] <= st_size
          /\ LET r == Least(n, st_size - offset[f])
             IN  IF r > 0 /\ offset[f] + r > Len(data) THEN Overrun
                 ELSE /\ offset' = [offset EXCEPT ![f] = @ + r]
                      /\ UNCHANGED <<data, st_size, node_size, bound, node, overrun>>

\* vop_pread measures it with the copy of the size in the vnode.
vop_pread(f, at, n) ==
    /\ Open(f)
    /\ LET size == node_size[node[f]]
           r == Least(n, size - at)
       IN  IF at < size /\ r > 0 /\ at + r > Len(data)
           THEN Overrun ELSE Refuse

\* SCE_SEEK_SET, SCE_SEEK_CUR and SCE_SEEK_END reach the same offsets: those
\* up to the vnode's copy of the size.
vop_lseek(f, to) ==
    /\ Open(f)
    /\ \/ to > node_size[node[f]] /\ Refuse
       \/ /\ to <= node_size[node[f]]
          /\ offset' = [offset EXCEPT ![f] = to]
          /\ UNCHANGED <<data, st_size, node_size, bound, node, overrun>>

-----------------------------------------------------------------------------
(* Writing *)

\* Mistake: the rounded request is compared with the size itself.
Bug_GrowsByRequest(n) == BlockAlign(n) > st_size

\* The buffer grows when the file with n more bytes takes more blocks than
\* the file does.
Grows(n) == BlockAlign(st_size + n) > BlockAlign(st_size)

\* The body of vop_write and vop_pwrite: n bytes b are stored from position
\* at on.  The size changes when the file is extended, in the entry and in
\* the vnode that is written through, also when n is 0: then nothing grows.
Put(f, at, n, b, extended, newOffset) ==
    LET buffer == IF Grows(n) THEN NewBuffer(BlockAlign(st_size + n), st_size)
                  ELSE data
    IN  \/ Grows(n) /\ Refuse   \* no memory
        \/ Grows(n) /\ st_size > Len(data) /\ Overrun
        \/ /\ Grows(n) => st_size <= Len(data)
           /\ \/ n > 0 /\ at + n > Len(buffer) /\ Overrun
              \/ /\ n = 0 \/ at + n <= Len(buffer)
                 /\ data' = Stored(buffer, at, n, b)
                 /\ st_size' = IF extended THEN at + n ELSE st_size
                 /\ node_size' = IF extended
                                 THEN [node_size EXCEPT ![node[f]] = at + n]
                                 ELSE node_size
                 /\ offset' = [offset EXCEPT ![f] = newOffset]
                 /\ UNCHANGED <<bound, node, overrun>>

\* Mistake: the file ends where the last write ended.
Bug_WriteEndsFile(f, n, b) ==
    /\ Open(f)
    /\ offset[f] + n <= MaxSize
    /\ Put(f, offset[f], n, b, TRUE, offset[f] + n)

vop_write(f, n, b) ==
    /\ Open(f)
    /\ offset[f] + n <= MaxSize
    /\ Put(f, offset[f], n, b, offset[f] + n >= st_size, offset[f] + n)

vop_pwrite(f, at, n, b) ==
    /\ Open(f)
    /\ at + n <= MaxSize
    /\ \/ at > node_size[node[f]] /\ Refuse
       \/ at <= node_size[node[f]] /\ Put(f, at, n, b, at + n > st_size, offset[f])

\* Mistake: the size changes and the buffer does not.
Bug_ResizeKeepsBuffer(v, size) ==
    /\ ~overrun /\ v \in bound
    /\ st_size' = size /\ node_size' = [node_size EXCEPT ![v] = size]
    /\ UNCHANGED <<data, bound, node, offset, overrun>>

\* The SCE_CST_SIZE part of vop_chstat and vop_chstat_by_fd: the buffer is
\* replaced by one of exactly size bytes, and st_size bytes are copied into it
\* whichever of the two is larger.
Resize(v, size) ==
    /\ ~overrun
    /\ v \in bound
    /\ \/ size > 0 /\ Refuse   \* no memory
       \/ size > 0 /\ (st_size > size \/ st_size > Len(data)) /\ Overrun
       \/ /\ size = 0 \/ (st_size <= size /\ st_size <= Len(data))
          /\ data' = NewBuffer(size, st_size)
          /\ st_size' = size
          /\ node_size' = [node_size EXCEPT ![v] = size]
          /\ UNCHANGED <<bound, node, offset, overrun>>

-----------------------------------------------------------------------------

\* What was overwritten belongs to somebody else: nothing more is said.
Stopped == overrun /\ UNCHANGED vars

Next ==
    \/ \E v \in Vnode : vop_part_init(v)
    \/ \E v \in Vnode : vop_inactive(v)
    \/ \E v \in Vnode, f \in Fd, append \in BOOLEAN : vop_open(v, f, append)
    \/ \E f \in Fd : vop_close(f)
    \/ \E f \in Fd, n \in Request : vop_read(f, n)
    \/ \E f \in Fd, at \in Size, n \in Request : vop_pread(f, at, n)
    \/ \E f \in Fd, to \in Size : vop_lseek(f, to)
    \/ \E f \in Fd, n \in Request, b \in Byte : vop_write(f, n, b)
    \/ \E f \in Fd, at \in Size, n \in Request, b \in Byte : vop_pwrite(f, at, n, b)
    \/ \E v \in Vnode, size \in ChstatSize : Resize(v, size)
    \/ Stopped

Spec == Init /\ [][Next]_vars

-----------------------------------------------------------------------------
(* Properties *)

\* The buffer holds the bytes the entry says the file has.
BufferCoversSize == st_size <= Len(data)

\* An empty write through a file object raises the size: to the object's
\* offset (vop_write), or to a position up to its vnode's copy of the size
\* (vop_pwrite).  Both are behind the end only if a resize cut the file.
EmptyWriteExtends ==
    \E f \in Fd :
        /\ node[f] # NULL
        /\ data' = data
        /\ st_size' > st_size
        /\ st_size' = offset[f] \/ st_size' <= node_size[node[f]]

\* The buffer covers the size through any mixture of writes, truncations and
\* resizes, with one way to lose it: an empty write from behind the end, which
\* vop_write and vop_pwrite do not refuse, grows no buffer and sets the size.
CoverLostByEmptyWrite ==
    [][BufferCoversSize /\ ~EmptyWriteExtends => BufferCoversSize']_vars

\* No memcpy of a handler runs past its buffer.
CopiesInBounds == ~overrun

\* A vnode's copy of the size is never ahead of the entry's: vop_pread,
\* vop_pwrite and vop_lseek trust the copy.
CopyNotAhead == \A v \in bound : node_size[v] <= st_size

\* The file object's data and offsets are those of a sequence of bytes.
Bytes == INSTANCE ByteFile WITH content <- SubSeq(data, 1, st_size),
                                position <- offset
ImplementsByteFile == Bytes!Spec

=============================================================================
