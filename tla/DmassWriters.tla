---------------------------- MODULE DmassWriters ----------------------------
(***************************************************************************)
(* Reads and writes of one regular file of the RAM file system, taken      *)
(* apart: a step is one access of a handler to what it shares with the     *)
(* others, the buffer pointer and the size in the entry and the blocks of  *)
(* the heap.                                                               *)
(*                                                                         *)
(* Nothing in kernel/SceVfsMountPoC takes a lock.  VFS: the layer holds    *)
(* the lock of a vnode while a handler works on it, but every lookup of    *)
(* the file makes another vnode, and handlers on two of them run at the    *)
(* same time.  Contents are left to DmassFile; here a block is its length  *)
(* and whether it is allocated.                                            *)
(***************************************************************************)
EXTENDS Integers

CONSTANTS Thread,     \* callers, each with a file object of its own
          Vnode,      \* vnodes of the file
          Block,      \* blocks the heap can hand out
          NULL,
          BLOCK,      \* FAPS_DMASS_BLOCK_SIZE
          Request,    \* byte counts of one read or write, 0 among them
          MaxSize     \* bound: no write ends behind it

ASSUME WritersAssumption ==
    /\ BLOCK \in Nat \ {0} /\ MaxSize \in Nat
    /\ Request \subseteq Nat
    /\ NULL \notin Block

VARIABLES
    node,       \* thread -> the vnode its file object is open on
    data,       \* FapsDmassFs.data
    st_size,    \* FapsDmassFs.stat.st_size
    node_size,  \* vnode -> core.st_size
    allocated,  \* blocks that malloc gave and free did not take back
    length,     \* block -> the length it was allocated with
    offset,     \* thread -> offset of its file object
    pc,         \* thread -> its next access, "idle" outside of the handlers
    count,      \* thread -> w_size or r_size
    temp,       \* thread -> temp_data
    from,       \* thread -> the value of data that it has loaded
    faulted,    \* a handler touched memory that is not the file's
    raced       \* history: a growing write overlapped another handler, or a
                \* write another write

shared == <<data, st_size, node_size, allocated, length>>
locals == <<offset, count, temp, from>>
vars == <<node, shared, locals, pc, faulted, raced>>

Growing == {"malloc", "load old", "copy old", "free", "publish"}
Writing == Growing \cup {"load", "store", "compare", "resize"}
Reading == {"load source", "copy out"}

BlockOrNull == Block \cup {NULL}

WritersTypeOK ==
    /\ node \in [Thread -> Vnode]
    /\ data \in BlockOrNull
    /\ st_size \in 0..MaxSize
    /\ node_size \in [Vnode -> 0..MaxSize]
    /\ allocated \subseteq Block
    /\ length \in [Block -> Nat]
    /\ offset \in [Thread -> 0..MaxSize]
    /\ pc \in [Thread -> {"idle"} \cup Writing \cup Reading]
    /\ count \in [Thread -> Nat]
    /\ temp \in [Thread -> BlockOrNull]
    /\ from \in [Thread -> BlockOrNull]
    /\ faulted \in BOOLEAN /\ raced \in BOOLEAN

\* The file is empty and every caller has opened it.
Init ==
    /\ node \in [Thread -> Vnode]
    /\ data = NULL
    /\ st_size = 0
    /\ node_size = [v \in Vnode |-> 0]
    /\ allocated = {}
    /\ length = [b \in Block |-> 0]
    /\ offset = [t \in Thread |-> 0]
    /\ pc = [t \in Thread |-> "idle"]
    /\ count = [t \in Thread |-> 0]
    /\ temp = [t \in Thread |-> NULL]
    /\ from = [t \in Thread |-> NULL]
    /\ faulted = FALSE
    /\ raced = FALSE

-----------------------------------------------------------------------------
(* Steps *)

\* Two handlers that nothing should let run at the same time.
Conflict(at) ==
    \E t, u \in Thread :
        /\ t # u
        /\ \/ at[t] \in Growing /\ at[u] # "idle"
           \/ at[t] \in Writing /\ at[u] \in Writing

Goto(t, where) ==
    /\ pc' = [pc EXCEPT ![t] = where]
    /\ raced' = (raced \/ Conflict(pc'))
    /\ faulted' = FALSE
    /\ UNCHANGED node

\* The handler returns and its local variables go.
Leave(t) ==
    /\ count' = [count EXCEPT ![t] = 0]
    /\ temp' = [temp EXCEPT ![t] = NULL]
    /\ from' = [from EXCEPT ![t] = NULL]
    /\ Goto(t, "idle")

At(t, where) == ~faulted /\ pc[t] = where

Fault == faulted' = TRUE /\ UNCHANGED <<node, shared, locals, pc, raced>>

\* A copy of n bytes from or to position at of block b.
Touches(b, at, n) == n = 0 \/ (b \in allocated /\ at + n <= length[b])

\* VFS: the lock of the vnode is free.
Enters(t) ==
    At(t, "idle") /\ \A u \in Thread : node[u] = node[t] => pc[u] = "idle"

-----------------------------------------------------------------------------
(* vop_write, vop_lseek *)

\* FAPS_DMASS_BLOCK_ALIGN
BlockAlign(n) == ((n + BLOCK - 1) \div BLOCK) * BLOCK

\* Mistake: the rounded request is compared with the size itself.
Bug_GrowsByRequest(n) == BlockAlign(n) > st_size

Grows(n) == BlockAlign(st_size + n) > BlockAlign(st_size)

vop_write(t, n) ==
    /\ Enters(t)
    /\ offset[t] + n <= MaxSize
    /\ count' = [count EXCEPT ![t] = n]
    /\ Goto(t, IF Grows(n) THEN "malloc" ELSE "load")
    /\ UNCHANGED <<shared, offset, temp, from>>

\* The size is read a second time for the length of the new block.
Malloc(t) ==
    /\ At(t, "malloc")
    /\ \/ Leave(t) /\ UNCHANGED <<shared, offset>>   \* -2
       \/ \E b \in Block \ allocated :
             /\ allocated' = allocated \cup {b}
             /\ length' = [length EXCEPT ![b] = BlockAlign(st_size + count[t])]
             /\ temp' = [temp EXCEPT ![t] = b]
             /\ Goto(t, "load old")
             /\ UNCHANGED <<data, st_size, node_size, offset, count, from>>

\* The pointer is loaded before the copy starts.
LoadOld(t) ==
    /\ At(t, "load old")
    /\ from' = [from EXCEPT ![t] = data]
    /\ Goto(t, "copy old")
    /\ UNCHANGED <<shared, offset, count, temp>>

CopyOld(t) ==
    /\ At(t, "copy old")
    /\ IF Touches(from[t], 0, st_size) /\ Touches(temp[t], 0, st_size)
       THEN Goto(t, "free") /\ UNCHANGED <<shared, locals>>
       ELSE Fault

Free(t) ==
    /\ At(t, "free")
    /\ IF data \in allocated \cup {NULL}
       THEN /\ allocated' = allocated \ {data}
            /\ Goto(t, "publish")
            /\ UNCHANGED <<data, st_size, node_size, length, locals>>
       ELSE Fault

Publish(t) ==
    /\ At(t, "publish")
    /\ data' = temp[t]
    /\ Goto(t, "load")
    /\ UNCHANGED <<st_size, node_size, allocated, length, locals>>

Load(t) ==
    /\ At(t, "load")
    /\ from' = [from EXCEPT ![t] = data]
    /\ Goto(t, "store")
    /\ UNCHANGED <<shared, offset, count, temp>>

Store(t) ==
    /\ At(t, "store")
    /\ IF Touches(from[t], offset[t], count[t])
       THEN /\ offset' = [offset EXCEPT ![t] = @ + count[t]]
            /\ Goto(t, "compare")
            /\ UNCHANGED <<shared, count, temp, from>>
       ELSE Fault

\* Mistake: only a write that starts at the end of the file extends it.
Bug_CompareStart(t) ==
    /\ At(t, "compare")
    /\ \/ offset[t] - count[t] = st_size /\ Goto(t, "resize") /\ UNCHANGED locals
       \/ offset[t] - count[t] # st_size /\ Leave(t) /\ UNCHANGED offset
    /\ UNCHANGED shared

Compare(t) ==
    /\ At(t, "compare")
    /\ \/ offset[t] >= st_size /\ Goto(t, "resize") /\ UNCHANGED locals
       \/ offset[t] < st_size /\ Leave(t) /\ UNCHANGED offset
    /\ UNCHANGED shared

SetSize(t) ==
    /\ At(t, "resize")
    /\ st_size' = offset[t]
    /\ node_size' = [node_size EXCEPT ![node[t]] = offset[t]]
    /\ Leave(t)
    /\ UNCHANGED <<data, allocated, length, offset>>

\* The offset is set to what the vnode's copy of the size allows; a seek that is
\* refused changes nothing, nor does a read from behind the end.
vop_lseek(t, to) ==
    /\ Enters(t)
    /\ to <= node_size[node[t]]
    /\ offset' = [offset EXCEPT ![t] = to]
    /\ Goto(t, "idle")
    /\ UNCHANGED <<shared, count, temp, from>>

-----------------------------------------------------------------------------
(* vop_read *)

Least(m, n) == IF m <= n THEN m ELSE n

vop_read(t, n) ==
    /\ Enters(t)
    /\ offset[t] <= st_size
    /\ count' = [count EXCEPT ![t] = Least(n, st_size - offset[t])]
    /\ Goto(t, "load source")
    /\ UNCHANGED <<shared, offset, temp, from>>

LoadSource(t) ==
    /\ At(t, "load source")
    /\ from' = [from EXCEPT ![t] = data]
    /\ Goto(t, "copy out")
    /\ UNCHANGED <<shared, offset, count, temp>>

CopyOut(t) ==
    /\ At(t, "copy out")
    /\ IF Touches(from[t], offset[t], count[t])
       THEN /\ offset' = [offset EXCEPT ![t] = @ + count[t]]
            /\ Leave(t)
            /\ UNCHANGED shared
       ELSE Fault

-----------------------------------------------------------------------------

\* What was touched belongs to somebody else: nothing more is said.
Stopped == faulted /\ UNCHANGED vars

Next ==
    \/ \E t \in Thread :
          \/ \E n \in Request : vop_write(t, n) \/ vop_read(t, n)
          \/ \E to \in 0..MaxSize : vop_lseek(t, to)
          \/ Malloc(t) \/ LoadOld(t) \/ CopyOld(t) \/ Free(t) \/ Publish(t)
          \/ Load(t) \/ Store(t) \/ Compare(t) \/ SetSize(t)
          \/ LoadSource(t) \/ CopyOut(t)
    \/ Stopped

Spec == Init /\ [][Next]_vars

-----------------------------------------------------------------------------
(* Properties *)

\* Reads may overlap each other and a write that stays in the buffer: no copy
\* leaves allocated memory unless a growing write ran beside another handler
\* or two writes ran at the same time.  The buffer is replaced by pointer, so
\* what keeps a reader safe is that nobody grows the file under it.
FaultsNeedRace == faulted => raced

\* Once the handlers are through, the file has exactly one buffer and the size
\* covers every byte that was written, unless handlers raced.
QuietFileWhole ==
    (\A t \in Thread : pc[t] = "idle") /\ ~raced =>
        /\ allocated = {data} \ {NULL}
        /\ \A t \in Thread : offset[t] <= st_size
        /\ data = NULL \/ st_size <= length[data]

=============================================================================
