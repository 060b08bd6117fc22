------------------------- MODULE DmassWriters_proofs -------------------------
(***************************************************************************)
(* Proofs about DmassWriters, for any number of callers, vnodes and blocks *)
(* and any size of a block: as long as no growing write has run beside     *)
(* another handler, nor a write beside a write, no handler touches memory  *)
(* that is not the file's, and nothing is lost or leaked.                  *)
(***************************************************************************)
EXTENDS DmassWriters, TLAPS

\* The bytes that the present buffer holds.
Room == IF data = NULL THEN 0 ELSE length[data]

\* The steps at which a thread owns a block that is not the file's yet.
Owning == {"load old", "copy old", "free", "publish"}

\* What a thread relies on at its step.
Placed(t) ==
    /\ pc[t] \notin {"compare", "resize"} => offset[t] <= st_size
    /\ pc[t] \in Owning =>
          /\ temp[t] \in Block \ {data}
          /\ length[temp[t]] = BlockAlign(st_size + count[t])
          /\ allocated = {temp[t]} \cup IF pc[t] = "publish" THEN {} ELSE {data} \ {NULL}
    /\ pc[t] \in {"copy old", "store", "copy out"} => from[t] = data
    /\ pc[t] \in {"load", "store"} => BlockAlign(offset[t] + count[t]) <= Room
    /\ pc[t] \in {"compare", "resize"} => BlockAlign(offset[t]) <= Room
    /\ pc[t] = "resize" => offset[t] >= st_size
    /\ pc[t] \in Reading => offset[t] + count[t] <= st_size

Sound ==
    /\ ~Conflict(pc)
    /\ \A t \in Thread : Placed(t)
    /\ \A v \in Vnode : node_size[v] <= st_size
    /\ BlockAlign(st_size) <= Room
    /\ (\A t \in Thread : pc[t] \notin Owning) => allocated = {data} \ {NULL}

\* No access reaches past the bound, whatever raced.
Fits ==
    \A t \in Thread : pc[t] \notin {"idle", "compare", "resize"} => offset[t] + count[t] <= MaxSize

IInv == WritersTypeOK /\ Fits /\ (~raced => ~faulted /\ Sound)

-----------------------------------------------------------------------------
(* Lemmas *)

\* Rounding up does not lose bytes, and keeps the order.
LEMMA AlignCovers ==
    ASSUME NEW n \in Nat
    PROVE  BlockAlign(n) \in Nat /\ BlockAlign(n) >= n
  BY WritersAssumption DEF BlockAlign

LEMMA AlignMonotone ==
    ASSUME NEW m \in Nat, NEW n \in Nat, m <= n
    PROVE  BlockAlign(m) <= BlockAlign(n)
  BY WritersAssumption DEF BlockAlign

\* Beside a growing write nobody runs; beside a write nobody writes.
LEMMA GrowsAlone ==
    ASSUME ~Conflict(pc), NEW t \in Thread, pc[t] \in Growing, NEW u \in Thread, u # t
    PROVE  pc[u] = "idle"
  BY DEF Conflict

LEMMA WritesAlone ==
    ASSUME WritersTypeOK, ~Conflict(pc), NEW t \in Thread, pc[t] \in Writing,
           NEW u \in Thread, u # t
    PROVE  pc[u] \in {"idle"} \cup Reading
  BY DEF Conflict, WritersTypeOK

\* Who is in a handler that does not grow the file finds its buffer allocated.
LEMMA BufferAllocated ==
    ASSUME WritersTypeOK, Sound, NEW t \in Thread, pc[t] \notin {"idle"} \cup Growing
    PROVE  allocated = {data} \ {NULL}
  BY DEF Conflict, Sound, Owning, Growing

\* Where a step leaves the threads.
LEMMA GotoTyped ==
    ASSUME WritersTypeOK, NEW t \in Thread, NEW where \in {"idle"} \cup Writing \cup Reading,
           Goto(t, where)
    PROVE  /\ node' \in [Thread -> Vnode]
           /\ pc' \in [Thread -> {"idle"} \cup Writing \cup Reading]
           /\ pc'[t] = where /\ \A u \in Thread : u # t => pc'[u] = pc[u]
           /\ faulted' = FALSE /\ raced' \in BOOLEAN
           /\ ~raced' => ~raced /\ ~Conflict(pc')
  <1>1. raced' = (raced \/ Conflict(pc'))
    BY DEF Goto
  <1>2. raced' \in BOOLEAN /\ (~raced' => ~raced /\ ~Conflict(pc'))
    BY <1>1
  <1> QED
    BY <1>2 DEF Goto, WritersTypeOK

LEMMA LeaveTyped ==
    ASSUME WritersTypeOK, NEW t \in Thread, Leave(t)
    PROVE  /\ count' \in [Thread -> Nat]
           /\ temp' \in [Thread -> BlockOrNull]
           /\ from' \in [Thread -> BlockOrNull]
           /\ \A u \in Thread : u # t => /\ count'[u] = count[u]
                                         /\ temp'[u] = temp[u] /\ from'[u] = from[u]
           /\ Goto(t, "idle")
  BY DEF Leave, WritersTypeOK, BlockOrNull

\* A step of one thread keeps the types when it keeps those of what it stores.
LEMMA LocalTyped ==
    ASSUME WritersTypeOK, Fits, NEW t \in Thread,
           NEW where \in {"idle"} \cup Writing \cup Reading, Goto(t, where),
           offset' \in [Thread -> 0..MaxSize],
           count' \in [Thread -> Nat],
           temp' \in [Thread -> BlockOrNull],
           from' \in [Thread -> BlockOrNull],
           \A u \in Thread : u # t => offset'[u] = offset[u] /\ count'[u] = count[u],
           where \notin {"idle", "compare", "resize"} => offset'[t] + count'[t] <= MaxSize,
           data' \in BlockOrNull, st_size' \in 0..MaxSize,
           node_size' \in [Vnode -> 0..MaxSize],
           allocated' \subseteq Block, length' \in [Block -> Nat]
    PROVE  WritersTypeOK' /\ Fits'
  <1>1. WritersTypeOK'
    BY GotoTyped DEF WritersTypeOK
  <1>2. Fits'
    BY GotoTyped DEF Fits
  <1> QED
    BY <1>1, <1>2

\* Steps keep types and bounds, whatever raced.
LEMMA StepTyped ==
    ASSUME IInv, [Next]_vars
    PROVE  WritersTypeOK' /\ Fits'
  <1> USE WritersAssumption DEF IInv
  <1>1. CASE UNCHANGED vars
    BY <1>1 DEF vars, shared, locals, WritersTypeOK, Fits
  <1>2. ASSUME Fault
        PROVE  WritersTypeOK' /\ Fits'
    BY <1>2 DEF Fault, shared, locals, WritersTypeOK, Fits
  <1>3. ASSUME NEW t \in Thread, NEW n \in Request, vop_write(t, n)
        PROVE  WritersTypeOK' /\ Fits'
    <2>1. PICK where \in {"malloc", "load"} : Goto(t, where)
      BY <1>3 DEF vop_write
    <2> QED
      BY <1>3, <2>1, LocalTyped DEF vop_write, shared, WritersTypeOK, Writing, Growing
  <1>4. ASSUME NEW t \in Thread, NEW n \in Request, vop_read(t, n)
        PROVE  WritersTypeOK' /\ Fits'
    <2>1. /\ Least(n, st_size - offset[t]) \in Nat
          /\ offset[t] + Least(n, st_size - offset[t]) <= st_size
      <3>1. offset[t] <= st_size /\ offset[t] \in Nat /\ st_size \in Nat /\ n \in Nat
        <4>1. offset[t] <= st_size
          BY <1>4 DEF vop_read
        <4> QED
          BY <4>1 DEF WritersTypeOK
      <3> QED
        BY <3>1 DEF Least
    <2>2. /\ count' \in [Thread -> Nat] /\ count'[t] = Least(n, st_size - offset[t])
          /\ \A u \in Thread : u # t => count'[u] = count[u]
      BY <1>4, <2>1 DEF vop_read, WritersTypeOK
    <2>3. /\ offset' = offset /\ offset \in [Thread -> 0..MaxSize] /\ st_size \in 0..MaxSize
          /\ offset[t] + count'[t] <= MaxSize
      <3>1. st_size <= MaxSize /\ st_size \in Nat /\ offset[t] \in Nat
        BY DEF WritersTypeOK
      <3>2. offset' = offset /\ offset \in [Thread -> 0..MaxSize] /\ st_size \in 0..MaxSize
        BY <1>4 DEF vop_read, WritersTypeOK
      <3> QED
        BY <2>1, <2>2, <3>1, <3>2
    <2>4. Goto(t, "load source") /\ UNCHANGED <<shared, temp, from>>
      BY <1>4 DEF vop_read
    <2>5. /\ data' \in BlockOrNull /\ st_size' \in 0..MaxSize
          /\ node_size' \in [Vnode -> 0..MaxSize]
          /\ allocated' \subseteq Block /\ length' \in [Block -> Nat]
          /\ temp' \in [Thread -> BlockOrNull] /\ from' \in [Thread -> BlockOrNull]
      BY <2>4 DEF shared, WritersTypeOK
    <2> QED
      BY <2>2, <2>3, <2>4, <2>5, LocalTyped DEF Reading
  <1>5. ASSUME NEW t \in Thread, NEW to \in 0..MaxSize, vop_lseek(t, to)
        PROVE  WritersTypeOK' /\ Fits'
    BY <1>5, LocalTyped DEF vop_lseek, shared, WritersTypeOK
  <1>6. ASSUME NEW t \in Thread, Malloc(t)
        PROVE  WritersTypeOK' /\ Fits'
    <2>1. BlockAlign(st_size + count[t]) \in Nat
      BY AlignCovers DEF WritersTypeOK
    <2>2. CASE Leave(t) /\ UNCHANGED <<shared, offset>>
      BY <2>2, LeaveTyped, LocalTyped DEF shared, WritersTypeOK
    <2>3. CASE ~(Leave(t) /\ UNCHANGED <<shared, offset>>)
      <3>1. offset[t] + count[t] <= MaxSize
        BY <1>6 DEF Malloc, At, Fits
      <3>2. Goto(t, "load old") /\ UNCHANGED <<data, st_size, node_size, offset, count, from>>
        BY <1>6, <2>3 DEF Malloc
      <3>3. /\ temp' \in [Thread -> BlockOrNull]
            /\ allocated' \subseteq Block /\ length' \in [Block -> Nat]
        <4>1. PICK b \in Block \ allocated :
                 /\ allocated' = allocated \cup {b}
                 /\ length' = [length EXCEPT ![b] = BlockAlign(st_size + count[t])]
                 /\ temp' = [temp EXCEPT ![t] = b]
          BY <1>6, <2>3 DEF Malloc
        <4> QED
          BY <2>1, <4>1 DEF WritersTypeOK, BlockOrNull
      <3>4. /\ data' \in BlockOrNull /\ st_size' \in 0..MaxSize
            /\ node_size' \in [Vnode -> 0..MaxSize]
            /\ offset' \in [Thread -> 0..MaxSize]
            /\ count' \in [Thread -> Nat] /\ from' \in [Thread -> BlockOrNull]
        BY <3>2 DEF WritersTypeOK
      <3> QED
        BY <3>1, <3>2, <3>3, <3>4, LocalTyped DEF Writing, Growing
    <2> QED
      BY <2>2, <2>3
  <1>7. ASSUME NEW t \in Thread, LoadOld(t) \/ Load(t) \/ LoadSource(t)
        PROVE  WritersTypeOK' /\ Fits'
    <2>1. offset[t] + count[t] <= MaxSize
      BY <1>7 DEF LoadOld, Load, LoadSource, At, Fits
    <2>2. PICK where \in {"copy old", "store", "copy out"} : Goto(t, where)
      BY <1>7 DEF LoadOld, Load, LoadSource
    <2>3. UNCHANGED <<shared, offset, count, temp>> /\ from' = [from EXCEPT ![t] = data]
      BY <1>7 DEF LoadOld, Load, LoadSource
    <2>4. /\ data' \in BlockOrNull /\ st_size' \in 0..MaxSize
          /\ node_size' \in [Vnode -> 0..MaxSize]
          /\ allocated' \subseteq Block /\ length' \in [Block -> Nat]
          /\ offset' \in [Thread -> 0..MaxSize] /\ count' \in [Thread -> Nat]
          /\ temp' \in [Thread -> BlockOrNull] /\ from' \in [Thread -> BlockOrNull]
      BY <2>3 DEF shared, WritersTypeOK
    <2> QED
      BY <2>1, <2>2, <2>3, <2>4, LocalTyped DEF Writing, Growing, Reading
  <1>8. ASSUME NEW t \in Thread, CopyOld(t) \/ Free(t) \/ Publish(t)
        PROVE  WritersTypeOK' /\ Fits'
    <2>1. offset[t] + count[t] <= MaxSize
      BY <1>8 DEF CopyOld, Free, Publish, At, Fits
    <2>2. CASE Fault
      BY <1>2, <2>2
    <2>3. CASE ~Fault
      <3>1. PICK where \in {"free", "publish", "load"} : Goto(t, where)
        BY <1>8, <2>3 DEF CopyOld, Free, Publish
      <3>2. /\ UNCHANGED locals
            /\ data' \in BlockOrNull /\ allocated' \subseteq Block
            /\ UNCHANGED <<st_size, node_size, length>>
        <4>1. CASE CopyOld(t)
          BY <2>3, <4>1 DEF CopyOld, shared, WritersTypeOK
        <4>2. CASE Free(t)
          BY <2>3, <4>2 DEF Free, WritersTypeOK
        <4>3. CASE Publish(t)
          BY <4>3 DEF Publish, WritersTypeOK
        <4> QED
          BY <1>8, <4>1, <4>2, <4>3
      <3> QED
        BY <2>1, <3>1, <3>2, LocalTyped DEF locals, WritersTypeOK, Writing, Growing
    <2> QED
      BY <2>2, <2>3
  <1>9. ASSUME NEW t \in Thread, Store(t) \/ CopyOut(t)
        PROVE  WritersTypeOK' /\ Fits'
    <2>1. offset[t] + count[t] \in 0..MaxSize
      <3>1. offset[t] + count[t] <= MaxSize
        BY <1>9 DEF Store, CopyOut, At, Fits
      <3> QED
        BY <3>1 DEF WritersTypeOK
    <2>2. CASE Fault
      BY <1>2, <2>2
    <2>3. CASE ~Fault /\ Store(t)
      BY <2>1, <2>3, LocalTyped DEF Store, shared, WritersTypeOK, Writing
    <2>4. CASE ~Fault /\ CopyOut(t)
      <3>1. Leave(t) /\ UNCHANGED shared /\ offset' = [offset EXCEPT ![t] = @ + count[t]]
        BY <2>4 DEF CopyOut
      <3>2. offset' \in [Thread -> 0..MaxSize] /\ \A u \in Thread : u # t => offset'[u] = offset[u]
        BY <2>1, <3>1 DEF WritersTypeOK
      <3>3. /\ data' \in BlockOrNull /\ st_size' \in 0..MaxSize
            /\ node_size' \in [Vnode -> 0..MaxSize]
            /\ allocated' \subseteq Block /\ length' \in [Block -> Nat]
        BY <3>1 DEF shared, WritersTypeOK
      <3> QED
        BY <3>1, <3>2, <3>3, LeaveTyped, LocalTyped
    <2> QED
      BY <1>9, <2>2, <2>3, <2>4
  <1>10. ASSUME NEW t \in Thread, Compare(t)
         PROVE  WritersTypeOK' /\ Fits'
    <2>1. CASE Goto(t, "resize") /\ UNCHANGED locals
      BY <1>10, <2>1, LocalTyped DEF Compare, shared, locals, WritersTypeOK, Writing
    <2>2. CASE Leave(t) /\ UNCHANGED offset
      BY <1>10, <2>2, LeaveTyped, LocalTyped DEF Compare, shared, WritersTypeOK
    <2> QED
      BY <1>10, <2>1, <2>2 DEF Compare
  <1>11. ASSUME NEW t \in Thread, SetSize(t)
         PROVE  WritersTypeOK' /\ Fits'
    BY <1>11, LeaveTyped, LocalTyped DEF SetSize, WritersTypeOK
  <1>12. CASE Stopped
    BY <1>1, <1>12 DEF Stopped
  <1> QED
    BY <1>1, <1>3, <1>4, <1>5, <1>6, <1>7, <1>8, <1>9, <1>10, <1>11, <1>12 DEF Next

-----------------------------------------------------------------------------
(* Steps without a race *)

\* Nothing but what t holds changes.
LEMMA PrivateStep ==
    ASSUME IInv, ~raced, NEW t \in Thread, UNCHANGED shared, Placed(t)',
           \A u \in Thread : u # t => /\ pc'[u] = pc[u] /\ offset'[u] = offset[u]
                                      /\ count'[u] = count[u] /\ from'[u] = from[u]
                                      /\ temp'[u] = temp[u],
           pc'[t] \in Owning <=> pc[t] \in Owning,
           ~Conflict(pc)'
    PROVE  Sound'
  <1>1. \A u \in Thread : Placed(u)'
    <2> SUFFICES ASSUME NEW u \in Thread, u # t
                 PROVE  Placed(u)'
      OBVIOUS
    <2>1. Placed(u)
      BY DEF IInv, Sound
    <2> QED
      BY <2>1 DEF Placed, Room, BlockAlign, shared
  <1>2. Room' = Room
    BY DEF Room, shared
  <1>3. \A u \in Thread : pc'[u] \in Owning <=> pc[u] \in Owning
    OBVIOUS
  <1>4. BlockAlign(st_size)' = BlockAlign(st_size)
    BY DEF BlockAlign, shared
  <1> QED
    BY <1>1, <1>2, <1>3, <1>4 DEF IInv, Sound, shared

LEMMA EnterSound ==
    ASSUME IInv, ~raced, ~raced', NEW t \in Thread,
           \/ \E n \in Request : vop_write(t, n) \/ vop_read(t, n)
           \/ \E to \in 0..MaxSize : vop_lseek(t, to)
    PROVE  ~faulted' /\ Sound'
  <1> USE WritersAssumption DEF IInv
  <1>1. /\ pc[t] = "idle" /\ offset[t] <= st_size /\ Placed(t)
        /\ offset[t] \in Nat /\ st_size \in Nat /\ pc \in [Thread -> {"idle"} \cup Writing \cup Reading]
    <2>1. pc[t] = "idle"
      BY DEF vop_write, vop_read, vop_lseek, Enters, At
    <2>2. Placed(t)
      BY DEF Sound
    <2> QED
      BY <2>1, <2>2 DEF Placed, WritersTypeOK
  <1>2. BlockAlign(st_size) \in Nat /\ BlockAlign(st_size) <= Room
    BY <1>1, AlignCovers DEF Sound
  <1>3. ASSUME NEW n \in Request, vop_write(t, n)
        PROVE  ~faulted' /\ Sound'
    <2>1. /\ count' = [count EXCEPT ![t] = n]
          /\ UNCHANGED <<shared, offset, temp, from>>
          /\ Goto(t, IF Grows(n) THEN "malloc" ELSE "load")
      BY <1>3 DEF vop_write
    <2>2. PICK where \in {"malloc", "load"} :
             /\ Goto(t, where)
             /\ where = "load" => BlockAlign(st_size + n) <= BlockAlign(st_size)
      <3>1. CASE Grows(n)
        BY <2>1, <3>1
      <3>2. CASE ~Grows(n)
        <4>1. n \in Nat /\ BlockAlign(st_size + n) \in Nat
          BY <1>1, AlignCovers
        <4> QED
          BY <2>1, <3>2, <4>1, <1>2 DEF Grows
      <3> QED
        BY <3>1, <3>2
    <2>3. /\ pc'[t] = where /\ \A u \in Thread : u # t => pc'[u] = pc[u]
          /\ ~faulted' /\ ~Conflict(pc')
      BY <2>2, GotoTyped DEF Writing, Growing
    <2>4. n \in Nat /\ count'[t] = n /\ \A u \in Thread : u # t => count'[u] = count[u]
      BY <2>1 DEF WritersTypeOK
    <2>5. /\ BlockAlign(offset[t] + n) <= BlockAlign(st_size + n)
          /\ BlockAlign(offset[t] + n) \in Nat /\ BlockAlign(st_size + n) \in Nat
      BY <1>1, <2>4, AlignMonotone, AlignCovers
    <2>6. where = "load" => BlockAlign(offset[t] + n) <= Room
      <3>1. Room \in Nat
        BY DEF Room, WritersTypeOK, BlockOrNull
      <3> QED
        BY <1>2, <2>2, <2>5, <3>1
    <2>7. Placed(t)'
      <3>1. BlockAlign(offset[t] + n) = BlockAlign(offset[t] + count[t])' /\ Room' = Room
        BY <2>1, <2>4 DEF BlockAlign, Room, shared
      <3> HIDE DEF IInv
      <3> QED
        BY <1>1, <2>1, <2>2, <2>3, <2>6, <3>1 DEF Placed, Owning, Reading, shared
    <2> QED
      BY <1>1, <2>1, <2>2, <2>3, <2>4, <2>7, PrivateStep DEF Owning, Conflict
  <1>4. ASSUME NEW n \in Request, vop_read(t, n)
        PROVE  ~faulted' /\ Sound'
    <2>1. /\ count' = [count EXCEPT ![t] = Least(n, st_size - offset[t])]
          /\ UNCHANGED <<shared, offset, temp, from>>
          /\ Goto(t, "load source")
      BY <1>4 DEF vop_read
    <2>2. /\ pc'[t] = "load source" /\ \A u \in Thread : u # t => pc'[u] = pc[u]
          /\ ~faulted' /\ ~Conflict(pc')
      BY <2>1, GotoTyped DEF Reading
    <2>3. offset[t] + Least(n, st_size - offset[t]) <= st_size
      BY <1>1 DEF Least
    <2>4. /\ count'[t] = Least(n, st_size - offset[t])
          /\ \A u \in Thread : u # t => count'[u] = count[u]
      BY <2>1 DEF WritersTypeOK
    <2>5. Placed(t)'
      <3> HIDE DEF IInv
      <3> QED
        BY <1>1, <2>1, <2>2, <2>3, <2>4 DEF Placed, Owning, Reading, shared
    <2> QED
      BY <1>1, <2>1, <2>2, <2>4, <2>5, PrivateStep DEF Owning, Conflict
  <1>5. ASSUME NEW to \in 0..MaxSize, vop_lseek(t, to)
        PROVE  ~faulted' /\ Sound'
    <2>1. /\ offset' = [offset EXCEPT ![t] = to]
          /\ UNCHANGED <<shared, count, temp, from>>
          /\ Goto(t, "idle")
          /\ to <= node_size[node[t]]
      BY <1>5 DEF vop_lseek
    <2>2. /\ pc'[t] = "idle" /\ \A u \in Thread : u # t => pc'[u] = pc[u]
          /\ ~faulted' /\ ~Conflict(pc')
      BY <2>1, GotoTyped
    <2>3. to <= st_size
      <3>1. node[t] \in Vnode
        BY DEF WritersTypeOK
      <3>2. node_size[node[t]] \in Nat /\ node_size[node[t]] <= st_size
        BY <3>1 DEF Sound, WritersTypeOK
      <3> QED
        BY <1>1, <2>1, <3>2
    <2>4. /\ offset'[t] = to
          /\ \A u \in Thread : u # t => offset'[u] = offset[u]
      BY <2>1 DEF WritersTypeOK
    <2>5. Placed(t)'
      <3> HIDE DEF IInv
      <3> QED
        BY <2>1, <2>2, <2>3, <2>4 DEF Placed, Owning, Reading, shared
    <2> QED
      BY <1>1, <2>1, <2>2, <2>4, <2>5, PrivateStep DEF Owning, Conflict
  <1> QED
    BY <1>3, <1>4, <1>5

\* A growing write runs alone.
LEMMA GrowSound ==
    ASSUME IInv, ~raced, ~raced', NEW t \in Thread,
           Malloc(t) \/ LoadOld(t) \/ CopyOld(t) \/ Free(t) \/ Publish(t)
    PROVE  ~faulted' /\ Sound'
  <1> USE WritersAssumption DEF IInv
  <1>1. /\ pc[t] \in Growing /\ Placed(t)
        /\ offset[t] \in Nat /\ st_size \in Nat /\ count[t] \in Nat /\ Room \in Nat
        /\ data \in BlockOrNull /\ length \in [Block -> Nat]
    <2>1. pc[t] \in Growing
      BY DEF Malloc, LoadOld, CopyOld, Free, Publish, At, Growing
    <2>2. Placed(t)
      BY DEF Sound
    <2> QED
      BY <2>1, <2>2 DEF WritersTypeOK, Room, BlockOrNull
  <1>2. \A u \in Thread : u # t => pc[u] = "idle" /\ offset[u] <= st_size
    BY <1>1, GrowsAlone DEF Sound, Placed
  <1>3. BlockAlign(st_size) \in Nat /\ BlockAlign(st_size) <= Room /\ st_size <= BlockAlign(st_size)
    BY <1>1, AlignCovers DEF Sound
  <1>4. /\ BlockAlign(st_size + count[t]) \in Nat
        /\ st_size + count[t] <= BlockAlign(st_size + count[t])
        /\ BlockAlign(st_size) <= BlockAlign(st_size + count[t])
        /\ offset[t] <= st_size
        /\ BlockAlign(offset[t] + count[t]) \in Nat
        /\ BlockAlign(offset[t] + count[t]) <= BlockAlign(st_size + count[t])
    <2>1. offset[t] <= st_size
      BY <1>1 DEF Placed, Growing
    <2> QED
      BY <1>1, <2>1, AlignCovers, AlignMonotone
  <1>5. ASSUME NEW where \in {"idle"} \cup Writing, Goto(t, where)
        PROVE  /\ pc'[t] = where /\ \A u \in Thread : u # t => pc'[u] = "idle"
               /\ ~faulted' /\ ~Conflict(pc')
    BY <1>2, <1>5, GotoTyped
  <1>6. ASSUME UNCHANGED <<offset, st_size>>, \A u \in Thread : u # t => pc'[u] = "idle"
        PROVE  \A u \in Thread : u # t => Placed(u)'
    BY <1>2, <1>6 DEF Placed, Owning, Reading
  <1>7. CASE Malloc(t)
    <2>1. allocated = {data} \ {NULL}
      <3>1. \A u \in Thread : pc[u] \notin Owning
        BY <1>2, <1>7 DEF Malloc, At, Owning
      <3> QED
        BY <3>1 DEF Sound
    <2>2. CASE Leave(t) /\ UNCHANGED <<shared, offset>>
      <3>1. Goto(t, "idle")
        BY <2>2, LeaveTyped
      <3>2. /\ pc'[t] = "idle" /\ \A u \in Thread : u # t => pc'[u] = "idle"
            /\ ~faulted' /\ ~Conflict(pc')
        BY <3>1, <1>5
      <3>3. \A u \in Thread : Placed(u)'
        BY <1>4, <1>6, <2>2, <3>2 DEF Placed, Owning, Reading, shared
      <3>4. Room' = Room /\ BlockAlign(st_size)' = BlockAlign(st_size)
        BY <2>2 DEF Room, shared, BlockAlign
      <3> QED
        BY <2>1, <2>2, <3>2, <3>3, <3>4 DEF Sound, shared, Conflict
    <2>3. CASE ~(Leave(t) /\ UNCHANGED <<shared, offset>>)
      <3>1. PICK b \in Block \ allocated :
               /\ allocated' = allocated \cup {b}
               /\ length' = [length EXCEPT ![b] = BlockAlign(st_size + count[t])]
               /\ temp' = [temp EXCEPT ![t] = b]
               /\ Goto(t, "load old")
               /\ UNCHANGED <<data, st_size, node_size, offset, count, from>>
        BY <1>7, <2>3 DEF Malloc
      <3>2. /\ pc'[t] = "load old" /\ \A u \in Thread : u # t => pc'[u] = "idle"
            /\ ~faulted' /\ ~Conflict(pc')
        BY <3>1, <1>5 DEF Writing, Growing
      <3>3. temp'[t] = b /\ length'[b] = BlockAlign(st_size + count[t]) /\ b # data
        BY <2>1, <3>1, <1>1 DEF WritersTypeOK, BlockOrNull
      <3>4. Room' = Room /\ BlockAlign(st_size)' = BlockAlign(st_size)
               /\ BlockAlign(st_size + count[t])' = BlockAlign(st_size + count[t])
        BY <3>1, <3>3, <1>1 DEF Room, BlockAlign, BlockOrNull
      <3>5. Placed(t)'
        BY <1>4, <2>1, <3>1, <3>2, <3>3, <3>4 DEF Placed, Owning, Reading
      <3>6. \A u \in Thread : Placed(u)'
        BY <1>6, <3>1, <3>2, <3>5
      <3>7. pc'[t] \in Owning
        BY <3>2 DEF Owning
      <3> QED
        BY <3>1, <3>2, <3>4, <3>6, <3>7 DEF Sound, Conflict
    <2> QED
      BY <2>2, <2>3
  <1>8. CASE LoadOld(t)
    <2>1. from' = [from EXCEPT ![t] = data] /\ Goto(t, "copy old") /\ pc[t] = "load old"
             /\ UNCHANGED <<shared, offset, count, temp>>
      BY <1>8 DEF LoadOld, At
    <2>2. /\ pc'[t] = "copy old" /\ \A u \in Thread : u # t => pc'[u] = "idle"
          /\ ~faulted' /\ ~Conflict(pc')
      BY <2>1, <1>5 DEF Writing, Growing
    <2>3. from'[t] = data /\ \A u \in Thread : u # t => from'[u] = from[u]
      BY <2>1 DEF WritersTypeOK
    <2>4. BlockAlign(st_size + count[t])' = BlockAlign(st_size + count[t])
      BY <2>1 DEF BlockAlign, shared
    <2>5. Placed(t)'
      BY <1>1, <1>4, <2>1, <2>2, <2>3, <2>4 DEF Placed, Owning, Reading, shared
    <2> QED
      BY <1>2, <2>1, <2>2, <2>3, <2>5, PrivateStep DEF Owning, Conflict
  <1>9. CASE CopyOld(t)
    <2>1. pc[t] = "copy old" /\ from[t] = data /\ temp[t] \in Block
             /\ length[temp[t]] = BlockAlign(st_size + count[t])
             /\ allocated = {temp[t]} \cup ({data} \ {NULL})
      BY <1>1, <1>9 DEF CopyOld, At, Placed, Owning
    <2>2. Touches(from[t], 0, st_size) /\ Touches(temp[t], 0, st_size)
      <3>1. st_size <= Room /\ st_size <= length[temp[t]]
        <4>1. st_size <= Room
          BY <1>1, <1>3
        <4>2. st_size <= BlockAlign(st_size + count[t])
          BY <1>1, <1>3, <1>4
        <4> QED
          BY <2>1, <4>1, <4>2
      <3>2. data = NULL => st_size = 0
        BY <1>1, <3>1 DEF Room
      <3>3. data # NULL => data \in allocated /\ st_size <= length[data]
        BY <2>1, <3>1 DEF Room
      <3>4. temp[t] \in allocated
        BY <2>1
      <3>5. 0 + st_size = st_size
        BY <1>1
      <3> QED
        BY <2>1, <3>1, <3>2, <3>3, <3>4, <3>5 DEF Touches
    <2>3. Goto(t, "free") /\ UNCHANGED <<shared, locals>>
      BY <1>9, <2>2 DEF CopyOld
    <2>4. /\ pc'[t] = "free" /\ \A u \in Thread : u # t => pc'[u] = "idle"
          /\ ~faulted' /\ ~Conflict(pc')
      BY <2>3, <1>5 DEF Writing, Growing
    <2>5. BlockAlign(st_size + count[t])' = BlockAlign(st_size + count[t])
      BY <2>3 DEF BlockAlign, shared, locals
    <2>6. Placed(t)'
      BY <1>1, <1>4, <2>1, <2>3, <2>4, <2>5 DEF Placed, Owning, Reading, shared, locals
    <2> QED
      BY <1>2, <2>1, <2>3, <2>4, <2>6, PrivateStep DEF Owning, Conflict, locals
  <1>10. CASE Free(t)
    <2>1. pc[t] = "free" /\ temp[t] \in Block \ {data}
             /\ length[temp[t]] = BlockAlign(st_size + count[t])
             /\ allocated = {temp[t]} \cup ({data} \ {NULL})
      BY <1>1, <1>10 DEF Free, At, Placed, Owning
    <2>2. /\ allocated' = allocated \ {data} /\ Goto(t, "publish")
          /\ UNCHANGED <<data, st_size, node_size, length, locals>>
      BY <1>10, <2>1, <1>1 DEF Free, BlockOrNull
    <2>3. /\ pc'[t] = "publish" /\ \A u \in Thread : u # t => pc'[u] = "idle"
          /\ ~faulted' /\ ~Conflict(pc')
      BY <2>2, <1>5 DEF Writing, Growing
    <2>4. Room' = Room /\ BlockAlign(st_size)' = BlockAlign(st_size)
             /\ BlockAlign(st_size + count[t])' = BlockAlign(st_size + count[t])
      BY <2>2 DEF Room, BlockAlign, locals
    <2>5. allocated' = {temp[t]}
      BY <2>1, <2>2, <1>1
    <2>6. Placed(t)'
      BY <1>1, <1>4, <2>1, <2>2, <2>3, <2>4, <2>5 DEF Placed, Owning, Reading, locals
    <2>7. \A u \in Thread : Placed(u)'
      BY <1>6, <2>2, <2>3, <2>6 DEF locals
    <2>8. pc'[t] \in Owning
      BY <2>3 DEF Owning
    <2> QED
      BY <2>2, <2>3, <2>4, <2>7, <2>8 DEF Sound, Conflict
  <1>11. CASE Publish(t)
    <2>1. pc[t] = "publish" /\ temp[t] \in Block
             /\ length[temp[t]] = BlockAlign(st_size + count[t])
             /\ allocated = {temp[t]}
      BY <1>1, <1>11 DEF Publish, At, Placed, Owning
    <2>2. /\ data' = temp[t] /\ Goto(t, "load")
          /\ UNCHANGED <<st_size, node_size, allocated, length, locals>>
      BY <1>11 DEF Publish
    <2>3. /\ pc'[t] = "load" /\ \A u \in Thread : u # t => pc'[u] = "idle"
          /\ ~faulted' /\ ~Conflict(pc')
      BY <2>2, <1>5 DEF Writing
    <2>4. Room' = BlockAlign(st_size + count[t]) /\ BlockAlign(st_size)' = BlockAlign(st_size)
             /\ BlockAlign(offset[t] + count[t])' = BlockAlign(offset[t] + count[t])
      BY <2>1, <2>2 DEF Room, BlockAlign, locals
    <2>6. Placed(t)'
      BY <1>1, <1>4, <2>2, <2>3, <2>4 DEF Placed, Owning, Reading, locals
    <2>7. \A u \in Thread : Placed(u)'
      BY <1>6, <2>2, <2>3, <2>6 DEF locals
    <2>8. allocated' = {data'} \ {NULL}
      BY <2>1, <2>2
    <2> QED
      BY <1>3, <1>4, <2>2, <2>3, <2>4, <2>7, <2>8 DEF Sound, Conflict
  <1> QED
    BY <1>7, <1>8, <1>9, <1>10, <1>11

\* A write that stays in the buffer runs beside readers only.
LEMMA StoreSound ==
    ASSUME IInv, ~raced, ~raced', NEW t \in Thread,
           Load(t) \/ Store(t) \/ Compare(t) \/ SetSize(t)
    PROVE  ~faulted' /\ Sound'
  <1> USE WritersAssumption DEF IInv
  <1>1. /\ pc[t] \in {"load", "store", "compare", "resize"} /\ Placed(t)
        /\ offset[t] \in Nat /\ st_size \in Nat /\ count[t] \in Nat /\ Room \in Nat
        /\ data \in BlockOrNull /\ length \in [Block -> Nat]
    <2>1. pc[t] \in {"load", "store", "compare", "resize"}
      BY DEF Load, Store, Compare, SetSize, At
    <2>2. Placed(t)
      BY DEF Sound
    <2> QED
      BY <2>1, <2>2 DEF WritersTypeOK, Room, BlockOrNull
  <1>2. \A u \in Thread : u # t => pc[u] \in {"idle"} \cup Reading
    BY <1>1, WritesAlone DEF Sound, Writing
  <1>3. allocated = {data} \ {NULL}
    BY <1>1, BufferAllocated DEF Growing
  <1>4. ASSUME NEW where \in {"idle"} \cup Writing, Goto(t, where)
        PROVE  /\ pc'[t] = where /\ \A u \in Thread : u # t => pc'[u] = pc[u]
               /\ ~faulted' /\ ~Conflict(pc')
    BY <1>4, GotoTyped
  <1>5. CASE Load(t)
    <2>1. from' = [from EXCEPT ![t] = data] /\ Goto(t, "store") /\ pc[t] = "load"
             /\ UNCHANGED <<shared, offset, count, temp>>
      BY <1>5 DEF Load, At
    <2>2. /\ pc'[t] = "store" /\ \A u \in Thread : u # t => pc'[u] = pc[u]
          /\ ~faulted' /\ ~Conflict(pc')
      BY <2>1, <1>4 DEF Writing
    <2>3. from'[t] = data /\ \A u \in Thread : u # t => from'[u] = from[u]
      BY <2>1 DEF WritersTypeOK
    <2>4. BlockAlign(offset[t] + count[t])' = BlockAlign(offset[t] + count[t]) /\ Room' = Room
      BY <2>1 DEF BlockAlign, Room, shared
    <2>5. Placed(t)'
      BY <1>1, <2>1, <2>2, <2>3, <2>4 DEF Placed, Owning, Reading, shared
    <2> QED
      BY <2>1, <2>2, <2>3, <2>5, PrivateStep DEF Owning, Conflict
  <1>6. CASE Store(t)
    <2>1. pc[t] = "store" /\ from[t] = data /\ BlockAlign(offset[t] + count[t]) <= Room
      BY <1>1, <1>6 DEF Store, At, Placed
    <2>2. /\ BlockAlign(offset[t] + count[t]) \in Nat
          /\ offset[t] + count[t] <= BlockAlign(offset[t] + count[t])
      BY <1>1, AlignCovers
    <2>3. Touches(from[t], offset[t], count[t])
      <3>1. offset[t] + count[t] <= Room
        BY <1>1, <2>1, <2>2
      <3>2. data = NULL => count[t] = 0
        BY <1>1, <3>1 DEF Room
      <3>3. data # NULL => data \in allocated /\ offset[t] + count[t] <= length[data]
        BY <1>3, <3>1 DEF Room
      <3> QED
        BY <2>1, <3>2, <3>3 DEF Touches
    <2>4. /\ offset' = [offset EXCEPT ![t] = @ + count[t]]
          /\ Goto(t, "compare") /\ UNCHANGED <<shared, count, temp, from>>
      BY <1>6, <2>3 DEF Store
    <2>5. /\ pc'[t] = "compare" /\ \A u \in Thread : u # t => pc'[u] = pc[u]
          /\ ~faulted' /\ ~Conflict(pc')
      BY <2>4, <1>4 DEF Writing
    <2>6. offset'[t] = offset[t] + count[t] /\ \A u \in Thread : u # t => offset'[u] = offset[u]
      BY <2>4 DEF WritersTypeOK
    <2>7. BlockAlign(offset[t])' = BlockAlign(offset[t] + count[t]) /\ Room' = Room
      BY <2>4, <2>6 DEF BlockAlign, Room, shared
    <2>8. Placed(t)'
      BY <2>1, <2>5, <2>7 DEF Placed, Owning, Reading
    <2> QED
      BY <2>1, <2>4, <2>5, <2>6, <2>8, PrivateStep DEF Owning, Conflict
  <1>7. CASE Compare(t)
    <2>1. /\ pc[t] = "compare" /\ BlockAlign(offset[t]) <= Room
          /\ UNCHANGED shared /\ UNCHANGED offset
          /\ \/ offset[t] >= st_size /\ Goto(t, "resize") /\ UNCHANGED locals
             \/ offset[t] < st_size /\ Leave(t)
      BY <1>1, <1>7 DEF Compare, At, Placed, locals
    <2>2. BlockAlign(offset[t])' = BlockAlign(offset[t]) /\ Room' = Room
      BY <2>1 DEF BlockAlign, Room, shared
    <2>3. CASE offset[t] >= st_size /\ Goto(t, "resize") /\ UNCHANGED locals
      <3>1. /\ pc'[t] = "resize" /\ \A u \in Thread : u # t => pc'[u] = pc[u]
            /\ ~faulted' /\ ~Conflict(pc')
        BY <2>3, <1>4 DEF Writing
      <3>2. Placed(t)'
        BY <2>1, <2>2, <2>3, <3>1 DEF Placed, Owning, Reading, shared, locals
      <3> QED
        BY <2>1, <2>3, <3>1, <3>2, PrivateStep DEF Owning, Conflict, locals
    <2>4. CASE offset[t] < st_size /\ Leave(t)
      <3>1. /\ pc'[t] = "idle" /\ \A u \in Thread : u # t => pc'[u] = pc[u]
            /\ ~faulted' /\ ~Conflict(pc')
        BY <2>4, LeaveTyped, <1>4
      <3>2. Placed(t)'
        BY <1>1, <2>1, <2>4, <3>1 DEF Placed, Owning, Reading, shared
      <3> QED
        BY <2>1, <2>4, <3>1, <3>2, LeaveTyped, PrivateStep DEF Owning, Conflict
    <2> QED
      BY <2>1, <2>3, <2>4
  <1>8. CASE SetSize(t)
    <2>1. /\ pc[t] = "resize" /\ BlockAlign(offset[t]) <= Room /\ offset[t] >= st_size
          /\ st_size' = offset[t]
          /\ node_size' = [node_size EXCEPT ![node[t]] = offset[t]]
          /\ Leave(t)
          /\ UNCHANGED <<data, allocated, length, offset>>
      BY <1>1, <1>8 DEF SetSize, At, Placed
    <2>2. /\ pc'[t] = "idle" /\ \A u \in Thread : u # t => pc'[u] = pc[u]
          /\ ~faulted' /\ ~Conflict(pc')
      BY <2>1, LeaveTyped, <1>4
    <2>3. Placed(t)'
      BY <1>1, <2>1, <2>2 DEF Placed, Owning, Reading
    <2>4. ASSUME NEW u \in Thread, u # t
          PROVE  Placed(u)'
      <3>1. /\ pc'[u] \in {"idle"} \cup Reading /\ pc'[u] = pc[u]
            /\ count'[u] = count[u] /\ from'[u] = from[u] /\ offset'[u] = offset[u]
        BY <1>2, <2>1, <2>2, <2>4, LeaveTyped
      <3>2. Placed(u) /\ offset[u] \in Nat /\ count[u] \in Nat
        BY DEF Sound, WritersTypeOK
      <3>3. st_size <= st_size' /\ st_size' \in Nat /\ data' = data
        BY <1>1, <2>1
      <3>4. offset'[u] <= st_size'
        <4>1. offset[u] <= st_size
          BY <3>1, <3>2 DEF Placed, Reading
        <4> QED
          BY <1>1, <3>1, <3>2, <3>3, <4>1
      <3>5. pc'[u] \in Reading => offset'[u] + count'[u] <= st_size'
        <4>1. pc[u] \in Reading => offset[u] + count[u] <= st_size
          BY <3>2 DEF Placed
        <4> QED
          BY <1>1, <3>1, <3>2, <3>3, <4>1
      <3>6. pc'[u] = "copy out" => from'[u] = data'
        BY <3>1, <3>2, <3>3 DEF Placed
      <3> QED
        BY <3>1, <3>4, <3>5, <3>6 DEF Placed, Owning, Reading
    <2>5. \A v \in Vnode : node_size'[v] <= st_size'
      <3>1. \A v \in Vnode : node_size[v] \in Nat /\ node_size[v] <= st_size
        BY DEF Sound, WritersTypeOK
      <3>2. \A v \in Vnode : node_size'[v] \in {node_size[v], offset[t]}
        BY <2>1 DEF WritersTypeOK
      <3> QED
        BY <1>1, <2>1, <3>1, <3>2
    <2>6. BlockAlign(st_size)' <= Room'
      <3>1. BlockAlign(st_size)' = BlockAlign(offset[t]) /\ Room' = Room
        BY <2>1 DEF BlockAlign, Room
      <3> QED
        BY <2>1, <3>1
    <2>7. allocated' = {data'} \ {NULL}
      BY <1>3, <2>1
    <2> QED
      BY <2>2, <2>3, <2>4, <2>5, <2>6, <2>7 DEF Sound, Conflict
  <1> QED
    BY <1>5, <1>6, <1>7, <1>8

\* A read runs beside whoever leaves the buffer where it is.
LEMMA ReadSound ==
    ASSUME IInv, ~raced, ~raced', NEW t \in Thread, LoadSource(t) \/ CopyOut(t)
    PROVE  ~faulted' /\ Sound'
  <1> USE WritersAssumption DEF IInv
  <1>1. /\ pc[t] \in Reading /\ Placed(t) /\ offset[t] + count[t] <= st_size
        /\ offset[t] \in Nat /\ st_size \in Nat /\ count[t] \in Nat /\ Room \in Nat
        /\ data \in BlockOrNull /\ length \in [Block -> Nat]
    <2>1. pc[t] \in Reading
      BY DEF LoadSource, CopyOut, At, Reading
    <2>2. Placed(t)
      BY DEF Sound
    <2>3. offset[t] + count[t] <= st_size
      BY <2>1, <2>2 DEF Placed
    <2> QED
      BY <2>1, <2>2, <2>3 DEF WritersTypeOK, Room, BlockOrNull
  <1>2. allocated = {data} \ {NULL}
    BY <1>1, BufferAllocated DEF Growing, Reading
  <1>3. CASE LoadSource(t)
    <2>1. from' = [from EXCEPT ![t] = data] /\ Goto(t, "copy out") /\ pc[t] = "load source"
             /\ UNCHANGED <<shared, offset, count, temp>>
      BY <1>3 DEF LoadSource, At
    <2>2. /\ pc'[t] = "copy out" /\ \A u \in Thread : u # t => pc'[u] = pc[u]
          /\ ~faulted' /\ ~Conflict(pc')
      BY <2>1, GotoTyped DEF Reading
    <2>3. from'[t] = data /\ \A u \in Thread : u # t => from'[u] = from[u]
      BY <2>1 DEF WritersTypeOK
    <2>4. Placed(t)'
      BY <1>1, <2>1, <2>2, <2>3 DEF Placed, Owning, Reading, shared
    <2> QED
      BY <2>1, <2>2, <2>3, <2>4, PrivateStep DEF Owning, Conflict
  <1>4. CASE CopyOut(t)
    <2>1. pc[t] = "copy out" /\ from[t] = data
      BY <1>1, <1>4 DEF CopyOut, At, Placed
    <2>2. Touches(from[t], offset[t], count[t])
      <3>1. offset[t] + count[t] <= Room
        <4>1. /\ BlockAlign(st_size) \in Nat /\ st_size <= BlockAlign(st_size)
              /\ BlockAlign(st_size) <= Room
          BY <1>1, AlignCovers DEF Sound
        <4> QED
          BY <1>1, <4>1
      <3>2. data = NULL => count[t] = 0
        BY <1>1, <3>1 DEF Room
      <3>3. data # NULL => data \in allocated /\ offset[t] + count[t] <= length[data]
        BY <1>2, <3>1 DEF Room
      <3> QED
        BY <2>1, <3>2, <3>3 DEF Touches
    <2>3. /\ offset' = [offset EXCEPT ![t] = @ + count[t]]
          /\ Leave(t) /\ UNCHANGED shared
      BY <1>4, <2>2 DEF CopyOut
    <2>4. /\ pc'[t] = "idle" /\ \A u \in Thread : u # t => pc'[u] = pc[u]
          /\ ~faulted' /\ ~Conflict(pc')
      BY <2>3, LeaveTyped, GotoTyped
    <2>5. offset'[t] = offset[t] + count[t] /\ \A u \in Thread : u # t => offset'[u] = offset[u]
      BY <2>3 DEF WritersTypeOK
    <2>6. Placed(t)'
      BY <1>1, <2>3, <2>4, <2>5 DEF Placed, Owning, Reading, shared
    <2> QED
      BY <2>1, <2>3, <2>4, <2>5, <2>6, LeaveTyped, PrivateStep DEF Owning, Conflict
  <1> QED
    BY <1>3, <1>4

-----------------------------------------------------------------------------
(* The invariant *)

LEMMA InitSound == Init => IInv
  <1> SUFFICES ASSUME Init
               PROVE  IInv
    OBVIOUS
  <1> USE WritersAssumption DEF Init
  <1>1. WritersTypeOK
    <2>1. 0 \in 0..MaxSize
      OBVIOUS
    <2>2. /\ offset \in [Thread -> 0..MaxSize] /\ node_size \in [Vnode -> 0..MaxSize]
          /\ st_size \in 0..MaxSize
      BY <2>1
    <2>3. /\ count \in [Thread -> Nat] /\ length \in [Block -> Nat]
          /\ temp \in [Thread -> BlockOrNull] /\ from \in [Thread -> BlockOrNull]
          /\ data \in BlockOrNull
      BY DEF BlockOrNull
    <2>4. pc \in [Thread -> {"idle"} \cup Writing \cup Reading]
      OBVIOUS
    <2> QED
      BY <2>2, <2>3, <2>4 DEF WritersTypeOK
  <1>4. Fits
    BY DEF Fits
  <1>2. BlockAlign(st_size) <= Room
    BY DEF BlockAlign, Room
  <1>3. Sound
    BY <1>2 DEF Sound, Placed, Conflict, Owning, Growing, Writing, Reading
  <1> QED
    BY <1>1, <1>3, <1>4 DEF IInv

\* The history does not forget.
LEMMA RacedStays ==
    ASSUME [Next]_vars, ~raced'
    PROVE  ~raced
  <1>1. (\E t \in Thread, where \in {"idle"} \cup Writing \cup Reading : Goto(t, where)) => ~raced
    <2>1. (\E t \in Thread, where \in {"idle"} \cup Writing \cup Reading : Goto(t, where))
             => raced' = (raced \/ Conflict(pc'))
      BY DEF Goto
    <2> QED
      BY <2>1
  <1>2. UNCHANGED vars \/ Stopped \/ Fault => ~raced
    BY DEF Stopped, Fault, vars
  <1>3. ASSUME NEW t \in Thread,
               (\E n \in Request : vop_write(t, n) \/ vop_read(t, n))
                 \/ \E to \in 0..MaxSize : vop_lseek(t, to)
        PROVE  \E where \in {"idle"} \cup Writing \cup Reading : Goto(t, where)
    BY <1>3 DEF vop_write, vop_read, vop_lseek, Writing, Growing, Reading
  <1>4. ASSUME NEW t \in Thread,
               \/ Malloc(t) \/ LoadOld(t) \/ CopyOld(t) \/ Free(t) \/ Publish(t)
               \/ Load(t) \/ Store(t) \/ Compare(t) \/ SetSize(t)
               \/ LoadSource(t) \/ CopyOut(t)
        PROVE  Fault \/ \E where \in {"idle"} \cup Writing \cup Reading : Goto(t, where)
    BY <1>4 DEF Malloc, LoadOld, CopyOld, Free, Publish, Load, Store, Compare, SetSize,
                LoadSource, CopyOut, Leave, Writing, Growing, Reading
  <1> QED
    BY <1>1, <1>2, <1>3, <1>4 DEF Next

LEMMA StepSound == IInv /\ [Next]_vars => IInv'
  <1> SUFFICES ASSUME IInv, [Next]_vars
               PROVE  IInv'
    OBVIOUS
  <1>1. WritersTypeOK' /\ Fits'
    BY StepTyped
  <1>2. ASSUME ~raced'
        PROVE  ~faulted' /\ Sound'
    <2>1. CASE UNCHANGED vars \/ Stopped
      <3>1. UNCHANGED vars
        BY <2>1 DEF Stopped
      <3>2. ~raced /\ ~faulted /\ Sound
        BY <1>2, <3>1 DEF IInv, vars
      <3> QED
        BY <3>1, <3>2 DEF vars, shared, locals, Sound, Placed, Conflict, Room, BlockAlign
    <2>2. ~raced
      BY <1>2, RacedStays
    <2>3. ASSUME NEW t \in Thread,
                 (\E n \in Request : vop_write(t, n) \/ vop_read(t, n))
                   \/ \E to \in 0..MaxSize : vop_lseek(t, to)
          PROVE  ~faulted' /\ Sound'
      BY <1>2, <2>2, <2>3, EnterSound
    <2>4. ASSUME NEW t \in Thread,
                 \/ Malloc(t) \/ LoadOld(t) \/ CopyOld(t) \/ Free(t) \/ Publish(t)
                 \/ Load(t) \/ Store(t) \/ Compare(t) \/ SetSize(t)
                 \/ LoadSource(t) \/ CopyOut(t)
          PROVE  ~faulted' /\ Sound'
      BY <1>2, <2>2, <2>4, GrowSound, StoreSound, ReadSound
    <2> QED
      BY <2>1, <2>3, <2>4 DEF Next
  <1> QED
    BY <1>1, <1>2 DEF IInv

LEMMA SoundInvariance == Spec => []IInv
  BY InitSound, StepSound, PTL DEF Spec

\* Types and bounds, whatever raced.
THEOREM WritersTypeCorrect == Spec => []WritersTypeOK
  <1>1. IInv => WritersTypeOK
    BY DEF IInv
  <1> QED
    BY <1>1, SoundInvariance, PTL

\* No handler leaves the file's memory before a growing write has run beside
\* another handler, or a write beside a write.
THEOREM FaultsComeFromRaces == Spec => []FaultsNeedRace
  <1>1. IInv => FaultsNeedRace
    BY DEF IInv, FaultsNeedRace, WritersTypeOK
  <1> QED
    BY <1>1, SoundInvariance, PTL

\* Without such a race nothing is lost or leaked.
THEOREM QuietFilesWhole == Spec => []QuietFileWhole
  <1>1. IInv => QuietFileWhole
    <2> SUFFICES ASSUME IInv, \A t \in Thread : pc[t] = "idle", ~raced
                 PROVE  /\ allocated = {data} \ {NULL}
                        /\ \A t \in Thread : offset[t] <= st_size
                        /\ data = NULL \/ st_size <= length[data]
      BY DEF QuietFileWhole
    <2>1. allocated = {data} \ {NULL} /\ \A t \in Thread : offset[t] <= st_size
      BY DEF IInv, Sound, Placed, Owning
    <2>2. data # NULL => st_size <= length[data]
      <3>1. BlockAlign(st_size) \in Nat /\ st_size <= BlockAlign(st_size) /\ st_size \in Nat
        BY WritersAssumption, AlignCovers DEF IInv, WritersTypeOK
      <3>2. BlockAlign(st_size) <= Room /\ Room \in Nat
        BY DEF IInv, Sound, Room, WritersTypeOK, BlockOrNull
      <3>3. st_size <= Room
        BY <3>1, <3>2
      <3> QED
        BY <3>3 DEF Room
    <2> QED
      BY <2>1, <2>2
  <1> QED
    BY <1>1, SoundInvariance, PTL

=============================================================================
