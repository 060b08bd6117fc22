------------------------------ MODULE Allocators ------------------------------
(***************************************************************************)
(* The plugins that take blocks, heaps, files and sessions and give them   *)
(* back: malloc_free_test_kernel and malloc_free_test_user, PafCustomMalloc,*)
(* KernelCustomMalloc, SceZlibSample and idstorage_verifier.  Each is a    *)
(* straight line of steps with jumps on failure, so it is the list of its  *)
(* steps: take or give a slot, a pointer or id the code keeps.             *)
(*                                                                         *)
(* External: anything that is taken may not be had; a heap that is deleted *)
(* takes its blocks with it; giving NULL back does nothing; realloc moves  *)
(* the block or leaves it and returns NULL.                                *)
(***************************************************************************)
EXTENDS Integers, Sequences, SequencesExt

CONSTANTS AlRows,   \* ALLOC_FREE_PARAM_NUM
          AlSizes,  \* the number of sizes in the list of PafCustomMalloc
          AlAligns, \* the number of calls of malloc_test
          AlCerts   \* the number of certificates that are verified

VARIABLES
    al_plugin, \* which of the plugins this is
    al_pc,     \* the step it is at
    al_slot,   \* slot -> the block that is in it
    al_live,   \* the blocks that are taken, each with its heap
    al_lost,   \* history: those whose pointer was overwritten by a failed realloc
    al_wrong   \* history: something was given back that was not there

ASSUME AllocatorsAssumption ==
    AlRows \in Nat /\ AlSizes \in Nat /\ AlAligns \in Nat /\ AlCerts \in Nat

Heap == {"root", "own", "sysmem", "kernel", "netps", "paf"}

\* The heap "own" is the one whose id is in slot 0.
\* skip: how many of the steps that follow are left out when nothing is had.
Take(slot, heap, skip) == [do |-> "take", slot |-> slot, heap |-> heap, skip |-> skip]
Give(slot, heap) == [do |-> "give", slot |-> slot, heap |-> heap, skip |-> 0]
Realloc(slot, heap) == [do |-> "realloc", slot |-> slot, heap |-> heap, skip |-> 0]
Each(n, step(_)) == [i \in 1..n |-> step(i)]
Repeat(n, steps) == [k \in 1..n * Len(steps) |-> steps[((k - 1) % Len(steps)) + 1]]

\* allocFreeTestParam
KernelTable == AlRows
UserTable == AlRows

\* Mistake: the blocks of one round are freed when those of the next are taken.
Bug_Round(heap, rows) ==
    Each(rows, LAMBDA i : Take(i, heap, 0)) \o Each(rows - 1, LAMBDA i : Give(i, heap))

\* Every row is allocated and then every row freed.
Round(heap, rows) ==
    Each(rows, LAMBDA i : Take(i, heap, 0)) \o Each(rows, LAMBDA i : Give(i, heap))

\* Without and with an alignment.
alloc_free_test_system_internal == Repeat(2, Round("sysmem", KernelTable))
alloc_free_test_system_external == Repeat(2, Round("kernel", KernelTable))
alloc_free_test_netps == Repeat(2, Round("netps", KernelTable))
alloc_free_test_paf == Repeat(2, Round("paf", UserTable))

KernelTest ==
    alloc_free_test_system_internal \o alloc_free_test_system_external \o alloc_free_test_netps

PafSize(i) == <<Take(i, "own", 0), Realloc(i, "own"), Give(i, "own"), Take(i, "own", 0)>>

EachSize == [k \in 1..4 * AlSizes |-> PafSize(((k - 1) \div 4) + 1)[((k - 1) % 4) + 1]]

\* The result of scePafCreateHeap is not looked at.
PafCustomMalloc ==
    <<Take(0, "root", 0)>> \o EachSize \o Each(AlSizes, LAMBDA i : Give(i, "own")) \o <<Give(0, "root")>>

\* The heap stays with the plugin, which is resident.
malloc_test == <<Take(1, "own", 1), Give(1, "own")>>
KernelCustomMalloc == <<Take(0, "root", 2 * AlAligns)>> \o Repeat(AlAligns, malloc_test)

\* my_zlib_alloc in SceZlibForDriver_20A122F8, my_zlib_free in sceZlibDeflateEnd,
\* which is left out when the file is not there.
zlib_test_file ==
    <<Take(0, "root", 7), Take(1, "root", 5), Take(2, "own", 0), Take(3, "root", 2),
      Give(3, "root"), Give(2, "own"), Give(1, "root"), Give(0, "root")>>

\* One session with the secure module for the mac, the key and the signature of
\* each certificate.
gcauthmgr_sm == <<Take(1, "root", 1), Give(1, "root")>>
cert_verify_entry == Repeat(3 * AlCerts, gcauthmgr_sm)

Programs ==
    [kernel |-> KernelTest, user |-> alloc_free_test_paf, paf |-> PafCustomMalloc,
     custom |-> KernelCustomMalloc, zlib |-> zlib_test_file, idstorage |-> cert_verify_entry]

-----------------------------------------------------------------------------
(* The steps *)
Steps == Programs[al_plugin]
Slot == 0..AlRows + AlSizes + 3
None == 0

alVars == <<al_plugin, al_pc, al_slot, al_live, al_lost, al_wrong>>

AlTypeOK ==
    /\ al_plugin \in DOMAIN Programs
    /\ al_pc \in Nat \ {0}
    /\ al_slot \in [Slot -> Nat]
    /\ \A b \in al_live : b[1] \in Nat \ {0} /\ b[2] \in Heap
    /\ al_lost \subseteq al_live
    /\ al_wrong \in BOOLEAN

AlInit ==
    /\ al_plugin \in DOMAIN Programs /\ al_pc = 1
    /\ al_slot = [s \in Slot |-> None] /\ al_live = {} /\ al_lost = {} /\ al_wrong = FALSE

There(heap) == heap = "own" => <<al_slot[0], "root">> \in al_live

Step == Steps[al_pc]
At(do) == al_pc =< Len(Steps) /\ Step.do = do
Held == <<al_slot[Step.slot], Step.heap>>

\* A block is named for the step that took it.
AlTake ==
    /\ At("take")
    /\ \/ /\ There(Step.heap)
          /\ al_slot' = [al_slot EXCEPT ![Step.slot] = al_pc]
          /\ al_live' = al_live \cup {<<al_pc, Step.heap>>} /\ al_pc' = al_pc + 1
       \/ /\ al_slot' = [al_slot EXCEPT ![Step.slot] = None]
          /\ al_pc' = al_pc + 1 + Step.skip /\ UNCHANGED al_live
    /\ UNCHANGED <<al_plugin, al_lost, al_wrong>>

\* What is in a heap that is deleted goes with it.
Inside(b) == IF Step.slot = 0 THEN {c \in al_live : c[2] = "own"} \cup {b} ELSE {b}

AlGive ==
    /\ At("give")
    /\ al_slot' = [al_slot EXCEPT ![Step.slot] = None]
    /\ al_pc' = al_pc + 1
    /\ \/ al_slot[Step.slot] = None /\ UNCHANGED <<al_live, al_lost, al_wrong>>
       \/ /\ al_slot[Step.slot] # None
          /\ al_wrong' = (al_wrong \/ Held \notin al_live)
          /\ al_live' = al_live \ Inside(Held) /\ al_lost' = al_lost \ Inside(Held)
    /\ UNCHANGED al_plugin

\* The pointer is overwritten with what realloc returns: when that is NULL, the
\* block it did not move is lost.
AlRealloc ==
    /\ At("realloc")
    /\ al_pc' = al_pc + 1
    /\ \/ /\ There(Step.heap)
          /\ al_slot' = [al_slot EXCEPT ![Step.slot] = al_pc]
          /\ al_live' = (al_live \ {Held}) \cup {<<al_pc, Step.heap>>}
          /\ al_wrong' = (al_wrong \/ (al_slot[Step.slot] # None /\ Held \notin al_live))
          /\ UNCHANGED al_lost
       \/ /\ al_slot' = [al_slot EXCEPT ![Step.slot] = None]
          /\ al_lost' = al_lost \cup ({Held} \cap al_live)
          /\ UNCHANGED <<al_live, al_wrong>>
    /\ UNCHANGED al_plugin

AlNext == AlTake \/ AlGive \/ AlRealloc

AlSpec == AlInit /\ [][AlNext]_alVars

AlDone == al_pc > Len(Steps)

-----------------------------------------------------------------------------
(* Properties *)

\* Whatever could not be had, nothing is given back that is not held or to
\* another heap than it was taken from; every block is held by one slot, but
\* those a failed realloc lost, which their heap still has; there is one
\* session with the secure module at a time; at the end all is given back,
\* except the heap KernelCustomMalloc keeps.
BlocksOwned ==
    /\ ~al_wrong
    /\ \A b \in al_live :
          IF b \in al_lost THEN b[2] = "own" /\ There("own")
          ELSE Cardinality({s \in Slot : al_slot[s] = b[1]}) = 1
    /\ al_plugin = "idstorage" => Cardinality(al_live) =< 1
    /\ AlDone => \A b \in al_live : al_plugin = "custom" /\ b[2] = "root"

=============================================================================
