------------------------------- MODULE Corelock -------------------------------
(***************************************************************************)
(* kernel/CorelockSample: a thread on each of four cores takes a core lock *)
(* for core 0 and gives it back.                                           *)
(*                                                                         *)
(* External: ksceKernelCorelockLock(ctx, 0) waits until all the cores have *)
(* called it; then core 0 goes on, and the others when core 0 has given    *)
(* the lock back.  The context counts from ksceKernelCorelockInitialize on.*)
(***************************************************************************)
EXTENDS Naturals

Core == 0..3

VARIABLES
    cl_made,    \* the threads of the other cores that could be created
    cl_pc,      \* core -> where its thread is
    cl_waiting, \* the cores that called ksceKernelCorelockLock
    cl_free     \* core 0 called ksceKernelCorelockUnlock

clVars == <<cl_made, cl_pc, cl_waiting, cl_free>>

ClTypeOK ==
    /\ cl_made \subseteq Core
    /\ cl_pc \in [Core -> {"none", "init", "start", "delay", "lock", "wait", "hold", "end"}]
    /\ cl_waiting \subseteq Core
    /\ cl_free \in BOOLEAN

ClInit ==
    /\ \E some \in SUBSET {1, 2, 3} : cl_made = some \cup {0}
    /\ \E first \in {"init", "end"} : cl_pc = [c \in Core |-> IF c = 0 THEN first ELSE "none"]
    /\ cl_waiting = {} /\ cl_free = FALSE

Goes(c, from, to) == cl_pc[c] = from /\ cl_pc' = [cl_pc EXCEPT ![c] = to]

\* module_start starts the threads and then runs on as the thread of core 0.
\* A module_start on another core returns at once.
ClStart ==
    /\ cl_pc[0] = "init"
    /\ cl_pc' = [c \in Core |-> IF c \in cl_made THEN "start" ELSE "none"]
    /\ cl_waiting' = {} /\ cl_free' = FALSE
    /\ UNCHANGED cl_made

\* Core 1 is late.
ClBegin(c) ==
    /\ \/ c = 1 /\ Goes(c, "start", "delay")
       \/ c = 1 /\ Goes(c, "delay", "lock")
       \/ c # 1 /\ Goes(c, "start", "lock")
    /\ UNCHANGED <<cl_made, cl_waiting, cl_free>>

ClLock(c) ==
    /\ Goes(c, "lock", "wait")
    /\ cl_waiting' = cl_waiting \cup {c}
    /\ UNCHANGED <<cl_made, cl_free>>

MayPass(c) == cl_waiting = Core /\ (c = 0 \/ cl_free)

ClPass(c) ==
    /\ MayPass(c) /\ Goes(c, "wait", "hold")
    /\ UNCHANGED <<cl_made, cl_waiting, cl_free>>

\* Mistake: the thread of core 0 keeps the lock.
Bug_ClUnlock(c) ==
    /\ Goes(c, "hold", "end")
    /\ UNCHANGED <<cl_made, cl_waiting, cl_free>>

\* Core 0 gives the lock back after five seconds.
ClUnlock(c) ==
    /\ Goes(c, "hold", "end")
    /\ cl_free' = (cl_free \/ c = 0)
    /\ UNCHANGED <<cl_made, cl_waiting>>

ClCore(c) == ClBegin(c) \/ ClLock(c) \/ ClPass(c) \/ ClUnlock(c)

ClNext == ClStart \/ \E c \in Core : ClCore(c)

ClSpec == ClInit /\ [][ClNext]_clVars

-----------------------------------------------------------------------------

\* module_start returned, and so did the threads it made.
ClDone == cl_pc[0] = "end" /\ \A c \in cl_made : cl_pc[c] \in {"none", "end"}

=============================================================================
