------------------------------ MODULE EmmcDumper ------------------------------
(***************************************************************************)
(* kernel/emmc_dumper: one thread copies the partitions of the eMMC, one   *)
(* after the other, to files in the directory emmc of a drive, and leaves  *)
(* out those whose file is there already.                                  *)
(*                                                                         *)
(* One action is one system call that can fail or store something.  Data   *)
(* is counted in units, unit i of a partition being i itself; Fill is what *)
(* a file holds where chstat made room and nothing has been written.       *)
(*                                                                         *)
(* External: a call may fail; a write that fails may have stored any part  *)
(* of its data; power may go at any moment, and what a call that returned  *)
(* has stored stays; ksceIoGetstat fails only on what does not exist; the  *)
(* partitions do not change while they are copied.                         *)
(***************************************************************************)
EXTENDS Naturals, Sequences

CONSTANTS Part,        \* number of partitions in the list of emmc_dump_main
          DeviceSize,  \* their sizes
          BUFFER_SIZE,
          MaxSize,     \* the largest size a SceSize holds, 0xFFFFFFFF
          EmMaxStarts,   \* bound on the starts of the plugin
          Fill, NULL

Parts == 1..Part

ASSUME DumperAssumption ==
    /\ Part \in Nat /\ BUFFER_SIZE \in Nat \ {0}
    /\ MaxSize \in Nat /\ EmMaxStarts \in Nat \ {0}
    /\ DeviceSize \in [Parts -> Nat]
    /\ Fill \notin Nat /\ NULL \notin Seq(Nat \cup {Fill})

Drive == {"host0", "sd0", "ux0"}

VARIABLES
    drives,  \* those mounted during this start
    dirs,    \* those with a directory emmc
    file,    \* <<drive, partition>> -> the content of its file, NULL when none
    pc,      \* the call that comes next
    drv,     \* the drive this start dumps to
    part,    \* the partition it is at
    size,    \* what is left to copy
    at,      \* the position of read_fd, and of fd when it is to be read next
    buf,     \* what was read last
    starts,  \* how often the plugin was started
    failed,  \* history: a call of this start failed
    spoiled  \* history: the files whose copy a failure or a crash cut short

emVars == <<drives, dirs, file, pc, drv, part, size, at, buf, starts, failed, spoiled>>

Here == <<drv, part>>
Target == Drive \X Parts
EmSteps == {"drive", "getstat", "part_dump", "open", "chstat", "read", "write", "end"}

EmTypeOK ==
    /\ drives \subseteq Drive
    /\ dirs \subseteq Drive
    /\ file \in [Target -> {NULL} \cup Seq(Nat \cup {Fill})]
    /\ pc \in EmSteps
    /\ drv \in Drive
    /\ part \in 1..(Part + 1)
    /\ size \in Nat
    /\ at \in Nat
    /\ buf \in Seq(Nat)
    /\ starts \in 1..EmMaxStarts
    /\ failed \in BOOLEAN
    /\ spoiled \subseteq Target

Begin ==
    /\ drives' \in SUBSET Drive
    /\ pc' = "drive"
    /\ drv' = "ux0" /\ part' = 1 /\ size' = 0 /\ at' = 0 /\ buf' = <<>>
    /\ failed' = FALSE

EmInit ==
    /\ drives \in SUBSET Drive
    /\ dirs = {}
    /\ file = [t \in Target |-> NULL]
    /\ pc = "drive"
    /\ drv = "ux0" /\ part = 1 /\ size = 0 /\ at = 0 /\ buf = <<>>
    /\ starts = 1
    /\ failed = FALSE
    /\ spoiled = {}

-----------------------------------------------------------------------------
(* emmc_dump_main *)

\* host0:, or else sd0:, or else ux0:, which is not looked for.
Chosen == IF "host0" \in drives THEN "host0"
          ELSE IF "sd0" \in drives THEN "sd0" ELSE "ux0"

\* The directory is looked for on the drive and made when it is not there.
ChooseDrive ==
    /\ pc = "drive"
    /\ drv' = Chosen
    /\ \/ /\ Chosen \in drives
          /\ dirs' = dirs \cup {Chosen}
          /\ pc' = "getstat"
          /\ UNCHANGED failed
       \/ /\ Chosen \notin dirs \cap drives
          /\ pc' = "end"      \* SCE_KERNEL_START_FAILED
          /\ failed' = TRUE
          /\ UNCHANGED dirs
    /\ UNCHANGED <<drives, file, part, size, at, buf, starts, spoiled>>

\* Mistake: the first file that is there ends the dump.
Bug_GetstatEnds ==
    /\ pc = "getstat"
    /\ pc' = IF part > Part \/ file[Here] # NULL THEN "end" ELSE "part_dump"
    /\ UNCHANGED <<drives, dirs, file, drv, part, size, at, buf, starts, failed, spoiled>>

\* Mistake: a file that is there is dumped again.
Bug_GetstatIgnored ==
    /\ pc = "getstat"
    /\ pc' = IF part > Part THEN "end" ELSE "part_dump"
    /\ UNCHANGED <<drives, dirs, file, drv, part, size, at, buf, starts, failed, spoiled>>

Getstat ==
    /\ pc = "getstat"
    /\ \/ part > Part /\ pc' = "end" /\ UNCHANGED part
       \/ part <= Part /\ file[Here] # NULL /\ part' = part + 1 /\ UNCHANGED pc
       \/ part <= Part /\ file[Here] = NULL /\ pc' = "part_dump" /\ UNCHANGED part
    /\ UNCHANGED <<drives, dirs, file, drv, size, at, buf, starts, failed, spoiled>>

\* The result of part_dump is not looked at.
NextPart == pc' = "getstat" /\ part' = part + 1
GiveUp == NextPart /\ failed' = TRUE

-----------------------------------------------------------------------------
(* part_dump and write_file_from_fd *)

\* Open the partition and ask for its size.
part_dump ==
    /\ pc = "part_dump"
    /\ \/ GiveUp /\ UNCHANGED <<size, at>>
       \/ DeviceSize[part] > MaxSize /\ NextPart /\ UNCHANGED <<size, at, failed>>
       \/ /\ DeviceSize[part] <= MaxSize
          /\ pc' = "open"
          /\ size' = DeviceSize[part]
          /\ at' = 0
          /\ UNCHANGED <<part, failed>>
    /\ UNCHANGED <<drives, dirs, file, drv, buf, starts, spoiled>>

OpenFile ==
    /\ pc = "open"
    /\ \/ GiveUp /\ UNCHANGED file
       \/ /\ file' = [file EXCEPT ![Here] = <<>>]
          /\ pc' = "chstat"
          /\ UNCHANGED <<part, failed>>
    /\ UNCHANGED <<drives, dirs, drv, size, at, buf, starts, spoiled>>

\* The whole file is made room for before anything is written.
ChstatByFd ==
    /\ pc = "chstat"
    /\ \/ /\ GiveUp
          /\ spoiled' = spoiled \cup {Here}
          /\ UNCHANGED file
       \/ /\ file' = [file EXCEPT ![Here] = [i \in 1..size |-> Fill]]
          /\ pc' = "read"
          /\ UNCHANGED <<part, failed, spoiled>>
    /\ UNCHANGED <<drives, dirs, drv, size, at, buf, starts>>

\* Mistake: what is less than a whole buffer is left out.
Bug_WholeBuffersOnly == IF size >= BUFFER_SIZE THEN BUFFER_SIZE ELSE 0

\* What the next turn of the loop copies, or the rest after it.
Amount == IF size >= BUFFER_SIZE THEN BUFFER_SIZE ELSE size

Read ==
    /\ pc = "read"
    /\ \/ Amount = 0 /\ NextPart /\ UNCHANGED <<at, buf, failed, spoiled>>
       \/ /\ Amount > 0
          /\ buf' = [i \in 1..Amount |-> at + i]
          /\ at' = at + Amount
          /\ pc' = "write"
          /\ UNCHANGED <<part, failed, spoiled>>
       \/ /\ Amount > 0
          /\ GiveUp
          /\ spoiled' = spoiled \cup {Here}
          /\ UNCHANGED <<at, buf>>
    /\ UNCHANGED <<drives, dirs, file, drv, size, starts>>

\* The first n units of the buffer reach the file.
Stored(n) ==
    [i \in DOMAIN file[Here] |->
        LET k == i - (at - Len(buf))
        IN  IF i > at - Len(buf) /\ k <= n THEN buf[k] ELSE file[Here][i]]

\* Mistake: the copy goes on after a write that failed.
Bug_WriteUnchecked ==
    /\ pc = "write"
    /\ \E n \in 0..Len(buf) :
          /\ file' = [file EXCEPT ![Here] = Stored(n)]
          /\ failed' = (failed \/ n < Len(buf))
          /\ spoiled' = IF n < Len(buf) THEN spoiled \cup {Here} ELSE spoiled
    /\ size' = size - Len(buf)
    /\ pc' = "read"
    /\ UNCHANGED <<drives, dirs, drv, part, at, buf, starts>>

Write ==
    /\ pc = "write"
    /\ \/ /\ file' = [file EXCEPT ![Here] = Stored(Len(buf))]
          /\ size' = size - Len(buf)
          /\ pc' = "read"
          /\ UNCHANGED <<part, failed, spoiled>>
       \/ /\ \E n \in 0..(Len(buf) - 1) : file' = [file EXCEPT ![Here] = Stored(n)]
          /\ GiveUp
          /\ spoiled' = spoiled \cup {Here}
          /\ UNCHANGED size
    /\ UNCHANGED <<drives, dirs, drv, at, buf, starts>>

-----------------------------------------------------------------------------
(* External: power goes, or the plugin has ended; it is started again. *)

Copying == pc \in {"chstat", "read", "write"}

Start ==
    /\ starts < EmMaxStarts
    /\ starts' = starts + 1
    /\ spoiled' = IF Copying THEN spoiled \cup {Here} ELSE spoiled
    /\ \/ UNCHANGED file
       \/ /\ pc = "write"
          /\ \E n \in 1..Len(buf) : file' = [file EXCEPT ![Here] = Stored(n)]
    /\ Begin
    /\ UNCHANGED dirs

-----------------------------------------------------------------------------

\* What the plugin's thread does while the power stays on.
EmStep ==
    ChooseDrive \/ Getstat \/ part_dump \/ OpenFile \/ ChstatByFd \/ Read \/ Write

EmNext == EmStep \/ Start

EmSpec == EmInit /\ [][EmNext]_emVars

-----------------------------------------------------------------------------
(* Properties *)

\* A file of n units that begins with the first k units of its partition.
Copied(n, k) == [i \in 1..n |-> IF i <= k THEN i ELSE Fill]

Complete(t) == file[t] = Copied(DeviceSize[t[2]], DeviceSize[t[2]])

\* Whatever failed and whenever the power went, a file holds the beginning of
\* its partition at its place and nothing after it: no unit is skipped, moved
\* or taken twice.
PrefixThenFill ==
    \A t \in Target : file[t] # NULL =>
        \E k \in 0..Len(file[t]) : file[t] = Copied(Len(file[t]), k)

\* A file whose copy nothing cut short is the whole partition, once the dump
\* has gone on from it.
UncutIsComplete ==
    \A t \in Target \ spoiled :
        file[t] # NULL /\ ~(Copying /\ t = Here) => Complete(t)

\* A start in which no call fails leaves a file for every partition that a
\* SceSize can measure, whatever earlier starts got done.
StartReachesAll ==
    pc = "end" /\ ~failed =>
        \A p \in Parts : DeviceSize[p] <= MaxSize => file[<<drv, p>>] # NULL

\* A dump that is complete stays as it is through every later start.
CompleteStays ==
    [][\A t \in Target : Complete(t) => file'[t] = file[t]]_emVars

=============================================================================
