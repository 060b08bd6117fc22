------------------------------- MODULE Dumpers -------------------------------
(***************************************************************************)
(* The plugins that dump something small to a drive each time they are     *)
(* started: slb2_dumper, idstorage_raw_dumper, nvs_dumper,                 *)
(* idstorage_dumper and visible_id_dumper.  All choose the drive in the    *)
(* same way, and leave out what is there already.                          *)
(*                                                                         *)
(* One action is one file, directory or chunk.  Data is counted in units;  *)
(* unit i of a source s is <<s, i>>.  A file is <<drive, of what, name>>.  *)
(*                                                                         *)
(* External: a call may fail; a write stores a part of what it is given;   *)
(* power may go at any moment; what is dumped does not change; a file is   *)
(* created only in a directory that exists; a read or a seek that fails    *)
(* does not move the position, a seek behind the end may fail.             *)
(***************************************************************************)
EXTENDS Integers, Sequences, SequencesExt

CONSTANTS DpSize,     \* source -> its length
          DpLargest,  \* 0xFFFFFFFF, the largest size of a copy
          SlbHeader,  \* "ina", "act" -> entries of the header [name, pos, size]
          Sector, Chunk,   \* 0x200 and BUFFER_SIZE
          NvsSecure,  \* how much of the NVS cannot be read
          Leaves,     \* the leaves of the idstorage
          DpMaxStarts, DpMaxFails  \* bounds on starts and on failures

Sloader == {"ina", "act"}
Source == Sloader \cup {"idstor", "nvs", "vid", "leaf"}
SlbEntry == [name : STRING, pos : Nat, size : Nat]

\* slb2_size: the last entry, filled up to a sector.
SlbEnd(h) ==
    LET e == h[Len(h)] IN
    Sector * e.pos + Sector * ((e.size + Sector - 1) \div Sector)

\* A header describes its partition.  An entry is not called what the image,
\* its directory and its hash are called here: they have paths of their own.
SlbFits(p) ==
    LET h == SlbHeader[p] IN
    /\ h # <<>> /\ SlbEnd(h) =< DpSize[p]
    /\ \A i \in DOMAIN h : /\ h[i].name \notin {"bin", "dir", "sha256"}
                            /\ Sector * h[i].pos + h[i].size =< DpSize[p]
    /\ \A i, j \in DOMAIN h : h[i].name = h[j].name => i = j

ASSUME DumpersAssumption ==
    /\ DpSize \in [Source -> Nat]
    /\ DpLargest \in Nat /\ Sector \in Nat \ {0} /\ Chunk \in Nat \ {0} /\ NvsSecure \in Nat
    /\ SlbHeader \in [Sloader -> Seq(SlbEntry)]
    /\ \A p \in Sloader : SlbFits(p) /\ DpSize[p] >= Sector
    /\ Leaves \in Seq(STRING)
    /\ DpMaxStarts \in Nat /\ DpMaxFails \in Nat

Zero == <<"zero", 0>>
DpUnit == (Source \cup {"zero"}) \X Nat
NoSource == <<>>
NoCopy == [to |-> NoSource, from |-> <<>>, at |-> 0, left |-> 0]

VARIABLES
    dp_plugin,  \* which of the plugins this is
    dp_file,    \* the files and directories there are -> their content
    dp_pc, dp_drv,
    dp_jobs,    \* what is still to be dumped
    dp_entries, \* what is left of the directory that is filled
    dp_copy,    \* write_file_from_fd: where to, what from, what is left
    dp_starts, dp_fails,
    dp_kept,    \* history: the files there when this start began
    dp_ran,     \* history: a start got to its end on dp_drv
    dp_astray   \* history: the entries made after a seek that failed

dpVars == <<dp_plugin, dp_file, dp_pc, dp_drv, dp_jobs, dp_entries, dp_copy,
            dp_starts, dp_fails, dp_kept, dp_ran, dp_astray>>

Preference == <<"host0", "sd0", "ux0">>

Jobs == [slb2  |-> <<<<"ina", "bin">>, <<"act", "bin">>, <<"ina", "dir">>, <<"act", "dir">>>>,
         raw   |-> <<<<"idstor", "bin">>>>,
         nvs   |-> <<<<"nvs", "data">>>>,
         leafs |-> <<<<"leaf", "leafs">>>>,
         vid   |-> <<<<"vid", "id">>>>]

Data(s) == [i \in 1..DpSize[s] |-> <<s, i>>]

DpTypeOK ==
    /\ dp_plugin \in DOMAIN Jobs
    /\ \A f \in DOMAIN dp_file : dp_file[f] \in Seq(DpUnit)
    /\ dp_pc \in {"off", "job", "copy", "sha256", "extraction", "entry", "leaf"}
    /\ dp_drv \in Range(Preference)
    /\ dp_copy.left \in Nat /\ dp_copy.at \in Nat
    /\ dp_starts \in 0..DpMaxStarts /\ dp_fails \in 0..DpMaxFails
    /\ dp_ran \in BOOLEAN /\ dp_astray \subseteq DOMAIN dp_file

Job == Head(dp_jobs)
NameOf(of, name) == <<dp_drv, of, name>>
Exists(of, name) == NameOf(of, name) \in DOMAIN dp_file
Bin(p) == dp_file[NameOf(p, "bin")]

Put(f, content) ==
    dp_file' = [g \in DOMAIN dp_file \cup {f} |-> IF g = f THEN content ELSE dp_file[g]]

\* A call fails that the environment lets fail.
Fails == dp_fails < DpMaxFails /\ dp_fails' = dp_fails + 1
Works == UNCHANGED dp_fails

NextJob == dp_pc' = "job" /\ dp_jobs' = Tail(dp_jobs) /\ dp_entries' = <<>>

\* write_file: the file is not created, or holds a part of the data.
write_file(f, data) ==
    \/ Fails /\ UNCHANGED dp_file
    \/ \E k \in 0..Len(data) :
          /\ Put(f, SubSeq(data, 1, k))
          /\ IF k = Len(data) THEN Works ELSE Fails

-----------------------------------------------------------------------------
DpInit ==
    /\ dp_plugin \in DOMAIN Jobs
    /\ dp_file = <<>> /\ dp_pc = "off" /\ dp_drv = "host0" /\ dp_jobs = <<>>
    /\ dp_entries = <<>> /\ dp_copy = NoCopy
    /\ dp_starts = 0 /\ dp_fails = 0 /\ dp_kept = {} /\ dp_ran = FALSE
    /\ dp_astray = {}

\* The first drive that is mounted; without one, or without a thread, the start
\* does nothing.
DpStart ==
    /\ dp_pc = "off" /\ dp_starts < DpMaxStarts
    /\ dp_starts' = dp_starts + 1 /\ dp_kept' = DOMAIN dp_file /\ dp_ran' = FALSE
    /\ \/ Fails /\ UNCHANGED <<dp_pc, dp_drv, dp_jobs>>
       \/ \E mounted \in SUBSET Range(Preference), i \in DOMAIN Preference :
             /\ Preference[i] \in mounted /\ \A j \in 1..(i - 1) : Preference[j] \notin mounted
             /\ dp_drv' = Preference[i]
             /\ dp_pc' = "job" /\ dp_jobs' = Jobs[dp_plugin] /\ Works
    /\ UNCHANGED <<dp_plugin, dp_file, dp_entries, dp_copy, dp_astray>>

DpFinish ==
    /\ dp_pc = "job" /\ dp_jobs = <<>>
    /\ dp_pc' = "off" /\ dp_ran' = TRUE
    /\ UNCHANGED <<dp_plugin, dp_file, dp_drv, dp_jobs, dp_entries, dp_copy, dp_starts,
                   dp_fails, dp_kept, dp_astray>>

\* Mistake: an empty file does not count as a dump that was made.
Bug_Dumped(job) ==
    CASE job[2] \in {"dir", "leafs"} -> Exists(job[1], "dir")
      [] job[2] \in {"bin", "data"} -> Exists(job[1], "bin") /\ Bin(job[1]) # <<>>
      [] OTHER -> FALSE

\* What ksceIoGetstat finds is not dumped again.
Dumped(job) ==
    CASE job[2] \in {"dir", "leafs"} -> Exists(job[1], "dir")
      [] job[2] \in {"bin", "data"} -> Exists(job[1], "bin")
      [] OTHER -> FALSE

DpSkip ==
    /\ dp_pc = "job" /\ dp_jobs # <<>> /\ Dumped(Job)
    /\ NextJob
    /\ UNCHANGED <<dp_plugin, dp_file, dp_drv, dp_copy,
                   dp_starts, dp_fails, dp_kept, dp_ran, dp_astray>>

ToDo(kind) == dp_pc = "job" /\ dp_jobs # <<>> /\ ~Dumped(Job) /\ Job[2] = kind

\* A device is copied when its size fits the count of the copy.
Measured(p) == DpSize[p] =< DpLargest

\* slb2_dump, part_dump: the device cannot be opened or its end not be found, or
\* the file not be created, or the copy begins.  When the seek back to the
\* beginning fails, the first read does.
slb2_dump ==
    LET p == Job[1]
        f == NameOf(p, "bin") IN
    /\ ToDo("bin")
    /\ \/ Fails /\ NextJob /\ UNCHANGED <<dp_file, dp_copy>>
       \/ ~Measured(p) /\ Works /\ NextJob /\ UNCHANGED <<dp_file, dp_copy>>
       \/ /\ Measured(p) /\ Works /\ Put(f, <<>>) /\ dp_pc' = "copy"
          /\ dp_copy' = [to |-> f, from |-> Data(p), at |-> 0, left |-> DpSize[p]]
          /\ UNCHANGED <<dp_jobs, dp_entries>>
    /\ UNCHANGED <<dp_plugin, dp_drv, dp_starts, dp_kept, dp_ran, dp_astray>>

\* Where a read of n units leaves the position.
ReadTo(image, at, n) ==
    IF at + n =< Len(image) THEN at + n ELSE IF at > Len(image) THEN at ELSE Len(image)

\* The end of write_file_from_fd, which returns 0 however it ends: the next
\* entry or the next partition.
CopyEnds(at) ==
    \/ /\ dp_entries # <<>>
       /\ dp_pc' = "entry" /\ dp_entries' = Tail(dp_entries) /\ UNCHANGED dp_jobs
       /\ dp_copy' = [dp_copy EXCEPT !.at = at]
    \/ dp_entries = <<>> /\ NextJob /\ dp_copy' = NoCopy

\* Mistake: the copy goes on after a write that stored a part.
Bug_CopyChunk(n, here) ==
    \E k \in 0..n :
       /\ Put(dp_copy.to, dp_file[dp_copy.to] \o SubSeq(here, 1, k))
       /\ dp_copy' = [dp_copy EXCEPT !.at = @ + n, !.left = @ - n]
       /\ UNCHANGED <<dp_pc, dp_jobs, dp_entries>>
       /\ IF k = n THEN Works ELSE Fails

CopyChunk(n, here) ==
    \E k \in 0..n :
       /\ Put(dp_copy.to, dp_file[dp_copy.to] \o SubSeq(here, 1, k))
       /\ IF k = n
          THEN /\ dp_copy' = [dp_copy EXCEPT !.at = @ + n, !.left = @ - n]
               /\ Works /\ UNCHANGED <<dp_pc, dp_jobs, dp_entries>>
          ELSE Fails /\ CopyEnds(dp_copy.at + n)

\* Mistake: what is left after the loop is copied as a whole chunk too.
Bug_ChunkOf(left) == IF left > 0 THEN Chunk ELSE 0

ChunkOf(left) == IF left >= Chunk THEN Chunk ELSE left

\* One round of the loop of write_file_from_fd, or what is left after it.
write_file_from_fd ==
    LET n == ChunkOf(dp_copy.left)
        here == SubSeq(dp_copy.from, dp_copy.at + 1, dp_copy.at + n) IN
    /\ dp_pc = "copy"
    /\ \/ n = 0 /\ CopyEnds(dp_copy.at) /\ Works /\ UNCHANGED dp_file
       \/ n > 0 /\ Fails /\ CopyEnds(dp_copy.at) /\ UNCHANGED dp_file
       \/ /\ n > 0 /\ dp_copy.at + n > Len(dp_copy.from)
          /\ CopyEnds(ReadTo(dp_copy.from, dp_copy.at, n)) /\ Works /\ UNCHANGED dp_file
       \/ n > 0 /\ dp_copy.at + n =< Len(dp_copy.from) /\ CopyChunk(n, here)
    /\ UNCHANGED <<dp_plugin, dp_drv, dp_starts, dp_kept, dp_ran, dp_astray>>

\* slb2_dump_main: the result of ksceIoMkdir is not looked at.
DpMkdir ==
    /\ ToDo("dir") /\ dp_pc' = "sha256"
    /\ \/ Fails /\ UNCHANGED dp_file
       \/ Works /\ Put(NameOf(Job[1], "dir"), <<>>)
    /\ UNCHANGED <<dp_plugin, dp_drv, dp_jobs, dp_entries,
                   dp_copy, dp_starts, dp_kept, dp_ran, dp_astray>>

\* What slb2_header may hold before it is read: what an earlier call left of a
\* header, or no magic (<<>>).
Stack == {<<>>} \cup {SlbHeader[q] : q \in Sloader}

\* What it holds after a read that works.
Headers(p) == IF Len(Bin(p)) >= Sector THEN {SlbHeader[p]} ELSE Stack

\* What get_sha256_from_fd makes of the first units of the image.
HashOf(p, end) == IF end =< Len(Bin(p)) THEN <<<<p, end>>>> ELSE <<Zero>>

\* slb2_check_sha256: the hash, one unit, is written whether it was made or not
\* (Zero, also when the seek before it fails).  Neither the result of reading
\* the header is looked at.
slb2_check_sha256 ==
    LET p == Job[1]
        f == NameOf(p, "sha256") IN
    /\ dp_pc = "sha256" /\ dp_pc' = "extraction"
    /\ \/ Exists(p, "bin") /\ Fails /\ UNCHANGED dp_file
       \/ ~Exists(p, "bin") /\ Works /\ UNCHANGED dp_file
       \/ /\ Exists(p, "bin")
          /\ \E h \in Headers(p) :
                \/ h = <<>> /\ Works /\ UNCHANGED dp_file
                \/ h # <<>> /\ write_file(f, HashOf(p, SlbEnd(h)))
       \/ /\ Exists(p, "bin") /\ Fails
          /\ \E h \in Stack \ {<<>>} : Put(f, HashOf(p, SlbEnd(h))) \/ Put(f, <<Zero>>)
    /\ UNCHANGED <<dp_plugin, dp_drv, dp_jobs, dp_entries,
                   dp_copy, dp_starts, dp_kept, dp_ran, dp_astray>>

slb2_extraction ==
    LET p == Job[1] IN
    /\ dp_pc = "extraction"
    /\ \/ ~Exists(p, "bin") /\ Works /\ NextJob /\ UNCHANGED dp_copy
       \/ Exists(p, "bin") /\ Fails /\ NextJob /\ UNCHANGED dp_copy
       \/ /\ Exists(p, "bin")
          /\ \E h \in Stack, at \in {0, ReadTo(Bin(p), 0, Sector)} :
                /\ \/ Works /\ h \in Headers(p) /\ at = ReadTo(Bin(p), 0, Sector)
                   \/ Fails /\ h # <<>> /\ at = 0
                /\ IF h = <<>> THEN NextJob /\ UNCHANGED dp_copy
                   ELSE /\ dp_pc' = "entry" /\ dp_entries' = h /\ UNCHANGED dp_jobs
                        /\ dp_copy' = [dp_copy EXCEPT !.at = at]
    /\ UNCHANGED <<dp_plugin, dp_file, dp_drv, dp_starts, dp_kept, dp_ran, dp_astray>>

\* The seek to an entry, whose result is not looked at: when it fails the copy
\* begins where the last one ended.
SlbSeek(p, e, f) ==
    LET From(at) ==
          dp_copy' = [to |-> f, from |-> Bin(p), at |-> at, left |-> e.size] IN
    \/ From(Sector * e.pos) /\ Works /\ dp_astray' = dp_astray \ {f}
    \/ /\ From(dp_copy.at) /\ dp_astray' = dp_astray \cup {f}
       /\ Fails \/ (Sector * e.pos > Len(Bin(p)) /\ Works)

\* One round of the loop over the entries of the header.  A file that cannot be
\* created is written to all the same, which ends the copy.
DpEntry ==
    LET p == Job[1]
        e == Head(dp_entries)
        f == NameOf(p, e.name)
        n == ChunkOf(e.size) IN
    /\ dp_pc = "entry"
    /\ \/ /\ dp_entries = <<>> /\ NextJob /\ dp_copy' = NoCopy
          /\ Works /\ UNCHANGED <<dp_file, dp_astray>>
       \/ /\ dp_entries # <<>> /\ Exists(p, "dir") /\ SlbSeek(p, e, f)
          /\ Put(f, <<>>) /\ dp_pc' = "copy"
          /\ UNCHANGED <<dp_jobs, dp_entries>>
       \/ /\ dp_entries # <<>> /\ (IF Exists(p, "dir") THEN Fails ELSE Works)
          /\ \E at \in {Sector * e.pos, dp_copy.at} :
                dp_copy' = [dp_copy EXCEPT !.at = ReadTo(Bin(p), at, n)]
          /\ dp_entries' = Tail(dp_entries) /\ UNCHANGED <<dp_pc, dp_jobs, dp_file, dp_astray>>
    /\ UNCHANGED <<dp_plugin, dp_drv, dp_starts, dp_kept, dp_ran>>

\* nvs_dumper: a row that cannot be read is left zero.
NvsBuffer(read) ==
    [i \in 1..DpSize["nvs"] |-> IF i > NvsSecure /\ i \in read THEN <<"nvs", i>> ELSE Zero]

DpNvs ==
    /\ ToDo("data") /\ NextJob
    /\ \/ Fails /\ UNCHANGED dp_file
       \/ write_file(NameOf("nvs", "bin"), NvsBuffer(1..DpSize["nvs"]))
       \/ \E r \in 1..DpSize["nvs"] :
             /\ Fails
             /\ Put(NameOf("nvs", "bin"), NvsBuffer(1..DpSize["nvs"] \ {r}))
    /\ UNCHANGED <<dp_plugin, dp_drv, dp_copy, dp_starts, dp_kept, dp_ran, dp_astray>>

\* visible_id_dumper: the file is named for the id, which is zero when it could
\* not be read.
DpVisible ==
    /\ ToDo("id") /\ NextJob
    /\ \/ Exists("vid", "bin") /\ Works /\ UNCHANGED dp_file
       \/ ~Exists("vid", "bin") /\ write_file(NameOf("vid", "bin"), Data("vid"))
       \/ /\ Fails
          /\ IF Exists("vid", "zero") THEN UNCHANGED dp_file
             ELSE Put(NameOf("vid", "zero"), [i \in 1..DpSize["vid"] |-> Zero])
    /\ UNCHANGED <<dp_plugin, dp_drv, dp_copy, dp_starts, dp_kept, dp_ran, dp_astray>>

\* idstorage_dumper: without a buffer or a directory there is no dump.
DpLeafs ==
    /\ ToDo("leafs")
    /\ \/ Fails /\ NextJob /\ UNCHANGED dp_file
       \/ /\ Works /\ Put(NameOf("leaf", "dir"), <<>>)
          /\ dp_pc' = "leaf" /\ dp_entries' = Leaves /\ UNCHANGED dp_jobs
    /\ UNCHANGED <<dp_plugin, dp_drv, dp_copy, dp_starts, dp_kept, dp_ran, dp_astray>>

DpLeaf ==
    /\ dp_pc = "leaf"
    /\ \/ dp_entries = <<>> /\ NextJob /\ Works /\ UNCHANGED dp_file
       \/ /\ dp_entries # <<>>
          /\ write_file(NameOf("leaf", Head(dp_entries)), Data("leaf"))
          /\ dp_entries' = Tail(dp_entries) /\ UNCHANGED <<dp_pc, dp_jobs>>
    /\ UNCHANGED <<dp_plugin, dp_drv, dp_copy, dp_starts, dp_kept, dp_ran, dp_astray>>

DpPowerOff ==
    /\ dp_pc # "off" /\ Fails
    /\ dp_pc' = "off" /\ dp_jobs' = <<>> /\ dp_entries' = <<>> /\ dp_copy' = NoCopy
    /\ UNCHANGED <<dp_plugin, dp_file, dp_drv, dp_starts, dp_kept, dp_ran, dp_astray>>

DpStep ==
    \/ DpStart \/ DpFinish \/ DpSkip \/ slb2_dump \/ write_file_from_fd
    \/ DpMkdir \/ slb2_check_sha256 \/ slb2_extraction \/ DpEntry
    \/ DpNvs \/ DpVisible \/ DpLeafs \/ DpLeaf

DpNext == DpStep \/ DpPowerOff

DpSpec == DpInit /\ [][DpNext]_dpVars

-----------------------------------------------------------------------------
(* Properties *)

Region(p, e) == [i \in 1..e.size |-> <<p, Sector * e.pos + i>>]

Whole(p) ==
    /\ Exists(p, "bin") /\ Bin(p) = Data(p)
    /\ p \in Sloader =>
          /\ dp_file[NameOf(p, "sha256")] = <<<<p, SlbEnd(SlbHeader[p])>>>>
          /\ \A e \in Range(SlbHeader[p]) : dp_file[NameOf(p, e.name)] = Region(p, e)

\* Units of the partition p one behind the other.
Consecutive(p, s) == \A i \in DOMAIN s : s[i] = <<p, s[1][2] + i - 1>>

\* What is in the files of a partition is a beginning of the partition and of
\* its entries, through failures and restarts, with files cut short read for a
\* header and for data; only where the seek to an entry failed it is another
\* stretch of the partition, no longer than the entry.  A start that got to its
\* end when nothing ever failed leaves all of what can be measured, and the
\* hash of what is there.
SlbPieces ==
    /\ \A f \in DOMAIN dp_file :
          f[2] \in Sloader \cup {"idstor"} =>
             \/ f[3] \in {"dir", "sha256"}
             \/ f[3] = "bin" /\ Measured(f[2]) /\ IsPrefix(dp_file[f], Data(f[2]))
             \/ \E q \in Sloader : \E e \in Range(SlbHeader[q]) :
                   /\ e.name = f[3]
                   /\ \/ IsPrefix(dp_file[f], Region(f[2], e))
                      \/ /\ f \in dp_astray /\ Len(dp_file[f]) =< e.size
                         /\ Consecutive(f[2], dp_file[f])
    /\ dp_ran /\ dp_fails = 0 =>
          \A job \in Range(Jobs[dp_plugin]) :
             job[2] = "bin" /\ Measured(job[1]) => Whole(job[1])

\* What an earlier start left is not changed, however little of it there is: a
\* file of a partition, an entry, a leaf, an id or the NVS.
SlbKeeps ==
    [][\A f \in dp_kept \cap DOMAIN dp_file :
          f[3] # "sha256" => f \in DOMAIN dp_file' /\ dp_file'[f] = dp_file[f]]_dpVars

=============================================================================
