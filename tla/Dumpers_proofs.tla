---------------------------- MODULE Dumpers_proofs ----------------------------
(***************************************************************************)
(* Proofs about the dumpers, for every drive, header and size, through any *)
(* failures and restarts: an earlier dump is not written to, what is in a  *)
(* file is a beginning of what it is named for, and a start that nothing   *)
(* disturbed leaves all of it.                                             *)
(***************************************************************************)
EXTENDS Dumpers, SequenceTheorems, TLAPS

-----------------------------------------------------------------------------
(* Dumpers: types, and where a start stands *)

\* A function on the first numbers is a sequence.
LEMMA FunctionSeq ==
    ASSUME NEW S, NEW n \in Nat, NEW s \in [1..n -> S]
    PROVE  s \in Seq(S) /\ Len(s) = n
OBVIOUS

\* The jobs there are, and the names of what is dumped.
JobPair == UNION {Range(Jobs[p]) : p \in DOMAIN Jobs}
DpDrive == Range(Preference)
HeaderEntry == UNION {Range(SlbHeader[p]) : p \in Sloader}
DpPlain == {"bin", "dir", "sha256", "zero"} \cup Range(Leaves) \cup {e.name : e \in HeaderEntry}
DpName == DpDrive \X Source \X DpPlain
Content == Seq(DpUnit)
CopyRecord == [to : DpName \cup {NoSource}, from : Content, at : Nat, left : Nat]

\* A file of a directory is there with its directory.
InDirectory(f) == (f[2] \in Sloader /\ f[3] \notin {"bin", "sha256"}) \/ f[2] = "leaf"
Housed(S) == \A f \in S : InDirectory(f) => <<f[1], f[2], "dir">> \in S

DpFiles ==
    /\ \A f \in DOMAIN dp_file : f \in DpName /\ dp_file[f] \in Content
    /\ dp_kept \subseteq DOMAIN dp_file
    /\ Housed(DOMAIN dp_file) /\ Housed(dp_kept)

\* The directory of the job is made, or was to be.
InDir == dp_pc \in {"sha256", "extraction", "entry"} \/ (dp_pc = "copy" /\ dp_entries # <<>>)

\* What is written to in a step is no file of an earlier start.
DpPlaced ==
    /\ dp_pc \in {"off", "job", "sha256", "extraction"} => dp_entries = <<>>
    /\ dp_pc = "leaf" => /\ dp_entries \in Seq(Range(Leaves)) /\ dp_jobs # <<>> /\ Job[2] = "leafs"
                         /\ Exists("leaf", "dir") /\ NameOf("leaf", "dir") \notin dp_kept
    /\ InDir => /\ dp_jobs # <<>> /\ Job[2] = "dir" /\ NameOf(Job[1], "dir") \notin dp_kept
                /\ dp_entries \in Seq(HeaderEntry)
    /\ dp_pc \in {"entry", "copy"} => Exists(Job[1], "bin")
    /\ dp_pc = "copy" =>
          /\ dp_jobs # <<>> /\ dp_copy.to \in DOMAIN dp_file \ dp_kept
          /\ dp_entries = <<>> => Job[2] = "bin" /\ dp_copy.to = NameOf(Job[1], "bin")
          /\ dp_entries # <<>> => /\ dp_copy.to = NameOf(Job[1], Head(dp_entries).name)
                                  /\ Exists(Job[1], "dir")

DpScalars ==
    /\ dp_plugin \in DOMAIN Jobs
    /\ dp_pc \in {"off", "job", "copy", "sha256", "extraction", "entry", "leaf"}
    /\ dp_drv \in DpDrive
    /\ dp_copy \in CopyRecord
    /\ dp_starts \in 0..DpMaxStarts /\ dp_fails \in 0..DpMaxFails
    /\ dp_ran \in BOOLEAN

DpInv == DpScalars /\ dp_jobs \in Seq(JobPair) /\ DpFiles /\ DpPlaced

\* A job is one of eight.
LEMMA JobIs ==
    ASSUME NEW j \in JobPair
    PROVE  /\ j[1] \in Source
           /\ j[2] \in {"bin", "dir", "data", "leafs", "id"}
           /\ j[2] = "dir" => j[1] \in Sloader
           /\ j[2] = "bin" => j[1] \in Sloader \cup {"idstor"}
           /\ j[2] = "leafs" => j[1] = "leaf"
           /\ j[2] = "data" => j[1] = "nvs"
<1>1. PICK p \in DOMAIN Jobs : j \in Range(Jobs[p])
  BY DEF JobPair
<1>2. p \in {"slb2", "raw", "nvs", "leafs", "vid"}
  BY DEF Jobs
<1>3. PICK i \in DOMAIN Jobs[p] : j = Jobs[p][i]
  BY <1>1 DEF Range
<1>4. CASE p = "slb2"
  BY <1>3, <1>4 DEF Jobs, Source, Sloader
<1>5. CASE p = "raw"
  BY <1>3, <1>5 DEF Jobs, Source, Sloader
<1>6. CASE p = "nvs"
  BY <1>3, <1>6 DEF Jobs, Source, Sloader
<1>7. CASE p = "leafs"
  BY <1>3, <1>7 DEF Jobs, Source, Sloader
<1>8. CASE p = "vid"
  BY <1>3, <1>8 DEF Jobs, Source, Sloader
<1>. QED
  BY <1>2, <1>4, <1>5, <1>6, <1>7, <1>8

LEMMA ListOfFour ==
    ASSUME NEW S, NEW a \in S, NEW b \in S, NEW c \in S, NEW d \in S
    PROVE  <<a, b, c, d>> \in Seq(S)
OBVIOUS

LEMMA ListOfOne ==
    ASSUME NEW S, NEW a \in S
    PROVE  <<a>> \in Seq(S)
OBVIOUS

LEMMA JobsTyped ==
    ASSUME NEW p \in DOMAIN Jobs
    PROVE  Jobs[p] \in Seq(JobPair)
<1>1. Range(Jobs[p]) \subseteq JobPair
  BY DEF JobPair
<1>2. p \in {"slb2", "raw", "nvs", "leafs", "vid"}
  BY DEF Jobs
<1>3. CASE p = "slb2"
  <2>1. Jobs[p] = <<<<"ina", "bin">>, <<"act", "bin">>, <<"ina", "dir">>, <<"act", "dir">>>>
    BY <1>3 DEF Jobs
  <2>2. /\ <<"ina", "bin">> \in JobPair /\ <<"act", "bin">> \in JobPair
        /\ <<"ina", "dir">> \in JobPair /\ <<"act", "dir">> \in JobPair
    BY <1>1, <2>1 DEF Range
  <2>. QED
    BY <2>1, <2>2, ListOfFour
<1>4. CASE p # "slb2"
  <2>1. PICK a, b : Jobs[p] = <<<<a, b>>>>
    BY <1>2, <1>4 DEF Jobs
  <2>2. <<a, b>> \in JobPair
    BY <1>1, <2>1 DEF Range
  <2>. QED
    BY <2>1, <2>2, ListOfOne
<1>. QED
  BY <1>3, <1>4

LEMMA JobTyped ==
    ASSUME dp_jobs \in Seq(JobPair), dp_jobs # <<>>
    PROVE  Job \in JobPair /\ Tail(dp_jobs) \in Seq(JobPair)
BY DEF Job

\* What the dumpers write.
LEMMA DataTyped ==
    ASSUME NEW s \in Source
    PROVE  /\ DpSize[s] \in Nat /\ Data(s) \in Content /\ Len(Data(s)) = DpSize[s]
           /\ \A i \in 1..DpSize[s] : Data(s)[i] = <<s, i>>
<1>1. DpSize[s] \in Nat
  BY DumpersAssumption DEF DumpersAssumption
<1>3. \A i \in 1..DpSize[s] : <<s, i>> \in DpUnit
  BY <1>1 DEF DpUnit
<1>4. Data(s) \in [1..DpSize[s] -> DpUnit]
  BY <1>3 DEF Data
<1>. QED
  BY <1>1, <1>4, FunctionSeq DEF Data, Content

\* What Put does to the files.
LEMMA PutIs ==
    ASSUME NEW f, NEW c, Put(f, c)
    PROVE  /\ DOMAIN dp_file' = DOMAIN dp_file \cup {f} /\ dp_file'[f] = c
           /\ \A g \in DOMAIN dp_file : g # f => dp_file'[g] = dp_file[g]
BY DEF Put

\* A file that is created has its directory.
Room(f) == InDirectory(f) => <<f[1], f[2], "dir">> \in DOMAIN dp_file \cup {f}

LEMMA PutFiles ==
    ASSUME DpFiles, NEW f \in DpName, NEW c \in Content, Put(f, c), Room(f), dp_kept' = dp_kept
    PROVE  DpFiles'
<1>1. DOMAIN dp_file' = DOMAIN dp_file \cup {f}
  BY PutIs
<1>2. \A g \in DOMAIN dp_file' : g \in DpName /\ dp_file'[g] \in Content
  BY <1>1, PutIs DEF DpFiles
<1>3. Housed(DOMAIN dp_file)' /\ Housed(dp_kept)'
  BY <1>1 DEF DpFiles, Housed, Room
<1>. QED
  BY <1>1, <1>2, <1>3 DEF DpFiles

LEMMA KeepFiles == DpFiles /\ UNCHANGED <<dp_file, dp_kept>> => DpFiles'
BY DEF DpFiles, Housed

\* A call that works or fails keeps to the bound on failures.
LEMMA FailsTyped ==
    ASSUME DpScalars, Fails \/ Works
    PROVE  dp_fails' \in 0..DpMaxFails
BY DumpersAssumption DEF DumpersAssumption, DpScalars, Fails, Works

LEMMA WriteFiles ==
    ASSUME DpScalars, DpFiles, NEW f \in DpName, NEW data \in Content, write_file(f, data), Room(f),
           dp_kept' = dp_kept
    PROVE  /\ DpFiles' /\ (Fails \/ Works)
           /\ UNCHANGED dp_file \/ \E k \in 0..Len(data) : Put(f, SubSeq(data, 1, k))
<1>1. CASE Fails /\ UNCHANGED dp_file
  BY <1>1, KeepFiles
<1>2. ASSUME NEW k \in 0..Len(data), Put(f, SubSeq(data, 1, k)),
             IF k = Len(data) THEN Works ELSE Fails
      PROVE  DpFiles' /\ (Fails \/ Works)
  <2>1. SubSeq(data, 1, k) \in Content
    BY DEF Content
  <2>. QED
    BY <1>2, <2>1, PutFiles
<1>. QED
  BY <1>1, <1>2 DEF write_file

LEMMA NextJobPlaced ==
    ASSUME dp_jobs \in Seq(JobPair), dp_jobs # <<>>, NextJob
    PROVE  dp_jobs' \in Seq(JobPair) /\ DpPlaced' /\ dp_pc' = "job"
<1>1. dp_jobs' \in Seq(JobPair)
  BY JobTyped DEF NextJob
<1>2. dp_pc' = "job" /\ dp_entries' = <<>>
  BY DEF NextJob
<1>. QED
  BY <1>1, <1>2 DEF DpPlaced, InDir

LEMMA NameTyped ==
    ASSUME DpScalars, NEW of \in Source, NEW name \in DpPlain
    PROVE  /\ NameOf(of, name) \in DpName
           /\ NameOf(of, name)[1] = dp_drv /\ NameOf(of, name)[2] = of /\ NameOf(of, name)[3] = name
BY DEF DpScalars, NameOf, DpName

LEMMA PlainNames == {"bin", "dir", "sha256", "zero"} \subseteq DpPlain
BY DEF DpPlain

LEMMA NoCopyTyped == NoCopy \in CopyRecord
<1>1. <<>> \in Content
  BY DEF Content
<1>. QED
  BY <1>1 DEF NoCopy, CopyRecord

LEMMA ReadToTyped ==
    ASSUME NEW image \in Content, NEW at \in Nat, NEW n \in Nat
    PROVE  ReadTo(image, at, n) \in Nat
<1>1. Len(image) \in Nat
  BY DEF Content
<1>. QED
  BY <1>1 DEF ReadTo

\* The same copy at another position.
LEMMA AtTyped ==
    ASSUME dp_copy \in CopyRecord, NEW at \in Nat
    PROVE  [dp_copy EXCEPT !.at = at] \in CopyRecord
BY DEF CopyRecord

LEMMA InitInv == DpInit => DpInv
<1>. SUFFICES ASSUME DpInit PROVE DpInv
  OBVIOUS
<1>1. DpScalars
  <2>1. "host0" \in DpDrive
    BY DEF DpDrive, Preference, Range
  <2>3. dp_copy \in CopyRecord
    BY NoCopyTyped DEF DpInit
  <2>4. dp_starts \in 0..DpMaxStarts /\ dp_fails \in 0..DpMaxFails
    BY DumpersAssumption DEF DumpersAssumption, DpInit
  <2>. QED
    BY <2>1, <2>3, <2>4 DEF DpInit, DpScalars
<1>2. DpFiles
  BY DEF DpInit, DpFiles, Housed
<1>3. dp_jobs \in Seq(JobPair) /\ DpPlaced
  BY DEF DpInit, DpPlaced, InDir
<1>. QED
  BY <1>1, <1>2, <1>3 DEF DpInv

LEMMA StartInv == ASSUME DpInv, DpStart PROVE DpInv'
<1>1. DpFiles'
  BY DEF DpStart, DpInv, DpFiles
<1>2. dp_jobs' \in Seq(JobPair)
  BY JobsTyped DEF DpStart, DpInv, DpScalars
<1>3. dp_drv' \in DpDrive /\ dp_pc' \in {"off", "job"}
  BY DEF DpStart, DpInv, DpScalars, DpDrive, Range
<1>4. DpScalars'
  <2>1. dp_fails' \in 0..DpMaxFails
    BY FailsTyped DEF DpStart, DpInv
  <2>2. dp_starts' \in 0..DpMaxStarts
    BY DumpersAssumption DEF DumpersAssumption, DpStart, DpInv, DpScalars
  <2>. QED
    BY <1>3, <2>1, <2>2 DEF DpStart, DpInv, DpScalars
<1>5. DpPlaced'
  BY <1>3 DEF DpStart, DpInv, DpPlaced, InDir
<1>. QED
  BY <1>1, <1>2, <1>4, <1>5 DEF DpInv

LEMMA FinishInv == ASSUME DpInv, DpFinish PROVE DpInv'
<1>1. DpFiles'
  BY KeepFiles DEF DpFinish, DpInv
<1>2. DpScalars' /\ dp_jobs' \in Seq(JobPair)
  BY DEF DpFinish, DpInv, DpScalars
<1>3. DpPlaced'
  BY DEF DpFinish, DpInv, DpPlaced, InDir
<1>. QED
  BY <1>1, <1>2, <1>3 DEF DpInv

LEMMA SkipInv == ASSUME DpInv, DpSkip PROVE DpInv'
<1>1. DpFiles'
  BY KeepFiles DEF DpSkip, DpInv
<1>2. dp_jobs' \in Seq(JobPair) /\ DpPlaced' /\ dp_pc' = "job"
  BY NextJobPlaced DEF DpSkip, DpInv
<1>3. DpScalars'
  BY <1>2 DEF DpSkip, DpInv, DpScalars
<1>. QED
  BY <1>1, <1>2, <1>3 DEF DpInv

LEMMA PowerOffInv == ASSUME DpInv, DpPowerOff PROVE DpInv'
<1>1. DpFiles'
  BY KeepFiles DEF DpPowerOff, DpInv
<1>2. dp_fails' \in 0..DpMaxFails
  BY FailsTyped DEF DpPowerOff, DpInv
<1>3. DpScalars' /\ dp_jobs' \in Seq(JobPair)
  BY <1>2, NoCopyTyped DEF DpPowerOff, DpInv, DpScalars
<1>4. DpPlaced'
  BY DEF DpPowerOff, DpPlaced, InDir
<1>. QED
  BY <1>1, <1>3, <1>4 DEF DpInv

\* What is to do is not there.
LEMMA ToDoIs ==
    ASSUME DpInv, NEW kind, ToDo(kind)
    PROVE  /\ dp_pc = "job" /\ dp_jobs # <<>> /\ Job \in JobPair /\ Job[2] = kind
           /\ kind \in {"dir", "leafs"} => NameOf(Job[1], "dir") \notin DOMAIN dp_file
           /\ kind \in {"bin", "data"} => NameOf(Job[1], "bin") \notin DOMAIN dp_file
           /\ dp_kept \subseteq DOMAIN dp_file /\ dp_entries = <<>>
<1>1. dp_pc = "job" /\ dp_jobs # <<>> /\ ~Dumped(Job) /\ Job[2] = kind
  BY DEF ToDo
<1>2. Job \in JobPair
  BY <1>1, JobTyped DEF DpInv
<1>3. /\ kind \in {"dir", "leafs"} => NameOf(Job[1], "dir") \notin DOMAIN dp_file
      /\ kind \in {"bin", "data"} => NameOf(Job[1], "bin") \notin DOMAIN dp_file
  BY <1>1 DEF Dumped, Exists
<1>. QED
  BY <1>1, <1>2, <1>3 DEF DpInv, DpFiles, DpPlaced

LEMMA DumpInv == ASSUME DpInv, slb2_dump PROVE DpInv'
<1>. DEFINE p == Job[1]
            f == NameOf(p, "bin")
<1>1. /\ dp_pc = "job" /\ dp_jobs # <<>> /\ Job \in JobPair /\ Job[2] = "bin"
      /\ f \notin DOMAIN dp_file /\ dp_kept \subseteq DOMAIN dp_file /\ dp_entries = <<>>
  BY ToDoIs DEF slb2_dump
<1>2. p \in Source /\ p # "leaf" /\ f \in DpName /\ f[2] = p /\ f[3] = "bin"
  BY <1>1, JobIs, NameTyped, PlainNames DEF DpInv, Source, Sloader
<1>3. DpSize[p] \in Nat /\ Data(p) \in Content
  BY <1>2, DataTyped
<1>4. UNCHANGED <<dp_plugin, dp_drv, dp_starts, dp_kept, dp_ran>> /\ dp_fails' \in 0..DpMaxFails
  BY FailsTyped DEF slb2_dump, DpInv
<1>5. CASE NextJob /\ UNCHANGED <<dp_file, dp_copy>>
  <2>1. DpFiles'
    BY <1>4, <1>5, KeepFiles DEF DpInv
  <2>2. dp_jobs' \in Seq(JobPair) /\ DpPlaced' /\ dp_pc' = "job"
    BY <1>1, <1>5, NextJobPlaced DEF DpInv
  <2>3. DpScalars'
    BY <1>4, <1>5, <2>2 DEF DpInv, DpScalars
  <2>. QED
    BY <2>1, <2>2, <2>3 DEF DpInv
<1>6. CASE /\ Put(f, <<>>) /\ dp_pc' = "copy"
           /\ dp_copy' = [to |-> f, from |-> Data(p), at |-> 0, left |-> DpSize[p]]
           /\ UNCHANGED <<dp_jobs, dp_entries>>
  <2>1. <<>> \in Content
    BY DEF Content
  <2>2. Room(f)
    BY <1>2 DEF Room, InDirectory
  <2>3. DpFiles'
    BY <1>2, <1>4, <1>6, <2>1, <2>2, PutFiles DEF DpInv
  <2>4. DpScalars'
    BY <1>2, <1>3, <1>4, <1>6 DEF DpInv, DpScalars, CopyRecord
  <2>5. DpPlaced'
    <3>1. f \in DOMAIN dp_file'
      BY <1>6, PutIs
    <3>2. NameOf(Job[1], "bin")' = f /\ Job' = Job
      BY <1>4, <1>6 DEF NameOf, Job
    <3>3. Exists(Job[1], "bin")'
      BY <1>4, <1>6, <3>1, <3>2 DEF Exists, NameOf
    <3>. QED
      BY <1>1, <1>4, <1>6, <3>1, <3>2, <3>3 DEF DpPlaced, InDir
  <2>. QED
    BY <1>6, <2>3, <2>4, <2>5 DEF DpInv
<1>. QED
  BY <1>5, <1>6 DEF slb2_dump

\* In the directory of a job the job is one of a partition.
LEMMA InDirIs ==
    ASSUME DpInv, InDir
    PROVE  /\ dp_jobs # <<>> /\ Job \in JobPair /\ Job[1] \in Sloader /\ Job[1] \in Source
           /\ NameOf(Job[1], "dir") \notin dp_kept /\ dp_entries \in Seq(HeaderEntry)
           /\ dp_kept \subseteq DOMAIN dp_file
<1>1. /\ dp_jobs # <<>> /\ Job[2] = "dir" /\ NameOf(Job[1], "dir") \notin dp_kept
      /\ dp_entries \in Seq(HeaderEntry)
  BY DEF DpInv, DpPlaced
<1>2. Job \in JobPair
  BY <1>1, JobTyped DEF DpInv
<1>. QED
  BY <1>1, <1>2, JobIs DEF Source, DpInv, DpFiles

LEMMA HeaderIs ==
    ASSUME NEW e \in HeaderEntry
    PROVE  /\ e \in SlbEntry /\ e.name \notin {"bin", "dir", "sha256"} /\ e.name \in DpPlain
           /\ e.pos \in Nat /\ e.size \in Nat /\ Sector * e.pos \in Nat
<1>1. PICK p \in Sloader : e \in Range(SlbHeader[p])
  BY DEF HeaderEntry
<1>2. SlbHeader[p] \in Seq(SlbEntry) /\ SlbFits(p)
  BY DumpersAssumption DEF DumpersAssumption
<1>3. PICK i \in DOMAIN SlbHeader[p] : e = SlbHeader[p][i]
  BY <1>1 DEF Range
<1>4. e \in SlbEntry
  BY <1>2, <1>3
<1>5. e.name \notin {"bin", "dir", "sha256"}
  BY <1>2, <1>3 DEF SlbFits
<1>6. e.name \in DpPlain
  BY DEF DpPlain
<1>7. Sector \in Nat
  BY DumpersAssumption DEF DumpersAssumption
<1>. QED
  BY <1>4, <1>5, <1>6, <1>7 DEF SlbEntry

LEMMA StackTyped ==
    ASSUME NEW h \in Stack
    PROVE  h \in Seq(HeaderEntry) /\ (h # <<>> => \E q \in Sloader : h = SlbHeader[q])
<1>1. h = <<>> \/ \E q \in Sloader : h = SlbHeader[q]
  BY DEF Stack
<1>2. ASSUME NEW q \in Sloader PROVE SlbHeader[q] \in Seq(HeaderEntry)
  <2>1. SlbHeader[q] \in Seq(SlbEntry)
    BY DumpersAssumption DEF DumpersAssumption
  <2>2. \A i \in 1..Len(SlbHeader[q]) : SlbHeader[q][i] \in HeaderEntry
    BY <2>1 DEF HeaderEntry, Range
  <2>. QED
    BY <2>1, <2>2
<1>3. <<>> \in Seq(HeaderEntry)
  OBVIOUS
<1>. QED
  BY <1>1, <1>2, <1>3

LEMMA HeadersStack == \A p \in Sloader : Headers(p) \subseteq Stack
BY DEF Headers, Stack

\* The end of what a header describes is a number of units.
LEMMA SlbEndTyped ==
    ASSUME NEW q \in Sloader
    PROVE  SlbEnd(SlbHeader[q]) \in Nat
<1>1. /\ SlbHeader[q] \in Seq(SlbEntry) /\ SlbHeader[q] # <<>>
      /\ Sector \in Nat \ {0}
  BY DumpersAssumption DEF DumpersAssumption, SlbFits
<1>. DEFINE e == SlbHeader[q][Len(SlbHeader[q])]
<1>2. e \in SlbEntry
  <2>1. Len(SlbHeader[q]) \in 1..Len(SlbHeader[q])
    BY <1>1
  <2>. QED
    BY <1>1, <2>1
<1>3. e.pos \in Nat /\ e.size \in Nat
  BY <1>2 DEF SlbEntry
<1>. HIDE DEF e
<1>4. (e.size + Sector - 1) \div Sector \in Nat
  <2>1. \A a \in Nat, b \in Nat \ {0} : a \div b \in Nat
    OBVIOUS
  <2>2. e.size + Sector - 1 \in Nat
    BY <1>1, <1>3
  <2>. QED
    BY <1>1, <2>1, <2>2
<1>5. Sector * e.pos \in Nat /\ Sector * ((e.size + Sector - 1) \div Sector) \in Nat
  BY <1>1, <1>3, <1>4
<1>. QED
  BY <1>5 DEF SlbEnd, e

\* The copy ends with the job or goes on with the next entry.
LEMMA CopyEndsPlaced ==
    ASSUME DpInv, dp_pc = "copy", NEW at \in Nat, CopyEnds(at), UNCHANGED dp_drv, DpFiles',
           DOMAIN dp_file \subseteq DOMAIN dp_file', dp_kept' = dp_kept
    PROVE  /\ dp_jobs' \in Seq(JobPair) /\ DpPlaced' /\ dp_pc' \in {"job", "entry"}
           /\ dp_copy' \in CopyRecord
<1>1. dp_copy' \in CopyRecord /\ dp_jobs # <<>>
  BY NoCopyTyped, AtTyped DEF CopyEnds, DpInv, DpPlaced, DpScalars
<1>2. CASE dp_entries = <<>>
  <2>1. NextJob
    BY <1>2 DEF CopyEnds
  <2>. QED
    BY <1>1, <2>1, NextJobPlaced DEF DpInv
<1>3. CASE dp_entries # <<>>
  <2>1. InDir
    BY <1>3 DEF InDir
  <2>2. /\ Job[2] = "dir" /\ NameOf(Job[1], "dir") \notin dp_kept /\ dp_entries \in Seq(HeaderEntry)
    BY <2>1 DEF DpInv, DpPlaced
  <2>3. dp_pc' = "entry" /\ dp_entries' = Tail(dp_entries) /\ dp_jobs' = dp_jobs
    BY <1>3 DEF CopyEnds
  <2>4. Job' = Job /\ NameOf(Job[1], "dir")' = NameOf(Job[1], "dir")
    BY <2>3 DEF Job, NameOf
  <2>5. dp_entries' \in Seq(HeaderEntry)
    BY <1>3, <2>2, <2>3
  <2>6. Exists(Job[1], "bin")'
    BY <2>4 DEF Exists, NameOf, DpInv, DpPlaced
  <2>. QED
    BY <1>1, <2>2, <2>3, <2>4, <2>5, <2>6 DEF DpPlaced, InDir, DpInv
<1>. QED
  BY <1>2, <1>3

\* A chunk that is read, and what is left of it when a part is stored.
LEMMA ChunkTyped ==
    ASSUME NEW left \in Nat
    PROVE  /\ ChunkOf(left) \in 0..left /\ ChunkOf(left) \in Nat
           /\ ChunkOf(left) = 0 => left = 0
BY DumpersAssumption DEF DumpersAssumption, ChunkOf

LEMMA PartOf ==
    ASSUME NEW S, NEW s \in Seq(S), NEW k \in 0..Len(s)
    PROVE  /\ SubSeq(s, 1, k) \in Seq(S) /\ Len(SubSeq(s, 1, k)) = k
           /\ \A i \in 1..k : SubSeq(s, 1, k)[i] = s[i]
OBVIOUS

LEMMA ChunkRead ==
    ASSUME NEW S, NEW s \in Seq(S), NEW at \in Nat, NEW n \in Nat, at + n =< Len(s)
    PROVE  /\ SubSeq(s, at + 1, at + n) \in Seq(S) /\ Len(SubSeq(s, at + 1, at + n)) = n
           /\ \A i \in 1..n : SubSeq(s, at + 1, at + n)[i] = s[at + i]
OBVIOUS

LEMMA CopyInv == ASSUME DpInv, write_file_from_fd PROVE DpInv'
<1>. DEFINE n == ChunkOf(dp_copy.left)
            here == SubSeq(dp_copy.from, dp_copy.at + 1, dp_copy.at + n)
            f == dp_copy.to
<1>1. /\ dp_pc = "copy" /\ f \in DOMAIN dp_file \ dp_kept /\ f \in DpName
      /\ dp_copy.from \in Content /\ dp_copy.at \in Nat /\ dp_copy.left \in Nat
      /\ dp_file[f] \in Content
  BY DEF write_file_from_fd, DpInv, DpScalars, DpPlaced, DpFiles, CopyRecord
<1>2. n \in 0..dp_copy.left /\ n \in Nat
  BY <1>1, ChunkTyped
<1>3. UNCHANGED <<dp_plugin, dp_drv, dp_starts, dp_kept, dp_ran>>
  BY DEF write_file_from_fd
<1>4. ASSUME NEW at \in Nat, CopyEnds(at), UNCHANGED dp_file, Fails \/ Works
      PROVE  DpInv'
  <2>1. DpFiles'
    BY <1>3, <1>4, KeepFiles DEF DpInv
  <2>2. /\ dp_jobs' \in Seq(JobPair) /\ DpPlaced' /\ dp_pc' \in {"job", "entry"}
        /\ dp_copy' \in CopyRecord
    BY <1>1, <1>3, <1>4, <2>1, CopyEndsPlaced
  <2>3. dp_fails' \in 0..DpMaxFails
    BY <1>4, FailsTyped DEF DpInv
  <2>4. DpScalars'
    BY <1>3, <2>2, <2>3 DEF DpInv, DpScalars
  <2>. QED
    BY <2>1, <2>2, <2>4 DEF DpInv
<1>5. ASSUME n > 0, dp_copy.at + n =< Len(dp_copy.from), CopyChunk(n, here)
      PROVE  DpInv'
  <2>1. PICK k \in 0..n :
           /\ Put(f, dp_file[f] \o SubSeq(here, 1, k))
           /\ IF k = n
              THEN /\ dp_copy' = [dp_copy EXCEPT !.at = @ + n, !.left = @ - n]
                   /\ Works /\ UNCHANGED <<dp_pc, dp_jobs, dp_entries>>
              ELSE Fails /\ CopyEnds(dp_copy.at + n)
    BY <1>5 DEF CopyChunk
  <2>2. SubSeq(here, 1, k) \in Content
    <3>. HIDE DEF n
    <3>0. n \in Nat /\ dp_copy.from \in Seq(DpUnit)
      BY <1>1, <1>2 DEF Content
    <3>. DEFINE s == dp_copy.from
                i == dp_copy.at
    <3>a. s \in Seq(DpUnit) /\ i \in Nat /\ i + n =< Len(s)
      BY <1>1, <1>5, <3>0
    <3>. HIDE DEF s, i
    <3>b. SubSeq(s, i + 1, i + n) \in Seq(DpUnit) /\ Len(SubSeq(s, i + 1, i + n)) = n
      BY <3>0, <3>a, ChunkRead
    <3>1. here \in Seq(DpUnit) /\ Len(here) = n
      BY <3>b DEF s, i
    <3>. HIDE DEF here
    <3>. QED
      BY <1>2, <3>1, PartOf DEF Content
  <2>3. dp_file[f] \o SubSeq(here, 1, k) \in Content
    BY <1>1, <2>2, ConcatProperties DEF Content
  <2>. HIDE DEF n, here
  <2>4. Room(f)
    BY <1>1 DEF Room, DpInv, DpFiles, Housed
  <2>5. DpFiles' /\ DOMAIN dp_file' = DOMAIN dp_file
    <3>1. Put(f, dp_file[f] \o SubSeq(here, 1, k))
      BY <2>1
    <3>2. dp_kept' = dp_kept
      BY <1>3
    <3>3. DpFiles'
      BY <1>1, <2>3, <2>4, <3>1, <3>2, PutFiles DEF DpInv
    <3>4. DOMAIN dp_file' = DOMAIN dp_file \cup {f}
      BY <3>1, PutIs
    <3>. QED
      BY <1>1, <3>3, <3>4
  <2>6. dp_fails' \in 0..DpMaxFails
    BY <2>1, FailsTyped DEF DpInv
  <2>7. CASE k = n
    <3>1. /\ dp_copy' = [dp_copy EXCEPT !.at = @ + n, !.left = @ - n]
          /\ UNCHANGED <<dp_pc, dp_jobs, dp_entries>>
      BY <2>1, <2>7
    <3>a. dp_copy.at + n \in Nat /\ dp_copy.left - n \in Nat
      BY <1>1, <1>2
    <3>2. dp_copy' \in CopyRecord /\ dp_copy'.to = f
      BY <1>1, <3>a, <3>1 DEF DpInv, DpScalars, CopyRecord
    <3>3. DpScalars'
      BY <1>3, <2>6, <3>1, <3>2 DEF DpInv, DpScalars
    <3>4. DpPlaced'
      <4>1. Job' = Job /\ \A of, name : NameOf(of, name)' = NameOf(of, name)
        BY <1>3, <3>1 DEF Job, NameOf
      <4>2. \A of, name : Exists(of, name)' = Exists(of, name)
        BY <2>5, <4>1 DEF Exists
      <4>. QED
        BY <1>1, <1>3, <2>5, <3>1, <3>2, <4>1, <4>2 DEF DpInv, DpPlaced, InDir
    <3>. QED
      BY <2>5, <3>1, <3>3, <3>4 DEF DpInv
  <2>8. CASE k # n
    <3>a. dp_copy.at + n \in Nat
      BY <1>1, <1>2
    <3>1. /\ dp_jobs' \in Seq(JobPair) /\ DpPlaced' /\ dp_pc' \in {"job", "entry"}
          /\ dp_copy' \in CopyRecord
      BY <1>1, <1>3, <2>1, <2>5, <2>8, <3>a, CopyEndsPlaced
    <3>2. DpScalars'
      BY <1>3, <2>6, <3>1 DEF DpInv, DpScalars
    <3>. QED
      BY <2>5, <3>1, <3>2 DEF DpInv
  <2>. QED
    BY <2>7, <2>8
<1>6. ReadTo(dp_copy.from, dp_copy.at, n) \in Nat
  <2>. HIDE DEF n
  <2>. QED
    BY <1>1, <1>2, ReadToTyped
<1>. QED
  BY <1>1, <1>4, <1>5, <1>6 DEF write_file_from_fd

LEMMA MkdirInv == ASSUME DpInv, DpMkdir PROVE DpInv'
<1>. DEFINE p == Job[1]
            f == NameOf(p, "dir")
<1>1. /\ dp_pc = "job" /\ dp_jobs # <<>> /\ Job \in JobPair /\ Job[2] = "dir"
      /\ f \notin DOMAIN dp_file /\ dp_kept \subseteq DOMAIN dp_file /\ dp_entries = <<>>
  BY ToDoIs DEF DpMkdir
<1>2. p \in Sloader /\ f \in DpName /\ f[1] = dp_drv /\ f[2] = p /\ f[3] = "dir"
  BY <1>1, JobIs, NameTyped, PlainNames DEF DpInv, Source
<1>3. UNCHANGED <<dp_plugin, dp_drv, dp_jobs, dp_entries, dp_copy, dp_starts, dp_kept, dp_ran>>
  BY DEF DpMkdir
<1>4. dp_pc' = "sha256" /\ dp_fails' \in 0..DpMaxFails
  BY FailsTyped DEF DpMkdir, DpInv
<1>5. DpFiles'
  <2>1. CASE UNCHANGED dp_file
    BY <1>3, <2>1, KeepFiles DEF DpInv
  <2>2. CASE Put(f, <<>>)
    <3>1. <<>> \in Content /\ Room(f)
      BY <1>2 DEF Content, Room, NameOf
    <3>. QED
      BY <1>2, <1>3, <2>2, <3>1, PutFiles DEF DpInv
  <2>. QED
    BY <2>1, <2>2 DEF DpMkdir
<1>6. DpScalars'
  BY <1>3, <1>4 DEF DpInv, DpScalars
<1>7. DpPlaced'
  <2>1. Job' = Job /\ NameOf(Job[1], "dir")' = f
    BY <1>3 DEF Job, NameOf
  <2>2. <<>> \in Seq(HeaderEntry)
    OBVIOUS
  <2>. QED
    BY <1>1, <1>3, <1>4, <2>1, <2>2 DEF DpPlaced, InDir
<1>. QED
  BY <1>3, <1>5, <1>6, <1>7 DEF DpInv

\* The hash is written beside the image.
LEMMA CheckInv == ASSUME DpInv, slb2_check_sha256 PROVE DpInv'
<1>. DEFINE p == Job[1]
            f == NameOf(p, "sha256")
<1>1. dp_pc = "sha256" /\ dp_pc' = "extraction" /\ InDir /\ dp_entries = <<>>
  BY DEF slb2_check_sha256, InDir, DpInv, DpPlaced
<1>2. /\ dp_jobs # <<>> /\ Job \in JobPair /\ p \in Sloader /\ p \in Source
      /\ NameOf(p, "dir") \notin dp_kept /\ Job[2] = "dir"
  BY <1>1, InDirIs DEF DpInv, DpPlaced
<1>3. f \in DpName /\ f[2] = p /\ f[3] = "sha256"
  BY <1>2, NameTyped, PlainNames DEF DpInv
<1>4. UNCHANGED <<dp_plugin, dp_drv, dp_jobs, dp_entries, dp_copy, dp_starts, dp_kept, dp_ran>>
  BY DEF slb2_check_sha256
<1>5. Room(f)
  BY <1>2, <1>3 DEF Room, InDirectory, Sloader
<1>6. /\ <<Zero>> \in Content
      /\ \A h \in Stack : h # <<>> => HashOf(p, SlbEnd(h)) \in Content
  <2>1. Zero \in DpUnit
    BY DEF Zero, DpUnit
  <2>2. ASSUME NEW h \in Stack, h # <<>> PROVE <<p, SlbEnd(h)>> \in DpUnit
    <3>1. SlbEnd(h) \in Nat
      BY <1>2, <2>2, StackTyped, SlbEndTyped
    <3>. QED
      BY <1>2, <3>1 DEF DpUnit
  <2>. QED
    BY <2>1, <2>2, ListOfOne DEF Content, HashOf
<1>7. DpFiles' /\ dp_fails' \in 0..DpMaxFails
  <2>1. CASE (Fails \/ Works) /\ UNCHANGED dp_file
    BY <1>4, <2>1, KeepFiles, FailsTyped DEF DpInv
  <2>2. ASSUME NEW h \in Headers(p), h # <<>>, write_file(f, HashOf(p, SlbEnd(h)))
        PROVE  DpFiles' /\ dp_fails' \in 0..DpMaxFails
    <3>1. h \in Stack
      BY <1>2, HeadersStack
    <3>. QED
      BY <1>3, <1>4, <1>5, <1>6, <2>2, <3>1, WriteFiles, FailsTyped DEF DpInv
  <2>3. ASSUME NEW h \in Stack \ {<<>>}, Fails, Put(f, HashOf(p, SlbEnd(h)))
        PROVE  DpFiles' /\ dp_fails' \in 0..DpMaxFails
    BY <1>3, <1>4, <1>5, <1>6, <2>3, PutFiles, FailsTyped DEF DpInv
  <2>4. CASE Fails /\ Put(f, <<Zero>>)
    BY <1>3, <1>4, <1>5, <1>6, <2>4, PutFiles, FailsTyped DEF DpInv
  <2>. QED
    BY <2>1, <2>2, <2>3, <2>4 DEF slb2_check_sha256
<1>8. DpScalars'
  BY <1>1, <1>4, <1>7 DEF DpInv, DpScalars
<1>9. DpPlaced'
  <2>1. Job' = Job /\ NameOf(Job[1], "dir")' = NameOf(p, "dir")
    BY <1>4 DEF Job, NameOf
  <2>2. <<>> \in Seq(HeaderEntry)
    OBVIOUS
  <2>. QED
    BY <1>1, <1>2, <1>4, <2>1, <2>2 DEF DpPlaced, InDir
<1>. QED
  BY <1>4, <1>7, <1>8, <1>9 DEF DpInv

LEMMA ExtractInv == ASSUME DpInv, slb2_extraction PROVE DpInv'
<1>. DEFINE p == Job[1]
<1>1. dp_pc = "extraction" /\ InDir
  BY DEF slb2_extraction, InDir
<1>2. /\ dp_jobs # <<>> /\ Job \in JobPair /\ p \in Sloader
      /\ NameOf(p, "dir") \notin dp_kept /\ Job[2] = "dir"
  BY <1>1, InDirIs DEF DpInv, DpPlaced
<1>3. UNCHANGED <<dp_plugin, dp_file, dp_drv, dp_starts, dp_kept, dp_ran>>
  BY DEF slb2_extraction
<1>4. DpFiles'
  BY <1>3, KeepFiles DEF DpInv
<1>5. dp_fails' \in 0..DpMaxFails
  BY FailsTyped DEF slb2_extraction, DpInv
<1>6. dp_jobs' \in Seq(JobPair) /\ DpPlaced' /\ dp_pc' \in {"job", "entry"}
  <2>1. CASE NextJob
    BY <1>2, <2>1, NextJobPlaced DEF DpInv
  <2>2. ASSUME NEW h \in Stack, dp_pc' = "entry", dp_entries' = h, UNCHANGED dp_jobs,
               Exists(p, "bin")
        PROVE  dp_jobs' \in Seq(JobPair) /\ DpPlaced' /\ dp_pc' \in {"job", "entry"}
    <3>1. /\ Job' = Job /\ NameOf(Job[1], "dir")' = NameOf(p, "dir")
          /\ Exists(p, "bin")'
      BY <1>3, <2>2 DEF Job, NameOf, Exists
    <3>2. h \in Seq(HeaderEntry)
      BY <1>2, StackTyped
    <3>. QED
      BY <1>2, <1>3, <2>2, <3>1, <3>2 DEF DpInv, DpPlaced, InDir
  <2>. QED
    BY <2>1, <2>2 DEF slb2_extraction
<1>7. dp_copy' \in CopyRecord
  <2>1. UNCHANGED dp_copy \/ \E at \in {0, ReadTo(Bin(p), 0, Sector)} :
                                 Exists(p, "bin") /\ dp_copy' = [dp_copy EXCEPT !.at = at]
    BY DEF slb2_extraction
  <2>2. Exists(p, "bin") => ReadTo(Bin(p), 0, Sector) \in Nat
    <3>1. Sector \in Nat
      BY DumpersAssumption DEF DumpersAssumption
    <3>2. Exists(p, "bin") => Bin(p) \in Content
      BY DEF Exists, Bin, DpInv, DpFiles
    <3>. QED
      BY <3>1, <3>2, ReadToTyped
  <2>. QED
    BY <2>1, <2>2, AtTyped DEF DpInv, DpScalars
<1>8. DpScalars'
  BY <1>3, <1>5, <1>6, <1>7 DEF DpInv, DpScalars
<1>. QED
  BY <1>4, <1>6, <1>8 DEF DpInv

LEMMA EntryInv == ASSUME DpInv, DpEntry PROVE DpInv'
<1>. DEFINE p == Job[1]
            e == Head(dp_entries)
            f == NameOf(p, e.name)
<1>1. dp_pc = "entry" /\ InDir
  BY DEF DpEntry, InDir
<1>2. /\ dp_jobs # <<>> /\ Job \in JobPair /\ p \in Sloader /\ p \in Source
      /\ NameOf(p, "dir") \notin dp_kept /\ Job[2] = "dir" /\ dp_entries \in Seq(HeaderEntry)
      /\ dp_kept \subseteq DOMAIN dp_file /\ Exists(p, "bin")
  BY <1>1, InDirIs DEF DpInv, DpPlaced
<1>3. UNCHANGED <<dp_plugin, dp_drv, dp_starts, dp_kept, dp_ran>> /\ dp_fails' \in 0..DpMaxFails
  BY FailsTyped DEF DpEntry, SlbSeek, DpInv
<1>4. CASE NextJob /\ dp_copy' = NoCopy /\ UNCHANGED dp_file
  <2>1. dp_jobs' \in Seq(JobPair) /\ DpPlaced' /\ dp_pc' = "job"
    BY <1>2, <1>4, NextJobPlaced DEF DpInv
  <2>2. DpScalars' /\ DpFiles'
    BY <1>3, <1>4, <2>1, KeepFiles, NoCopyTyped DEF DpInv, DpScalars
  <2>. QED
    BY <2>1, <2>2 DEF DpInv
<1>5. ASSUME NEW at \in {Sector * e.pos, dp_copy.at}, dp_entries # <<>>, Exists(p, "dir"),
             Put(f, <<>>), dp_pc' = "copy",
             dp_copy' = [to |-> f, from |-> Bin(p), at |-> at, left |-> e.size],
             UNCHANGED <<dp_jobs, dp_entries>>
      PROVE  DpInv'
  <2>1. e \in HeaderEntry
    BY <1>2, <1>5
  <2>2. /\ e.name \notin {"bin", "dir", "sha256"} /\ e.name \in DpPlain
        /\ at \in Nat /\ e.size \in Nat
    BY <2>1, HeaderIs DEF DpInv, DpScalars, CopyRecord
  <2>3. f \in DpName /\ f[1] = dp_drv /\ f[2] = p /\ f[3] = e.name
    BY <1>2, <2>2, NameTyped DEF DpInv
  <2>4. Room(f) /\ <<>> \in Content /\ Bin(p) \in Content
    BY <1>2, <1>5, <2>3 DEF Room, Content, Exists, NameOf, Bin, DpInv, DpFiles
  <2>5. DpFiles' /\ DOMAIN dp_file' = DOMAIN dp_file \cup {f}
    BY <1>3, <1>5, <2>3, <2>4, PutFiles, PutIs DEF DpInv
  <2>6. DpScalars'
    BY <1>3, <1>5, <2>2, <2>3, <2>4 DEF DpInv, DpScalars, CopyRecord
  <2>7. f \notin dp_kept
    BY <1>2, <2>2, <2>3 DEF DpInv, DpFiles, Housed, InDirectory, NameOf
  <2>8. DpPlaced'
    <3>1. Job' = Job /\ \A of, name : NameOf(of, name)' = NameOf(of, name)
      BY <1>3, <1>5 DEF Job, NameOf
    <3>2. Exists(p, "dir")' /\ Exists(p, "bin")'
      BY <1>2, <1>5, <2>5, <3>1 DEF Exists
    <3>. QED
      BY <1>2, <1>3, <1>5, <2>5, <2>7, <3>1, <3>2 DEF DpPlaced, InDir
  <2>. QED
    BY <1>5, <2>5, <2>6, <2>8 DEF DpInv
<1>6. ASSUME NEW at \in {Sector * e.pos, dp_copy.at},
             dp_entries # <<>>, dp_entries' = Tail(dp_entries),
             dp_copy' = [dp_copy EXCEPT !.at = ReadTo(Bin(p), at, ChunkOf(e.size))],
             UNCHANGED <<dp_pc, dp_jobs, dp_file>>
      PROVE  DpInv'
  <2>a. e \in HeaderEntry
    BY <1>2, <1>6
  <2>b. at \in Nat /\ e.size \in Nat
    BY <2>a, HeaderIs DEF DpInv, DpScalars, CopyRecord
  <2>c. Bin(p) \in Content /\ ChunkOf(e.size) \in Nat
    <3>1. Bin(p) \in Content
      BY <1>2 DEF Exists, Bin, DpInv, DpFiles
    <3>. QED
      BY <2>b, <3>1, ChunkTyped
  <2>d. dp_copy' \in CopyRecord
    BY <1>6, <2>b, <2>c, ReadToTyped, AtTyped DEF DpInv, DpScalars
  <2>1. DpFiles' /\ DpScalars'
    BY <1>3, <1>6, <2>d, KeepFiles DEF DpInv, DpScalars
  <2>2. dp_entries' \in Seq(HeaderEntry)
    BY <1>2, <1>6
  <2>3. /\ Job' = Job /\ NameOf(Job[1], "dir")' = NameOf(p, "dir")
        /\ Exists(p, "bin")'
    BY <1>2, <1>3, <1>6 DEF Job, NameOf, Exists
  <2>. QED
    BY <1>1, <1>2, <1>3, <1>6, <2>1, <2>2, <2>3 DEF DpInv, DpPlaced, InDir
<1>. QED
  BY <1>4, <1>5, <1>6 DEF DpEntry, SlbSeek

\* The plugins that write one file for a job.
LEMMA NvsTyped ==
    ASSUME NEW read
    PROVE  NvsBuffer(read) \in Content
<1>1. DpSize["nvs"] \in Nat /\ NvsSecure \in Nat
  BY DumpersAssumption DEF DumpersAssumption, Source
<1>2. \A i \in 1..DpSize["nvs"] : <<"nvs", i>> \in DpUnit /\ Zero \in DpUnit
  BY <1>1 DEF DpUnit, Source, Zero
<1>3. NvsBuffer(read) \in [1..DpSize["nvs"] -> DpUnit]
  BY <1>1, <1>2 DEF NvsBuffer
<1>. QED
  BY <1>1, <1>3, FunctionSeq DEF Content

LEMMA OneFileInv ==
    ASSUME DpInv, dp_pc = "job", dp_jobs # <<>>, NextJob, DpFiles', Fails \/ Works,
           UNCHANGED <<dp_plugin, dp_drv, dp_copy, dp_starts, dp_kept, dp_ran>>
    PROVE  DpInv'
<1>1. dp_jobs' \in Seq(JobPair) /\ DpPlaced' /\ dp_pc' = "job"
  BY NextJobPlaced DEF DpInv
<1>2. DpScalars'
  BY <1>1, FailsTyped DEF DpInv, DpScalars
<1>. QED
  BY <1>1, <1>2 DEF DpInv

LEMMA NvsInv == ASSUME DpInv, DpNvs PROVE DpInv'
<1>. DEFINE f == NameOf("nvs", "bin")
<1>1. f \in DpName /\ f[2] = "nvs"
  BY NameTyped, PlainNames DEF DpInv, Source
<1>2. Room(f)
  BY <1>1 DEF Room, InDirectory, Sloader
<1>3. UNCHANGED <<dp_plugin, dp_drv, dp_copy, dp_starts, dp_kept, dp_ran>> /\ NextJob
  BY DEF DpNvs
<1>4. DpFiles' /\ (Fails \/ Works)
  <2>1. CASE Fails /\ UNCHANGED dp_file
    BY <1>3, <2>1, KeepFiles DEF DpInv
  <2>2. CASE write_file(f, NvsBuffer(1..DpSize["nvs"]))
    BY <1>1, <1>2, <1>3, <2>2, NvsTyped, WriteFiles DEF DpInv
  <2>3. ASSUME NEW r, Fails, Put(f, NvsBuffer(1..DpSize["nvs"] \ {r}))
        PROVE  DpFiles' /\ (Fails \/ Works)
    BY <1>1, <1>2, <1>3, <2>3, NvsTyped, PutFiles DEF DpInv
  <2>. QED
    BY <2>1, <2>2, <2>3 DEF DpNvs
<1>. QED
  BY <1>3, <1>4, OneFileInv DEF DpNvs, ToDo

LEMMA VisibleInv == ASSUME DpInv, DpVisible PROVE DpInv'
<1>. DEFINE f == NameOf("vid", "bin")
            z == NameOf("vid", "zero")
<1>1. f \in DpName /\ f[2] = "vid" /\ z \in DpName /\ z[2] = "vid"
  BY NameTyped, PlainNames DEF DpInv, Source
<1>2. Room(f) /\ Room(z)
  BY <1>1 DEF Room, InDirectory, Sloader
<1>3. UNCHANGED <<dp_plugin, dp_drv, dp_copy, dp_starts, dp_kept, dp_ran>> /\ NextJob
  BY DEF DpVisible
<1>4. Data("vid") \in Content /\ [i \in 1..DpSize["vid"] |-> Zero] \in Content
  <2>1. "vid" \in Source
    BY DEF Source
  <2>2. DpSize["vid"] \in Nat /\ Zero \in DpUnit
    BY <2>1, DataTyped DEF DpUnit, Zero
  <2>3. [i \in 1..DpSize["vid"] |-> Zero] \in [1..DpSize["vid"] -> DpUnit]
    BY <2>2
  <2>. QED
    BY <2>1, <2>2, <2>3, DataTyped, FunctionSeq DEF Content
<1>5. DpFiles' /\ (Fails \/ Works)
  <2>1. CASE (Fails \/ Works) /\ UNCHANGED dp_file
    BY <1>3, <2>1, KeepFiles DEF DpInv
  <2>2. CASE write_file(f, Data("vid"))
    BY <1>1, <1>2, <1>3, <1>4, <2>2, WriteFiles DEF DpInv
  <2>3. CASE Fails /\ Put(z, [i \in 1..DpSize["vid"] |-> Zero])
    BY <1>1, <1>2, <1>3, <1>4, <2>3, PutFiles DEF DpInv
  <2>. QED
    BY <2>1, <2>2, <2>3 DEF DpVisible
<1>. QED
  BY <1>3, <1>5, OneFileInv DEF DpVisible, ToDo

LEMMA LeafsInv == ASSUME DpInv, DpLeafs PROVE DpInv'
<1>. DEFINE f == NameOf("leaf", "dir")
<1>1. /\ dp_pc = "job" /\ dp_jobs # <<>> /\ Job \in JobPair /\ Job[2] = "leafs"
      /\ NameOf(Job[1], "dir") \notin DOMAIN dp_file /\ dp_kept \subseteq DOMAIN dp_file
  BY ToDoIs DEF DpLeafs
<1>2. f \notin DOMAIN dp_file /\ f \in DpName /\ f[1] = dp_drv /\ f[2] = "leaf" /\ f[3] = "dir"
  <2>1. Job[1] = "leaf"
    BY <1>1, JobIs
  <2>2. "leaf" \in Source /\ "dir" \in DpPlain
    BY PlainNames DEF Source
  <2>3. f \in DpName /\ f[1] = dp_drv /\ f[2] = "leaf" /\ f[3] = "dir"
    BY <2>2, NameTyped DEF DpInv
  <2>. QED
    BY <1>1, <2>1, <2>3
<1>3. UNCHANGED <<dp_plugin, dp_drv, dp_copy, dp_starts, dp_kept, dp_ran>> /\ (Fails \/ Works)
  BY DEF DpLeafs
<1>4. CASE NextJob /\ UNCHANGED dp_file
  BY <1>1, <1>3, <1>4, KeepFiles, OneFileInv DEF DpInv
<1>5. CASE /\ Put(f, <<>>) /\ dp_pc' = "leaf" /\ dp_entries' = Leaves /\ UNCHANGED dp_jobs
  <2>1. <<>> \in Content /\ Room(f)
    BY <1>2 DEF Content, Room, NameOf
  <2>2. DpFiles' /\ f \in DOMAIN dp_file'
    BY <1>2, <1>3, <1>5, <2>1, PutFiles, PutIs DEF DpInv
  <2>3. DpScalars'
    BY <1>3, <1>5, FailsTyped DEF DpInv, DpScalars
  <2>4. dp_entries' \in Seq(Range(Leaves))
    <3>1. Leaves \in Seq(STRING)
      BY DumpersAssumption DEF DumpersAssumption
    <3>2. \A i \in 1..Len(Leaves) : Leaves[i] \in Range(Leaves)
      BY <3>1 DEF Range
    <3>. QED
      BY <1>5, <3>1, <3>2
  <2>5. NameOf("leaf", "dir")' = f
    BY <1>3 DEF NameOf
  <2>6. Job' = Job
    BY <1>5 DEF Job
  <2>7. DpPlaced'
    BY <1>1, <1>2, <1>3, <1>5, <2>2, <2>4, <2>5, <2>6 DEF DpPlaced, InDir, Exists
  <2>. QED
    BY <1>5, <2>2, <2>3, <2>7 DEF DpInv
<1>. QED
  BY <1>4, <1>5 DEF DpLeafs

LEMMA LeafInv == ASSUME DpInv, DpLeaf PROVE DpInv'
<1>. DEFINE f == NameOf("leaf", Head(dp_entries))
            d == NameOf("leaf", "dir")
<1>1. /\ dp_pc = "leaf" /\ dp_jobs # <<>> /\ dp_entries \in Seq(Range(Leaves)) /\ Job[2] = "leafs"
      /\ d \in DOMAIN dp_file /\ d \notin dp_kept
  BY DEF DpLeaf, DpInv, DpPlaced, Exists
<1>2. UNCHANGED <<dp_plugin, dp_drv, dp_copy, dp_starts, dp_kept, dp_ran>>
  BY DEF DpLeaf
<1>3. CASE NextJob /\ Works /\ UNCHANGED dp_file
  <2>1. dp_jobs' \in Seq(JobPair) /\ DpPlaced' /\ dp_pc' = "job"
    BY <1>1, <1>3, NextJobPlaced DEF DpInv
  <2>2. DpScalars' /\ DpFiles'
    BY <1>2, <1>3, <2>1, KeepFiles, FailsTyped DEF DpInv, DpScalars
  <2>. QED
    BY <2>1, <2>2 DEF DpInv
<1>4. CASE /\ dp_entries # <<>> /\ write_file(f, Data("leaf"))
           /\ dp_entries' = Tail(dp_entries) /\ UNCHANGED <<dp_pc, dp_jobs>>
  <2>1. Head(dp_entries) \in DpPlain /\ dp_entries' \in Seq(Range(Leaves))
    BY <1>1, <1>4 DEF DpPlain
  <2>2. f \in DpName /\ f[1] = dp_drv /\ f[2] = "leaf"
    BY <2>1, NameTyped DEF DpInv, Source
  <2>3. Room(f)
    BY <1>1, <2>2 DEF Room, NameOf
  <2>4. Data("leaf") \in Content
    BY DataTyped DEF Source
  <2>5. /\ DpFiles' /\ (Fails \/ Works)
        /\ UNCHANGED dp_file \/ \E k \in 0..Len(Data("leaf")) : Put(f, SubSeq(Data("leaf"), 1, k))
    BY <1>2, <1>4, <2>2, <2>3, <2>4, WriteFiles DEF DpInv
  <2>6. d \in DOMAIN dp_file'
    BY <1>1, <2>5, PutIs
  <2>7. DpScalars'
    BY <1>2, <1>4, <2>5, FailsTyped DEF DpInv, DpScalars
  <2>8. DpPlaced'
    <3>1. NameOf("leaf", "dir")' = d /\ Job' = Job
      BY <1>2, <1>4 DEF NameOf, Job
    <3>. QED
      BY <1>1, <1>2, <1>4, <2>1, <2>6, <3>1 DEF DpPlaced, InDir, Exists
  <2>. QED
    BY <1>4, <2>5, <2>7, <2>8 DEF DpInv
<1>. QED
  BY <1>3, <1>4 DEF DpLeaf

LEMMA DpKeeps == DpInv /\ [DpNext]_dpVars => DpInv'
<1>. SUFFICES ASSUME DpInv, [DpNext]_dpVars PROVE DpInv'
  OBVIOUS
<1>1. CASE DpNext
  BY <1>1, StartInv, FinishInv, SkipInv, DumpInv, CopyInv, MkdirInv, CheckInv, ExtractInv,
     EntryInv, NvsInv, VisibleInv, LeafsInv, LeafInv, PowerOffInv DEF DpNext, DpStep
<1>2. CASE UNCHANGED dpVars
  <2>1. DpFiles'
    BY <1>2, KeepFiles DEF dpVars, DpInv
  <2>2. DpScalars' /\ dp_jobs' \in Seq(JobPair)
    BY <1>2 DEF dpVars, DpInv, DpScalars
  <2>3. Job' = Job /\ \A of, name : NameOf(of, name)' = NameOf(of, name)
    BY <1>2 DEF dpVars, Job, NameOf
  <2>4. DpPlaced'
    BY <1>2, <2>3 DEF dpVars, DpInv, DpPlaced, InDir, Exists
  <2>. QED
    BY <2>1, <2>2, <2>4 DEF DpInv
<1>. QED
  BY <1>1, <1>2

LEMMA DpInvariance == DpSpec => []DpInv
BY InitInv, DpKeeps, PTL DEF DpSpec

-----------------------------------------------------------------------------
(* Dumpers: what earlier starts left *)

\* A step puts a hash, or a file that no earlier start left.
PutsNew(f) == f[3] = "sha256" \/ f \notin dp_kept

LEMMA WriteNew ==
    ASSUME NEW f, NEW data, write_file(f, data), PutsNew(f)
    PROVE  UNCHANGED dp_file \/ \E g, c : Put(g, c) /\ PutsNew(g)
BY DEF write_file

LEMMA StepsPutNew ==
    ASSUME DpInv, DpNext
    PROVE  UNCHANGED dp_file \/ \E g, c : Put(g, c) /\ PutsNew(g)
<1>. DEFINE Goal == UNCHANGED dp_file \/ \E g, c : Put(g, c) /\ PutsNew(g)
<1>1. CASE DpStart \/ DpFinish \/ DpSkip \/ slb2_extraction \/ DpPowerOff
  BY <1>1 DEF DpStart, DpFinish, DpSkip, slb2_extraction, DpPowerOff
<1>2. CASE slb2_dump
  <2>1. NameOf(Job[1], "bin") \notin dp_kept
    BY <1>2, ToDoIs DEF slb2_dump
  <2>. QED
    BY <1>2, <2>1 DEF slb2_dump, PutsNew
<1>3. CASE write_file_from_fd
  <2>1. dp_copy.to \notin dp_kept
    BY <1>3 DEF write_file_from_fd, DpInv, DpPlaced
  <2>2. UNCHANGED dp_file \/ \E c : Put(dp_copy.to, c)
    BY <1>3 DEF write_file_from_fd, CopyChunk
  <2>. QED
    BY <2>1, <2>2 DEF PutsNew
<1>4. CASE DpMkdir
  <2>1. NameOf(Job[1], "dir") \notin dp_kept
    BY <1>4, ToDoIs DEF DpMkdir
  <2>. QED
    BY <1>4, <2>1 DEF DpMkdir, PutsNew
<1>5. CASE slb2_check_sha256
  <2>. DEFINE f == NameOf(Job[1], "sha256")
  <2>1. PutsNew(f)
    BY DEF PutsNew, NameOf
  <2>2. UNCHANGED dp_file \/ (\E data : write_file(f, data)) \/ \E c : Put(f, c)
    BY <1>5 DEF slb2_check_sha256
  <2>. QED
    BY <2>1, <2>2, WriteNew
<1>6. CASE DpEntry
  <2>. DEFINE f == NameOf(Job[1], Head(dp_entries).name)
  <2>1. CASE dp_entries # <<>> /\ Exists(Job[1], "dir") /\ Put(f, <<>>)
    <3>1. InDir
      BY <1>6 DEF DpEntry, InDir
    <3>2. /\ Job[1] \in Sloader /\ Job[1] \in Source /\ NameOf(Job[1], "dir") \notin dp_kept
          /\ Head(dp_entries) \in HeaderEntry
      BY <2>1, <3>1, InDirIs
    <3>3. Head(dp_entries).name \notin {"bin", "dir", "sha256"} /\ Head(dp_entries).name \in DpPlain
      BY <3>2, HeaderIs
    <3>4. f[1] = dp_drv /\ f[2] = Job[1] /\ f[3] = Head(dp_entries).name
      BY <3>2, <3>3, NameTyped DEF DpInv
    <3>5. f \notin dp_kept
      BY <3>2, <3>3, <3>4 DEF DpInv, DpFiles, Housed, InDirectory, NameOf
    <3>. QED
      BY <2>1, <3>5 DEF PutsNew
  <2>2. CASE UNCHANGED dp_file
    BY <2>2
  <2>. QED
    BY <1>6, <2>1, <2>2 DEF DpEntry
<1>7. CASE DpNvs
  <2>. DEFINE f == NameOf("nvs", "bin")
  <2>1. /\ Job \in JobPair /\ Job[2] = "data" /\ NameOf(Job[1], "bin") \notin DOMAIN dp_file
        /\ dp_kept \subseteq DOMAIN dp_file
    BY <1>7, ToDoIs DEF DpNvs
  <2>2. Job[1] = "nvs"
    BY <2>1, JobIs
  <2>3. PutsNew(f)
    BY <2>1, <2>2 DEF PutsNew
  <2>4. UNCHANGED dp_file \/ (\E data : write_file(f, data)) \/ \E c : Put(f, c)
    BY <1>7 DEF DpNvs
  <2>. QED
    BY <2>3, <2>4, WriteNew
<1>8. CASE DpVisible
  <2>. DEFINE f == NameOf("vid", "bin")
              z == NameOf("vid", "zero")
  <2>1. \/ UNCHANGED dp_file
        \/ ~Exists("vid", "bin") /\ \E data : write_file(f, data)
        \/ ~Exists("vid", "zero") /\ \E c : Put(z, c)
    BY <1>8 DEF DpVisible
  <2>2. dp_kept \subseteq DOMAIN dp_file
    BY DEF DpInv, DpFiles
  <2>. QED
    BY <2>1, <2>2, WriteNew DEF Exists, PutsNew
<1>9. CASE DpLeafs
  <2>1. /\ Job \in JobPair /\ Job[2] = "leafs" /\ NameOf(Job[1], "dir") \notin DOMAIN dp_file
        /\ dp_kept \subseteq DOMAIN dp_file
    BY <1>9, ToDoIs DEF DpLeafs
  <2>2. Job[1] = "leaf"
    BY <2>1, JobIs
  <2>. QED
    BY <1>9, <2>1, <2>2 DEF DpLeafs, PutsNew
<1>10. CASE DpLeaf
  <2>. DEFINE f == NameOf("leaf", Head(dp_entries))
  <2>1. NameOf("leaf", "dir") \notin dp_kept
    BY <1>10 DEF DpLeaf, DpInv, DpPlaced
  <2>2. UNCHANGED dp_file \/ (dp_entries # <<>> /\ \E data : write_file(f, data))
    BY <1>10 DEF DpLeaf
  <2>3. PutsNew(f)
    <3>1. f[1] = dp_drv /\ f[2] = "leaf"
      BY DEF NameOf
    <3>. QED
      BY <2>1, <3>1 DEF DpInv, DpFiles, Housed, InDirectory, PutsNew, NameOf
  <2>. QED
    BY <2>2, <2>3, WriteNew
<1>. QED
  BY <1>1, <1>2, <1>3, <1>4, <1>5, <1>6, <1>7, <1>8, <1>9, <1>10 DEF DpNext, DpStep

\* An entry made after a seek that failed is one of the files.
DpStray == dp_astray \subseteq DOMAIN dp_file

LEMMA StrayKeeps == DpInv /\ DpStray /\ [DpNext]_dpVars => DpStray'
<1>. SUFFICES ASSUME DpInv, DpStray, [DpNext]_dpVars PROVE DpStray'
  OBVIOUS
<1>1. CASE UNCHANGED dpVars
  BY <1>1 DEF dpVars, DpStray
<1>2. CASE DpNext
  <2>1. DOMAIN dp_file \subseteq DOMAIN dp_file'
    BY <1>2, StepsPutNew, PutIs
  <2>2. CASE DpEntry
    <3>. DEFINE f == NameOf(Job[1], Head(dp_entries).name)
    <3>1. \/ UNCHANGED dp_astray
          \/ Put(f, <<>>) /\ dp_astray' \subseteq dp_astray \cup {f}
      BY <2>2 DEF DpEntry, SlbSeek
    <3>. QED
      BY <2>1, <3>1, PutIs DEF DpStray
  <2>3. CASE ~DpEntry
    <3>1. UNCHANGED dp_astray
      BY <1>2, <2>3 DEF DpNext, DpStep, DpStart, DpFinish, DpSkip, slb2_dump, write_file_from_fd,
         DpMkdir, slb2_check_sha256, slb2_extraction, DpNvs, DpVisible, DpLeafs, DpLeaf, DpPowerOff
    <3>. QED
      BY <2>1, <3>1 DEF DpStray
  <2>. QED
    BY <2>2, <2>3
<1>. QED
  BY <1>1, <1>2

\* The files hold units of what is dumped, the copy never has less than nothing
\* left, and starts and failures keep to their bounds, for every drive, header
\* and size.
THEOREM DpTypeCorrect == DpSpec => []DpTypeOK
<1>1. DpInit => DpInv /\ DpStray
  BY InitInv DEF DpInit, DpStray
<1>2. DpInv /\ DpStray /\ [DpNext]_dpVars => DpInv' /\ DpStray'
  BY DpKeeps, StrayKeeps
<1>3. DpInv /\ DpStray => DpTypeOK
  BY DEF DpInv, DpScalars, DpFiles, DpStray, DpTypeOK, DpDrive, Content, CopyRecord
<1>. QED
  BY <1>1, <1>2, <1>3, PTL DEF DpSpec

\* What an earlier start left, however little of it there is, no later one
\* changes: a start leaves out what is there, and fills only a directory that it
\* made.
THEOREM EarlierDumpsStay == DpSpec => SlbKeeps
<1>. DEFINE Same == \A f \in dp_kept \cap DOMAIN dp_file :
                       f[3] # "sha256" => f \in DOMAIN dp_file' /\ dp_file'[f] = dp_file[f]
<1>1. DpInv /\ [DpNext]_dpVars => [Same]_dpVars
  <2>. SUFFICES ASSUME DpInv, DpNext PROVE Same
    OBVIOUS
  <2>1. CASE UNCHANGED dp_file
    BY <2>1
  <2>2. ASSUME NEW g, NEW c, Put(g, c), PutsNew(g) PROVE Same
    BY <2>2, PutIs DEF PutsNew
  <2>. QED
    BY <2>1, <2>2, StepsPutNew
<1>. QED
  BY <1>1, DpInvariance, PTL DEF DpSpec, SlbKeeps

-----------------------------------------------------------------------------
(* Dumpers: what is in the files *)

StartsWith(s, t) == Len(s) =< Len(t) /\ \A i \in 1..Len(s) : s[i] = t[i]
Dumps == Sloader \cup {"idstor"}

\* The units of p behind the first base.
UnitsFrom(s, p, base) == \A i \in 1..Len(s) : s[i] = <<p, base + i>>

\* c is a stretch of a partition no longer than the entry e, of its beginning
\* unless f is one of the entries astray.
Stretch(f, c, e, astray) ==
    /\ Len(c) =< e.size
    /\ \E base \in Nat :
          UnitsFrom(c, f[2], base) /\ (f \notin astray => base = Sector * e.pos)

\* What may be in the file f of a partition.
Started(f, c, astray) ==
    \/ f[3] \in {"dir", "sha256"}
    \/ f[3] = "bin" /\ Measured(f[2]) /\ StartsWith(c, Data(f[2]))
    \/ \E e \in HeaderEntry : e.name = f[3] /\ Stretch(f, c, e, astray)

DpBegun == \A f \in DOMAIN dp_file : f[2] \in Dumps => Started(f, dp_file[f], dp_astray)

\* What the copy is to make of its file, where in the partition that is, and
\* where the copy began.
CopyAim == IF dp_entries = <<>> THEN Data(dp_copy.to[2])
           ELSE Region(dp_copy.to[2], Head(dp_entries))
CopyBase == IF dp_entries = <<>> THEN 0 ELSE Sector * Head(dp_entries).pos
CopyFrom == dp_copy.at - Len(dp_file[dp_copy.to])

\* The copy stands behind what is in the file, and before what is left.
DpAhead ==
    dp_pc = "copy" =>
       LET f == dp_copy.to IN
       /\ StartsWith(dp_copy.from, Data(f[2]))
       /\ CopyFrom \in Nat /\ UnitsFrom(dp_file[f], f[2], CopyFrom)
       /\ f \notin dp_astray => CopyFrom = CopyBase
       /\ dp_entries = <<>> => f \notin dp_astray /\ Measured(f[2])
       /\ Len(dp_file[f]) + dp_copy.left = Len(CopyAim)

DpContent == DpInv /\ DpStray /\ DpBegun /\ DpAhead

LEMMA StartsPrefix ==
    ASSUME NEW S, NEW s \in Seq(S), NEW t \in Seq(S), StartsWith(s, t)
    PROVE  IsPrefix(s, t)
<1>1. Len(s) \in Nat /\ Len(t) \in Nat /\ Len(s) =< Len(t) /\ \A i \in 1..Len(s) : s[i] = t[i]
  BY DEF StartsWith
<1>2. SubSeq(s, 1, Len(s)) \in Seq(S) /\ SubSeq(t, 1, Len(s)) \in Seq(S)
  BY <1>1, PartOf
<1>3. Len(SubSeq(s, 1, Len(s))) = Len(s) /\ Len(SubSeq(t, 1, Len(s))) = Len(s)
  BY <1>1, PartOf
<1>4. \A i \in 1..Len(s) : SubSeq(s, 1, Len(s))[i] = SubSeq(t, 1, Len(s))[i]
  BY <1>1, PartOf
<1>5. SubSeq(s, 1, Len(s)) = SubSeq(t, 1, Len(s))
  BY <1>2, <1>3, <1>4, SeqEqual
<1>. QED
  BY <1>1, <1>5 DEF IsPrefix

LEMMA RegionIs ==
    ASSUME NEW p \in Source, NEW e \in HeaderEntry
    PROVE  /\ Region(p, e) \in Content /\ Len(Region(p, e)) = e.size
           /\ \A i \in 1..e.size : Region(p, e)[i] = <<p, Sector * e.pos + i>>
<1>1. e.size \in Nat /\ Sector * e.pos \in Nat
  BY HeaderIs
<1>2. \A i \in 1..e.size : <<p, Sector * e.pos + i>> \in DpUnit
  <2>. TAKE i \in 1..e.size
  <2>1. Sector * e.pos + i \in Nat
    BY <1>1
  <2>. QED
    BY <2>1 DEF DpUnit
<1>3. Region(p, e) \in [1..e.size -> DpUnit]
  BY <1>2 DEF Region
<1>. QED
  BY <1>1, <1>3, FunctionSeq DEF Region, Content

LEMMA PutBegun ==
    ASSUME DpBegun, NEW f, NEW c, Put(f, c), f[2] \in Dumps => Started(f, c, dp_astray'),
           \A g : g # f => (g \in dp_astray' <=> g \in dp_astray)
    PROVE  DpBegun'
<1>1. ASSUME NEW g \in DOMAIN dp_file', g[2] \in Dumps
      PROVE  Started(g, dp_file'[g], dp_astray')
  <2>1. CASE g = f
    BY <1>1, <2>1, PutIs
  <2>2. CASE g # f
    <3>1. /\ DOMAIN dp_file' = DOMAIN dp_file \cup {f}
          /\ \A h \in DOMAIN dp_file : h # f => dp_file'[h] = dp_file[h]
      BY PutIs
    <3>2. g \in DOMAIN dp_file /\ dp_file'[g] = dp_file[g]
      BY <1>1, <2>2, <3>1
    <3>3. Started(g, dp_file[g], dp_astray)
      BY <1>1, <3>2 DEF DpBegun
    <3>. QED
      BY <2>2, <3>2, <3>3 DEF Started, Stretch
  <2>. QED
    BY <2>1, <2>2
<1>. QED
  BY <1>1 DEF DpBegun

LEMMA WriteBegun ==
    ASSUME DpBegun, NEW f, NEW data, write_file(f, data), f[2] \notin Dumps \/ f[3] = "sha256",
           UNCHANGED dp_astray
    PROVE  DpBegun'
<1>1. CASE UNCHANGED dp_file
  BY <1>1 DEF DpBegun
<1>2. ASSUME NEW c, Put(f, c) PROVE DpBegun'
  BY <1>2, PutBegun DEF Started
<1>. QED
  BY <1>1, <1>2 DEF write_file

LEMMA AimIs ==
    ASSUME DpInv, dp_pc = "copy"
    PROVE  /\ dp_copy.to[2] \in Dumps /\ dp_copy.to[2] \in Source
           /\ CopyAim \in Content /\ CopyBase \in Nat
           /\ \A i \in 1..Len(CopyAim) : CopyAim[i] = <<dp_copy.to[2], CopyBase + i>>
           /\ dp_entries = <<>> => dp_copy.to[3] = "bin" /\ CopyBase = 0 /\ CopyAim = Data(dp_copy.to[2])
           /\ dp_entries # <<>> => LET e == Head(dp_entries) IN
                 /\ e \in HeaderEntry /\ e.name = dp_copy.to[3] /\ Len(CopyAim) = e.size
                 /\ CopyBase = Sector * e.pos
<1>1. CASE dp_entries = <<>>
  <2>1. dp_jobs # <<>> /\ Job[2] = "bin" /\ dp_copy.to = NameOf(Job[1], "bin")
    BY <1>1 DEF DpInv, DpPlaced
  <2>2. Job[1] \in Dumps /\ Job[1] \in Source
    BY <2>1, JobTyped, JobIs DEF Dumps, DpInv
  <2>3. dp_copy.to[2] = Job[1] /\ dp_copy.to[3] = "bin"
    BY <2>1 DEF NameOf
  <2>4. CopyAim = Data(Job[1]) /\ CopyBase = 0
    BY <1>1, <2>3 DEF CopyAim, CopyBase
  <2>5. /\ DpSize[Job[1]] \in Nat /\ Data(Job[1]) \in Content /\ Len(Data(Job[1])) = DpSize[Job[1]]
        /\ \A i \in 1..DpSize[Job[1]] : Data(Job[1])[i] = <<Job[1], i>>
    BY <2>2, DataTyped
  <2>6. \A i \in 1..DpSize[Job[1]] : 0 + i = i
    BY <2>5
  <2>. QED
    BY <1>1, <2>2, <2>3, <2>4, <2>5, <2>6
<1>2. CASE dp_entries # <<>>
  <2>. DEFINE e == Head(dp_entries)
  <2>1. Job[1] \in Sloader /\ Job[1] \in Source /\ e \in HeaderEntry
    BY <1>2, InDirIs DEF InDir
  <2>2. dp_copy.to = NameOf(Job[1], e.name)
    BY <1>2 DEF DpInv, DpPlaced
  <2>3. dp_copy.to[2] = Job[1] /\ dp_copy.to[3] = e.name
    BY <2>2 DEF NameOf
  <2>4. CopyAim = Region(Job[1], e) /\ CopyBase = Sector * e.pos
    BY <1>2, <2>3 DEF CopyAim, CopyBase
  <2>. HIDE DEF e
  <2>5. Sector * e.pos \in Nat
    BY <2>1, HeaderIs
  <2>6. /\ Region(Job[1], e) \in Content /\ Len(Region(Job[1], e)) = e.size
        /\ \A i \in 1..e.size : Region(Job[1], e)[i] = <<Job[1], Sector * e.pos + i>>
    BY <2>1, RegionIs
  <2>7. /\ CopyBase = Sector * Head(dp_entries).pos /\ Len(CopyAim) = Head(dp_entries).size
        /\ Head(dp_entries) \in HeaderEntry /\ Head(dp_entries).name = dp_copy.to[3]
    BY <2>1, <2>3, <2>4, <2>6 DEF e
  <2>8. Job[1] \in Dumps
    BY <2>1 DEF Dumps
  <2>. QED
    BY <1>2, <2>1, <2>3, <2>4, <2>5, <2>6, <2>7, <2>8
<1>. QED
  BY <1>1, <1>2

\* What the copy may leave in its file.
LEMMA AimStarted ==
    ASSUME DpContent, dp_pc = "copy", NEW c \in Content, NEW base \in Nat,
           UnitsFrom(c, dp_copy.to[2], base), dp_copy.to \notin dp_astray => base = CopyBase,
           Len(c) =< Len(CopyAim)
    PROVE  Started(dp_copy.to, c, dp_astray)
<1>. DEFINE f == dp_copy.to
<1>1. Len(c) \in Nat
  BY DEF Content
<1>2. CASE dp_entries = <<>>
  <2>1. f[3] = "bin" /\ CopyBase = 0 /\ CopyAim = Data(f[2]) /\ f[2] \in Source
    BY <1>2, AimIs DEF DpContent
  <2>2. base = 0 /\ Measured(f[2])
    BY <1>2, <2>1 DEF DpContent, DpAhead
  <2>3. /\ DpSize[f[2]] \in Nat /\ Len(Data(f[2])) = DpSize[f[2]]
        /\ \A i \in 1..DpSize[f[2]] : Data(f[2])[i] = <<f[2], i>>
    BY <2>1, DataTyped
  <2>4. ASSUME NEW i \in 1..Len(c) PROVE c[i] = Data(f[2])[i]
    <3>1. i \in 1..DpSize[f[2]] /\ 0 + i = i
      BY <1>1, <2>1, <2>3
    <3>2. c[i] = <<f[2], 0 + i>>
      BY <2>2 DEF UnitsFrom
    <3>. QED
      BY <2>3, <3>1, <3>2
  <2>5. StartsWith(c, Data(f[2]))
    BY <2>1, <2>4 DEF StartsWith
  <2>. QED
    BY <2>1, <2>2, <2>5 DEF Started
<1>3. CASE dp_entries # <<>>
  <2>. DEFINE e == Head(dp_entries)
  <2>1. /\ e \in HeaderEntry /\ e.name = f[3] /\ Len(CopyAim) = e.size
        /\ CopyBase = Sector * e.pos
    BY <1>3, AimIs DEF DpContent
  <2>. HIDE DEF e
  <2>2. Stretch(f, c, e, dp_astray)
    BY <2>1 DEF Stretch
  <2>. QED
    BY <2>1, <2>2 DEF Started
<1>. QED
  BY <1>2, <1>3

\* A copy that is not astray has a beginning of what it is to make.
LEMMA AheadAim ==
    ASSUME DpContent, dp_pc = "copy", dp_copy.to \notin dp_astray
    PROVE  /\ StartsWith(dp_file[dp_copy.to], CopyAim)
           /\ dp_copy.at = CopyBase + Len(dp_file[dp_copy.to])
           /\ Len(dp_file[dp_copy.to]) + dp_copy.left = Len(CopyAim)
           /\ StartsWith(dp_copy.from, Data(dp_copy.to[2]))
<1>. DEFINE f == dp_copy.to
            old == dp_file[f]
<1>1. f \in DOMAIN dp_file /\ old \in Content /\ dp_copy.at \in Nat /\ dp_copy.left \in Nat
  BY DEF DpContent, DpInv, DpScalars, DpPlaced, DpFiles, CopyRecord
<1>2. /\ CopyFrom = CopyBase /\ UnitsFrom(old, f[2], CopyFrom)
      /\ Len(old) + dp_copy.left = Len(CopyAim) /\ StartsWith(dp_copy.from, Data(f[2]))
  BY DEF DpContent, DpAhead
<1>3. /\ CopyBase \in Nat /\ CopyAim \in Content
      /\ \A i \in 1..Len(CopyAim) : CopyAim[i] = <<f[2], CopyBase + i>>
  BY AimIs DEF DpContent
<1>4. CopyFrom = dp_copy.at - Len(old)
  BY DEF CopyFrom
<1>. HIDE DEF old, f
<1>5. Len(old) \in Nat /\ Len(CopyAim) \in Nat
  BY <1>1, <1>3 DEF Content
<1>6. dp_copy.at = CopyBase + Len(old) /\ Len(old) =< Len(CopyAim)
  BY <1>1, <1>2, <1>3, <1>4, <1>5
<1>7. ASSUME NEW i \in 1..Len(old) PROVE old[i] = CopyAim[i]
  <2>1. i \in 1..Len(CopyAim)
    BY <1>5, <1>6
  <2>. QED
    BY <1>2, <1>3, <2>1 DEF UnitsFrom
<1>. QED
  BY <1>2, <1>6, <1>7 DEF StartsWith, old, f

\* A stretch with the next units behind it is a longer stretch.
LEMMA LongerStretch ==
    ASSUME NEW S, NEW p, NEW base \in Nat,
           NEW old \in Seq(S), UnitsFrom(old, p, base),
           NEW add \in Seq(S), UnitsFrom(add, p, base + Len(old))
    PROVE  UnitsFrom(old \o add, p, base) /\ Len(old \o add) = Len(old) + Len(add)
<1>. DEFINE c == old \o add
<1>1. /\ c \in Seq(S) /\ Len(c) = Len(old) + Len(add)
      /\ \A i \in 1..(Len(old) + Len(add)) :
            c[i] = IF i =< Len(old) THEN old[i] ELSE add[i - Len(old)]
  BY ConcatProperties
<1>. HIDE DEF c
<1>2. Len(old) \in Nat /\ Len(add) \in Nat
  OBVIOUS
<1>3. ASSUME NEW i \in 1..Len(c) PROVE c[i] = <<p, base + i>>
  <2>0. i \in Nat /\ i >= 1 /\ i =< Len(old) + Len(add) /\ i \in 1..(Len(old) + Len(add))
    BY <1>1, <1>2
  <2>1. CASE i =< Len(old)
    <3>1. i \in 1..Len(old)
      BY <1>2, <2>0, <2>1
    <3>. QED
      BY <1>1, <2>0, <2>1, <3>1 DEF UnitsFrom
  <2>2. CASE ~(i =< Len(old))
    <3>1. PICK j \in 1..Len(add) : i = Len(old) + j
      <4>1. i - Len(old) \in 1..Len(add) /\ i = Len(old) + (i - Len(old))
        BY <1>2, <2>0, <2>2
      <4>. QED
        BY <4>1
    <3>2. i - Len(old) = j /\ base + Len(old) + j = base + i
      BY <1>2, <2>0, <3>1
    <3>3. c[i] = add[j]
      BY <1>1, <2>0, <2>2, <3>2
    <3>4. add[j] = <<p, base + Len(old) + j>>
      BY DEF UnitsFrom
    <3>. QED
      BY <3>2, <3>3, <3>4
  <2>. QED
    BY <2>1, <2>2
<1>. QED
  BY <1>1, <1>3 DEF UnitsFrom, c

\* The units the copy reads next are the next of its file.
LEMMA NextUnits ==
    ASSUME DpContent, dp_pc = "copy", NEW n \in Nat, n =< dp_copy.left,
           dp_copy.at + n =< Len(dp_copy.from), NEW k \in 0..n
    PROVE  LET c == dp_file[dp_copy.to]
                      \o SubSeq(SubSeq(dp_copy.from, dp_copy.at + 1, dp_copy.at + n), 1, k) IN
           /\ c \in Content /\ UnitsFrom(c, dp_copy.to[2], CopyFrom)
           /\ Len(c) = Len(dp_file[dp_copy.to]) + k /\ Len(c) =< Len(CopyAim)
<1>. DEFINE f == dp_copy.to
            old == dp_file[f]
            from == dp_copy.from
            at == dp_copy.at
            left == dp_copy.left
            here == SubSeq(from, at + 1, at + n)
            add == SubSeq(here, 1, k)
            p == f[2]
<1>1. /\ f \in DOMAIN dp_file /\ old \in Content
      /\ from \in Content /\ at \in Nat /\ left \in Nat
  BY DEF DpContent, DpInv, DpScalars, DpPlaced, DpFiles, CopyRecord
<1>2. /\ StartsWith(from, Data(p)) /\ CopyFrom \in Nat /\ UnitsFrom(old, p, CopyFrom)
      /\ CopyFrom = at - Len(old) /\ Len(old) + left = Len(CopyAim)
  BY DEF DpContent, DpAhead, CopyFrom
<1>3. p \in Source /\ CopyAim \in Content
  BY AimIs DEF DpContent
<1>4. DpSize[p] \in Nat /\ Len(Data(p)) = DpSize[p] /\ \A i \in 1..DpSize[p] : Data(p)[i] = <<p, i>>
  BY <1>3, DataTyped
<1>5. at + n =< Len(from) /\ n =< left /\ k \in Nat /\ k =< n
  OBVIOUS
<1>. HIDE DEF f, old, from, at, left, p
<1>6. here \in Content /\ Len(here) = n /\ \A i \in 1..n : here[i] = from[at + i]
  BY <1>1, <1>5, ChunkRead DEF Content
<1>. HIDE DEF here
<1>7. add \in Content /\ Len(add) = k /\ \A i \in 1..k : add[i] = here[i]
  BY <1>5, <1>6, PartOf DEF Content
<1>. HIDE DEF add
<1>8. Len(old) \in Nat /\ Len(from) \in Nat /\ Len(CopyAim) \in Nat
  BY <1>1, <1>3 DEF Content
<1>9. \A i \in 1..Len(from) : from[i] = <<p, i>>
  BY <1>2, <1>4, <1>8 DEF StartsWith
<1>10. UnitsFrom(add, p, CopyFrom + Len(old))
  <2>. SUFFICES ASSUME NEW i \in 1..k PROVE add[i] = <<p, CopyFrom + Len(old) + i>>
    BY <1>7 DEF UnitsFrom
  <2>1. i \in 1..n /\ at + i \in 1..Len(from) /\ CopyFrom + Len(old) + i = at + i
    BY <1>1, <1>2, <1>5, <1>8
  <2>. QED
    BY <1>6, <1>7, <1>9, <2>1
<1>11. /\ UnitsFrom(old \o add, p, CopyFrom) /\ Len(old \o add) = Len(old) + Len(add)
       /\ old \o add \in Content
  <2>1. /\ old \in Seq(DpUnit) /\ add \in Seq(DpUnit)
    BY <1>1, <1>7 DEF Content
  <2>. QED
    BY <1>2, <1>10, <2>1, LongerStretch, ConcatProperties DEF Content
<1>12. Len(old) + k =< Len(CopyAim)
  BY <1>1, <1>2, <1>5, <1>8
<1>. QED
  BY <1>7, <1>11, <1>12 DEF add, here, from, at, old, f, p

LEMMA QuietContent ==
    ASSUME DpBegun, UNCHANGED <<dp_file, dp_astray>>, dp_pc' # "copy"
    PROVE  DpBegun' /\ DpAhead'
BY DEF DpBegun, DpAhead

LEMMA DumpContent == ASSUME DpContent, DpInv', slb2_dump PROVE DpBegun' /\ DpAhead'
<1>. DEFINE p == Job[1]
            f == NameOf(p, "bin")
<1>1. Job \in JobPair /\ Job[2] = "bin" /\ dp_entries = <<>> /\ f \notin DOMAIN dp_file
  BY ToDoIs DEF slb2_dump, DpContent
<1>2. p \in Dumps /\ p \in Source /\ f[2] = p /\ f[3] = "bin"
  BY <1>1, JobIs DEF Dumps, Source, NameOf
<1>3. DpSize[p] \in Nat /\ Data(p) \in Content /\ Len(Data(p)) = DpSize[p]
  BY <1>2, DataTyped
<1>4. UNCHANGED dp_astray /\ f \notin dp_astray
  BY <1>1 DEF slb2_dump, DpContent, DpStray
<1>5. CASE NextJob /\ UNCHANGED dp_file
  BY <1>4, <1>5, QuietContent DEF NextJob, DpContent
<1>6. CASE /\ Measured(p) /\ Put(f, <<>>) /\ dp_pc' = "copy"
           /\ dp_copy' = [to |-> f, from |-> Data(p), at |-> 0, left |-> DpSize[p]]
           /\ UNCHANGED <<dp_jobs, dp_entries>>
  <2>1. StartsWith(<<>>, Data(p)) /\ StartsWith(Data(p), Data(p))
    BY <1>3 DEF StartsWith
  <2>2. DpBegun'
    <3>1. Started(f, <<>>, dp_astray')
      BY <1>2, <1>6, <2>1 DEF Started
    <3>. QED
      BY <1>4, <1>6, <3>1, PutBegun DEF DpContent
  <2>3. dp_file'[f] = <<>>
    BY <1>6, PutIs
  <2>4. dp_copy'.to = f /\ dp_copy'.from = Data(p) /\ dp_copy'.at = 0 /\ dp_copy'.left = DpSize[p]
    BY <1>6
  <2>5. CopyAim' = Data(p) /\ CopyBase' = 0 /\ CopyFrom' = 0
    <3>1. dp_copy'.to[2] = p /\ dp_entries' = <<>>
      BY <1>1, <1>2, <1>6
    <3>2. Len(<<>>) = 0
      OBVIOUS
    <3>. QED
      BY <2>3, <2>4, <3>1, <3>2 DEF CopyAim, CopyBase, CopyFrom
  <2>6. Len(<<>>) = 0
    OBVIOUS
  <2>. HIDE DEF f, p
  <2>7. UnitsFrom(<<>>, p, 0)
    BY DEF UnitsFrom
  <2>8. DpAhead'
    BY <1>2, <1>3, <1>4, <1>6, <2>1, <2>3, <2>4, <2>5, <2>6, <2>7 DEF DpAhead, Measured
  <2>. QED
    BY <2>2, <2>8
<1>. QED
  BY <1>5, <1>6 DEF slb2_dump

LEMMA CopyContent == ASSUME DpContent, write_file_from_fd PROVE DpBegun' /\ DpAhead'
<1>. DEFINE n == ChunkOf(dp_copy.left)
            here == SubSeq(dp_copy.from, dp_copy.at + 1, dp_copy.at + n)
            f == dp_copy.to
<1>1. /\ dp_pc = "copy" /\ f \in DOMAIN dp_file /\ UNCHANGED dp_astray
      /\ dp_copy.from \in Content /\ dp_copy.at \in Nat /\ dp_copy.left \in Nat
      /\ dp_file[f] \in Content
  BY DEF write_file_from_fd, DpContent, DpInv, DpScalars, DpPlaced, DpFiles, CopyRecord
<1>2. n \in Nat /\ n =< dp_copy.left
  BY <1>1, ChunkTyped
<1>3. ASSUME NEW at, CopyEnds(at) PROVE dp_pc' # "copy"
  BY <1>3 DEF CopyEnds, NextJob
<1>4. CASE (\E at : CopyEnds(at)) /\ UNCHANGED dp_file
  BY <1>1, <1>3, <1>4, QuietContent DEF DpContent
<1>5. ASSUME n > 0, dp_copy.at + n =< Len(dp_copy.from), CopyChunk(n, here)
      PROVE  DpBegun' /\ DpAhead'
  <2>1. PICK k \in 0..n :
           /\ Put(f, dp_file[f] \o SubSeq(here, 1, k))
           /\ IF k = n
              THEN /\ dp_copy' = [dp_copy EXCEPT !.at = @ + n, !.left = @ - n]
                   /\ Works /\ UNCHANGED <<dp_pc, dp_jobs, dp_entries>>
              ELSE Fails /\ CopyEnds(dp_copy.at + n)
    BY <1>5 DEF CopyChunk
  <2>. DEFINE c == dp_file[f] \o SubSeq(here, 1, k)
  <2>2. /\ c \in Content /\ UnitsFrom(c, f[2], CopyFrom)
        /\ Len(c) = Len(dp_file[f]) + k /\ Len(c) =< Len(CopyAim)
    <3>. HIDE DEF n
    <3>. QED
      BY <1>1, <1>2, <1>5, NextUnits
  <2>. HIDE DEF c, here, n
  <2>3. /\ CopyFrom \in Nat
        /\ f \notin dp_astray => CopyFrom = CopyBase
        /\ StartsWith(dp_copy.from, Data(f[2]))
        /\ dp_entries = <<>> => f \notin dp_astray /\ Measured(f[2])
        /\ Len(dp_file[f]) + dp_copy.left = Len(CopyAim)
    BY <1>1 DEF DpContent, DpAhead
  <2>4. Started(f, c, dp_astray)
    BY <1>1, <2>2, <2>3, AimStarted
  <2>5. Put(f, c)
    BY <2>1 DEF c
  <2>6. DpBegun'
    BY <1>1, <2>4, <2>5, PutBegun DEF DpContent
  <2>7. CASE k = n
    <3>1. /\ dp_copy' = [dp_copy EXCEPT !.at = @ + n, !.left = @ - n]
          /\ UNCHANGED <<dp_pc, dp_jobs, dp_entries>>
      BY <2>1, <2>7
    <3>2. /\ dp_copy'.to = f /\ dp_copy'.from = dp_copy.from
          /\ dp_copy'.at = dp_copy.at + n /\ dp_copy'.left = dp_copy.left - n
      BY <3>1 DEF DpContent, DpInv, DpScalars, CopyRecord
    <3>3. CopyAim' = CopyAim /\ CopyBase' = CopyBase
      BY <3>1, <3>2 DEF CopyAim, CopyBase
    <3>4. dp_file'[f] = c
      BY <2>5, PutIs
    <3>5. Len(dp_file[f]) \in Nat /\ Len(CopyAim) \in Nat /\ Len(c) = Len(dp_file[f]) + n
      BY <1>1, <2>2, <2>7, AimIs DEF DpContent, Content
    <3>6. CopyFrom' = CopyFrom
      <4>1. CopyFrom' = dp_copy'.at - Len(dp_file'[dp_copy'.to]) /\ CopyFrom = dp_copy.at - Len(dp_file[f])
        BY DEF CopyFrom
      <4>2. CopyFrom' = (dp_copy.at + n) - Len(c)
        BY <3>2, <3>4, <4>1
      <4>. QED
        BY <1>1, <1>2, <3>5, <4>1, <4>2
    <3>7. Len(c) + (dp_copy.left - n) = Len(CopyAim)
      BY <1>1, <1>2, <2>3, <3>5
    <3>. QED
      BY <1>1, <2>2, <2>3, <2>6, <3>1, <3>2, <3>3, <3>4, <3>6, <3>7 DEF DpAhead, Measured
  <2>8. CASE k # n
    <3>1. dp_pc' # "copy"
      BY <1>3, <2>1, <2>8
    <3>. QED
      BY <2>6, <3>1 DEF DpAhead
  <2>. QED
    BY <2>7, <2>8
<1>. QED
  BY <1>4, <1>5 DEF write_file_from_fd

LEMMA EntryContent == ASSUME DpContent, DpEntry PROVE DpBegun' /\ DpAhead'
<1>. DEFINE p == Job[1]
            e == Head(dp_entries)
            f == NameOf(p, e.name)
<1>1. dp_pc = "entry" /\ InDir
  BY DEF DpEntry, InDir
<1>2. p \in Sloader /\ p \in Source /\ dp_entries \in Seq(HeaderEntry) /\ Exists(p, "bin")
  BY <1>1, InDirIs DEF DpContent, DpInv, DpPlaced
<1>3. CASE UNCHANGED <<dp_file, dp_astray>> /\ dp_pc' # "copy"
  BY <1>3, QuietContent DEF DpContent
<1>4. ASSUME NEW at, dp_entries # <<>>, Put(f, <<>>), dp_pc' = "copy",
             dp_copy' = [to |-> f, from |-> Bin(p), at |-> at, left |-> e.size],
             UNCHANGED <<dp_jobs, dp_entries>>,
             \/ at = Sector * e.pos /\ dp_astray' = dp_astray \ {f}
             \/ at = dp_copy.at /\ dp_astray' = dp_astray \cup {f}
      PROVE  DpBegun' /\ DpAhead'
  <2>1. e \in HeaderEntry
    BY <1>2, <1>4
  <2>2. /\ e.size \in Nat /\ Sector * e.pos \in Nat /\ dp_copy.at \in Nat
        /\ \A h \in HeaderEntry : h.name \notin {"bin", "dir", "sha256"}
    BY <2>1, HeaderIs DEF DpContent, DpInv, DpScalars, CopyRecord
  <2>3. f[2] = p /\ f[3] = e.name
    BY DEF NameOf
  <2>4. StartsWith(Bin(p), Data(p))
    <3>. DEFINE b == NameOf(p, "bin")
    <3>1. b \in DOMAIN dp_file /\ b[2] = p /\ b[3] = "bin" /\ p \in Dumps
      BY <1>2 DEF Exists, NameOf, Dumps
    <3>2. Started(b, dp_file[b], dp_astray)
      BY <3>1 DEF DpContent, DpBegun
    <3>. QED
      BY <2>2, <3>1, <3>2 DEF Started, Bin
  <2>5. Len(Region(p, e)) = e.size /\ Len(<<>>) = 0
    BY <1>2, <2>1, RegionIs
  <2>6. at \in Nat /\ (f \notin dp_astray' => at = Sector * e.pos)
    BY <1>4, <2>2
  <2>7. UnitsFrom(<<>>, p, at) /\ UnitsFrom(<<>>, p, Sector * e.pos)
    BY DEF UnitsFrom
  <2>8. Started(f, <<>>, dp_astray')
    <3>1. Stretch(f, <<>>, e, dp_astray')
      BY <2>2, <2>3, <2>5, <2>7 DEF Stretch
    <3>. QED
      BY <2>1, <2>3, <3>1 DEF Started
  <2>9. DpBegun'
    <3>1. \A g : g # f => (g \in dp_astray' <=> g \in dp_astray)
      BY <1>4
    <3>. QED
      BY <1>4, <2>8, <3>1, PutBegun DEF DpContent
  <2>10. /\ dp_copy'.to = f /\ dp_copy'.from = Bin(p) /\ dp_copy'.at = at
         /\ dp_copy'.left = e.size
    BY <1>4
  <2>11. dp_file'[f] = <<>>
    BY <1>4, PutIs
  <2>12. CopyAim' = Region(p, e) /\ CopyBase' = Sector * e.pos /\ CopyFrom' = at
    <3>1. CopyFrom' = at - 0
      BY <2>5, <2>10, <2>11 DEF CopyFrom
    <3>. QED
      BY <1>4, <2>3, <2>6, <2>10, <3>1 DEF CopyAim, CopyBase
  <2>13. dp_entries' # <<>>
    BY <1>4
  <2>. HIDE DEF f, p, e
  <2>14. DpAhead'
    BY <2>2, <2>3, <2>4, <2>5, <2>6, <2>7, <2>10, <2>11, <2>12, <2>13 DEF DpAhead
  <2>. QED
    BY <2>9, <2>14
<1>5. \/ UNCHANGED <<dp_file, dp_astray>> /\ dp_pc' # "copy"
      \/ \E at : /\ dp_entries # <<>> /\ Put(f, <<>>) /\ dp_pc' = "copy"
                 /\ dp_copy' = [to |-> f, from |-> Bin(p), at |-> at, left |-> e.size]
                 /\ UNCHANGED <<dp_jobs, dp_entries>>
                 /\ \/ at = Sector * e.pos /\ dp_astray' = dp_astray \ {f}
                    \/ at = dp_copy.at /\ dp_astray' = dp_astray \cup {f}
  BY <1>1 DEF DpEntry, SlbSeek, NextJob
<1>. QED
  BY <1>3, <1>4, <1>5

LEMMA OtherContent ==
    ASSUME DpContent,
           \/ DpStart \/ DpFinish \/ DpSkip \/ slb2_extraction \/ DpPowerOff
           \/ DpMkdir \/ slb2_check_sha256 \/ DpNvs \/ DpVisible \/ DpLeafs \/ DpLeaf
    PROVE  DpBegun' /\ DpAhead'
<1>. DEFINE Goal == DpBegun' /\ DpAhead'
<1>0. UNCHANGED dp_astray
  BY DEF DpStart, DpFinish, DpSkip, slb2_extraction, DpPowerOff, DpMkdir, slb2_check_sha256, DpNvs,
     DpVisible, DpLeafs, DpLeaf
<1>1. CASE DpStart \/ DpFinish \/ DpSkip \/ slb2_extraction \/ DpPowerOff
  <2>1. UNCHANGED dp_file /\ dp_pc' # "copy"
    BY <1>1 DEF DpStart, DpFinish, DpSkip, slb2_extraction, DpPowerOff, NextJob
  <2>. QED
    BY <1>0, <2>1, QuietContent DEF DpContent
<1>2. CASE DpMkdir
  <2>1. dp_pc' # "copy" /\ (UNCHANGED dp_file \/ Put(NameOf(Job[1], "dir"), <<>>))
    BY <1>2 DEF DpMkdir
  <2>2. Started(NameOf(Job[1], "dir"), <<>>, dp_astray)
    BY DEF Started, NameOf
  <2>. QED
    BY <1>0, <2>1, <2>2, PutBegun, QuietContent DEF DpContent, DpAhead
<1>3. CASE slb2_check_sha256
  <2>. DEFINE f == NameOf(Job[1], "sha256")
  <2>1. dp_pc' # "copy"
    BY <1>3 DEF slb2_check_sha256
  <2>2. UNCHANGED dp_file \/ (\E data : write_file(f, data)) \/ \E c : Put(f, c)
    BY <1>3 DEF slb2_check_sha256
  <2>3. f[3] = "sha256"
    BY DEF NameOf
  <2>4. \A c : Started(f, c, dp_astray)
    BY <2>3 DEF Started
  <2>. QED
    BY <1>0, <2>1, <2>2, <2>3, <2>4, PutBegun, WriteBegun, QuietContent DEF DpContent, DpAhead
<1>4. CASE DpNvs
  <2>. DEFINE f == NameOf("nvs", "bin")
  <2>1. dp_pc' # "copy"
    BY <1>4 DEF DpNvs, NextJob
  <2>2. UNCHANGED dp_file \/ (\E data : write_file(f, data)) \/ \E c : Put(f, c)
    BY <1>4 DEF DpNvs
  <2>3. f[2] \notin Dumps
    BY DEF NameOf, Dumps, Sloader
  <2>. QED
    BY <1>0, <2>1, <2>2, <2>3, PutBegun, WriteBegun, QuietContent DEF DpContent, DpAhead
<1>5. CASE DpVisible
  <2>. DEFINE f == NameOf("vid", "bin")
              z == NameOf("vid", "zero")
  <2>1. dp_pc' # "copy"
    BY <1>5 DEF DpVisible, NextJob
  <2>2. UNCHANGED dp_file \/ (\E data : write_file(f, data)) \/ \E c : Put(z, c)
    BY <1>5 DEF DpVisible
  <2>3. f[2] \notin Dumps /\ z[2] \notin Dumps
    BY DEF NameOf, Dumps, Sloader
  <2>. QED
    BY <1>0, <2>1, <2>2, <2>3, PutBegun, WriteBegun, QuietContent DEF DpContent, DpAhead
<1>6. CASE DpLeafs
  <2>. DEFINE f == NameOf("leaf", "dir")
  <2>1. dp_pc' # "copy"
    BY <1>6 DEF DpLeafs, NextJob
  <2>2. UNCHANGED dp_file \/ \E c : Put(f, c)
    BY <1>6 DEF DpLeafs
  <2>3. f[2] \notin Dumps
    BY DEF NameOf, Dumps, Sloader
  <2>. QED
    BY <1>0, <2>1, <2>2, <2>3, PutBegun, QuietContent DEF DpContent, DpAhead
<1>7. CASE DpLeaf
  <2>. DEFINE f == NameOf("leaf", Head(dp_entries))
  <2>1. dp_pc' # "copy"
    BY <1>7 DEF DpLeaf, NextJob
  <2>2. UNCHANGED dp_file \/ \E data : write_file(f, data)
    BY <1>7 DEF DpLeaf
  <2>3. f[2] \notin Dumps
    BY DEF NameOf, Dumps, Sloader
  <2>. QED
    BY <1>0, <2>1, <2>2, <2>3, WriteBegun, QuietContent DEF DpContent, DpAhead
<1>. QED
  BY <1>1, <1>2, <1>3, <1>4, <1>5, <1>6, <1>7

LEMMA ContentKeeps == DpContent /\ [DpNext]_dpVars => DpContent'
<1>. SUFFICES ASSUME DpContent, [DpNext]_dpVars PROVE DpContent'
  OBVIOUS
<1>1. DpInv'
  BY DpKeeps DEF DpContent
<1>0. DpStray'
  BY StrayKeeps DEF DpContent
<1>2. CASE DpNext
  BY <1>0, <1>1, <1>2, DumpContent, CopyContent, EntryContent, OtherContent
  DEF DpNext, DpStep, DpContent
<1>3. CASE UNCHANGED dpVars
  BY <1>0, <1>1, <1>3 DEF dpVars, DpContent, DpBegun, DpAhead, CopyAim, CopyBase, CopyFrom
<1>. QED
  BY <1>2, <1>3

LEMMA ContentAlways == DpSpec => []DpContent
<1>1. DpInit => DpContent
  BY InitInv DEF DpInit, DpContent, DpStray, DpBegun, DpAhead
<1>. QED
  BY <1>1, ContentKeeps, PTL DEF DpSpec

-----------------------------------------------------------------------------
(* Dumpers: what a start leaves when nothing fails *)

\* s is what is left of t.
TailOf(s, t) ==
    Len(s) =< Len(t) /\ \A i \in 1..Len(s) : s[i] = t[Len(t) - Len(s) + i]

ImageWhole(d, p) == <<d, p, "bin">> \in DOMAIN dp_file /\ dp_file[<<d, p, "bin">>] = Data(p)
HashWhole(d, p) ==
    /\ <<d, p, "sha256">> \in DOMAIN dp_file
    /\ dp_file[<<d, p, "sha256">>] = <<<<p, SlbEnd(SlbHeader[p])>>>>
EntryWhole(d, p, e) ==
    <<d, p, e.name>> \in DOMAIN dp_file /\ dp_file[<<d, p, e.name>>] = Region(p, e)
DirWhole(d, p) ==
    Measured(p) =>
       /\ ImageWhole(d, p) /\ HashWhole(d, p)
       /\ \A i \in 1..Len(SlbHeader[p]) : EntryWhole(d, p, SlbHeader[p][i])

\* The copy is at the file f; the directory of p on drive d is being filled.
Busy(f) == dp_pc = "copy" /\ dp_copy.to = f
Filling(d, p) == InDir /\ d = dp_drv /\ p = Job[1]

ImagesWhole ==
    \A d \in DpDrive, p \in Dumps :
       <<d, p, "bin">> \in DOMAIN dp_file /\ ~Busy(<<d, p, "bin">>) => ImageWhole(d, p)
DirsWhole ==
    \A d \in DpDrive, p \in Sloader :
       <<d, p, "dir">> \in DOMAIN dp_file /\ ~Filling(d, p) => DirWhole(d, p)

\* The loop over the entries of p: those behind it are whole.
EntriesWhole(p) ==
    LET h == SlbHeader[p] IN
    /\ TailOf(dp_entries, h)
    /\ \A i \in 1..(Len(h) - Len(dp_entries)) : EntryWhole(dp_drv, p, h[i])

FillingWhole ==
    InDir =>
       /\ Exists(Job[1], "dir")
       /\ Measured(Job[1]) =>
             /\ ImageWhole(dp_drv, Job[1])
             /\ dp_pc # "sha256" => HashWhole(dp_drv, Job[1])
       /\ dp_pc \in {"entry", "copy"} => Measured(Job[1]) /\ EntriesWhole(Job[1])

SourceWhole ==
    dp_pc = "copy" => dp_copy.from = Data(dp_copy.to[2]) /\ dp_copy.to \notin dp_astray

\* What the jobs have behind them is there.
JobDone(j) ==
    /\ j[2] = "bin" => Exists(j[1], "bin") \/ ~Measured(j[1])
    /\ j[2] = "dir" => Exists(j[1], "dir")
JobsDone ==
    dp_pc # "off" \/ dp_ran =>
       LET all == Jobs[dp_plugin] IN
       /\ TailOf(dp_jobs, all)
       /\ \A i \in 1..(Len(all) - Len(dp_jobs)) : JobDone(all[i])

RanIsOff == dp_ran => dp_pc = "off" /\ dp_jobs = <<>>

AllWhole == ImagesWhole /\ DirsWhole /\ FillingWhole /\ SourceWhole /\ JobsDone
DpGood == DpContent /\ RanIsOff /\ (dp_fails = 0 => AllWhole)

LEMMA TailTail ==
    ASSUME NEW S, NEW T, NEW s \in Seq(S), NEW t \in Seq(T), TailOf(s, t), s # <<>>
    PROVE  /\ TailOf(Tail(s), t) /\ Len(t) - Len(Tail(s)) = Len(t) - Len(s) + 1
           /\ Head(s) = t[Len(t) - Len(s) + 1] /\ Len(t) - Len(s) + 1 \in 1..Len(t)
<1>1. Len(s) \in Nat \ {0} /\ Len(t) \in Nat /\ Len(s) =< Len(t)
  BY DEF TailOf
<1>2. Len(Tail(s)) = Len(s) - 1 /\ \A i \in 1..(Len(s) - 1) : Tail(s)[i] = s[i + 1]
  BY <1>1
<1>3. Head(s) = s[1]
  OBVIOUS
<1>. DEFINE r == Tail(s)
<1>. HIDE DEF r
<1>4. Len(r) = Len(s) - 1 /\ \A i \in 1..(Len(s) - 1) : r[i] = s[i + 1]
  BY <1>2 DEF r
<1>5. \A i \in 1..Len(s) : s[i] = t[Len(t) - Len(s) + i]
  BY DEF TailOf
<1>6. ASSUME NEW i \in 1..Len(r) PROVE r[i] = t[Len(t) - Len(r) + i]
  <2>1. /\ i \in 1..(Len(s) - 1) /\ i + 1 \in 1..Len(s)
        /\ Len(t) - Len(r) + i = Len(t) - Len(s) + (i + 1)
    BY <1>1, <1>4
  <2>. QED
    BY <1>4, <1>5, <2>1
<1>7. TailOf(r, t)
  BY <1>1, <1>4, <1>6 DEF TailOf
<1>8. 1 \in 1..Len(s) /\ Len(t) - Len(s) + 1 \in 1..Len(t) /\ Len(t) - Len(r) = Len(t) - Len(s) + 1
  BY <1>1, <1>4
<1>. QED
  BY <1>3, <1>5, <1>7, <1>8 DEF r

\* A step in which nothing fails is one that works.
LEMMA NothingFails ==
    ASSUME DpInv, DpNext, dp_fails' = 0
    PROVE  dp_fails = 0 /\ ~Fails
<1>1. dp_fails \in Nat
  BY DEF DpInv, DpScalars
<1>2. ~Fails
  BY <1>1 DEF Fails
<1>3. dp_fails' = dp_fails \/ Fails
  BY DEF DpNext, DpStep, DpStart, DpFinish, DpSkip, slb2_dump, write_file_from_fd, CopyChunk,
         DpMkdir, slb2_check_sha256, slb2_extraction, DpEntry, DpNvs, DpVisible, DpLeafs, DpLeaf,
         DpPowerOff, SlbSeek, write_file, Works
<1>. QED
  BY <1>2, <1>3

LEMMA ImagesKeep ==
    ASSUME DpInv, ImagesWhole, \A g : g[3] = "bin" /\ Busy(g) => Busy(g)',
           \/ UNCHANGED dp_file
           \/ \E f, c : Put(f, c) /\ (f[3] # "bin" \/ f[2] \notin Dumps \/ Busy(f)')
    PROVE  ImagesWhole'
<1>. SUFFICES ASSUME NEW d \in DpDrive, NEW p \in Dumps, <<d, p, "bin">> \in DOMAIN dp_file',
                     ~Busy(<<d, p, "bin">>)'
              PROVE  dp_file'[<<d, p, "bin">>] = Data(p)
  BY DEF ImagesWhole, ImageWhole
<1>. DEFINE g == <<d, p, "bin">>
<1>1. ~Busy(g) /\ g[3] = "bin" /\ g[2] = p
  OBVIOUS
<1>2. CASE UNCHANGED dp_file
  BY <1>1, <1>2 DEF ImagesWhole, ImageWhole
<1>3. ASSUME NEW f, NEW c, Put(f, c), f[3] # "bin" \/ f[2] \notin Dumps \/ Busy(f)'
      PROVE  dp_file'[g] = Data(p)
  <2>1. g # f
    BY <1>1, <1>3
  <2>2. g \in DOMAIN dp_file /\ dp_file'[g] = dp_file[g]
    <3>1. /\ DOMAIN dp_file' = DOMAIN dp_file \cup {f}
          /\ \A h \in DOMAIN dp_file : h # f => dp_file'[h] = dp_file[h]
      BY <1>3, PutIs
    <3>. QED
      BY <2>1, <3>1
  <2>. QED
    BY <1>1, <2>2 DEF ImagesWhole, ImageWhole
<1>. QED
  BY <1>2, <1>3

\* Elsewhere than where a file is put, what was whole is.
LEMMA DirStays ==
    ASSUME NEW d, NEW p, DirWhole(d, p),
           \/ UNCHANGED dp_file
           \/ \E f, c : Put(f, c) /\ (f[1] # d \/ f[2] # p)
    PROVE  DirWhole(d, p)'
<1>1. CASE UNCHANGED dp_file
  BY <1>1 DEF DirWhole, ImageWhole, HashWhole, EntryWhole
<1>2. ASSUME NEW f, NEW c, Put(f, c), f[1] # d \/ f[2] # p
      PROVE  DirWhole(d, p)'
  <2>1. \A x : <<d, p, x>> # f
    BY <1>2
  <2>2. \A x : <<d, p, x>> \in DOMAIN dp_file => /\ <<d, p, x>> \in DOMAIN dp_file'
                                                /\ dp_file'[<<d, p, x>>] = dp_file[<<d, p, x>>]
    <3>1. /\ DOMAIN dp_file' = DOMAIN dp_file \cup {f}
          /\ \A h \in DOMAIN dp_file : h # f => dp_file'[h] = dp_file[h]
      BY <1>2, PutIs
    <3>. QED
      BY <2>1, <3>1
  <2>. QED
    BY <2>2 DEF DirWhole, ImageWhole, HashWhole, EntryWhole
<1>. QED
  BY <1>1, <1>2

LEMMA DirsKeep ==
    ASSUME DirsWhole, \A d \in DpDrive, p \in Sloader : Filling(d, p) => Filling(d, p)',
           \/ UNCHANGED dp_file
           \/ \E f, c : /\ Put(f, c)
                        /\ \/ f[2] \notin Sloader
                           \/ Filling(f[1], f[2])'
                           \/ <<f[1], f[2], "dir">> \notin DOMAIN dp_file /\ f[3] # "dir"
    PROVE  DirsWhole'
<1>. SUFFICES ASSUME NEW d \in DpDrive, NEW p \in Sloader, <<d, p, "dir">> \in DOMAIN dp_file',
                     ~Filling(d, p)'
              PROVE  DirWhole(d, p)'
  BY DEF DirsWhole
<1>1. ~Filling(d, p)
  OBVIOUS
<1>2. CASE UNCHANGED dp_file
  <2>1. DirWhole(d, p)
    BY <1>1, <1>2 DEF DirsWhole
  <2>. QED
    BY <1>2, <2>1, DirStays
<1>3. ASSUME NEW f, NEW c, Put(f, c),
             \/ f[2] \notin Sloader
             \/ Filling(f[1], f[2])'
             \/ <<f[1], f[2], "dir">> \notin DOMAIN dp_file /\ f[3] # "dir"
      PROVE  DirWhole(d, p)'
  <2>1. DOMAIN dp_file' = DOMAIN dp_file \cup {f}
    BY <1>3, PutIs
  <2>2. f[1] # d \/ f[2] # p
    <3>. SUFFICES ASSUME f[1] = d, f[2] = p PROVE FALSE
      OBVIOUS
    <3>1. <<d, p, "dir">> \notin DOMAIN dp_file /\ f[3] # "dir"
      BY <1>3
    <3>2. <<d, p, "dir">> # f
      BY <3>1
    <3>. QED
      BY <2>1, <3>1, <3>2
  <2>3. <<d, p, "dir">> # f
    BY <2>2
  <2>4. DirWhole(d, p)
    BY <1>1, <2>1, <2>3 DEF DirsWhole
  <2>. QED
    BY <1>3, <2>2, <2>4, DirStays
<1>. QED
  BY <1>2, <1>3

\* Files are never removed.
LEMMA FilesGrow ==
    ASSUME DpNext
    PROVE  DOMAIN dp_file \subseteq DOMAIN dp_file'
<1>1. UNCHANGED dp_file \/ \E f, c : Put(f, c)
  <2>1. \A f, data : write_file(f, data) => UNCHANGED dp_file \/ \E c : Put(f, c)
    BY DEF write_file
  <2>. QED
    BY <2>1 DEF DpNext, DpStep, DpStart, DpFinish, DpSkip, slb2_dump, write_file_from_fd, CopyChunk,
         DpMkdir, slb2_check_sha256, slb2_extraction, DpEntry, DpNvs, DpVisible, DpLeafs, DpLeaf,
         DpPowerOff
<1>. QED
  BY <1>1, PutIs

LEMMA DoneStays ==
    ASSUME DOMAIN dp_file \subseteq DOMAIN dp_file', dp_drv' = dp_drv, NEW j, JobDone(j)
    PROVE  JobDone(j)'
BY DEF JobDone, Exists, NameOf

\* The jobs after a step that goes on with the same job, or with the next one
\* when this one is done.
LEMMA JobsStay ==
    ASSUME DpInv, JobsDone, DpNext, dp_pc # "off", UNCHANGED <<dp_plugin, dp_drv, dp_jobs>>
    PROVE  JobsDone'
<1>1. DOMAIN dp_file \subseteq DOMAIN dp_file'
  BY FilesGrow
<1>. QED
  BY <1>1, DoneStays DEF JobsDone

LEMMA JobsNext ==
    ASSUME DpInv, JobsDone, DpNext, dp_pc # "off", UNCHANGED <<dp_plugin, dp_drv>>, NextJob,
           dp_jobs # <<>>, NEW j, j = Job, JobDone(j)'
    PROVE  JobsDone'
<1>. DEFINE all == Jobs[dp_plugin]
            n == Len(all) - Len(dp_jobs)
<1>1. DOMAIN dp_file \subseteq DOMAIN dp_file'
  BY FilesGrow
<1>2. TailOf(dp_jobs, all) /\ \A i \in 1..n : JobDone(all[i])
  BY DEF JobsDone
<1>3. all \in Seq(JobPair) /\ dp_jobs \in Seq(JobPair)
  BY JobsTyped DEF DpInv, DpScalars
<1>4. dp_jobs' = Tail(dp_jobs) /\ all' = all
  BY DEF NextJob
<1>. HIDE DEF all
<1>5. /\ TailOf(Tail(dp_jobs), all) /\ Len(all) - Len(Tail(dp_jobs)) = n + 1
      /\ Head(dp_jobs) = all[n + 1]
  BY <1>2, <1>3, TailTail
<1>6. n \in Nat
  BY <1>2, <1>3 DEF TailOf
<1>7. ASSUME NEW i \in 1..(n + 1) PROVE JobDone(all[i])'
  <2>1. CASE i \in 1..n
    BY <1>1, <1>2, <2>1, DoneStays, <1>4
  <2>2. CASE i = n + 1
    <3>1. all[i] = j
      BY <1>5, <2>2 DEF Job
    <3>2. all'[i] = j
      BY <1>4, <3>1
    <3>. QED
      BY <3>2 DEF JobDone
  <2>. QED
    BY <1>6, <2>1, <2>2
<1>. QED
  BY <1>4, <1>5, <1>7 DEF JobsDone, all

LEMMA StartGood == ASSUME DpGood, DpNext, DpStart, dp_fails' = 0 PROVE AllWhole'
<1>1. DpInv /\ AllWhole
  BY NothingFails DEF DpGood, DpContent
<1>2. ~Fails /\ UNCHANGED dp_file /\ dp_pc = "off"
  BY <1>1, NothingFails DEF DpStart
<1>3. dp_pc' = "job" /\ dp_jobs' = Jobs[dp_plugin] /\ dp_plugin' = dp_plugin
  BY <1>2 DEF DpStart
<1>4. ImagesWhole'
  BY <1>1, <1>2, ImagesKeep DEF AllWhole, Busy
<1>5. DirsWhole'
  BY <1>1, <1>2, DirsKeep DEF AllWhole, Filling, InDir
<1>6. FillingWhole' /\ SourceWhole'
  BY <1>3 DEF FillingWhole, SourceWhole, InDir
<1>7. JobsDone'
  <2>. DEFINE all == Jobs[dp_plugin]
  <2>1. Len(all) \in Nat
    BY <1>1, JobsTyped DEF DpInv, DpScalars
  <2>2. dp_jobs' = all /\ all' = all
    BY <1>3
  <2>. HIDE DEF all
  <2>3. TailOf(all, all) /\ Len(all) - Len(all) = 0
    BY <2>1 DEF TailOf
  <2>. QED
    BY <2>2, <2>3 DEF JobsDone, all
<1>. QED
  BY <1>4, <1>5, <1>6, <1>7 DEF AllWhole

LEMMA FinishGood == ASSUME DpGood, DpNext, DpFinish, dp_fails' = 0 PROVE AllWhole'
<1>1. DpInv /\ AllWhole
  BY NothingFails DEF DpGood, DpContent
<1>2. /\ UNCHANGED <<dp_file, dp_drv, dp_plugin, dp_jobs>>
      /\ dp_pc = "job" /\ dp_pc' = "off"
  BY DEF DpFinish
<1>3. ImagesWhole'
  BY <1>1, <1>2, ImagesKeep DEF AllWhole, Busy
<1>4. DirsWhole'
  BY <1>1, <1>2, DirsKeep DEF AllWhole, Filling, InDir
<1>5. FillingWhole' /\ SourceWhole'
  BY <1>2 DEF FillingWhole, SourceWhole, InDir
<1>6. JobsDone'
  BY <1>1, <1>2, JobsStay DEF AllWhole
<1>. QED
  BY <1>3, <1>4, <1>5, <1>6 DEF AllWhole

\* A step from one job to the next in which no file of a partition is put.
LEMMA ElseGood ==
    ASSUME DpInv, AllWhole, DpNext, dp_pc \in {"job", "leaf"}, dp_pc' \in {"job", "leaf"},
           UNCHANGED <<dp_plugin, dp_drv>>,
           UNCHANGED dp_file \/ \E f, c : Put(f, c) /\ f[2] \notin Dumps,
           \/ UNCHANGED dp_jobs
           \/ NextJob /\ dp_jobs # <<>> /\ \E j : j = Job /\ JobDone(j)'
    PROVE  AllWhole'
<1>1. ImagesWhole'
  BY ImagesKeep DEF AllWhole, Busy
<1>2. DirsWhole'
  <2>1. UNCHANGED dp_file \/ \E f, c : Put(f, c) /\ f[2] \notin Sloader
    BY DEF Dumps
  <2>. QED
    BY <2>1, DirsKeep DEF AllWhole, Filling, InDir
<1>3. FillingWhole' /\ SourceWhole'
  BY DEF FillingWhole, SourceWhole, InDir
<1>4. JobsDone'
  BY JobsStay, JobsNext DEF AllWhole
<1>. QED
  BY <1>1, <1>2, <1>3, <1>4 DEF AllWhole

LEMMA SkipGood == ASSUME DpGood, DpNext, DpSkip, dp_fails' = 0 PROVE AllWhole'
<1>1. DpInv /\ AllWhole
  BY NothingFails DEF DpGood, DpContent
<1>2. /\ UNCHANGED <<dp_plugin, dp_drv, dp_file>> /\ NextJob /\ dp_jobs # <<>>
      /\ dp_pc = "job" /\ dp_pc' = "job" /\ Dumped(Job)
  BY DEF DpSkip, NextJob
<1>3. PICK j : j = Job
  OBVIOUS
<1>4. JobDone(j)
  BY <1>2, <1>3 DEF Dumped, JobDone
<1>5. JobDone(j)'
  BY <1>2, <1>4 DEF JobDone, Exists, NameOf
<1>. QED
  BY <1>1, <1>2, <1>3, <1>5, ElseGood

\* The jobs of which nothing is asked.
LEMMA ElsewhereGood ==
    ASSUME DpGood, DpNext, DpNvs \/ DpVisible \/ DpLeafs \/ DpLeaf, dp_fails' = 0
    PROVE  AllWhole'
<1>1. DpInv /\ AllWhole
  BY NothingFails DEF DpGood, DpContent
<1>2. /\ UNCHANGED <<dp_plugin, dp_drv>> /\ dp_pc \in {"job", "leaf"} /\ dp_pc' \in {"job", "leaf"}
      /\ UNCHANGED dp_jobs \/ (NextJob /\ dp_jobs # <<>>)
  BY <1>1 DEF DpNvs, DpVisible, DpLeafs, DpLeaf, ToDo, NextJob, DpInv, DpPlaced
<1>3. UNCHANGED dp_file \/ \E f, c : Put(f, c) /\ f[2] \notin Dumps
  <2>1. \A f, data : write_file(f, data) => UNCHANGED dp_file \/ \E c : Put(f, c)
    BY DEF write_file
  <2>2. \A name : /\ NameOf("nvs", name)[2] \notin Dumps /\ NameOf("vid", name)[2] \notin Dumps
                  /\ NameOf("leaf", name)[2] \notin Dumps
    BY DEF NameOf, Dumps, Sloader
  <2>3. CASE DpNvs
    <3>1. UNCHANGED dp_file \/ \E c : Put(NameOf("nvs", "bin"), c)
      BY <2>1, <2>3 DEF DpNvs
    <3>. QED
      BY <2>2, <3>1
  <2>4. CASE DpVisible
    <3>1. UNCHANGED dp_file \/ \E c, name : Put(NameOf("vid", name), c)
      BY <2>1, <2>4 DEF DpVisible
    <3>. QED
      BY <2>2, <3>1
  <2>5. CASE DpLeafs
    <3>1. UNCHANGED dp_file \/ \E c : Put(NameOf("leaf", "dir"), c)
      BY <2>5 DEF DpLeafs
    <3>. QED
      BY <2>2, <3>1
  <2>6. CASE DpLeaf
    <3>1. UNCHANGED dp_file \/ \E c, name : Put(NameOf("leaf", name), c)
      BY <2>1, <2>6 DEF DpLeaf
    <3>. QED
      BY <2>2, <3>1
  <2>. QED
    BY <2>3, <2>4, <2>5, <2>6
<1>4. ASSUME dp_jobs # <<>> PROVE \E j : j = Job /\ JobDone(j)'
  <2>1. PICK j : j = Job
    OBVIOUS
  <2>2. j[2] \in {"data", "id", "leafs"}
    <3>1. CASE DpLeaf
      BY <1>1, <2>1, <3>1 DEF DpLeaf, DpInv, DpPlaced
    <3>2. CASE DpNvs \/ DpVisible \/ DpLeafs
      BY <2>1, <3>2 DEF DpNvs, DpVisible, DpLeafs, ToDo
    <3>. QED
      BY <3>1, <3>2
  <2>3. JobDone(j)'
    BY <2>2 DEF JobDone
  <2>. QED
    BY <2>1, <2>3
<1>. QED
  BY <1>1, <1>2, <1>3, <1>4, ElseGood

LEMMA WholeImage ==
    ASSUME DpInv, NEW p \in Dumps, ImageWhole(dp_drv, p)
    PROVE  Exists(p, "bin") /\ Bin(p) = Data(p) /\ Len(Bin(p)) = DpSize[p]
<1>1. p \in Source
  BY DEF Dumps, Source
<1>. QED
  BY <1>1, DataTyped DEF ImageWhole, Exists, Bin, NameOf

LEMMA DumpGood == ASSUME DpGood, DpNext, slb2_dump, dp_fails' = 0 PROVE AllWhole'
<1>1. DpInv /\ AllWhole /\ ~Fails
  BY NothingFails DEF DpGood, DpContent
<1>2. PICK p, f : p = Job[1] /\ f = NameOf(p, "bin")
  OBVIOUS
<1>3. /\ dp_pc = "job" /\ Job \in JobPair /\ Job[2] = "bin" /\ dp_entries = <<>>
      /\ f \notin DOMAIN dp_file
  BY <1>1, <1>2, ToDoIs DEF slb2_dump
<1>4. f = <<dp_drv, p, "bin">> /\ f[1] = dp_drv /\ f[2] = p /\ f[3] = "bin"
  BY <1>2 DEF NameOf
<1>. DEFINE Copies ==
              /\ Measured(p) /\ Put(f, <<>>) /\ dp_pc' = "copy"
              /\ dp_copy' = [to |-> f, from |-> Data(p), at |-> 0, left |-> DpSize[p]]
              /\ UNCHANGED <<dp_jobs, dp_entries>>
<1>a. UNCHANGED <<dp_plugin, dp_drv, dp_astray>>
  BY DEF slb2_dump
<1>b. Copies \/ (~Measured(p) /\ NextJob /\ UNCHANGED dp_file)
  BY <1>1, <1>2 DEF slb2_dump
<1>c. CASE ~Measured(p) /\ NextJob /\ UNCHANGED dp_file
  <2>1. PICK j : j = Job
    OBVIOUS
  <2>2. j[2] = "bin" /\ ~Measured(j[1])
    BY <1>2, <1>3, <1>c, <2>1
  <2>3. JobDone(j)'
    BY <2>2 DEF JobDone
  <2>4. dp_jobs # <<>> /\ dp_pc' = "job"
    BY <1>c DEF slb2_dump, ToDo, NextJob
  <2>. QED
    BY <1>1, <1>3, <1>a, <1>c, <2>1, <2>3, <2>4, ElseGood
<1>. SUFFICES ASSUME Copies PROVE AllWhole'
  BY <1>b, <1>c
<1>5. /\ Measured(p) /\ Put(f, <<>>) /\ dp_pc' = "copy"
      /\ dp_copy' = [to |-> f, from |-> Data(p), at |-> 0, left |-> DpSize[p]]
      /\ UNCHANGED <<dp_jobs, dp_entries, dp_plugin, dp_drv, dp_astray>>
  BY <1>a
<1>6. Busy(f)' /\ dp_copy'.to = f /\ dp_copy'.from = Data(p)
  BY <1>5 DEF Busy
<1>7. ImagesWhole'
  BY <1>1, <1>3, <1>5, <1>6, ImagesKeep DEF AllWhole, Busy
<1>8. DirsWhole'
  <2>1. \A d \in DpDrive, q \in Sloader : ~Filling(d, q)
    BY <1>3 DEF Filling, InDir
  <2>2. f[2] \notin Sloader \/ <<f[1], f[2], "dir">> \notin DOMAIN dp_file
    <3>. SUFFICES ASSUME p \in Sloader, <<dp_drv, p, "dir">> \in DOMAIN dp_file PROVE FALSE
      BY <1>4
    <3>1. dp_drv \in DpDrive
      BY <1>1 DEF DpInv, DpScalars
    <3>2. DirWhole(dp_drv, p)
      BY <1>1, <2>1, <3>1 DEF AllWhole, DirsWhole
    <3>. QED
      BY <1>3, <1>4, <1>5, <3>2 DEF DirWhole, ImageWhole
  <2>3. f[3] # "dir"
    BY <1>4
  <2>. QED
    BY <1>1, <1>5, <2>1, <2>2, <2>3, DirsKeep DEF AllWhole
<1>9. FillingWhole'
  BY <1>3, <1>5 DEF FillingWhole, InDir
<1>10. SourceWhole'
  <2>1. f \notin dp_astray
    BY <1>3 DEF DpGood, DpContent, DpStray
  <2>. QED
    BY <1>4, <1>5, <1>6, <2>1 DEF SourceWhole
<1>11. JobsDone'
  BY <1>1, <1>3, <1>5, JobsStay DEF AllWhole
<1>. QED
  BY <1>7, <1>8, <1>9, <1>10, <1>11 DEF AllWhole

\* The header the loop over the entries goes through, and where it stands.
LEMMA HeaderOf ==
    ASSUME NEW p \in Sloader
    PROVE  /\ SlbHeader[p] \in Seq(HeaderEntry) /\ SlbHeader[p] # <<>>
           /\ SlbEnd(SlbHeader[p]) =< DpSize[p] /\ DpSize[p] >= Sector
           /\ \A i \in 1..Len(SlbHeader[p]) :
                 Sector * SlbHeader[p][i].pos + SlbHeader[p][i].size =< DpSize[p]
           /\ \A i, j \in 1..Len(SlbHeader[p]) :
                 SlbHeader[p][i].name = SlbHeader[p][j].name => i = j
<1>1. SlbHeader[p] \in Seq(SlbEntry) /\ SlbFits(p) /\ DpSize[p] >= Sector
  BY DumpersAssumption DEF DumpersAssumption
<1>2. DOMAIN SlbHeader[p] = 1..Len(SlbHeader[p])
  BY <1>1
<1>3. \A i \in 1..Len(SlbHeader[p]) : SlbHeader[p][i] \in HeaderEntry
  BY <1>2 DEF HeaderEntry, Range
<1>4. SlbHeader[p] \in Seq(HeaderEntry)
  BY <1>1, <1>3
<1>. QED
  BY <1>1, <1>2, <1>4 DEF SlbFits

LEMMA EntryAt ==
    ASSUME DpInv, FillingWhole, InDir, dp_pc \in {"entry", "copy"}, dp_entries # <<>>,
           NEW p, p = Job[1], NEW m, m = Len(SlbHeader[p]) - Len(dp_entries)
    PROVE  /\ p \in Sloader /\ Measured(p)
           /\ m + 1 \in 1..Len(SlbHeader[p]) /\ m \in Nat
           /\ Head(dp_entries) = SlbHeader[p][m + 1] /\ Head(dp_entries) \in HeaderEntry
           /\ TailOf(Tail(dp_entries), SlbHeader[p])
           /\ Len(SlbHeader[p]) - Len(Tail(dp_entries)) = m + 1
<1>1. p \in Sloader /\ dp_entries \in Seq(HeaderEntry)
  BY InDirIs
<1>2. SlbHeader[p] \in Seq(HeaderEntry)
  BY <1>1, HeaderOf
<1>3. TailOf(dp_entries, SlbHeader[p]) /\ Measured(p)
  BY DEF FillingWhole, EntriesWhole
<1>4. m \in Nat
  BY <1>1, <1>2, <1>3 DEF TailOf
<1>. QED
  BY <1>1, <1>2, <1>3, <1>4, TailTail

\* What is written to the entry the loop is at leaves the others as they are.
LEMMA FillStays ==
    ASSUME DpInv, FillingWhole, InDir, dp_pc \in {"entry", "copy"}, dp_entries # <<>>,
           NEW c, Put(NameOf(Job[1], Head(dp_entries).name), c),
           UNCHANGED <<dp_drv, dp_jobs, dp_entries>>, dp_pc' = "copy"
    PROVE  FillingWhole'
<1>1. PICK p, m, f : /\ p = Job[1] /\ m = Len(SlbHeader[p]) - Len(dp_entries)
                     /\ f = NameOf(p, Head(dp_entries).name)
  OBVIOUS
<1>2. /\ p \in Sloader /\ m + 1 \in 1..Len(SlbHeader[p]) /\ m \in Nat /\ Measured(p)
      /\ Head(dp_entries) = SlbHeader[p][m + 1] /\ Head(dp_entries) \in HeaderEntry
  BY <1>1, EntryAt
<1>3. Head(dp_entries).name \notin {"bin", "dir", "sha256"}
  BY <1>2, HeaderIs
<1>4. f = <<dp_drv, p, Head(dp_entries).name>>
  BY <1>1 DEF NameOf
<1>5. /\ f # <<dp_drv, p, "bin">> /\ f # <<dp_drv, p, "dir">> /\ f # <<dp_drv, p, "sha256">>
  BY <1>3, <1>4
<1>6. \A i \in 1..m : f # <<dp_drv, p, SlbHeader[p][i].name>>
  <2>. TAKE i \in 1..m
  <2>1. i \in 1..Len(SlbHeader[p]) /\ i # m + 1
    BY <1>2
  <2>2. SlbHeader[p][i].name # SlbHeader[p][m + 1].name
    BY <1>2, <2>1, HeaderOf
  <2>. QED
    BY <1>2, <1>4, <2>2
<1>7. \A g \in DOMAIN dp_file : g # f => g \in DOMAIN dp_file' /\ dp_file'[g] = dp_file[g]
  <2>1. /\ DOMAIN dp_file' = DOMAIN dp_file \cup {f}
        /\ \A g \in DOMAIN dp_file : g # f => dp_file'[g] = dp_file[g]
    BY <1>1, PutIs
  <2>. QED
    BY <2>1
<1>8. /\ ImageWhole(dp_drv, p) /\ Exists(p, "dir") /\ HashWhole(dp_drv, p)
      /\ TailOf(dp_entries, SlbHeader[p])
      /\ \A i \in 1..m : EntryWhole(dp_drv, p, SlbHeader[p][i])
  BY <1>1, <1>2 DEF FillingWhole, EntriesWhole
<1>9. dp_drv' = dp_drv /\ Job'[1] = p /\ dp_entries' = dp_entries
  BY <1>1 DEF Job
<1>10. PICK d : d = dp_drv
  OBVIOUS
<1>11. ImageWhole(d, p)' /\ HashWhole(d, p)' /\ <<d, p, "dir">> \in DOMAIN dp_file'
  BY <1>5, <1>7, <1>8, <1>10 DEF ImageWhole, HashWhole, Exists, NameOf
<1>12. ASSUME NEW i \in 1..m PROVE EntryWhole(d, p, SlbHeader[p][i])'
  BY <1>6, <1>7, <1>8, <1>10 DEF EntryWhole
<1>13. EntriesWhole(p)'
  BY <1>1, <1>8, <1>9, <1>10, <1>12 DEF EntriesWhole
<1>14. dp_drv' = d /\ Job'[1] = p
  BY <1>9, <1>10
<1>15. ImageWhole(dp_drv, Job[1])' /\ HashWhole(dp_drv, Job[1])' /\ EntriesWhole(Job[1])'
  BY <1>11, <1>13, <1>14 DEF ImageWhole, HashWhole, EntriesWhole, EntryWhole
<1>16. Exists(Job[1], "dir")'
  BY <1>11, <1>14 DEF Exists, NameOf
<1>17. Measured(Job[1])'
  BY <1>2, <1>14 DEF Measured
<1>. QED
  BY <1>15, <1>16, <1>17 DEF FillingWhole

LEMMA SameStarts ==
    ASSUME NEW S, NEW s \in Seq(S), NEW t \in Seq(S), StartsWith(s, t), Len(s) = Len(t)
    PROVE  s = t
BY SeqEqual DEF StartsWith

\* The file the copy is at, in its place.
LEMMA CopyAt ==
    ASSUME DpContent, AllWhole, dp_pc = "copy", NEW f, f = dp_copy.to
    PROVE  /\ f \in DOMAIN dp_file /\ f[1] = dp_drv /\ f[2] = Job[1] /\ f[2] \in Source
           /\ f[2] \in Dumps /\ dp_jobs # <<>> /\ Job \in JobPair
           /\ dp_entries = <<>> => f = <<dp_drv, f[2], "bin">> /\ Job[2] = "bin"
           /\ dp_entries # <<>> => /\ f = <<dp_drv, f[2], Head(dp_entries).name>> /\ InDir
                                   /\ Head(dp_entries).name \notin {"bin", "dir", "sha256"}
                                   /\ Job[2] = "dir"
           /\ dp_file[f] \in Content /\ StartsWith(dp_file[f], CopyAim)
           /\ CopyAim \in Content
           /\ Len(dp_file[f]) + dp_copy.left = Len(CopyAim)
           /\ dp_copy.at = CopyBase + Len(dp_file[f])
           /\ dp_copy.left \in Nat /\ dp_copy.at \in Nat
           /\ Len(dp_copy.from) = DpSize[f[2]]
<1>1. /\ f \in DOMAIN dp_file /\ dp_jobs # <<>> /\ dp_file[f] \in Content
      /\ dp_copy.left \in Nat /\ dp_copy.at \in Nat
  BY DEF DpContent, DpInv, DpScalars, DpPlaced, DpFiles, CopyRecord
<1>2. /\ StartsWith(dp_file[f], CopyAim) /\ Len(dp_file[f]) + dp_copy.left = Len(CopyAim)
      /\ dp_copy.at = CopyBase + Len(dp_file[f])
  BY AheadAim DEF AllWhole, SourceWhole
<1>3. Job \in JobPair
  BY <1>1, JobTyped DEF DpContent, DpInv
<1>4. f[2] \in Source /\ CopyAim \in Content
  BY AimIs DEF DpContent
<1>5. Len(dp_copy.from) = DpSize[f[2]]
  BY <1>4, DataTyped DEF AllWhole, SourceWhole
<1>6. CASE dp_entries = <<>>
  <2>1. Job[2] = "bin" /\ f = NameOf(Job[1], "bin")
    BY <1>6 DEF DpContent, DpInv, DpPlaced
  <2>2. f = <<dp_drv, Job[1], "bin">> /\ f[1] = dp_drv /\ f[2] = Job[1]
    BY <2>1 DEF NameOf
  <2>3. Job[1] \in Dumps
    BY <1>3, <2>1, JobIs DEF Dumps
  <2>. QED
    BY <1>1, <1>2, <1>3, <1>4, <1>5, <1>6, <2>1, <2>2, <2>3
<1>7. CASE dp_entries # <<>>
  <2>1. InDir
    BY <1>7 DEF InDir
  <2>2. Job[2] = "dir" /\ f = NameOf(Job[1], Head(dp_entries).name)
    BY <1>7, <2>1 DEF DpContent, DpInv, DpPlaced
  <2>3. f = <<dp_drv, Job[1], Head(dp_entries).name>> /\ f[1] = dp_drv /\ f[2] = Job[1]
    BY <2>2 DEF NameOf
  <2>4. Job[1] \in Dumps /\ Head(dp_entries) \in HeaderEntry
    BY <1>7, <2>1, InDirIs DEF Dumps, DpContent
  <2>5. Head(dp_entries).name \notin {"bin", "dir", "sha256"}
    BY <2>4, HeaderIs
  <2>. QED
    BY <1>1, <1>2, <1>3, <1>4, <1>5, <1>7, <2>1, <2>2, <2>3, <2>4, <2>5
<1>. QED
  BY <1>6, <1>7

\* What is left of the copy is there to be read.
LEMMA CopyReads ==
    ASSUME DpContent, AllWhole, dp_pc = "copy", NEW n \in Nat, n =< dp_copy.left
    PROVE  dp_copy.at + n =< Len(dp_copy.from)
<1>1. PICK f : f = dp_copy.to
  OBVIOUS
<1>2. /\ f[2] \in Source /\ Len(dp_file[f]) + dp_copy.left = Len(CopyAim)
      /\ dp_copy.at = CopyBase + Len(dp_file[f]) /\ dp_file[f] \in Content
      /\ dp_copy.left \in Nat /\ dp_copy.at \in Nat
      /\ Len(dp_copy.from) = DpSize[f[2]] /\ f[2] = Job[1]
      /\ dp_entries # <<>> => InDir
  BY <1>1, CopyAt
<1>3. CopyBase + Len(CopyAim) =< DpSize[f[2]]
  <2>1. CASE dp_entries = <<>>
    <3>1. CopyBase = 0 /\ CopyAim = Data(f[2])
      BY <1>1, <2>1 DEF CopyBase, CopyAim
    <3>2. DpSize[f[2]] \in Nat /\ Len(CopyAim) = DpSize[f[2]]
      BY <1>2, <3>1, DataTyped
    <3>. QED
      BY <3>1, <3>2
  <2>2. CASE dp_entries # <<>>
    <3>1. PICK p, m : p = Job[1] /\ m = Len(SlbHeader[p]) - Len(dp_entries)
      OBVIOUS
    <3>2. /\ p \in Sloader /\ m + 1 \in 1..Len(SlbHeader[p])
          /\ Head(dp_entries) = SlbHeader[p][m + 1] /\ Head(dp_entries) \in HeaderEntry
      BY <1>2, <2>2, <3>1, EntryAt DEF DpContent, AllWhole
    <3>3. Sector * Head(dp_entries).pos + Head(dp_entries).size =< DpSize[p]
      BY <3>2, HeaderOf
    <3>4. CopyBase = Sector * Head(dp_entries).pos /\ CopyAim = Region(f[2], Head(dp_entries))
      BY <1>1, <2>2 DEF CopyBase, CopyAim
    <3>5. Len(CopyAim) = Head(dp_entries).size
      BY <1>2, <3>2, <3>4, RegionIs
    <3>. QED
      BY <1>2, <3>1, <3>3, <3>4, <3>5
  <2>. QED
    BY <2>1, <2>2
<1>4. DpSize[f[2]] \in Nat /\ Len(dp_file[f]) \in Nat
  BY <1>2, DataTyped DEF Content
<1>5. CopyBase \in Nat
  BY AimIs DEF DpContent
<1>. QED
  BY <1>2, <1>3, <1>4, <1>5

\* A chunk more of the file the copy is at.
LEMMA ChunkGood ==
    ASSUME DpContent, AllWhole, DpNext, dp_pc = "copy", dp_copy.left > 0, NEW c, Put(dp_copy.to, c),
           dp_copy'.to = dp_copy.to, dp_copy'.from = dp_copy.from,
           UNCHANGED <<dp_pc, dp_jobs, dp_entries, dp_plugin, dp_drv, dp_astray>>
    PROVE  AllWhole'
<1>1. DpInv /\ dp_pc' = "copy"
  BY DEF DpContent
<1>2. PICK f : f = dp_copy.to
  OBVIOUS
<1>3. /\ f \in DOMAIN dp_file /\ f[1] = dp_drv /\ f[2] = Job[1]
      /\ f[2] \in Source /\ f[2] \in Dumps
      /\ dp_entries = <<>> => f = <<dp_drv, f[2], "bin">>
      /\ dp_entries # <<>> => f = <<dp_drv, f[2], Head(dp_entries).name>> /\ InDir
      /\ Len(dp_file[f]) + dp_copy.left = Len(CopyAim) /\ dp_copy.left \in Nat
      /\ dp_file[f] \in Content
  BY <1>2, CopyAt
<1>4. ImagesWhole'
  BY <1>1, <1>2, ImagesKeep DEF AllWhole, Busy
<1>5. DirsWhole'
  <2>1. \A d \in DpDrive, q \in Sloader : Filling(d, q) => Filling(d, q)'
    BY DEF Filling, InDir, Job
  <2>2. CASE dp_entries # <<>>
    <3>1. Filling(f[1], f[2])'
      BY <1>3, <2>2 DEF Filling, InDir, Job
    <3>. QED
      BY <1>2, <2>1, <3>1, DirsKeep DEF AllWhole
  <2>3. CASE dp_entries = <<>>
    <3>1. f = <<dp_drv, f[2], "bin">> /\ f[3] = "bin"
      BY <1>3, <2>3
    <3>2. f[2] \notin Sloader \/ <<f[1], f[2], "dir">> \notin DOMAIN dp_file
      <4>. SUFFICES ASSUME f[2] \in Sloader, <<f[1], f[2], "dir">> \in DOMAIN dp_file PROVE FALSE
        OBVIOUS
      <4>1. dp_drv \in DpDrive /\ ~Filling(dp_drv, f[2])
        BY <1>1, <2>3 DEF DpInv, DpScalars, Filling, InDir
      <4>2. DirWhole(dp_drv, f[2])
        BY <1>3, <4>1 DEF AllWhole, DirsWhole
      <4>3. dp_file[f] = Data(f[2])
        <5>1. Measured(f[2])
          BY <1>2, <2>3 DEF DpContent, DpAhead
        <5>. QED
          BY <3>1, <4>2, <5>1 DEF DirWhole, ImageWhole
      <4>4. CopyAim = Data(f[2])
        BY <1>2, <2>3 DEF CopyAim
      <4>5. Len(dp_file[f]) \in Nat
        BY <1>3 DEF Content
      <4>. QED
        BY <1>3, <4>3, <4>4, <4>5
    <3>. QED
      BY <1>2, <2>1, <3>1, <3>2, DirsKeep DEF AllWhole
  <2>. QED
    BY <2>2, <2>3
<1>6. FillingWhole'
  <2>1. CASE dp_entries # <<>>
    <3>1. f = NameOf(Job[1], Head(dp_entries).name) /\ InDir
      BY <1>3, <2>1 DEF NameOf
    <3>. QED
      BY <1>1, <1>2, <2>1, <3>1, FillStays DEF AllWhole
  <2>2. CASE dp_entries = <<>>
    BY <1>1, <2>2 DEF FillingWhole, InDir
  <2>. QED
    BY <2>1, <2>2
<1>7. SourceWhole'
  BY DEF AllWhole, SourceWhole
<1>8. JobsDone'
  BY <1>1, JobsStay DEF AllWhole
<1>. QED
  BY <1>4, <1>5, <1>6, <1>7, <1>8 DEF AllWhole

\* The copy of an image is at its end.
LEMMA ImageEnds ==
    ASSUME DpContent, AllWhole, DpNext, dp_pc = "copy", dp_entries = <<>>, dp_copy.left = 0,
           UNCHANGED <<dp_file, dp_plugin, dp_drv>>, NextJob
    PROVE  AllWhole'
<1>1. DpInv /\ dp_pc' = "job" /\ dp_entries' = <<>>
  BY DEF DpContent, NextJob
<1>2. PICK f, j : f = dp_copy.to /\ j = Job
  OBVIOUS
<1>3. /\ f \in DOMAIN dp_file /\ f = <<dp_drv, f[2], "bin">> /\ f[2] \in Dumps /\ f[2] \in Source
      /\ f[2] = j[1] /\ j[2] = "bin" /\ dp_jobs # <<>>
      /\ dp_file[f] \in Content /\ CopyAim \in Content /\ StartsWith(dp_file[f], CopyAim)
      /\ Len(dp_file[f]) + dp_copy.left = Len(CopyAim)
  BY <1>2, CopyAt
<1>4. CopyAim = Data(f[2])
  BY <1>2 DEF CopyAim
<1>5. dp_file[f] = Data(f[2])
  <2>1. Len(dp_file[f]) \in Nat /\ Len(CopyAim) \in Nat
    BY <1>3 DEF Content
  <2>2. Len(dp_file[f]) = Len(CopyAim)
    BY <1>3, <2>1
  <2>. QED
    BY <1>3, <1>4, <2>2, SameStarts DEF Content
<1>6. ImagesWhole'
  <2>. SUFFICES ASSUME NEW d \in DpDrive, NEW p \in Dumps, <<d, p, "bin">> \in DOMAIN dp_file
                PROVE  dp_file[<<d, p, "bin">>] = Data(p)
    BY DEF ImagesWhole, ImageWhole
  <2>1. CASE <<d, p, "bin">> = f
    BY <1>5, <2>1
  <2>2. CASE <<d, p, "bin">> # f
    BY <1>2, <2>2 DEF AllWhole, ImagesWhole, ImageWhole, Busy
  <2>. QED
    BY <2>1, <2>2
<1>7. DirsWhole'
  BY <1>1, DirsKeep DEF AllWhole, Filling, InDir
<1>8. FillingWhole' /\ SourceWhole'
  BY <1>1 DEF FillingWhole, SourceWhole, InDir
<1>9. JobDone(j)'
  <2>1. <<dp_drv, j[1], "bin">> \in DOMAIN dp_file
    BY <1>3
  <2>. QED
    BY <1>3, <2>1 DEF JobDone, Exists, NameOf
<1>10. JobsDone'
  BY <1>1, <1>2, <1>3, <1>9, JobsNext DEF AllWhole
<1>. QED
  BY <1>6, <1>7, <1>8, <1>10 DEF AllWhole

\* The copy of an entry is at its end.
LEMMA EntryEnds ==
    ASSUME DpContent, AllWhole, DpNext, dp_pc = "copy", dp_entries # <<>>, dp_copy.left = 0,
           dp_pc' = "entry", dp_entries' = Tail(dp_entries),
           UNCHANGED <<dp_file, dp_plugin, dp_drv, dp_jobs>>
    PROVE  AllWhole'
<1>1. DpInv /\ InDir
  BY DEF DpContent, InDir
<1>2. PICK f, p, m, d : /\ f = dp_copy.to /\ p = Job[1] /\ d = dp_drv
                        /\ m = Len(SlbHeader[p]) - Len(dp_entries)
  OBVIOUS
<1>3. /\ f \in DOMAIN dp_file /\ f = <<d, p, Head(dp_entries).name>> /\ f[2] = p
      /\ Head(dp_entries).name # "bin"
      /\ dp_file[f] \in Content /\ CopyAim \in Content /\ StartsWith(dp_file[f], CopyAim)
      /\ Len(dp_file[f]) + dp_copy.left = Len(CopyAim)
  BY <1>2, CopyAt
<1>4. CopyAim = Region(p, Head(dp_entries))
  BY <1>2, <1>3 DEF CopyAim
<1>5. dp_file[f] = Region(p, Head(dp_entries))
  <2>1. Len(dp_file[f]) \in Nat /\ Len(CopyAim) \in Nat
    BY <1>3 DEF Content
  <2>2. Len(dp_file[f]) = Len(CopyAim)
    BY <1>3, <2>1
  <2>. QED
    BY <1>3, <1>4, <2>2, SameStarts DEF Content
<1>6. ImagesWhole'
  <2>1. \A g : g[3] = "bin" => ~Busy(g)
    <3>1. f[3] # "bin"
      BY <1>3
    <3>. QED
      BY <1>2, <3>1 DEF Busy
  <2>. QED
    BY <1>1, <2>1, ImagesKeep DEF AllWhole
<1>7. DirsWhole'
  BY DirsKeep DEF AllWhole, Filling, InDir, Job
<1>8. FillingWhole'
  <2>1. /\ p \in Sloader /\ m + 1 \in 1..Len(SlbHeader[p]) /\ m \in Nat /\ Measured(p)
        /\ Head(dp_entries) = SlbHeader[p][m + 1]
        /\ TailOf(Tail(dp_entries), SlbHeader[p])
        /\ Len(SlbHeader[p]) - Len(Tail(dp_entries)) = m + 1
    BY <1>1, <1>2, EntryAt DEF AllWhole
  <2>2. /\ ImageWhole(d, p) /\ Exists(p, "dir") /\ HashWhole(d, p)
        /\ \A i \in 1..m : EntryWhole(d, p, SlbHeader[p][i])
    BY <1>1, <1>2, <2>1 DEF AllWhole, FillingWhole, EntriesWhole
  <2>3. EntryWhole(d, p, SlbHeader[p][m + 1])
    BY <1>3, <1>5, <2>1 DEF EntryWhole
  <2>4. \A i \in 1..(m + 1) : EntryWhole(d, p, SlbHeader[p][i])
    <3>. TAKE i \in 1..(m + 1)
    <3>1. i \in 1..m \/ i = m + 1
      BY <2>1
    <3>. QED
      BY <2>2, <2>3, <3>1
  <2>5. dp_drv' = d /\ Job'[1] = p
    BY <1>2 DEF Job
  <2>6. ImageWhole(dp_drv, Job[1])' /\ HashWhole(dp_drv, Job[1])'
    BY <2>2, <2>5 DEF ImageWhole, HashWhole
  <2>7. EntriesWhole(Job[1])'
    <3>1. /\ TailOf(dp_entries', SlbHeader[p])
          /\ Len(SlbHeader[p]) - Len(dp_entries') = m + 1
      BY <2>1
    <3>2. \A i \in 1..(m + 1) : EntryWhole(d, p, SlbHeader[p][i])'
      BY <2>4 DEF EntryWhole
    <3>. QED
      BY <2>5, <3>1, <3>2 DEF EntriesWhole, EntryWhole
  <2>8. Exists(Job[1], "dir")' /\ Measured(Job[1])'
    BY <1>2, <2>1, <2>2, <2>5 DEF Exists, NameOf, Measured
  <2>. QED
    BY <2>6, <2>7, <2>8 DEF FillingWhole
<1>9. SourceWhole'
  BY DEF SourceWhole
<1>10. JobsDone'
  BY <1>1, JobsStay DEF AllWhole
<1>. QED
  BY <1>6, <1>7, <1>8, <1>9, <1>10 DEF AllWhole

LEMMA CopyGood == ASSUME DpGood, DpNext, write_file_from_fd, dp_fails' = 0 PROVE AllWhole'
<1>. DEFINE n == ChunkOf(dp_copy.left)
            here == SubSeq(dp_copy.from, dp_copy.at + 1, dp_copy.at + n)
<1>1. DpContent /\ DpInv /\ AllWhole /\ ~Fails
  BY NothingFails DEF DpGood, DpContent
<1>2. /\ dp_pc = "copy" /\ UNCHANGED <<dp_plugin, dp_drv>> /\ dp_copy.left \in Nat
      /\ dp_copy \in CopyRecord /\ UNCHANGED dp_astray
  BY <1>1 DEF write_file_from_fd, DpInv, DpScalars, CopyRecord
<1>3. n \in Nat /\ n =< dp_copy.left /\ (n = 0 => dp_copy.left = 0)
  BY <1>2, ChunkTyped
<1>4. dp_copy.at + n =< Len(dp_copy.from)
  BY <1>1, <1>2, <1>3, CopyReads
<1>5. Len(dp_copy.from) \in Nat /\ dp_copy.at \in Nat
  BY <1>2 DEF Content, CopyRecord
<1>6. CASE n = 0 /\ CopyEnds(dp_copy.at) /\ UNCHANGED dp_file
  <2>1. CASE dp_entries = <<>>
    BY <1>1, <1>2, <1>3, <1>6, <2>1, ImageEnds DEF CopyEnds
  <2>2. CASE dp_entries # <<>>
    BY <1>1, <1>2, <1>3, <1>6, <2>2, EntryEnds DEF CopyEnds
  <2>. QED
    BY <2>1, <2>2
<1>7. CASE n > 0 /\ CopyChunk(n, here)
  <2>1. PICK k \in 0..n :
           /\ Put(dp_copy.to, dp_file[dp_copy.to] \o SubSeq(here, 1, k))
           /\ IF k = n
              THEN /\ dp_copy' = [dp_copy EXCEPT !.at = @ + n, !.left = @ - n]
                   /\ Works /\ UNCHANGED <<dp_pc, dp_jobs, dp_entries>>
              ELSE Fails /\ CopyEnds(dp_copy.at + n)
    BY <1>7 DEF CopyChunk
  <2>. HIDE DEF n, here
  <2>2. /\ dp_copy' = [dp_copy EXCEPT !.at = @ + n, !.left = @ - n]
        /\ UNCHANGED <<dp_pc, dp_jobs, dp_entries>>
    BY <1>1, <2>1
  <2>3. dp_copy'.to = dp_copy.to /\ dp_copy'.from = dp_copy.from
    BY <1>2, <2>2 DEF CopyRecord
  <2>4. dp_copy.left > 0
    BY <1>2, <1>3, <1>7
  <2>. QED
    BY <1>1, <1>2, <2>1, <2>2, <2>3, <2>4, ChunkGood
<1>8. (n = 0 /\ CopyEnds(dp_copy.at) /\ UNCHANGED dp_file) \/ (n > 0 /\ CopyChunk(n, here))
  <2>1. ~(dp_copy.at + n > Len(dp_copy.from))
    BY <1>3, <1>4, <1>5
  <2>. HIDE DEF here
  <2>. QED
    BY <1>1, <2>1 DEF write_file_from_fd, here
<1>. QED
  BY <1>6, <1>7, <1>8

\* The image of a partition is dumped before the directory of it.
LEMMA BinsFirst ==
    ASSUME NEW q \in DOMAIN Jobs, NEW k \in 1..Len(Jobs[q]), Jobs[q][k][2] = "dir"
    PROVE  \E i \in 1..(k - 1) : Jobs[q][i] = <<Jobs[q][k][1], "bin">>
<1>1. q \in {"slb2", "raw", "nvs", "leafs", "vid"}
  BY DEF Jobs
<1>2. CASE q = "slb2"
  <2>1. Jobs[q] = <<<<"ina", "bin">>, <<"act", "bin">>, <<"ina", "dir">>, <<"act", "dir">>>>
    BY <1>2 DEF Jobs
  <2>2. k \in {3, 4}
    BY <2>1
  <2>3. CASE k = 3
    BY <2>1, <2>3
  <2>4. CASE k = 4
    BY <2>1, <2>4
  <2>. QED
    BY <2>2, <2>3, <2>4
<1>3. CASE q # "slb2"
  <2>1. PICK a, b : Jobs[q] = <<<<a, b>>>> /\ b # "dir"
    BY <1>1, <1>3 DEF Jobs
  <2>2. k = 1
    BY <2>1
  <2>. QED
    BY <2>1, <2>2
<1>. QED
  BY <1>2, <1>3

LEMMA MkdirGood == ASSUME DpGood, DpNext, DpMkdir, dp_fails' = 0 PROVE AllWhole'
<1>1. DpInv /\ AllWhole /\ ~Fails
  BY NothingFails DEF DpGood, DpContent
<1>2. PICK p, f, d : p = Job[1] /\ f = NameOf(p, "dir") /\ d = dp_drv
  OBVIOUS
<1>3. /\ dp_pc = "job" /\ dp_jobs # <<>> /\ Job \in JobPair /\ Job[2] = "dir" /\ dp_entries = <<>>
  BY <1>1, ToDoIs DEF DpMkdir
<1>4. p \in Sloader /\ p \in Dumps /\ d \in DpDrive
  BY <1>1, <1>2, <1>3, JobIs DEF Dumps, DpInv, DpScalars
<1>5. /\ Put(f, <<>>) /\ dp_pc' = "sha256"
      /\ UNCHANGED <<dp_jobs, dp_entries, dp_plugin, dp_drv>>
  BY <1>1, <1>2 DEF DpMkdir
<1>6. f[1] = d /\ f[2] = p /\ f[3] = "dir"
  BY <1>2 DEF NameOf
<1>7. ASSUME Measured(p) PROVE ImageWhole(d, p)
  <2>. DEFINE all == Jobs[dp_plugin]
              n == Len(all) - Len(dp_jobs)
  <2>1. /\ TailOf(dp_jobs, all) /\ \A i \in 1..n : JobDone(all[i])
        /\ all \in Seq(JobPair) /\ dp_jobs \in Seq(JobPair) /\ dp_plugin \in DOMAIN Jobs
    BY <1>1, <1>3, JobsTyped DEF AllWhole, JobsDone, DpInv, DpScalars
  <2>2. n + 1 \in 1..Len(all) /\ Head(dp_jobs) = all[n + 1] /\ n \in Nat
    <3>. HIDE DEF all
    <3>1. n + 1 \in 1..Len(all) /\ Head(dp_jobs) = all[n + 1]
      BY <1>3, <2>1, TailTail
    <3>. QED
      BY <2>1, <3>1
  <2>3. all[n + 1] = Job
    BY <2>2 DEF Job
  <2>4. all[n + 1][1] = p /\ all[n + 1][2] = "dir"
    BY <1>2, <1>3, <2>3
  <2>5. PICK k : k = n + 1
    OBVIOUS
  <2>6. \E i \in 1..(k - 1) : all[i] = <<p, "bin">>
    <3>1. /\ k \in 1..Len(Jobs[dp_plugin])
          /\ Jobs[dp_plugin][k][1] = p /\ Jobs[dp_plugin][k][2] = "dir"
      BY <2>2, <2>4, <2>5
    <3>2. \E i \in 1..(k - 1) : Jobs[dp_plugin][i] = <<Jobs[dp_plugin][k][1], "bin">>
      BY <2>1, <3>1, BinsFirst
    <3>. QED
      BY <3>1, <3>2
  <2>. HIDE DEF all
  <2>7. PICK i \in 1..n : all[i] = <<p, "bin">>
    <3>1. k - 1 = n
      BY <2>2, <2>5
    <3>. QED
      BY <2>6, <3>1
  <2>8. JobDone(<<p, "bin">>)
    BY <2>1, <2>7
  <2>9. <<d, p, "bin">> \in DOMAIN dp_file
    BY <1>2, <1>7, <2>8 DEF JobDone, Exists, NameOf
  <2>. QED
    BY <1>1, <1>3, <1>4, <2>9 DEF AllWhole, ImagesWhole, Busy
<1>8. ImagesWhole'
  BY <1>1, <1>3, <1>5, <1>6, ImagesKeep DEF AllWhole, Busy
<1>9. DirsWhole'
  <2>1. Filling(f[1], f[2])'
    BY <1>2, <1>5, <1>6 DEF Filling, InDir, Job
  <2>2. \A e \in DpDrive, q \in Sloader : ~Filling(e, q)
    BY <1>3 DEF Filling, InDir
  <2>. QED
    BY <1>1, <1>5, <2>1, <2>2, DirsKeep DEF AllWhole
<1>10. FillingWhole'
  <2>1. dp_drv' = d /\ Job'[1] = p
    BY <1>2, <1>5 DEF Job
  <2>2. /\ DOMAIN dp_file' = DOMAIN dp_file \cup {f}
        /\ \A g \in DOMAIN dp_file : g # f => dp_file'[g] = dp_file[g]
    BY <1>5, PutIs
  <2>3. Measured(p) => ImageWhole(d, p)'
    <3>1. <<d, p, "bin">> # f
      BY <1>6
    <3>. QED
      BY <1>7, <2>2, <3>1 DEF ImageWhole
  <2>4. f = <<d, p, "dir">>
    BY <1>2 DEF NameOf
  <2>5. Exists(Job[1], "dir")' /\ (Measured(Job[1])' => ImageWhole(dp_drv, Job[1])')
    BY <2>1, <2>2, <2>3, <2>4 DEF Exists, NameOf, ImageWhole, Measured
  <2>. QED
    BY <1>5, <2>5 DEF FillingWhole
<1>11. SourceWhole'
  BY <1>5 DEF SourceWhole
<1>12. JobsDone'
  BY <1>1, <1>3, <1>5, JobsStay DEF AllWhole
<1>. QED
  BY <1>8, <1>9, <1>10, <1>11, <1>12 DEF AllWhole

\* The header that is read from a whole image.
LEMMA HeaderRead ==
    ASSUME DpInv, FillingWhole, InDir, NEW p, p = Job[1], Measured(p)
    PROVE  /\ p \in Sloader /\ Headers(p) = {SlbHeader[p]} /\ SlbHeader[p] # <<>>
           /\ Exists(p, "bin") /\ Bin(p) = Data(p) /\ SlbEnd(SlbHeader[p]) =< Len(Bin(p))
<1>1. p \in Sloader /\ p \in Dumps /\ p \in Source
  BY InDirIs DEF Dumps
<1>2. ImageWhole(dp_drv, p)
  BY DEF FillingWhole
<1>3. Exists(p, "bin") /\ Bin(p) = Data(p) /\ Len(Bin(p)) = DpSize[p]
  BY <1>1, <1>2, WholeImage
<1>. QED
  BY <1>1, <1>3, HeaderOf DEF Headers

\* Only what could be measured has an image.
LEMMA BinMeasured ==
    ASSUME DpContent, NEW p \in Sloader, Exists(p, "bin")
    PROVE  Measured(p)
<1>1. PICK f : f = NameOf(p, "bin")
  OBVIOUS
<1>2. f \in DOMAIN dp_file /\ f[2] = p /\ f[3] = "bin" /\ p \in Dumps
  BY <1>1 DEF Exists, NameOf, Dumps
<1>3. Started(f, dp_file[f], dp_astray)
  BY <1>2 DEF DpContent, DpBegun
<1>. QED
  BY <1>2, <1>3, HeaderIs DEF Started

LEMMA AllOf ==
    ASSUME NEW S, NEW s \in Seq(S)
    PROVE  SubSeq(s, 1, Len(s)) = s
<1>1. /\ SubSeq(s, 1, Len(s)) \in Seq(S) /\ Len(SubSeq(s, 1, Len(s))) = Len(s)
      /\ \A i \in 1..Len(s) : SubSeq(s, 1, Len(s))[i] = s[i]
  OBVIOUS
<1>. QED
  BY <1>1, SeqEqual

LEMMA CheckGood == ASSUME DpGood, DpNext, slb2_check_sha256, dp_fails' = 0 PROVE AllWhole'
<1>1. DpContent /\ DpInv /\ AllWhole /\ ~Fails
  BY NothingFails DEF DpGood, DpContent
<1>2. PICK p, f, d : p = Job[1] /\ f = NameOf(p, "sha256") /\ d = dp_drv
  OBVIOUS
<1>3. /\ dp_pc = "sha256" /\ dp_pc' = "extraction" /\ InDir
      /\ UNCHANGED <<dp_jobs, dp_entries, dp_plugin, dp_drv>>
  BY DEF slb2_check_sha256, InDir
<1>a. p \in Sloader
  BY <1>1, <1>2, <1>3, InDirIs
<1>b. ASSUME ~Measured(p) PROVE AllWhole'
  <2>1. ~Exists(p, "bin")
    BY <1>1, <1>a, <1>b, BinMeasured
  <2>2. UNCHANGED dp_file
    BY <1>1, <1>2, <2>1 DEF slb2_check_sha256
  <2>3. ImagesWhole'
    BY <1>1, <1>3, <2>2, ImagesKeep DEF AllWhole, Busy
  <2>4. DirsWhole'
    BY <1>1, <1>3, <2>2, DirsKeep DEF AllWhole, Filling, InDir, Job
  <2>5. FillingWhole'
    <3>1. Exists(Job[1], "dir")
      BY <1>1, <1>3 DEF AllWhole, FillingWhole
    <3>2. Job'[1] = p /\ dp_drv' = dp_drv
      BY <1>2, <1>3 DEF Job
    <3>3. Exists(Job[1], "dir")' /\ ~Measured(Job[1])'
      BY <1>2, <1>b, <2>2, <3>1, <3>2 DEF Exists, NameOf, Measured
    <3>. QED
      BY <1>3, <3>3 DEF FillingWhole
  <2>6. SourceWhole'
    BY <1>3 DEF SourceWhole
  <2>7. JobsDone'
    BY <1>1, <1>3, JobsStay DEF AllWhole
  <2>. QED
    BY <2>3, <2>4, <2>5, <2>6, <2>7 DEF AllWhole
<1>. SUFFICES ASSUME Measured(p) PROVE AllWhole'
  BY <1>b
<1>4. /\ p \in Sloader /\ Headers(p) = {SlbHeader[p]} /\ SlbHeader[p] # <<>>
      /\ Exists(p, "bin") /\ SlbEnd(SlbHeader[p]) =< Len(Bin(p))
  BY <1>1, <1>2, <1>3, HeaderRead DEF AllWhole
<1>5. f = <<d, p, "sha256">> /\ f[1] = d /\ f[2] = p /\ f[3] = "sha256"
  BY <1>2 DEF NameOf
<1>6. PICK c : c = <<p, SlbEnd(SlbHeader[p])>>
  OBVIOUS
<1>7. write_file(f, <<c>>)
  <2>1. HashOf(p, SlbEnd(SlbHeader[p])) = <<c>>
    BY <1>4, <1>6 DEF HashOf
  <2>. QED
    BY <1>1, <1>2, <1>4, <2>1 DEF slb2_check_sha256
<1>8. Put(f, <<c>>)
  <2>1. PICK k \in 0..Len(<<c>>) : Put(f, SubSeq(<<c>>, 1, k)) /\ k = Len(<<c>>)
    BY <1>1, <1>7 DEF write_file
  <2>2. <<c>> \in Seq({c})
    BY ListOfOne
  <2>3. SubSeq(<<c>>, 1, Len(<<c>>)) = <<c>>
    BY <2>2, AllOf
  <2>. QED
    BY <2>1, <2>3
<1>9. ImagesWhole'
  BY <1>1, <1>3, <1>5, <1>8, ImagesKeep DEF AllWhole, Busy
<1>10. DirsWhole'
  <2>1. Filling(f[1], f[2])'
    BY <1>2, <1>3, <1>5 DEF Filling, InDir, Job
  <2>2. \A e \in DpDrive, q \in Sloader : Filling(e, q) => Filling(e, q)'
    BY <1>3 DEF Filling, InDir, Job
  <2>. QED
    BY <1>1, <1>8, <2>1, <2>2, DirsKeep DEF AllWhole
<1>11. FillingWhole'
  <2>1. dp_drv' = d /\ Job'[1] = p
    BY <1>2, <1>3 DEF Job
  <2>2. /\ DOMAIN dp_file' = DOMAIN dp_file \cup {f} /\ dp_file'[f] = <<c>>
        /\ \A g \in DOMAIN dp_file : g # f => dp_file'[g] = dp_file[g]
    BY <1>8, PutIs
  <2>3. ImageWhole(d, p) /\ <<d, p, "dir">> \in DOMAIN dp_file
    BY <1>1, <1>2, <1>3 DEF AllWhole, FillingWhole, Exists, NameOf
  <2>4. ImageWhole(d, p)'
    <3>1. <<d, p, "bin">> # f
      BY <1>5
    <3>. QED
      BY <2>2, <2>3, <3>1 DEF ImageWhole
  <2>5. HashWhole(d, p)'
    BY <1>5, <1>6, <2>2 DEF HashWhole
  <2>6. /\ Exists(Job[1], "dir")' /\ ImageWhole(dp_drv, Job[1])' /\ HashWhole(dp_drv, Job[1])'
    BY <2>1, <2>2, <2>3, <2>4, <2>5 DEF Exists, NameOf, ImageWhole, HashWhole
  <2>. QED
    BY <1>3, <2>6 DEF FillingWhole
<1>12. SourceWhole'
  BY <1>3 DEF SourceWhole
<1>13. JobsDone'
  BY <1>1, <1>3, JobsStay DEF AllWhole
<1>. QED
  BY <1>9, <1>10, <1>11, <1>12, <1>13 DEF AllWhole

LEMMA ExtractGood == ASSUME DpGood, DpNext, slb2_extraction, dp_fails' = 0 PROVE AllWhole'
<1>1. DpContent /\ DpInv /\ AllWhole /\ ~Fails
  BY NothingFails DEF DpGood, DpContent
<1>2. PICK p, d, h, j : p = Job[1] /\ d = dp_drv /\ h = SlbHeader[p] /\ j = Job
  OBVIOUS
<1>3. dp_pc = "extraction" /\ InDir /\ UNCHANGED <<dp_file, dp_plugin, dp_drv>>
  BY DEF slb2_extraction, InDir
<1>a. p \in Sloader /\ dp_jobs # <<>> /\ j[1] = p /\ j[2] = "dir"
  <2>1. p \in Sloader /\ dp_jobs # <<>>
    BY <1>1, <1>2, <1>3, InDirIs
  <2>2. j[2] = "dir"
    BY <1>1, <1>2, <1>3 DEF DpInv, DpPlaced
  <2>. QED
    BY <1>2, <2>1, <2>2
<1>b. ASSUME ~Measured(p) PROVE AllWhole'
  <2>1. ~Exists(p, "bin")
    BY <1>1, <1>a, <1>b, BinMeasured
  <2>2. NextJob
    BY <1>1, <1>2, <2>1 DEF slb2_extraction
  <2>3. dp_pc' = "job" /\ dp_entries' = <<>>
    BY <2>2 DEF NextJob
  <2>4. ImagesWhole'
    BY <1>1, <1>3, ImagesKeep DEF AllWhole, Busy
  <2>5. DirsWhole'
    <3>. SUFFICES ASSUME NEW e \in DpDrive, NEW q \in Sloader, <<e, q, "dir">> \in DOMAIN dp_file
                  PROVE  DirWhole(e, q)'
      BY <1>3 DEF DirsWhole
    <3>1. DirWhole(d, p)
      BY <1>b DEF DirWhole
    <3>2. DirWhole(e, q)
      BY <1>1, <1>2, <3>1 DEF AllWhole, DirsWhole, Filling
    <3>. QED
      BY <1>3, <3>2, DirStays
  <2>6. FillingWhole' /\ SourceWhole'
    BY <2>3 DEF FillingWhole, SourceWhole, InDir
  <2>7. Exists(p, "dir")
    BY <1>1, <1>2, <1>3 DEF AllWhole, FillingWhole
  <2>8. JobDone(j)'
    BY <1>3, <1>a, <2>7 DEF JobDone, Exists, NameOf
  <2>9. JobsDone'
    BY <1>1, <1>2, <1>3, <1>a, <2>2, <2>8, JobsNext DEF AllWhole
  <2>. QED
    BY <2>4, <2>5, <2>6, <2>9 DEF AllWhole
<1>. SUFFICES ASSUME Measured(p) PROVE AllWhole'
  BY <1>b
<1>4. p \in Sloader /\ Headers(p) = {h} /\ h # <<>> /\ Exists(p, "bin")
  BY <1>1, <1>2, <1>3, HeaderRead DEF AllWhole
<1>5. dp_pc' = "entry" /\ dp_entries' = h /\ UNCHANGED dp_jobs
  BY <1>1, <1>2, <1>4 DEF slb2_extraction
<1>6. ImagesWhole'
  BY <1>1, <1>3, <1>5, ImagesKeep DEF AllWhole, Busy
<1>7. DirsWhole'
  BY <1>1, <1>3, <1>5, DirsKeep DEF AllWhole, Filling, InDir, Job
<1>8. FillingWhole'
  <2>1. dp_drv' = d /\ Job'[1] = p
    BY <1>2, <1>3, <1>5 DEF Job
  <2>2. ImageWhole(d, p) /\ HashWhole(d, p) /\ <<d, p, "dir">> \in DOMAIN dp_file
    BY <1>1, <1>2, <1>3 DEF AllWhole, FillingWhole, Exists, NameOf
  <2>3. /\ Exists(Job[1], "dir")' /\ ImageWhole(dp_drv, Job[1])' /\ HashWhole(dp_drv, Job[1])'
    BY <1>3, <2>1, <2>2 DEF Exists, NameOf, ImageWhole, HashWhole
  <2>4. Len(h) \in Nat
    BY <1>2, <1>4, HeaderOf
  <2>5. TailOf(h, h) /\ Len(h) - Len(h) = 0
    BY <2>4 DEF TailOf
  <2>6. EntriesWhole(Job[1])'
    BY <1>2, <1>5, <2>1, <2>5 DEF EntriesWhole
  <2>7. Measured(Job[1])'
    BY <2>1 DEF Measured
  <2>. QED
    BY <2>3, <2>6, <2>7 DEF FillingWhole
<1>9. SourceWhole'
  BY <1>5 DEF SourceWhole
<1>10. JobsDone'
  BY <1>1, <1>3, <1>5, JobsStay DEF AllWhole
<1>. QED
  BY <1>6, <1>7, <1>8, <1>9, <1>10 DEF AllWhole

\* When nothing fails the seek to an entry does not.
LEMMA SeekGood ==
    ASSUME DpInv, FillingWhole, dp_pc = "entry", dp_entries # <<>>, NEW p, p = Job[1], NEW f,
           ~Fails, SlbSeek(p, Head(dp_entries), f)
    PROVE  dp_copy'.to = f /\ dp_copy'.from = Bin(p) /\ f \notin dp_astray'
<1>1. InDir
  BY DEF InDir
<1>2. PICK m : m = Len(SlbHeader[p]) - Len(dp_entries)
  OBVIOUS
<1>3. /\ p \in Sloader /\ Measured(p) /\ m + 1 \in 1..Len(SlbHeader[p])
      /\ Head(dp_entries) = SlbHeader[p][m + 1] /\ Head(dp_entries) \in HeaderEntry
  BY <1>1, <1>2, EntryAt
<1>4. PICK e : e = Head(dp_entries)
  OBVIOUS
<1>5. Sector * e.pos + e.size =< DpSize[p] /\ Sector * e.pos \in Nat /\ e.size \in Nat
  BY <1>3, <1>4, HeaderOf, HeaderIs
<1>6. Len(Bin(p)) = DpSize[p] /\ DpSize[p] \in Nat
  <2>1. p \in Dumps /\ p \in Source
    BY <1>3 DEF Dumps, Source
  <2>2. ImageWhole(dp_drv, p)
    BY <1>1, <1>3 DEF FillingWhole
  <2>. QED
    BY <2>1, <2>2, WholeImage, DataTyped
<1>7. ~(Sector * e.pos > Len(Bin(p)))
  BY <1>5, <1>6
<1>. QED
  BY <1>4, <1>7 DEF SlbSeek

LEMMA EntryGood == ASSUME DpGood, DpNext, DpEntry, dp_fails' = 0 PROVE AllWhole'
<1>1. DpInv /\ AllWhole /\ ~Fails
  BY NothingFails DEF DpGood, DpContent
<1>2. PICK p, d, f, j : /\ p = Job[1] /\ d = dp_drv /\ f = NameOf(p, Head(dp_entries).name)
                        /\ j = Job
  OBVIOUS
<1>3. dp_pc = "entry" /\ InDir /\ UNCHANGED <<dp_plugin, dp_drv>>
  BY DEF DpEntry, InDir
<1>m. Measured(p)
  BY <1>1, <1>2, <1>3 DEF AllWhole, FillingWhole
<1>4. /\ p \in Sloader /\ dp_entries \in Seq(HeaderEntry) /\ dp_jobs # <<>>
      /\ Exists(p, "dir") /\ j[1] = p /\ j[2] = "dir" /\ Bin(p) = Data(p)
  <2>1. p \in Sloader /\ dp_entries \in Seq(HeaderEntry) /\ dp_jobs # <<>>
    BY <1>1, <1>2, <1>3, InDirIs
  <2>2. Exists(p, "dir") /\ j[1] = p
    BY <1>1, <1>2, <1>3 DEF AllWhole, FillingWhole
  <2>3. j[2] = "dir"
    BY <1>1, <1>2, <1>3 DEF DpInv, DpPlaced
  <2>4. Bin(p) = Data(p)
    BY <1>1, <1>2, <1>3, <1>m, HeaderRead DEF AllWhole
  <2>. QED
    BY <2>1, <2>2, <2>3, <2>4
<1>5. CASE dp_entries = <<>> /\ NextJob /\ UNCHANGED dp_file
  <2>1. dp_pc' = "job" /\ dp_entries' = <<>>
    BY <1>5 DEF NextJob
  <2>2. ImagesWhole'
    BY <1>1, <1>3, <1>5, ImagesKeep DEF AllWhole, Busy
  <2>3. DirWhole(d, p)
    <3>1. ImageWhole(d, p) /\ HashWhole(d, p) /\ EntriesWhole(p)
      BY <1>1, <1>2, <1>3, <1>m DEF AllWhole, FillingWhole
    <3>2. Len(dp_entries) = 0 /\ Len(SlbHeader[p]) \in Nat
      BY <1>4, <1>5, HeaderOf
    <3>3. Len(SlbHeader[p]) - Len(dp_entries) = Len(SlbHeader[p])
      BY <3>2
    <3>4. \A i \in 1..Len(SlbHeader[p]) : EntryWhole(d, p, SlbHeader[p][i])
      BY <1>2, <3>1, <3>3 DEF EntriesWhole
    <3>. QED
      BY <3>1, <3>4 DEF DirWhole
  <2>4. DirsWhole'
    <3>. SUFFICES ASSUME NEW e \in DpDrive, NEW q \in Sloader, <<e, q, "dir">> \in DOMAIN dp_file
                  PROVE  DirWhole(e, q)'
      BY <1>5 DEF DirsWhole
    <3>1. DirWhole(e, q)
      BY <1>1, <1>2, <2>3 DEF AllWhole, DirsWhole, Filling
    <3>. QED
      BY <1>5, <3>1, DirStays
  <2>5. FillingWhole' /\ SourceWhole'
    BY <2>1 DEF FillingWhole, SourceWhole, InDir
  <2>6. JobDone(j)'
    BY <1>3, <1>4, <1>5 DEF JobDone, Exists, NameOf
  <2>7. JobsDone'
    BY <1>1, <1>2, <1>3, <1>4, <1>5, <2>6, JobsNext DEF AllWhole
  <2>. QED
    BY <2>2, <2>4, <2>5, <2>7 DEF AllWhole
<1>6. CASE /\ dp_entries # <<>> /\ Put(f, <<>>) /\ dp_pc' = "copy"
           /\ dp_copy'.to = f /\ dp_copy'.from = Bin(p) /\ f \notin dp_astray'
           /\ UNCHANGED <<dp_jobs, dp_entries>>
  <2>1. Head(dp_entries).name \notin {"bin", "dir", "sha256"}
    <3>1. Head(dp_entries) \in HeaderEntry
      BY <1>4, <1>6
    <3>. QED
      BY <3>1, HeaderIs
  <2>2. f[1] = d /\ f[2] = p /\ f[3] # "bin"
    BY <1>2, <2>1 DEF NameOf
  <2>3. ImagesWhole'
    BY <1>1, <1>3, <1>6, <2>2, ImagesKeep DEF AllWhole, Busy
  <2>4. DirsWhole'
    <3>1. Filling(f[1], f[2])'
      BY <1>2, <1>3, <1>6, <2>2 DEF Filling, InDir, Job
    <3>2. \A e \in DpDrive, q \in Sloader : Filling(e, q) => Filling(e, q)'
      BY <1>3, <1>6 DEF Filling, InDir, Job
    <3>. QED
      BY <1>1, <1>6, <3>1, <3>2, DirsKeep DEF AllWhole
  <2>5. FillingWhole'
    BY <1>1, <1>2, <1>3, <1>6, FillStays DEF AllWhole
  <2>6. SourceWhole'
    BY <1>4, <1>6, <2>2 DEF SourceWhole
  <2>7. JobsDone'
    BY <1>1, <1>3, <1>6, JobsStay DEF AllWhole
  <2>. QED
    BY <2>3, <2>4, <2>5, <2>6, <2>7 DEF AllWhole
<1>7. \/ dp_entries = <<>> /\ NextJob /\ UNCHANGED dp_file
      \/ /\ dp_entries # <<>> /\ Put(f, <<>>) /\ dp_pc' = "copy"
         /\ dp_copy'.to = f /\ dp_copy'.from = Bin(p) /\ f \notin dp_astray'
         /\ UNCHANGED <<dp_jobs, dp_entries>>
  <2>1. \/ dp_entries = <<>> /\ NextJob /\ UNCHANGED dp_file
        \/ /\ dp_entries # <<>> /\ Put(f, <<>>) /\ dp_pc' = "copy"
           /\ SlbSeek(p, Head(dp_entries), f)
           /\ UNCHANGED <<dp_jobs, dp_entries>>
    BY <1>1, <1>2, <1>4 DEF DpEntry
  <2>. QED
    BY <1>1, <1>2, <1>3, <2>1, SeekGood DEF AllWhole
<1>. QED
  BY <1>5, <1>6, <1>7

LEMMA GoodKeeps == DpGood /\ [DpNext]_dpVars => DpGood'
<1>. SUFFICES ASSUME DpGood, [DpNext]_dpVars PROVE DpGood'
  OBVIOUS
<1>1. DpContent'
  BY ContentKeeps DEF DpGood
<1>2. RanIsOff'
  <2>1. CASE DpNext
    BY <2>1 DEF DpGood, RanIsOff, DpNext, DpStep, DpStart, DpFinish, DpSkip, slb2_dump,
       write_file_from_fd, DpMkdir, slb2_check_sha256, slb2_extraction, DpEntry, DpNvs,
       DpVisible, DpLeafs, DpLeaf, DpPowerOff, CopyChunk, CopyEnds, NextJob, ToDo
  <2>2. CASE UNCHANGED dpVars
    BY <2>2 DEF DpGood, RanIsOff, dpVars
  <2>. QED
    BY <2>1, <2>2
<1>3. ASSUME dp_fails' = 0 PROVE AllWhole'
  <2>1. CASE DpNext
    <3>1. ~DpPowerOff
      BY <1>3, <2>1, NothingFails DEF DpPowerOff, DpGood, DpContent
    <3>. QED
      BY <1>3, <2>1, <3>1, StartGood, FinishGood, SkipGood, DumpGood, CopyGood, MkdirGood,
         CheckGood, ExtractGood, EntryGood, ElsewhereGood DEF DpNext, DpStep
  <2>2. CASE UNCHANGED dpVars
    <3>. USE <2>2 DEF dpVars
    <3>1. AllWhole
      BY <1>3 DEF DpGood
    <3>2. ImagesWhole'
      BY <3>1 DEF AllWhole, ImagesWhole, ImageWhole, Busy
    <3>3. DirsWhole'
      BY <3>1 DEF AllWhole, DirsWhole, DirWhole, ImageWhole, HashWhole, EntryWhole, Filling, InDir, Job
    <3>4. FillingWhole'
      BY <3>1 DEF AllWhole, FillingWhole, ImageWhole, HashWhole, EntriesWhole, EntryWhole, InDir, Job,
                  Exists, NameOf
    <3>5. SourceWhole' /\ JobsDone'
      BY <3>1 DEF AllWhole, SourceWhole, JobsDone, JobDone, Exists, NameOf
    <3>. QED
      BY <3>2, <3>3, <3>4, <3>5 DEF AllWhole
  <2>. QED
    BY <2>1, <2>2
<1>. QED
  BY <1>1, <1>2, <1>3 DEF DpGood

LEMMA GoodAlways == DpSpec => []DpGood
<1>1. DpInit => DpGood
  <2>. SUFFICES ASSUME DpInit PROVE DpGood
    OBVIOUS
  <2>1. DpContent
    BY InitInv DEF DpInit, DpContent, DpStray, DpBegun, DpAhead
  <2>2. DOMAIN dp_file = {} /\ dp_pc = "off" /\ dp_ran = FALSE
    BY DEF DpInit
  <2>3. AllWhole
    BY <2>2 DEF AllWhole, ImagesWhole, DirsWhole, FillingWhole, SourceWhole, JobsDone, InDir
  <2>. QED
    BY <2>1, <2>2, <2>3 DEF DpGood, RanIsOff
<1>. QED
  BY <1>1, GoodKeeps, PTL DEF DpSpec

\* What is in a file of a partition is a beginning of what it is named for, or
\* a stretch of the partition where the seek failed.
PieceOf(f, c) ==
    \/ f[3] \in {"dir", "sha256"}
    \/ f[3] = "bin" /\ Measured(f[2]) /\ IsPrefix(c, Data(f[2]))
    \/ \E q \in Sloader : \E e \in Range(SlbHeader[q]) :
          /\ e.name = f[3]
          /\ \/ IsPrefix(c, Region(f[2], e))
             \/ f \in dp_astray /\ Len(c) =< e.size /\ Consecutive(f[2], c)

LEMMA StretchPiece ==
    ASSUME NEW f, f[2] \in Source, NEW c \in Content, NEW e \in HeaderEntry, Stretch(f, c, e, dp_astray)
    PROVE  \/ IsPrefix(c, Region(f[2], e))
           \/ f \in dp_astray /\ Len(c) =< e.size /\ Consecutive(f[2], c)
<1>1. PICK base \in Nat : UnitsFrom(c, f[2], base) /\ (f \notin dp_astray => base = Sector * e.pos)
  BY DEF Stretch
<1>2. Len(c) =< e.size /\ e.size \in Nat /\ Len(c) \in Nat
  BY HeaderIs DEF Stretch, Content
<1>3. CASE f \notin dp_astray
  <2>1. /\ Region(f[2], e) \in Content /\ Len(Region(f[2], e)) = e.size
        /\ \A i \in 1..e.size : Region(f[2], e)[i] = <<f[2], Sector * e.pos + i>>
    BY RegionIs
  <2>2. ASSUME NEW i \in 1..Len(c) PROVE c[i] = Region(f[2], e)[i]
    <3>1. base = Sector * e.pos /\ i \in 1..e.size
      BY <1>1, <1>2, <1>3
    <3>2. c[i] = <<f[2], base + i>> /\ Region(f[2], e)[i] = <<f[2], Sector * e.pos + i>>
      BY <1>1, <2>1, <3>1 DEF UnitsFrom
    <3>. QED
      BY <3>1, <3>2
  <2>3. StartsWith(c, Region(f[2], e))
    BY <1>2, <2>1, <2>2 DEF StartsWith
  <2>. QED
    BY <2>1, <2>3, StartsPrefix DEF Content
<1>4. CASE f \in dp_astray
  <2>. SUFFICES ASSUME NEW i \in DOMAIN c PROVE c[i] = <<f[2], c[1][2] + i - 1>>
    BY <1>2, <1>4 DEF Consecutive
  <2>1. i \in 1..Len(c) /\ 1 \in 1..Len(c)
    BY <1>2 DEF Content
  <2>2. c[i] = <<f[2], base + i>> /\ c[1] = <<f[2], base + 1>>
    BY <1>1, <2>1 DEF UnitsFrom
  <2>3. c[1][2] = base + 1
    BY <2>2
  <2>4. base + 1 + i - 1 = base + i
    BY <2>1
  <2>. QED
    BY <2>2, <2>3, <2>4
<1>. QED
  BY <1>3, <1>4

LEMMA PiecesBegun ==
    ASSUME DpContent
    PROVE  \A f \in DOMAIN dp_file : f[2] \in Sloader \cup {"idstor"} => PieceOf(f, dp_file[f])
<1>. SUFFICES ASSUME NEW f \in DOMAIN dp_file, f[2] \in Dumps PROVE PieceOf(f, dp_file[f])
  BY DEF Dumps
<1>1. Started(f, dp_file[f], dp_astray) /\ dp_file[f] \in Content /\ f[2] \in Source
  BY DEF DpContent, DpBegun, DpInv, DpFiles, Dumps, Source
<1>2. CASE f[3] = "bin" /\ Measured(f[2]) /\ StartsWith(dp_file[f], Data(f[2]))
  <2>1. IsPrefix(dp_file[f], Data(f[2]))
    BY <1>1, <1>2, DataTyped, StartsPrefix DEF Content
  <2>. QED
    BY <1>2, <2>1 DEF PieceOf
<1>3. ASSUME NEW e \in HeaderEntry, e.name = f[3], Stretch(f, dp_file[f], e, dp_astray)
      PROVE  PieceOf(f, dp_file[f])
  <2>1. PICK q \in Sloader : e \in Range(SlbHeader[q])
    BY DEF HeaderEntry
  <2>2. \/ IsPrefix(dp_file[f], Region(f[2], e))
        \/ f \in dp_astray /\ Len(dp_file[f]) =< e.size /\ Consecutive(f[2], dp_file[f])
    BY <1>1, <1>3, StretchPiece
  <2>. QED
    BY <1>3, <2>1, <2>2 DEF PieceOf
<1>4. CASE f[3] \in {"dir", "sha256"}
  BY <1>4 DEF PieceOf
<1>. QED
  BY <1>1, <1>2, <1>3, <1>4 DEF Started

\* The directory of every image of a partition is to be dumped too.
LEMMA DirsToo ==
    ASSUME NEW q \in DOMAIN Jobs, NEW i \in DOMAIN Jobs[q], Jobs[q][i][2] = "bin",
           Jobs[q][i][1] \in Sloader
    PROVE  \E k \in DOMAIN Jobs[q] : Jobs[q][k] = <<Jobs[q][i][1], "dir">>
<1>1. q \in {"slb2", "raw", "nvs", "leafs", "vid"}
  BY DEF Jobs
<1>2. CASE q = "slb2"
  <2>1. Jobs[q] = <<<<"ina", "bin">>, <<"act", "bin">>, <<"ina", "dir">>, <<"act", "dir">>>>
    BY <1>2 DEF Jobs
  <2>2. DOMAIN Jobs[q] = {1, 2, 3, 4}
    BY <2>1
  <2>3. i \in {1, 2}
    BY <2>1, <2>2
  <2>4. CASE i = 1
    BY <2>1, <2>2, <2>4
  <2>5. CASE i = 2
    BY <2>1, <2>2, <2>5
  <2>. QED
    BY <2>3, <2>4, <2>5
<1>3. CASE q # "slb2"
  <2>1. PICK a, b : Jobs[q] = <<<<a, b>>>> /\ (a \notin Sloader \/ b # "bin")
    BY <1>1, <1>3 DEF Jobs, Sloader
  <2>2. i = 1
    BY <2>1
  <2>. QED
    BY <2>1, <2>2
<1>. QED
  BY <1>2, <1>3

LEMMA WholeAtEnd ==
    ASSUME DpGood, dp_ran, dp_fails = 0, NEW job \in Range(Jobs[dp_plugin]), job[2] = "bin",
           Measured(job[1])
    PROVE  Whole(job[1])
<1>. DEFINE all == Jobs[dp_plugin]
<1>1. DpInv /\ AllWhole /\ dp_pc = "off" /\ dp_jobs = <<>>
  BY DEF DpGood, DpContent, RanIsOff
<1>2. dp_plugin \in DOMAIN Jobs /\ dp_drv \in DpDrive /\ all \in Seq(JobPair)
  BY <1>1, JobsTyped DEF DpInv, DpScalars
<1>3. \A i \in DOMAIN all : JobDone(all[i])
  <2>1. \A i \in 1..(Len(all) - Len(dp_jobs)) : JobDone(all[i])
    BY <1>1 DEF AllWhole, JobsDone
  <2>. HIDE DEF all
  <2>2. Len(all) - Len(dp_jobs) = Len(all) /\ DOMAIN all = 1..Len(all)
    BY <1>1, <1>2
  <2>. QED
    BY <2>1, <2>2
<1>4. PICK i \in DOMAIN all : job = all[i]
  BY DEF Range
<1>5. PICK p : p = job[1]
  OBVIOUS
<1>6. p \in Dumps
  <2>1. job \in JobPair
    BY <1>2 DEF JobPair
  <2>. QED
    BY <1>5, <2>1, JobIs DEF Dumps
<1>7. Exists(p, "bin")
  BY <1>3, <1>4, <1>5 DEF JobDone
<1>8. ImageWhole(dp_drv, p)
  BY <1>1, <1>2, <1>6, <1>7 DEF AllWhole, ImagesWhole, Busy, Exists, NameOf
<1>9. Exists(p, "bin") /\ Bin(p) = Data(p)
  BY <1>1, <1>6, <1>8, WholeImage
<1>10. ASSUME p \in Sloader
       PROVE  /\ dp_file[NameOf(p, "sha256")] = <<<<p, SlbEnd(SlbHeader[p])>>>>
              /\ \A e \in Range(SlbHeader[p]) : dp_file[NameOf(p, e.name)] = Region(p, e)
  <2>1. PICK k \in DOMAIN all : all[k] = <<p, "dir">>
    BY <1>2, <1>4, <1>5, <1>10, DirsToo
  <2>2. JobDone(<<p, "dir">>)
    BY <1>3, <2>1
  <2>3. <<dp_drv, p, "dir">> \in DOMAIN dp_file
    BY <2>2 DEF JobDone, Exists, NameOf
  <2>4. ~Filling(dp_drv, p)
    BY <1>1 DEF Filling, InDir
  <2>5. DirWhole(dp_drv, p)
    BY <1>1, <1>2, <1>10, <2>3, <2>4 DEF AllWhole, DirsWhole
  <2>6. DOMAIN SlbHeader[p] = 1..Len(SlbHeader[p])
    BY <1>10, HeaderOf
  <2>7. dp_file[NameOf(p, "sha256")] = <<<<p, SlbEnd(SlbHeader[p])>>>>
    BY <1>5, <2>5 DEF DirWhole, HashWhole, NameOf
  <2>8. ASSUME NEW e \in Range(SlbHeader[p]) PROVE dp_file[NameOf(p, e.name)] = Region(p, e)
    <3>1. PICK m \in 1..Len(SlbHeader[p]) : e = SlbHeader[p][m]
      BY <2>6 DEF Range
    <3>. QED
      BY <1>5, <2>5, <3>1 DEF DirWhole, EntryWhole, NameOf
  <2>. QED
    BY <2>7, <2>8
<1>. QED
  BY <1>5, <1>9, <1>10 DEF Whole

\* In the files of a partition is a beginning of it and of its entries, whatever
\* failed and however often the dumper started; where the seek to an entry failed
\* (slb2_dumper) it is another stretch of the partition, no longer than the entry.
\* A start that got to its end when nothing ever failed leaves all of what can be
\* measured, with the hash of what is there.
THEOREM DumpsArePieces == DpSpec => []SlbPieces
<1>1. DpGood => SlbPieces
  <2>. SUFFICES ASSUME DpGood PROVE SlbPieces
    OBVIOUS
  <2>1. DpContent
    BY DEF DpGood
  <2>. QED
    BY <2>1, PiecesBegun, WholeAtEnd DEF SlbPieces, PieceOf
<1>. QED
  BY <1>1, GoodAlways, PTL

===============================================================================
