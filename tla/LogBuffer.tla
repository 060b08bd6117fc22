------------------------------ MODULE LogBuffer ------------------------------
(***************************************************************************)
(* The log of the plugins SceExfatfsAnalysis, SceSdstorAnalysis and        *)
(* SceIofilemgrAnalysis, the same log.c in all three: a buffer that is     *)
(* written to the file when the next message would not fit, and when the   *)
(* log is closed.  A plugin logs one report each time it is started.       *)
(*                                                                         *)
(* A message is the kind of line it is; Asked is the length its format     *)
(* asks for.  The buffer and the file hold <<start, index>>: the message   *)
(* at this index of the report that was made at this start.                *)
(*                                                                         *)
(* A message longer than the whole buffer is copied past its end: nothing  *)
(* more is said of that start.                                             *)
(*                                                                         *)
(* External: a write stores a part of what it is given.  A message of      *)
(* which a part is stored counts as lost.                                  *)
(***************************************************************************)
EXTENDS Integers, Sequences, SequencesExt

CONSTANTS LogSize,   \* sizeof(log_buff)
          Message, Asked,  \* messages, and the length vsnprintf returns for each
          Reports,   \* bound: the reports that are made
          MaxStarts, \* bound on the starts of the plugin
          MaxShort   \* bound on the writes that do not store all they are given

ASSUME LogAssumption ==
    /\ LogSize \in Nat \ {0}
    /\ Asked \in [Message -> Nat \ {0}]   \* every format ends its line
    /\ Reports \subseteq Seq(Message)
    /\ MaxStarts \in Nat /\ MaxShort \in Nat

VARIABLES
    log_fd,    \* 0 closed, 1 open, -1 could not be opened
    log_pos, log_buff, log_file,
    log_pc,    \* where the plugin is
    log_report,    \* what it logs
    log_count,    \* how much of it LogWrite was given
    log_starts,
    log_shorts,    \* history: how many writes stored less than they were given
    log_lost   \* history: the log could not be opened or not be written

logVars == <<log_fd, log_pos, log_buff, log_file, log_pc, log_report, log_count,
             log_starts, log_shorts, log_lost>>

LogTypeOK ==
    /\ log_fd \in {-1, 0, 1}
    /\ log_pos \in Nat
    /\ log_buff \in Seq(Nat \X Nat) /\ log_file \in Seq(Nat \X Nat)
    /\ log_pc \in {"start", "remove", "open", "write", "over", "done"}
    /\ log_report \in Reports
    /\ log_count \in Nat
    /\ log_starts \in Nat /\ log_shorts \in Nat
    /\ log_lost \in BOOLEAN

-----------------------------------------------------------------------------
(* The reports *)

Header == <<"text", "data", "">>

\* module_start of SceExfatfsAnalysis: a partition by the line of its file
\* system, a cached file by that and by whether it has a path.
PartLines(fs) ==
    <<"number", "name", "unk", "unk", "unk", "unk", "unk", "unk", fs, "blk_size", "">>

FileLines(f) ==
    <<"number">> \o (IF f.path THEN <<"path">> ELSE <<>>)
    \o <<"size", "blk_name", "time", "time", "time", "unk">>
    \o (IF f.fs = "FAT16" THEN <<"offset">> ELSE <<>>) \o <<"">>

\* names, parts and files are those of the lists that are not empty; names are
\* the kernel's strings, of any length.
ExfatReport(names, parts, files) ==
    Header \o <<"unk", "">> \o names \o <<"">>
    \o FlattenSeq([i \in 1..Len(parts) |-> PartLines(parts[i])])
    \o FlattenSeq([i \in 1..Len(files) |-> FileLines(files[i])]) \o <<"">>

\* module_start of SceSdstorAnalysis: what every name of a partition is decoded
\* to, and the partitions of every device.
DeviceContext(partitions) ==
    <<"number">> \o [i \in 1..6 |-> "unk"]
    \o FlattenSeq([i \in 1..partitions |-> [j \in 1..7 |-> "unk"] \o <<"">>])
    \o [i \in 1..4 |-> "unk"] \o <<"">>

SdstorReport(names, devices, partitions) ==
    Header \o <<"unk", "">> \o [i \in 1..names |-> "name"]
    \o FlattenSeq([i \in 1..devices |-> DeviceContext(partitions)])

\* sceIofilemgrAnalysisThread: the storage of the shell is written to a file of
\* its own, or an error to the log.
IofilemgrReport(found) == Header \o (IF found THEN <<>> ELSE <<"unk">>)

-----------------------------------------------------------------------------
(* log.c *)

LogInit ==
    /\ log_fd = 0 /\ log_pos = 0 /\ log_buff = <<>> /\ log_file = <<>>
    /\ log_pc = "start" /\ log_report \in Reports /\ log_count = 0 /\ log_starts = 0 /\ log_shorts = 0
    /\ log_lost = FALSE

\* The plugin is loaded, its data as it is in the module.
LogStart ==
    /\ log_pc = "start" /\ log_starts < MaxStarts
    /\ log_pc' = "remove" /\ log_starts' = log_starts + 1
    /\ log_fd' = 0 /\ log_pos' = 0 /\ log_buff' = <<>> /\ log_count' = 0
    /\ log_lost' = FALSE
    /\ UNCHANGED <<log_file, log_report, log_shorts>>

\* The result of ksceIoRemove is not looked at.
LogRemove ==
    /\ log_pc = "remove" /\ log_pc' = "open"
    /\ log_file' \in {<<>>, log_file}
    /\ UNCHANGED <<log_fd, log_pos, log_buff, log_report, log_count, log_starts, log_shorts, log_lost>>

LogOpen ==
    /\ log_pc = "open" /\ log_pc' = "write"
    /\ IF log_fd = 0
       THEN log_fd' \in {-1, 1} /\ log_pos' = 0 /\ log_lost' = (log_fd' = -1)
       ELSE UNCHANGED <<log_fd, log_pos, log_lost>>
    /\ UNCHANGED <<log_buff, log_file, log_report, log_count, log_starts, log_shorts>>

\* ksceIoWrite of the buffer: its first k messages come to the file.
Flush(k) ==
    /\ log_file' = log_file \o SubSeq(log_buff, 1, k)
    /\ IF k = Len(log_buff) THEN UNCHANGED <<log_shorts, log_lost>>
       ELSE log_shorts < MaxShort /\ log_shorts' = log_shorts + 1 /\ log_lost' = TRUE

MustFlush(len) == log_pos + len >= LogSize

\* Mistake: the buffer is not emptied when it was written.
Bug_LogWrite ==
    LET len == Asked[log_report[log_count + 1]]
        this == <<log_starts, log_count + 1>> IN
    /\ log_pc = "write" /\ log_count < Len(log_report)
    /\ log_count' = log_count + 1
    /\ IF log_fd # 1 THEN UNCHANGED <<log_pos, log_buff, log_file, log_shorts, log_lost>>
       ELSE IF MustFlush(len)
       THEN /\ \E k \in 0..Len(log_buff) : Flush(k)
            /\ log_buff' = Append(log_buff, this) /\ log_pos' = len
       ELSE /\ log_buff' = Append(log_buff, this) /\ log_pos' = log_pos + len
            /\ UNCHANGED <<log_file, log_shorts, log_lost>>
    /\ log_pc' = IF log_fd = 1 /\ len > LogSize THEN "over" ELSE "write"
    /\ UNCHANGED <<log_fd, log_report, log_starts>>

\* What the format asks for decides, not what fits in the string it fills, nor
\* what fits in the buffer that was just emptied.
LogWrite ==
    LET len == Asked[log_report[log_count + 1]]
        this == <<log_starts, log_count + 1>> IN
    /\ log_pc = "write" /\ log_count < Len(log_report)
    /\ log_count' = log_count + 1
    /\ \/ log_fd # 1 /\ UNCHANGED <<log_pos, log_buff, log_file, log_shorts, log_lost>>
       \/ /\ log_fd = 1 /\ MustFlush(len)
          /\ \E k \in 0..Len(log_buff) : Flush(k)
          /\ log_buff' = <<this>> /\ log_pos' = len
       \/ /\ log_fd = 1 /\ ~MustFlush(len)
          /\ log_buff' = Append(log_buff, this) /\ log_pos' = log_pos + len
          /\ UNCHANGED <<log_file, log_shorts, log_lost>>
    /\ log_pc' = IF log_fd = 1 /\ len > LogSize THEN "over" ELSE "write"
    /\ UNCHANGED <<log_fd, log_report, log_starts>>

LogClose ==
    /\ log_pc = "write" /\ log_count = Len(log_report)
    /\ log_pc' = "done"
    /\ \/ log_fd # 1 /\ UNCHANGED <<log_fd, log_pos, log_buff, log_file, log_shorts, log_lost>>
       \/ /\ log_fd = 1 /\ log_fd' = 0
          /\ IF log_pos # 0
             THEN (\E k \in 0..Len(log_buff) : Flush(k)) /\ log_buff' = <<>> /\ log_pos' = 0
             ELSE UNCHANGED <<log_pos, log_buff, log_file, log_shorts, log_lost>>
    /\ UNCHANGED <<log_report, log_count, log_starts>>

\* The console is switched off, or on again for another report.
LogPowerOff ==
    /\ log_pc # "start" /\ log_starts < MaxStarts
    /\ log_pc' = "start"
    /\ UNCHANGED <<log_fd, log_pos, log_buff, log_file, log_report, log_count, log_starts, log_shorts, log_lost>>

LogStep == LogStart \/ LogRemove \/ LogOpen \/ LogWrite \/ LogClose

LogNext == LogStep \/ LogPowerOff

LogSpec == LogInit /\ [][LogNext]_logVars

-----------------------------------------------------------------------------
(* Properties *)

Before(a, b) == a[1] < b[1] \/ (a[1] = b[1] /\ a[2] < b[2])

\* The file and then the buffer have the messages in the order they were
\* logged and none twice, through failed writes and restarts; and all that this
\* start logged is there unless the log could not be opened or written.
LogInOrder ==
    LET all == IF log_pc = "start" THEN log_file ELSE log_file \o log_buff IN
    /\ \A i, j \in 1..Len(all) : i < j => Before(all[i], all[j])
    /\ log_pc \in {"write", "done"} /\ ~log_lost =>
          \A n \in 1..log_count : \E i \in 1..Len(all) : all[i] = <<log_starts, n>>
    /\ log_pc = "done" => log_buff = <<>>

=============================================================================
