--------------------------- MODULE LogBuffer_proofs ---------------------------
(***************************************************************************)
(* Proofs about LogBuffer: its types, and that file and buffer have the    *)
(* messages in order and without a loss nobody was told of.                *)
(***************************************************************************)
EXTENDS LogBuffer, TLAPS

LEMMA InitTyped == LogInit => LogTypeOK
<1>. SUFFICES ASSUME LogInit PROVE LogTypeOK
  OBVIOUS
<1>1. <<>> \in Seq(Nat \X Nat)
  OBVIOUS
<1>2. log_lost \in BOOLEAN
  BY Zenon DEF LogInit
<1>. QED
  BY <1>1, <1>2, LogAssumption DEF LogAssumption, LogInit, LogTypeOK

\* A write adds to the file messages of the buffer.
LEMMA FlushTyped ==
    ASSUME LogTypeOK, NEW k \in 0..Len(log_buff), Flush(k)
    PROVE  /\ log_file' \in Seq(Nat \X Nat)
           /\ log_shorts' \in Nat
           /\ log_lost' \in BOOLEAN
<1>1. SubSeq(log_buff, 1, k) \in Seq(Nat \X Nat)
  BY DEF LogTypeOK
<1>2. log_file' \in Seq(Nat \X Nat)
  BY <1>1 DEF LogTypeOK, Flush
<1>3. log_shorts' \in Nat
  BY DEF LogTypeOK, Flush
<1>4. log_lost' \in BOOLEAN
  BY Zenon DEF LogTypeOK, Flush
<1>. QED
  BY <1>2, <1>3, <1>4

\* The message that is logged next has a length.
LEMMA NextAsked ==
    ASSUME LogTypeOK, log_count < Len(log_report)
    PROVE  /\ Asked[log_report[log_count + 1]] \in Nat
           /\ <<log_starts, log_count + 1>> \in Nat \X Nat
<1>1. log_report \in Seq(Message)
  BY LogAssumption DEF LogAssumption, LogTypeOK
<1>2. log_report[log_count + 1] \in Message
  BY <1>1 DEF LogTypeOK
<1>. QED
  BY <1>2, LogAssumption DEF LogAssumption, LogTypeOK

LEMMA WriteTyped ==
    ASSUME LogTypeOK, LogWrite PROVE LogTypeOK'
<1>. DEFINE len == Asked[log_report[log_count + 1]]
            this == <<log_starts, log_count + 1>>
<1>1. /\ log_pc = "write" /\ log_count < Len(log_report) /\ log_count' = log_count + 1
      /\ log_pc' \in {"write", "over"}
      /\ UNCHANGED <<log_fd, log_report, log_starts>>
  BY DEF LogWrite
<1>2. len \in Nat /\ this \in Nat \X Nat
  BY <1>1, NextAsked
<1>3. CASE UNCHANGED <<log_pos, log_buff, log_file, log_shorts, log_lost>>
  BY <1>1, <1>3 DEF LogTypeOK
<1>4. ASSUME NEW k \in 0..Len(log_buff), Flush(k), log_buff' = <<this>>, log_pos' = len
      PROVE  LogTypeOK'
  <2>1. log_buff' \in Seq(Nat \X Nat)
    BY <1>2, <1>4
  <2>. QED
    BY <1>1, <1>2, <1>4, <2>1, FlushTyped DEF LogTypeOK
<1>5. CASE /\ ~MustFlush(len) /\ log_buff' = Append(log_buff, this) /\ log_pos' = log_pos + len
           /\ UNCHANGED <<log_file, log_shorts, log_lost>>
  <2>1. log_buff' \in Seq(Nat \X Nat)
    BY <1>2, <1>5 DEF LogTypeOK
  <2>2. log_pos' \in Nat
    <3>1. log_pos \in Nat /\ LogSize \in Nat
      BY LogAssumption DEF LogAssumption, LogTypeOK
    <3>. HIDE DEF len
    <3>. QED
      BY <1>2, <1>5, <3>1 DEF MustFlush
  <2>. QED
    BY <1>1, <1>5, <2>1, <2>2 DEF LogTypeOK
<1>6. \/ UNCHANGED <<log_pos, log_buff, log_file, log_shorts, log_lost>>
      \/ \E k \in 0..Len(log_buff) : Flush(k) /\ log_buff' = <<this>> /\ log_pos' = len
      \/ /\ ~MustFlush(len) /\ log_buff' = Append(log_buff, this) /\ log_pos' = log_pos + len
         /\ UNCHANGED <<log_file, log_shorts, log_lost>>
  BY Zenon DEF LogWrite
<1>. QED
  BY <1>3, <1>4, <1>5, <1>6, Zenon

LEMMA CloseTyped ==
    ASSUME LogTypeOK, LogClose PROVE LogTypeOK'
<1>1. /\ log_pc' = "done"
      /\ UNCHANGED <<log_report, log_count, log_starts>>
      /\ log_fd' \in {-1, 0, 1}
  BY DEF LogClose, LogTypeOK
<1>2. CASE UNCHANGED <<log_pos, log_buff, log_file, log_shorts, log_lost>>
  BY <1>1, <1>2 DEF LogTypeOK
<1>3. ASSUME NEW k \in 0..Len(log_buff), Flush(k), log_buff' = <<>>, log_pos' = 0
      PROVE  LogTypeOK'
  BY <1>1, <1>3, FlushTyped, LogAssumption DEF LogAssumption, LogTypeOK
<1>4. \/ UNCHANGED <<log_pos, log_buff, log_file, log_shorts, log_lost>>
      \/ \E k \in 0..Len(log_buff) : Flush(k) /\ log_buff' = <<>> /\ log_pos' = 0
  BY Zenon DEF LogClose
<1>. QED
  BY <1>2, <1>3, <1>4, Zenon

LEMMA StepTyped ==
    ASSUME LogTypeOK, [LogNext]_logVars PROVE LogTypeOK'
<1>0. <<>> \in Seq(Nat \X Nat)
  OBVIOUS
<1>1. CASE LogStart
  <2>1. log_buff' \in Seq(Nat \X Nat) /\ log_lost' \in BOOLEAN
    BY <1>0, <1>1, Zenon DEF LogStart
  <2>2. log_pos' \in Nat
    BY <1>1, LogAssumption DEF LogAssumption, LogStart
  <2>. QED
    BY <1>1, <2>1, <2>2 DEF LogStart, LogTypeOK
<1>2. CASE LogRemove
  <2>1. log_file' \in Seq(Nat \X Nat)
    <3>1. log_file' = <<>> \/ log_file' = log_file
      BY <1>2 DEF LogRemove
    <3>. QED
      BY <1>0, <3>1 DEF LogTypeOK
  <2>. QED
    BY <1>2, <2>1 DEF LogRemove, LogTypeOK
<1>3. CASE LogOpen
  <2>1. /\ log_pc' = "write"
        /\ UNCHANGED <<log_buff, log_file, log_report, log_count, log_starts, log_shorts>>
    BY <1>3 DEF LogOpen
  <2>2. CASE log_fd = 0
    <3>1. log_fd' \in {-1, 1} /\ log_pos' = 0 /\ log_lost' = (log_fd' = -1)
      BY <1>3, <2>2 DEF LogOpen
    <3>2. log_lost' \in BOOLEAN
      BY <3>1, Zenon
    <3>. QED
      BY <2>1, <3>1, <3>2, LogAssumption DEF LogAssumption, LogTypeOK
  <2>3. CASE log_fd # 0
    BY <1>3, <2>1, <2>3 DEF LogOpen, LogTypeOK
  <2>. QED
    BY <2>2, <2>3
<1>4. CASE LogWrite
  BY <1>4, WriteTyped
<1>5. CASE LogClose
  BY <1>5, CloseTyped
<1>6. CASE LogPowerOff
  BY <1>6 DEF LogPowerOff, LogTypeOK
<1>7. CASE UNCHANGED logVars
  BY <1>7 DEF logVars, LogTypeOK
<1>. QED
  BY <1>1, <1>2, <1>3, <1>4, <1>5, <1>6, <1>7 DEF LogNext, LogStep

-----------------------------------------------------------------------------
(* The order of the messages *)

Unreported == log_pc \in {"write", "done"} /\ ~log_lost

\* What has been logged before a start or so far in it.
Logged(a) == a[1] < log_starts
             \/ (log_pc \notin {"remove", "open"} /\ a[1] = log_starts /\ a[2] <= log_count)

\* The messages of a sequence are in order, and all are logged.
Ordered(s) ==
    /\ \A i, j \in 1..Len(s) : i < j => Before(s[i], s[j])
    /\ \A i \in 1..Len(s) : Logged(s[i])

Has(s, a) == \E i \in 1..Len(s) : s[i] = a

\* File and buffer apart, so that a step says of each what it does to it.  An
\* empty buffer is one whose position is zero, because every message has a
\* length; a log that is not open and not lost has nothing left to write.
FileInOrder ==
    /\ \A i, j \in 1..Len(log_file) : i < j => Before(log_file[i], log_file[j])
    /\ \A i \in 1..Len(log_file) : log_file[i][1] <= log_starts

Pieces ==
    /\ FileInOrder
    /\ log_pc \in {"remove", "open"} => log_count = 0 /\ log_fd = 0 /\ log_buff = <<>>
    /\ log_pc = "write" => log_fd # 0
    /\ log_pc = "done" => log_buff = <<>>
    /\ log_pc = "write" /\ log_fd = -1 => log_buff = <<>> /\ log_lost
    /\ log_pc = "write" /\ log_pos = 0 => log_buff = <<>>
    /\ log_pc # "start" =>
          /\ Ordered(log_file) /\ Ordered(log_buff)
          /\ \A i \in 1..Len(log_file), j \in 1..Len(log_buff) :
                Before(log_file[i], log_buff[j])
    /\ Unreported => \A n \in 1..log_count :
          Has(log_file, <<log_starts, n>>) \/ Has(log_buff, <<log_starts, n>>)

LogInv == LogTypeOK /\ Pieces

\* One after the other, file and buffer are in order as the property says.
LEMMA PiecesInOrder == LogInv => LogInOrder
<1>. SUFFICES ASSUME LogInv PROVE LogInOrder
  OBVIOUS
<1>. USE DEF LogInv
<1>. DEFINE both == log_file \o log_buff
<1>1. log_file \in Seq(Nat \X Nat) /\ log_buff \in Seq(Nat \X Nat)
  BY DEF LogTypeOK
<1>2. /\ Len(both) = Len(log_file) + Len(log_buff)
      /\ \A i \in 1..Len(log_file) : both[i] = log_file[i]
      /\ \A i \in 1..Len(log_buff) : both[Len(log_file) + i] = log_buff[i]
  BY <1>1
<1>3. Len(log_file) \in Nat /\ Len(log_buff) \in Nat
  BY <1>1
<1>. HIDE DEF both
<1>4. ASSUME log_pc # "start", NEW i \in 1..Len(both), NEW j \in 1..Len(both), i < j
      PROVE  Before(both[i], both[j])
  <2>0. /\ \A a, b \in 1..Len(log_file) : a < b => Before(log_file[a], log_file[b])
        /\ \A a, b \in 1..Len(log_buff) : a < b => Before(log_buff[a], log_buff[b])
        /\ \A a \in 1..Len(log_file), b \in 1..Len(log_buff) : Before(log_file[a], log_buff[b])
    BY <1>4 DEF Pieces, Ordered
  <2>1. CASE j <= Len(log_file)
    BY <1>2, <1>3, <1>4, <2>0, <2>1
  <2>2. CASE i <= Len(log_file) /\ j > Len(log_file)
    <3>1. j - Len(log_file) \in 1..Len(log_buff) /\ i \in 1..Len(log_file)
          /\ j = Len(log_file) + (j - Len(log_file))
      BY <1>2, <1>3, <1>4, <2>2
    <3>2. both[i] = log_file[i] /\ both[j] = log_buff[j - Len(log_file)]
      BY <1>2, <3>1
    <3>. QED
      BY <2>0, <3>1, <3>2
  <2>3. CASE i > Len(log_file)
    <3>1. /\ i - Len(log_file) \in 1..Len(log_buff) /\ j - Len(log_file) \in 1..Len(log_buff)
          /\ i - Len(log_file) < j - Len(log_file)
          /\ i = Len(log_file) + (i - Len(log_file))
          /\ j = Len(log_file) + (j - Len(log_file))
      BY <1>2, <1>3, <1>4, <2>3
    <3>2. /\ both[i] = log_buff[i - Len(log_file)]
          /\ both[j] = log_buff[j - Len(log_file)]
      BY <1>2, <3>1
    <3>. QED
      BY <2>0, <3>1, <3>2
  <2>. QED
    BY <1>3, <1>4, <2>1, <2>2, <2>3
<1>5. ASSUME Unreported, NEW n \in 1..log_count
      PROVE  \E i \in 1..Len(both) : both[i] = <<log_starts, n>>
  <2>1. CASE Has(log_file, <<log_starts, n>>)
    <3>1. PICK i \in 1..Len(log_file) : log_file[i] = <<log_starts, n>>
      BY <2>1 DEF Has
    <3>2. i \in 1..Len(both)
      BY <1>2, <1>3
    <3>. QED
      BY <1>2, <3>1, <3>2
  <2>2. CASE Has(log_buff, <<log_starts, n>>)
    <3>1. PICK i \in 1..Len(log_buff) : log_buff[i] = <<log_starts, n>>
      BY <2>2 DEF Has
    <3>2. Len(log_file) + i \in 1..Len(both)
      BY <1>2, <1>3
    <3>. QED
      BY <1>2, <3>1, <3>2
  <2>. QED
    BY <1>5, <2>1, <2>2 DEF Pieces
<1>6. CASE log_pc = "start"
  <2>1. \A i, j \in 1..Len(log_file) : i < j => Before(log_file[i], log_file[j])
    BY DEF Pieces, FileInOrder
  <2>. QED
    BY <1>6, <2>1 DEF LogInOrder
<1>7. CASE log_pc # "start"
  <2>1. \A i, j \in 1..Len(both) : i < j => Before(both[i], both[j])
    BY <1>4, <1>7
  <2>2. log_pc \in {"write", "done"} /\ ~log_lost =>
          \A n \in 1..log_count : \E i \in 1..Len(both) : both[i] = <<log_starts, n>>
    BY <1>5 DEF Unreported
  <2>3. log_pc = "done" => log_buff = <<>>
    BY DEF Pieces
  <2>4. LogInOrder <=>
          /\ \A i, j \in 1..Len(both) : i < j => Before(both[i], both[j])
          /\ log_pc \in {"write", "done"} /\ ~log_lost =>
                \A n \in 1..log_count : \E i \in 1..Len(both) : both[i] = <<log_starts, n>>
          /\ log_pc = "done" => log_buff = <<>>
    BY <1>7, Zenon DEF LogInOrder, both
  <2>. QED
    BY <2>1, <2>2, <2>3, <2>4
<1>. QED
  BY <1>6, <1>7

\* The buffer, or its beginning, comes behind the file: what was in order
\* stays so, and a whole buffer loses nothing.
LEMMA FlushKeeps ==
    ASSUME LogInv, log_pc = "write", NEW k \in 0..Len(log_buff), Flush(k)
    PROVE  /\ \A i \in 1..Len(log_file') : log_file'[i] \in Nat \X Nat /\ Logged(log_file'[i])
           /\ \A i, j \in 1..Len(log_file') : i < j => Before(log_file'[i], log_file'[j])
           /\ ~log_lost' => ~log_lost /\ \A n \in 1..log_count : Has(log_file', <<log_starts, n>>)
<1>. USE DEF LogInv
<1>. DEFINE part == SubSeq(log_buff, 1, k)
<1>1. log_file \in Seq(Nat \X Nat) /\ log_buff \in Seq(Nat \X Nat) /\ k \in Nat
  BY DEF LogTypeOK
<1>2. /\ part \in Seq(Nat \X Nat) /\ Len(part) = k
      /\ \A i \in 1..k : part[i] = log_buff[i] /\ i \in 1..Len(log_buff)
  BY <1>1
<1>. HIDE DEF part
<1>3. /\ Len(log_file') = Len(log_file) + k
      /\ \A i \in 1..Len(log_file) : log_file'[i] = log_file[i]
      /\ \A i \in 1..k : log_file'[Len(log_file) + i] = log_buff[i]
  BY <1>1, <1>2 DEF Flush, part
<1>4. /\ \A a, b \in 1..Len(log_file) : a < b => Before(log_file[a], log_file[b])
      /\ \A a, b \in 1..Len(log_buff) : a < b => Before(log_buff[a], log_buff[b])
      /\ \A a \in 1..Len(log_file), b \in 1..Len(log_buff) : Before(log_file[a], log_buff[b])
      /\ \A a \in 1..Len(log_file) : Logged(log_file[a])
      /\ \A a \in 1..Len(log_buff) : Logged(log_buff[a])
  BY DEF Pieces, Ordered
<1>5. Len(log_file) \in Nat /\ Len(log_buff) \in Nat
  BY <1>1
<1>6. ASSUME NEW i \in 1..Len(log_file')
      PROVE  \/ i \in 1..Len(log_file) /\ log_file'[i] = log_file[i]
             \/ /\ i - Len(log_file) \in 1..k /\ i - Len(log_file) \in 1..Len(log_buff)
                /\ log_file'[i] = log_buff[i - Len(log_file)]
  <2>1. CASE i <= Len(log_file)
    BY <1>3, <1>5, <2>1
  <2>2. CASE i > Len(log_file)
    <3>1. i - Len(log_file) \in 1..k /\ i = Len(log_file) + (i - Len(log_file))
      BY <1>1, <1>3, <1>5, <2>2
    <3>. QED
      BY <1>2, <1>3, <3>1
  <2>. QED
    BY <1>5, <2>1, <2>2
<1>7. ASSUME NEW i \in 1..Len(log_file')
      PROVE  log_file'[i] \in Nat \X Nat /\ Logged(log_file'[i])
  <2>1. CASE i \in 1..Len(log_file) /\ log_file'[i] = log_file[i]
    BY <1>1, <1>4, <2>1
  <2>2. CASE /\ i - Len(log_file) \in 1..Len(log_buff)
             /\ log_file'[i] = log_buff[i - Len(log_file)]
    BY <1>1, <1>4, <2>2
  <2>. QED
    BY <1>6, <2>1, <2>2
<1>8. ASSUME NEW i \in 1..Len(log_file'), NEW j \in 1..Len(log_file'), i < j
      PROVE  Before(log_file'[i], log_file'[j])
  <2>1. CASE i \in 1..Len(log_file) /\ log_file'[i] = log_file[i]
    BY <1>4, <1>5, <1>6, <1>8, <2>1
  <2>2. CASE /\ i - Len(log_file) \in 1..Len(log_buff)
             /\ log_file'[i] = log_buff[i - Len(log_file)]
    <3>1. /\ j - Len(log_file) \in 1..Len(log_buff)
          /\ log_file'[j] = log_buff[j - Len(log_file)]
      BY <1>5, <1>6, <1>8, <2>2
    <3>2. i - Len(log_file) < j - Len(log_file)
      BY <1>3, <1>1, <1>5, <1>8
    <3>. QED
      BY <1>4, <2>2, <3>1, <3>2
  <2>. QED
    BY <1>6, <2>1, <2>2
<1>9. ASSUME ~log_lost', NEW n \in 1..log_count
      PROVE  ~log_lost /\ Has(log_file', <<log_starts, n>>)
  <2>1. k = Len(log_buff) /\ ~log_lost
    BY <1>9 DEF Flush
  <2>2. CASE Has(log_file, <<log_starts, n>>)
    <3>1. PICK i \in 1..Len(log_file) : log_file[i] = <<log_starts, n>>
      BY <2>2 DEF Has
    <3>2. i \in 1..Len(log_file')
      BY <1>1, <1>3, <1>5
    <3>. QED
      BY <1>3, <2>1, <3>1, <3>2 DEF Has
  <2>3. CASE Has(log_buff, <<log_starts, n>>)
    <3>1. PICK i \in 1..Len(log_buff) : log_buff[i] = <<log_starts, n>>
      BY <2>3 DEF Has
    <3>2. Len(log_file) + i \in 1..Len(log_file')
      BY <1>1, <1>3, <1>5, <2>1
    <3>. QED
      BY <1>3, <2>1, <3>1, <3>2 DEF Has
  <2>. QED
    BY <2>1, <2>2, <2>3 DEF Pieces, Unreported
<1>10. ASSUME ~log_lost' PROVE ~log_lost
  BY <1>10 DEF Flush
<1>. QED
  BY <1>7, <1>8, <1>9, <1>10

\* The message that is logged next comes behind all that have been.
LEMMA NextIsLast ==
    ASSUME LogTypeOK, log_pc = "write", NEW a, a \in Nat \X Nat, Logged(a)
    PROVE  /\ Before(a, <<log_starts, log_count + 1>>)
           /\ a[1] <= log_starts
           /\ a[1] < log_starts \/ (a[1] = log_starts /\ a[2] <= log_count)
           /\ a[1] < log_starts \/ (a[1] = log_starts /\ a[2] <= log_count + 1)
<1>1. a[1] \in Nat /\ a[2] \in Nat /\ log_starts \in Nat /\ log_count \in Nat
  BY DEF LogTypeOK
<1>2. a[1] < log_starts \/ (a[1] = log_starts /\ a[2] <= log_count)
  BY DEF Logged
<1>. QED
  BY <1>1, <1>2 DEF Before

LEMMA WriteOrder == ASSUME LogInv, LogWrite PROVE Pieces'
<1>. USE DEF LogInv
<1>. DEFINE len == Asked[log_report[log_count + 1]]
            this == <<log_starts, log_count + 1>>
<1>1. /\ log_pc = "write" /\ log_count < Len(log_report) /\ log_count' = log_count + 1
      /\ log_pc' \in {"write", "over"}
      /\ UNCHANGED <<log_fd, log_report, log_starts>>
      /\ log_count \in Nat /\ log_starts \in Nat /\ log_fd \in {-1, 1} /\ log_pos \in Nat
  BY DEF LogWrite, LogTypeOK, Pieces
<1>2. len \in Nat /\ len # 0
  <2>1. log_report \in Seq(Message)
    BY LogAssumption DEF LogAssumption, LogTypeOK
  <2>2. log_report[log_count + 1] \in Message
    BY <1>1, <2>1
  <2>. QED
    BY <2>2, LogAssumption DEF LogAssumption
<1>3. /\ log_file \in Seq(Nat \X Nat) /\ log_buff \in Seq(Nat \X Nat)
      /\ Len(log_file) \in Nat /\ Len(log_buff) \in Nat
      /\ \A i \in 1..Len(log_file) : log_file[i] \in Nat \X Nat
      /\ \A i \in 1..Len(log_buff) : log_buff[i] \in Nat \X Nat
  BY DEF LogTypeOK
<1>4. /\ \A a, b \in 1..Len(log_file) : a < b => Before(log_file[a], log_file[b])
      /\ \A a, b \in 1..Len(log_buff) : a < b => Before(log_buff[a], log_buff[b])
      /\ \A a \in 1..Len(log_file), b \in 1..Len(log_buff) : Before(log_file[a], log_buff[b])
      /\ \A a \in 1..Len(log_file) : Logged(log_file[a])
      /\ \A a \in 1..Len(log_buff) : Logged(log_buff[a])
  BY <1>1 DEF Pieces, Ordered
<1>5. /\ this \in Nat \X Nat /\ this[1] = log_starts /\ this[2] = log_count + 1
  BY <1>1
<1>6. /\ \A i \in 1..Len(log_file) : Before(log_file[i], this) /\ log_file[i][1] <= log_starts
      /\ \A i \in 1..Len(log_buff) : Before(log_buff[i], this)
  BY <1>1, <1>3, <1>4, NextIsLast
<1>7. /\ \A i \in 1..Len(log_file) :
            log_file[i][1] < log_starts
            \/ (log_file[i][1] = log_starts /\ log_file[i][2] <= log_count + 1)
      /\ \A i \in 1..Len(log_buff) :
            log_buff[i][1] < log_starts
            \/ (log_buff[i][1] = log_starts /\ log_buff[i][2] <= log_count + 1)
  BY <1>1, <1>3, <1>4, NextIsLast
<1>. HIDE DEF len, this
<1>8. CASE log_fd # 1 /\ UNCHANGED <<log_pos, log_buff, log_file, log_shorts, log_lost>>
  <2>1. FileInOrder'
    BY <1>1, <1>4, <1>6, <1>8 DEF FileInOrder
  <2>2. Ordered(log_file)' /\ Ordered(log_buff)'
    BY <1>1, <1>4, <1>7, <1>8 DEF Ordered, Logged
  <2>3. log_lost' /\ log_buff' = <<>>
    BY <1>1, <1>8 DEF Pieces
  <2>4. \A i \in 1..Len(log_file'), j \in 1..Len(log_buff') : Before(log_file'[i], log_buff'[j])
    BY <1>4, <1>8
  <2>. QED
    BY <1>1, <2>1, <2>2, <2>3, <2>4 DEF Pieces, Unreported
<1>9. ASSUME log_fd = 1, NEW k \in 0..Len(log_buff), Flush(k), log_buff' = <<this>>, log_pos' = len
      PROVE  Pieces'
  <2>1. /\ \A i \in 1..Len(log_file') : log_file'[i] \in Nat \X Nat /\ Logged(log_file'[i])
        /\ \A i, j \in 1..Len(log_file') : i < j => Before(log_file'[i], log_file'[j])
        /\ ~log_lost' => ~log_lost /\ \A n \in 1..log_count : Has(log_file', <<log_starts, n>>)
    BY <1>1, <1>9, FlushKeeps
  <2>2. Len(log_buff') = 1 /\ log_buff'[1] = this
    BY <1>9
  <2>3. \A i \in 1..Len(log_file') :
           /\ Before(log_file'[i], this) /\ log_file'[i][1] <= log_starts
           /\ log_file'[i][1] < log_starts
              \/ (log_file'[i][1] = log_starts /\ log_file'[i][2] <= log_count + 1)
    BY <1>1, <2>1, NextIsLast DEF this
  <2>4. FileInOrder' /\ Ordered(log_file)'
    BY <1>1, <2>1, <2>3 DEF FileInOrder, Ordered, Logged
  <2>5. Ordered(log_buff)'
    BY <1>1, <1>5, <2>2 DEF Ordered, Logged
  <2>6. \A i \in 1..Len(log_file'), j \in 1..Len(log_buff') : Before(log_file'[i], log_buff'[j])
    BY <2>2, <2>3
  <2>7. ASSUME Unreported', NEW n \in 1..log_count'
        PROVE  Has(log_file', <<log_starts', n>>) \/ Has(log_buff', <<log_starts', n>>)
    <3>1. CASE n = log_count + 1
      <4>1. log_buff'[1] = <<log_starts', n>>
        BY <1>1, <2>2, <3>1 DEF this
      <4>. QED
        BY <2>2, <4>1 DEF Has
    <3>2. CASE n \in 1..log_count
      BY <1>1, <2>1, <2>7, <3>2 DEF Unreported
    <3>. QED
      BY <1>1, <3>1, <3>2
  <2>8. (Unreported => \A n \in 1..log_count :
          Has(log_file, <<log_starts, n>>) \/ Has(log_buff, <<log_starts, n>>))'
    BY <2>7, Zenon
  <2>9. log_pos' # 0 /\ log_fd' # -1 /\ log_fd' # 0 /\ log_pc' \in {"write", "over"}
    BY <1>1, <1>2, <1>9
  <2>. QED
    BY <2>4, <2>5, <2>6, <2>8, <2>9 DEF Pieces
<1>10. CASE /\ log_fd = 1 /\ log_buff' = Append(log_buff, this) /\ log_pos' = log_pos + len
            /\ UNCHANGED <<log_file, log_shorts, log_lost>>
  <2>2. /\ Len(log_buff') = Len(log_buff) + 1 /\ log_buff'[Len(log_buff) + 1] = this
        /\ \A i \in 1..Len(log_buff) : log_buff'[i] = log_buff[i]
    BY <1>3, <1>5, <1>10
  <2>3. \A i \in 1..Len(log_buff') :
           i \in 1..Len(log_buff) \/ (i = Len(log_buff) + 1 /\ log_buff'[i] = this)
    BY <1>3, <2>2
  <2>4. FileInOrder' /\ Ordered(log_file)'
    BY <1>1, <1>4, <1>6, <1>7, <1>10 DEF FileInOrder, Ordered, Logged
  <2>5. Ordered(log_buff)'
    <3>1. ASSUME NEW i \in 1..Len(log_buff'), NEW j \in 1..Len(log_buff'), i < j
          PROVE  Before(log_buff'[i], log_buff'[j])
      <4>1. i \in 1..Len(log_buff)
        BY <1>3, <2>2, <3>1
      <4>. QED
        BY <1>4, <1>6, <2>2, <2>3, <3>1, <4>1
    <3>2. ASSUME NEW i \in 1..Len(log_buff')
          PROVE  log_buff'[i][1] < log_starts
                 \/ (log_buff'[i][1] = log_starts /\ log_buff'[i][2] <= log_count + 1)
      BY <1>1, <1>5, <1>7, <2>2, <2>3
    <3>. QED
      BY <1>1, <3>1, <3>2 DEF Ordered, Logged
  <2>6. \A i \in 1..Len(log_file'), j \in 1..Len(log_buff') : Before(log_file'[i], log_buff'[j])
    BY <1>4, <1>6, <1>10, <2>2, <2>3
  <2>7. ASSUME Unreported', NEW n \in 1..log_count'
        PROVE  Has(log_file', <<log_starts', n>>) \/ Has(log_buff', <<log_starts', n>>)
    <3>1. CASE n = log_count + 1
      <4>1. log_buff'[Len(log_buff) + 1] = <<log_starts', n>>
        BY <1>1, <2>2, <3>1 DEF this
      <4>2. Len(log_buff) + 1 \in 1..Len(log_buff')
        BY <1>3, <2>2
      <4>. QED
        BY <4>1, <4>2 DEF Has
    <3>2. CASE n \in 1..log_count
      <4>1. Has(log_file, <<log_starts, n>>) \/ Has(log_buff, <<log_starts, n>>)
        BY <1>1, <1>10, <2>7, <3>2 DEF Pieces, Unreported
      <4>2. \A i \in 1..Len(log_buff) : i \in 1..Len(log_buff')
        BY <1>3, <2>2
      <4>. QED
        BY <1>1, <1>10, <2>2, <4>1, <4>2 DEF Has
    <3>. QED
      BY <1>1, <3>1, <3>2
  <2>8. (Unreported => \A n \in 1..log_count :
          Has(log_file, <<log_starts, n>>) \/ Has(log_buff, <<log_starts, n>>))'
    BY <2>7, Zenon
  <2>9. log_pos' # 0 /\ log_fd' # -1 /\ log_fd' # 0 /\ log_pc' \in {"write", "over"}
    BY <1>1, <1>2, <1>10
  <2>. QED
    BY <2>4, <2>5, <2>6, <2>8, <2>9 DEF Pieces
<1>11. \/ log_fd # 1 /\ UNCHANGED <<log_pos, log_buff, log_file, log_shorts, log_lost>>
       \/ /\ log_fd = 1
          /\ \E k \in 0..Len(log_buff) : Flush(k) /\ log_buff' = <<this>> /\ log_pos' = len
       \/ /\ log_fd = 1 /\ log_buff' = Append(log_buff, this) /\ log_pos' = log_pos + len
          /\ UNCHANGED <<log_file, log_shorts, log_lost>>
  BY Zenon DEF LogWrite, len, this
<1>. QED
  BY <1>8, <1>9, <1>10, <1>11, Zenon

LEMMA CloseOrder == ASSUME LogInv, LogClose PROVE Pieces'
<1>. USE DEF LogInv
<1>1. /\ log_pc = "write" /\ log_pc' = "done"
      /\ UNCHANGED <<log_report, log_count, log_starts>>
      /\ log_count \in Nat /\ log_starts \in Nat /\ log_fd \in {-1, 1} /\ log_pos \in Nat
  BY DEF LogClose, LogTypeOK, Pieces
<1>2. /\ \A i \in 1..Len(log_file) : log_file[i] \in Nat \X Nat
      /\ \A a, b \in 1..Len(log_file) : a < b => Before(log_file[a], log_file[b])
      /\ \A a \in 1..Len(log_file) : Logged(log_file[a])
  BY <1>1 DEF Pieces, Ordered, LogTypeOK
<1>3. CASE /\ log_fd # 1 \/ log_pos = 0
           /\ UNCHANGED <<log_pos, log_buff, log_file, log_shorts, log_lost>>
  <2>1. log_buff = <<>>
    BY <1>1, <1>3 DEF Pieces
  <2>2. \A i \in 1..Len(log_file) : log_file[i][1] <= log_starts
    BY <1>1, <1>2, NextIsLast
  <2>3. FileInOrder' /\ Ordered(log_file)' /\ Ordered(log_buff)'
    BY <1>1, <1>2, <1>3, <2>1, <2>2 DEF FileInOrder, Ordered, Logged
  <2>4. Unreported' => Unreported
    BY <1>1, <1>3 DEF Unreported
  <2>. QED
    BY <1>1, <1>3, <2>1, <2>3, <2>4 DEF Pieces, Has
<1>4. ASSUME NEW k \in 0..Len(log_buff), Flush(k), log_buff' = <<>>
      PROVE  Pieces'
  <2>1. /\ \A i \in 1..Len(log_file') : log_file'[i] \in Nat \X Nat /\ Logged(log_file'[i])
        /\ \A i, j \in 1..Len(log_file') : i < j => Before(log_file'[i], log_file'[j])
        /\ ~log_lost' => ~log_lost /\ \A n \in 1..log_count : Has(log_file', <<log_starts, n>>)
    BY <1>1, <1>4, FlushKeeps
  <2>2. \A i \in 1..Len(log_file') : log_file'[i][1] <= log_starts
    BY <1>1, <2>1, NextIsLast
  <2>3. FileInOrder' /\ Ordered(log_file)' /\ Ordered(log_buff)'
    BY <1>1, <1>4, <2>1, <2>2 DEF FileInOrder, Ordered, Logged
  <2>4. ASSUME Unreported', NEW n \in 1..log_count'
        PROVE  Has(log_file', <<log_starts', n>>)
    BY <1>1, <2>1, <2>4 DEF Unreported
  <2>5. (Unreported => \A n \in 1..log_count :
          Has(log_file, <<log_starts, n>>) \/ Has(log_buff, <<log_starts, n>>))'
    BY <2>4, Zenon
  <2>6. \A i \in 1..Len(log_file'), j \in 1..Len(log_buff') : Before(log_file'[i], log_buff'[j])
    BY <1>4
  <2>. QED
    BY <1>1, <1>4, <2>3, <2>5, <2>6 DEF Pieces
<1>5. \/ /\ log_fd # 1 \/ log_pos = 0
         /\ UNCHANGED <<log_pos, log_buff, log_file, log_shorts, log_lost>>
      \/ \E k \in 0..Len(log_buff) : Flush(k) /\ log_buff' = <<>>
  BY DEF LogClose
<1>. QED
  BY <1>3, <1>4, <1>5, Zenon

LEMMA StepOrder == ASSUME LogInv, [LogNext]_logVars PROVE LogInv'
<1>. USE DEF LogInv
<1>0. LogTypeOK'
  BY StepTyped
<1>1. CASE LogStart
  <2>1. /\ log_pc' = "remove" /\ log_starts' = log_starts + 1 /\ log_fd' = 0
        /\ log_buff' = <<>> /\ log_count' = 0 /\ log_file' = log_file
    BY <1>1 DEF LogStart
  <2>2. \A i \in 1..Len(log_file) :
           /\ log_file[i][1] \in Nat /\ log_file[i][1] <= log_starts
           /\ log_file[i][1] <= log_starts + 1 /\ log_file[i][1] < log_starts + 1
    BY DEF Pieces, FileInOrder, LogTypeOK
  <2>3. \A i, j \in 1..Len(log_file) : i < j => Before(log_file[i], log_file[j])
    BY DEF Pieces, FileInOrder
  <2>4. FileInOrder' /\ Ordered(log_file)' /\ Ordered(log_buff)'
    BY <2>1, <2>2, <2>3 DEF FileInOrder, Ordered, Logged
  <2>. QED
    BY <1>0, <2>1, <2>4 DEF Pieces, Unreported
<1>2. CASE LogRemove
  <2>1. /\ log_pc = "remove" /\ log_pc' = "open" /\ log_file' \in {<<>>, log_file}
        /\ UNCHANGED <<log_fd, log_buff, log_count, log_starts>>
    BY <1>2 DEF LogRemove
  <2>2. FileInOrder /\ Ordered(log_file) /\ log_buff = <<>> /\ log_count = 0 /\ log_fd = 0
    BY <2>1 DEF Pieces
  <2>3. FileInOrder' /\ Ordered(log_file)' /\ Ordered(log_buff)'
    <3>1. CASE log_file' = <<>>
      BY <2>1, <2>2, <3>1 DEF FileInOrder, Ordered
    <3>2. CASE log_file' = log_file
      BY <2>1, <2>2, <3>2 DEF FileInOrder, Ordered, Logged
    <3>. QED
      BY <2>1, <3>1, <3>2
  <2>. QED
    BY <1>0, <2>1, <2>2, <2>3 DEF Pieces, Unreported
<1>3. CASE LogOpen
  <2>1. /\ log_pc = "open" /\ log_pc' = "write" /\ log_fd = 0
        /\ UNCHANGED <<log_buff, log_file, log_count, log_starts>>
    BY <1>3 DEF LogOpen, Pieces
  <2>2. log_fd' \in {-1, 1} /\ (log_fd' = -1 => log_lost')
    BY <1>3, <2>1 DEF LogOpen
  <2>3. FileInOrder /\ Ordered(log_file) /\ log_buff = <<>> /\ log_count = 0
    BY <2>1 DEF Pieces
  <2>4. FileInOrder' /\ Ordered(log_file)' /\ Ordered(log_buff)'
    BY <2>1, <2>3 DEF FileInOrder, Ordered, Logged
  <2>. QED
    BY <1>0, <2>1, <2>2, <2>3, <2>4 DEF Pieces, Unreported
<1>4. CASE LogWrite
  BY <1>0, <1>4, WriteOrder
<1>5. CASE LogClose
  BY <1>0, <1>5, CloseOrder
<1>6. CASE LogPowerOff
  <2>1. log_pc' = "start" /\ UNCHANGED <<log_file, log_starts>>
    BY <1>6 DEF LogPowerOff
  <2>2. FileInOrder'
    BY <2>1 DEF FileInOrder, Pieces
  <2>. QED
    BY <1>0, <2>1, <2>2 DEF Pieces, Unreported
<1>7. CASE UNCHANGED logVars
  BY <1>0, <1>7 DEF logVars, Pieces, FileInOrder, Ordered, Logged, Unreported, Has
<1>. QED
  BY <1>1, <1>2, <1>3, <1>4, <1>5, <1>6, <1>7 DEF LogNext, LogStep

\* The variables keep their types, for every buffer, set of messages and report.
THEOREM LogTypeCorrect == LogSpec => []LogTypeOK
<1>1. LogTypeOK /\ [LogNext]_logVars => LogTypeOK'
  BY StepTyped
<1>. QED
  BY <1>1, InitTyped, PTL DEF LogSpec

\* Through failed writes, power losses and restarts the messages come to the file
\* in the order they were logged, none twice, and a start that was told of no
\* failure has lost none.
THEOREM LogAlwaysInOrder == LogSpec => []LogInOrder
<1>1. LogInit => LogInv
  BY InitTyped DEF LogInv, LogInit, Pieces, FileInOrder, Unreported
<1>2. LogInv /\ [LogNext]_logVars => LogInv'
  BY StepOrder
<1>3. LogInv => LogInOrder
  BY PiecesInOrder
<1>. QED
  BY <1>1, <1>2, <1>3, PTL DEF LogSpec

=============================================================================
