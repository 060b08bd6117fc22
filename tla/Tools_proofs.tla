----------------------------- MODULE Tools_proofs -----------------------------
(***************************************************************************)
(* Proofs about programs that Tools composes, and about their composition. *)
(* ActVerifier: __swap_data32 reverses the bytes of what it is called for, *)
(* whatever its length, and what is verified was verified on a firmware in *)
(* the range. ModuleLoader: every module of the list is found by its path  *)
(* and by its number. EmmcDumper: what holds of its files for any list of  *)
(* partitions, any sizes and any size of the buffer, through any number of *)
(* starts. Allocators: what each of the six plugins takes it gives back    *)
(* once, whatever is refused, for tables of any length. Tools: every tool  *)
(* keeps its promises beside the others.                                   *)
(***************************************************************************)
EXTENDS Tools, LogBuffer_proofs, Dumpers_proofs, SequenceTheorems, FiniteSetTheorems, TLAPS

-----------------------------------------------------------------------------
(* ActVerifier *)

LEMMA HalfFits ==
    ASSUME NEW len \in Nat
    PROVE  /\ Half(len) \in Nat /\ 2 * Half(len) =< len
           /\ len % 2 = 1 => len = 2 * Half(len) + 1
           /\ len % 2 # 1 => len = 2 * Half(len)
BY DEF Half

LEMMA WordTyped ==
    ASSUME NEW what \in {"sig", "digest", "padding"}, NEW n \in Nat
    PROVE  WordOf(what, n) \in Word
BY DEF WordOf, Word, Bytes

LEMMA BswapTyped ==
    ASSUME NEW w \in Word
    PROVE  Bswap(w) \in Word /\ \A b \in 1..4 : Bswap(w)[b] = w[5 - b]
<1>1. \A b \in 1..4 : 5 - b \in 1..4
  OBVIOUS
<1>. QED
  BY <1>1 DEF Bswap, Word

\* What the loop has done: the words at both ends are exchanged and turned, those
\* in between are as they were.
Turned(p) == p < av_len /\ (p < av_i \/ p >= av_len - av_i)

Swapping ==
    av_pc \in {"swap1", "swap2"} =>
       /\ av_i =< Half(av_len)
       /\ \A p \in Places :
             av_words[p] = IF Turned(p) THEN Bswap(av_src[av_len - p - 1]) ELSE av_src[p]

AvIInv == AvTypeOK /\ Swapping /\ SigReversed

LEMMA Begins == AvInit => AvIInv
<1>. SUFFICES ASSUME AvInit PROVE AvIInv
  OBVIOUS
<1>1. av_size \in Nat /\ av_pc = "fw" /\ av_len = 0 /\ av_i = 0
  BY ActAssumption DEF AvInit, ActAssumption
<1>2. \A p \in Places : WordOf("sig", p) \in Word
  BY <1>1, WordTyped DEF Places
<1>3. av_words \in [Places -> Word] /\ av_src \in [Places -> Word]
  BY <1>2 DEF AvInit
<1>. QED
  BY <1>1, <1>3 DEF AvInit, AvIInv, AvTypeOK, Swapping, SigReversed

\* The call of __swap_data32 for the first n words.
LEMMA CallBegins ==
    ASSUME AvTypeOK, NEW n \in 0..av_size, Calls(n), av_words' \in [Places -> Word],
           av_pc' \in {"swap1", "swap2"}
    PROVE  AvIInv'
<1>1. av_size \in Nat
  BY ActAssumption DEF AvTypeOK, ActAssumption
<1>2. Half(n) \in Nat /\ Places' = Places
  <2>1. n \in Nat
    BY <1>1
  <2>2. Half(n) \in Nat
    BY <2>1, HalfFits
  <2>. QED
    BY <2>2 DEF Calls, Places
<1>3. AvTypeOK'
  BY <1>1, <1>2 DEF AvTypeOK, Calls
<1>4. Swapping'
  BY <1>1, <1>2 DEF Swapping, Turned, Calls, Places
<1>. QED
  BY <1>3, <1>4 DEF AvIInv, SigReversed

LEMMA AvFailsKeeps == ASSUME AvIInv, AvFails PROVE AvIInv'
BY DEF AvIInv, AvFails, AvTypeOK, Swapping, SigReversed, Places

\* One round of the loop, and the end of it.
LEMMA Swaps ==
    ASSUME AvIInv, NEW from \in {"swap1", "swap2"}, NEW to \in {"rsa", "compare"},
           __swap_data32(from, to)
    PROVE  AvIInv'
<1>. DEFINE last == av_len - av_i - 1
<1>1. /\ av_pc = from /\ UNCHANGED <<av_np, av_version, av_genuine, av_size, av_len, av_src>>
      /\ Places' = Places
  BY DEF __swap_data32, Places
<1>2. /\ av_size \in Nat /\ av_len \in 0..av_size /\ av_i \in 0..av_len
      /\ av_words \in [Places -> Word] /\ av_src \in [Places -> Word]
  BY ActAssumption DEF AvIInv, AvTypeOK, ActAssumption
<1>3. /\ av_i =< Half(av_len)
      /\ \A p \in Places :
            av_words[p] = IF Turned(p) THEN Bswap(av_src[av_len - p - 1]) ELSE av_src[p]
  BY <1>1 DEF AvIInv, Swapping
<1>4. /\ Half(av_len) \in Nat /\ 2 * Half(av_len) =< av_len
      /\ av_len % 2 = 1 => av_len = 2 * Half(av_len) + 1
      /\ av_len % 2 # 1 => av_len = 2 * Half(av_len)
  <2>1. av_len \in Nat
    BY <1>2
  <2>. QED
    BY <2>1, HalfFits
<1>5. ASSUME av_i < Half(av_len),
             av_words' = [p \in Places |->
                 IF p = av_i THEN Bswap(av_words[last])
                 ELSE IF p = last THEN Bswap(av_words[av_i]) ELSE av_words[p]],
             av_i' = av_i + 1, av_pc' = av_pc
      PROVE  AvIInv'
  <2>1. av_i \in Places /\ last \in Places /\ av_i < last /\ last < av_len
    BY <1>2, <1>4, <1>5 DEF Places
  <2>2. Bswap(av_words[last]) \in Word /\ Bswap(av_words[av_i]) \in Word
    BY <1>2, <2>1, BswapTyped
  <2>3. av_words' \in [Places -> Word]
    BY <1>2, <1>5, <2>2
  <2>4. AvTypeOK'
    BY <1>1, <1>2, <1>4, <1>5, <2>3 DEF AvIInv, AvTypeOK
  <2>5. av_words[last] = av_src[last] /\ av_words[av_i] = av_src[av_i]
    BY <1>2, <1>3, <2>1 DEF Turned
  <2>6. ASSUME NEW p \in Places
        PROVE  av_words'[p] = IF Turned(p)' THEN Bswap(av_src[av_len - p - 1]) ELSE av_src[p]
    <3>1. CASE p = av_i
      BY <1>1, <1>2, <1>5, <2>1, <2>5, <3>1 DEF Turned
    <3>2. CASE p = last
      BY <1>1, <1>2, <1>5, <2>1, <2>5, <3>2 DEF Turned
    <3>3. CASE p # av_i /\ p # last
      <4>1. p \in Int /\ (Turned(p)' <=> Turned(p))
        BY <1>1, <1>2, <1>5, <3>3 DEF Turned, Places
      <4>2. av_words'[p] = av_words[p]
        BY <1>5, <3>3
      <4>. QED
        BY <1>3, <4>1, <4>2
    <3>. QED
      BY <3>1, <3>2, <3>3
  <2>7. Swapping'
    BY <1>1, <1>2, <1>4, <1>5, <2>6 DEF Swapping
  <2>. QED
    BY <1>1, <1>5, <2>4, <2>7 DEF AvIInv, SigReversed
<1>6. ASSUME av_i = Half(av_len), MiddleWord(av_len), av_pc' = to, av_i' = av_i
      PROVE  AvIInv'
  <2>1. ASSUME av_len % 2 = 1 PROVE Half(av_len) \in Places
    BY <1>2, <1>4, <2>1 DEF Places
  <2>2. av_words' \in [Places -> Word]
    BY <1>2, <1>6, <2>1, BswapTyped DEF MiddleWord
  <2>3. AvTypeOK'
    BY <1>1, <1>2, <1>6, <2>2 DEF AvIInv, AvTypeOK
  <2>4. ASSUME NEW p \in Places
        PROVE  av_words'[p] = IF p < av_len THEN Bswap(av_src[av_len - p - 1]) ELSE av_src[p]
    <3>1. CASE p < av_len /\ ~Turned(p)
      <4>1. av_len % 2 = 1 /\ p = Half(av_len) /\ av_len - p - 1 = p
        BY <1>2, <1>4, <1>6, <3>1 DEF Turned, Places
      <4>2. av_words[p] = av_src[p]
        BY <1>3, <3>1
      <4>. QED
        BY <1>2, <1>6, <3>1, <4>1, <4>2 DEF MiddleWord
    <3>2. CASE Turned(p) \/ ~(p < av_len)
      <4>1. p # Half(av_len) \/ av_len % 2 # 1
        BY <1>2, <1>4, <1>6, <3>2 DEF Turned, Places
      <4>2. av_words'[p] = av_words[p]
        BY <1>2, <1>6, <4>1 DEF MiddleWord
      <4>. QED
        BY <1>3, <3>2, <4>2 DEF Turned
    <3>. QED
      BY <3>1, <3>2
  <2>5. SigReversed'
    <3>1. ASSUME NEW p \in Places, p < av_len
          PROVE  \A b \in 1..4 : av_words'[p][b] = av_src[av_len - p - 1][5 - b]
      <4>1. av_len - p - 1 \in Places
        BY <1>2, <3>1 DEF Places
      <4>. QED
        BY <1>2, <2>4, <3>1, <4>1, BswapTyped
    <3>. QED
      BY <1>1, <2>4, <3>1 DEF SigReversed
  <2>6. Swapping'
    BY <1>6 DEF Swapping
  <2>. QED
    BY <2>3, <2>5, <2>6 DEF AvIInv
<1>. QED
  BY <1>5, <1>6 DEF __swap_data32

LEMMA Rsa == ASSUME AvIInv, AvRsa PROVE AvIInv'
<1>1. AvDigest \in 0..av_size /\ av_size \in Nat
  BY ActAssumption DEF AvIInv, AvTypeOK, ActAssumption
<1>2. ASSUME NEW p \in Places
      PROVE  /\ WordOf("padding", p) \in Word
             /\ p < AvDigest => Bswap(WordOf("digest", AvDigest - p - 1)) \in Word
  <2>1. p \in Nat
    BY <1>1 DEF Places
  <2>2. p < AvDigest => AvDigest - p - 1 \in Nat
    BY <1>1, <2>1
  <2>. QED
    BY <2>1, <2>2, WordTyped, BswapTyped
<1>3. av_words' \in [Places -> Word] /\ Calls(AvDigest) /\ av_pc' = "swap2"
  BY <1>2 DEF AvRsa
<1>. QED
  BY <1>1, <1>3, CallBegins DEF AvIInv

LEMMA Keeps == AvIInv /\ [AvNext]_avVars => AvIInv'
<1>. SUFFICES ASSUME AvIInv, [AvNext]_avVars PROVE AvIInv'
  OBVIOUS
<1>1. CASE actVerifierCheckSystemFw
  <2>1. CASE av_pc' = "module" /\ UNCHANGED <<av_np, av_version, av_genuine, av_size, av_len, av_i, av_words, av_src>>
    BY <2>1 DEF AvIInv, AvTypeOK, Swapping, SigReversed, Places
  <2>. QED
    BY <1>1, <2>1, AvFailsKeeps DEF actVerifierCheckSystemFw
<1>2. CASE AvModule
  <2>1. CASE av_pc' = "read" /\ UNCHANGED <<av_np, av_version, av_genuine, av_size, av_len, av_i, av_words, av_src>>
    BY <2>1 DEF AvIInv, AvTypeOK, Swapping, SigReversed, Places
  <2>. QED
    BY <1>2, <2>1, AvFailsKeeps DEF AvModule
<1>3. CASE actVerifierReadActData
  <2>1. CASE av_pc' = "swap1" /\ UNCHANGED av_words /\ Calls(av_size)
    <3>1. av_size \in 0..av_size /\ av_words' \in [Places -> Word]
      BY <2>1, ActAssumption DEF AvIInv, AvTypeOK, ActAssumption
    <3>. QED
      BY <2>1, <3>1, CallBegins DEF AvIInv
  <2>2. CASE av_pc' = "keys" /\ UNCHANGED <<av_np, av_version, av_genuine, av_size, av_len, av_i, av_words, av_src>>
    BY <2>2 DEF AvIInv, AvTypeOK, Swapping, SigReversed, Places
  <2>. QED
    BY <1>3, <2>1, <2>2, AvFailsKeeps DEF actVerifierReadActData
<1>4. CASE AvSwap1
  BY <1>4, Swaps DEF AvSwap1
<1>5. CASE AvRsa
  BY <1>5, Rsa
<1>6. CASE AvSwap2
  BY <1>6, Swaps DEF AvSwap2
<1>7. CASE AvCompare
  BY <1>7 DEF AvCompare, AvIInv, AvTypeOK, Swapping, SigReversed, Places
<1>8. CASE UNCHANGED avVars
  BY <1>8 DEF avVars, AvIInv, AvTypeOK, Swapping, Turned, SigReversed, Places
<1>9. CASE AvKeys
  <2>1. CASE av_pc' = "swap1" /\ UNCHANGED av_words /\ Calls(av_size)
    <3>1. av_size \in 0..av_size /\ av_words' \in [Places -> Word]
      BY <2>1, ActAssumption DEF AvIInv, AvTypeOK, ActAssumption
    <3>. QED
      BY <2>1, <3>1, CallBegins DEF AvIInv
  <2>. QED
    BY <1>9, <2>1, AvFailsKeeps DEF AvKeys
<1>10. CASE AvMac \/ AvNvs
  <2>1. CASE av_pc' \in {"nvs", "ok"} /\ UNCHANGED <<av_np, av_version, av_genuine, av_size, av_len, av_i, av_words, av_src>>
    BY <2>1 DEF AvIInv, AvTypeOK, Swapping, SigReversed, Places
  <2>. QED
    BY <1>10, <2>1, AvFailsKeeps DEF AvMac, AvNvs
<1>. QED
  BY <1>1, <1>2, <1>3, <1>4, <1>5, <1>6, <1>7, <1>8, <1>9, <1>10 DEF AvNext

\* The variables keep their types, for every length of signature and digest.
THEOREM AvTypeCorrect == AvSpec => []AvTypeOK
<1>1. AvIInv => AvTypeOK
  BY DEF AvIInv
<1>. QED
  BY <1>1, Begins, Keeps, PTL DEF AvSpec

\* __swap_data32 leaves the bytes it was called for in the opposite order, for an
\* even and an odd number of words, and the others as they were.
THEOREM SigAlwaysReversed == AvSpec => []SigReversed
<1>1. AvIInv => SigReversed
  BY DEF AvIInv
<1>. QED
  BY <1>1, Begins, Keeps, PTL DEF AvSpec

-----------------------------------------------------------------------------

\* An unsigned difference below the range comes from a version in the range.
LEMMA RangeIsRange ==
    ASSUME NEW v \in AvVersions, (v - AvFirst) % AvModulus < AvRange
    PROVE  v >= AvFirst /\ v < AvFirst + AvRange
<1>. USE ActAssumption DEF ActAssumption
<1>. DEFINE q == (v - AvFirst) \div AvModulus
            r == (v - AvFirst) % AvModulus
<1>1. /\ v \in Nat /\ v < AvModulus /\ AvModulus \in Nat \ {0} /\ AvFirst \in Nat
      /\ AvRange \in Nat /\ AvFirst + AvRange =< AvModulus
  OBVIOUS
<1>2. v - AvFirst = AvModulus * q + r /\ q \in Int /\ r \in Nat /\ r < AvModulus
  BY <1>1
<1>. HIDE DEF q, r
<1>3. CASE q = 0
  BY <1>1, <1>2, <1>3 DEF r
<1>4. CASE q >= 1
  <2>1. AvModulus * q >= AvModulus
    BY <1>1, <1>2, <1>4
  <2>. QED
    BY <1>1, <1>2, <2>1
<1>5. CASE q =< -1
  <2>1. AvModulus * q =< -AvModulus
    BY <1>1, <1>2, <1>5
  <2>2. r >= AvModulus - AvFirst
    BY <1>1, <1>2, <2>1
  <2>. QED
    BY <1>1, <1>2, <2>2 DEF r
<1>. QED
  BY <1>2, <1>3, <1>4, <1>5

LEMMA BswapTwice == ASSUME NEW w \in Word PROVE Bswap(Bswap(w)) = w
BY DEF Bswap, Word

\* What the key opened, as long as it is there; and that the firmware was checked.
Opened ==
    /\ av_pc \in {"swap2", "compare"} =>
          /\ av_len = AvDigest
          /\ \A p \in 0..AvDigest - 1 :
                av_src[p] = IF av_genuine THEN Bswap(WordOf("digest", AvDigest - p - 1))
                            ELSE WordOf("padding", p)
    /\ av_pc \notin {"fw", "failed"} => av_version >= AvFirst /\ av_version < AvFirst + AvRange
    /\ av_pc \in {"mac", "nvs", "ok"} => av_genuine

\* Once they are turned back, the words are the digest, or no word of one.
LEMMA Turns ==
    ASSUME AvIInv, Opened, av_pc = "compare", NEW p \in 0..AvDigest - 1
    PROVE  /\ av_genuine => av_words[p] = WordOf("digest", p)
           /\ ~av_genuine => av_words[p] # WordOf("digest", p)
<1>. DEFINE o == AvDigest - p - 1
<1>1. /\ AvDigest \in Nat /\ av_len = AvDigest /\ p \in Places /\ p \in Nat
      /\ o \in 0..AvDigest - 1 /\ o \in Nat /\ AvDigest - o - 1 = p /\ o \in Places
  BY ActAssumption DEF ActAssumption, AvIInv, AvTypeOK, Opened, Places
<1>2. av_words \in [Places -> Word] /\ av_src \in [Places -> Word]
  BY DEF AvIInv, AvTypeOK
<1>3. \A b \in 1..4 : av_words[p][b] = av_src[o][5 - b]
  BY <1>1 DEF AvIInv, SigReversed
<1>4. av_words[p] \in Word /\ av_src[o] \in Word
  BY <1>1, <1>2
<1>5. av_words[p] = Bswap(av_src[o])
  BY <1>3, <1>4 DEF Bswap, Word
<1>6. ASSUME av_genuine PROVE av_words[p] = WordOf("digest", p)
  <2>1. av_src[o] = Bswap(WordOf("digest", p))
    BY <1>1, <1>6 DEF Opened
  <2>. QED
    BY <1>1, <1>5, <2>1, WordTyped, BswapTwice
<1>7. ASSUME ~av_genuine PROVE av_words[p] # WordOf("digest", p)
  <2>1. av_src[o] = WordOf("padding", o)
    BY <1>1, <1>7 DEF Opened
  <2>2. Bswap(WordOf("padding", o))[1] = <<"padding", o, 4>>
    BY DEF Bswap, WordOf
  <2>3. WordOf("digest", p)[1] = <<"digest", p, 1>>
    BY DEF WordOf
  <2>4. <<"padding", o, 4>> # <<"digest", p, 1>>
    OBVIOUS
  <2>. QED
    BY <1>5, <2>1, <2>2, <2>3, <2>4
<1>. QED
  BY <1>6, <1>7

LEMMA OpenedKeeps == AvIInv /\ Opened /\ [AvNext]_avVars => Opened'
<1>. SUFFICES ASSUME AvIInv, Opened, [AvNext]_avVars PROVE Opened'
  OBVIOUS
<1>1. CASE actVerifierCheckSystemFw
  <2>1. CASE ~Refused /\ av_pc' = "module" /\ UNCHANGED <<av_version, av_genuine>>
    <3>1. av_version \in AvVersions /\ (av_version - AvFirst) % AvModulus < AvRange
      BY <2>1, ActAssumption DEF ActAssumption, Refused, AvIInv, AvTypeOK
    <3>. QED
      BY <2>1, <3>1, RangeIsRange DEF Opened
  <2>2. CASE av_pc' = "failed"
    BY <2>2 DEF Opened
  <2>. QED
    BY <1>1, <2>1, <2>2 DEF actVerifierCheckSystemFw, AvFails
<1>2. CASE AvModule
  BY <1>2 DEF AvModule, AvFails, Opened
<1>3. CASE actVerifierReadActData
  BY <1>3 DEF actVerifierReadActData, AvFails, Calls, Opened
<1>4. CASE AvSwap1
  BY <1>4 DEF AvSwap1, __swap_data32, Opened
<1>5. CASE AvRsa
  <2>1. \A p \in 0..AvDigest - 1 :
           av_words'[p] = IF av_genuine THEN Bswap(WordOf("digest", AvDigest - p - 1))
                          ELSE WordOf("padding", p)
    <3>1. \A p \in 0..AvDigest - 1 : p \in Places /\ p < AvDigest
      BY ActAssumption DEF ActAssumption, AvIInv, AvTypeOK, Places
    <3>. QED
      BY <1>5, <3>1 DEF AvRsa
  <2>. QED
    BY <1>5, <2>1 DEF AvRsa, Calls, Opened
<1>6. CASE AvSwap2
  BY <1>6 DEF AvSwap2, __swap_data32, Opened
<1>7. CASE AvCompare
  <2>1. av_pc = "compare" /\ UNCHANGED <<av_version, av_genuine>> /\ av_pc' \in {"mac", "ok", "failed"}
    BY <1>7 DEF AvCompare
  <2>2. ASSUME av_pc' # "failed" PROVE av_genuine
    <3>1. 0 \in 0..AvDigest - 1
      BY ActAssumption DEF ActAssumption
    <3>2. av_words[0] = WordOf("digest", 0)
      BY <1>7, <2>2, <3>1 DEF AvCompare
    <3>. QED
      BY <2>1, <3>1, <3>2, Turns
  <2>. QED
    BY <2>1, <2>2 DEF Opened
<1>8. CASE UNCHANGED avVars
  BY <1>8 DEF avVars, Opened
<1>9. CASE AvKeys \/ AvMac \/ AvNvs
  BY <1>9 DEF AvKeys, AvMac, AvNvs, AvFails, Calls, Opened
<1>. QED
  BY <1>1, <1>2, <1>3, <1>4, <1>5, <1>6, <1>7, <1>8, <1>9 DEF AvNext

LEMMA OpenedBegins == AvInit => Opened
BY DEF AvInit, Opened

LEMMA Accepts == AvIInv /\ Opened => FwAccepted
<1>1. ASSUME AvIInv, Opened, av_pc = "compare", av_genuine
      PROVE  \A p \in 0..AvDigest - 1 : av_words[p] = WordOf("digest", p)
  BY <1>1, Turns
<1>. QED
  BY <1>1 DEF FwAccepted, Opened

\* What gets through was checked on a firmware in the range, signature and data
\* of one another; and the digest of genuine data is found where it is compared.
THEOREM FwAlwaysAccepted == AvSpec => []FwAccepted
BY OpenedBegins, Accepts, Begins, Keeps, OpenedKeeps, PTL DEF AvSpec

-----------------------------------------------------------------------------
(* ModuleLoader *)

\* The paths of a list, and the list with one entry more.
PathsOf(list) == {list[k].path : k \in 1..Len(list)}
More(path) == <<[path |-> path, number |-> ml_num]>> \o ml_list

\* What is still to be added is not in the list, nor twice in what is to come:
\* what keeps the paths of the list apart.
Ahead ==
    /\ ml_pc \in {"dir", "fixed"} =>
          /\ \A i, j \in 1..Len(ml_todo) : i # j => ml_todo[i] # ml_todo[j]
          /\ \A i \in 1..Len(ml_todo) : ml_todo[i] \notin PathsOf(ml_list)
    /\ ml_pc = "dir" =>
          \A j \in 1..Len(MlFixed) :
             /\ MlFixed[j] \notin PathsOf(ml_list)
             /\ \A i \in 1..Len(ml_todo) : ml_todo[i] # MlFixed[j]

\* The numbers count the list from its end, its paths are apart, and each entry
\* has its two blocks.
Counted ==
    /\ ml_num = Len(ml_list)
    /\ \A k \in 1..Len(ml_list) : ml_list[k].number = Len(ml_list) - k
    /\ \A i, k \in 1..Len(ml_list) : i # k => ml_list[i].path # ml_list[k].path
    /\ ml_heap = {"entry", "path"} \X PathsOf(ml_list)

Loaded ==
    /\ \A p \in MlPath : ml_modid[p] # -1 => p \in PathsOf(ml_list)
    /\ ml_found # <<>> =>
          \E k \in 1..Len(ml_list) :
             /\ ml_list[k].path = ml_found[2]
             /\ ml_list[k].number = cvtStrToDec(ml_found[1])

MlIInv == MlTypeOK /\ Ahead /\ Counted /\ Loaded

LEMMA Given ==
    /\ MlDir \in Seq(MlPath) /\ MlFixed \in Seq(MlPath)
    /\ \A i, j \in 1..Len(MlDir) : i # j => MlDir[i] # MlDir[j]
    /\ \A i, j \in 1..Len(MlFixed) : i # j => MlFixed[i] # MlFixed[j]
    /\ \A i \in 1..Len(MlDir), j \in 1..Len(MlFixed) : MlDir[i] # MlFixed[j]
<1>. DEFINE all == MlDir \o MlFixed
<1>1. /\ MlDir \in Seq(STRING) /\ MlFixed \in Seq(STRING)
      /\ \A i, j \in 1..Len(all) : i # j => all[i] # all[j]
  BY LoaderAssumption DEF LoaderAssumption
<1>2. /\ Len(all) = Len(MlDir) + Len(MlFixed) /\ Len(MlDir) \in Nat /\ Len(MlFixed) \in Nat
      /\ \A i \in 1..Len(MlDir) : all[i] = MlDir[i]
      /\ \A i \in 1..Len(MlFixed) : all[Len(MlDir) + i] = MlFixed[i]
  BY <1>1
<1>3. MlDir \in Seq(MlPath) /\ MlFixed \in Seq(MlPath)
  BY <1>1 DEF MlPath
<1>. HIDE DEF all
<1>4. \A i \in 1..Len(MlDir) : i \in 1..Len(all)
  BY <1>2
<1>5. \A i \in 1..Len(MlFixed) : Len(MlDir) + i \in 1..Len(all) /\ Len(MlDir) + i \notin 1..Len(MlDir)
  BY <1>2
<1>6. \A i, j \in 1..Len(MlDir) : i # j => MlDir[i] # MlDir[j]
  BY <1>1, <1>2, <1>4
<1>7. ASSUME NEW i \in 1..Len(MlFixed), NEW j \in 1..Len(MlFixed), i # j
      PROVE  MlFixed[i] # MlFixed[j]
  <2>1. Len(MlDir) + i # Len(MlDir) + j
    BY <1>2, <1>7
  <2>. QED
    BY <1>1, <1>2, <1>5, <2>1
<1>8. ASSUME NEW i \in 1..Len(MlDir), NEW j \in 1..Len(MlFixed)
      PROVE  MlDir[i] # MlFixed[j]
  <2>1. i # Len(MlDir) + j
    BY <1>2
  <2>. QED
    BY <1>1, <1>2, <1>4, <1>5, <2>1
<1>. QED
  BY <1>3, <1>6, <1>7, <1>8

\* The list with one entry more.
LEMMA MoreIs ==
    ASSUME MlTypeOK, NEW path \in MlPath
    PROVE  /\ More(path) \in Seq(ModuleLoadParam)
           /\ Len(More(path)) = Len(ml_list) + 1
           /\ More(path)[1] = [path |-> path, number |-> ml_num]
           /\ \A k \in 1..Len(ml_list) : More(path)[k + 1] = ml_list[k]
           /\ \A k \in 2..Len(More(path)) : k - 1 \in 1..Len(ml_list) /\ More(path)[k] = ml_list[k - 1]
           /\ PathsOf(More(path)) = PathsOf(ml_list) \cup {path}
<1>. DEFINE new == [path |-> path, number |-> ml_num]
<1>1. new \in ModuleLoadParam /\ ml_list \in Seq(ModuleLoadParam) /\ Len(ml_list) \in Nat
  BY DEF MlTypeOK, ModuleLoadParam
<1>. HIDE DEF new
<1>2. /\ More(path) \in Seq(ModuleLoadParam) /\ Len(More(path)) = Len(ml_list) + 1
      /\ More(path)[1] = new
      /\ \A k \in 1..Len(ml_list) : More(path)[k + 1] = ml_list[k]
  BY <1>1 DEF More, new
<1>3. \A k \in 2..Len(More(path)) : k - 1 \in 1..Len(ml_list) /\ More(path)[k] = ml_list[k - 1]
  BY <1>1, <1>2
<1>4. new.path = path
  BY DEF new
<1>5. PathsOf(More(path)) = PathsOf(ml_list) \cup {path}
  <2>1. ASSUME NEW k \in 1..Len(More(path)) PROVE More(path)[k].path \in PathsOf(ml_list) \cup {path}
    <3>1. CASE k = 1
      BY <1>2, <1>4, <3>1
    <3>2. CASE k # 1
      <4>1. k \in 2..Len(More(path))
        BY <1>1, <1>2, <3>2
      <4>. QED
        BY <1>3, <4>1 DEF PathsOf
    <3>. QED
      BY <3>1, <3>2
  <2>2. ASSUME NEW k \in 1..Len(ml_list) PROVE ml_list[k].path \in PathsOf(More(path))
    <3>1. k + 1 \in 1..Len(More(path))
      BY <1>1, <1>2
    <3>. QED
      BY <1>2, <3>1 DEF PathsOf
  <2>3. path \in PathsOf(More(path))
    <3>1. 1 \in 1..Len(More(path))
      BY <1>1, <1>2
    <3>. QED
      BY <1>2, <1>4, <3>1 DEF PathsOf
  <2>. QED
    BY <2>1, <2>2, <2>3 DEF PathsOf
<1>. QED
  BY <1>2, <1>3, <1>5 DEF new

\* load_module_add_path of a path that is not in the list, without the todo list.
LEMMA Adds ==
    ASSUME MlTypeOK, Counted, Loaded, NEW path \in MlPath, path \notin PathsOf(ml_list),
           load_module_add_path(path), UNCHANGED <<ml_modid, ml_found>>
    PROVE  /\ ml_list' \in Seq(ModuleLoadParam) /\ ml_num' \in Nat
           /\ ml_heap' \subseteq {"entry", "path"} \X MlPath
           /\ Counted' /\ Loaded'
           /\ PathsOf(ml_list)' \subseteq PathsOf(ml_list) \cup {path}
<1>1. CASE UNCHANGED <<ml_list, ml_num, ml_heap>>
  BY <1>1 DEF MlTypeOK, Counted, Loaded, PathsOf
<1>2. CASE /\ ml_list' = More(path) /\ ml_num' = ml_num + 1
           /\ ml_heap' = ml_heap \cup {<<"entry", path>>, <<"path", path>>}
  <2>1. /\ ml_list' \in Seq(ModuleLoadParam) /\ Len(ml_list') = Len(ml_list) + 1
        /\ ml_list'[1] = [path |-> path, number |-> ml_num]
        /\ \A k \in 1..Len(ml_list) : ml_list'[k + 1] = ml_list[k]
        /\ \A k \in 2..Len(ml_list') : k - 1 \in 1..Len(ml_list) /\ ml_list'[k] = ml_list[k - 1]
        /\ PathsOf(ml_list') = PathsOf(ml_list) \cup {path}
        /\ Len(ml_list) \in Nat /\ ml_num = Len(ml_list)
    BY <1>2, MoreIs DEF MlTypeOK, Counted
  <2>2. ml_num' \in Nat /\ ml_num' = Len(ml_list')
    BY <1>2, <2>1
  <2>3. ml_heap' = {"entry", "path"} \X PathsOf(ml_list')
    BY <1>2, <2>1 DEF Counted
  <2>4. ml_heap' \subseteq {"entry", "path"} \X MlPath
    BY <1>2 DEF MlTypeOK
  <2>5. ASSUME NEW k \in 1..Len(ml_list') PROVE ml_list'[k].number = Len(ml_list') - k
    <3>1. CASE k = 1
      BY <2>1, <3>1
    <3>2. CASE k # 1
      <4>1. k \in 2..Len(ml_list')
        BY <2>1, <3>2
      <4>. QED
        BY <2>1, <4>1 DEF Counted
    <3>. QED
      BY <3>1, <3>2
  <2>6. ASSUME NEW k \in 2..Len(ml_list') PROVE ml_list'[k].path # path
    BY <2>1 DEF PathsOf
  <2>7. ASSUME NEW i \in 1..Len(ml_list'), NEW k \in 1..Len(ml_list'), i # k
        PROVE  ml_list'[i].path # ml_list'[k].path
    <3>1. CASE i = 1
      <4>1. k \in 2..Len(ml_list')
        BY <2>1, <2>7, <3>1
      <4>. QED
        BY <2>1, <2>6, <3>1, <4>1
    <3>2. CASE k = 1
      <4>1. i \in 2..Len(ml_list')
        BY <2>1, <2>7, <3>2
      <4>. QED
        BY <2>1, <2>6, <3>2, <4>1
    <3>3. CASE i # 1 /\ k # 1
      <4>1. i \in 2..Len(ml_list') /\ k \in 2..Len(ml_list') /\ i - 1 # k - 1
        BY <2>1, <2>7, <3>3
      <4>. QED
        BY <2>1, <4>1 DEF Counted
    <3>. QED
      BY <3>1, <3>2, <3>3
  <2>8. Counted'
    BY <2>2, <2>3, <2>5, <2>7 DEF Counted
  <2>9. Loaded'
    <3>1. ASSUME NEW k \in 1..Len(ml_list) PROVE k + 1 \in 1..Len(ml_list') /\ ml_list'[k + 1] = ml_list[k]
      BY <2>1
    <3>. QED
      BY <2>1, <3>1 DEF Loaded
  <2>. QED
    BY <2>1, <2>2, <2>4, <2>8, <2>9
<1>. QED
  BY <1>1, <1>2 DEF load_module_add_path, More

LEMMA InitCounted == MlInit => MlIInv
<1>. SUFFICES ASSUME MlInit PROVE MlIInv
  OBVIOUS
<1>1. ml_list = <<>> /\ ml_heap = {} /\ ml_todo = MlDir /\ ml_found = <<>> /\ ml_pc = "dir" /\ ml_num = 0
  BY DEF MlInit
<1>2. PathsOf(ml_list) = {}
  BY <1>1 DEF PathsOf
<1>3. ml_list \in Seq(ModuleLoadParam) /\ Len(ml_list) = 0
  BY <1>1
<1>4. ml_modid \in [MlPath -> {-1, 1}] /\ \A p \in MlPath : ml_modid[p] = -1
  BY DEF MlInit
<1>5. MlTypeOK
  BY <1>1, <1>3, <1>4, Given DEF MlTypeOK
<1>6. Ahead
  BY <1>1, <1>2, Given DEF Ahead
<1>7. Counted
  BY <1>1, <1>2, <1>3 DEF Counted
<1>8. Loaded
  BY <1>1, <1>4 DEF Loaded
<1>. QED
  BY <1>5, <1>6, <1>7, <1>8 DEF MlIInv

\* The next path of the directory or of the fixed ones is added.
LEMMA NextPath ==
    ASSUME MlIInv, ml_pc \in {"dir", "fixed"}, ml_todo # <<>>,
           load_module_add_path(Head(ml_todo)), ml_todo' = Tail(ml_todo),
           UNCHANGED <<ml_pc, ml_modid, ml_found>>
    PROVE  MlIInv'
<1>1. /\ ml_todo \in Seq(MlPath) /\ Len(ml_todo) \in Nat \ {0}
      /\ Head(ml_todo) = ml_todo[1] /\ 1 \in 1..Len(ml_todo) /\ ml_todo[1] \in MlPath
  BY DEF MlIInv, MlTypeOK
<1>2. ml_todo' \in Seq(MlPath) /\ Len(ml_todo') = Len(ml_todo) - 1
      /\ \A i \in 1..Len(ml_todo') : ml_todo'[i] = ml_todo[i + 1]
  BY <1>1
<1>3. \A i \in 1..Len(ml_todo') : i + 1 \in 1..Len(ml_todo) /\ i + 1 # 1
  BY <1>1, <1>2
<1>4. Head(ml_todo) \in MlPath /\ Head(ml_todo) \notin PathsOf(ml_list)
  BY <1>1 DEF MlIInv, Ahead
<1>5. /\ ml_list' \in Seq(ModuleLoadParam) /\ ml_num' \in Nat
      /\ ml_heap' \subseteq {"entry", "path"} \X MlPath
      /\ Counted' /\ Loaded'
      /\ PathsOf(ml_list)' \subseteq PathsOf(ml_list) \cup {ml_todo[1]}
  BY <1>1, <1>4, Adds DEF MlIInv
<1>6. MlTypeOK'
  BY <1>2, <1>5 DEF MlIInv, MlTypeOK
<1>7. ASSUME NEW i \in 1..Len(ml_todo')
      PROVE  ml_todo'[i] \notin PathsOf(ml_list)'
  BY <1>1, <1>2, <1>3, <1>5 DEF MlIInv, Ahead
<1>8. ASSUME NEW i \in 1..Len(ml_todo'), NEW j \in 1..Len(ml_todo'), i # j
      PROVE  ml_todo'[i] # ml_todo'[j]
  <2>1. i + 1 # j + 1
    BY <1>8
  <2>. QED
    BY <1>2, <1>3, <2>1 DEF MlIInv, Ahead
<1>9. ASSUME ml_pc = "dir", NEW j \in 1..Len(MlFixed)
      PROVE  /\ MlFixed[j] \notin PathsOf(ml_list)'
             /\ \A i \in 1..Len(ml_todo') : ml_todo'[i] # MlFixed[j]
  BY <1>1, <1>2, <1>3, <1>5, <1>9 DEF MlIInv, Ahead
<1>10. Ahead'
  BY <1>7, <1>8, <1>9 DEF Ahead
<1>. QED
  BY <1>5, <1>6, <1>10 DEF MlIInv

\* What loads a module of the list, or none.
LEMMA Loads ==
    ASSUME MlIInv, UNCHANGED <<ml_list, ml_num, ml_heap, ml_todo>>,
           ml_pc' \notin {"dir", "fixed"}, ml_pc' \in {"choose", "tty", "fault", "end"},
           ml_modid' = ml_modid \/ \E k \in 1..Len(ml_list) : Load(ml_list[k].path),
           \/ UNCHANGED ml_found
           \/ \E t \in MlTyped, k \in 1..Len(ml_list) :
                 ml_list[k].number = cvtStrToDec(t) /\ ml_found' = <<t, ml_list[k].path>>
    PROVE  MlIInv'
<1>1. \A k \in 1..Len(ml_list) : ml_list[k].path \in MlPath /\ ml_list[k].path \in PathsOf(ml_list)
  <2>1. ml_list \in Seq(ModuleLoadParam)
    BY DEF MlIInv, MlTypeOK
  <2>. TAKE k \in 1..Len(ml_list)
  <2>2. ml_list[k] \in ModuleLoadParam
    BY <2>1
  <2>3. ml_list[k].path \in MlPath
    BY <2>2 DEF ModuleLoadParam
  <2>4. ml_list[k].path \in PathsOf(ml_list)
    BY DEF PathsOf
  <2>. QED
    BY <2>3, <2>4
<1>2. /\ ml_modid' \in [MlPath -> {-1, 1}]
      /\ \A p \in MlPath : ml_modid'[p] # -1 => p \in PathsOf(ml_list)
  BY <1>1 DEF MlIInv, MlTypeOK, Loaded, Load
<1>3. ml_found' \in MlTyped \X MlPath \cup {<<>>}
  BY <1>1 DEF MlIInv, MlTypeOK
<1>4. MlTypeOK'
  BY <1>2, <1>3 DEF MlIInv, MlTypeOK
<1>5. ml_found' # <<>> =>
          \E k \in 1..Len(ml_list) :
             /\ ml_list[k].path = ml_found'[2]
             /\ ml_list[k].number = cvtStrToDec(ml_found'[1])
  BY DEF MlIInv, Loaded
<1>6. Loaded'
  BY <1>2, <1>5 DEF Loaded
<1>7. Counted'
  BY DEF MlIInv, Counted
<1>8. Ahead'
  BY DEF Ahead
<1>. QED
  BY <1>4, <1>6, <1>7, <1>8 DEF MlIInv

LEMMA KeepsCounted == MlIInv /\ [MlNext]_mlVars => MlIInv'
<1>. SUFFICES ASSUME MlIInv, [MlNext]_mlVars PROVE MlIInv'
  OBVIOUS
<1>0. ml_list # <<>> => 1 \in 1..Len(ml_list) /\ Head(ml_list) = ml_list[1]
  BY DEF MlIInv, MlTypeOK
<1>1. CASE MlDirEntry
  <2>1. CASE ml_todo # <<>> /\ load_module_add_path(Head(ml_todo)) /\ ml_todo' = Tail(ml_todo) /\ UNCHANGED ml_pc
    BY <1>1, <2>1, NextPath DEF MlDirEntry
  <2>2. CASE ml_pc' = "fixed" /\ ml_todo' = MlFixed /\ UNCHANGED <<ml_list, ml_num, ml_heap>>
    <3>1. ml_pc = "dir" /\ UNCHANGED <<ml_modid, ml_found>>
      BY <1>1 DEF MlDirEntry
    <3>2. MlTypeOK' /\ Counted' /\ Loaded'
      BY <2>2, <3>1, Given DEF MlIInv, MlTypeOK, Counted, Loaded
    <3>3. Ahead'
      BY <2>2, <3>1, Given DEF MlIInv, Ahead
    <3>. QED
      BY <3>2, <3>3 DEF MlIInv
  <2>. QED
    BY <1>1, <2>1, <2>2 DEF MlDirEntry
<1>2. CASE MlFixedPath
  <2>1. CASE ml_todo # <<>> /\ load_module_add_path(Head(ml_todo)) /\ ml_todo' = Tail(ml_todo) /\ UNCHANGED ml_pc
    BY <1>2, <2>1, NextPath DEF MlFixedPath
  <2>2. CASE ml_todo = <<>> /\ ml_pc' = "choose" /\ UNCHANGED <<ml_list, ml_num, ml_heap, ml_todo>>
    BY <1>2, <2>2, Loads DEF MlFixedPath
  <2>. QED
    BY <1>2, <2>1, <2>2 DEF MlFixedPath
<1>3. CASE MlChoose
  BY <1>0, <1>3, Loads DEF MlChoose
<1>4. CASE MlLoadPath
  <2>1. \E k \in 1..Len(ml_list) : Load(ml_list[k].path)
    BY <1>4 DEF MlLoadPath, saerch_module_entry
  <2>. QED
    BY <1>4, <2>1, Loads DEF MlLoadPath
<1>5. CASE MlLoadByNumber
  <2>1. PICK t \in MlTyped : \E k \in 1..Len(ml_list) :
           ml_list[k].number = cvtStrToDec(t) /\ Load(ml_list[k].path) /\ ml_found' = <<t, ml_list[k].path>>
    BY <1>5 DEF MlLoadByNumber, saerch_module_entry_by_number
  <2>. QED
    BY <1>5, <2>1, Loads DEF MlLoadByNumber
<1>6. CASE MlExit
  BY <1>6, Loads DEF MlExit
<1>8. CASE MlEmptyLine
  BY <1>8, Loads DEF MlEmptyLine
<1>7. CASE UNCHANGED mlVars
  <2>. USE <1>7 DEF mlVars
  <2>1. MlTypeOK'
    BY DEF MlIInv, MlTypeOK
  <2>2. Ahead' /\ Counted'
    BY DEF MlIInv, Ahead, Counted
  <2>3. Loaded'
    BY DEF MlIInv, Loaded
  <2>. QED
    BY <2>1, <2>2, <2>3 DEF MlIInv
<1>. QED
  BY <1>1, <1>2, <1>3, <1>4, <1>5, <1>6, <1>7, <1>8 DEF MlNext, MlStep

LEMMA Finds == MlIInv => NumbersFind
<1>. SUFFICES ASSUME MlIInv PROVE NumbersFind
  OBVIOUS
<1>1. ASSUME NEW k \in 1..Len(ml_list)
      PROVE  /\ saerch_module_entry(ml_list[k].path) = {k}
             /\ saerch_module_entry_by_number(ml_list[k].number) = {k}
  <2>1. Len(ml_list) \in Nat
    BY DEF MlIInv, MlTypeOK
  <2>2. \A i \in 1..Len(ml_list) : i # k => ml_list[i].path # ml_list[k].path
                                          /\ ml_list[i].number # ml_list[k].number
    BY <2>1 DEF MlIInv, Counted
  <2>3. \A i \in 1..k - 1 : i \in 1..Len(ml_list) /\ i # k
    BY <2>1
  <2>. QED
    BY <2>2, <2>3 DEF saerch_module_entry, saerch_module_entry_by_number
<1>. QED
  BY <1>1 DEF MlIInv, Counted, Loaded, NumbersFind, PathsOf

\* The variables keep their types, for every directory and list of fixed paths.
THEOREM MlTypeCorrect == MlSpec => []MlTypeOK
<1>1. MlIInv => MlTypeOK
  BY DEF MlIInv
<1>. QED
  BY <1>1, InitCounted, KeepsCounted, PTL DEF MlSpec

\* Whatever could be opened and allocated, the list is numbered without gaps from
\* its end, each of its modules is found by its path and by its number, and its
\* blocks are all that is allocated.
THEOREM NumbersAlwaysFind == MlSpec => []NumbersFind
<1>. QED
  BY InitCounted, KeepsCounted, Finds, PTL DEF MlSpec

-----------------------------------------------------------------------------
(* EmmcDumper *)


\* Where the copy stands: done units are in the file, size are to come, and
\* the buffer holds those between done and the position of read_fd.
Position ==
    /\ pc \in {"part_dump", "open", "chstat", "read", "write"} => part \in Parts
    /\ pc \in {"part_dump", "open"} => file[Here] = NULL
    /\ pc = "chstat" => file[Here] = <<>>
    /\ pc \in {"open", "chstat"} => size = DeviceSize[part] /\ at = 0
    /\ pc = "read" => /\ at + size = DeviceSize[part]
                      /\ file[Here] = Copied(DeviceSize[part], at)
    /\ pc = "write" => /\ Len(buf) \in 1..size
                       /\ Len(buf) <= at
                       /\ at - Len(buf) + size = DeviceSize[part]
                       /\ buf = [i \in 1..Len(buf) |-> at - Len(buf) + i]
                       /\ file[Here] = Copied(DeviceSize[part], at - Len(buf))

EmIInv == EmTypeOK /\ Position /\ PrefixThenFill /\ UncutIsComplete

-----------------------------------------------------------------------------
(* Files *)

\* A partly copied file is a sequence of units.
LEMMA CopiedIs ==
    ASSUME NEW n \in Nat, NEW k \in Nat
    PROVE  /\ Copied(n, k) \in Seq(Nat \cup {Fill})
           /\ Len(Copied(n, k)) = n
  <1>1. \A i \in 1..n : (IF i <= k THEN i ELSE Fill) \in Nat \cup {Fill}
    OBVIOUS
  <1> QED
    BY <1>1 DEF Copied

\* With n units of the buffer in it, the file holds n units more.
LEMMA StoredIs ==
    ASSUME EmIInv, pc = "write", NEW n \in 0..Len(buf)
    PROVE  Stored(n) = Copied(DeviceSize[part], at - Len(buf) + n)
  <1> DEFINE total == DeviceSize[part]
             done  == at - Len(buf)
  <1>1. /\ part \in Parts /\ total \in Nat
        /\ buf \in Seq(Nat) /\ Len(buf) \in Nat /\ at \in Nat /\ Len(buf) <= at
        /\ file[Here] = Copied(total, done)
        /\ buf = [i \in 1..Len(buf) |-> done + i]
    BY DumperAssumption DEF EmIInv, EmTypeOK, Position
  <1>2. done \in Nat /\ n \in Nat /\ n <= Len(buf)
    BY <1>1
  <1> HIDE DEF done, total
  <1>3. DOMAIN file[Here] = 1..total
    BY <1>1 DEF Copied
  <1>4. \A i \in 1..total :
           (IF i > done /\ i - done <= n THEN buf[i - done] ELSE file[Here][i])
             = (IF i <= done + n THEN i ELSE Fill)
    <2> SUFFICES ASSUME NEW i \in 1..total
                 PROVE  (IF i > done /\ i - done <= n THEN buf[i - done]
                         ELSE file[Here][i])
                          = (IF i <= done + n THEN i ELSE Fill)
      OBVIOUS
    <2>1. file[Here][i] = IF i <= done THEN i ELSE Fill
      BY <1>1 DEF Copied
    <2>2. CASE i > done /\ i - done <= n
      <3>1. i - done \in 1..Len(buf)
        BY <1>1, <1>2, <2>2
      <3>2. buf[i - done] = done + (i - done)
        BY <1>1, <3>1
      <3> QED
        BY <1>1, <1>2, <2>2, <3>2
    <2>3. CASE ~(i > done /\ i - done <= n)
      BY <1>1, <1>2, <2>1, <2>3
    <2> QED
      BY <2>2, <2>3
  <1>5. Stored(n) = [i \in 1..total |->
                       IF i > done /\ i - done <= n THEN buf[i - done]
                       ELSE file[Here][i]]
    BY <1>3 DEF Stored, done
  <1> QED
    BY <1>4, <1>5 DEF Copied, done, total

-----------------------------------------------------------------------------
(* The steps *)

\* A file that takes a partly copied content keeps the shape of all files.
LEMMA FileStep ==
    ASSUME EmIInv, Here \in Target, NEW n \in Nat, NEW k \in 0..n,
           file' = [file EXCEPT ![Here] = Copied(n, k)]
    PROVE  /\ file' \in [Target -> {NULL} \cup Seq(Nat \cup {Fill})]
           /\ file'[Here] = Copied(n, k)
           /\ \A t \in Target \ {Here} : file'[t] = file[t]
           /\ PrefixThenFill'
  <1>1. Copied(n, k) \in Seq(Nat \cup {Fill}) /\ Len(Copied(n, k)) = n
    BY CopiedIs
  <1>2. /\ file' \in [Target -> {NULL} \cup Seq(Nat \cup {Fill})]
        /\ file'[Here] = Copied(n, k)
        /\ \A t \in Target \ {Here} : file'[t] = file[t]
    BY <1>1 DEF EmIInv, EmTypeOK
  <1>3. ASSUME NEW t \in Target, file'[t] # NULL
        PROVE  \E j \in 0..Len(file'[t]) : file'[t] = Copied(Len(file'[t]), j)
    BY <1>1, <1>2, <1>3 DEF EmIInv, PrefixThenFill
  <1> QED
    BY <1>2, <1>3 DEF PrefixThenFill

\* Steps that leave the files alone.
LEMMA QuietStep ==
    ASSUME EmIInv, ChooseDrive \/ Getstat \/ part_dump \/ UNCHANGED emVars
    PROVE  EmIInv'
  <1> USE DumperAssumption DEF EmIInv
  <1>1. file' = file /\ spoiled' = spoiled
    BY DEF ChooseDrive, Getstat, part_dump, emVars
  <1>2. PrefixThenFill'
    BY <1>1 DEF PrefixThenFill
  <1>3. CASE ChooseDrive
    <2>1. EmTypeOK' /\ Position'
      BY <1>3 DEF ChooseDrive, Chosen, EmTypeOK, Position, Drive, EmSteps
    <2>2. UncutIsComplete'
      BY <1>1, <1>3 DEF ChooseDrive, UncutIsComplete, Complete, Copying
    <2> QED
      BY <1>2, <2>1, <2>2
  <1>4. CASE Getstat
    <2>1. EmTypeOK'
      BY <1>4 DEF Getstat, EmTypeOK, EmSteps
    <2>3. Position'
      <3>1. CASE pc' = "part_dump"
        <4>1. part \in Parts /\ file[Here] = NULL /\ part' = part /\ drv' = drv
          BY <1>4, <3>1 DEF Getstat, EmTypeOK, Parts
        <4>2. file'[Here'] = NULL
          BY <1>1, <4>1 DEF Here
        <4> QED
          BY <3>1, <4>1, <4>2 DEF Position
      <3>2. CASE pc' # "part_dump"
        <4>1. pc' \in {"getstat", "end"}
          BY <1>4, <3>2 DEF Getstat
        <4> QED
          BY <4>1 DEF Position
      <3> QED
        BY <3>1, <3>2
    <2>2. UncutIsComplete'
      BY <1>1, <1>4 DEF Getstat, UncutIsComplete, Complete, Copying
    <2> QED
      BY <1>2, <2>1, <2>2, <2>3
  <1>5. CASE part_dump
    <2>0. part \in Parts /\ DeviceSize[part] \in Nat
      BY <1>5 DEF part_dump, Position
    <2>1. EmTypeOK'
      <3>1. part' \in {part, part + 1} /\ pc' \in {"getstat", "open"}
        BY <1>5 DEF part_dump, GiveUp, NextPart
      <3>2. part' \in 1..(Part + 1) /\ pc' \in EmSteps
        BY <2>0, <3>1 DEF Parts, EmSteps
      <3>3. size' \in Nat /\ at' \in Nat
        BY <1>5, <2>0 DEF part_dump, EmTypeOK
      <3>4. failed' \in BOOLEAN
        BY <1>5 DEF part_dump, GiveUp, EmTypeOK
      <3> QED
        BY <1>5, <3>2, <3>3, <3>4 DEF part_dump, EmTypeOK
    <2>3. Position'
      BY <1>5, <2>0 DEF part_dump, GiveUp, NextPart, Position, Here
    <2>2. UncutIsComplete'
      BY <1>1, <1>5 DEF part_dump, GiveUp, NextPart, UncutIsComplete, Complete, Copying
    <2> QED
      BY <1>2, <2>1, <2>2, <2>3
  <1>6. CASE UNCHANGED emVars
    <2>1. UNCHANGED emVars
      BY <1>6
    <2>2. EmTypeOK' /\ Position'
      BY <2>1 DEF emVars, EmTypeOK, Position, Here
    <2>3. UncutIsComplete'
      BY <2>1 DEF emVars, UncutIsComplete, Complete, Copying, Here
    <2> QED
      BY <1>2, <2>2, <2>3
  <1> QED
    BY <1>3, <1>4, <1>5, <1>6

LEMMA OpenStep ==
    ASSUME EmIInv, OpenFile
    PROVE  EmIInv'
  <1> USE DumperAssumption DEF EmIInv
  <1>0. part \in Parts /\ Here \in Target /\ pc = "open"
    BY DEF OpenFile, Position, EmTypeOK, Here, Target
  <1>1. CASE GiveUp /\ UNCHANGED file
    <2>1. EmTypeOK' /\ Position'
      BY <1>0, <1>1 DEF OpenFile, GiveUp, NextPart, EmTypeOK, Position, EmSteps, Parts
    <2>2. PrefixThenFill' /\ UncutIsComplete'
      BY <1>0, <1>1 DEF OpenFile, GiveUp, NextPart, PrefixThenFill, UncutIsComplete,
                        Complete, Copying
    <2> QED
      BY <2>1, <2>2
  <1>2. CASE /\ file' = [file EXCEPT ![Here] = <<>>]
             /\ pc' = "chstat"
             /\ UNCHANGED <<part, failed>>
    <2>1. /\ file' = [file EXCEPT ![Here] = <<>>]
          /\ pc' = "chstat"
          /\ UNCHANGED <<part, failed, drives, dirs, drv, size, at, buf, starts, spoiled>>
      BY <1>2 DEF OpenFile
    <2>2. file' = [file EXCEPT ![Here] = Copied(0, 0)]
      <3>1. Copied(0, 0) = <<>>
        BY DEF Copied
      <3> QED
        BY <2>1, <3>1, Zenon
    <2>6. 0 \in Nat /\ 0 \in 0..0
      OBVIOUS
    <2>3. /\ file' \in [Target -> {NULL} \cup Seq(Nat \cup {Fill})]
          /\ \A t \in Target \ {Here} : file'[t] = file[t]
          /\ PrefixThenFill'
      BY <1>0, <2>2, <2>6, FileStep
    <2>7. file'[Here'] = <<>>
      BY <1>0, <2>1 DEF EmTypeOK, Here
    <2>4. EmTypeOK' /\ Position'
      BY <1>0, <2>1, <2>3, <2>7 DEF EmTypeOK, Position, EmSteps
    <2>5. UncutIsComplete'
      BY <1>0, <2>1, <2>3 DEF UncutIsComplete, Complete, Copying, Here
    <2> QED
      BY <2>3, <2>4, <2>5
  <1> QED
    BY <1>1, <1>2 DEF OpenFile

LEMMA ChstatStep ==
    ASSUME EmIInv, ChstatByFd
    PROVE  EmIInv'
  <1> USE DumperAssumption DEF EmIInv
  <1>0. /\ part \in Parts /\ Here \in Target /\ pc = "chstat"
        /\ size = DeviceSize[part] /\ size \in Nat /\ at = 0
    BY DEF ChstatByFd, Position, EmTypeOK, Here, Target
  <1>1. CASE GiveUp
    <2>0. UNCHANGED <<file, drives, dirs, drv, size, at, buf, starts>>
          /\ spoiled' = spoiled \cup {Here}
      BY <1>0, <1>1 DEF ChstatByFd, GiveUp, NextPart
    <2>1. EmTypeOK' /\ Position'
      BY <1>0, <1>1, <2>0 DEF GiveUp, NextPart, EmTypeOK, Position, EmSteps, Parts
    <2>2. PrefixThenFill' /\ UncutIsComplete'
      BY <1>0, <1>1, <2>0 DEF GiveUp, NextPart, PrefixThenFill, UncutIsComplete,
                        Complete, Copying
    <2> QED
      BY <2>1, <2>2
  <1>2. CASE ~GiveUp
    <2>1. /\ file' = [file EXCEPT ![Here] = [i \in 1..size |-> Fill]]
          /\ pc' = "read"
          /\ UNCHANGED <<part, failed, drives, dirs, drv, size, at, buf, starts, spoiled>>
      BY <1>2 DEF ChstatByFd
    <2>2. file' = [file EXCEPT ![Here] = Copied(size, 0)]
      <3>1. [i \in 1..size |-> Fill] = Copied(size, 0)
        BY <1>0 DEF Copied
      <3> QED
        BY <2>1, <3>1, Zenon
    <2>6. 0 \in 0..size
      BY <1>0
    <2>3. /\ file' \in [Target -> {NULL} \cup Seq(Nat \cup {Fill})]
          /\ file'[Here] = Copied(size, 0)
          /\ \A t \in Target \ {Here} : file'[t] = file[t]
          /\ PrefixThenFill'
      BY <1>0, <2>2, <2>6, FileStep
    <2>4. EmTypeOK' /\ Position'
      BY <1>0, <2>1, <2>3 DEF EmTypeOK, Position, EmSteps, Here
    <2>5. UncutIsComplete'
      BY <1>0, <2>1, <2>3 DEF UncutIsComplete, Complete, Copying, Here
    <2> QED
      BY <2>3, <2>4, <2>5
  <1> QED
    BY <1>1, <1>2

LEMMA ReadStep ==
    ASSUME EmIInv, Read
    PROVE  EmIInv'
  <1> USE DumperAssumption DEF EmIInv
  <1>0. /\ part \in Parts /\ Here \in Target /\ pc = "read"
        /\ size \in Nat /\ at \in Nat /\ DeviceSize[part] \in Nat
        /\ at + size = DeviceSize[part]
        /\ file[Here] = Copied(DeviceSize[part], at)
        /\ Amount \in 0..size /\ (Amount = 0 => size = 0)
        /\ UNCHANGED <<drives, dirs, file, drv, size, starts>>
    BY DEF Read, Position, EmTypeOK, Here, Target, Amount
  <1>1. PrefixThenFill'
    BY <1>0 DEF PrefixThenFill
  <1>2. CASE Amount = 0 /\ NextPart /\ UNCHANGED <<at, buf, failed, spoiled>>
    <2>1. EmTypeOK' /\ Position'
      BY <1>0, <1>2 DEF NextPart, EmTypeOK, Position, EmSteps, Parts
    <2>2. Complete(Here)
      BY <1>0, <1>2 DEF Complete, Here
    <2>3. UncutIsComplete'
      BY <1>0, <1>2, <2>2 DEF NextPart, UncutIsComplete, Complete, Copying
    <2> QED
      BY <1>1, <2>1, <2>3
  <1>3. CASE GiveUp /\ UNCHANGED <<at, buf>> /\ spoiled' = spoiled \cup {Here}
    <2>1. EmTypeOK' /\ Position'
      BY <1>0, <1>3 DEF GiveUp, NextPart, EmTypeOK, Position, EmSteps, Parts
    <2>2. UncutIsComplete'
      BY <1>0, <1>3 DEF GiveUp, NextPart, UncutIsComplete, Complete, Copying
    <2> QED
      BY <1>1, <2>1, <2>2
  <1>4. CASE /\ Amount > 0
             /\ buf' = [i \in 1..Amount |-> at + i]
             /\ at' = at + Amount
             /\ pc' = "write"
             /\ UNCHANGED <<part, failed, spoiled>>
    <2> DEFINE n == Amount
    <2>0. n \in Nat /\ n \in 1..size
      BY <1>0, <1>4
    <2> HIDE DEF n
    <2>1. \A i \in 1..n : at + i \in Nat
      BY <1>0, <2>0
    <2>2. buf' = [i \in 1..n |-> at + i]
      BY <1>4 DEF n
    <2>3. buf' \in Seq(Nat) /\ Len(buf') = n
      BY <2>0, <2>1, <2>2
    <2>4. at' = at + n
      BY <1>4 DEF n
    <2>5. EmTypeOK'
      BY <1>0, <1>4, <2>0, <2>3, <2>4 DEF EmTypeOK, EmSteps
    <2>6. at' - Len(buf') = at
      BY <1>0, <2>0, <2>3, <2>4
    <2>7. Position'
      BY <1>0, <1>4, <2>0, <2>2, <2>3, <2>4, <2>6 DEF Position, Here
    <2>8. UncutIsComplete'
      BY <1>0, <1>4 DEF UncutIsComplete, Complete, Copying, Here
    <2> QED
      BY <1>1, <2>5, <2>7, <2>8
  <1> QED
    BY <1>2, <1>3, <1>4 DEF Read

LEMMA WriteStep ==
    ASSUME EmIInv, Write
    PROVE  EmIInv'
  <1> USE DumperAssumption DEF EmIInv
  <1>0. /\ part \in Parts /\ Here \in Target /\ pc = "write"
        /\ size \in Nat /\ at \in Nat /\ Len(buf) \in Nat
        /\ Len(buf) <= size /\ Len(buf) <= at
        /\ DeviceSize[part] \in Nat
        /\ at - Len(buf) + size = DeviceSize[part]
        /\ UNCHANGED <<drives, dirs, drv, at, buf, starts>>
    BY DEF Write, Position, EmTypeOK, Here, Target
  <1>1. ASSUME NEW n \in 0..Len(buf), file' = [file EXCEPT ![Here] = Stored(n)]
        PROVE  /\ file' \in [Target -> {NULL} \cup Seq(Nat \cup {Fill})]
               /\ file'[Here] = Copied(DeviceSize[part], at - Len(buf) + n)
               /\ \A t \in Target \ {Here} : file'[t] = file[t]
               /\ PrefixThenFill'
    <2>1. at - Len(buf) + n \in 0..DeviceSize[part]
      BY <1>0
    <2>2. Stored(n) = Copied(DeviceSize[part], at - Len(buf) + n)
      BY <1>0, StoredIs
    <2> QED
      BY <1>0, <1>1, <2>1, <2>2, FileStep
  <1>2. CASE /\ file' = [file EXCEPT ![Here] = Stored(Len(buf))]
             /\ size' = size - Len(buf)
             /\ pc' = "read"
             /\ UNCHANGED <<part, failed, spoiled>>
    <2>1. /\ file' \in [Target -> {NULL} \cup Seq(Nat \cup {Fill})]
          /\ file'[Here] = Copied(DeviceSize[part], at - Len(buf) + Len(buf))
          /\ \A t \in Target \ {Here} : file'[t] = file[t]
          /\ PrefixThenFill'
      <3>1. Len(buf) \in 0..Len(buf)
        BY <1>0
      <3> QED
        BY <1>1, <1>2, <3>1
    <2>2. at - Len(buf) + Len(buf) = at /\ at' + size' = DeviceSize[part]
      BY <1>0, <1>2
    <2>3. EmTypeOK' /\ Position'
      BY <1>0, <1>2, <2>1, <2>2 DEF EmTypeOK, Position, EmSteps, Here
    <2>4. UncutIsComplete'
      BY <1>0, <1>2, <2>1 DEF UncutIsComplete, Complete, Copying, Here
    <2> QED
      BY <2>1, <2>3, <2>4
  <1>3. CASE /\ \E n \in 0..(Len(buf) - 1) : file' = [file EXCEPT ![Here] = Stored(n)]
             /\ GiveUp
             /\ spoiled' = spoiled \cup {Here}
             /\ UNCHANGED size
    <2>1. /\ file' \in [Target -> {NULL} \cup Seq(Nat \cup {Fill})]
          /\ \A t \in Target \ {Here} : file'[t] = file[t]
          /\ PrefixThenFill'
      <3>1. PICK n \in 0..(Len(buf) - 1) : file' = [file EXCEPT ![Here] = Stored(n)]
        BY <1>3
      <3>2. n \in 0..Len(buf)
        BY <1>0
      <3> QED
        BY <1>1, <3>1, <3>2
    <2>2. EmTypeOK'
      BY <1>0, <1>3, <2>1 DEF GiveUp, NextPart, EmTypeOK, EmSteps, Parts
    <2>3. Position'
      BY <1>0, <1>3, <2>1 DEF GiveUp, NextPart, EmTypeOK, Position, EmSteps, Parts
    <2>4. UncutIsComplete'
      BY <1>0, <1>3, <2>1 DEF GiveUp, NextPart, UncutIsComplete, Complete, Copying
    <2> QED
      BY <2>1, <2>2, <2>3, <2>4
  <1> QED
    BY <1>2, <1>3 DEF Write

LEMMA StartStep ==
    ASSUME EmIInv, Start
    PROVE  EmIInv'
  <1> USE DumperAssumption DEF EmIInv
  <1>0. /\ pc' = "drive" /\ drives' \in SUBSET Drive /\ drv' = "ux0" /\ part' = 1
        /\ size' = 0 /\ at' = 0 /\ buf' = <<>> /\ failed' = FALSE /\ dirs' = dirs
        /\ starts < EmMaxStarts /\ starts' = starts + 1
        /\ spoiled' = IF Copying THEN spoiled \cup {Here} ELSE spoiled
        /\ (Copying => Here \in Target)
    BY DEF Start, Begin, Position, Copying, EmTypeOK, Here, Target
  <1>1. Position'
    BY <1>0 DEF Position
  <1>2. ASSUME file' \in [Target -> {NULL} \cup Seq(Nat \cup {Fill})]
        PROVE  EmTypeOK'
    <2>1. buf' \in Seq(Nat) /\ part' \in 1..(Part + 1) /\ starts' \in 1..EmMaxStarts
      BY <1>0 DEF EmTypeOK
    <2>2. dirs' \subseteq Drive /\ spoiled' \subseteq Target
      BY <1>0 DEF EmTypeOK
    <2> QED
      BY <1>0, <1>2, <2>1, <2>2 DEF EmTypeOK, Drive, EmSteps
  <1>3. CASE UNCHANGED file
    <2>1. EmTypeOK' /\ PrefixThenFill'
      BY <1>2, <1>3 DEF EmTypeOK, PrefixThenFill
    <2>2. UncutIsComplete'
      BY <1>0, <1>3 DEF UncutIsComplete, Complete, Copying
    <2> QED
      BY <1>1, <2>1, <2>2
  <1>4. CASE /\ pc = "write"
             /\ \E n \in 1..Len(buf) : file' = [file EXCEPT ![Here] = Stored(n)]
    <2>1. PICK n \in 1..Len(buf) : file' = [file EXCEPT ![Here] = Stored(n)]
      BY <1>4
    <2>2. /\ part \in Parts /\ Here \in Target /\ DeviceSize[part] \in Nat
          /\ Len(buf) \in Nat /\ at \in Nat /\ size \in Nat
          /\ Len(buf) <= at /\ Len(buf) <= size
          /\ at - Len(buf) + size = DeviceSize[part]
      BY <1>0, <1>4 DEF Position, EmTypeOK, Copying
    <2>3. Stored(n) = Copied(DeviceSize[part], at - Len(buf) + n)
      BY <1>4, <2>2, StoredIs
    <2>4. at - Len(buf) + n \in 0..DeviceSize[part]
      BY <2>2
    <2>5. /\ file' \in [Target -> {NULL} \cup Seq(Nat \cup {Fill})]
          /\ \A t \in Target \ {Here} : file'[t] = file[t]
          /\ PrefixThenFill'
      BY <2>1, <2>2, <2>3, <2>4, FileStep
    <2>6. UncutIsComplete'
      BY <1>0, <1>4, <2>5 DEF UncutIsComplete, Complete, Copying
    <2> QED
      BY <1>1, <1>2, <2>5, <2>6
  <1> QED
    BY <1>3, <1>4 DEF Start

-----------------------------------------------------------------------------
(* Theorems *)

LEMMA InitIInv == EmInit => EmIInv
  <1> SUFFICES ASSUME EmInit
               PROVE  EmIInv
    OBVIOUS
  <1>0. file \in [Target -> {NULL} \cup Seq(Nat \cup {Fill})]
    BY DEF EmInit
  <1>1. EmTypeOK /\ Position
    <2>1. buf \in Seq(Nat) /\ part \in 1..(Part + 1) /\ starts \in 1..EmMaxStarts
      BY DumperAssumption DEF EmInit
    <2>2. drives \subseteq Drive /\ dirs \subseteq Drive /\ spoiled \subseteq Target
      BY DEF EmInit
    <2> QED
      BY <1>0, <2>1, <2>2 DEF EmInit, EmTypeOK, Position, Drive, EmSteps
  <1>2. \A t \in Target : file[t] = NULL
    BY DEF EmInit
  <1>3. PrefixThenFill /\ UncutIsComplete
    BY <1>2 DEF PrefixThenFill, UncutIsComplete
  <1> QED
    BY <1>1, <1>3 DEF EmIInv

LEMMA NextIInv == EmIInv /\ [EmNext]_emVars => EmIInv'
  BY QuietStep, OpenStep, ChstatStep, ReadStep, WriteStep, StartStep DEF EmNext, EmStep

\* Position, shape and completeness hold together in every reachable state.
LEMMA Invariance == EmSpec => []EmIInv
  BY InitIInv, NextIInv, PTL DEF EmSpec

\* No step changes a complete file: the dump only writes to files that were
\* not there when it looked, and then are short of their end.
LEMMA CompleteStep ==
    ASSUME EmIInv, [EmNext]_emVars, NEW t \in Target, Complete(t)
    PROVE  file'[t] = file[t]
  <1> DEFINE total == DeviceSize[t[2]]
  <1> USE DumperAssumption DEF EmIInv
  <1>0. total \in Nat /\ file[t] = Copied(total, total)
    BY DEF Complete, Target
  <1>1. file[t] # NULL
    <2>1. Copied(total, total) \in Seq(Nat \cup {Fill})
      BY <1>0, CopiedIs
    <2> QED
      BY <1>0, <2>1
  <1>2. CASE OpenFile
    <2>1. t # Here
      BY <1>1, <1>2 DEF OpenFile, Position
    <2> QED
      BY <1>2, <2>1 DEF OpenFile, EmTypeOK
  <1>3. CASE ChstatByFd
    <2>1. CASE t = Here
      <3>1. total = size /\ file[t] = <<>>
        BY <1>3, <2>1 DEF ChstatByFd, Position, Here
      <3>2. size = 0
        BY <1>0, <3>1, CopiedIs
      <3>3. [i \in 1..size |-> Fill] = <<>>
        BY <3>2
      <3> QED
        BY <1>3, <2>1, <3>1, <3>3 DEF ChstatByFd, EmTypeOK
    <2>2. CASE t # Here
      BY <1>3, <2>2 DEF ChstatByFd, EmTypeOK
    <2> QED
      BY <2>1, <2>2
  <1>4. CASE pc = "write"
    <2>1. t # Here
      <3> SUFFICES ASSUME t = Here PROVE FALSE
        OBVIOUS
      <3> DEFINE done == at - Len(buf)
      <3>1. /\ file[t] = Copied(total, done)
            /\ Len(buf) \in 1..size /\ done + size = total
            /\ size \in Nat /\ at \in Nat /\ Len(buf) <= at
        BY <1>4 DEF Position, EmTypeOK, Here
      <3>2. done \in Nat /\ done + 1 \in 1..total
        BY <1>0, <3>1
      <3> HIDE DEF done, total
      <3>3. Copied(total, done)[done + 1] = Fill
        BY <3>2 DEF Copied
      <3>4. Copied(total, total)[done + 1] = done + 1
        BY <1>0, <3>2 DEF Copied
      <3> QED
        BY <1>0, <3>1, <3>2, <3>3, <3>4
    <2>2. file' = file \/ \E x : file' = [file EXCEPT ![Here] = x]
      BY <1>4 DEF EmNext, EmStep, ChooseDrive, Getstat, part_dump, OpenFile, ChstatByFd, Read,
                  Write, Start, emVars
    <2> QED
      BY <2>1, <2>2 DEF EmTypeOK
  <1>5. CASE ~OpenFile /\ ~ChstatByFd /\ pc # "write"
    BY <1>5 DEF EmNext, EmStep, ChooseDrive, Getstat, part_dump, Read, Write, Start, emVars
  <1> QED
    BY <1>2, <1>3, <1>4, <1>5

\* Every variable of the dumper keeps its type: what is left to copy never
\* goes below zero.
THEOREM EmTypeCorrect == EmSpec => []EmTypeOK
  <1>1. EmIInv => EmTypeOK
    BY DEF EmIInv
  <1> QED
    BY <1>1, Invariance, PTL

\* Whatever fails and whenever the power goes, a file of the dump is the
\* beginning of its partition followed by filler.
THEOREM FilesArePrefixes == EmSpec => []PrefixThenFill
  <1>1. EmIInv => PrefixThenFill
    BY DEF EmIInv
  <1> QED
    BY <1>1, Invariance, PTL

\* A file whose copy no failure and no crash cut short is the whole partition.
THEOREM UncutFilesAreComplete == EmSpec => []UncutIsComplete
  <1>1. EmIInv => UncutIsComplete
    BY DEF EmIInv
  <1> QED
    BY <1>1, Invariance, PTL

\* A complete dump is never written to again, whatever is started, fails or
\* loses its power later.
THEOREM CompleteDumpsStay == EmSpec => CompleteStays
  <1>1. EmIInv /\ [EmNext]_emVars => [\A t \in Target : Complete(t) => file'[t] = file[t]]_emVars
    BY CompleteStep
  <1> QED
    BY <1>1, Invariance, PTL DEF EmSpec, CompleteStays

-----------------------------------------------------------------------------
(* A start without a failure *)

\* What the present start has gone past has a file, and only the end of the
\* list ends a start in which nothing failed.
Passed ==
    ~failed =>
      /\ pc \notin {"drive"} =>
            \A p \in 1..(part - 1) : DeviceSize[p] <= MaxSize => file[<<drv, p>>] # NULL
      /\ pc = "drive" => part = 1
      /\ pc = "end" => part > Part

\* Files never go, and this start has the file of the partition it copies.
LEMMA FilesStay ==
    ASSUME EmIInv, [EmNext]_emVars, NEW t \in Target, file[t] # NULL
    PROVE  file'[t] # NULL
  <1> USE DEF EmIInv
  <1>1. CASE OpenFile
    <2>1. t # Here
      BY <1>1 DEF OpenFile, Position
    <2> QED
      BY <1>1, <2>1 DEF OpenFile, EmTypeOK
  <1>2. CASE ~OpenFile
    <2>1. EmTypeOK' /\ \A n \in Nat : NULL # [i \in 1..n |-> Fill]
      <3>1. \A n \in Nat : [i \in 1..n |-> Fill] \in Seq(Nat \cup {Fill})
        OBVIOUS
      <3> QED
        BY <3>1, NextIInv, DumperAssumption DEF DumperAssumption
    <2>2. CASE ChstatByFd
      BY <2>1, <2>2 DEF ChstatByFd, EmTypeOK
    <2>3. CASE pc = "write" /\ (Write \/ Start)
      <3>1. \A n \in 0..Len(buf) : Stored(n) # NULL
        <4> SUFFICES ASSUME NEW n \in 0..Len(buf) PROVE Stored(n) # NULL
          OBVIOUS
        <4>1. /\ part \in Parts /\ DeviceSize[part] \in Nat /\ at \in Nat
              /\ Len(buf) \in Nat /\ Len(buf) <= at
          BY <2>3, DumperAssumption DEF DumperAssumption, Position, EmTypeOK
        <4>2. at - Len(buf) + n \in Nat
          BY <4>1
        <4>3. Stored(n) = Copied(DeviceSize[part], at - Len(buf) + n)
          BY <2>3, StoredIs
        <4> QED
          BY <4>1, <4>2, <4>3, CopiedIs, DumperAssumption DEF DumperAssumption
      <3>2. Len(buf) \in Nat
        BY DEF EmTypeOK
      <3>3. file' = file \/ \E n \in 0..Len(buf) : file' = [file EXCEPT ![Here] = Stored(n)]
        BY <2>3, <3>2 DEF Write, Start
      <3> QED
        BY <3>1, <3>3 DEF EmTypeOK
    <2>4. CASE UNCHANGED file
      BY <2>4
    <2> QED
      BY <1>2, <2>2, <2>3, <2>4 DEF EmNext, EmStep, ChooseDrive, Getstat, part_dump, Read, Write,
                                    Start, emVars
  <1> QED
    BY <1>1, <1>2

LEMMA PassedStep == EmIInv /\ Passed /\ [EmNext]_emVars => Passed'
  <1> SUFFICES ASSUME EmIInv, Passed, [EmNext]_emVars, ~failed' PROVE Passed'
    BY DEF Passed
  <1> USE DEF EmIInv
  <1>1. CASE ChooseDrive
    <2>1. part' = part /\ pc = "drive" /\ ~failed /\ pc' = "getstat"
      BY <1>1 DEF ChooseDrive, EmTypeOK
    <2> QED
      BY <2>1 DEF Passed
  <1>2. CASE Start
    BY <1>2 DEF Start, Begin, Passed
  <1>3. CASE UNCHANGED emVars
    BY <1>3 DEF emVars, Passed
  <1>4. CASE ~ChooseDrive /\ ~Start /\ ~UNCHANGED emVars
    <2>1. pc # "drive" /\ pc' # "drive" /\ drv' = drv /\ ~failed /\ drv \in Drive
          /\ part \in 1..(Part + 1) /\ Part \in Nat
      BY <1>4, DumperAssumption DEF DumperAssumption, EmNext, EmStep, Getstat, part_dump, OpenFile, ChstatByFd, Read, Write,
               GiveUp, NextPart, EmTypeOK
    <2>2. \A p \in 1..(part - 1) : p \in Parts /\ <<drv, p>> \in Target
      BY <2>1 DEF Parts, Target
    <2>3. \A p \in 1..(part - 1) : DeviceSize[p] <= MaxSize => file'[<<drv, p>>] # NULL
      BY <2>1, <2>2, FilesStay DEF Passed
    <2>4. CASE part' = part /\ pc' # "end"
      BY <2>1, <2>3, <2>4 DEF Passed
    <2>5. CASE Getstat
      BY <2>1, <2>3, <2>5 DEF Getstat, Passed, Here
    <2>6. CASE part_dump /\ part' # part
      <3>1. part' = part + 1 /\ pc' = "getstat" /\ ~(DeviceSize[part] <= MaxSize)
        BY <2>6, <2>1, DumperAssumption DEF DumperAssumption, part_dump, GiveUp, NextPart, Position
      <3> QED
        BY <2>1, <2>3, <3>1 DEF Passed
    <2>7. CASE Read /\ part' # part
      <3>1. part' = part + 1 /\ pc' = "getstat" /\ file' = file /\ pc = "read"
        BY <2>7, <2>1 DEF Read, GiveUp, NextPart
      <3>2. file[Here] # NULL
        <4>1. part \in Parts /\ DeviceSize[part] \in Nat /\ at \in Nat
          BY <3>1, DumperAssumption DEF DumperAssumption, Position, EmTypeOK
        <4> QED
          BY <3>1, <4>1, CopiedIs, DumperAssumption DEF DumperAssumption, Position
      <3> QED
        BY <2>1, <2>3, <3>1, <3>2 DEF Passed, Here
    <2> QED
      BY <1>4, <2>1, <2>4, <2>5, <2>6, <2>7
         DEF EmNext, EmStep, part_dump, OpenFile, ChstatByFd, Read, Write, GiveUp, NextPart
  <1> QED
    BY <1>1, <1>2, <1>3, <1>4

\* However earlier starts were cut short, a start in which no call fails leaves
\* a file for every partition whose size can be measured.
THEOREM StartsReachAll == EmSpec => []StartReachesAll
  <1>1. EmInit => Passed
    BY DEF EmInit, Passed
  <1>2. EmIInv /\ Passed => StartReachesAll
    <2> SUFFICES ASSUME EmIInv, Passed, pc = "end", ~failed, NEW p \in Parts,
                        DeviceSize[p] <= MaxSize
                 PROVE  file[<<drv, p>>] # NULL
      BY DEF StartReachesAll
    <2>1. p \in 1..(part - 1)
      BY DumperAssumption DEF DumperAssumption, Passed, EmIInv, EmTypeOK, Parts
    <2> QED
      BY <2>1 DEF Passed
  <1> QED
    BY <1>1, <1>2, PassedStep, Invariance, PTL DEF EmSpec

-----------------------------------------------------------------------------
(* Allocators *)

AlStep == [do : {"take", "give", "realloc"}, slot : Slot, heap : Heap, skip : Nat]

\* What a slot may hold: a block of a heap, nothing, or the address of a block
\* that went with its heap.
Plan == [Slot -> Heap \cup {"none", "stale"}]

\* What the other slots may hold is still known.
SameElse(before, after, slot) ==
    \A s \in Slot \ {slot} : before[s] # "none" => after[s] = before[s]

StepFits(step, before, after, past) ==
    /\ step.do = "take" =>
          /\ before[step.slot] = "none" /\ after[step.slot] = step.heap
          /\ SameElse(before, after, step.slot) /\ SameElse(before, past, step.slot)
    /\ step.do = "give" =>
          /\ before[step.slot] \in {step.heap, "none"}
          /\ \A s \in Slot \ {step.slot} : before[s] # "none" =>
                after[s] = IF step.slot = 0 /\ before[s] = "own" THEN "stale" ELSE before[s]
    /\ step.do = "realloc" =>
          /\ step.heap = "own" /\ step.slot # 0
          /\ before[step.slot] = "own" /\ after[step.slot] = "own"
          /\ SameElse(before, after, step.slot)

Along(steps, e) ==
    \A p \in 1..Len(steps) :
       /\ p + steps[p].skip =< Len(steps)
       /\ StepFits(steps[p], e[p], e[p + 1], e[p + steps[p].skip + 1])

Plans(steps) == [1..Len(steps) + 1 -> Plan]

Leads(steps, from, to) ==
    \E e \in Plans(steps) : e[1] = from /\ e[Len(steps) + 1] = to /\ Along(steps, e)

LEMMA Regrouped ==
    ASSUME NEW l \in Nat, NEW m \in Nat, NEW n \in Nat
    PROVE  (l + m) + 1 = l + (m + 1) /\ ((l + m) + n) + 1 = l + ((m + n) + 1)
OBVIOUS

LEMMA LeadsOn ==
    ASSUME NEW s \in Seq(AlStep), NEW t \in Seq(AlStep), NEW P, NEW Q, NEW R,
           Leads(s, P, Q), Leads(t, Q, R)
    PROVE  Leads(s \o t, P, R)
<1>1. PICK d \in Plans(s) : d[1] = P /\ d[Len(s) + 1] = Q /\ Along(s, d)
  BY DEF Leads
<1>2. PICK e \in Plans(t) : e[1] = Q /\ e[Len(t) + 1] = R /\ Along(t, e)
  BY DEF Leads
<1>3. /\ Len(s) \in Nat /\ Len(t) \in Nat /\ Len(s \o t) = Len(s) + Len(t)
      /\ \A p \in 1..Len(s) : (s \o t)[p] = s[p]
      /\ \A p \in 1..Len(t) : (s \o t)[Len(s) + p] = t[p]
  OBVIOUS
<1>9. (\A p \in 1..Len(s) : s[p].skip \in Nat) /\ (\A p \in 1..Len(t) : t[p].skip \in Nat)
  <2>1. (\A p \in 1..Len(s) : s[p] \in AlStep) /\ (\A p \in 1..Len(t) : t[p] \in AlStep)
    BY ElementOfSeq
  <2>. QED
    BY <2>1 DEF AlStep
<1>. DEFINE c == [p \in 1..Len(s \o t) + 1 |-> IF p =< Len(s) THEN d[p] ELSE e[p - Len(s)]]
<1>4. \A p \in 1..Len(s) + 1 : c[p] = d[p]
  <2>. SUFFICES ASSUME NEW p \in 1..Len(s) + 1 PROVE c[p] = d[p]
    OBVIOUS
  <2>1. CASE p = Len(s) + 1
    BY <1>1, <1>2, <1>3, <2>1
  <2>2. CASE p =< Len(s)
    BY <1>3, <2>2
  <2>. QED
    BY <1>3, <2>1, <2>2
<1>5. \A p \in 1..Len(t) + 1 : c[Len(s) + p] = e[p]
  BY <1>3
<1>6. c \in Plans(s \o t)
  BY <1>1, <1>2, <1>3 DEF Plans
<1>. HIDE DEF c
<1>7. c[1] = P /\ c[Len(s \o t) + 1] = R
  <2>1. c[1] = d[1]
    BY <1>3, <1>4
  <2>2. c[Len(s) + (Len(t) + 1)] = e[Len(t) + 1]
    BY <1>3, <1>5
  <2>3. Len(s \o t) + 1 = Len(s) + (Len(t) + 1)
    BY <1>3
  <2>. QED
    BY <1>1, <1>2, <2>1, <2>2, <2>3
<1>8. Along(s \o t, c)
  <2>. SUFFICES ASSUME NEW p \in 1..Len(s \o t)
                PROVE  /\ p + (s \o t)[p].skip =< Len(s \o t)
                       /\ StepFits((s \o t)[p], c[p], c[p + 1], c[p + (s \o t)[p].skip + 1])
    BY DEF Along
  <2>1. CASE p =< Len(s)
    <3>1. (s \o t)[p] = s[p] /\ s[p].skip \in Nat
      BY <1>3, <1>9, <2>1
    <3>2. p + s[p].skip =< Len(s) /\ StepFits(s[p], d[p], d[p + 1], d[p + s[p].skip + 1])
      BY <1>1, <1>3, <2>1 DEF Along
    <3>3. c[p] = d[p] /\ c[p + 1] = d[p + 1] /\ c[p + s[p].skip + 1] = d[p + s[p].skip + 1]
      <4>1. /\ p \in 1..Len(s) + 1 /\ p + 1 \in 1..Len(s) + 1
            /\ p + s[p].skip + 1 \in 1..Len(s) + 1
        <5>1. p \in 1..Len(s)
          BY <1>3, <2>1
        <5>2. p + s[p].skip =< Len(s)
          BY <3>2
        <5>. QED
          BY <1>3, <3>1, <5>1, <5>2
      <4>. QED
        BY <1>4, <4>1
    <3>. QED
      BY <1>3, <3>1, <3>2, <3>3
  <2>2. CASE p > Len(s)
    <3>. DEFINE q == p - Len(s)
    <3>1. q \in 1..Len(t) /\ p = Len(s) + q
      BY <1>3, <2>2
    <3>2. (s \o t)[p] = t[q] /\ t[q].skip \in Nat
      BY <1>3, <1>9, <3>1
    <3>3. q + t[q].skip =< Len(t) /\ StepFits(t[q], e[q], e[q + 1], e[q + t[q].skip + 1])
      BY <1>2, <3>1 DEF Along
    <3>. HIDE DEF q
    <3>4. c[p] = e[q] /\ c[p + 1] = e[q + 1] /\ c[p + t[q].skip + 1] = e[q + t[q].skip + 1]
      <4>1. c[Len(s) + q] = e[q]
        BY <1>3, <1>5, <3>1
      <4>2. c[Len(s) + (q + 1)] = e[q + 1]
        BY <1>3, <1>5, <3>1
      <4>3. c[Len(s) + (q + t[q].skip + 1)] = e[q + t[q].skip + 1]
        <5>1. q + t[q].skip + 1 \in 1..Len(t) + 1
          BY <1>3, <3>1, <3>2, <3>3
        <5>. QED
          BY <1>5, <5>1
      <4>4. /\ p = Len(s) + q /\ p + 1 = Len(s) + (q + 1)
            /\ p + t[q].skip + 1 = Len(s) + (q + t[q].skip + 1)
        <5>1. Len(s) \in Nat /\ q \in Nat /\ t[q].skip \in Nat
          BY <1>3, <3>1, <3>2
        <5>. QED
          BY <3>1, <5>1, Regrouped
      <4>. QED
        BY <4>1, <4>2, <4>3, <4>4
    <3>. QED
      BY <1>3, <3>1, <3>2, <3>3, <3>4
  <2>. QED
    BY <1>3, <2>1, <2>2
<1>. QED
  BY <1>6, <1>7, <1>8 DEF Leads

-----------------------------------------------------------------------------
LEMMA Divided ==
    ASSUME NEW m \in Nat \ {0}, NEW x \in Nat
    PROVE  /\ x \div m \in Int /\ (x % m) \in 0..m - 1 /\ x = m * (x \div m) + (x % m)
<1>1. (x % m) \in 0..m - 1
  OBVIOUS
<1>2. x \div m \in Int
  OBVIOUS
<1>3. x = m * (x \div m) + (x % m)
  OBVIOUS
<1>. QED
  BY <1>1, <1>2, <1>3

LEMMA DividedOnce ==
    ASSUME NEW m \in Nat \ {0}, NEW q \in Int, NEW r \in 0..m - 1, m * q + r \in Nat
    PROVE  (m * q + r) % m = r
<1>. DEFINE x == m * q + r
            d == (x \div m) - q
            z == x % m
<1>1. x \in Nat
  OBVIOUS
<1>2. x \div m \in Int /\ z \in 0..m - 1 /\ x = m * (x \div m) + z
  <2>. HIDE DEF x
  <2>. QED
    BY <1>1, Divided DEF z
<1>3. d \in Int /\ m * d = r - z
  BY <1>1, <1>2
<1>. HIDE DEF d, z
<1>4. CASE d >= 1
  <2>1. m * d >= m
    BY <1>3, <1>4
  <2>. QED
    BY <2>1, <1>2, <1>3
<1>5. CASE d =< -1
  <2>1. m * d =< -m
    BY <1>3, <1>5
  <2>. QED
    BY <2>1, <1>2, <1>3
<1>6. CASE d = 0
  BY <1>2, <1>3, <1>6 DEF z
<1>. QED
  BY <1>3, <1>4, <1>5, <1>6

LEMMA InRound ==
    ASSUME NEW m \in Nat \ {0}, NEW n \in Nat, NEW x \in Nat, x < n * m,
           NEW y \in Nat, (x % m) + y =< m
    PROVE  /\ x + y =< n * m
           /\ (x + y) % m = IF (x % m) + y = m THEN 0 ELSE (x % m) + y
<1>. DEFINE q == x \div m
            r == x % m
<1>1. q \in Int /\ r \in 0..m - 1 /\ x = m * q + r
  BY Divided
<1>2. r + y =< m
  OBVIOUS
<1>. HIDE DEF q
<1>3. q < n
  <2>. SUFFICES ASSUME q >= n PROVE FALSE
    BY <1>1
  <2>1. m * q >= m * n
    BY <1>1
  <2>. QED
    BY <1>1, <2>1
<1>4. m * (q + 1) =< m * n
  BY <1>1, <1>3
<1>5. m * (q + 1) = m * q + m /\ m * n = n * m /\ m * q \in Int
  BY <1>1
<1>6. x + y =< n * m
  <2>. HIDE DEF r
  <2>. QED
    BY <1>1, <1>2, <1>4, <1>5
<1>7. CASE r + y = m
  <2>1. x + y = m * (q + 1) + 0
    BY <1>1, <1>5, <1>7
  <2>2. (m * (q + 1) + 0) % m = 0
    BY <1>1, <2>1, DividedOnce
  <2>. QED
    BY <1>6, <1>7, <2>1, <2>2
<1>8. CASE r + y # m
  <2>1. r + y \in 0..m - 1 /\ x + y = m * q + (r + y)
    <3>. HIDE DEF r
    <3>. QED
      BY <1>1, <1>2, <1>5, <1>8
  <2>. DEFINE w == r + y
  <2>2. w \in 0..m - 1 /\ x + y = m * q + w
    BY <2>1
  <2>. HIDE DEF w, r
  <2>3. (m * q + w) % m = w
    BY <1>1, <2>2, DividedOnce
  <2>4. (x + y) % m = w
    BY <2>2, <2>3
  <2>. QED
    BY <1>6, <1>8, <2>4 DEF r, w
<1>. QED
  BY <1>7, <1>8

LEMMA RepeatSteps ==
    ASSUME NEW n \in Nat, NEW s \in Seq(AlStep)
    PROVE  /\ n * Len(s) \in Nat /\ Len(Repeat(n, s)) = n * Len(s) /\ Repeat(n, s) \in Seq(AlStep)
           /\ \A k \in 1..n * Len(s) : /\ Len(s) # 0 /\ ((k - 1) % Len(s)) + 1 \in 1..Len(s)
                                       /\ Repeat(n, s)[k] = s[((k - 1) % Len(s)) + 1]
<1>1. Len(s) \in Nat
  OBVIOUS
<1>2. n * Len(s) \in Nat
  BY <1>1
<1>3. ASSUME NEW k \in 1..n * Len(s)
      PROVE  Len(s) # 0 /\ ((k - 1) % Len(s)) + 1 \in 1..Len(s)
  <2>1. Len(s) # 0
    <3>. SUFFICES ASSUME Len(s) = 0 PROVE FALSE
      OBVIOUS
    <3>1. n * Len(s) = 0
      OBVIOUS
    <3>. QED
      BY <3>1
  <2>2. k - 1 \in Nat
    BY <1>2
  <2>3. ((k - 1) % Len(s)) \in 0..Len(s) - 1
    BY <1>1, <2>1, <2>2, Divided
  <2>. QED
    BY <1>1, <2>1, <2>3
<1>. DEFINE N == n * Len(s)
<1>4. \A k \in 1..N : s[((k - 1) % Len(s)) + 1] \in AlStep
  BY <1>3, ElementOfSeq
<1>5. /\ Repeat(n, s) = [k \in 1..N |-> s[((k - 1) % Len(s)) + 1]]
  BY DEF Repeat
<1>. HIDE DEF N
<1>6. Repeat(n, s) \in Seq(AlStep) /\ Len(Repeat(n, s)) = N
  <2>1. N \in Nat
    BY <1>2 DEF N
  <2>. QED
    BY <1>4, <1>5, <2>1
<1>. QED
  BY <1>2, <1>3, <1>5, <1>6 DEF N

\* What leads back to where it began leads there however often it is repeated.
LEMMA LeadsAgain ==
    ASSUME NEW n \in Nat, NEW s \in Seq(AlStep), NEW P \in Plan, Leads(s, P, P)
    PROVE  Leads(Repeat(n, s), P, P)
<1>. DEFINE m == Len(s)
            t == Repeat(n, s)
<1>1. PICK d \in Plans(s) : d[1] = P /\ d[m + 1] = P /\ Along(s, d)
  BY DEF Leads
<1>2. /\ m \in Nat /\ n * m \in Nat /\ Len(t) = n * m
      /\ \A k \in 1..n * m : m # 0 /\ ((k - 1) % m) + 1 \in 1..m /\ t[k] = s[((k - 1) % m) + 1]
  <2>1. Len(s) \in Nat
    OBVIOUS
  <2>. HIDE DEF m, t
  <2>2. /\ n * Len(s) \in Nat /\ Len(Repeat(n, s)) = n * Len(s)
        /\ \A k \in 1..n * Len(s) : /\ Len(s) # 0 /\ ((k - 1) % Len(s)) + 1 \in 1..Len(s)
                                    /\ Repeat(n, s)[k] = s[((k - 1) % Len(s)) + 1]
    BY RepeatSteps
  <2>. QED
    BY <2>1, <2>2, Zenon DEF m, t
<1>3. \A k \in 1..m : s[k].skip \in Nat
  <2>1. \A k \in 1..m : s[k] \in AlStep
    BY ElementOfSeq
  <2>. QED
    BY <2>1 DEF AlStep
<1>. DEFINE Place(k) == IF m = 0 THEN 1 ELSE ((k - 1) % m) + 1
            c == [k \in 1..Len(t) + 1 |-> d[Place(k)]]
<1>. HIDE DEF m, t
<1>4. \A k \in 1..n * m + 1 : Place(k) \in 1..m + 1
  <2>. SUFFICES ASSUME NEW k \in 1..n * m + 1, m # 0 PROVE ((k - 1) % m) + 1 \in 1..m + 1
    BY <1>2
  <2>1. k - 1 \in Nat
    BY <1>2
  <2>2. ((k - 1) % m) \in 0..m - 1
    BY <1>2, <2>1, Divided
  <2>. QED
    BY <1>2, <2>2
<1>5. c \in Plans(t)
  <2>. HIDE DEF Place
  <2>. QED
    BY <1>1, <1>2, <1>4 DEF Plans, m
<1>6. c[1] = P
  <2>1. Place(1) = 1
    <3>. SUFFICES ASSUME m # 0 PROVE (0 % m) = 0
      OBVIOUS
    <3>. QED
      BY <1>2
  <2>2. 1 \in 1..Len(t) + 1
    BY <1>2
  <2>. HIDE DEF Place
  <2>. QED
    BY <1>1, <2>1, <2>2
<1>7. c[Len(t) + 1] = P
  <2>1. Place(n * m + 1) = 1
    <3>. SUFFICES ASSUME m # 0 PROVE ((n * m) % m) = 0
      BY <1>2
    <3>1. n * m = m * n + 0 /\ 0 \in 0..m - 1 /\ m * n + 0 \in Nat
      BY <1>2
    <3>2. (m * n + 0) % m = 0
      <4>1. m \in Nat \ {0} /\ n \in Int
        BY <1>2
      <4>. QED
        BY <3>1, <4>1, DividedOnce, Zenon
    <3>. QED
      BY <3>1, <3>2
  <2>2. Len(t) + 1 \in 1..Len(t) + 1
    BY <1>2
  <2>. HIDE DEF Place
  <2>. QED
    BY <1>1, <1>2, <2>1, <2>2
<1>8. ASSUME NEW k \in 1..n * m
      PROVE  k + t[k].skip =< n * m /\ StepFits(t[k], c[k], c[k + 1], c[k + t[k].skip + 1])
  <2>. DEFINE x == k - 1
              r == x % m
              y == s[r + 1].skip
  <2>1. /\ m \in Nat \ {0} /\ x \in Nat /\ x < n * m /\ r + 1 \in 1..m /\ t[k] = s[r + 1]
    BY <1>2
  <2>2. y \in Nat /\ r + 1 + y =< m /\ StepFits(s[r + 1], d[r + 1], d[r + 2], d[r + y + 2])
    <3>1. /\ (r + 1) + y =< m
          /\ StepFits(s[r + 1], d[r + 1], d[(r + 1) + 1], d[(r + 1) + y + 1])
      BY <1>1, <2>1 DEF Along, m
    <3>2. y \in Nat /\ r \in Int
      BY <1>3, <2>1
    <3>3. (r + 1) + 1 = r + 2 /\ (r + 1) + y + 1 = r + y + 2
      BY <3>2
    <3>. QED
      BY <3>1, <3>2, <3>3
  <2>3. \A z \in Nat : r + z =< m =>
           /\ x + z =< n * m
           /\ (x + z) % m = IF r + z = m THEN 0 ELSE r + z
    BY <1>2, <2>1, InRound
  <2>. HIDE DEF x, r, y
  <2>4. ASSUME NEW z \in Nat, r + z =< m
        PROVE  x + z =< n * m /\ c[x + z + 1] = d[r + z + 1]
    <3>1. x + z + 1 \in 1..n * m + 1
      <4>1. x + z =< n * m
        BY <2>3, <2>4
      <4>. HIDE DEF c, Place
      <4>. QED
        BY <1>2, <2>1, <2>4, <4>1
    <3>2. Place(x + z + 1) = ((x + z) % m) + 1
      <4>1. (x + z + 1) - 1 = x + z
        BY <2>1
      <4>. QED
        BY <2>1, <4>1
    <3>3. c[x + z + 1] = d[Place(x + z + 1)]
      <4>. HIDE DEF Place
      <4>. QED
        BY <1>2, <3>1
    <3>. HIDE DEF Place, c
    <3>4. CASE r + z = m
      <4>1. c[x + z + 1] = d[1]
        BY <2>3, <2>4, <3>2, <3>3, <3>4
      <4>2. r + z + 1 = m + 1
        BY <3>4
      <4>. QED
        BY <1>1, <2>3, <2>4, <4>1, <4>2
    <3>5. CASE r + z # m
      BY <2>3, <2>4, <3>2, <3>3, <3>5
    <3>. QED
      BY <3>4, <3>5
  <2>. HIDE DEF c, Place
  <2>5. r \in Nat
    BY <2>1 DEF r, x
  <2>6. c[x + 0 + 1] = d[r + 0 + 1] /\ c[x + 1 + 1] = d[r + 1 + 1]
    <3>1. r + 0 =< m /\ r + 1 =< m
      BY <1>2, <2>1, <2>5
    <3>2. c[x + 0 + 1] = d[r + 0 + 1]
      BY <2>4, <3>1, Zenon
    <3>3. c[x + 1 + 1] = d[r + 1 + 1]
      BY <2>4, <3>1, Zenon
    <3>. QED
      BY <3>2, <3>3, Zenon
  <2>7. x + (1 + y) =< n * m /\ c[x + (1 + y) + 1] = d[r + (1 + y) + 1]
    <3>1. 1 + y \in Nat /\ r + (1 + y) =< m
      BY <1>2, <2>2, <2>5
    <3>. QED
      BY <2>4, <3>1
  <2>8. /\ k = x + 0 + 1 /\ k + 1 = x + 1 + 1 /\ k + y + 1 = x + (1 + y) + 1
        /\ k + y = x + (1 + y)
        /\ r + 0 + 1 = r + 1 /\ r + 1 + 1 = r + 2 /\ r + (1 + y) + 1 = r + y + 2
    BY <2>1, <2>2, <2>5 DEF x
  <2>9. c[k] = d[r + 1] /\ c[k + 1] = d[r + 2] /\ c[k + y + 1] = d[r + y + 2] /\ k + y =< n * m
    BY <2>6, <2>7, <2>8
  <2>10. t[k] = s[r + 1] /\ t[k].skip = y
    BY <2>1 DEF y
  <2>. QED
    BY <2>2, <2>9, <2>10
<1>. HIDE DEF c
<1>9. Along(t, c)
  BY <1>2, <1>8 DEF Along
<1>. QED
  BY <1>5, <1>6, <1>7, <1>9 DEF Leads, t

Block(steps, i) == <<i, steps[i].heap>>

BlocksNamed(steps, here, live) == \A b \in live : b[1] \in 1..here - 1 /\ b = Block(steps, b[1])

SlotsKnown(steps, plan, here, slot, live) ==
    \A s \in Slot : slot[s] # None =>
       /\ slot[s] < here /\ steps[slot[s]].slot = s
       /\ IF plan[s] = "stale" THEN Block(steps, slot[s]) \notin live
          ELSE Block(steps, slot[s]) \in live /\ plan[s] = steps[slot[s]].heap

HeldOrLost(slot, live, lost) ==
    /\ lost \subseteq live
    /\ \A b \in lost : b[2] = "own" /\ \A s \in Slot : slot[s] # b[1]
    /\ \A b \in live \ lost : \E s \in Slot : slot[s] = b[1]

HeapThere(slot, live) == \A b \in live : b[2] = "own" => <<slot[0], "root">> \in live

Owned(steps, plan, here, slot, live, lost) ==
    /\ slot \in [Slot -> Nat] /\ here \in 1..Len(steps) + 1
    /\ BlocksNamed(steps, here, live) /\ SlotsKnown(steps, plan, here, slot, live)
    /\ HeldOrLost(slot, live, lost) /\ HeapThere(slot, live)

LEMMA AlStepTyped ==
    ASSUME NEW steps \in Seq(AlStep), NEW i \in 1..Len(steps)
    PROVE  /\ steps[i].slot \in Slot /\ steps[i].heap \in Heap /\ steps[i].skip \in Nat
           /\ steps[i].do \in {"take", "give", "realloc"} /\ Len(steps) \in Nat
<1>1. steps[i] \in AlStep
  BY ElementOfSeq
<1>2. Len(steps) \in Nat
  OBVIOUS
<1>. QED
  BY <1>1, <1>2 DEF AlStep

LEMMA ZeroIsSlot == 0 \in Slot /\ Slot \subseteq Nat
BY AllocatorsAssumption DEF Slot, AllocatorsAssumption

\* A slot that is planned to be empty is.
LEMMA EmptySlot ==
    ASSUME NEW steps \in Seq(AlStep), NEW plan, NEW here, NEW slot, NEW live, NEW lost,
           Owned(steps, plan, here, slot, live, lost), NEW s \in Slot, plan[s] = "none"
    PROVE  slot[s] = None
<1>. SUFFICES ASSUME slot[s] # None PROVE FALSE
  OBVIOUS
<1>1. slot[s] \in Nat /\ slot[s] < here /\ here \in 1..Len(steps) + 1 /\ plan[s] = steps[slot[s]].heap
  BY DEF Owned, SlotsKnown
<1>2. slot[s] \in 1..Len(steps)
  BY <1>1 DEF None
<1>3. steps[slot[s]].heap \in Heap
  BY <1>2, AlStepTyped
<1>. QED
  BY <1>1, <1>3 DEF Heap

\* When nothing is had, the slot is empty and the steps that depend on it are left out.
LEMMA NotTaken ==
    ASSUME NEW steps \in Seq(AlStep), NEW here \in 1..Len(steps),
           NEW before, NEW after, NEW past, NEW slot, NEW live, NEW lost,
           steps[here].do = "take", here + steps[here].skip =< Len(steps),
           StepFits(steps[here], before, after, past), Owned(steps, before, here, slot, live, lost)
    PROVE  Owned(steps, past, here + steps[here].skip + 1, [slot EXCEPT ![steps[here].slot] = None], live, lost)
<1>. DEFINE x == steps[here].slot
            new == here + steps[here].skip + 1
<1>1. x \in Slot /\ steps[here].skip \in Nat
  BY AlStepTyped
<1>2. before[x] = "none" /\ SameElse(before, past, x)
  BY DEF StepFits
<1>3. slot \in [Slot -> Nat] /\ slot[x] = None
  BY <1>1, <1>2, EmptySlot DEF Owned
<1>4. [slot EXCEPT ![x] = None] = slot
  BY <1>3
<1>5. new \in 1..Len(steps) + 1 /\ new > here
  BY <1>1
<1>6. BlocksNamed(steps, new, live)
  <2>1. BlocksNamed(steps, here, live)
    BY DEF Owned
  <2>. HIDE DEF new
  <2>. QED
    BY <1>5, <2>1 DEF BlocksNamed
<1>7. SlotsKnown(steps, past, new, slot, live)
  <2>. SUFFICES ASSUME NEW s \in Slot, slot[s] # None
                PROVE  /\ slot[s] < new /\ steps[slot[s]].slot = s
                       /\ IF past[s] = "stale" THEN Block(steps, slot[s]) \notin live
                          ELSE Block(steps, slot[s]) \in live /\ past[s] = steps[slot[s]].heap
    BY DEF SlotsKnown
  <2>1. before[s] # "none" /\ s # x
    BY <1>3, EmptySlot
  <2>2. past[s] = before[s]
    BY <1>2, <2>1 DEF SameElse
  <2>3. /\ slot[s] < here /\ steps[slot[s]].slot = s
        /\ IF before[s] = "stale" THEN Block(steps, slot[s]) \notin live
           ELSE Block(steps, slot[s]) \in live /\ before[s] = steps[slot[s]].heap
    BY DEF Owned, SlotsKnown
  <2>4. slot[s] < new
    BY <1>3, <1>5, <2>3
  <2>. QED
    BY <2>2, <2>3, <2>4
<1>. HIDE DEF new, x
<1>8. Owned(steps, past, new, slot, live, lost)
  BY <1>3, <1>5, <1>6, <1>7 DEF Owned
<1>. QED
  BY <1>4, <1>8 DEF new, x

\* A block is had: it is in the slot, which was empty.
LEMMA Taken ==
    ASSUME NEW steps \in Seq(AlStep), NEW here \in 1..Len(steps),
           NEW before, NEW after, NEW past, NEW slot, NEW live, NEW lost,
           steps[here].do = "take", StepFits(steps[here], before, after, past),
           Owned(steps, before, here, slot, live, lost),
           steps[here].heap = "own" => <<slot[0], "root">> \in live
    PROVE  Owned(steps, after, here + 1, [slot EXCEPT ![steps[here].slot] = here],
                 live \cup {<<here, steps[here].heap>>}, lost)
<1>. DEFINE x == steps[here].slot
            h == steps[here].heap
            new == [slot EXCEPT ![x] = here]
            more == live \cup {<<here, h>>}
<1>1. x \in Slot /\ h \in Heap /\ Len(steps) \in Nat /\ here \in Nat /\ here # None
  BY AlStepTyped DEF None
<1>2. before[x] = "none" /\ after[x] = h /\ SameElse(before, after, x)
  BY DEF StepFits
<1>3. /\ slot \in [Slot -> Nat] /\ BlocksNamed(steps, here, live)
      /\ SlotsKnown(steps, before, here, slot, live) /\ HeldOrLost(slot, live, lost)
      /\ HeapThere(slot, live)
  BY DEF Owned
<1>4. slot[x] = None
  BY <1>1, <1>2, EmptySlot
<1>5. new \in [Slot -> Nat] /\ new[x] = here /\ \A s \in Slot \ {x} : new[s] = slot[s]
  BY <1>1, <1>3
<1>6. \A i : Block(steps, i) = <<i, steps[i].heap>>
  BY DEF Block
<1>7. <<here, h>> = Block(steps, here)
  BY <1>6
<1>. HIDE DEF new, x, h, more
<1>8. BlocksNamed(steps, here + 1, more)
  <2>. SUFFICES ASSUME NEW b \in more PROVE b[1] \in 1..here /\ b = Block(steps, b[1])
    BY <1>1 DEF BlocksNamed
  <2>1. CASE b \in live
    BY <1>1, <1>3, <2>1 DEF BlocksNamed
  <2>2. CASE b = <<here, h>>
    BY <1>1, <1>7, <2>2
  <2>. QED
    BY <2>1, <2>2 DEF more
<1>9. SlotsKnown(steps, after, here + 1, new, more)
  <2>. SUFFICES ASSUME NEW s \in Slot, new[s] # None
                PROVE  /\ new[s] < here + 1 /\ steps[new[s]].slot = s
                       /\ IF after[s] = "stale" THEN Block(steps, new[s]) \notin more
                          ELSE Block(steps, new[s]) \in more /\ after[s] = steps[new[s]].heap
    BY DEF SlotsKnown
  <2>1. CASE s = x
    <3>1. h # "stale"
      BY <1>1 DEF Heap
    <3>. QED
      BY <1>1, <1>2, <1>5, <1>7, <2>1, <3>1 DEF more, h, x
  <2>2. CASE s # x
    <3>1. new[s] = slot[s] /\ slot[s] # None
      BY <1>5, <2>2
    <3>2. /\ slot[s] < here /\ steps[slot[s]].slot = s
          /\ IF before[s] = "stale" THEN Block(steps, slot[s]) \notin live
             ELSE Block(steps, slot[s]) \in live /\ before[s] = steps[slot[s]].heap
      BY <1>3, <3>1 DEF SlotsKnown
    <3>3. after[s] = before[s]
      <4>1. before[s] # "none"
        BY <3>1, EmptySlot
      <4>. QED
        BY <1>2, <2>2, <4>1 DEF SameElse
    <3>4. Block(steps, slot[s]) # <<here, h>> /\ slot[s] < here + 1
      BY <1>1, <1>3, <1>6, <3>2
    <3>. QED
      BY <3>1, <3>2, <3>3, <3>4 DEF more
  <2>. QED
    BY <2>1, <2>2
<1>10. HeldOrLost(new, more, lost)
  <2>1. lost \subseteq more
    BY <1>3 DEF HeldOrLost, more
  <2>2. ASSUME NEW b \in lost PROVE b[2] = "own" /\ \A s \in Slot : new[s] # b[1]
    <3>1. b[2] = "own" /\ (\A s \in Slot : slot[s] # b[1]) /\ b \in live
      BY <1>3 DEF HeldOrLost
    <3>2. b[1] # here
      BY <1>1, <1>3, <3>1 DEF BlocksNamed
    <3>. QED
      BY <1>5, <3>1, <3>2
  <2>3. ASSUME NEW b \in more \ lost PROVE \E s \in Slot : new[s] = b[1]
    <3>1. CASE b = <<here, h>>
      BY <1>1, <1>5, <3>1
    <3>2. CASE b \in live
      <4>1. PICK s \in Slot : slot[s] = b[1]
        BY <1>3, <3>2 DEF HeldOrLost
      <4>2. s # x
        BY <1>3, <1>4, <3>2, <4>1 DEF BlocksNamed, None
      <4>. QED
        BY <1>5, <4>1, <4>2
    <3>. QED
      BY <3>1, <3>2 DEF more
  <2>. QED
    BY <2>1, <2>2, <2>3 DEF HeldOrLost
<1>11. HeapThere(new, more)
  <2>. SUFFICES ASSUME NEW b \in more, b[2] = "own" PROVE <<new[0], "root">> \in more
    BY DEF HeapThere
  <2>1. <<slot[0], "root">> \in live
    <3>1. CASE b \in live
      BY <1>3, <3>1 DEF HeapThere
    <3>2. CASE b = <<here, h>>
      BY <3>2 DEF h
    <3>. QED
      BY <3>1, <3>2 DEF more
  <2>2. slot[0] # None
    BY <1>3, <2>1 DEF BlocksNamed, None
  <2>3. new[0] = slot[0]
    BY <1>4, <1>5, <2>2, ZeroIsSlot
  <2>. QED
    BY <2>1, <2>3 DEF more
<1>12. here + 1 \in 1..Len(steps) + 1
  BY <1>1
<1>13. Owned(steps, after, here + 1, new, more, lost)
  BY <1>5, <1>8, <1>9, <1>10, <1>11, <1>12 DEF Owned
<1>. QED
  BY <1>13 DEF new, more, x, h

\* What a step leaves known of a slot it does not touch.
LEMMA NothingGiven ==
    ASSUME NEW steps \in Seq(AlStep), NEW here \in 1..Len(steps),
           NEW before, NEW after, NEW past, NEW slot, NEW live, NEW lost,
           steps[here].do = "give", StepFits(steps[here], before, after, past),
           Owned(steps, before, here, slot, live, lost), slot[steps[here].slot] = None
    PROVE  Owned(steps, after, here + 1, [slot EXCEPT ![steps[here].slot] = None], live, lost)
<1>. DEFINE x == steps[here].slot
<1>1. x \in Slot /\ Len(steps) \in Nat /\ here \in Nat
  BY AlStepTyped
<1>2. \A s \in Slot \ {x} : before[s] # "none" =>
         after[s] = IF x = 0 /\ before[s] = "own" THEN "stale" ELSE before[s]
  BY DEF StepFits
<1>3. /\ slot \in [Slot -> Nat] /\ BlocksNamed(steps, here, live)
      /\ SlotsKnown(steps, before, here, slot, live) /\ HeldOrLost(slot, live, lost)
      /\ HeapThere(slot, live)
  BY DEF Owned
<1>4. [slot EXCEPT ![x] = None] = slot /\ slot[x] = None
  BY <1>1, <1>3
<1>. HIDE DEF x
<1>5. BlocksNamed(steps, here + 1, live)
  BY <1>1, <1>3 DEF BlocksNamed
<1>6. SlotsKnown(steps, after, here + 1, slot, live)
  <2>. SUFFICES ASSUME NEW s \in Slot, slot[s] # None
                PROVE  /\ slot[s] < here + 1 /\ steps[slot[s]].slot = s
                       /\ IF after[s] = "stale" THEN Block(steps, slot[s]) \notin live
                          ELSE Block(steps, slot[s]) \in live /\ after[s] = steps[slot[s]].heap
    BY DEF SlotsKnown
  <2>1. /\ slot[s] < here /\ steps[slot[s]].slot = s
        /\ IF before[s] = "stale" THEN Block(steps, slot[s]) \notin live
           ELSE Block(steps, slot[s]) \in live /\ before[s] = steps[slot[s]].heap
    BY <1>3 DEF SlotsKnown
  <2>2. ~(x = 0 /\ before[s] = "own")
    <3>. SUFFICES ASSUME x = 0, before[s] = "own" PROVE FALSE
      OBVIOUS
    <3>1. <<slot[s], "own">> \in live
      BY <2>1 DEF Block
    <3>2. <<slot[0], "root">> \in live
      BY <1>3, <3>1 DEF HeapThere
    <3>. QED
      BY <1>3, <1>4, <3>2 DEF BlocksNamed, None
  <2>3. before[s] # "none" /\ s # x
    BY <1>4, EmptySlot
  <2>4. after[s] = before[s] /\ slot[s] < here + 1
    BY <1>1, <1>2, <1>3, <2>1, <2>2, <2>3
  <2>. QED
    BY <2>1, <2>4
<1>7. here + 1 \in 1..Len(steps) + 1
  BY <1>1
<1>8. Owned(steps, after, here + 1, slot, live, lost)
  BY <1>3, <1>5, <1>6, <1>7 DEF Owned
<1>. QED
  BY <1>4, <1>8 DEF x

GoneWith(held, slot, live) ==
    IF slot = 0 THEN {c \in live : c[2] = "own"} \cup {held} ELSE {held}

\* What is given back is there, and with a heap all that is in it goes.
LEMMA GivenBack ==
    ASSUME NEW steps \in Seq(AlStep), NEW here \in 1..Len(steps),
           NEW before, NEW after, NEW past, NEW slot, NEW live, NEW lost,
           steps[here].do = "give", StepFits(steps[here], before, after, past),
           Owned(steps, before, here, slot, live, lost), slot[steps[here].slot] # None,
           NEW held, held = <<slot[steps[here].slot], steps[here].heap>>
    PROVE  /\ held \in live
           /\ Owned(steps, after, here + 1, [slot EXCEPT ![steps[here].slot] = None],
                    live \ GoneWith(held, steps[here].slot, live),
                    lost \ GoneWith(held, steps[here].slot, live))
<1>. DEFINE x == steps[here].slot
            inside == GoneWith(held, x, live)
            h == steps[here].heap
            new == [slot EXCEPT ![x] = None]
<1>1. x \in Slot /\ h \in Heap /\ Len(steps) \in Nat /\ here \in Nat
  BY AlStepTyped
<1>2. /\ before[x] \in {h, "none"}
      /\ \A s \in Slot \ {x} : before[s] # "none" =>
            after[s] = IF x = 0 /\ before[s] = "own" THEN "stale" ELSE before[s]
  BY DEF StepFits
<1>3. /\ slot \in [Slot -> Nat] /\ BlocksNamed(steps, here, live)
      /\ SlotsKnown(steps, before, here, slot, live) /\ HeldOrLost(slot, live, lost)
      /\ HeapThere(slot, live)
  BY DEF Owned
<1>4. \A i : Block(steps, i) = <<i, steps[i].heap>>
  BY DEF Block
<1>5. held = <<slot[x], h>> /\ inside = IF x = 0 THEN {c \in live : c[2] = "own"} \cup {held} ELSE {held}
  BY DEF GoneWith
<1>6. slot[x] # None /\ steps[slot[x]].slot = x /\ held = Block(steps, slot[x]) /\ held \in live
  <2>1. before[x] = h /\ h # "stale"
    BY <1>1, <1>2, EmptySlot DEF Heap
  <2>2. slot[x] # None
    OBVIOUS
  <2>. HIDE DEF x, h
  <2>3. /\ steps[slot[x]].slot = x
        /\ Block(steps, slot[x]) \in live /\ before[x] = steps[slot[x]].heap
    BY <1>1, <1>3, <2>1, <2>2 DEF SlotsKnown
  <2>4. held = Block(steps, slot[x])
    BY <1>4, <1>5, <2>1, <2>3
  <2>. QED
    BY <2>2, <2>3, <2>4
<1>7. new \in [Slot -> Nat] /\ new[x] = None /\ \A s \in Slot \ {x} : new[s] = slot[s]
  BY <1>1, <1>3 DEF None
<1>. HIDE DEF new, x, h, inside
<1>8. BlocksNamed(steps, here + 1, live \ inside)
  BY <1>1, <1>3 DEF BlocksNamed
<1>9. \A s \in Slot \ {x} : slot[s] # None => slot[s] # slot[x]
  BY <1>3, <1>6 DEF SlotsKnown
<1>10. SlotsKnown(steps, after, here + 1, new, live \ inside)
  <2>. SUFFICES ASSUME NEW s \in Slot, new[s] # None
                PROVE  /\ new[s] < here + 1 /\ steps[new[s]].slot = s
                       /\ IF after[s] = "stale" THEN Block(steps, new[s]) \notin live \ inside
                          ELSE /\ Block(steps, new[s]) \in live \ inside
                               /\ after[s] = steps[new[s]].heap
    BY DEF SlotsKnown
  <2>1. s # x /\ new[s] = slot[s] /\ slot[s] # None /\ slot[s] \in Nat
    BY <1>3, <1>7
  <2>2. /\ slot[s] < here /\ steps[slot[s]].slot = s
        /\ IF before[s] = "stale" THEN Block(steps, slot[s]) \notin live
           ELSE Block(steps, slot[s]) \in live /\ before[s] = steps[slot[s]].heap
    BY <1>3, <2>1 DEF SlotsKnown
  <2>3. before[s] # "none"
    BY <2>1, EmptySlot
  <2>4. after[s] = IF x = 0 /\ before[s] = "own" THEN "stale" ELSE before[s]
    BY <1>2, <2>1, <2>3
  <2>5. Block(steps, slot[s]) # held
    BY <1>4, <1>5, <1>9, <2>1
  <2>6. slot[s] < here + 1
    BY <1>1, <2>1, <2>2
  <2>7. CASE x = 0 /\ before[s] = "own"
    BY <1>4, <1>5, <2>1, <2>2, <2>4, <2>6, <2>7
  <2>8. CASE ~(x = 0 /\ before[s] = "own")
    <3>1. CASE before[s] = "stale"
      BY <2>1, <2>2, <2>4, <2>6, <2>8, <3>1
    <3>2. CASE before[s] # "stale"
      <4>1. Block(steps, slot[s])[2] = before[s]
        BY <1>4, <2>2, <3>2
      <4>2. Block(steps, slot[s]) \notin inside
        BY <1>5, <2>5, <2>8, <4>1
      <4>. QED
        BY <2>1, <2>2, <2>4, <2>6, <2>8, <3>2, <4>2
    <3>. QED
      BY <3>1, <3>2
  <2>. QED
    BY <2>7, <2>8
<1>11. HeldOrLost(new, live \ inside, lost \ inside)
  <2>1. lost \ inside \subseteq live \ inside
    BY <1>3 DEF HeldOrLost
  <2>2. ASSUME NEW b \in lost \ inside PROVE b[2] = "own" /\ \A s \in Slot : new[s] # b[1]
    <3>1. b[2] = "own" /\ (\A s \in Slot : slot[s] # b[1]) /\ b \in live
      BY <1>3 DEF HeldOrLost
    <3>2. b[1] # None
      BY <1>3, <3>1 DEF BlocksNamed, None
    <3>. QED
      BY <1>7, <3>1, <3>2
  <2>3. ASSUME NEW b \in (live \ inside) \ (lost \ inside) PROVE \E s \in Slot : new[s] = b[1]
    <3>1. b \in live \ lost /\ b # held
      BY <1>5
    <3>2. PICK s \in Slot : slot[s] = b[1]
      BY <1>3, <3>1 DEF HeldOrLost
    <3>3. s # x
      BY <1>3, <1>6, <3>1, <3>2 DEF BlocksNamed
    <3>. QED
      BY <1>7, <3>2, <3>3
  <2>. QED
    BY <2>1, <2>2, <2>3 DEF HeldOrLost
<1>12. HeapThere(new, live \ inside)
  <2>. SUFFICES ASSUME NEW b \in live \ inside, b[2] = "own"
                PROVE <<new[0], "root">> \in live \ inside
    BY DEF HeapThere
  <2>1. x # 0 /\ <<slot[0], "root">> \in live
    BY <1>3, <1>5 DEF HeapThere
  <2>2. slot[0] # None
    BY <1>3, <2>1 DEF BlocksNamed, None
  <2>3. new[0] = slot[0] /\ slot[0] # slot[x]
    BY <1>7, <1>9, <2>1, <2>2, ZeroIsSlot
  <2>. QED
    BY <1>5, <2>1, <2>3
<1>13. here + 1 \in 1..Len(steps) + 1
  BY <1>1
<1>14. Owned(steps, after, here + 1, new, live \ inside, lost \ inside)
  BY <1>7, <1>8, <1>10, <1>11, <1>12, <1>13 DEF Owned
<1>. QED
  BY <1>6, <1>14 DEF new, x, inside

\* The block moves: the one in the slot is given back and another is had.
LEMMA Moved ==
    ASSUME NEW steps \in Seq(AlStep), NEW here \in 1..Len(steps),
           NEW before, NEW after, NEW past, NEW slot, NEW live, NEW lost,
           steps[here].do = "realloc", StepFits(steps[here], before, after, past),
           Owned(steps, before, here, slot, live, lost),
           <<slot[0], "root">> \in live,
           NEW held, held = <<slot[steps[here].slot], steps[here].heap>>
    PROVE  /\ slot[steps[here].slot] # None => held \in live
           /\ Owned(steps, after, here + 1, [slot EXCEPT ![steps[here].slot] = here],
                    (live \ {held}) \cup {<<here, steps[here].heap>>}, lost)
<1>. DEFINE x == steps[here].slot
            h == steps[here].heap
            new == [slot EXCEPT ![x] = here]
            more == (live \ {held}) \cup {<<here, h>>}
<1>1. x \in Slot /\ h = "own" /\ x # 0 /\ Len(steps) \in Nat /\ here \in Nat /\ here # None
  BY AlStepTyped DEF StepFits, None
<1>2. before[x] = "own" /\ after[x] = "own" /\ SameElse(before, after, x)
  BY DEF StepFits
<1>3. /\ slot \in [Slot -> Nat] /\ BlocksNamed(steps, here, live)
      /\ SlotsKnown(steps, before, here, slot, live) /\ HeldOrLost(slot, live, lost)
      /\ HeapThere(slot, live)
  BY DEF Owned
<1>4. \A i : Block(steps, i) = <<i, steps[i].heap>>
  BY DEF Block
<1>5. held = <<slot[x], "own">> /\ <<here, h>> = Block(steps, here)
  BY <1>1, <1>4
<1>6. new \in [Slot -> Nat] /\ new[x] = here /\ \A s \in Slot \ {x} : new[s] = slot[s]
  BY <1>1, <1>3
<1>7. steps[here].slot = x /\ steps[here].heap = "own"
  BY <1>1
<1>. HIDE DEF new, x, h, more
<1>8. slot[x] # None => held \in live /\ held = Block(steps, slot[x]) /\ steps[slot[x]].slot = x
  <2>. SUFFICES ASSUME slot[x] # None
                PROVE  held \in live /\ held = Block(steps, slot[x]) /\ steps[slot[x]].slot = x
    OBVIOUS
  <2>1. /\ steps[slot[x]].slot = x
        /\ Block(steps, slot[x]) \in live /\ before[x] = steps[slot[x]].heap
    BY <1>1, <1>2, <1>3 DEF SlotsKnown
  <2>. QED
    BY <1>2, <1>4, <1>5, <2>1
<1>9. \A s \in Slot \ {x} : slot[s] # None => slot[s] # slot[x]
  BY <1>3, <1>8 DEF SlotsKnown
<1>10. BlocksNamed(steps, here + 1, more)
  <2>. SUFFICES ASSUME NEW b \in more PROVE b[1] \in 1..here /\ b = Block(steps, b[1])
    BY <1>1 DEF BlocksNamed
  <2>1. CASE b \in live
    BY <1>1, <1>3, <2>1 DEF BlocksNamed
  <2>2. CASE b = <<here, h>>
    BY <1>1, <1>5, <2>2
  <2>. QED
    BY <2>1, <2>2 DEF more
<1>11. SlotsKnown(steps, after, here + 1, new, more)
  <2>. SUFFICES ASSUME NEW s \in Slot, new[s] # None
                PROVE  /\ new[s] < here + 1 /\ steps[new[s]].slot = s
                       /\ IF after[s] = "stale" THEN Block(steps, new[s]) \notin more
                          ELSE Block(steps, new[s]) \in more /\ after[s] = steps[new[s]].heap
    BY DEF SlotsKnown
  <2>1. CASE s = x
    BY <1>1, <1>2, <1>5, <1>6, <1>7, <2>1 DEF more
  <2>2. CASE s # x
    <3>1. new[s] = slot[s] /\ slot[s] # None
      BY <1>6, <2>2
    <3>2. /\ slot[s] < here /\ steps[slot[s]].slot = s
          /\ IF before[s] = "stale" THEN Block(steps, slot[s]) \notin live
             ELSE Block(steps, slot[s]) \in live /\ before[s] = steps[slot[s]].heap
      BY <1>3, <3>1 DEF SlotsKnown
    <3>3. after[s] = before[s]
      <4>1. before[s] # "none"
        BY <3>1, EmptySlot
      <4>. QED
        BY <1>2, <2>2, <4>1 DEF SameElse
    <3>4. /\ Block(steps, slot[s]) # <<here, h>> /\ Block(steps, slot[s]) # held
          /\ slot[s] < here + 1
      BY <1>1, <1>3, <1>4, <1>5, <1>9, <2>2, <3>1, <3>2
    <3>. QED
      BY <3>1, <3>2, <3>3, <3>4 DEF more
  <2>. QED
    BY <2>1, <2>2
<1>12. HeldOrLost(new, more, lost)
  <2>1. ASSUME NEW b \in lost
        PROVE  b \in more /\ b[2] = "own" /\ \A s \in Slot : new[s] # b[1]
    <3>1. b[2] = "own" /\ (\A s \in Slot : slot[s] # b[1]) /\ b \in live
      BY <1>3 DEF HeldOrLost
    <3>2. b[1] # here
      BY <1>1, <1>3, <3>1 DEF BlocksNamed
    <3>3. b # held
      BY <1>1, <1>5, <3>1
    <3>. QED
      BY <1>6, <3>1, <3>2, <3>3 DEF more
  <2>2. ASSUME NEW b \in more \ lost PROVE \E s \in Slot : new[s] = b[1]
    <3>1. CASE b = <<here, h>>
      BY <1>1, <1>6, <3>1
    <3>2. CASE b \in live /\ b # held
      <4>1. PICK s \in Slot : slot[s] = b[1]
        BY <1>3, <3>2 DEF HeldOrLost
      <4>2. s # x
        BY <1>3, <1>8, <3>2, <4>1 DEF BlocksNamed, None
      <4>. QED
        BY <1>6, <4>1, <4>2
    <3>. QED
      BY <3>1, <3>2 DEF more
  <2>. QED
    BY <2>1, <2>2 DEF HeldOrLost
<1>13. HeapThere(new, more)
  <2>1. slot[0] # None
    BY <1>3 DEF BlocksNamed, None
  <2>2. new[0] = slot[0] /\ slot[0] # slot[x]
    BY <1>1, <1>6, <1>9, <2>1, ZeroIsSlot
  <2>3. <<new[0], "root">> \in more
    BY <1>5, <2>2 DEF more
  <2>. QED
    BY <2>3 DEF HeapThere
<1>14. here + 1 \in 1..Len(steps) + 1
  BY <1>1
<1>15. Owned(steps, after, here + 1, new, more, lost)
  BY <1>6, <1>10, <1>11, <1>12, <1>13, <1>14 DEF Owned
<1>. QED
  BY <1>8, <1>15 DEF new, more, x, h

\* Nothing is had: the pointer is overwritten, and the block is lost.
LEMMA Lost ==
    ASSUME NEW steps \in Seq(AlStep), NEW here \in 1..Len(steps),
           NEW before, NEW after, NEW past, NEW slot, NEW live, NEW lost,
           steps[here].do = "realloc", StepFits(steps[here], before, after, past),
           Owned(steps, before, here, slot, live, lost),
           NEW held, held = <<slot[steps[here].slot], steps[here].heap>>
    PROVE  Owned(steps, after, here + 1, [slot EXCEPT ![steps[here].slot] = None],
                 live, lost \cup ({held} \cap live))
<1>. DEFINE x == steps[here].slot
            new == [slot EXCEPT ![x] = None]
            more == lost \cup ({held} \cap live)
<1>1. x \in Slot /\ steps[here].heap = "own" /\ x # 0 /\ Len(steps) \in Nat /\ here \in Nat
  BY AlStepTyped DEF StepFits
<1>2. before[x] = "own" /\ SameElse(before, after, x)
  BY DEF StepFits
<1>3. /\ slot \in [Slot -> Nat] /\ BlocksNamed(steps, here, live)
      /\ SlotsKnown(steps, before, here, slot, live) /\ HeldOrLost(slot, live, lost)
      /\ HeapThere(slot, live)
  BY DEF Owned
<1>4. \A i : Block(steps, i) = <<i, steps[i].heap>>
  BY DEF Block
<1>5. held = <<slot[x], "own">>
  BY <1>1
<1>6. new \in [Slot -> Nat] /\ new[x] = None /\ \A s \in Slot \ {x} : new[s] = slot[s]
  BY <1>1, <1>3 DEF None
<1>. HIDE DEF new, x, more
<1>8. slot[x] # None => held \in live /\ held = Block(steps, slot[x]) /\ steps[slot[x]].slot = x
  <2>. SUFFICES ASSUME slot[x] # None
                PROVE  held \in live /\ held = Block(steps, slot[x]) /\ steps[slot[x]].slot = x
    OBVIOUS
  <2>1. /\ steps[slot[x]].slot = x
        /\ Block(steps, slot[x]) \in live /\ before[x] = steps[slot[x]].heap
    BY <1>1, <1>2, <1>3 DEF SlotsKnown
  <2>. QED
    BY <1>2, <1>4, <1>5, <2>1
<1>9. \A s \in Slot \ {x} : slot[s] # None => slot[s] # slot[x]
  BY <1>3, <1>8 DEF SlotsKnown
<1>10. BlocksNamed(steps, here + 1, live)
  BY <1>1, <1>3 DEF BlocksNamed
<1>11. SlotsKnown(steps, after, here + 1, new, live)
  <2>. SUFFICES ASSUME NEW s \in Slot, new[s] # None
                PROVE  /\ new[s] < here + 1 /\ steps[new[s]].slot = s
                       /\ IF after[s] = "stale" THEN Block(steps, new[s]) \notin live
                          ELSE Block(steps, new[s]) \in live /\ after[s] = steps[new[s]].heap
    BY DEF SlotsKnown
  <2>1. s # x /\ new[s] = slot[s] /\ slot[s] # None
    BY <1>6
  <2>2. /\ slot[s] < here /\ steps[slot[s]].slot = s
        /\ IF before[s] = "stale" THEN Block(steps, slot[s]) \notin live
           ELSE Block(steps, slot[s]) \in live /\ before[s] = steps[slot[s]].heap
    BY <1>3, <2>1 DEF SlotsKnown
  <2>3. after[s] = before[s]
    <3>1. before[s] # "none"
      BY <2>1, EmptySlot
    <3>. QED
      BY <1>2, <2>1, <3>1 DEF SameElse
  <2>4. slot[s] < here + 1
    BY <1>1, <1>3, <2>2
  <2>. QED
    BY <2>1, <2>2, <2>3, <2>4
<1>12. HeldOrLost(new, live, more)
  <2>1. ASSUME NEW b \in more
        PROVE  b \in live /\ b[2] = "own" /\ \A s \in Slot : new[s] # b[1]
    <3>1. b \in live /\ b[1] # None
      BY <1>3 DEF HeldOrLost, BlocksNamed, None, more
    <3>2. b[2] = "own" /\ \A s \in Slot \ {x} : slot[s] # b[1]
      <4>1. CASE b \in lost
        BY <1>3, <4>1 DEF HeldOrLost
      <4>2. CASE b = held
        BY <1>5, <1>9, <3>1, <4>2
      <4>. QED
        BY <4>1, <4>2 DEF more
    <3>. QED
      BY <1>6, <3>1, <3>2
  <2>2. ASSUME NEW b \in live \ more PROVE \E s \in Slot : new[s] = b[1]
    <3>1. b \in live \ lost /\ b # held
      BY DEF more
    <3>2. PICK s \in Slot : slot[s] = b[1]
      BY <1>3, <3>1 DEF HeldOrLost
    <3>3. s # x
      BY <1>3, <1>8, <3>1, <3>2 DEF BlocksNamed, None
    <3>. QED
      BY <1>6, <3>2, <3>3
  <2>. QED
    BY <2>1, <2>2 DEF HeldOrLost
<1>13. HeapThere(new, live)
  <2>1. new[0] = slot[0]
    BY <1>1, <1>6, ZeroIsSlot
  <2>. QED
    BY <1>3, <2>1 DEF HeapThere
<1>14. here + 1 \in 1..Len(steps) + 1
  BY <1>1
<1>15. Owned(steps, after, here + 1, new, live, more)
  BY <1>6, <1>10, <1>11, <1>12, <1>13, <1>14 DEF Owned
<1>. QED
  BY <1>15 DEF new, more, x

LEMMA Joined ==
    ASSUME NEW S, NEW s \in Seq(S), NEW t \in Seq(S)
    PROVE  /\ s \o t \in Seq(S) /\ Len(s \o t) = Len(s) + Len(t)
           /\ \A p \in 1..Len(s) : (s \o t)[p] = s[p]
           /\ \A p \in 1..Len(t) : (s \o t)[Len(s) + p] = t[p]
OBVIOUS

LEMMA Pair ==
    ASSUME NEW S, NEW a \in S, NEW b \in S
    PROVE  <<a, b>> = <<a>> \o <<b>>
<1>. DEFINE s == <<a, b>>
            t == <<a>> \o <<b>>
<1>1. s \in Seq(S) /\ Len(s) = 2 /\ s[1] = a /\ s[2] = b
  OBVIOUS
<1>2. t \in Seq(S) /\ Len(t) = 2 /\ t[1] = a /\ t[2] = b
  OBVIOUS
<1>. HIDE DEF s, t
<1>3. \A i \in 1..2 : s[i] = t[i]
  BY <1>1, <1>2
<1>4. s = t
  BY <1>1, <1>2, <1>3, SeqEqual
<1>. QED
  BY <1>4 DEF s, t

LEMMA StepFields ==
    ASSUME NEW slot \in Slot, NEW heap \in Heap, NEW skip \in Nat
    PROVE  /\ Take(slot, heap, skip) \in AlStep /\ Give(slot, heap) \in AlStep
           /\ Realloc(slot, heap) \in AlStep
           /\ Take(slot, heap, skip).do = "take" /\ Take(slot, heap, skip).slot = slot
           /\ Take(slot, heap, skip).heap = heap /\ Take(slot, heap, skip).skip = skip
           /\ Give(slot, heap).do = "give" /\ Give(slot, heap).slot = slot
           /\ Give(slot, heap).heap = heap /\ Give(slot, heap).skip = 0
           /\ Realloc(slot, heap).do = "realloc" /\ Realloc(slot, heap).slot = slot
           /\ Realloc(slot, heap).heap = heap /\ Realloc(slot, heap).skip = 0
BY DEF Take, Give, Realloc, AlStep

\* A step that leaves out all that follows it when nothing is had.
LEMMA LeadsUnless ==
    ASSUME NEW t \in Seq(AlStep), NEW slot \in Slot, NEW heap \in Heap,
           NEW P \in Plan, NEW Q \in Plan, NEW R \in Plan,
           P[slot] = "none", Q[slot] = heap, SameElse(P, Q, slot), SameElse(P, R, slot), Leads(t, Q, R)
    PROVE  /\ <<Take(slot, heap, Len(t))>> \o t \in Seq(AlStep)
           /\ Len(<<Take(slot, heap, Len(t))>> \o t) = Len(t) + 1
           /\ Leads(<<Take(slot, heap, Len(t))>> \o t, P, R)
<1>. DEFINE n == Len(t)
            a == Take(slot, heap, n)
            u == <<a>> \o t
<1>1. n \in Nat /\ a \in AlStep /\ a.do = "take" /\ a.slot = slot /\ a.heap = heap /\ a.skip = n
  <2>1. n \in Nat
    OBVIOUS
  <2>. HIDE DEF n
  <2>. QED
    BY <2>1, StepFields
<1>2. PICK e \in Plans(t) : e[1] = Q /\ e[n + 1] = R /\ Along(t, e)
  BY DEF Leads
<1>. DEFINE c == [p \in 1..n + 2 |-> IF p = 1 THEN P ELSE e[p - 1]]
<1>. HIDE DEF a
<1>3. /\ u \in Seq(AlStep) /\ Len(u) = n + 1 /\ u[1] = a
      /\ \A p \in 1..n : u[p + 1] = t[p]
  BY <1>1
<1>. HIDE DEF u, n
<1>4. c \in [1..n + 2 -> Plan] /\ c[1] = P /\ \A p \in 1..n + 1 : c[p + 1] = e[p]
  BY <1>1, <1>2 DEF Plans, n
<1>. HIDE DEF c
<1>5. c \in Plans(u)
  BY <1>1, <1>3, <1>4 DEF Plans
<1>6. c[2] = Q /\ c[n + 2] = R
  <2>1. c[1 + 1] = e[1] /\ c[(n + 1) + 1] = e[n + 1]
    BY <1>1, <1>4
  <2>. QED
    BY <1>1, <1>2, <2>1
<1>7. StepFits(a, P, Q, R)
  BY <1>1 DEF StepFits
<1>8. Along(u, c)
  <2>. SUFFICES ASSUME NEW p \in 1..n + 1
                PROVE  p + u[p].skip =< n + 1 /\ StepFits(u[p], c[p], c[p + 1], c[p + u[p].skip + 1])
    BY <1>3 DEF Along
  <2>1. CASE p = 1
    <3>1. u[p] = a /\ c[p] = P /\ c[p + 1] = Q /\ c[p + u[p].skip + 1] = R
      <4>1. p + 1 = 2 /\ p + n + 1 = n + 2
        BY <1>1, <2>1
      <4>. QED
        BY <1>1, <1>3, <1>4, <1>6, <2>1, <4>1
    <3>. QED
      BY <1>1, <1>7, <2>1, <3>1
  <2>2. CASE p # 1
    <3>1. PICK q \in 1..n : p = q + 1
      <4>1. p - 1 \in 1..n /\ p = (p - 1) + 1
        BY <1>1, <2>2
      <4>. QED
        BY <4>1
    <3>2. u[p] = t[q] /\ t[q].skip \in Nat
      BY <1>3, <3>1, AlStepTyped DEF n
    <3>3. q + t[q].skip =< n /\ StepFits(t[q], e[q], e[q + 1], e[q + t[q].skip + 1])
      BY <1>2, <3>1 DEF Along, n
    <3>4. c[q + 1] = e[q] /\ c[(q + 1) + 1] = e[q + 1]
      BY <1>1, <1>4, <3>1
    <3>5. c[(q + t[q].skip + 1) + 1] = e[q + t[q].skip + 1]
      <4>1. q + t[q].skip + 1 \in 1..n + 1
        BY <1>1, <3>1, <3>2, <3>3
      <4>. QED
        BY <1>4, <4>1
    <3>6. (q + t[q].skip + 1) + 1 = p + u[p].skip + 1 /\ p + u[p].skip =< n + 1
      <4>. DEFINE k == t[q].skip
      <4>1. k \in Nat /\ q + k =< n /\ u[p].skip = k
        BY <3>2, <3>3
      <4>. HIDE DEF k
      <4>2. (q + k + 1) + 1 = p + k + 1 /\ p + k =< n + 1
        BY <1>1, <3>1, <4>1
      <4>. QED
        BY <4>1, <4>2 DEF k
    <3>. QED
      BY <3>1, <3>2, <3>3, <3>4, <3>5, <3>6
  <2>. QED
    BY <2>1, <2>2
<1>9. Leads(u, P, R)
  <2>1. Len(u) + 1 = n + 2
    BY <1>1, <1>3
  <2>. QED
    BY <1>4, <1>5, <1>6, <1>8, <2>1 DEF Leads
<1>. QED
  BY <1>3, <1>9 DEF u, a, n

\* One step that leaves nothing out.
LEMMA LeadsOne ==
    ASSUME NEW a \in AlStep, a.skip = 0, NEW P \in Plan, NEW Q \in Plan, StepFits(a, P, Q, Q)
    PROVE  <<a>> \in Seq(AlStep) /\ Len(<<a>>) = 1 /\ Leads(<<a>>, P, Q)
<1>. DEFINE s == <<a>>
            e == [p \in 1..2 |-> IF p = 1 THEN P ELSE Q]
<1>1. s \in Seq(AlStep) /\ Len(s) = 1 /\ s[1] = a
  OBVIOUS
<1>2. e \in [1..2 -> Plan] /\ e[1] = P /\ e[2] = Q
  OBVIOUS
<1>. HIDE DEF s, e
<1>3. Along(s, e)
  <2>. SUFFICES ASSUME NEW p \in 1..1
                PROVE  p + s[p].skip =< 1 /\ StepFits(s[p], e[p], e[p + 1], e[p + s[p].skip + 1])
    BY <1>1 DEF Along
  <2>1. p = 1 /\ p + 1 = 2 /\ p + 0 + 1 = 2
    OBVIOUS
  <2>. QED
    BY <1>1, <1>2, <2>1
<1>4. Leads(s, P, Q)
  BY <1>1, <1>2, <1>3 DEF Leads, Plans
<1>. QED
  BY <1>1, <1>4 DEF s

LEMMA LeadsGive ==
    ASSUME NEW slot \in Slot, NEW heap \in Heap, NEW P \in Plan, NEW Q \in Plan,
           P[slot] \in {heap, "none"},
           \A s \in Slot \ {slot} : P[s] # "none" =>
              Q[s] = IF slot = 0 /\ P[s] = "own" THEN "stale" ELSE P[s]
    PROVE  /\ <<Give(slot, heap)>> \in Seq(AlStep) /\ Len(<<Give(slot, heap)>>) = 1
           /\ Leads(<<Give(slot, heap)>>, P, Q)
<1>1. 0 \in Nat
  OBVIOUS
<1>2. StepFits(Give(slot, heap), P, Q, Q)
  BY <1>1, StepFields DEF StepFits
<1>. QED
  BY <1>1, <1>2, StepFields, LeadsOne

-----------------------------------------------------------------------------
(* The plans of the programs. *)

Nothing == [s \in Slot |-> "none"]
Kept == [s \in Slot |-> IF s = 0 THEN "root" ELSE "none"]

LEMMA PlansTyped ==
    Nothing \in Plan /\ Kept \in Plan
BY DEF Nothing, Kept, Plan, Heap

LEMMA RoundLeads ==
    ASSUME NEW heap \in Heap
    PROVE  Round(heap, AlRows) \in Seq(AlStep) /\ Leads(Round(heap, AlRows), Nothing, Nothing)
<1>. DEFINE n == AlRows
            a == [i \in 1..n |-> Take(i, heap, 0)]
            b == [i \in 1..n |-> Give(i, heap)]
            u == Round(heap, n)
            e == [p \in 1..2 * n + 1 |->
                    [s \in Slot |-> IF s \in 1..n /\ s < p /\ p =< n + s THEN heap ELSE "none"]]
<1>1. n \in Nat /\ 1..n \subseteq Slot
  BY AllocatorsAssumption DEF AllocatorsAssumption, Slot
<1>2. \A i \in 1..n : /\ Take(i, heap, 0) \in AlStep /\ Take(i, heap, 0).do = "take"
                      /\ Take(i, heap, 0).slot = i /\ Take(i, heap, 0).heap = heap
                      /\ Take(i, heap, 0).skip = 0
                      /\ Give(i, heap) \in AlStep /\ Give(i, heap).do = "give"
                      /\ Give(i, heap).slot = i /\ Give(i, heap).heap = heap
                      /\ Give(i, heap).skip = 0
  BY <1>1, StepFields
<1>3. u = a \o b
  BY DEF Round, Each
<1>. HIDE DEF n, u
<1>4. a \in Seq(AlStep) /\ Len(a) = n /\ b \in Seq(AlStep) /\ Len(b) = n
  BY <1>1, <1>2
<1>5. /\ \A i \in 1..n : a[i] = Take(i, heap, 0)
      /\ \A i \in 1..n : b[i] = Give(i, heap)
  OBVIOUS
<1>. HIDE DEF a, b
<1>6. /\ u \in Seq(AlStep) /\ Len(u) = 2 * n
      /\ \A i \in 1..n : u[i] = Take(i, heap, 0) /\ u[n + i] = Give(i, heap)
  <2>1. /\ a \o b \in Seq(AlStep) /\ Len(a \o b) = Len(a) + Len(b)
        /\ \A i \in 1..Len(a) : (a \o b)[i] = a[i]
        /\ \A i \in 1..Len(b) : (a \o b)[Len(a) + i] = b[i]
    BY <1>4, Joined
  <2>. QED
    BY <1>1, <1>3, <1>4, <1>5, <2>1
<1>7. e \in [1..2 * n + 1 -> Plan]
  BY <1>1 DEF Plan
<1>8. \A p \in 1..2 * n + 1 : \A s \in Slot :
         e[p][s] = IF s \in 1..n /\ s < p /\ p =< n + s THEN heap ELSE "none"
  OBVIOUS
<1>. HIDE DEF e
<1>9. e[1] = Nothing /\ e[2 * n + 1] = Nothing
  <2>1. \A s \in Slot : e[1][s] = "none" /\ e[2 * n + 1][s] = "none"
    <3>1. 1 \in 1..2 * n + 1 /\ 2 * n + 1 \in 1..2 * n + 1
      BY <1>1
    <3>2. \A s \in 1..n : ~(s < 1) /\ ~(2 * n + 1 =< n + s)
      BY <1>1
    <3>. QED
      BY <1>8, <3>1, <3>2
  <2>2. e[1] \in Plan /\ e[2 * n + 1] \in Plan
    BY <1>1, <1>7
  <2>. QED
    BY <2>1, <2>2 DEF Nothing, Plan
<1>10. ASSUME NEW p \in 1..2 * n
       PROVE  u[p].skip = 0 /\ StepFits(u[p], e[p], e[p + 1], e[p + 1])
  <2>1. CASE p =< n
    <3>1. p \in 1..n /\ p \in Slot /\ p + 1 \in 1..2 * n + 1 /\ p \in 1..2 * n + 1
      BY <1>1, <2>1
    <3>2. e[p][p] = "none" /\ e[p + 1][p] = heap
      BY <1>1, <1>8, <3>1
    <3>3. \A s \in Slot \ {p} : e[p][s] # "none" => e[p + 1][s] = e[p][s]
      <4>. SUFFICES ASSUME NEW s \in Slot \ {p}, e[p][s] # "none" PROVE e[p + 1][s] = e[p][s]
        OBVIOUS
      <4>1. s \in 1..n /\ s < p /\ e[p][s] = heap
        BY <1>8, <3>1
      <4>2. s < p + 1 /\ p + 1 =< n + s
        BY <1>1, <3>1, <4>1
      <4>. QED
        BY <1>8, <3>1, <4>1, <4>2
    <3>. QED
      BY <1>2, <1>6, <3>1, <3>2, <3>3 DEF StepFits, SameElse
  <2>2. CASE p > n
    <3>1. PICK i \in 1..n : p = n + i
      <4>1. p - n \in 1..n /\ p = n + (p - n)
        BY <1>1, <2>2
      <4>. QED
        BY <4>1
    <3>2. i \in Slot /\ p + 1 \in 1..2 * n + 1 /\ p \in 1..2 * n + 1 /\ i # 0
      BY <1>1, <3>1
    <3>3. e[p][i] \in {heap, "none"}
      BY <1>8, <3>2
    <3>4. \A s \in Slot \ {i} : e[p][s] # "none" => e[p + 1][s] = e[p][s]
      <4>. SUFFICES ASSUME NEW s \in Slot \ {i}, e[p][s] # "none" PROVE e[p + 1][s] = e[p][s]
        OBVIOUS
      <4>1. s \in 1..n /\ s < p /\ p =< n + s /\ e[p][s] = heap
        BY <1>8, <3>2
      <4>2. s < p + 1 /\ p + 1 =< n + s
        BY <1>1, <3>1, <4>1
      <4>. QED
        BY <1>8, <3>2, <4>1, <4>2
    <3>. QED
      BY <1>2, <1>6, <3>1, <3>2, <3>3, <3>4 DEF StepFits
  <2>. QED
    BY <1>1, <2>1, <2>2
<1>11. Along(u, e)
  <2>. SUFFICES ASSUME NEW p \in 1..Len(u)
                PROVE  p + u[p].skip =< Len(u) /\ StepFits(u[p], e[p], e[p + 1], e[p + u[p].skip + 1])
    BY DEF Along
  <2>1. p \in 1..2 * n /\ p + 0 + 1 = p + 1 /\ p + 0 =< Len(u)
    BY <1>1, <1>6
  <2>. QED
    BY <1>10, <2>1
<1>12. Leads(u, Nothing, Nothing)
  BY <1>6, <1>7, <1>9, <1>11 DEF Leads, Plans
<1>. QED
  BY <1>6, <1>12 DEF u, n

\* Every slot of the list holds a block of the plugin's own heap.
Full == [s \in Slot |-> IF s = 0 THEN "root" ELSE IF s =< AlSizes THEN "own" ELSE "none"]

LEMMA SmallSlots == 0 \in Slot /\ 1 \in Slot /\ 2 \in Slot /\ 3 \in Slot
BY AllocatorsAssumption DEF Slot, AllocatorsAssumption

LEMMA ListOf ==
    ASSUME NEW S, NEW n \in Nat, NEW f, f = [k \in 1..n |-> f[k]], \A k \in 1..n : f[k] \in S
    PROVE  f \in Seq(S) /\ Len(f) = n
OBVIOUS

LEMMA SizesLead == EachSize \in Seq(AlStep) /\ Leads(EachSize, Kept, Full)
<1>. DEFINE n == AlSizes
            u == EachSize
            e == [p \in 1..4 * n + 1 |->
                    [s \in Slot |-> IF s = 0 THEN "root"
                                    ELSE IF s =< n /\ p > 4 * s - 3 /\ p # 4 * s THEN "own"
                                    ELSE "none"]]
<1>1. n \in Nat /\ 1..n \subseteq Slot /\ Slot \subseteq Nat
  BY AllocatorsAssumption DEF AllocatorsAssumption, Slot
<1>2. \A i \in 1..n : /\ PafSize(i)[1] = Take(i, "own", 0) /\ PafSize(i)[2] = Realloc(i, "own")
                      /\ PafSize(i)[3] = Give(i, "own") /\ PafSize(i)[4] = Take(i, "own", 0)
  BY DEF PafSize
<1>3. u = [k \in 1..4 * n |-> PafSize(((k - 1) \div 4) + 1)[((k - 1) % 4) + 1]]
  BY DEF EachSize
<1>. HIDE DEF n, u, e
<1>4. ASSUME NEW k \in 1..4 * n
      PROVE  \E i \in 1..n : \/ k = 4 * i - 3 /\ u[k] = Take(i, "own", 0)
                             \/ k = 4 * i - 2 /\ u[k] = Realloc(i, "own")
                             \/ k = 4 * i - 1 /\ u[k] = Give(i, "own")
                             \/ k = 4 * i /\ u[k] = Take(i, "own", 0)
  <2>. DEFINE i == ((k - 1) \div 4) + 1
              r == (k - 1) % 4
  <2>1. u[k] = PafSize(i)[r + 1]
    BY <1>3
  <2>2. i \in 1..n /\ r \in 0..3 /\ k = 4 * i - 3 + r
    BY <1>1
  <2>. HIDE DEF i, r
  <2>3. CASE r = 0
    <3>1. k = 4 * i - 3 /\ u[k] = Take(i, "own", 0)
      BY <1>2, <2>1, <2>2, <2>3
    <3>. QED
      BY <2>2, <3>1
  <2>4. CASE r = 1
    <3>1. k = 4 * i - 2 /\ u[k] = Realloc(i, "own")
      BY <1>2, <2>1, <2>2, <2>4
    <3>. QED
      BY <2>2, <3>1
  <2>5. CASE r = 2
    <3>1. k = 4 * i - 1 /\ u[k] = Give(i, "own")
      BY <1>2, <2>1, <2>2, <2>5
    <3>. QED
      BY <2>2, <3>1
  <2>6. CASE r = 3
    <3>1. k = 4 * i /\ u[k] = Take(i, "own", 0)
      BY <1>2, <2>1, <2>2, <2>6
    <3>. QED
      BY <2>2, <3>1
  <2>. QED
    BY <2>2, <2>3, <2>4, <2>5, <2>6
<1>5. \A i \in 1..n : /\ Take(i, "own", 0) \in AlStep /\ Take(i, "own", 0).do = "take"
                      /\ Take(i, "own", 0).slot = i /\ Take(i, "own", 0).heap = "own"
                      /\ Take(i, "own", 0).skip = 0
                      /\ Realloc(i, "own") \in AlStep /\ Realloc(i, "own").do = "realloc"
                      /\ Realloc(i, "own").slot = i /\ Realloc(i, "own").heap = "own"
                      /\ Realloc(i, "own").skip = 0
                      /\ Give(i, "own") \in AlStep /\ Give(i, "own").do = "give"
                      /\ Give(i, "own").slot = i /\ Give(i, "own").heap = "own"
                      /\ Give(i, "own").skip = 0
  <2>1. "own" \in Heap
    BY DEF Heap
  <2>. QED
    BY <1>1, <2>1, StepFields
<1>6. u \in Seq(AlStep) /\ Len(u) = 4 * n
  <2>1. \A k \in 1..4 * n : u[k] \in AlStep
    BY <1>4, <1>5
  <2>2. 4 * n \in Nat
    BY <1>1
  <2>3. u = [k \in 1..4 * n |-> u[k]]
    BY <1>3
  <2>. QED
    BY <2>1, <2>2, <2>3, ListOf
<1>7. e \in [1..4 * n + 1 -> Plan]
  <2>1. \A p \in 1..4 * n + 1 : e[p] \in Plan
    BY DEF e, Plan, Heap
  <2>. QED
    BY <2>1 DEF e
<1>8. \A p \in 1..4 * n + 1 : \A s \in Slot :
         e[p][s] = IF s = 0 THEN "root"
                   ELSE IF s =< n /\ p > 4 * s - 3 /\ p # 4 * s THEN "own" ELSE "none"
  BY DEF e
<1>9. e[1] = Kept /\ e[4 * n + 1] = Full
  <2>1. e[1] \in Plan /\ e[4 * n + 1] \in Plan /\ 1 \in 1..4 * n + 1 /\ 4 * n + 1 \in 1..4 * n + 1
    BY <1>1, <1>7
  <2>2. \A s \in Slot : e[1][s] = IF s = 0 THEN "root" ELSE "none"
    BY <1>1, <1>8, <2>1
  <2>3. \A s \in Slot : e[4 * n + 1][s] = IF s = 0 THEN "root" ELSE IF s =< n THEN "own" ELSE "none"
    <3>1. \A s \in Slot : s =< n => 4 * n + 1 > 4 * s - 3 /\ 4 * n + 1 # 4 * s
      BY <1>1
    <3>. QED
      BY <1>8, <2>1, <3>1
  <2>. QED
    BY <2>1, <2>2, <2>3 DEF Kept, Full, Plan, n
<1>10. ASSUME NEW k \in 1..4 * n
       PROVE  u[k].skip = 0 /\ StepFits(u[k], e[k], e[k + 1], e[k + 1])
  <2>1. PICK i \in 1..n : \/ k = 4 * i - 3 /\ u[k] = Take(i, "own", 0)
                          \/ k = 4 * i - 2 /\ u[k] = Realloc(i, "own")
                          \/ k = 4 * i - 1 /\ u[k] = Give(i, "own")
                          \/ k = 4 * i /\ u[k] = Take(i, "own", 0)
    BY <1>4
  <2>2. i \in Slot /\ i # 0 /\ k \in 1..4 * n + 1 /\ k + 1 \in 1..4 * n + 1 /\ 0 \in Slot
    BY <1>1, ZeroIsSlot
  <2>3. \A s \in Slot \ {i} : e[k][s] # "none" => e[k + 1][s] = e[k][s]
    <3>. SUFFICES ASSUME NEW s \in Slot \ {i}, e[k][s] # "none" PROVE e[k + 1][s] = e[k][s]
      OBVIOUS
    <3>1. CASE s = 0
      BY <1>8, <2>2, <3>1
    <3>2. CASE s # 0
      <4>1. s \in Nat /\ s =< n /\ k > 4 * s - 3 /\ k # 4 * s /\ e[k][s] = "own"
        BY <1>1, <1>8, <2>2, <3>2
      <4>2. k + 1 > 4 * s - 3 /\ k + 1 # 4 * s
        BY <1>1, <2>1, <4>1
      <4>. QED
        BY <1>8, <2>2, <3>2, <4>1, <4>2
    <3>. QED
      BY <3>1, <3>2
  <2>4. CASE k = 4 * i - 3 /\ u[k] = Take(i, "own", 0)
    <3>1. e[k][i] = "none" /\ e[k + 1][i] = "own"
      <4>1. ~(k > 4 * i - 3) /\ k + 1 > 4 * i - 3 /\ k + 1 # 4 * i /\ i =< n
        BY <1>1, <2>4
      <4>. QED
        BY <1>8, <2>2, <4>1
    <3>. QED
      BY <1>5, <2>3, <2>4, <3>1 DEF StepFits, SameElse
  <2>5. CASE k = 4 * i - 2 /\ u[k] = Realloc(i, "own")
    <3>1. e[k][i] = "own" /\ e[k + 1][i] = "own"
      BY <1>1, <1>8, <2>2, <2>5
    <3>. QED
      BY <1>5, <2>2, <2>3, <2>5, <3>1 DEF StepFits, SameElse
  <2>6. CASE k = 4 * i - 1 /\ u[k] = Give(i, "own")
    <3>1. e[k][i] = "own"
      BY <1>1, <1>8, <2>2, <2>6
    <3>. QED
      <4>. DEFINE P == e[k]
                  Q == e[k + 1]
                  g == u[k]
      <4>1. P[i] = "own" /\ \A s \in Slot \ {i} : P[s] # "none" => Q[s] = P[s]
        BY <2>3, <3>1
      <4>2. g.do = "give" /\ g.slot = i /\ g.heap = "own" /\ g.skip = 0
        BY <1>5, <2>6
      <4>. HIDE DEF P, Q, g
      <4>3. StepFits(g, P, Q, Q)
        BY <2>2, <4>1, <4>2 DEF StepFits
      <4>. QED
        BY <4>2, <4>3 DEF P, Q, g
  <2>7. CASE k = 4 * i /\ u[k] = Take(i, "own", 0)
    <3>1. e[k][i] = "none" /\ e[k + 1][i] = "own"
      <4>1. ~(k # 4 * i) /\ k + 1 > 4 * i - 3 /\ k + 1 # 4 * i /\ i =< n
        BY <1>1, <2>7
      <4>. QED
        BY <1>8, <2>2, <4>1
    <3>. QED
      BY <1>5, <2>3, <2>7, <3>1 DEF StepFits, SameElse
  <2>. QED
    BY <2>1, <2>4, <2>5, <2>6, <2>7
<1>11. Along(u, e)
  <2>. SUFFICES ASSUME NEW p \in 1..Len(u)
                PROVE  p + u[p].skip =< Len(u) /\ StepFits(u[p], e[p], e[p + 1], e[p + u[p].skip + 1])
    BY DEF Along
  <2>1. p \in 1..4 * n /\ Len(u) = 4 * n
    BY <1>6
  <2>2. p + 0 + 1 = p + 1 /\ p + 0 =< 4 * n
    BY <1>1, <2>1
  <2>. QED
    BY <1>10, <2>1, <2>2
<1>. QED
  BY <1>6, <1>7, <1>9, <1>11 DEF Leads, Plans, u

LEMMA GivesLead ==
    /\ [i \in 1..AlSizes |-> Give(i, "own")] \in Seq(AlStep)
    /\ Leads([i \in 1..AlSizes |-> Give(i, "own")], Full, Kept)
<1>. DEFINE n == AlSizes
            u == [i \in 1..AlSizes |-> Give(i, "own")]
            e == [p \in 1..n + 1 |->
                    [s \in Slot |-> IF s = 0 THEN "root"
                                    ELSE IF s =< n /\ p =< s THEN "own" ELSE "none"]]
<1>1. n \in Nat /\ 1..n \subseteq Slot /\ Slot \subseteq Nat
  BY AllocatorsAssumption DEF AllocatorsAssumption, Slot
<1>2. \A i \in 1..n : /\ Give(i, "own") \in AlStep /\ Give(i, "own").do = "give"
                      /\ Give(i, "own").slot = i /\ Give(i, "own").heap = "own"
                      /\ Give(i, "own").skip = 0
  <2>1. "own" \in Heap /\ 0 \in Nat
    BY DEF Heap
  <2>. QED
    BY <1>1, <2>1, StepFields
<1>3. u \in Seq(AlStep) /\ Len(u) = n /\ \A i \in 1..n : u[i] = Give(i, "own")
  BY <1>1, <1>2
<1>. HIDE DEF n, u
<1>7. e \in [1..n + 1 -> Plan]
  <2>1. \A p \in 1..n + 1 : e[p] \in Plan
    BY DEF Plan, Heap
  <2>. QED
    BY <2>1
<1>8. \A p \in 1..n + 1 : \A s \in Slot :
         e[p][s] = IF s = 0 THEN "root" ELSE IF s =< n /\ p =< s THEN "own" ELSE "none"
  OBVIOUS
<1>. HIDE DEF e
<1>9. e[1] = Full /\ e[n + 1] = Kept
  <2>1. e[1] \in Plan /\ e[n + 1] \in Plan /\ 1 \in 1..n + 1 /\ n + 1 \in 1..n + 1
    BY <1>1, <1>7
  <2>2. \A s \in Slot : e[1][s] = IF s = 0 THEN "root" ELSE IF s =< n THEN "own" ELSE "none"
    BY <1>1, <1>8, <2>1
  <2>3. \A s \in Slot : e[n + 1][s] = IF s = 0 THEN "root" ELSE "none"
    BY <1>1, <1>8, <2>1
  <2>. QED
    BY <2>1, <2>2, <2>3 DEF Kept, Full, Plan, n
<1>10. ASSUME NEW i \in 1..n
       PROVE  StepFits(u[i], e[i], e[i + 1], e[i + 1])
  <2>1. i \in Slot /\ i # 0 /\ i \in 1..n + 1 /\ i + 1 \in 1..n + 1
    BY <1>1
  <2>2. e[i][i] = "own"
    BY <1>1, <1>8, <2>1
  <2>3. \A s \in Slot \ {i} : e[i][s] # "none" => e[i + 1][s] = e[i][s]
    <3>. SUFFICES ASSUME NEW s \in Slot \ {i}, e[i][s] # "none" PROVE e[i + 1][s] = e[i][s]
      OBVIOUS
    <3>1. CASE s = 0
      BY <1>8, <2>1, <3>1
    <3>2. CASE s # 0
      <4>1. s =< n /\ i =< s /\ e[i][s] = "own"
        BY <1>8, <2>1, <3>2
      <4>2. i + 1 =< s
        <5>1. i \in Nat /\ s \in Nat /\ i # s
          BY <1>1
        <5>. QED
          BY <4>1, <5>1
      <4>. QED
        BY <1>8, <2>1, <3>2, <4>1, <4>2
    <3>. QED
      BY <3>1, <3>2
  <2>. QED
    BY <1>2, <1>3, <2>1, <2>2, <2>3 DEF StepFits
<1>11. Along(u, e)
  <2>. SUFFICES ASSUME NEW p \in 1..Len(u)
                PROVE  p + u[p].skip =< Len(u) /\ StepFits(u[p], e[p], e[p + 1], e[p + u[p].skip + 1])
    BY DEF Along
  <2>1. p \in 1..n /\ Len(u) = n /\ u[p].skip = 0
    BY <1>2, <1>3
  <2>2. p + 0 + 1 = p + 1 /\ p + 0 =< n
    BY <1>1, <2>1
  <2>. QED
    BY <1>10, <2>1, <2>2
<1>. QED
  BY <1>3, <1>7, <1>9, <1>11 DEF Leads, Plans, u

LEMMA HeapNames == {"root", "own", "sysmem", "kernel", "netps", "paf"} = Heap
BY DEF Heap

LEMMA TwiceLeads ==
    ASSUME NEW heap \in Heap
    PROVE  /\ Repeat(2, Round(heap, AlRows)) \in Seq(AlStep)
           /\ Leads(Repeat(2, Round(heap, AlRows)), Nothing, Nothing)
<1>1. Round(heap, AlRows) \in Seq(AlStep) /\ Leads(Round(heap, AlRows), Nothing, Nothing)
  BY RoundLeads
<1>2. 2 \in Nat
  OBVIOUS
<1>. QED
  BY <1>1, <1>2, RepeatSteps, LeadsAgain, PlansTyped

LEMMA KernelLeads == KernelTest \in Seq(AlStep) /\ Leads(KernelTest, Nothing, Nothing)
<1>. DEFINE a == alloc_free_test_system_internal
            b == alloc_free_test_system_external
            c == alloc_free_test_netps
<1>1. /\ a \in Seq(AlStep) /\ Leads(a, Nothing, Nothing)
      /\ b \in Seq(AlStep) /\ Leads(b, Nothing, Nothing)
      /\ c \in Seq(AlStep) /\ Leads(c, Nothing, Nothing)
  BY HeapNames, TwiceLeads DEF alloc_free_test_system_internal,
     alloc_free_test_system_external, alloc_free_test_netps, KernelTable
<1>2. KernelTest = (a \o b) \o c
  BY DEF KernelTest
<1>. HIDE DEF a, b, c
<1>3. a \o b \in Seq(AlStep) /\ Leads(a \o b, Nothing, Nothing)
  BY <1>1, Joined, LeadsOn
<1>4. (a \o b) \o c \in Seq(AlStep) /\ Leads((a \o b) \o c, Nothing, Nothing)
  BY <1>1, <1>3, Joined, LeadsOn
<1>. QED
  BY <1>2, <1>4

LEMMA UserLeads ==
    alloc_free_test_paf \in Seq(AlStep) /\ Leads(alloc_free_test_paf, Nothing, Nothing)
BY HeapNames, TwiceLeads DEF alloc_free_test_paf, UserTable

\* A step of which nothing depends that is left out.
LEMMA LeadsTake ==
    ASSUME NEW slot \in Slot, NEW heap \in Heap, NEW P \in Plan, NEW Q \in Plan,
           P[slot] = "none", Q[slot] = heap, SameElse(P, Q, slot)
    PROVE  <<Take(slot, heap, 0)>> \in Seq(AlStep) /\ Leads(<<Take(slot, heap, 0)>>, P, Q)
<1>1. 0 \in Nat
  OBVIOUS
<1>2. StepFits(Take(slot, heap, 0), P, Q, Q)
  BY <1>1, StepFields DEF StepFits
<1>. QED
  BY <1>1, <1>2, StepFields, LeadsOne

LEMMA KeptGiven ==
    /\ SameElse(Nothing, Kept, 0) /\ Kept[0] = "root" /\ Nothing[0] = "none"
    /\ \A s \in Slot \ {0} : Kept[s] = "none"
    /\ \A s \in Slot : Nothing[s] = "none"
BY SmallSlots DEF SameElse, Nothing, Kept

LEMMA PafLeads == PafCustomMalloc \in Seq(AlStep) /\ Leads(PafCustomMalloc, Nothing, Nothing)
<1>. DEFINE a == <<Take(0, "root", 0)>>
            b == EachSize
            c == Each(AlSizes, LAMBDA i : Give(i, "own"))
            d == <<Give(0, "root")>>
<1>1. a \in Seq(AlStep) /\ Leads(a, Nothing, Kept)
  BY HeapNames, SmallSlots, KeptGiven, PlansTyped, LeadsTake
<1>2. d \in Seq(AlStep) /\ Leads(d, Kept, Nothing)
  BY HeapNames, SmallSlots, KeptGiven, PlansTyped, LeadsGive
<1>3. c = [i \in 1..AlSizes |-> Give(i, "own")]
  BY DEF Each
<1>4. b \in Seq(AlStep) /\ Leads(b, Kept, Full) /\ c \in Seq(AlStep) /\ Leads(c, Full, Kept)
  BY <1>3, SizesLead, GivesLead
<1>5. PafCustomMalloc = ((a \o b) \o c) \o d
  BY DEF PafCustomMalloc
<1>. HIDE DEF a, b, c, d
<1>6. a \o b \in Seq(AlStep) /\ Leads(a \o b, Nothing, Full)
  BY <1>1, <1>4, Joined, LeadsOn
<1>7. (a \o b) \o c \in Seq(AlStep) /\ Leads((a \o b) \o c, Nothing, Kept)
  BY <1>4, <1>6, Joined, LeadsOn
<1>8. /\ ((a \o b) \o c) \o d \in Seq(AlStep)
      /\ Leads(((a \o b) \o c) \o d, Nothing, Nothing)
  BY <1>2, <1>7, Joined, LeadsOn
<1>. QED
  BY <1>5, <1>8

\* A block is had and given back, and both are left out together.
LEMMA PairLeads ==
    ASSUME NEW slot \in Slot \ {0}, NEW heap \in Heap, NEW P \in Plan, P[slot] = "none"
    PROVE  /\ <<Take(slot, heap, 1), Give(slot, heap)>> \in Seq(AlStep)
           /\ Leads(<<Take(slot, heap, 1), Give(slot, heap)>>, P, P)
           /\ Len(<<Take(slot, heap, 1), Give(slot, heap)>>) = 2
           /\ <<Take(slot, heap, 1), Give(slot, heap)>>[1] = Take(slot, heap, 1)
           /\ <<Take(slot, heap, 1), Give(slot, heap)>>[2] = Give(slot, heap)
<1>. DEFINE Q == [P EXCEPT ![slot] = heap]
            t == <<Give(slot, heap)>>
            u == <<Take(slot, heap, Len(t))>> \o t
<1>1. /\ Q \in Plan /\ Q[slot] = heap /\ SameElse(P, Q, slot) /\ SameElse(P, P, slot)
      /\ \A s \in Slot \ {slot} : Q[s] = P[s]
  BY DEF Plan, SameElse
<1>. HIDE DEF Q
<1>2. t \in Seq(AlStep) /\ Len(t) = 1 /\ Leads(t, Q, P)
  BY <1>1, LeadsGive
<1>3. u \in Seq(AlStep) /\ Leads(u, P, P)
  <2>. HIDE DEF t
  <2>. QED
    BY <1>1, <1>2, LeadsUnless
<1>4. Take(slot, heap, 1) \in AlStep /\ Give(slot, heap) \in AlStep
  <2>1. 1 \in Nat
    OBVIOUS
  <2>. QED
    BY <2>1, StepFields
<1>5. u = <<Take(slot, heap, 1), Give(slot, heap)>>
  BY <1>2, <1>4, Pair
<1>. QED
  BY <1>3, <1>5

LEMMA CustomLeads ==
    /\ KernelCustomMalloc \in Seq(AlStep) /\ Leads(KernelCustomMalloc, Nothing, Kept)
    /\ \A p \in 1..Len(KernelCustomMalloc) : KernelCustomMalloc[p].do # "realloc"
<1>. DEFINE n == AlAligns
            t == Repeat(n, malloc_test)
<1>1. n \in Nat
  BY AllocatorsAssumption DEF AllocatorsAssumption
<1>2. /\ malloc_test \in Seq(AlStep) /\ Leads(malloc_test, Kept, Kept) /\ Len(malloc_test) = 2
      /\ malloc_test[1] = Take(1, "own", 1) /\ malloc_test[2] = Give(1, "own")
  BY HeapNames, SmallSlots, KeptGiven, PlansTyped, PairLeads DEF malloc_test
<1>3. t \in Seq(AlStep) /\ Len(t) = n * Len(malloc_test) /\ Leads(t, Kept, Kept)
  BY <1>1, <1>2, PlansTyped, RepeatSteps, LeadsAgain
<1>4. Len(t) = 2 * n
  BY <1>1, <1>2, <1>3
<1>5. \A k \in 1..Len(t) : t[k].do # "realloc"
  <2>. SUFFICES ASSUME NEW k \in 1..Len(t) PROVE t[k].do # "realloc"
    OBVIOUS
  <2>1. /\ ((k - 1) % Len(malloc_test)) + 1 \in 1..Len(malloc_test)
        /\ t[k] = malloc_test[((k - 1) % Len(malloc_test)) + 1]
    BY <1>1, <1>2, <1>3, RepeatSteps
  <2>2. PICK j \in 1..2 : t[k] = malloc_test[j]
    BY <1>2, <2>1
  <2>3. CASE j = 1
    BY <1>2, <2>2, <2>3 DEF Take
  <2>4. CASE j = 2
    BY <1>2, <2>2, <2>4 DEF Give
  <2>. QED
    BY <2>3, <2>4
<1>6. KernelCustomMalloc = <<Take(0, "root", Len(t))>> \o t
  BY <1>4 DEF KernelCustomMalloc
<1>. HIDE DEF t, n
<1>. DEFINE u == <<Take(0, "root", Len(t))>> \o t
<1>7. u \in Seq(AlStep) /\ Len(u) = Len(t) + 1 /\ Leads(u, Nothing, Kept)
  BY <1>3, HeapNames, SmallSlots, KeptGiven, PlansTyped, LeadsUnless
<1>8. \A p \in 1..Len(u) : u[p].do # "realloc"
  <2>. SUFFICES ASSUME NEW p \in 1..Len(u) PROVE u[p].do # "realloc"
    OBVIOUS
  <2>1. Len(t) \in Nat
    BY <1>3
  <2>2. Take(0, "root", Len(t)) \in AlStep /\ Take(0, "root", Len(t)).do = "take"
    BY <2>1, HeapNames, SmallSlots, StepFields
  <2>3. CASE p = 1
    <3>1. u[p] = Take(0, "root", Len(t))
      BY <1>3, <2>2, <2>3
    <3>. QED
      BY <2>2, <3>1
  <2>4. CASE p # 1
    <3>1. p - 1 \in 1..Len(t)
      BY <1>7, <2>1, <2>4
    <3>2. u[p] = t[p - 1]
      BY <1>3, <2>2, <3>1
    <3>. QED
      BY <1>5, <3>1, <3>2
  <2>. QED
    BY <2>3, <2>4
<1>. QED
  BY <1>6, <1>7, <1>8

LEMMA SessionsLead ==
    /\ cert_verify_entry \in Seq(AlStep) /\ Leads(cert_verify_entry, Nothing, Nothing)
    /\ \A p \in 1..Len(cert_verify_entry) : cert_verify_entry[p].slot = 1
<1>. DEFINE n == 3 * AlCerts
            t == Repeat(n, gcauthmgr_sm)
<1>1. n \in Nat
  BY AllocatorsAssumption DEF AllocatorsAssumption
<1>2. /\ gcauthmgr_sm \in Seq(AlStep) /\ Leads(gcauthmgr_sm, Nothing, Nothing)
      /\ Len(gcauthmgr_sm) = 2
      /\ gcauthmgr_sm[1] = Take(1, "root", 1) /\ gcauthmgr_sm[2] = Give(1, "root")
  BY HeapNames, SmallSlots, KeptGiven, PlansTyped, PairLeads DEF gcauthmgr_sm
<1>. HIDE DEF n
<1>3. t \in Seq(AlStep) /\ Len(t) = n * Len(gcauthmgr_sm) /\ Leads(t, Nothing, Nothing)
  BY <1>1, <1>2, PlansTyped, RepeatSteps, LeadsAgain
<1>4. \A k \in 1..Len(t) : t[k].slot = 1
  <2>. SUFFICES ASSUME NEW k \in 1..Len(t) PROVE t[k].slot = 1
    OBVIOUS
  <2>1. /\ ((k - 1) % Len(gcauthmgr_sm)) + 1 \in 1..Len(gcauthmgr_sm)
        /\ t[k] = gcauthmgr_sm[((k - 1) % Len(gcauthmgr_sm)) + 1]
    BY <1>1, <1>2, <1>3, RepeatSteps
  <2>2. PICK j \in 1..2 : t[k] = gcauthmgr_sm[j]
    BY <1>2, <2>1
  <2>3. CASE j = 1
    BY <1>2, <2>2, <2>3 DEF Take
  <2>4. CASE j = 2
    BY <1>2, <2>2, <2>4 DEF Give
  <2>. QED
    BY <2>3, <2>4
<1>. QED
  BY <1>3, <1>4 DEF cert_verify_entry, n

\* The heaps at slots 0, 1, 2 and 3; nothing is in the other slots.
Holds(h0, h1, h2, h3) ==
    [s \in Slot |-> IF s = 0 THEN h0 ELSE IF s = 1 THEN h1 ELSE IF s = 2 THEN h2
                    ELSE IF s = 3 THEN h3 ELSE "none"]

LeftBehind == Holds("none", "none", "stale", "none")

LEMMA LeadsBoth ==
    ASSUME NEW s \in Seq(AlStep), NEW t \in Seq(AlStep), NEW P, NEW Q, NEW R,
           Leads(s, P, Q), Leads(t, Q, R)
    PROVE  s \o t \in Seq(AlStep) /\ Len(s \o t) = Len(s) + Len(t) /\ Leads(s \o t, P, R)
<1>1. Leads(s \o t, P, R)
  BY LeadsOn
<1>2. s \o t \in Seq(AlStep) /\ Len(s \o t) = Len(s) + Len(t)
  BY Joined
<1>. QED
  BY <1>1, <1>2

LEMMA ZlibLeads == zlib_test_file \in Seq(AlStep) /\ Leads(zlib_test_file, Nothing, LeftBehind)
<1>. DEFINE None4 == Holds("none", "none", "none", "none")
            P1 == Holds("root", "none", "none", "none")
            P2 == Holds("root", "root", "none", "none")
            P3 == Holds("root", "root", "own", "none")
            P4 == Holds("root", "root", "own", "root")
            P5 == Holds("root", "none", "own", "none")
            e == <<Give(3, "root")>>
            f == <<Give(2, "own")>>
            ef == e \o f
            d == <<Take(3, "root", Len(ef))>> \o ef
            c == <<Take(2, "own", 0)>> \o d
            g == <<Give(1, "root")>>
            cg == c \o g
            b == <<Take(1, "root", Len(cg))>> \o cg
            h == <<Give(0, "root")>>
            bh == b \o h
            a == <<Take(0, "root", Len(bh))>> \o bh
<1>1. None4 = Nothing
  BY DEF Nothing, Holds
<1>2. /\ None4 \in Plan /\ P1 \in Plan /\ P2 \in Plan /\ P3 \in Plan /\ P4 \in Plan /\ P5 \in Plan
      /\ LeftBehind \in Plan
  BY DEF Plan, Heap, Holds, LeftBehind
<1>3. e \in Seq(AlStep) /\ Len(e) = 1 /\ Leads(e, P4, P3)
  <2>1. P4[3] = "root" /\ \A s \in Slot \ {3} : P3[s] = P4[s]
    BY SmallSlots DEF Holds
  <2>. HIDE DEF P3, P4
  <2>. QED
    BY <1>2, <2>1, HeapNames, SmallSlots, LeadsGive
<1>4. f \in Seq(AlStep) /\ Len(f) = 1 /\ Leads(f, P3, P3)
  <2>1. P3[2] = "own"
    BY SmallSlots DEF Holds
  <2>. HIDE DEF P3
  <2>. QED
    BY <1>2, <2>1, HeapNames, SmallSlots, LeadsGive
<1>5. g \in Seq(AlStep) /\ Len(g) = 1 /\ Leads(g, P3, P5)
  <2>1. P3[1] = "root" /\ \A s \in Slot \ {1} : P5[s] = P3[s]
    BY SmallSlots DEF Holds
  <2>. HIDE DEF P3, P5
  <2>. QED
    BY <1>2, <2>1, HeapNames, SmallSlots, LeadsGive
<1>6. h \in Seq(AlStep) /\ Len(h) = 1 /\ Leads(h, P5, LeftBehind)
  <2>1. /\ P5[0] = "root"
        /\ \A s \in Slot \ {0} : P5[s] # "none" => P5[s] = "own" /\ LeftBehind[s] = "stale"
    BY SmallSlots DEF Holds, LeftBehind
  <2>. HIDE DEF P5
  <2>. QED
    BY <1>2, <2>1, HeapNames, SmallSlots, LeadsGive
<1>7. /\ P3[3] = "none" /\ P4[3] = "root" /\ SameElse(P3, P4, 3) /\ SameElse(P3, P3, 3)
      /\ P2[2] = "none" /\ P3[2] = "own" /\ SameElse(P2, P3, 2)
      /\ P1[1] = "none" /\ P2[1] = "root" /\ SameElse(P1, P2, 1) /\ SameElse(P1, P5, 1)
      /\ None4[0] = "none" /\ P1[0] = "root" /\ SameElse(None4, P1, 0) /\ SameElse(None4, LeftBehind, 0)
  BY SmallSlots DEF Holds, SameElse
<1>. HIDE DEF None4, P1, P2, P3, P4, P5, a, b, c, d, e, f, g, h, ef, cg, bh
<1>8. 1 + 1 = 2 /\ 2 + 1 = 3 /\ 3 + 1 = 4 /\ 4 + 1 = 5 /\ 5 + 1 = 6 /\ 6 + 1 = 7
  OBVIOUS
<1>9. ef \in Seq(AlStep) /\ Len(ef) = 2 /\ Leads(ef, P4, P3)
  BY <1>3, <1>4, <1>8, LeadsBoth DEF ef
<1>10. d \in Seq(AlStep) /\ Len(d) = 3 /\ Leads(d, P3, P3)
  BY <1>2, <1>7, <1>8, <1>9, HeapNames, SmallSlots, LeadsUnless DEF d
<1>11. c \in Seq(AlStep) /\ Len(c) = 4 /\ Leads(c, P2, P3)
  <2>. DEFINE k == <<Take(2, "own", 0)>>
  <2>1. k \in Seq(AlStep) /\ Leads(k, P2, P3) /\ Len(k) = 1
    BY <1>2, <1>7, HeapNames, SmallSlots, LeadsTake
  <2>2. c = k \o d
    BY DEF c
  <2>. HIDE DEF k
  <2>3. c \in Seq(AlStep) /\ Len(c) = Len(k) + Len(d) /\ Leads(c, P2, P3)
    BY <1>10, <2>1, <2>2, LeadsBoth
  <2>. QED
    BY <1>10, <2>1, <2>3
<1>12. cg \in Seq(AlStep) /\ Len(cg) = 5 /\ Leads(cg, P2, P5)
  BY <1>5, <1>8, <1>11, LeadsBoth DEF cg
<1>13. b \in Seq(AlStep) /\ Len(b) = 6 /\ Leads(b, P1, P5)
  BY <1>2, <1>7, <1>8, <1>12, HeapNames, SmallSlots, LeadsUnless DEF b
<1>14. bh \in Seq(AlStep) /\ Len(bh) = 7 /\ Leads(bh, P1, LeftBehind)
  BY <1>6, <1>8, <1>13, LeadsBoth DEF bh
<1>15. a \in Seq(AlStep) /\ Leads(a, None4, LeftBehind)
  BY <1>2, <1>7, <1>14, HeapNames, SmallSlots, LeadsUnless DEF a
<1>16. zlib_test_file = a
  <2>1. /\ Take(0, "root", 7) \in AlStep /\ Take(1, "root", 5) \in AlStep
        /\ Take(2, "own", 0) \in AlStep /\ Take(3, "root", 2) \in AlStep
        /\ Give(3, "root") \in AlStep /\ Give(2, "own") \in AlStep
        /\ Give(1, "root") \in AlStep /\ Give(0, "root") \in AlStep
    BY HeapNames, SmallSlots, StepFields
  <2>2. a = <<Take(0, "root", 7)>> \o ((<<Take(1, "root", 5)>> \o
               ((<<Take(2, "own", 0)>> \o (<<Take(3, "root", 2)>> \o
                   (<<Give(3, "root")>> \o <<Give(2, "own")>>))) \o
               <<Give(1, "root")>>)) \o <<Give(0, "root")>>)
    BY <1>9, <1>12, <1>14, Zenon DEF a, bh, b, cg, c, d, ef, e, f, g, h
  <2>. DEFINE s1 == Take(0, "root", 7)
              s2 == Take(1, "root", 5)
              s3 == Take(2, "own", 0)
              s4 == Take(3, "root", 2)
              s5 == Give(3, "root")
              s6 == Give(2, "own")
              s7 == Give(1, "root")
              s8 == Give(0, "root")
  <2>3. a = <<s1>> \o ((<<s2>> \o ((<<s3>> \o (<<s4>> \o (<<s5>> \o <<s6>>))) \o <<s7>>)) \o <<s8>>)
    BY <2>2, Zenon
  <2>4. zlib_test_file = <<s1, s2, s3, s4, s5, s6, s7, s8>>
    BY Zenon DEF zlib_test_file
  <2>5. s5 \in AlStep /\ s6 \in AlStep
    BY <2>1
  <2>. HIDE DEF s1, s2, s3, s4, s5, s6, s7, s8
  <2>6. <<s5, s6>> = <<s5>> \o <<s6>>
    BY <2>5, Pair
  <2>7. <<s4, s5, s6>> = <<s4>> \o <<s5, s6>>
    OBVIOUS
  <2>8. <<s3, s4, s5, s6>> = <<s3>> \o <<s4, s5, s6>>
    OBVIOUS
  <2>9. <<s3, s4, s5, s6, s7>> = <<s3, s4, s5, s6>> \o <<s7>>
    OBVIOUS
  <2>10. <<s2, s3, s4, s5, s6, s7>> = <<s2>> \o <<s3, s4, s5, s6, s7>>
    OBVIOUS
  <2>11. <<s2, s3, s4, s5, s6, s7, s8>> = <<s2, s3, s4, s5, s6, s7>> \o <<s8>>
    OBVIOUS
  <2>12. <<s1, s2, s3, s4, s5, s6, s7, s8>> = <<s1>> \o <<s2, s3, s4, s5, s6, s7, s8>>
    OBVIOUS
  <2>. QED
    BY <2>3, <2>4, <2>6, <2>7, <2>8, <2>9, <2>10, <2>11, <2>12, Zenon
<1>. QED
  BY <1>1, <1>15, <1>16

Ending(p) == IF p = "custom" THEN Kept ELSE IF p = "zlib" THEN LeftBehind ELSE Nothing

\* A plan of what the slots hold before each step of a program.
PlanOf(p) ==
    CHOOSE e \in Plans(Programs[p]) :
       e[1] = Nothing /\ e[Len(Programs[p]) + 1] = Ending(p) /\ Along(Programs[p], e)

LEMMA PlanOfLeads ==
    ASSUME NEW p \in DOMAIN Programs
    PROVE  /\ Programs[p] \in Seq(AlStep) /\ PlanOf(p)[1] = Nothing
           /\ PlanOf(p)[Len(Programs[p]) + 1] = Ending(p) /\ Along(Programs[p], PlanOf(p))
<1>1. /\ Programs["kernel"] = KernelTest /\ Programs["user"] = alloc_free_test_paf
      /\ Programs["paf"] = PafCustomMalloc /\ Programs["custom"] = KernelCustomMalloc
      /\ Programs["zlib"] = zlib_test_file /\ Programs["idstorage"] = cert_verify_entry
      /\ p \in {"kernel", "user", "paf", "custom", "zlib", "idstorage"}
  BY DEF Programs
<1>2. Programs[p] \in Seq(AlStep) /\ Leads(Programs[p], Nothing, Ending(p))
  <2>1. CASE p = "kernel"
    BY <1>1, <2>1, KernelLeads DEF Ending
  <2>2. CASE p = "user"
    BY <1>1, <2>2, UserLeads DEF Ending
  <2>3. CASE p = "paf"
    BY <1>1, <2>3, PafLeads DEF Ending
  <2>4. CASE p = "custom"
    BY <1>1, <2>4, CustomLeads DEF Ending
  <2>5. CASE p = "zlib"
    BY <1>1, <2>5, ZlibLeads DEF Ending
  <2>6. CASE p = "idstorage"
    BY <1>1, <2>6, SessionsLead DEF Ending
  <2>. QED
    BY <1>1, <2>1, <2>2, <2>3, <2>4, <2>5, <2>6
<1>3. \E e \in Plans(Programs[p]) :
         e[1] = Nothing /\ e[Len(Programs[p]) + 1] = Ending(p) /\ Along(Programs[p], e)
  BY <1>2 DEF Leads
<1>. QED
  BY <1>2, <1>3 DEF PlanOf

LEMMA OtherSteps ==
    /\ \A i \in 1..Len(Programs["custom"]) : Programs["custom"][i].do # "realloc"
    /\ \A i \in 1..Len(Programs["idstorage"]) : Programs["idstorage"][i].slot = 1
<1>1. Programs["custom"] = KernelCustomMalloc /\ Programs["idstorage"] = cert_verify_entry
  BY DEF Programs
<1>. QED
  BY <1>1, CustomLeads, SessionsLead

AlIInv ==
    /\ al_plugin \in DOMAIN Programs /\ al_wrong = FALSE
    /\ Owned(Programs[al_plugin], PlanOf(al_plugin)[al_pc], al_pc, al_slot, al_live, al_lost)
    /\ al_plugin = "custom" => al_lost = {}

LEMMA AlBegins == AlInit => AlIInv
<1>. SUFFICES ASSUME AlInit PROVE AlIInv
  OBVIOUS
<1>. DEFINE s == Programs[al_plugin]
<1>1. /\ al_plugin \in DOMAIN Programs /\ al_wrong = FALSE /\ al_pc = 1 /\ al_live = {}
      /\ al_lost = {} /\ al_slot = [x \in Slot |-> None]
  BY DEF AlInit
<1>2. s \in Seq(AlStep)
  BY <1>1, PlanOfLeads
<1>3. 1 \in 1..Len(s) + 1 /\ al_slot \in [Slot -> Nat] /\ \A x \in Slot : al_slot[x] = None
  BY <1>1, <1>2 DEF None
<1>. HIDE DEF s
<1>4. Owned(s, PlanOf(al_plugin)[al_pc], al_pc, al_slot, al_live, al_lost)
  BY <1>1, <1>3 DEF Owned, BlocksNamed, SlotsKnown, HeldOrLost, HeapThere
<1>. QED
  BY <1>1, <1>4 DEF AlIInv, s

LEMMA AlKeeps == AlIInv /\ [AlNext]_alVars => AlIInv'
<1>. SUFFICES ASSUME AlIInv, [AlNext]_alVars PROVE AlIInv'
  OBVIOUS
<1>1. CASE UNCHANGED alVars
  BY <1>1 DEF alVars, AlIInv
<1>2. CASE AlNext
  <2>1. PICK p, here : p = al_plugin /\ here = al_pc
    OBVIOUS
  <2>. DEFINE s == Programs[p]
              e == PlanOf(p)
              st == s[here]
  <2>2. /\ p \in DOMAIN Programs /\ al_wrong = FALSE /\ Owned(s, e[here], here, al_slot, al_live, al_lost)
        /\ p = "custom" => al_lost = {}
    BY <2>1 DEF AlIInv
  <2>3. s \in Seq(AlStep) /\ Along(s, e)
    BY <2>2, PlanOfLeads
  <2>4. /\ here =< Len(s) /\ p = al_plugin'
        /\ Step = st /\ Steps = s /\ al_pc = here
    BY <1>2, <2>1 DEF AlNext, AlTake, AlGive, AlRealloc, At, Steps, Step
  <2>5. here \in 1..Len(s) /\ Len(s) \in Nat /\ al_slot \in [Slot -> Nat]
    <3>1. here \in 1..Len(s) + 1 /\ al_slot \in [Slot -> Nat]
      BY <2>2 DEF Owned
    <3>2. Len(s) \in Nat
      BY <2>3
    <3>. QED
      BY <2>4, <3>1, <3>2
  <2>. SUFFICES /\ al_wrong' = FALSE
                /\ p = "custom" => al_lost' = {}
                /\ Owned(s, e[al_pc'], al_pc', al_slot', al_live', al_lost')
    BY <2>2, <2>4 DEF AlIInv
  <2>. HIDE DEF s, e
  <2>6. /\ here + st.skip =< Len(s)
        /\ StepFits(st, e[here], e[here + 1], e[here + st.skip + 1])
    BY <2>3, <2>5 DEF Along
  <2>7. st.skip \in Nat
    BY <2>3, <2>5, AlStepTyped
  <2>8. CASE AlTake
    <3>1. st.do = "take"
      BY <2>4, <2>8 DEF AlTake, At
    <3>2. al_lost' = al_lost /\ al_wrong' = al_wrong
      BY <2>8 DEF AlTake
    <3>3. CASE /\ There(st.heap) /\ al_slot' = [al_slot EXCEPT ![st.slot] = here]
               /\ al_live' = al_live \cup {<<here, st.heap>>} /\ al_pc' = here + 1
      <4>1. st.heap = "own" => <<al_slot[0], "root">> \in al_live
        BY <3>3 DEF There
      <4>2. Owned(s, e[here + 1], here + 1, [al_slot EXCEPT ![st.slot] = here],
                  al_live \cup {<<here, st.heap>>}, al_lost)
        BY <2>2, <2>3, <2>5, <2>6, <3>1, <4>1, Taken
      <4>. QED
        BY <2>2, <3>2, <3>3, <4>2
    <3>4. CASE /\ al_slot' = [al_slot EXCEPT ![st.slot] = None]
               /\ al_pc' = here + st.skip + 1 /\ al_live' = al_live
      <4>1. Owned(s, e[here + st.skip + 1], here + st.skip + 1,
                  [al_slot EXCEPT ![st.slot] = None], al_live, al_lost)
        BY <2>2, <2>3, <2>5, <2>6, <3>1, NotTaken
      <4>. QED
        BY <2>2, <3>2, <3>4, <4>1
    <3>5. here + 1 + st.skip = here + st.skip + 1
      <4>. DEFINE k == st.skip
      <4>1. k \in Nat /\ here \in Nat
        BY <2>5, <2>7
      <4>. HIDE DEF k
      <4>2. here + 1 + k = here + k + 1
        BY <4>1
      <4>. QED
        BY <4>2 DEF k
    <3>. QED
      BY <2>4, <2>8, <3>3, <3>4, <3>5 DEF AlTake
  <2>9. CASE AlGive
    <3>. DEFINE held == <<al_slot[st.slot], st.heap>>
                inside == GoneWith(held, st.slot, al_live)
    <3>1. st.do = "give" /\ al_pc' = here + 1 /\ al_slot' = [al_slot EXCEPT ![st.slot] = None]
      BY <2>4, <2>9 DEF AlGive, At
    <3>2. CASE al_slot[st.slot] = None /\ UNCHANGED <<al_live, al_lost, al_wrong>>
      <4>1. Owned(s, e[here + 1], here + 1, [al_slot EXCEPT ![st.slot] = None], al_live, al_lost)
        BY <2>2, <2>3, <2>5, <2>6, <3>1, <3>2, NothingGiven
      <4>. QED
        BY <2>2, <3>1, <3>2, <4>1
    <3>3. CASE /\ al_slot[st.slot] # None /\ al_wrong' = (al_wrong \/ held \notin al_live)
               /\ al_live' = al_live \ inside /\ al_lost' = al_lost \ inside
      <4>1. /\ held \in al_live
            /\ Owned(s, e[here + 1], here + 1, [al_slot EXCEPT ![st.slot] = None],
                     al_live \ inside, al_lost \ inside)
        BY <2>2, <2>3, <2>5, <2>6, <3>1, <3>3, GivenBack
      <4>. HIDE DEF held, inside
      <4>. QED
        BY <2>2, <3>1, <3>3, <4>1
    <3>. QED
      BY <2>4, <2>9, <3>2, <3>3 DEF AlGive, Held, Inside, GoneWith
  <2>10. CASE AlRealloc
    <3>. DEFINE held == <<al_slot[st.slot], st.heap>>
    <3>1. st.do = "realloc" /\ al_pc' = here + 1
      BY <2>4, <2>10 DEF AlRealloc, At
    <3>2. p # "custom"
      BY <2>5, <3>1, OtherSteps DEF s
    <3>3. CASE /\ There(st.heap) /\ al_slot' = [al_slot EXCEPT ![st.slot] = here]
               /\ al_live' = (al_live \ {held}) \cup {<<here, st.heap>>}
               /\ al_wrong' = (al_wrong \/ (al_slot[st.slot] # None /\ held \notin al_live))
               /\ al_lost' = al_lost
      <4>1. <<al_slot[0], "root">> \in al_live
        BY <2>6, <3>1, <3>3 DEF There, StepFits
      <4>2. /\ al_slot[st.slot] # None => held \in al_live
            /\ Owned(s, e[here + 1], here + 1, [al_slot EXCEPT ![st.slot] = here],
                     (al_live \ {held}) \cup {<<here, st.heap>>}, al_lost)
        BY <2>2, <2>3, <2>5, <2>6, <3>1, <4>1, Moved
      <4>. HIDE DEF held
      <4>. QED
        BY <2>2, <3>1, <3>2, <3>3, <4>2
    <3>4. CASE /\ al_slot' = [al_slot EXCEPT ![st.slot] = None]
               /\ al_lost' = al_lost \cup ({held} \cap al_live)
               /\ UNCHANGED <<al_live, al_wrong>>
      <4>1. Owned(s, e[here + 1], here + 1, [al_slot EXCEPT ![st.slot] = None],
                  al_live, al_lost \cup ({held} \cap al_live))
        BY <2>2, <2>3, <2>5, <2>6, <3>1, Lost
      <4>. HIDE DEF held
      <4>. QED
        BY <2>2, <3>1, <3>2, <3>4, <4>1
    <3>. QED
      BY <2>4, <2>10, <3>3, <3>4 DEF AlRealloc, Held
  <2>. QED
    BY <1>2, <2>8, <2>9, <2>10 DEF AlNext
<1>. QED
  BY <1>1, <1>2

LEMMA AlTyped == AlIInv => AlTypeOK
<1>. SUFFICES ASSUME AlIInv PROVE AlTypeOK
  OBVIOUS
<1>. DEFINE s == Programs[al_plugin]
<1>1. s \in Seq(AlStep) /\ al_plugin \in DOMAIN Programs /\ al_wrong = FALSE
  BY PlanOfLeads DEF AlIInv
<1>2. /\ al_slot \in [Slot -> Nat] /\ al_pc \in 1..Len(s) + 1
      /\ BlocksNamed(s, al_pc, al_live) /\ al_lost \subseteq al_live
  BY DEF AlIInv, Owned, HeldOrLost
<1>. HIDE DEF s
<1>3. al_pc \in Nat \ {0} /\ Len(s) \in Nat
  BY <1>1, <1>2
<1>4. \A b \in al_live : b[1] \in Nat \ {0} /\ b[2] \in Heap
  <2>. SUFFICES ASSUME NEW b \in al_live PROVE b[1] \in Nat \ {0} /\ b[2] \in Heap
    OBVIOUS
  <2>1. b[1] \in 1..al_pc - 1 /\ b[2] = s[b[1]].heap
    BY <1>2 DEF BlocksNamed, Block
  <2>2. b[1] \in 1..Len(s) /\ b[1] \in Nat \ {0}
    BY <1>2, <1>3, <2>1
  <2>. QED
    BY <1>1, <2>1, <2>2, AlStepTyped
<1>. QED
  BY <1>1, <1>2, <1>3, <1>4 DEF AlTypeOK

LEMMA AlOwned == AlIInv => BlocksOwned
<1>. SUFFICES ASSUME AlIInv PROVE BlocksOwned
  OBVIOUS
<1>. DEFINE s == Programs[al_plugin]
            e == PlanOf(al_plugin)
<1>1. /\ s \in Seq(AlStep) /\ al_plugin \in DOMAIN Programs /\ al_wrong = FALSE
      /\ e[Len(s) + 1] = Ending(al_plugin)
  BY PlanOfLeads DEF AlIInv
<1>2. /\ Owned(s, e[al_pc], al_pc, al_slot, al_live, al_lost)
      /\ al_plugin = "custom" => al_lost = {}
  BY DEF AlIInv
<1>3. /\ al_slot \in [Slot -> Nat] /\ al_pc \in 1..Len(s) + 1
      /\ BlocksNamed(s, al_pc, al_live) /\ SlotsKnown(s, e[al_pc], al_pc, al_slot, al_live)
      /\ HeldOrLost(al_slot, al_live, al_lost) /\ HeapThere(al_slot, al_live)
  BY <1>2 DEF Owned
<1>4. Steps = s
  BY DEF Steps
<1>5. al_plugin = "idstorage" => \A i \in 1..Len(s) : s[i].slot = 1
  BY OtherSteps
<1>. HIDE DEF s, e
<1>6. ASSUME NEW b \in al_live \ al_lost
      PROVE  \E x \in Slot : /\ al_slot[x] = b[1] /\ al_slot[x] # None
                             /\ {y \in Slot : al_slot[y] = b[1]} = {x}
                             /\ e[al_pc][x] # "stale" /\ e[al_pc][x] = b[2]
                             /\ s[b[1]].slot = x
  <2>1. PICK x \in Slot : al_slot[x] = b[1]
    BY <1>3 DEF HeldOrLost
  <2>2. al_slot[x] # None /\ b = Block(s, b[1])
    BY <1>3, <2>1 DEF BlocksNamed, None
  <2>3. /\ s[al_slot[x]].slot = x
        /\ e[al_pc][x] # "stale" /\ e[al_pc][x] = s[al_slot[x]].heap
    BY <1>3, <2>1, <2>2 DEF SlotsKnown
  <2>4. \A y \in Slot : al_slot[y] = b[1] => y = x
    BY <1>3, <2>1, <2>2 DEF SlotsKnown
  <2>5. b[2] = s[b[1]].heap
    BY <2>2 DEF Block
  <2>. QED
    BY <2>1, <2>2, <2>3, <2>4, <2>5
<1>7. ASSUME NEW b \in al_live, b[2] = "own"
      PROVE <<al_slot[0], "root">> \in al_live /\ al_slot[0] # None
  BY <1>3, <1>7 DEF HeapThere, BlocksNamed, None
<1>8. ASSUME NEW b \in al_lost PROVE b \in al_live /\ b[2] = "own"
  BY <1>3 DEF HeldOrLost
<1>9. \A b \in al_live :
         IF b \in al_lost THEN b[2] = "own" /\ There("own")
         ELSE Cardinality({x \in Slot : al_slot[x] = b[1]}) = 1
  <2>. SUFFICES ASSUME NEW b \in al_live
                PROVE  IF b \in al_lost THEN b[2] = "own" /\ There("own")
                       ELSE Cardinality({x \in Slot : al_slot[x] = b[1]}) = 1
    OBVIOUS
  <2>1. CASE b \in al_lost
    BY <1>7, <1>8, <2>1 DEF There
  <2>2. CASE b \notin al_lost
    <3>1. PICK x \in Slot : {y \in Slot : al_slot[y] = b[1]} = {x}
      BY <1>6, <2>2
    <3>. QED
      BY <2>2, <3>1, FS_Singleton
  <2>. QED
    BY <2>1, <2>2
<1>10. al_plugin = "idstorage" => Cardinality(al_live) =< 1
  <2>. SUFFICES ASSUME al_plugin = "idstorage" PROVE Cardinality(al_live) =< 1
    OBVIOUS
  <2>1. al_slot[0] = None
    <3>. SUFFICES ASSUME al_slot[0] # None PROVE FALSE
      OBVIOUS
    <3>1. s[al_slot[0]].slot = 0 /\ al_slot[0] < al_pc /\ al_slot[0] \in Nat
      BY <1>3, ZeroIsSlot DEF SlotsKnown
    <3>2. al_slot[0] \in 1..Len(s)
      <4>1. Len(s) \in Nat
        BY <1>1
      <4>. QED
        BY <1>3, <3>1, <4>1 DEF None
    <3>. QED
      BY <1>5, <3>1, <3>2
  <2>2. \A b \in al_live : b[1] = al_slot[1] /\ b = Block(s, b[1])
    <3>. SUFFICES ASSUME NEW b \in al_live PROVE b[1] = al_slot[1] /\ b = Block(s, b[1])
      OBVIOUS
    <3>1. b \notin al_lost
      BY <1>7, <1>8, <2>1
    <3>2. PICK x \in Slot : al_slot[x] = b[1] /\ s[b[1]].slot = x
      BY <1>6, <3>1
    <3>3. b[1] \in 1..Len(s) /\ b = Block(s, b[1])
      <4>1. Len(s) \in Nat
        BY <1>1
      <4>. QED
        BY <1>3, <4>1 DEF BlocksNamed
    <3>. QED
      BY <1>5, <3>2, <3>3
  <2>3. al_live \subseteq {Block(s, al_slot[1])}
    BY <2>2
  <2>4. al_live = {} \/ al_live = {Block(s, al_slot[1])}
    BY <2>3
  <2>5. CASE al_live = {}
    BY <2>5, FS_EmptySet
  <2>6. CASE al_live = {Block(s, al_slot[1])}
    <3>1. Cardinality(al_live) = 1
      BY <2>6, FS_Singleton
    <3>. QED
      BY <3>1
  <2>. QED
    BY <2>4, <2>5, <2>6
<1>11. ASSUME AlDone, NEW b \in al_live PROVE al_plugin = "custom" /\ b[2] = "root"
  <2>1. al_pc = Len(s) + 1
    <3>1. Len(s) \in Nat
      BY <1>1
    <3>. QED
      BY <1>3, <1>4, <1>11, <3>1 DEF AlDone
  <2>2. e[al_pc] = Ending(al_plugin)
    BY <1>1, <2>1
  <2>3. \A x \in Slot : al_slot[x] # None /\ Ending(al_plugin)[x] # "stale" =>
           al_plugin = "custom" /\ x = 0 /\ Ending(al_plugin)[x] = "root"
    <3>. SUFFICES ASSUME NEW x \in Slot, al_slot[x] # None, Ending(al_plugin)[x] # "stale"
                  PROVE  al_plugin = "custom" /\ x = 0 /\ Ending(al_plugin)[x] = "root"
      OBVIOUS
    <3>1. Ending(al_plugin)[x] # "none"
      BY <1>1, <1>2, <2>2, EmptySlot
    <3>. QED
      BY <3>1 DEF Ending, Nothing, Kept, LeftBehind, Holds
  <2>4. b \notin al_lost
    <3>. SUFFICES ASSUME b \in al_lost PROVE FALSE
      OBVIOUS
    <3>1. al_plugin # "custom" /\ al_slot[0] # None
      BY <1>2, <1>7, <1>8
    <3>2. Ending(al_plugin)[0] # "stale"
      BY SmallSlots DEF Ending, Nothing, Kept, LeftBehind, Holds
    <3>. QED
      BY <2>3, <3>1, <3>2, ZeroIsSlot
  <2>5. PICK x \in Slot : al_slot[x] # None /\ e[al_pc][x] # "stale" /\ e[al_pc][x] = b[2]
    BY <1>6, <2>4
  <2>. QED
    BY <2>2, <2>3, <2>5
<1>. QED
  BY <1>1, <1>9, <1>10, <1>11 DEF BlocksOwned

\* The variables keep their types, for tables, lists and numbers of calls of any
\* length.
THEOREM AlTypeCorrect == AlSpec => []AlTypeOK
BY AlBegins, AlKeeps, AlTyped, PTL DEF AlSpec

\* Whatever cannot be had and however long the tables are: nothing is given back
\* that is not held, or to another heap; every block is held by one slot or was
\* lost by a realloc that failed; one session with the secure module is open at a
\* time; and at the end all is given back but the heap of KernelCustomMalloc.
THEOREM BlocksAlwaysOwned == AlSpec => []BlocksOwned
BY AlBegins, AlKeeps, AlOwned, PTL DEF AlSpec

-----------------------------------------------------------------------------
(* Corelock *)

LEMMA ClBegins == ClInit => ClTypeOK
<1>. SUFFICES ASSUME ClInit PROVE ClTypeOK
  OBVIOUS
<1>1. PICK some \in SUBSET {1, 2, 3} : cl_made = some \cup {0}
  BY DEF ClInit
<1>2. PICK first \in {"init", "end"} : cl_pc = [c \in Core |-> IF c = 0 THEN first ELSE "none"]
  BY DEF ClInit
<1>3. cl_made \subseteq Core
  BY <1>1 DEF Core
<1>4. cl_pc \in [Core -> {"none", "init", "start", "delay", "lock", "wait", "hold", "end"}]
  BY <1>2
<1>. QED
  BY <1>3, <1>4 DEF ClInit, ClTypeOK

LEMMA ClKeeps == ClTypeOK /\ [ClNext]_clVars => ClTypeOK'
<1>. SUFFICES ASSUME ClTypeOK, [ClNext]_clVars PROVE ClTypeOK'
  OBVIOUS
<1>1. CASE UNCHANGED clVars
  BY <1>1 DEF clVars, ClTypeOK
<1>2. CASE ClStart
  BY <1>2 DEF ClStart, ClTypeOK
<1>3. ASSUME NEW c \in Core, ClCore(c) PROVE ClTypeOK'
  BY <1>3 DEF ClCore, ClBegin, ClLock, ClPass, ClUnlock, Goes, ClTypeOK
<1>. QED
  BY <1>1, <1>2, <1>3 DEF ClNext

-----------------------------------------------------------------------------
(* Tools *)

LEMMA ToolsBegin ==
    ToolsInit => EmInit /\ LogInit /\ DpInit /\ MlInit /\ AlInit /\ AvInit /\ ClInit
BY DEF ToolsInit

\* A step of one tool is a step of its own specification, and leaves the state of
\* the others as it is.
LEMMA ToolsSteps ==
    [ToolsNext]_toolVars =>
       /\ [EmNext]_emVars /\ [LogNext]_logVars /\ [DpNext]_dpVars /\ [MlNext]_mlVars
       /\ [AlNext]_alVars /\ [AvNext]_avVars /\ [ClNext]_clVars
BY DEF ToolsNext, ToolStep, Outside, Only, toolVars, EmNext, LogNext, DpNext, MlNext

\* Each of the seven behaves as its own specification says when another may run
\* in its place.
THEOREM ToolsAreTheirOwn ==
    ToolsSpec => EmSpec /\ LogSpec /\ DpSpec /\ MlSpec /\ AlSpec /\ AvSpec /\ ClSpec
BY ToolsBegin, ToolsSteps, PTL
   DEF ToolsSpec, EmSpec, LogSpec, DpSpec, MlSpec, AlSpec, AvSpec, ClSpec

\* The state of every tool keeps its type, whichever of them runs.
THEOREM ToolsTypeCorrect == ToolsSpec => []ToolsTypeOK
<1>1. ToolsSpec => []ClTypeOK
  BY ToolsAreTheirOwn, ClBegins, ClKeeps, PTL DEF ClSpec
<1>2. ToolsSpec => [](EmTypeOK /\ LogTypeOK /\ DpTypeOK /\ MlTypeOK /\ AlTypeOK /\ AvTypeOK)
  BY ToolsAreTheirOwn, EmTypeCorrect, LogTypeCorrect, DpTypeCorrect, MlTypeCorrect, AlTypeCorrect,
     AvTypeCorrect, PTL
<1>3. EmTypeOK /\ LogTypeOK /\ DpTypeOK /\ MlTypeOK /\ AlTypeOK /\ AvTypeOK /\ ClTypeOK => ToolsTypeOK
  BY DEF ToolsTypeOK
<1>. QED
  BY <1>1, <1>2, <1>3, PTL

\* What the tools promise one by one they promise side by side: the dumps, the
\* logs, the lists of modules, the blocks and the verdicts are as they should be.
THEOREM ToolsKeepAll ==
    ToolsSpec => /\ [](PrefixThenFill /\ UncutIsComplete /\ StartReachesAll)
                 /\ [](LogInOrder /\ SlbPieces /\ NumbersFind)
                 /\ [](BlocksOwned /\ SigReversed /\ FwAccepted)
                 /\ CompleteStays /\ SlbKeeps
BY ToolsAreTheirOwn, FilesArePrefixes, UncutFilesAreComplete, StartsReachAll, LogAlwaysInOrder,
   DumpsArePieces, NumbersAlwaysFind, BlocksAlwaysOwned, SigAlwaysReversed, FwAlwaysAccepted,
   CompleteDumpsStay, EarlierDumpsStay, PTL

=============================================================================
