----------------------------- MODULE ActVerifier -----------------------------
(***************************************************************************)
(* kernel/act_verifier and kernel/np_act_verifier: the signature of the    *)
(* activation data is brought from one byte order to the other in place,   *)
(* opened with the public key, and its first words brought back to be      *)
(* compared with the digest of the data.                                   *)
(*                                                                         *)
(* A word is its four bytes.  The digest and what the key opens are        *)
(* symbols: a signature that belongs to the data opens to the digest in    *)
(* the order of the RSA functions, any other to something else.            *)
(*                                                                         *)
(* External: the calls that look up the firmware, the module SceNpDrm and  *)
(* what is in it, the opening of the files and the reading of the NVS may  *)
(* fail.  Whether what the two macs of act_verifier are of is genuine too  *)
(* is left open.                                                           *)
(***************************************************************************)
EXTENDS Integers

CONSTANTS AvWords,    \* lengths of a signature in words, 0x40 in the code
          AvDigest,   \* the length of a digest in words, 8 in the code
          AvVersions, \* bound: versions of the firmware, >> 12
          AvFirst, AvRange, AvModulus  \* 0x3600, 0x140 and 2^20

ASSUME ActAssumption ==
    /\ AvWords \subseteq Nat /\ AvDigest \in Nat \ {0}
    /\ \A n \in AvWords : AvDigest =< n
    /\ AvModulus \in Nat \ {0}
    /\ AvVersions \subseteq 0..AvModulus - 1
    /\ AvFirst \in Nat /\ AvRange \in Nat /\ AvFirst + AvRange =< AvModulus

VARIABLES
    av_np,      \* this is np_act_verifier
    av_version, \* of the firmware, >> 12
    av_genuine, \* the signature belongs to the data
    av_pc,
    av_size,    \* the length of the signature in words
    av_len,     \* how many words __swap_data32 was called for
    av_i,       \* its loop variable
    av_words,   \* actsig: place -> word
    av_src      \* history: actsig when __swap_data32 was called

avVars == <<av_np, av_version, av_genuine, av_pc, av_size, av_len, av_i, av_words, av_src>>

Places == 0..av_size - 1

\* A byte is what it is of (the signature, the digest, or something else the
\* key opened the signature to), the number of its word there and its place.
Bytes == {"sig", "digest", "padding"} \X Nat \X (1..4)
Word == [1..4 -> Bytes]

WordOf(what, n) == [b \in 1..4 |-> <<what, n, b>>]

\* __builtin_bswap32
Bswap(w) == [b \in 1..4 |-> w[5 - b]]

AvTypeOK ==
    /\ av_np \in BOOLEAN /\ av_version \in AvVersions /\ av_genuine \in BOOLEAN
    /\ av_pc \in {"fw", "module", "read", "keys", "swap1", "rsa", "swap2", "compare",
                 "mac", "nvs", "ok", "failed"}
    /\ av_size \in AvWords
    /\ av_len \in 0..av_size /\ av_i \in 0..av_len
    /\ av_words \in [Places -> Word] /\ av_src \in [Places -> Word]

AvInit ==
    /\ av_np \in BOOLEAN /\ av_version \in AvVersions /\ av_genuine \in BOOLEAN /\ av_pc = "fw"
    /\ av_size \in AvWords /\ av_len = 0 /\ av_i = 0
    /\ av_words = [p \in Places |-> WordOf("sig", p)] /\ av_src = av_words

AvFails ==
    /\ av_pc' = "failed"
    /\ UNCHANGED <<av_np, av_version, av_genuine, av_size, av_len, av_i, av_words, av_src>>

\* Mistake: the difference is taken to be signed.
Bug_Refused == av_version - AvFirst >= AvRange

\* The difference is unsigned: a version before the first one is far above it.
Refused == (av_version - AvFirst) % AvModulus >= AvRange

actVerifierCheckSystemFw ==
    /\ av_pc = "fw"
    /\ \/ AvFails
       \/ /\ ~Refused /\ av_pc' = "module"
          /\ UNCHANGED <<av_np, av_version, av_genuine, av_size, av_len, av_i, av_words, av_src>>

AvModule ==
    /\ av_pc = "module"
    /\ \/ AvFails
       \/ /\ av_pc' = "read"
          /\ UNCHANGED <<av_np, av_version, av_genuine, av_size, av_len, av_i, av_words, av_src>>

\* __swap_data32 is called for the first n words.
Calls(n) ==
    /\ av_len' = n /\ av_i' = 0 /\ av_src' = av_words'
    /\ UNCHANGED <<av_np, av_version, av_genuine, av_size>>

actVerifierReadActData ==
    /\ av_pc = "read"
    /\ \/ AvFails
       \/ ~av_np /\ av_pc' = "swap1" /\ UNCHANGED av_words /\ Calls(av_size)
       \/ /\ av_np /\ av_pc' = "keys"
          /\ UNCHANGED <<av_np, av_version, av_genuine, av_size, av_len, av_i, av_words, av_src>>

\* np_act_verifier finds its keys in SceNpDrm.  What sceNpDrmEcdsaVerify
\* returns is not looked at.
AvKeys ==
    /\ av_pc = "keys"
    /\ \/ AvFails
       \/ av_pc' = "swap1" /\ UNCHANGED av_words /\ Calls(av_size)

Half(len) == len \div 2

\* Mistake: the word in the middle is left as it is.
Bug_MiddleWord(len) == UNCHANGED av_words

MiddleWord(len) ==
    av_words' = IF len % 2 = 1
                THEN [av_words EXCEPT ![Half(len)] = Bswap(av_words[Half(len)])]
                ELSE av_words

\* One round of the loop, or what comes after it.
__swap_data32(from, to) ==
    LET last == av_len - av_i - 1 IN
    /\ av_pc = from
    /\ \/ /\ av_i < Half(av_len)
          /\ av_words' = [p \in Places |->
                 IF p = av_i THEN Bswap(av_words[last])
                 ELSE IF p = last THEN Bswap(av_words[av_i]) ELSE av_words[p]]
          /\ av_i' = av_i + 1 /\ UNCHANGED av_pc
       \/ /\ av_i = Half(av_len)
          /\ MiddleWord(av_len)
          /\ av_pc' = to /\ UNCHANGED av_i
    /\ UNCHANGED <<av_np, av_version, av_genuine, av_size, av_len, av_src>>

AvSwap1 == __swap_data32("swap1", "rsa")

\* sceNpDrmRsaModPower: the result of the key is the digest, its last byte first.
AvRsa ==
    /\ av_pc = "rsa" /\ av_pc' = "swap2"
    /\ av_words' = [p \in Places |->
           IF av_genuine /\ p < AvDigest THEN Bswap(WordOf("digest", AvDigest - p - 1))
           ELSE WordOf("padding", p)]
    /\ Calls(AvDigest)

AvSwap2 == __swap_data32("swap2", "compare")

AvCompare ==
    /\ av_pc = "compare"
    /\ av_pc' = IF \E p \in 0..AvDigest - 1 : av_words[p] # WordOf("digest", p) THEN "failed"
                ELSE IF av_np THEN "ok" ELSE "mac"
    /\ UNCHANGED <<av_np, av_version, av_genuine, av_size, av_len, av_i, av_words, av_src>>

\* act_verifier opens the part of the data that is encrypted, and compares the
\* mac in it with that of the data.
AvMac ==
    /\ av_pc = "mac"
    /\ \/ AvFails
       \/ /\ av_pc' = "nvs"
          /\ UNCHANGED <<av_np, av_version, av_genuine, av_size, av_len, av_i, av_words, av_src>>

\* The same for the activation data in the NVS.
AvNvs ==
    /\ av_pc = "nvs"
    /\ \/ AvFails
       \/ /\ av_pc' = "ok"
          /\ UNCHANGED <<av_np, av_version, av_genuine, av_size, av_len, av_i, av_words, av_src>>

AvNext ==
    \/ actVerifierCheckSystemFw \/ AvModule \/ actVerifierReadActData \/ AvKeys
    \/ AvSwap1 \/ AvRsa \/ AvSwap2 \/ AvCompare \/ AvMac \/ AvNvs

AvSpec == AvInit /\ [][AvNext]_avVars

-----------------------------------------------------------------------------
(* Properties *)

\* The data __swap_data32 leaves is what it was called with, last byte first, in
\* the words it was called for, and the same as before in the others, whether
\* their number is even or odd.
SigReversed ==
    av_pc \in {"rsa", "compare"} =>
       \A p \in Places :
          IF p < av_len THEN \A b \in 1..4 : av_words[p][b] = av_src[av_len - p - 1][5 - b]
          ELSE av_words[p] = av_src[p]

\* A verifier past its first check runs on a firmware it has the offsets for,
\* one past the comparison was given data and signature that belong
\* together; and such data is not refused by it.
FwAccepted ==
    /\ av_pc \notin {"fw", "failed"} =>
          av_version >= AvFirst /\ av_version < AvFirst + AvRange
    /\ av_pc \in {"mac", "nvs", "ok"} => av_genuine
    /\ av_pc = "compare" /\ av_genuine =>
          \A p \in 0..AvDigest - 1 : av_words[p] = WordOf("digest", p)

=============================================================================
