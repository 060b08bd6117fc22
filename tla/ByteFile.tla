------------------------------ MODULE ByteFile ------------------------------
(***************************************************************************)
(* What the RAM file system promises of one regular file: a sequence of    *)
(* bytes, and a position in it for every open file object.  A write        *)
(* replaces bytes from some position on and extends the file when it runs  *)
(* past the end; nothing else changes a byte.                              *)
(***************************************************************************)
EXTENDS Naturals, Sequences

CONSTANTS Fd,      \* file objects
          Byte,    \* values a byte can take
          MaxSize  \* bound on the size of the file

VARIABLES content, position

Overwrite(s, at, n, b) ==
    [i \in 1..(IF at + n > Len(s) THEN at + n ELSE Len(s)) |->
        IF i \in (at + 1)..(at + n) THEN b ELSE s[i]]

Init == content = <<>> /\ position = [f \in Fd |-> 0]

\* n bytes, all b, from position at on; write moves the position behind them.
Write(f, at, n, b) ==
    /\ content' = Overwrite(content, at, n, b)
    /\ position' \in {position, [position EXCEPT ![f] = at + n]}

\* Opening, seeking and reading move the position within the file.
Move(f) ==
    /\ \E p \in 0..Len(content) : position' = [position EXCEPT ![f] = p]
    /\ UNCHANGED content

Next ==
    \E f \in Fd :
        \/ Move(f)
        \/ \E at \in 0..Len(content), b \in Byte :
              \E n \in 0..(MaxSize - at) : Write(f, at, n, b)

Spec == Init /\ [][Next]_<<content, position>>

=============================================================================
