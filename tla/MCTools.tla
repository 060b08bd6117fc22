------------------------------- MODULE MCTools -------------------------------
(* Small instances of the tools. *)
EXTENDS Tools

\* A partition of a whole buffer and a rest, one that fills its last buffer, one
\* too large to measure.
MCDeviceSize == <<3, 4, 6>>

MCMessage == {"text", "data", "", "number", "name", "unk", "FAT16", "exFAT", "unk_B4",
              "blk_size", "path", "size", "blk_name", "time", "offset", "full", "long"}

\* Lengths of which some fill the buffer to its last byte; full is as long as
\* the buffer, long is longer.
MCAsked ==
    [m \in MCMessage |-> CASE m = "" -> 1 [] m = "path" -> 100 [] m \in {"time", "offset"} -> 40
                           [] m = "blk_size" -> 50 [] m = "full" -> 118 [] m = "long" -> 119
                           [] OTHER -> 29]

MCReports ==
    {ExfatReport(<<"name">>, <<"FAT16">>, <<[path |-> TRUE, fs |-> "FAT16"]>>),
     ExfatReport(<<>>, <<"unk_B4">>, <<[path |-> FALSE, fs |-> "exFAT"]>>),
     ExfatReport(<<"full", "name">>, <<>>, <<>>), ExfatReport(<<"long">>, <<>>, <<>>),
     SdstorReport(1, 1, 1), IofilemgrReport(FALSE), IofilemgrReport(TRUE)}

\* An entry whose end is not at that of a sector, and one that fills its own.
MCSlbHeader ==
    [ina |-> <<[name |-> "a", pos |-> 1, size |-> 3], [name |-> "b", pos |-> 3, size |-> 1]>>,
     act |-> <<[name |-> "c", pos |-> 1, size |-> 2]>>]

\* Images with a rest behind the last chunk and without, one too large to copy.
MCDpSize == [ina |-> 8, act |-> 5, idstor |-> 9, nvs |-> 3, vid |-> 2, leaf |-> 2]

MCLeaves == <<"leaf00000", "leaf00001">>

MCDir == <<"dir/a", "dir/b">>
MCFixed == <<"host0:module", "ux0:module">>

\* 2, 03 and, where a number has four bits, 17 = 1.
MCTyped == {<<2>>, <<0, 3>>, <<1, 7>>}

\* Versions at both ends of the range and of the numbers.
MCVersions == {0, 13823, 13824, 14143, 14144, 1048575}

=============================================================================
