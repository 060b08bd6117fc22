------------------------------- MODULE MCHostFs -------------------------------
(***************************************************************************)
(* Modules for TLC: two of one name and one whose name begins with '0'.    *)
(* The paths reach every kind of file; items, cells and the other vnodes   *)
(* are interchangeable.                                                    *)
(***************************************************************************)
EXTENDS HostFs, TLC

MCSharedName == <<1, 1, 2>>
MCSharedSize == [s \in Segment |-> IF s \in {<<1, 0>>, <<2, 0>>, <<3, 1>>} THEN 1 ELSE 0]

MCStatFileSize == [f \in StatFile |-> IF f = "map_conf1" THEN 2 * WordBytes
                                     ELSE IF f = "random" THEN 1 ELSE 0]

MCNamed == {<<"kernel modules">>, <<"kernel modules", <<1, 0>>>>,
            <<"kernel modules", ZERO>>, <<"map_conf">>, <<"map_conf", "map_conf1">>,
            <<"map_conf", "map_mem1">>}

MCMaxOpens == [n \in Node |-> IF n = Root THEN 1 ELSE 2]

MCSymmetry == Permutations(Item) \cup Permutations(Cell) \cup Permutations(Node \ {Root})

=============================================================================
