----------------------------- MODULE MCDiskCode -----------------------------
(* DiskCode for TLC: bytes of 4 bits and words of 8, so that cylinders have *)
(* 6 bits, sectors 2, heads 4 and sector numbers two words.                 *)
EXTENDS DiskCode

\* Every geometry, for get_geom.
AllDrives == [cyls : 1 .. 64, heads : 1 .. 16, spt : 0 .. 3]

\* Two sectors at every seventh sector of some drives, across the word boundary,
\* and none.
SomeDrives == {[cyls |-> 64, heads |-> 2, spt |-> 3], [cyls |-> 6, heads |-> 16, spt |-> 3],
               [cyls |-> 64, heads |-> 16, spt |-> 1], [cyls |-> 5, heads |-> 1, spt |-> 2],
               [cyls |-> 3, heads |-> 2, spt |-> 0]}
Starts == {7 * i : i \in 0 .. 146} \cup {254, 255, 510, 511, 1022}

SomeCases == {<<d, 0, 0>> : d \in AllDrives} \cup {<<d, n, n + 2>> : d \in SomeDrives, n \in Starts}
=============================================================================
