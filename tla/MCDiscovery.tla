---------------------------- MODULE MCDiscovery ----------------------------
(***************************************************************************)
(* Discovery with a version of each stability, one of them too large for   *)
(* u32 and so not conformant.                                              *)
(***************************************************************************)
EXTENDS Discovery

MCVersionName == {"v1", "v2beta1", "v9"}

Text(place, major, letters, minor) ==
    [text |-> place, v |-> TRUE, major |-> <<major>>, letters |-> letters, minor |-> minor]

MCParts ==
    [v1 |-> Text(1, 1, "", << >>), v2beta1 |-> Text(2, 2, "beta", <<1>>), v9 |-> Text(3, 9, "", << >>)]

=============================================================================
