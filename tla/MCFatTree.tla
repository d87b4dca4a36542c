----------------------------- MODULE MCFatTree -----------------------------
(* A small instance of FatTree for TLC: paths that go down, up, nowhere    *)
(* and round about; directories that are full with two entries, the root   *)
(* with three.                                                             *)
EXTENDS FatTree

MCNames == {"a", "b", "c"}
MCParts == {<<>>, <<"a">>, <<"..">>, <<".", "..", "b">>}
MCClusters == 2..5
=============================================================================
