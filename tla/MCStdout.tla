------------------------------ MODULE MCStdout ------------------------------
(* Small instances of Stdout for TLC.                                      *)
EXTENDS Stdout

MCNames == {"f", "g"}
MCPieces == {"x", "y"}
MCOutputs == {<<>>, <<"x", "x", "x">>, <<"y">>, <<"y", "x">>}
MCSize == [p \in MCPieces \cup Messages |->
             CASE p = "x" -> 1 [] p = "y" -> 7 [] OTHER -> 2]
=============================================================================
