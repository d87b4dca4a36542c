----------------------------- MODULE MCFileData -----------------------------
(* A small instance of FileData for TLC: clusters of two sectors of two    *)
(* bytes, files of up to two clusters, their clusters one after the other  *)
(* or in turns.                                                            *)
EXTENDS FileData

MCFiles == {"p", "q"}
MCTexts == {"t", "u"}
MCLengths == {3, 4, 5}
MCContiguous == [f \in MCFiles |-> IF f = "p" THEN <<2, 3>> ELSE <<4, 5>>]
MCInterleaved == [f \in MCFiles |-> IF f = "p" THEN <<2, 4>> ELSE <<3, 5>>]
MCLayouts == {MCContiguous, MCInterleaved}
=============================================================================
