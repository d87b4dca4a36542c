----------------------------- MODULE MCFatChain -----------------------------
(* Small instances of FatChain for TLC.                                    *)
EXTENDS FatChain
CONSTANTS file1, file2
MCNames == {file1, file2}
MCForeign == {2}
MCSizes == {1, 3}
MCGarbage == {0, 7}
=============================================================================
