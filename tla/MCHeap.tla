------------------------------- MODULE MCHeap -------------------------------
(* A small instance of Heap for TLC.                                       *)
EXTENDS Heap

MCRequests == {1, 2, 4}
MCNullSizes == {0, 5, 23}
=============================================================================
