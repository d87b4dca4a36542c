------------------------------ MODULE KeyQueue ------------------------------
(***************************************************************************)
(* What the keyboard driver promises its clients                           *)
(* (src/src/drivers/keyboard.c): key packets come out in the order they    *)
(* went in, each once and whole; when Capacity of them wait, a new one     *)
(* displaces the oldest.                                                   *)
(***************************************************************************)
EXTENDS Naturals, Sequences

CONSTANTS Packets, Capacity

VARIABLES
  queue, \* the packets that wait
  got    \* the packets fetched so far

vars == <<queue, got>>

Init == queue = <<>> /\ got = <<>>

Put(p) ==
  /\ queue' = Append(IF Len(queue) = Capacity THEN Tail(queue) ELSE queue, p)
  /\ UNCHANGED got

Get ==
  /\ queue # <<>>
  /\ got' = Append(got, Head(queue))
  /\ queue' = Tail(queue)

Next == Get \/ \E p \in Packets : Put(p)

Spec == Init /\ [][Next]_vars
=============================================================================
