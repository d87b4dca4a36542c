-------------------------------- MODULE Disk --------------------------------
(***************************************************************************)
(* What the file system expects of the disk: one request at a time, a      *)
(* write replaces a sector, a read returns its first bytes.  A request     *)
(* that fails has no effect and tells nobody.                              *)
(***************************************************************************)
EXTENDS Integers, Sequences

CONSTANTS
  Sectors,    \* sector numbers
  SectorSize, \* bytes of a sector
  Zero,       \* the byte that fills up a sector
  Requests    \* what clients ask

VARIABLES
  medium,  \* sector -> its bytes
  request, \* the request being served, or None
  answer   \* what the last read has returned

None == [kind |-> "none"]
Padded(data) == data \o [i \in 1..SectorSize - Len(data) |-> Zero]

Init ==
  /\ medium = [s \in Sectors |-> Padded(<<>>)]
  /\ request = None /\ answer = <<>>

Ask(r) ==
  /\ request = None
  /\ request' = r /\ answer' = <<>>
  /\ UNCHANGED medium

(* The sector is replaced, sooner or later before the write returns.       *)
Store ==
  /\ request.kind = "write"
  /\ medium' = [medium EXCEPT ![request.sector] = Padded(request.data)]
  /\ request' \in {request, None}
  /\ UNCHANGED answer

Answer ==
  /\ request # None /\ request' = None
  /\ answer' \in {<<>>, IF request.kind = "read"
                        THEN SubSeq(medium[request.sector], 1, request.count) ELSE <<>>}
  /\ UNCHANGED medium

Next == (\E r \in Requests : Ask(r)) \/ Store \/ Answer

Spec == Init /\ [][Next]_<<medium, request, answer>>
=============================================================================
