------------------------------ MODULE AtaProofs ------------------------------
(***************************************************************************)
(* Proofs about Ata, for every sector size, every set of sectors and every *)
(* data: the types of its variables, and that the driver and the drive     *)
(* together implement Disk, provided that the drive is ready for the first *)
(* word of a write (InTime) and that the next request comes after a write  *)
(* that is not flushed is done (Patient).                                  *)
(***************************************************************************)
EXTENDS Ata, SequenceTheorems, TLAPS

(* The types, with what they rest on: the loop variable and the transfer   *)
(* proceed by whole words, and the function called is that of the request. *)
DeviceOK ==
  /\ medium \in [Sectors -> [1..SectorSize -> Bytes]] /\ address \in Sectors
  /\ drive \in {"idle", "busy", "in", "out"} /\ err \in BOOLEAN
  /\ command \in {"none", "READ", "WRITE", "FLUSH", "IDENTIFY"}
  /\ fifo \in Seq(Bytes) /\ Len(fifo) <= SectorSize /\ Len(fifo) % 2 = 0
  /\ drive = "in" => Len(fifo) >= 2
  /\ drive = "out" => Len(fifo) < SectorSize

Serving ==
  /\ step = "idle" <=> doing = "none"
  /\ step # "idle" => request.kind = IF doing = "flush" THEN "write" ELSE doing
  /\ step = "poll" => doing # "write"
  /\ step \in {"data", "rest"} => doing # "flush"
  /\ step \in {"select", "command", "poll"} => i = 0 /\ buff = <<>>
  /\ doing \in {"write", "flush", "identify"} => buff = <<>>
  /\ step = "data" => Len(buff) <= i

HostOK ==
  /\ request \in Requests \cup {None} /\ doing \in {"none", "read", "write", "flush", "identify"}
  /\ step \in {"idle", "select", "command", "poll", "data", "rest"}
  /\ i \in 0..SectorSize /\ i % 2 = 0
  /\ buff \in Seq(Bytes) /\ Len(buff) <= SectorSize
  /\ Serving

TypeInv == DeviceOK /\ HostOK

(* The bytes a write puts on the medium, and a drive that has got all of   *)
(* them and is about to store them.                                        *)
Image == Sector!Padded(request.data)

Complete ==
  /\ drive = "busy" /\ command = "WRITE" /\ fifo = Image
  /\ request.kind = "write" /\ address = request.sector

(* Where the drive can be while the host is at each of its steps.          *)
Resting == step = "idle" => drive = "idle" \/ (Complete /\ buff = <<>>)

Addressing ==
  step \in {"select", "command"} =>
    /\ drive = "idle" \/ (doing = "flush" /\ Complete)
    /\ step = "command" /\ doing \in {"read", "write"} => address = request.sector

Polling ==
  step = "poll" =>
    /\ doing = "read" =>
         /\ command = "READ" /\ address = request.sector /\ drive # "out"
         /\ drive = "in" => fifo = medium[address]
    /\ doing = "identify" =>
         /\ command = "IDENTIFY" /\ drive # "out"
         /\ drive = "in" => Len(fifo) = SectorSize
    /\ doing \in {"read", "identify"} => (drive = "idle" => err)
    /\ doing = "flush" =>
         drive = "idle" \/ Complete \/ (drive = "busy" /\ command = "FLUSH")

Reading ==
  step \in {"data", "rest"} /\ doing = "read" =>
    /\ address = request.sector
    /\ \/ drive = "in" /\ i < SectorSize /\ fifo = SubSeq(medium[address], i + 1, SectorSize)
       \/ drive = "idle" /\ i = SectorSize
    /\ buff = SubSeq(medium[address], 1, IF i <= request.count THEN i ELSE request.count)
    /\ IF step = "data" THEN i <= request.count + 1 ELSE i >= request.count

Identifying ==
  step \in {"data", "rest"} /\ doing = "identify" =>
    /\ \/ drive = "in" /\ i < SectorSize /\ Len(fifo) = SectorSize - i
       \/ drive = "idle" /\ i = SectorSize
    /\ step = "data" => i = 0

Writing ==
  step \in {"data", "rest"} /\ doing = "write" =>
    /\ address = request.sector
    /\ \/ drive = "idle"
       \/ Complete /\ i = SectorSize
       \/ /\ drive = "out" /\ command = "WRITE"
          /\ i < SectorSize /\ fifo = SubSeq(Image, 1, i)
       \/ /\ drive = "busy" /\ command = "WRITE"
          /\ i = 0 /\ fifo = <<>> /\ step = "data"
    /\ IF step = "data" THEN i <= Len(request.data) + 1 ELSE i >= Len(request.data)

(* The inductive invariant behind the refinement.                          *)
DiskInv ==
  /\ TypeInv
  /\ err => drive = "idle"
  /\ Resting /\ Addressing /\ Polling /\ Reading /\ Identifying /\ Writing

-----------------------------------------------------------------------------
(* Whole words: an even number stays one, and does not jump over another.  *)
LEMMA EvenSteps ==
  ASSUME NEW n \in Nat, n % 2 = 0
  PROVE  /\ (n + 2) % 2 = 0
         /\ n >= 2 => (n - 2) % 2 = 0 /\ (n # 2 => n - 2 >= 2)
         /\ \A m \in Nat : m % 2 = 0 /\ n < m => n + 2 <= m
  OBVIOUS

(* The requests by their kinds.                                            *)
LEMMA RequestKinds ==
  ASSUME NEW r \in Requests
  PROVE  /\ r.kind \in {"read", "write", "identify"}
         /\ r.kind = "read" => r.sector \in Sectors /\ r.count \in 1..SectorSize
         /\ r.kind = "write" => /\ r.sector \in Sectors /\ r.data \in Data
                                /\ r.flushed \in BOOLEAN
                                /\ r.data \in Seq(Bytes) /\ Len(r.data) \in 1..SectorSize
  <1>1. /\ r.kind \in {"read", "write", "identify"}
        /\ r.kind = "read" => r.sector \in Sectors /\ r.count \in 1..SectorSize
        /\ r.kind = "write" => /\ r.sector \in Sectors /\ r.data \in Data
                               /\ r.flushed \in BOOLEAN
        BY DEF Requests
  <1> QED BY <1>1, AtaAssumption

(* The bytes the host and the drive exchange.                              *)
LEMMA ByteTypes ==
  /\ Zero \in Bytes /\ Garbage \in Bytes
  /\ SectorSize \in Nat \ {0} /\ SectorSize % 2 = 0
  /\ Identity \in Seq(Bytes) /\ Len(Identity) = SectorSize
  /\ <<>> \in Seq(Bytes) /\ Len(<<>>) = 0
  BY AtaAssumption, EmptySeq DEF Bytes

(* A word put at the end of the bytes sent so far.                         *)
LEMMA WordAppended ==
  ASSUME NEW s \in Seq(Bytes), NEW x \in Bytes, NEW y \in Bytes
  PROVE  /\ s \o <<x, y>> \in Seq(Bytes)
         /\ Len(s \o <<x, y>>) = Len(s) + 2
         /\ \A k \in 1..Len(s) : (s \o <<x, y>>)[k] = s[k]
         /\ (s \o <<x, y>>)[Len(s) + 1] = x
         /\ (s \o <<x, y>>)[Len(s) + 2] = y
  <1>1. <<x, y>> \in Seq(Bytes) /\ Len(<<x, y>>) = 2
        OBVIOUS
  <1>2. Len(s) \in Nat
        BY LenProperties
  <1> QED BY <1>1, <1>2, ConcatProperties

(* A word taken from the front of the bytes to come.                       *)
LEMMA WordTaken ==
  ASSUME NEW s \in Seq(Bytes), Len(s) >= 2
  PROVE  /\ SubSeq(s, 3, Len(s)) \in Seq(Bytes)
         /\ Len(SubSeq(s, 3, Len(s))) = Len(s) - 2
         /\ SubSeq(s, 1, 2) = <<s[1], s[2]>>
         /\ s[1] \in Bytes /\ s[2] \in Bytes
  <1>1. /\ Len(s) \in Nat /\ \A k \in 1..Len(s) : s[k] \in Bytes
        BY LenProperties, ElementOfSeq
  <1>2. /\ SubSeq(s, 3, Len(s)) \in Seq(Bytes)
        /\ Len(SubSeq(s, 3, Len(s))) = Len(s) - 2
    <2>1. \A k \in 3..Len(s) : s[k] \in Bytes
          BY <1>1
    <2> DEFINE n == Len(s)
    <2>2. 3 \in Int /\ n \in Int /\ n >= 2 /\ \A k \in 3..n : s[k] \in Bytes
          BY <1>1, <2>1
    <2> HIDE DEF n
    <2>3. /\ SubSeq(s, 3, n) \in Seq(Bytes)
          /\ Len(SubSeq(s, 3, n)) = IF 3 <= n THEN n - 3 + 1 ELSE 0
          BY <2>2, SubSeqProperties
    <2>4. Len(SubSeq(s, 3, n)) = n - 2
          BY <2>2, <2>3
    <2> QED BY <2>3, <2>4 DEF n
  <1>3. /\ SubSeq(s, 1, 2) \in Seq(Bytes) /\ Len(SubSeq(s, 1, 2)) = 2
        /\ SubSeq(s, 1, 2)[1] = s[1] /\ SubSeq(s, 1, 2)[2] = s[2]
        BY <1>1, SubSeqProperties
  <1>4. SubSeq(s, 1, 2) = <<s[1], s[2]>>
    <2> DEFINE t == SubSeq(s, 1, 2)
               u == <<s[1], s[2]>>
    <2>1. u \in Seq(Bytes) /\ Len(u) = 2 /\ u[1] = s[1] /\ u[2] = s[2]
          BY <1>1
    <2>2. t \in Seq(Bytes) /\ Len(t) = 2 /\ t[1] = s[1] /\ t[2] = s[2]
          BY <1>3
    <2> HIDE DEF t, u
    <2>3. \A k \in 1..Len(t) : t[k] = u[k]
          BY <2>1, <2>2
    <2>4. t = u
          BY <2>1, <2>2, <2>3, SeqEqual
    <2> QED BY <2>4 DEF t, u
  <1> QED BY <1>1, <1>2, <1>4

(* Port accesses keep the device in order.                                 *)
LEMMA TakesWordOK ==
  ASSUME DeviceOK, NEW x \in Bytes, NEW y \in Bytes, TakesWord(<<x, y>>)
  PROVE  DeviceOK'
  <1>1. CASE drive = "out"
    <2>1. /\ fifo' = fifo \o <<x, y>>
          /\ drive' = IF Len(fifo) + 2 = SectorSize THEN "busy" ELSE "out"
          /\ UNCHANGED <<medium, err, address, command>>
          BY <1>1 DEF TakesWord
    <2>2. fifo' \in Seq(Bytes) /\ Len(fifo') = Len(fifo) + 2
          BY <2>1, WordAppended DEF DeviceOK
    <2>3. /\ Len(fifo) \in Nat /\ Len(fifo) < SectorSize /\ Len(fifo) % 2 = 0
          /\ SectorSize \in Nat /\ SectorSize % 2 = 0
          BY <1>1, ByteTypes, LenProperties DEF DeviceOK
    <2>4. /\ (Len(fifo) + 2) % 2 = 0 /\ Len(fifo) + 2 <= SectorSize
          /\ Len(fifo) + 2 # SectorSize => Len(fifo) + 2 < SectorSize
          BY <2>3, EvenSteps
    <2>5. /\ Len(fifo') % 2 = 0 /\ Len(fifo') <= SectorSize
          /\ drive' \in {"busy", "out"} /\ (drive' = "out" => Len(fifo') < SectorSize)
          BY <2>1, <2>2, <2>4
    <2> QED BY <2>1, <2>2, <2>5 DEF DeviceOK
  <1>2. CASE drive # "out"
        BY <1>2 DEF TakesWord, device, DeviceOK
  <1> QED BY <1>1, <1>2

LEMMA GivesWordOK ==
  ASSUME DeviceOK, GivesWord
  PROVE  /\ DeviceOK'
         /\ \E x, y \in Bytes : WordThere = <<x, y>>
  <1>1. CASE drive = "in"
    <2>1. /\ fifo' = SubSeq(fifo, 3, Len(fifo))
          /\ drive' = IF Len(fifo) = 2 THEN "idle" ELSE "in"
          /\ UNCHANGED <<medium, err, address, command>>
          BY <1>1 DEF GivesWord
    <2>2. /\ fifo \in Seq(Bytes) /\ Len(fifo) >= 2
          /\ Len(fifo) \in Nat /\ Len(fifo) <= SectorSize /\ Len(fifo) % 2 = 0
          /\ SectorSize \in Nat /\ SectorSize % 2 = 0
          BY <1>1, ByteTypes, LenProperties DEF DeviceOK
    <2>3. fifo' \in Seq(Bytes) /\ Len(fifo') = Len(fifo) - 2
          BY <2>1, <2>2, WordTaken
    <2>4. /\ (Len(fifo) - 2) % 2 = 0 /\ Len(fifo) - 2 <= SectorSize
          /\ Len(fifo) # 2 => Len(fifo) - 2 >= 2
      <3> DEFINE n == Len(fifo)
      <3>1. n \in Nat /\ n % 2 = 0 /\ n >= 2 /\ n <= SectorSize /\ SectorSize \in Nat
            BY <2>2
      <3> HIDE DEF n
      <3>2. (n - 2) % 2 = 0 /\ n - 2 <= SectorSize /\ (n # 2 => n - 2 >= 2)
            BY <3>1, EvenSteps
      <3> QED BY <3>2 DEF n
    <2>5. DeviceOK'
          BY <2>1, <2>3, <2>4 DEF DeviceOK
    <2>6. WordThere = <<fifo[1], fifo[2]>> /\ fifo[1] \in Bytes /\ fifo[2] \in Bytes
          BY <1>1, <2>2, WordTaken DEF WordThere
    <2> QED BY <2>5, <2>6
  <1>2. CASE drive # "in"
        BY <1>2, ByteTypes DEF GivesWord, WordThere, device, DeviceOK
  <1> QED BY <1>1, <1>2

(* The drive keeps itself in order.                                        *)
LEMMA DriveOK ==
  ASSUME DeviceOK, Drive
  PROVE  DeviceOK' /\ UNCHANGED host
  <1>1. UNCHANGED <<address, command, host>>
        BY DEF Drive
  <1>2. CASE Fail \/ Finish
        BY <1>1, <1>2 DEF Fail, Finish, DeviceOK
  <1>5. CASE Len(fifo) < SectorSize /\ Ready
        BY <1>1, <1>5 DEF Ready, DeviceOK
  <1>3. CASE Len(fifo) = SectorSize /\ Store
    <2>1. fifo \in [1..SectorSize -> Bytes]
          BY <1>3, LenProperties DEF DeviceOK
    <2> QED BY <1>1, <1>3, <2>1 DEF Store, DeviceOK
  <1>4. CASE Fetch
    <2>1. medium[address] \in [1..SectorSize -> Bytes]
          BY DEF DeviceOK
    <2>2. medium[address] \in Seq(Bytes) /\ Len(medium[address]) = SectorSize
          BY <2>1, ByteTypes
    <2>3. fifo' \in Seq(Bytes) /\ Len(fifo') = SectorSize
          BY <1>4, <2>2, ByteTypes DEF Fetch
    <2>4. SectorSize >= 2
          BY ByteTypes
    <2>5. Len(fifo') % 2 = 0 /\ Len(fifo') <= SectorSize /\ Len(fifo') >= 2
          BY <2>3, <2>4, ByteTypes
    <2> QED BY <1>1, <1>4, <2>3, <2>5 DEF Fetch, DeviceOK
  <1> QED BY <1>1, <1>2, <1>3, <1>4, <1>5 DEF Drive

(* What the host's state says of its request.                              *)
LEMMA RequestServed ==
  ASSUME HostOK, step # "idle"
  PROVE  /\ request \in Requests /\ doing \in {"read", "write", "flush", "identify"}
         /\ doing = "read" => request.sector \in Sectors /\ request.count \in 1..SectorSize
         /\ doing \in {"write", "flush"} =>
              /\ request.kind = "write"
              /\ request.sector \in Sectors /\ request.data \in Data /\ request.flushed \in BOOLEAN
              /\ request.data \in Seq(Bytes) /\ Len(request.data) \in 1..SectorSize
         /\ doing \in {"read", "identify"} => request.kind = doing
         /\ i \in Nat /\ i <= SectorSize /\ i % 2 = 0
  <1>1. doing \in {"read", "write", "flush", "identify"} /\ request.kind # "none"
        BY DEF HostOK, Serving
  <1>2. request \in Requests
        BY <1>1 DEF HostOK, None
  <1>3. i \in Nat /\ i <= SectorSize /\ i % 2 = 0
        BY ByteTypes DEF HostOK
  <1>4. /\ doing \in {"write", "flush"} => request.kind = "write"
        /\ doing \in {"read", "identify"} => request.kind = doing
        BY <1>1 DEF HostOK, Serving
  <1> QED BY <1>1, <1>2, <1>3, <1>4, RequestKinds

(* The end of a function leaves the host at rest, or at its next function. *)
LEMMA ReturnOK ==
  ASSUME HostOK, step # "idle", Return, UNCHANGED buff
  PROVE  HostOK'
  <1>1. CASE doing = "write" /\ request.flushed
        BY <1>1, ByteTypes DEF Return, HostOK, Serving
  <1>2. CASE ~(doing = "write" /\ request.flushed)
        BY <1>2, ByteTypes DEF Return, HostOK, Serving
  <1> QED BY <1>1, <1>2

LEMMA BeginOK ==
  ASSUME TypeInv, NEW r \in Requests, Begin(r)
  PROVE  TypeInv'
  <1>1. DeviceOK'
        BY DEF TypeInv, Begin, device, DeviceOK
  <1>2. HostOK'
        BY RequestKinds, ByteTypes DEF TypeInv, Begin, HostOK, Serving
  <1> QED BY <1>1, <1>2 DEF TypeInv

LEMMA SelectOK ==
  ASSUME TypeInv, Select
  PROVE  TypeInv'
  <1>1. address' \in Sectors
        BY RequestServed DEF TypeInv, DeviceOK, Select
  <1>2. DeviceOK'
        BY <1>1 DEF TypeInv, Select, DeviceOK
  <1>3. HostOK'
        BY DEF TypeInv, Select, HostOK, Serving
  <1> QED BY <1>2, <1>3 DEF TypeInv

LEMMA IssueOK ==
  ASSUME TypeInv, Issue
  PROVE  TypeInv'
  <1>1. CommandOf[doing] \in {"READ", "WRITE", "FLUSH", "IDENTIFY"}
        BY RequestServed DEF TypeInv, Issue, CommandOf
  <1>2. DeviceOK'
    <2>1. CASE drive = "idle"
      <3>1. 0 % 2 = 0 /\ 0 <= SectorSize
            BY ByteTypes
      <3>2. fifo' \in Seq(Bytes) /\ Len(fifo') <= SectorSize /\ Len(fifo') % 2 = 0
            BY <2>1, <3>1, ByteTypes DEF Issue, TakesCommand
      <3> QED BY <1>1, <2>1, <3>2 DEF TypeInv, Issue, TakesCommand, DeviceOK
    <2>2. CASE drive # "idle"
          BY <2>2 DEF TypeInv, Issue, TakesCommand, device, DeviceOK
    <2> QED BY <2>1, <2>2
  <1>3. HostOK'
        BY RequestServed DEF TypeInv, Issue, HostOK, Serving
  <1> QED BY <1>2, <1>3 DEF TypeInv

LEMMA PollOK ==
  ASSUME TypeInv, Poll
  PROVE  TypeInv'
  <1>1. DeviceOK' /\ buff' = buff /\ step = "poll" /\ HostOK
        BY DEF TypeInv, Poll, device, DeviceOK
  <1>2. CASE Return
        BY <1>1, <1>2, ReturnOK DEF TypeInv
  <1>3. CASE UNCHANGED <<request, doing, step, i>>
        BY <1>1, <1>3 DEF TypeInv, HostOK, Serving
  <1>4. CASE ~(err \/ doing = "flush") /\ step' = "data" /\ UNCHANGED <<request, doing, i>>
        BY <1>1, <1>4, ByteTypes DEF TypeInv, HostOK, Serving
  <1> QED BY <1>2, <1>3, <1>4 DEF Poll

(* The number of bytes asked for, in the sector.                           *)
LEMMA CountInSector ==
  ASSUME HostOK, step \in {"data", "rest"}
  PROVE  /\ Count \in Nat /\ Count <= SectorSize
         /\ doing = "read" => Count = request.count
         /\ doing = "write" => Count = Len(request.data)
         /\ doing = "identify" => Count = 0
         /\ doing \in {"read", "write", "identify"}
  <1>1. doing \in {"read", "write", "identify"}
        BY RequestServed DEF HostOK, Serving
  <1> QED BY <1>1, RequestServed, ByteTypes DEF Count

(* The words of the data, the last one filled up.                          *)
LEMMA WordAtBytes ==
  ASSUME HostOK, step \in {"data", "rest"}, doing = "write", NEW k \in Nat, k < Count
  PROVE  \E x, y \in Bytes : WordAt(k) = <<x, y>>
  <1>1. /\ request.data \in Seq(Bytes) /\ Len(request.data) \in Nat
        /\ Count = Len(request.data)
        BY RequestServed, CountInSector
  <1>2. request.data[k + 1] \in Bytes
        BY <1>1, ElementOfSeq
  <1>3. k + 1 < Count => request.data[k + 2] \in Bytes
        BY <1>1, ElementOfSeq
  <1> QED BY <1>2, <1>3, ByteTypes DEF WordAt

LEMMA WordParts ==
  ASSUME NEW x \in Bytes, NEW y \in Bytes
  PROVE  /\ SubSeq(<<x, y>>, 1, 2) = <<x, y>>
         /\ SubSeq(<<x, y>>, 1, 1) = <<x>>
  <1> DEFINE s == <<x, y>>
             t == SubSeq(s, 1, 1)
             u == <<x>>
  <1>1. s \in Seq(Bytes) /\ Len(s) = 2 /\ s[1] = x /\ s[2] = y
        OBVIOUS
  <1>2. u \in Seq(Bytes) /\ Len(u) = 1 /\ u[1] = x
        OBVIOUS
  <1>3. SubSeq(s, 1, Len(s)) = s
        BY <1>1, SubSeqFull
  <1>4. t \in Seq(Bytes) /\ Len(t) = 1 /\ t[1] = x
    <2> HIDE DEF s
    <2>1. \A k \in 1..1 : s[k] \in Bytes
          BY <1>1
    <2> QED BY <1>1, <2>1, SubSeqProperties
  <1>5. t = u
    <2> HIDE DEF t, u
    <2>1. \A k \in 1..Len(t) : t[k] = u[k]
          BY <1>2, <1>4
    <2> QED BY <1>2, <1>4, <2>1, SeqEqual
  <1> QED BY <1>1, <1>3, <1>5

LEMMA TransferOK ==
  ASSUME TypeInv, Transfer
  PROVE  TypeInv'
  <1>1. /\ DeviceOK /\ HostOK /\ step = "data" /\ i < Count /\ i' = i + 2
        /\ UNCHANGED <<request, doing, step>>
        BY DEF TypeInv, Transfer
  <1>2. /\ Count \in Nat /\ Count <= SectorSize /\ doing \in {"read", "write"}
        /\ i \in Nat /\ i % 2 = 0 /\ SectorSize \in Nat /\ SectorSize % 2 = 0
        BY <1>1, CountInSector, RequestServed, ByteTypes
  <1>3. i' \in 0..SectorSize /\ i' % 2 = 0
        BY <1>1, <1>2, EvenSteps
  <1>4. CASE doing = "read"
    <2>1. /\ buff' = buff \o SubSeq(WordThere, 1, IF i + 1 < Count THEN 2 ELSE 1)
          /\ GivesWord
          BY <1>1, <1>4 DEF Transfer
    <2>2. PICK x, y \in Bytes : WordThere = <<x, y>>
          BY <1>1, <2>1, GivesWordOK
    <2>3. DeviceOK'
          BY <1>1, <2>1, GivesWordOK
    <2> DEFINE w == SubSeq(WordThere, 1, IF i + 1 < Count THEN 2 ELSE 1)
    <2>4. w = <<x, y>> \/ w = <<x>>
          BY <2>2, WordParts
    <2>5. w \in Seq(Bytes) /\ Len(w) \in 1..2
      <3>1. <<x, y>> \in Seq(Bytes) /\ Len(<<x, y>>) \in 1..2
            OBVIOUS
      <3>2. <<x>> \in Seq(Bytes) /\ Len(<<x>>) \in 1..2
            OBVIOUS
      <3> HIDE DEF w
      <3> QED BY <2>4, <3>1, <3>2
    <2> HIDE DEF w
    <2>6. buff \in Seq(Bytes) /\ Len(buff) \in Nat /\ Len(buff) <= i
          BY <1>1, LenProperties DEF HostOK, Serving
    <2>7. buff' \in Seq(Bytes) /\ Len(buff') = Len(buff) + Len(w)
          BY <2>1, <2>5, <2>6, ConcatProperties DEF w
    <2>8. Len(buff') <= i' /\ Len(buff') <= SectorSize
      <3> DEFINE n == Len(buff)
                 m == Len(w)
      <3>1. n \in Nat /\ n <= i /\ m \in 1..2 /\ Len(buff') = n + m
            BY <2>5, <2>6, <2>7
      <3> HIDE DEF n, m
      <3> QED BY <1>1, <1>2, <1>3, <3>1
    <2>9. HostOK'
          BY <1>1, <1>3, <1>4, <2>7, <2>8 DEF HostOK, Serving
    <2> QED BY <2>3, <2>9 DEF TypeInv
  <1>5. CASE doing = "write"
    <2>1. TakesWord(WordAt(i)) /\ buff' = buff /\ buff = <<>>
          BY <1>1, <1>5 DEF Transfer, HostOK, Serving
    <2>2. PICK x, y \in Bytes : WordAt(i) = <<x, y>>
          BY <1>1, <1>2, <1>5, WordAtBytes
    <2>3. DeviceOK'
          BY <1>1, <2>1, <2>2, TakesWordOK
    <2>4. HostOK'
          BY <1>1, <1>2, <1>3, <1>5, <2>1, ByteTypes DEF HostOK, Serving
    <2> QED BY <2>3, <2>4 DEF TypeInv
  <1> QED BY <1>2, <1>4, <1>5

(* The next whole word after the bytes asked for.                          *)
LEMMA EvenUp ==
  ASSUME NEW n \in Nat, NEW m \in Nat, m % 2 = 0, n <= m
  PROVE  /\ n + (n % 2) \in Nat /\ n + (n % 2) <= m /\ (n + (n % 2)) % 2 = 0
         /\ m <= n + 1 => n + (n % 2) = m
  OBVIOUS

LEMMA StartRestOK ==
  ASSUME TypeInv, StartRest
  PROVE  TypeInv'
  <1>1. /\ HostOK /\ step = "data" /\ step' = "rest" /\ i' = Count + (Count % 2)
        /\ UNCHANGED <<device, request, doing, buff>>
        BY DEF TypeInv, StartRest
  <1>2. i' \in 0..SectorSize /\ i' % 2 = 0
        BY <1>1, CountInSector, ByteTypes, EvenUp
  <1>3. DeviceOK'
        BY <1>1 DEF TypeInv, device, DeviceOK
  <1>4. HostOK'
        BY <1>1, <1>2 DEF HostOK, Serving
  <1> QED BY <1>3, <1>4 DEF TypeInv

LEMMA RestOK ==
  ASSUME TypeInv, Rest
  PROVE  TypeInv'
  <1>1. /\ DeviceOK /\ HostOK /\ step = "rest" /\ buff' = buff
        BY DEF TypeInv, Rest
  <1>2. CASE More
    <2>1. /\ i' = i + 2 /\ UNCHANGED <<request, doing, step>>
          /\ IF doing = "write" THEN TakesWord(<<Zero, Zero>>) ELSE GivesWord
          BY <1>2 DEF Rest
    <2>2. DeviceOK'
          BY <1>1, <2>1, TakesWordOK, GivesWordOK, ByteTypes
    <2>3. i' \in 0..SectorSize /\ i' % 2 = 0
      <3>1. /\ i \in Nat /\ i % 2 = 0 /\ i < SectorSize
            /\ SectorSize \in Nat /\ SectorSize % 2 = 0
            BY <1>1, <1>2, RequestServed, ByteTypes DEF More
      <3> QED BY <2>1, <3>1, EvenSteps
    <2>4. HostOK'
          BY <1>1, <2>1, <2>3 DEF HostOK, Serving
    <2> QED BY <2>2, <2>4 DEF TypeInv
  <1>3. CASE ~More
    <2>1. Return /\ UNCHANGED device
          BY <1>3 DEF Rest
    <2> QED BY <1>1, <2>1, ReturnOK DEF TypeInv, device, DeviceOK
  <1> QED BY <1>2, <1>3

LEMMA InitTypeInv == Init => TypeInv
  <1> SUFFICES ASSUME Init PROVE TypeInv
      OBVIOUS
  <1>1. medium \in [Sectors -> [1..SectorSize -> Bytes]]
        BY ByteTypes DEF Init, Blank
  <1>2. DeviceOK
    <2>1. 0 % 2 = 0 /\ 0 <= SectorSize
          BY ByteTypes
    <2>2. fifo \in Seq(Bytes) /\ Len(fifo) <= SectorSize /\ Len(fifo) % 2 = 0
          BY <2>1, ByteTypes DEF Init
    <2> QED BY <1>1, <2>2 DEF Init, DeviceOK
  <1>3. HostOK
        BY ByteTypes DEF Init, HostOK, Serving
  <1> QED BY <1>2, <1>3 DEF TypeInv

(* Every step of the driver and of the drive preserves the types.          *)
LEMMA TypeInvStep == TypeInv /\ [Next]_vars => TypeInv'
  <1> SUFFICES ASSUME TypeInv, [Next]_vars PROVE TypeInv'
      OBVIOUS
  <1>1. ASSUME NEW r \in Requests, Begin(r) PROVE TypeInv'
        BY <1>1, BeginOK
  <1>2. CASE Host
        BY <1>2, SelectOK, IssueOK, PollOK, TransferOK, StartRestOK, RestOK DEF Host
  <1>3. CASE Drive
        BY <1>3, DriveOK DEF TypeInv, host, HostOK, Serving
  <1>4. CASE UNCHANGED vars
        BY <1>4 DEF vars, device, host, TypeInv, DeviceOK, HostOK, Serving
  <1> QED BY <1>1, <1>2, <1>3, <1>4 DEF Next

(* Neither the transfer nor the buffer ever exceeds a sector, in whatever  *)
(* order the drive and the driver proceed and wherever the drive fails.    *)
THEOREM AtaTypeCorrect == Spec => []TypeOK
  <1>1. TypeInv => TypeOK
        BY DEF TypeInv, DeviceOK, HostOK, TypeOK
  <1> QED BY <1>1, InitTypeInv, TypeInvStep, PTL DEF Spec

-----------------------------------------------------------------------------
(* A sector is its data, filled up with zeros.                             *)
LEMMA PaddedBytes ==
  ASSUME NEW d \in Seq(Bytes), Len(d) <= SectorSize
  PROVE  /\ Sector!Padded(d) \in Seq(Bytes) /\ Len(Sector!Padded(d)) = SectorSize
         /\ \A k \in 1..SectorSize :
              Sector!Padded(d)[k] = IF k <= Len(d) THEN d[k] ELSE Zero
  <1> DEFINE n == Len(d)
             rest == [k \in 1..SectorSize - n |-> Zero]
  <1>1. n \in Nat /\ SectorSize \in Nat /\ n <= SectorSize
        BY ByteTypes, LenProperties
  <1> HIDE DEF n
  <1>2. rest \in Seq(Bytes) /\ Len(rest) = SectorSize - n
        BY <1>1, ByteTypes
  <1>3. \A k \in 1..SectorSize - n : rest[k] = Zero
        OBVIOUS
  <1> HIDE DEF rest
  <1>4. /\ d \o rest \in Seq(Bytes)
        /\ Len(d \o rest) = Len(d) + Len(rest)
        /\ \A k \in 1..Len(d) + Len(rest) :
             (d \o rest)[k] = IF k <= Len(d) THEN d[k] ELSE rest[k - Len(d)]
        BY <1>2, ConcatProperties
  <1>5. Len(d \o rest) = SectorSize
        BY <1>1, <1>2, <1>4 DEF n
  <1>6. \A k \in 1..SectorSize : (d \o rest)[k] = IF k <= n THEN d[k] ELSE Zero
        BY <1>1, <1>2, <1>3, <1>4 DEF n
  <1>7. Sector!Padded(d) = d \o rest
        BY DEF Sector!Padded, rest, n
  <1> QED BY <1>4, <1>5, <1>6, <1>7 DEF n

(* The first n bytes of a sector, and the word after them.                 *)
LEMMA PrefixGrows ==
  ASSUME NEW s \in Seq(Bytes), NEW n \in Nat, n < Len(s)
  PROVE  /\ SubSeq(s, 1, n) \in Seq(Bytes) /\ Len(SubSeq(s, 1, n)) = n
         /\ SubSeq(s, 1, n) \o <<s[n + 1]>> = SubSeq(s, 1, n + 1)
         /\ n + 2 <= Len(s) =>
              SubSeq(s, 1, n) \o <<s[n + 1], s[n + 2]>> = SubSeq(s, 1, n + 2)
  <1> DEFINE l == Len(s)
  <1>1. l \in Nat /\ n < l /\ \A k \in 1..l : s[k] \in Bytes
        BY LenProperties, ElementOfSeq
  <1>2. ASSUME NEW a \in Nat \ {0}, NEW b \in Nat, b <= l, a <= b + 1
        PROVE  /\ SubSeq(s, a, b) \in Seq(Bytes) /\ Len(SubSeq(s, a, b)) = b - a + 1
               /\ \A k \in 1..b - a + 1 : SubSeq(s, a, b)[k] = s[a + k - 1]
    <2> HIDE DEF l
    <2>1. \A k \in a..b : s[k] \in Bytes
          BY <1>1, <1>2
    <2>2. /\ SubSeq(s, a, b) \in Seq(Bytes)
          /\ Len(SubSeq(s, a, b)) = IF a <= b THEN b - a + 1 ELSE 0
          /\ \A k \in 1..b - a + 1 : SubSeq(s, a, b)[k] = s[a + k - 1]
          BY <2>1, SubSeqProperties
    <2> QED BY <1>2, <2>2
  <1>3. /\ SubSeq(s, 1, n) \in Seq(Bytes) /\ Len(SubSeq(s, 1, n)) = n
        BY <1>1, <1>2
  <1>4. SubSeq(s, n + 1, n + 1) = <<s[n + 1]>>
    <2> DEFINE t == SubSeq(s, n + 1, n + 1)
               u == <<s[n + 1]>>
    <2>1. t \in Seq(Bytes) /\ Len(t) = 1 /\ t[1] = s[n + 1]
          BY <1>1, <1>2
    <2>2. u \in Seq(Bytes) /\ Len(u) = 1 /\ u[1] = s[n + 1]
          BY <1>1
    <2> HIDE DEF t, u
    <2>3. \A k \in 1..Len(t) : t[k] = u[k]
          BY <2>1, <2>2
    <2>4. t = u
          BY <2>1, <2>2, <2>3, SeqEqual
    <2> QED BY <2>4 DEF t, u
  <1>5. SubSeq(s, 1, n) \o SubSeq(s, n + 1, n + 1) = SubSeq(s, 1, n + 1)
    <2>1. 1 \in 1..Len(s) + 1 /\ n \in 1 - 1..Len(s) /\ n + 1 \in n..Len(s)
          BY <1>1
    <2> QED BY <2>1, ConcatAdjacentSubSeq
  <1>6. ASSUME n + 2 <= Len(s)
        PROVE  SubSeq(s, 1, n) \o <<s[n + 1], s[n + 2]>> = SubSeq(s, 1, n + 2)
    <2> DEFINE t == SubSeq(s, n + 1, n + 2)
               u == <<s[n + 1], s[n + 2]>>
    <2>1. t \in Seq(Bytes) /\ Len(t) = 2 /\ t[1] = s[n + 1] /\ t[2] = s[n + 2]
          BY <1>1, <1>2, <1>6
    <2>2. u \in Seq(Bytes) /\ Len(u) = 2 /\ u[1] = s[n + 1] /\ u[2] = s[n + 2]
          BY <1>1, <1>6
    <2>3. t = u
      <3> HIDE DEF t, u
      <3>1. \A k \in 1..Len(t) : t[k] = u[k]
            BY <2>1, <2>2
      <3> QED BY <2>1, <2>2, <3>1, SeqEqual
    <2>4. 1 \in 1..Len(s) + 1 /\ n \in 1 - 1..Len(s) /\ n + 2 \in n..Len(s)
          BY <1>1, <1>6
    <2>5. SubSeq(s, 1, n) \o SubSeq(s, n + 1, n + 2) = SubSeq(s, 1, n + 2)
          BY <2>4, ConcatAdjacentSubSeq
    <2> QED BY <2>3, <2>5
  <1> QED BY <1>3, <1>4, <1>5, <1>6

(* What is left of a sector after its first n bytes, and after a word more. *)
LEMMA SuffixShrinks ==
  ASSUME NEW s \in Seq(Bytes), NEW n \in Nat, n + 2 <= Len(s),
         NEW t, t = SubSeq(s, n + 1, Len(s))
  PROVE  /\ t \in Seq(Bytes) /\ Len(t) = Len(s) - n
         /\ SubSeq(t, 1, 2) = <<s[n + 1], s[n + 2]>>
         /\ s[n + 1] \in Bytes /\ s[n + 2] \in Bytes
         /\ n + 2 < Len(s) => SubSeq(t, 3, Len(t)) = SubSeq(s, n + 3, Len(s))
  <1> DEFINE l == Len(s)
  <1>1. l \in Nat /\ n + 2 <= l /\ \A k \in 1..l : s[k] \in Bytes
        BY LenProperties, ElementOfSeq
  <1>2. /\ t \in Seq(Bytes) /\ Len(t) = l - n /\ \A k \in 1..l - n : t[k] = s[n + k]
    <2> HIDE DEF l
    <2>1. \A k \in n + 1..l : s[k] \in Bytes
          BY <1>1
    <2>2. /\ SubSeq(s, n + 1, l) \in Seq(Bytes)
          /\ Len(SubSeq(s, n + 1, l)) = IF n + 1 <= l THEN l - (n + 1) + 1 ELSE 0
          /\ \A k \in 1..l - (n + 1) + 1 : SubSeq(s, n + 1, l)[k] = s[(n + 1) + k - 1]
          BY <1>1, <2>1, SubSeqProperties
    <2>3. t = SubSeq(s, n + 1, l)
          BY DEF l
    <2> QED BY <1>1, <2>2, <2>3
  <1>3. SubSeq(t, 1, 2) = <<s[n + 1], s[n + 2]>>
    <2>1. Len(t) >= 2 /\ t[1] = s[n + 1] /\ t[2] = s[n + 2]
      <3> HIDE DEF l
      <3> QED BY <1>1, <1>2
    <2> QED BY <1>2, <2>1, WordTaken
  <1>4. ASSUME n + 2 < Len(s)
        PROVE  SubSeq(t, 3, Len(t)) = SubSeq(s, n + 3, Len(s))
    <2>1. n + 2 < l
          BY <1>4
    <2> HIDE DEF l
    <2>2. /\ n + 1 \in 1..l /\ l \in 1..l
          /\ 3 \in 1..l - (n + 1) + 1 /\ l - n \in 1..l - (n + 1) + 1
          /\ (n + 1) + 3 - 1 = n + 3 /\ (n + 1) + (l - n) - 1 = l
          BY <1>1, <2>1
    <2>3. SubSeq(SubSeq(s, n + 1, l), 3, l - n)
            = SubSeq(s, (n + 1) + 3 - 1, (n + 1) + (l - n) - 1)
          BY <2>2, SubSeqOfSubSeq DEF l
    <2>4. t = SubSeq(s, n + 1, l) /\ Len(t) = l - n
          BY <1>2 DEF l
    <2>5. SubSeq(t, 3, Len(t)) = SubSeq(s, n + 3, l)
          BY <2>2, <2>3, <2>4
    <2> QED BY <2>5 DEF l
  <1>5. s[n + 1] \in Bytes /\ s[n + 2] \in Bytes
        BY <1>1
  <1> QED BY <1>2, <1>3, <1>4, <1>5

-----------------------------------------------------------------------------
(* The parts of the invariant speak of what each step of the host needs;   *)
(* the lemmas below take them action by action.                            *)
LEMMA InitDiskInv == Init => DiskInv
  BY InitTypeInv DEF Init, DiskInv, Resting, Addressing, Polling, Reading, Identifying, Writing

(* A complete sector is as long as a sector.                               *)
LEMMA CompleteIsFull ==
  ASSUME TypeInv, Complete
  PROVE  Len(fifo) = SectorSize
  <1>1. request \in Requests
        BY DEF Complete, TypeInv, HostOK, None
  <1> QED BY <1>1, RequestKinds, PaddedBytes DEF Complete, Image

LEMMA BeginDisk ==
  ASSUME DiskInv, Patient, NEW r \in Requests, Begin(r)
  PROVE  DiskInv'
  <1>1. TypeInv'
        BY BeginOK DEF DiskInv
  <1>2. drive = "idle"
        BY DEF DiskInv, Resting, Begin, Complete
  <1>3. step' = "select" /\ drive' = drive /\ err' = err
        BY DEF Begin, device
  <1> QED BY <1>1, <1>2, <1>3 DEF DiskInv, Resting, Addressing, Polling, Reading,
                                  Identifying, Writing

LEMMA SelectDisk ==
  ASSUME DiskInv, Select
  PROVE  DiskInv'
  <1>1. TypeInv'
        BY SelectOK DEF DiskInv
  <1>2. /\ step = "select" /\ step' = "command"
        /\ UNCHANGED <<medium, drive, err, command, fifo, request, doing, i, buff>>
        /\ address' = IF drive = "busy" \/ doing \in {"flush", "identify"} THEN address
                      ELSE request.sector
        BY DEF Select
  <1>3. drive = "idle" \/ (doing = "flush" /\ Complete)
        BY <1>2 DEF DiskInv, Addressing
  <1>4. Addressing'
        BY <1>2, <1>3 DEF Addressing, Complete, Image
  <1> QED BY <1>1, <1>2, <1>4 DEF DiskInv, Resting, Polling, Reading, Identifying, Writing

LEMMA IssueDisk ==
  ASSUME DiskInv, Issue
  PROVE  DiskInv'
  <1>1. TypeInv'
        BY IssueOK DEF DiskInv
  <1>2. /\ step = "command" /\ TakesCommand(CommandOf[doing])
        /\ step' = IF doing = "write" THEN "data" ELSE "poll"
        /\ UNCHANGED <<request, doing, i, buff>>
        BY DEF Issue
  <1>3. /\ doing \in {"read", "write", "flush", "identify"} /\ i = 0
        /\ doing = "write" => Len(request.data) \in Nat
        /\ doing \in {"read", "write"} => address = request.sector
        /\ drive = "idle" \/ (doing = "flush" /\ Complete)
        BY <1>2, RequestServed DEF DiskInv, TypeInv, HostOK, Serving, Addressing
  <1>4. CASE drive = "idle"
    <2>1. /\ command' = CommandOf[doing] /\ err' = FALSE /\ fifo' = <<>> /\ drive' = "busy"
          /\ UNCHANGED <<medium, address>>
          BY <1>2, <1>4 DEF TakesCommand
    <2>2. Polling'
          BY <1>2, <1>3, <2>1 DEF Polling, CommandOf
    <2>3. Writing'
          BY <1>2, <1>3, <2>1 DEF Writing, CommandOf
    <2> QED BY <1>1, <1>2, <1>3, <2>1, <2>2, <2>3
            DEF DiskInv, Resting, Addressing, Reading, Identifying
  <1>5. CASE doing = "flush" /\ Complete
    <2>1. UNCHANGED <<medium, drive, err, address, command, fifo>>
          BY <1>2, <1>5 DEF TakesCommand, Complete, device
    <2>2. Complete'
          BY <1>2, <1>5, <2>1 DEF Complete, Image
    <2> QED BY <1>1, <1>2, <1>5, <2>1, <2>2
            DEF DiskInv, Resting, Addressing, Polling, Reading, Identifying, Writing
  <1> QED BY <1>3, <1>4, <1>5

LEMMA PollDisk ==
  ASSUME DiskInv, Poll
  PROVE  DiskInv'
  <1>1. TypeInv'
        BY PollOK DEF DiskInv
  <1>2. step = "poll" /\ UNCHANGED <<medium, drive, err, address, command, fifo, buff>>
        BY DEF Poll, device
  <1>3. /\ doing \in {"read", "flush", "identify"} /\ i = 0 /\ buff = <<>>
        /\ drive \in {"idle", "busy", "in", "out"}
        /\ err => drive = "idle"
        BY <1>2, RequestServed DEF DiskInv, TypeInv, DeviceOK, HostOK, Serving
  <1>4. CASE Polls /\ UNCHANGED <<request, doing, step, i>>
        BY <1>1, <1>2, <1>4 DEF DiskInv, Resting, Addressing, Polling, Reading, Identifying,
                                Writing, Complete, Image
  <1>5. CASE ~Polls /\ (err \/ doing = "flush") /\ Return
    <2>1. step' = "idle"
          BY <1>3, <1>5 DEF Return
    <2>2. drive = "idle"
          BY <1>2, <1>3, <1>5 DEF DiskInv, Polling, Polls, Complete
    <2> QED BY <1>1, <1>2, <2>1, <2>2 DEF DiskInv, Resting, Addressing, Polling, Reading,
                                          Identifying, Writing
  <1>6. CASE /\ ~Polls /\ ~(err \/ doing = "flush")
             /\ step' = "data" /\ UNCHANGED <<request, doing, i>>
    <2>1. drive = "in" /\ doing \in {"read", "identify"}
          BY <1>2, <1>3, <1>6 DEF DiskInv, Polling, Polls
    <2>2. SectorSize \in Nat \ {0} /\ i < SectorSize
          BY <1>3, ByteTypes
    <2>3. ASSUME doing = "read" PROVE Reading'
      <3>1. /\ request.count \in Nat /\ request.count >= 1 /\ address = request.sector
            /\ fifo = medium[address] /\ address \in Sectors
            BY <1>2, <2>1, <2>3, RequestServed DEF DiskInv, Polling, TypeInv, DeviceOK
      <3>2. medium[address] \in Seq(Bytes) /\ Len(medium[address]) = SectorSize
            BY <2>2 DEF DiskInv, TypeInv, DeviceOK
      <3>3. /\ SubSeq(medium[address], 1, SectorSize) = medium[address]
            /\ SubSeq(medium[address], 1, 0) = <<>>
            BY <3>2, SubSeqFull, SubSeqEmpty
      <3> QED BY <1>2, <1>3, <1>6, <2>1, <2>2, <3>1, <3>3 DEF Reading
    <2>4. ASSUME doing = "identify" PROVE Identifying'
          BY <1>2, <1>3, <1>6, <2>1, <2>2, <2>4 DEF DiskInv, Polling, Identifying
    <2> QED BY <1>1, <1>2, <1>3, <1>6, <2>1, <2>3, <2>4
            DEF DiskInv, Resting, Addressing, Polling, Reading, Identifying, Writing
  <1> QED BY <1>4, <1>5, <1>6 DEF Poll

(* A word read: the buffer and the rest of the fifo divide the sector.     *)
LEMMA TransferReadDisk ==
  ASSUME DiskInv, Transfer, doing = "read"
  PROVE  DiskInv'
  <1>1. TypeInv'
        BY TransferOK DEF DiskInv
  <1>2. /\ step = "data" /\ i < Count /\ i' = i + 2 /\ GivesWord
        /\ UNCHANGED <<request, doing, step>>
        /\ buff' = buff \o SubSeq(WordThere, 1, IF i + 1 < Count THEN 2 ELSE 1)
        BY DEF Transfer
  <1> DEFINE s == medium[address]
             c == request.count
  <1>3. /\ s \in Seq(Bytes) /\ Len(s) = SectorSize
        /\ c \in 1..SectorSize /\ Count = c
        /\ i \in Nat /\ i % 2 = 0 /\ SectorSize \in Nat /\ SectorSize % 2 = 0
    <2>1. medium[address] \in [1..SectorSize -> Bytes]
          BY DEF DiskInv, TypeInv, DeviceOK
    <2>2. s \in Seq(Bytes) /\ Len(s) = SectorSize
          BY <2>1, ByteTypes
    <2>3. HostOK
          BY DEF DiskInv, TypeInv
    <2>4. c \in 1..SectorSize /\ Count = c /\ i \in Nat /\ i % 2 = 0
          BY <1>2, <2>3, RequestServed, CountInSector
    <2> QED BY <2>2, <2>4, ByteTypes
  <1>4. /\ address = request.sector
        /\ drive = "in" /\ i < SectorSize /\ fifo = SubSeq(s, i + 1, SectorSize)
        /\ buff = SubSeq(s, 1, i)
        BY <1>2, <1>3 DEF DiskInv, Reading
  <1>5. /\ fifo' = SubSeq(fifo, 3, Len(fifo))
        /\ drive' = IF Len(fifo) = 2 THEN "idle" ELSE "in"
        /\ UNCHANGED <<medium, err, address, command>>
        /\ WordThere = SubSeq(fifo, 1, 2)
        BY <1>2, <1>4 DEF GivesWord, WordThere
  <1> HIDE DEF s, c
  <1>6. i + 2 <= SectorSize
        BY <1>3, <1>4, EvenSteps
  <1>7. /\ Len(fifo) = SectorSize - i
        /\ WordThere = <<s[i + 1], s[i + 2]>> /\ s[i + 1] \in Bytes /\ s[i + 2] \in Bytes
        /\ i + 2 < SectorSize => fifo' = SubSeq(s, i + 3, SectorSize)
    <2> HIDE DEF WordThere
    <2>0. s \in Seq(Bytes) /\ i \in Nat
          BY <1>3
    <2>1. i + 2 <= Len(s) /\ fifo = SubSeq(s, i + 1, Len(s))
          BY <1>3, <1>4, <1>6
    <2>2. /\ Len(fifo) = Len(s) - i /\ SubSeq(fifo, 1, 2) = <<s[i + 1], s[i + 2]>>
          /\ s[i + 1] \in Bytes /\ s[i + 2] \in Bytes
          /\ i + 2 < Len(s) => SubSeq(fifo, 3, Len(fifo)) = SubSeq(s, i + 3, Len(s))
          BY <2>0, <2>1, SuffixShrinks
    <2> QED BY <2>2, <1>3, <1>5
  <1>8. /\ i + 1 < c => buff' = SubSeq(s, 1, i + 2)
        /\ ~(i + 1 < c) => buff' = SubSeq(s, 1, i + 1)
    <2>1. /\ SubSeq(<<s[i + 1], s[i + 2]>>, 1, 2) = <<s[i + 1], s[i + 2]>>
          /\ SubSeq(<<s[i + 1], s[i + 2]>>, 1, 1) = <<s[i + 1]>>
          BY <1>7, WordParts
    <2>2. /\ SubSeq(s, 1, i) \o <<s[i + 1]>> = SubSeq(s, 1, i + 1)
          /\ SubSeq(s, 1, i) \o <<s[i + 1], s[i + 2]>> = SubSeq(s, 1, i + 2)
          BY <1>3, <1>4, <1>6, PrefixGrows
    <2> QED BY <1>2, <1>3, <1>4, <1>7, <2>1, <2>2
  <1>9. buff' = SubSeq(s, 1, IF i' <= c THEN i' ELSE c)
    <2>1. CASE i + 1 < c
          BY <1>2, <1>3, <1>8, <2>1
    <2>2. CASE ~(i + 1 < c)
      <3>1. c = i + 1
            BY <1>2, <1>3, <2>2
      <3> QED BY <1>2, <1>3, <1>8, <2>2, <3>1
    <2> QED BY <2>1, <2>2
  <1>10. \/ drive' = "in" /\ i' < SectorSize /\ fifo' = SubSeq(s, i' + 1, SectorSize)
         \/ drive' = "idle" /\ i' = SectorSize
    <2>1. CASE i + 2 = SectorSize
          BY <1>2, <1>3, <1>5, <1>7, <2>1
    <2>2. CASE i + 2 # SectorSize
      <3>1. Len(fifo) # 2 /\ i + 2 < SectorSize
            BY <1>3, <1>6, <1>7, <2>2
      <3>2. i' + 1 = i + 3
            BY <1>2, <1>3
      <3> QED BY <1>2, <1>5, <1>7, <3>1, <3>2
    <2> QED BY <2>1, <2>2
  <1>11. i' <= c + 1
         BY <1>2, <1>3
  <1>12. Reading'
         BY <1>2, <1>4, <1>5, <1>9, <1>10, <1>11 DEF Reading, s, c
  <1>13. err' = FALSE
    <2>1. err \in BOOLEAN
          BY DEF DiskInv, TypeInv, DeviceOK
    <2> QED BY <1>4, <1>5, <2>1 DEF DiskInv
  <1> QED BY <1>1, <1>2, <1>12, <1>13 DEF DiskInv, Resting, Addressing, Polling, Identifying,
                                      Writing

(* Bytes of the image, two at a time: of the data, and of what fills it up. *)
LEMMA ImageWord ==
  ASSUME HostOK, step \in {"data", "rest"}, doing = "write", i < SectorSize
  PROVE  /\ Image \in Seq(Bytes) /\ Len(Image) = SectorSize /\ i + 2 <= SectorSize
         /\ i < Count => WordAt(i) = <<Image[i + 1], Image[i + 2]>>
         /\ i >= Count => <<Zero, Zero>> = <<Image[i + 1], Image[i + 2]>>
         /\ Image[i + 1] \in Bytes /\ Image[i + 2] \in Bytes
  <1> DEFINE d == request.data
             n == Len(d)
  <1>1. /\ d \in Seq(Bytes) /\ n \in Nat /\ n <= SectorSize /\ Count = n
        /\ i \in Nat /\ i % 2 = 0 /\ SectorSize \in Nat /\ SectorSize % 2 = 0
        BY RequestServed, CountInSector, ByteTypes DEF HostOK
  <1>2. i + 2 <= SectorSize
        BY <1>1, EvenSteps
  <1>3. /\ Image \in Seq(Bytes) /\ Len(Image) = SectorSize
        /\ \A k \in 1..SectorSize : Image[k] = IF k <= n THEN d[k] ELSE Zero
        BY <1>1, PaddedBytes DEF Image
  <1>4. Image[i + 1] \in Bytes /\ Image[i + 2] \in Bytes
    <2>1. i + 1 \in 1..Len(Image) /\ i + 2 \in 1..Len(Image)
          BY <1>1, <1>2, <1>3
    <2> QED BY <1>3, <2>1, ElementOfSeq
  <1> HIDE DEF n
  <1>5. /\ Image[i + 1] = IF i + 1 <= n THEN d[i + 1] ELSE Zero
        /\ Image[i + 2] = IF i + 2 <= n THEN d[i + 2] ELSE Zero
        BY <1>1, <1>2, <1>3
  <1>6. ASSUME i < Count PROVE WordAt(i) = <<Image[i + 1], Image[i + 2]>>
    <2>1. i + 1 <= n /\ (i + 1 < n <=> i + 2 <= n)
          BY <1>1, <1>6
    <2> QED BY <1>1, <1>5, <2>1 DEF WordAt
  <1>7. ASSUME i >= Count PROVE <<Zero, Zero>> = <<Image[i + 1], Image[i + 2]>>
    <2>1. ~(i + 1 <= n) /\ ~(i + 2 <= n)
          BY <1>1, <1>7
    <2> QED BY <1>5, <2>1
  <1> QED BY <1>2, <1>3, <1>4, <1>6, <1>7

(* A word written: the drive has got that much more of the image, or has   *)
(* given up; after the last word the image is complete.                    *)
LEMMA WordWritten ==
  ASSUME DiskInv, step \in {"data", "rest"}, doing = "write", i < SectorSize,
         TakesWord(<<Image[i + 1], Image[i + 2]>>), UNCHANGED request, i' = i + 2,
         step = "rest" \/ ~NotReady
  PROVE  /\ address' = request.sector
         /\ \/ drive' = "idle"
            \/ Complete' /\ i' = SectorSize
            \/ /\ drive' = "out" /\ command' = "WRITE"
               /\ i' < SectorSize /\ fifo' = SubSeq(Image', 1, i')
         /\ err' => drive' = "idle"
  <1>1. HostOK /\ request.kind = "write" /\ i \in Nat /\ Image' = Image
        BY RequestServed DEF DiskInv, TypeInv, Image
  <1>2. /\ Image \in Seq(Bytes) /\ Len(Image) = SectorSize /\ i + 2 <= SectorSize
        /\ SectorSize \in Nat
        BY <1>1, ImageWord, ByteTypes
  <1>3. /\ address = request.sector
        /\ \/ drive = "idle"
           \/ /\ drive = "out" /\ command = "WRITE"
              /\ i < SectorSize /\ fifo = SubSeq(Image, 1, i)
    <2>1. ~(Complete /\ i = SectorSize)
          BY <1>1, <1>2
    <2>2. ~(drive = "busy" /\ fifo = <<>> /\ step = "data")
          BY DEF NotReady
    <2> QED BY <2>1, <2>2 DEF DiskInv, Writing
  <1>4. CASE drive = "idle"
        BY <1>3, <1>4 DEF TakesWord, device
  <1>5. CASE drive = "out" /\ command = "WRITE" /\ fifo = SubSeq(Image, 1, i)
    <2>1. /\ fifo' = fifo \o <<Image[i + 1], Image[i + 2]>>
          /\ drive' = IF Len(fifo) + 2 = SectorSize THEN "busy" ELSE "out"
          /\ UNCHANGED <<medium, err, address, command>>
          BY <1>5 DEF TakesWord
    <2>2. /\ Len(fifo) = i /\ fifo' = SubSeq(Image, 1, i + 2)
          BY <1>1, <1>2, <1>5, <2>1, PrefixGrows
    <2>3. err' = FALSE
      <3>1. err \in BOOLEAN /\ (err => drive = "idle")
            BY DEF DiskInv, TypeInv, DeviceOK
      <3> QED BY <1>5, <2>1, <3>1
    <2>4. CASE i + 2 = SectorSize
      <3>1. drive' = "busy" /\ fifo' = Image
            BY <1>2, <2>1, <2>2, <2>4, SubSeqFull
      <3>2. Complete'
            BY <1>1, <1>3, <1>5, <2>1, <3>1 DEF Complete
      <3> QED BY <1>3, <2>1, <2>3, <2>4, <3>2
    <2>5. CASE i + 2 # SectorSize
      <3>1. drive' = "out" /\ i + 2 < SectorSize
            BY <1>1, <1>2, <2>1, <2>2, <2>5
      <3> QED BY <1>1, <1>3, <1>5, <2>1, <2>2, <2>3, <3>1
    <2> QED BY <2>4, <2>5
  <1> QED BY <1>3, <1>4, <1>5

LEMMA TransferWriteDisk ==
  ASSUME DiskInv, InTime, Transfer, doing = "write"
  PROVE  DiskInv'
  <1>1. TypeInv' /\ HostOK
        BY TransferOK DEF DiskInv, TypeInv
  <1>2. /\ step = "data" /\ i < Count /\ i' = i + 2 /\ ~NotReady /\ TakesWord(WordAt(i))
        /\ UNCHANGED <<request, doing, step>>
        BY DEF Transfer
  <1>3. /\ Count = Len(request.data) /\ Count \in Nat /\ Count <= SectorSize /\ i \in Nat
        /\ SectorSize \in Nat
        BY <1>1, <1>2, CountInSector, RequestServed, ByteTypes
  <1>4. i < SectorSize /\ i' <= Len(request.data) + 1
        BY <1>2, <1>3
  <1>5. WordAt(i) = <<Image[i + 1], Image[i + 2]>>
        BY <1>1, <1>2, <1>4, ImageWord
  <1>6. /\ address' = request.sector
        /\ \/ drive' = "idle"
           \/ Complete' /\ i' = SectorSize
           \/ /\ drive' = "out" /\ command' = "WRITE"
              /\ i' < SectorSize /\ fifo' = SubSeq(Image', 1, i')
        /\ err' => drive' = "idle"
        BY <1>2, <1>4, <1>5, WordWritten
  <1>7. Writing'
        BY <1>2, <1>4, <1>6 DEF Writing
  <1> QED BY <1>1, <1>2, <1>6, <1>7 DEF DiskInv, Resting, Addressing, Polling, Reading,
                                        Identifying

LEMMA StartRestDisk ==
  ASSUME DiskInv, StartRest
  PROVE  DiskInv'
  <1>1. TypeInv' /\ HostOK
        BY StartRestOK DEF DiskInv, TypeInv
  <1>2. /\ step = "data" /\ step' = "rest" /\ i >= Count /\ i' = Count + (Count % 2)
        /\ UNCHANGED <<medium, drive, err, address, command, fifo, request, doing, buff>>
        BY DEF StartRest, device
  <1>3. /\ Count \in Nat /\ i \in Nat /\ i % 2 = 0 /\ doing \in {"read", "write", "identify"}
        /\ doing = "read" => Count = request.count
        /\ doing = "write" => Count = Len(request.data) /\ Len(request.data) >= 1
        /\ doing = "identify" => Count = 0
        BY <1>1, <1>2, CountInSector, RequestServed
  <1>4. i <= Count + 1
        BY <1>2, <1>3 DEF DiskInv, Reading, Writing, Identifying
  <1>5. i' = i
        BY <1>2, <1>3, <1>4, EvenUp
  <1>6. Reading'
    <2> SUFFICES ASSUME doing = "read" PROVE Reading'
        BY <1>2 DEF Reading
    <2>1. Reading /\ Count = request.count
          BY <1>3 DEF DiskInv
    <2> QED BY <1>2, <1>3, <1>5, <2>1 DEF Reading
  <1>7. Identifying'
        BY <1>2, <1>3, <1>5 DEF DiskInv, Identifying
  <1>8. Writing'
    <2> SUFFICES ASSUME doing = "write" PROVE Writing'
        BY <1>2 DEF Writing
    <2>1. i # 0 /\ Count = Len(request.data)
          BY <1>2, <1>3
    <2>2. Complete => Complete'
          BY <1>2 DEF Complete, Image
    <2>3. Image' = Image
          BY <1>2 DEF Image
    <2> QED BY <1>2, <1>3, <1>5, <2>1, <2>2, <2>3 DEF DiskInv, Writing
  <1> QED BY <1>1, <1>2, <1>6, <1>7, <1>8 DEF DiskInv, Resting, Addressing, Polling

(* The rest of a sector that is read, or of the drive's identity.          *)
LEMMA RestInDisk ==
  ASSUME DiskInv, Rest, More, doing # "write"
  PROVE  DiskInv'
  <1>1. TypeInv' /\ HostOK
        BY RestOK DEF DiskInv, TypeInv
  <1>2. /\ step = "rest" /\ i' = i + 2 /\ i < SectorSize /\ GivesWord
        /\ UNCHANGED <<request, doing, step, buff>>
        BY DEF Rest, More
  <1>3. /\ i \in Nat /\ i + 2 <= SectorSize /\ SectorSize \in Nat
        /\ doing \in {"read", "identify"}
        /\ doing = "read" => request.count \in Nat
    <2>1. i \in Nat /\ i % 2 = 0 /\ SectorSize \in Nat /\ SectorSize % 2 = 0
          BY <1>1, <1>2, RequestServed, ByteTypes
    <2> QED BY <1>1, <1>2, <2>1, RequestServed, CountInSector, EvenSteps
  <1>4. /\ drive = "in" /\ err = FALSE
        /\ fifo' = SubSeq(fifo, 3, Len(fifo))
        /\ drive' = IF Len(fifo) = 2 THEN "idle" ELSE "in"
        /\ UNCHANGED <<medium, err, address, command>>
    <2>1. drive = "in"
          BY <1>2, <1>3 DEF DiskInv, Reading, Identifying
    <2>2. err \in BOOLEAN
          BY DEF DiskInv, TypeInv, DeviceOK
    <2> QED BY <1>2, <2>1, <2>2 DEF GivesWord, DiskInv
  <1>5. ASSUME doing = "read" PROVE Reading'
    <2> DEFINE s == medium[address]
               c == request.count
    <2>1. s \in Seq(Bytes) /\ Len(s) = SectorSize
      <3>1. medium[address] \in [1..SectorSize -> Bytes]
            BY DEF DiskInv, TypeInv, DeviceOK
      <3> QED BY <3>1, ByteTypes
    <2>2. /\ address = request.sector /\ i >= c
          /\ fifo = SubSeq(s, i + 1, SectorSize)
          /\ buff = SubSeq(s, 1, IF i <= c THEN i ELSE c)
          BY <1>2, <1>3, <1>4, <1>5 DEF DiskInv, Reading
    <2> HIDE DEF s, c
    <2>3. /\ Len(fifo) = SectorSize - i
          /\ i + 2 < SectorSize => fifo' = SubSeq(s, i + 3, SectorSize)
          BY <1>3, <1>4, <2>1, <2>2, SuffixShrinks
    <2>4. c \in Nat
          BY <1>3, <1>5 DEF c
    <2>5. buff' = SubSeq(s, 1, IF i' <= c THEN i' ELSE c) /\ i' >= c
      <3>1. buff = SubSeq(s, 1, c)
            BY <1>3, <2>2, <2>4
      <3>2. ~(i' <= c) /\ i' >= c
            BY <1>2, <1>3, <2>2, <2>4
      <3> QED BY <1>2, <3>1, <3>2
    <2>6. \/ drive' = "in" /\ i' < SectorSize /\ fifo' = SubSeq(s, i' + 1, SectorSize)
          \/ drive' = "idle" /\ i' = SectorSize
      <3>1. CASE i + 2 = SectorSize
            BY <1>2, <1>3, <1>4, <2>3, <3>1
      <3>2. CASE i + 2 # SectorSize
        <4>1. Len(fifo) # 2 /\ i + 2 < SectorSize /\ i' + 1 = i + 3
              BY <1>2, <1>3, <2>3, <3>2
        <4> QED BY <1>2, <1>4, <2>3, <4>1
      <3> QED BY <3>1, <3>2
    <2> QED BY <1>2, <1>4, <2>2, <2>5, <2>6 DEF Reading, s, c
  <1>6. ASSUME doing = "identify" PROVE Identifying'
    <2>1. Len(fifo) = SectorSize - i
          BY <1>2, <1>3, <1>4, <1>6 DEF DiskInv, Identifying
    <2>2. fifo \in Seq(Bytes) /\ Len(fifo) >= 2
          BY <1>4 DEF DiskInv, TypeInv, DeviceOK
    <2>3. Len(fifo') = SectorSize - i'
          BY <1>2, <1>3, <1>4, <2>1, <2>2, WordTaken
    <2>4. IF i + 2 = SectorSize THEN drive' = "idle" ELSE drive' = "in" /\ i' < SectorSize
          BY <1>2, <1>3, <1>4, <2>1
    <2> QED BY <1>2, <1>3, <2>3, <2>4 DEF Identifying
  <1> QED BY <1>1, <1>2, <1>3, <1>4, <1>5, <1>6
          DEF DiskInv, Resting, Addressing, Polling, Reading, Identifying, Writing

LEMMA RestOutDisk ==
  ASSUME DiskInv, Rest, More, doing = "write"
  PROVE  DiskInv'
  <1>1. TypeInv' /\ HostOK
        BY RestOK DEF DiskInv, TypeInv
  <1>2. /\ step = "rest" /\ i' = i + 2 /\ i < SectorSize /\ TakesWord(<<Zero, Zero>>)
        /\ UNCHANGED <<request, doing, step, buff>>
        BY DEF Rest, More
  <1>3. /\ Count = Len(request.data) /\ Count \in Nat /\ i \in Nat /\ i >= Count
        BY <1>1, <1>2, CountInSector, RequestServed DEF DiskInv, Writing
  <1>4. /\ address' = request.sector
        /\ \/ drive' = "idle"
           \/ Complete' /\ i' = SectorSize
           \/ /\ drive' = "out" /\ command' = "WRITE"
              /\ i' < SectorSize /\ fifo' = SubSeq(Image', 1, i')
        /\ err' => drive' = "idle"
    <2>1. <<Zero, Zero>> = <<Image[i + 1], Image[i + 2]>>
          BY <1>1, <1>2, <1>3, ImageWord
    <2>2. TakesWord(<<Image[i + 1], Image[i + 2]>>)
          BY <1>2, <2>1
    <2> QED BY <1>2, <2>2, WordWritten
  <1>5. Writing'
    <2>1. i' >= Len(request.data)
          BY <1>2, <1>3
    <2> QED BY <1>2, <1>4, <2>1 DEF Writing
  <1> QED BY <1>1, <1>2, <1>4, <1>5 DEF DiskInv, Resting, Addressing, Polling, Reading,
                                        Identifying

(* When a sector is through, the drive is at rest or has all it needs.     *)
LEMMA Through ==
  ASSUME DiskInv, step = "rest", ~More
  PROVE  drive = "idle" \/ (doing = "write" /\ Complete)
  <1>1. /\ i \in Nat /\ SectorSize \in Nat /\ ~(i < SectorSize)
        /\ doing \in {"read", "write", "identify"}
        BY RequestServed, CountInSector, ByteTypes DEF DiskInv, TypeInv, More
  <1> QED BY <1>1 DEF DiskInv, Reading, Writing, Identifying

LEMMA RestOverDisk ==
  ASSUME DiskInv, Rest, ~More
  PROVE  DiskInv'
  <1>1. TypeInv' /\ HostOK
        BY RestOK DEF DiskInv, TypeInv
  <1>2. /\ step = "rest" /\ Return
        /\ UNCHANGED <<medium, drive, err, address, command, fifo, buff>>
        BY DEF Rest, device
  <1>3. drive = "idle" \/ (doing = "write" /\ Complete)
        BY <1>2, Through
  <1>4. doing = "write" => request' = request /\ buff = <<>>
        BY <1>1, <1>2 DEF Return, HostOK, Serving
  <1>5. drive' = "idle" \/ (doing = "write" /\ Complete' /\ buff' = <<>>)
        BY <1>2, <1>3, <1>4 DEF Complete, Image
  <1>6. \/ step' = "idle"
        \/ step' = "select" /\ doing' = "flush" /\ doing = "write"
        BY <1>2 DEF Return
  <1> QED BY <1>1, <1>2, <1>5, <1>6 DEF DiskInv, Resting, Addressing, Polling, Reading,
                                        Identifying, Writing

(* A busy drive is about to store a complete sector, or serves the command *)
(* that the function called has given.                                     *)
Serves ==
  \/ Complete
  \/ step = "poll" /\ doing = "read" /\ command = "READ" /\ address = request.sector
  \/ step = "poll" /\ doing = "identify" /\ command = "IDENTIFY"
  \/ step = "poll" /\ doing = "flush" /\ command = "FLUSH"
  \/ /\ step = "data" /\ doing = "write" /\ command = "WRITE"
     /\ i = 0 /\ fifo = <<>>

LEMMA BusyServes ==
  ASSUME DiskInv, drive = "busy"
  PROVE  /\ Serves /\ err = FALSE
         /\ step \in {"data", "rest"} => doing = "write"
  <1>1. HostOK /\ err = FALSE
        BY DEF DiskInv, TypeInv, DeviceOK
  <1>2. CASE step \in {"idle", "select", "command"}
        BY <1>1, <1>2 DEF DiskInv, Resting, Addressing, Serves
  <1>3. CASE step = "poll"
    <2>1. doing \in {"read", "identify", "flush"}
          BY <1>1, <1>3 DEF HostOK, Serving
    <2> QED BY <1>1, <1>3, <2>1 DEF DiskInv, Polling, Serves
  <1>4. CASE step \in {"data", "rest"}
    <2>1. doing \in {"read", "write", "identify"}
          BY <1>1, <1>4, CountInSector
    <2> QED BY <1>1, <1>4, <2>1 DEF DiskInv, Reading, Identifying, Writing, Serves
  <1> QED BY <1>1, <1>2, <1>3, <1>4 DEF HostOK

(* The drive's own steps: it fails, stores, fetches or asks for data.      *)
LEMMA DriveDisk ==
  ASSUME DiskInv, Drive
  PROVE  DiskInv'
  <1>1. /\ drive = "busy" /\ err = FALSE /\ Serves
        /\ step \in {"data", "rest"} => doing = "write"
        /\ UNCHANGED <<address, command, request, doing, step, i, buff>>
        BY BusyServes DEF Drive, host
  <1>2. TypeInv'
    <2>1. DeviceOK'
          BY DriveOK DEF DiskInv, TypeInv
    <2> QED BY <1>1, <2>1 DEF DiskInv, TypeInv, HostOK, Serving
  <1>3. Addressing /\ Polling /\ Writing /\ TypeInv
        BY DEF DiskInv
  <1>4. CASE drive' = "idle" /\ (err' \/ command \in {"WRITE", "FLUSH"})
    <2>1. step = "poll" /\ doing \in {"read", "identify"} => err'
          BY <1>1, <1>4 DEF Serves, Complete, DiskInv, Polling
    <2>2. Polling'
          BY <1>1, <1>3, <1>4, <2>1 DEF Polling
    <2>3. Addressing' /\ Writing'
          BY <1>1, <1>3, <1>4 DEF Addressing, Writing
    <2> QED BY <1>1, <1>2, <1>4, <2>2, <2>3 DEF DiskInv, Resting, Reading, Identifying
  <1>5. CASE command = "WRITE" /\ Len(fifo) < SectorSize /\ Ready
    <2>1. ~Complete
      <3>1. Len(fifo) \in Nat /\ SectorSize \in Nat
            BY <1>3, LenProperties, ByteTypes DEF TypeInv, DeviceOK
      <3> QED BY <1>3, <1>5, <3>1, CompleteIsFull
    <2>2. /\ step = "data" /\ doing = "write" /\ i = 0 /\ fifo = <<>>
          /\ drive' = "out" /\ UNCHANGED <<medium, err, fifo>>
          BY <1>1, <1>5, <2>1 DEF Serves, Ready
    <2>3. fifo' = SubSeq(Image', 1, 0) /\ 0 < SectorSize
      <3>1. SubSeq(Image', 1, 0) = <<>>
            BY SubSeqEmpty
      <3> QED BY <2>2, <3>1, ByteTypes
    <2>4. Writing'
          BY <1>1, <1>3, <1>5, <2>2, <2>3 DEF Writing
    <2> QED BY <1>1, <1>2, <2>2, <2>4 DEF DiskInv, Resting, Addressing, Polling, Reading,
                                          Identifying
  <1>6. CASE command \in {"READ", "IDENTIFY"} /\ Fetch
    <2>1. /\ step = "poll" /\ (doing = "read" \/ doing = "identify")
          /\ doing = "read" => command = "READ" /\ address = request.sector
          /\ doing = "identify" => command = "IDENTIFY"
          BY <1>1, <1>6 DEF Serves, Complete
    <2>2. /\ drive' = "in" /\ UNCHANGED <<medium, err>>
          /\ doing = "read" => fifo' = medium[address]
          /\ doing = "identify" => Len(fifo') = SectorSize
          BY <1>6, <2>1, ByteTypes DEF Fetch
    <2>3. CASE doing = "read"
      <3>1. drive' = "in" /\ fifo' = medium'[address'] /\ command' = "READ"
            BY <1>1, <2>1, <2>2, <2>3
      <3> QED BY <1>1, <1>2, <2>1, <2>2, <2>3, <3>1
              DEF DiskInv, Resting, Addressing, Polling, Reading, Identifying, Writing
    <2>4. CASE doing = "identify"
      <3>1. drive' = "in" /\ Len(fifo') = SectorSize /\ command' = "IDENTIFY"
            BY <1>1, <2>1, <2>2, <2>4
      <3> QED BY <1>1, <1>2, <2>1, <2>2, <2>4, <3>1
              DEF DiskInv, Resting, Addressing, Polling, Reading, Identifying, Writing
    <2> QED BY <2>1, <2>3, <2>4
  <1> QED BY <1>1, <1>4, <1>5, <1>6 DEF Drive, Fail, Store, Finish

(* Every step keeps the invariant, if the drive is in time for the first   *)
(* word of a write and the next request waits for an unflushed one.        *)
LEMMA DiskInvStep ==
  ASSUME InTime, Patient
  PROVE  DiskInv /\ [Next]_vars => DiskInv'
  <1> SUFFICES ASSUME DiskInv, [Next]_vars PROVE DiskInv'
      OBVIOUS
  <1>1. ASSUME NEW r \in Requests, Begin(r) PROVE DiskInv'
        BY <1>1, BeginDisk
  <1>2. CASE Select
        BY <1>2, SelectDisk
  <1>3. CASE Issue
        BY <1>3, IssueDisk
  <1>4. CASE Poll
        BY <1>4, PollDisk
  <1>5. CASE Transfer
    <2>1. HostOK /\ step = "data" /\ i < Count
          BY <1>5 DEF DiskInv, TypeInv, Transfer
    <2>2. doing \in {"read", "write"}
      <3>1. i \in Nat /\ (doing = "identify" => Count = 0)
            BY <2>1, CountInSector, RequestServed
      <3> QED BY <2>1, <3>1, CountInSector
    <2> QED BY <1>5, <2>2, TransferReadDisk, TransferWriteDisk
  <1>6. CASE StartRest
        BY <1>6, StartRestDisk
  <1>7. CASE Rest
        BY <1>7, RestInDisk, RestOutDisk, RestOverDisk
  <1>8. CASE Drive
        BY <1>8, DriveDisk
  <1>9. CASE UNCHANGED vars
    <2>1. UNCHANGED <<medium, drive, err, address, command, fifo, request, doing, step, i, buff>>
          BY <1>9 DEF vars, device, host
    <2>2. UNCHANGED <<Complete, Image>>
          BY <2>1 DEF Complete, Image
    <2>3. TypeInv' /\ Resting' /\ Addressing'
          BY <2>1, <2>2 DEF DiskInv, TypeInv, DeviceOK, HostOK, Serving, Resting, Addressing
    <2>4. Polling' /\ Reading'
          BY <2>1, <2>2 DEF DiskInv, Polling, Reading
    <2>5. Identifying' /\ Writing'
          BY <2>1, <2>2 DEF DiskInv, Identifying, Writing
    <2> QED BY <2>1, <2>3, <2>4, <2>5 DEF DiskInv
  <1> QED BY <1>1, <1>2, <1>3, <1>4, <1>5, <1>6, <1>7, <1>8, <1>9 DEF Next, Host

-----------------------------------------------------------------------------
(* The refinement: what Disk sees of the driver and the drive.             *)
Asked == IF step = "idle" /\ drive # "busy" THEN None ELSE request
Answered == IF step = "idle" THEN buff ELSE <<>>
DiskStep == Sector!Next \/ UNCHANGED <<medium, Asked, Answered>>

LEMMA InitImplements == Init => Sector!Init
  <1> SUFFICES ASSUME Init PROVE Sector!Init
      OBVIOUS
  <1>1. Sector!Padded(<<>>) = Blank
    <2> DEFINE p == Sector!Padded(<<>>)
    <2> DEFINE e == <<>>
    <2>1. e \in Seq(Bytes) /\ Len(e) = 0 /\ Len(e) <= SectorSize
          BY ByteTypes
    <2> HIDE DEF e
    <2>2. /\ Sector!Padded(e) \in Seq(Bytes) /\ Len(Sector!Padded(e)) = SectorSize
          /\ \A k \in 1..SectorSize : Sector!Padded(e)[k] = Zero
      <3>1. /\ Sector!Padded(e) \in Seq(Bytes) /\ Len(Sector!Padded(e)) = SectorSize
            /\ \A k \in 1..SectorSize :
                 Sector!Padded(e)[k] = IF k <= Len(e) THEN e[k] ELSE Zero
            BY <2>1, PaddedBytes
      <3>2. \A k \in 1..SectorSize : ~(k <= Len(e))
            BY <2>1
      <3> QED BY <3>1, <3>2
    <2>3. p \in Seq(Bytes) /\ Len(p) = SectorSize /\ \A k \in 1..SectorSize : p[k] = Zero
          BY <2>2 DEF e
    <2> HIDE DEF p
    <2>4. p = [k \in 1..SectorSize |-> p[k]]
          BY <2>3, LenProperties
    <2>5. p = Blank
          BY <2>3, <2>4 DEF Blank
    <2> QED BY <2>5 DEF p
  <1> QED BY <1>1 DEF Init, Sector!Init, None, Sector!None

(* While a function is under way nothing is seen of it.                    *)
LEMMA UnderWay ==
  ASSUME step # "idle", step' # "idle", UNCHANGED <<medium, request>>
  PROVE  DiskStep
  BY DEF DiskStep, Asked, Answered

(* The end of a request: its answer is given, unless the drive still has   *)
(* the sector to store.                                                    *)
LEMMA Ends ==
  ASSUME HostOK, step # "idle", step' = "idle", UNCHANGED medium,
         IF drive' = "busy" THEN request' = request /\ buff' = <<>>
         ELSE \/ buff' = <<>>
              \/ /\ request.kind = "read"
                 /\ buff' = SubSeq(medium[request.sector], 1, request.count)
  PROVE  DiskStep
  <1>1. request # Sector!None
    <2>1. request.kind \in {"read", "write", "identify"}
          BY RequestServed, RequestKinds
    <2> QED BY <2>1 DEF Sector!None
  <1>2. CASE drive' = "busy"
        BY <1>2 DEF DiskStep, Asked, Answered
  <1>3. CASE drive' # "busy"
    <2>1. Sector!Answer
          BY <1>1, <1>3 DEF Sector!Answer, None, Sector!None
    <2> QED BY <2>1 DEF DiskStep, Sector!Next
  <1> QED BY <1>2, <1>3

LEMMA BeginImplements ==
  ASSUME Patient, NEW r \in Requests, Begin(r)
  PROVE  DiskStep
  <1>1. Sector!Ask(r)
        BY DEF Begin, device, Sector!Ask, None, Sector!None
  <1> QED BY <1>1 DEF DiskStep, Sector!Next

LEMMA PollImplements ==
  ASSUME DiskInv, Poll
  PROVE  DiskStep
  <1>1. HostOK /\ step = "poll" /\ UNCHANGED <<medium, drive, buff>>
        BY DEF DiskInv, TypeInv, Poll, device
  <1>2. CASE ~Polls /\ (err \/ doing = "flush") /\ Return
    <2>1. drive # "busy"
      <3>1. err => drive = "idle"
            BY DEF DiskInv
      <3> QED BY <1>2, <3>1 DEF Polls
    <2>2. buff = <<>> /\ doing # "write"
          BY <1>1 DEF HostOK, Serving
    <2>3. step' = "idle"
          BY <1>2, <2>2 DEF Return
    <2> QED BY <1>1, <2>1, <2>2, <2>3, Ends
  <1>3. CASE step' \in {"poll", "data"} /\ UNCHANGED request
        BY <1>1, <1>3, UnderWay
  <1> QED BY <1>1, <1>2, <1>3 DEF Poll

LEMMA RestImplements ==
  ASSUME DiskInv, Rest
  PROVE  DiskStep
  <1>1. HostOK /\ step = "rest" /\ buff' = buff
        BY DEF DiskInv, TypeInv, Rest
  <1>2. CASE More
    <2>1. UNCHANGED <<medium, request, step>>
          BY <1>2 DEF Rest, TakesWord, GivesWord, device
    <2> QED BY <1>1, <2>1, UnderWay
  <1>3. CASE ~More
    <2>1. Return /\ UNCHANGED <<medium, drive>>
          BY <1>3 DEF Rest, device
    <2>2. CASE doing = "write" /\ request.flushed
      <3>1. step' = "select" /\ request' = request
            BY <2>1, <2>2 DEF Return
      <3> QED BY <1>1, <2>1, <3>1, UnderWay
    <2>3. CASE doing = "write" /\ ~request.flushed
      <3>1. step' = "idle" /\ request' = request /\ buff = <<>>
            BY <1>1, <2>1, <2>3 DEF Return, HostOK, Serving
      <3> QED BY <1>1, <2>1, <3>1, Ends
    <2>4. CASE doing # "write"
      <3>1. step' = "idle" /\ drive # "busy"
            BY <1>1, <1>3, <2>1, <2>4, Through DEF Return
      <3>2. doing = "read" \/ doing = "identify"
            BY <1>1, <2>4, CountInSector
      <3>3. CASE doing = "read"
        <4>1. /\ address = request.sector /\ i >= request.count
              /\ buff = SubSeq(medium[address], 1, IF i <= request.count THEN i ELSE request.count)
              BY <1>1, <3>3 DEF DiskInv, Reading
        <4>2. i \in Nat /\ request.count \in Nat /\ request.kind = "read"
              BY <1>1, <3>3, RequestServed, CountInSector
        <4>3. (IF i <= request.count THEN i ELSE request.count) = request.count
              BY <4>1, <4>2
        <4>4. buff' = SubSeq(medium[request.sector], 1, request.count)
              BY <1>1, <4>1, <4>3
        <4> QED BY <1>1, <2>1, <3>1, <4>2, <4>4, Ends
      <3>4. CASE doing = "identify"
        <4>1. buff = <<>>
              BY <1>1, <3>4 DEF HostOK, Serving
        <4> QED BY <1>1, <2>1, <3>1, <4>1, Ends
      <3> QED BY <3>2, <3>3, <3>4
    <2> QED BY <2>2, <2>3, <2>4
  <1> QED BY <1>2, <1>3

(* The drive stores the image of the request, while the driver waits for   *)
(* it or after it has returned.                                            *)
LEMMA DriveImplements ==
  ASSUME DiskInv, Drive
  PROVE  DiskStep
  <1>1. /\ drive = "busy" /\ Serves /\ UNCHANGED <<request, step, buff>>
        BY BusyServes DEF Drive, host
  <1>2. TypeInv /\ SectorSize # 0
        BY ByteTypes DEF DiskInv
  <1>3. CASE command = "WRITE" /\ Len(fifo) = SectorSize /\ Store
    <2>1. Complete
          BY <1>1, <1>2, <1>3, ByteTypes DEF Serves
    <2>2. /\ drive' = "idle" /\ medium' = [medium EXCEPT ![request.sector] = Image]
          /\ request.kind = "write"
          BY <1>3, <2>1 DEF Store, Complete
    <2>3. Asked = request /\ Asked' \in {request, None} /\ Answered' = Answered
          BY <1>1, <2>2 DEF Asked, Answered
    <2>4. Sector!Store
          BY <2>2, <2>3 DEF Sector!Store, Asked, Answered, Image, None, Sector!None
    <2> QED BY <2>4 DEF DiskStep, Sector!Next
  <1>4. CASE UNCHANGED medium
    <2>1. CASE step = "idle"
      <3>1. Complete /\ buff = <<>>
            BY <1>1, <2>1 DEF DiskInv, Resting
      <3>2. request # Sector!None /\ drive' = "idle"
        <4>1. command = "WRITE" /\ request.kind = "write" /\ Len(fifo) = SectorSize
              BY <1>2, <3>1, CompleteIsFull DEF Complete
        <4>2. ~(Len(fifo) < SectorSize)
              BY <4>1, ByteTypes
        <4>3. drive' = "idle"
              BY <4>1, <4>2 DEF Drive, Fail, Store
        <4> QED BY <4>1, <4>3 DEF Sector!None
      <3>3. Sector!Answer
            BY <1>1, <1>4, <2>1, <3>1, <3>2 DEF Sector!Answer, None, Sector!None
      <3> QED BY <3>3 DEF DiskStep, Sector!Next
    <2>2. CASE step # "idle"
          BY <1>1, <1>4, <2>2, UnderWay
    <2> QED BY <2>1, <2>2
  <1> QED BY <1>3, <1>4 DEF Drive, Fail, Ready, Fetch, Finish

LEMMA NextImplements ==
  ASSUME Patient, DiskInv, [Next]_vars
  PROVE  DiskStep
  <1>1. ASSUME NEW r \in Requests, Begin(r) PROVE DiskStep
        BY <1>1, BeginImplements
  <1>2. CASE Select \/ Issue \/ StartRest
    <2>1. step # "idle" /\ step' # "idle" /\ UNCHANGED <<medium, request>>
          BY <1>2 DEF Select, Issue, TakesCommand, StartRest, device
    <2> QED BY <2>1, UnderWay
  <1>3. CASE Poll
        BY <1>3, PollImplements
  <1>4. CASE Transfer
    <2>1. step # "idle" /\ step' # "idle" /\ UNCHANGED <<medium, request>>
          BY <1>4 DEF Transfer, TakesWord, GivesWord, device
    <2> QED BY <2>1, UnderWay
  <1>5. CASE Rest
        BY <1>5, RestImplements
  <1>6. CASE Drive
        BY <1>6, DriveImplements
  <1>7. CASE UNCHANGED vars
        BY <1>7 DEF vars, device, host, DiskStep, Asked, Answered
  <1> QED BY <1>1, <1>2, <1>3, <1>4, <1>5, <1>6, <1>7 DEF Next, Host

(* The driver and the drive together are a disk, for every sector size and *)
(* every number of sectors: whatever the drive does in its own time and    *)
(* wherever it fails, a sector holds what was last stored in it, a read    *)
(* gives the first bytes of it or nothing, and a write puts all its bytes  *)
(* and zeros behind them.  src/src/drivers/ata.c rests on the two          *)
(* hypotheses: it does not wait for the drive before the first word of a   *)
(* write, and init_dir does not wait for the write it has made.            *)
THEOREM AtaImplementsDisk ==
  ASSUME InTime, Patient
  PROVE  Spec => ImplementsDisk
  <1>1. Init => Sector!Init
        BY InitImplements
  <1>2. DiskInv /\ [Next]_vars =>
          [Sector!Next]_<<medium, IF step = "idle" /\ drive # "busy" THEN None ELSE request,
                          IF step = "idle" THEN buff ELSE <<>>>>
        BY NextImplements DEF DiskStep, Asked, Answered
  <1>3. Init => DiskInv
        BY InitDiskInv
  <1>4. DiskInv /\ [Next]_vars => DiskInv'
        BY DiskInvStep
  <1> QED BY <1>1, <1>2, <1>3, <1>4, PTL DEF Spec, ImplementsDisk, Sector!Spec

=============================================================================
