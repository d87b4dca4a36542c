--------------------------------- MODULE Ata ---------------------------------
(***************************************************************************)
(* The ATA driver (src/src/drivers/ata.c), port access by port access, and *)
(* the drive it talks to, which works on its own while it is busy.  The    *)
(* drive is external: it takes no command and no register while it is      *)
(* busy or a transfer is not finished, and may report an error whenever it *)
(* has done something.  The file system follows every write28 by flush,    *)
(* but for one (init_dir in src/src/filesystem/fat.c).                     *)
(*                                                                         *)
(* Requests beyond the limits, which return at once, are left out, and so  *)
(* are the checks for a drive that is not there.                           *)
(***************************************************************************)
EXTENDS Integers, Sequences

CONSTANTS
  Sectors,    \* sector numbers
  SectorSize, \* bytes of a sector, 512; two to a word
  Zero,       \* the byte 0
  Garbage,    \* what the data port gives when there is nothing to read
  Identity,   \* the drive's answer to IDENTIFY
  Data,       \* what clients write: sequences of bytes
  InTime,     \* whether the drive is ready for data when write28 sends the first word
  Patient     \* whether the next request comes after an unflushed write is done

Bytes == {Zero, Garbage} \cup UNION {{d[k] : k \in DOMAIN d} : d \in Data \cup {Identity}}

ASSUME AtaAssumption ==
  /\ SectorSize \in Nat \ {0} /\ SectorSize % 2 = 0
  /\ \A d \in Data : d \in Seq(Bytes) /\ Len(d) \in 1..SectorSize
  /\ Identity \in Seq(Bytes) /\ Len(Identity) = SectorSize
  /\ {InTime, Patient} \subseteq BOOLEAN

VARIABLES
  medium,  \* drive: sector -> its bytes
  drive,   \* drive: "idle", "busy", "in" (has data for the host), "out" (wants data)
  err,     \* drive: the error bit
  address, \* drive: the address registers
  command, \* drive: the last command it took
  fifo,    \* drive: the bytes of the transfer
  request, \* the last request, or none: kept while a write without flush may be under way
  doing,   \* the function called for it
  step,    \* where that function is
  i,       \* its loop variable
  buff     \* its buffer, for a read

device == <<medium, drive, err, address, command, fifo>>
host == <<request, doing, step, i, buff>>
vars == <<device, host>>

None == [kind |-> "none"]
Requests ==
  [kind : {"read"}, sector : Sectors, count : 1..SectorSize]
  \cup [kind : {"write"}, sector : Sectors, data : Data, flushed : BOOLEAN]
  \cup [kind : {"identify"}]

Blank == [k \in 1..SectorSize |-> Zero]

Init ==
  /\ medium = [s \in Sectors |-> Blank]
  /\ drive = "idle" /\ err = FALSE /\ address \in Sectors /\ command = "none" /\ fifo = <<>>
  /\ request = None /\ doing = "none" /\ step = "idle" /\ i = 0 /\ buff = <<>>

-----------------------------------------------------------------------------
(* The drive.                                                              *)
Fail == drive' = "idle" /\ err' = TRUE /\ UNCHANGED <<medium, fifo>>

Ready == drive' = "out" /\ UNCHANGED <<medium, err, fifo>>

Store ==
  /\ drive' = "idle" /\ medium' = [medium EXCEPT ![address] = fifo]
  /\ UNCHANGED <<err, fifo>>

Fetch ==
  /\ drive' = "in"
  /\ fifo' = IF command = "READ" THEN medium[address] ELSE Identity
  /\ UNCHANGED <<medium, err>>

Finish == drive' = "idle" /\ UNCHANGED <<medium, err, fifo>>

Drive ==
  /\ drive = "busy"
  /\ \/ Fail
     \/ command = "WRITE" /\ Len(fifo) < SectorSize /\ Ready
     \/ command = "WRITE" /\ Len(fifo) = SectorSize /\ Store
     \/ command \in {"READ", "IDENTIFY"} /\ Fetch
     \/ command = "FLUSH" /\ Finish
  /\ UNCHANGED <<address, command, host>>

(* The drive's side of a port access.                                      *)
TakesCommand(c) ==
  IF drive = "idle"
  THEN /\ command' = c /\ err' = FALSE /\ fifo' = <<>>
       /\ drive' = "busy"
       /\ UNCHANGED <<medium, address>>
  ELSE UNCHANGED device

GivesWord ==   \* inw
  IF drive = "in"
  THEN /\ fifo' = SubSeq(fifo, 3, Len(fifo))
       /\ drive' = IF Len(fifo) = 2 THEN "idle" ELSE "in"
       /\ UNCHANGED <<medium, err, address, command>>
  ELSE UNCHANGED device
WordThere == IF drive = "in" THEN SubSeq(fifo, 1, 2) ELSE <<Garbage, Garbage>>

TakesWord(word) ==   \* outw
  IF drive = "out"
  THEN /\ fifo' = fifo \o word
       /\ drive' = IF Len(fifo) + 2 = SectorSize THEN "busy" ELSE "out"
       /\ UNCHANGED <<medium, err, address, command>>
  ELSE UNCHANGED device

-----------------------------------------------------------------------------
(* The driver.                                                             *)
Begin(r) ==
  /\ step = "idle" /\ (Patient => drive # "busy")
  /\ request' = r /\ doing' = r.kind /\ step' = "select" /\ i' = 0 /\ buff' = <<>>
  /\ UNCHANGED device

Return ==
  IF doing = "write" /\ request.flushed
  THEN doing' = "flush" /\ step' = "select" /\ i' = 0 /\ UNCHANGED request
  ELSE /\ doing' = "none" /\ step' = "idle" /\ i' = 0
       /\ request' = IF doing = "write" THEN request ELSE None

(* The address and count registers; flush sets no address.                 *)
Select ==
  /\ step = "select" /\ step' = "command"
  /\ address' = IF drive = "busy" \/ doing \in {"flush", "identify"} THEN address
                ELSE request.sector
  /\ UNCHANGED <<medium, drive, err, command, fifo, request, doing, i, buff>>

CommandOf == [read |-> "READ", write |-> "WRITE", flush |-> "FLUSH", identify |-> "IDENTIFY"]

(* write28 reads the status once, and nothing depends on it.               *)
Issue ==
  /\ step = "command"
  /\ TakesCommand(CommandOf[doing])
  /\ step' = IF doing = "write" THEN "data" ELSE "poll"
  /\ UNCHANGED <<request, doing, i, buff>>

(* The loop that reads the status until the drive is not busy or reports   *)
(* an error.                                                               *)
PollsUntilData ==                \* mutant
  IF doing = "flush" THEN drive = "busy" /\ ~err ELSE drive # "in"
PollsOnce == FALSE               \* mutant
Polls == drive = "busy" /\ ~err

Poll ==
  /\ step = "poll"
  /\ CASE Polls -> UNCHANGED <<request, doing, step, i>>
       [] ~Polls /\ (err \/ doing = "flush") -> Return
       [] OTHER -> step' = "data" /\ UNCHANGED <<request, doing, i>>
  /\ UNCHANGED <<device, buff>>

(* The bytes asked for, a word at a time; the last byte of an odd count is *)
(* half a word.  write28 relies on the drive being ready for the first.    *)
Count == CASE doing = "read" -> request.count [] doing = "write" -> Len(request.data)
           [] OTHER -> 0
WordAt(k) == <<request.data[k + 1], IF k + 1 < Count THEN request.data[k + 2] ELSE Zero>>

NotReady == doing = "write" /\ drive = "busy" /\ fifo = <<>>

Transfer ==
  /\ step = "data" /\ i < Count
  /\ InTime => ~NotReady
  /\ IF doing = "read"
     THEN /\ buff' = buff \o SubSeq(WordThere, 1, IF i + 1 < Count THEN 2 ELSE 1)
          /\ GivesWord
     ELSE TakesWord(WordAt(i)) /\ UNCHANGED buff
  /\ i' = i + 2
  /\ UNCHANGED <<request, doing, step>>

StartRest ==
  /\ step = "data" /\ i >= Count
  /\ step' = "rest" /\ i' = Count + (Count % 2)
  /\ UNCHANGED <<device, request, doing, buff>>

(* The rest of the sector.                                                 *)
MoreAndOne == i <= SectorSize   \* mutant
More == i < SectorSize

Rest ==
  /\ step = "rest"
  /\ IF More
     THEN /\ i' = i + 2
          /\ IF doing = "write" THEN TakesWord(<<Zero, Zero>>) ELSE GivesWord
          /\ UNCHANGED <<request, doing, step>>
     ELSE Return /\ UNCHANGED device
  /\ UNCHANGED buff

Host == Select \/ Issue \/ Poll \/ Transfer \/ StartRest \/ Rest

Next == (\E r \in Requests : Begin(r)) \/ Host \/ Drive

(* The processor goes on, and the drive finishes what it has begun.        *)
Fairness == WF_vars(Host) /\ WF_vars(Drive)

Spec == Init /\ [][Next]_vars /\ Fairness

-----------------------------------------------------------------------------
TypeOK ==
  /\ medium \in [Sectors -> [1..SectorSize -> Bytes]]
  /\ drive \in {"idle", "busy", "in", "out"} /\ err \in BOOLEAN /\ address \in Sectors
  /\ command \in {"none", "READ", "WRITE", "FLUSH", "IDENTIFY"}
  /\ fifo \in Seq(Bytes) /\ Len(fifo) <= SectorSize
  /\ request \in Requests \cup {None} /\ doing \in {"none", "read", "write", "flush", "identify"}
  /\ step \in {"idle", "select", "command", "poll", "data", "rest"}
  /\ i \in 0..SectorSize /\ buff \in Seq(Bytes) /\ Len(buff) <= SectorSize

(* A write that is not flushed is over when the drive is done with it.     *)
Sector == INSTANCE Disk WITH
  request <- IF step = "idle" /\ drive # "busy" THEN None ELSE request,
  answer <- IF step = "idle" THEN buff ELSE <<>>

(* Register by register and word by word, with a drive that works in its   *)
(* own time and may fail, the driver is a disk that answers one request at *)
(* a time: what is read is what was last written, from the first byte to   *)
(* the last, odd counts and the rest of the sector included.               *)
ImplementsDisk == Sector!Spec

(* Every request is over at some time, although the drive may fail at any  *)
(* of its steps.                                                           *)
RequestReturns == step # "idle" ~> step = "idle"
=============================================================================
