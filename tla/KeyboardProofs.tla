--------------------------- MODULE KeyboardProofs ---------------------------
(***************************************************************************)
(* Proofs about Keyboard, for every set of keys, every size of the buffer  *)
(* and every number of key presses: the types of its variables, that the   *)
(* interrupt handler and kb_fetch together implement KeyQueue, and that    *)
(* the packets the client gets are those the user's key presses stand for. *)
(***************************************************************************)
EXTENDS Keyboard, SequenceTheorems, FiniteSetTheorems, TLAPS

ModStates == [shift : BOOLEAN, alt : BOOLEAN, ctrl : BOOLEAN, capslock : BOOLEAN]

(* The handler is kept out exactly while kb_fetch moves packets, and       *)
(* kb_fetch takes one only if there is one; the packets that wait are      *)
(* whole at each step of the move.                                         *)
QueueInv ==
  /\ TypeOK
  /\ handle_irq <=> pc \notin {"take", "shift", "unmask"}
  /\ pc \in {"mask", "take", "shift"} => buffer_end # 0
  /\ pc = "shift" => idx <= buffer_end
  /\ pc \in {"shift", "unmask"} => out \in Packets
  /\ irq => obf # NoByte
  /\ Waiting \in Seq(Packets)

-----------------------------------------------------------------------------
(* The packets that wait, one by one.                                      *)
WaitingLen == IF pc = "shift" THEN buffer_end - 1 ELSE buffer_end
Slot(j) == IF pc = "shift" /\ idx < j THEN j ELSE j - 1

LEMMA WaitingSlots ==
  ASSUME TypeOK, pc = "shift" => buffer_end # 0
  PROVE  /\ WaitingLen \in Nat /\ WaitingLen <= KB_BUFFER_SIZE
         /\ Waiting = [j \in 1..WaitingLen |-> kb_buffer[Slot(j)]]
         /\ Len(Waiting) = WaitingLen
         /\ \A j \in 1..WaitingLen : Slot(j) \in 0..KB_BUFFER_SIZE - 1 /\ Slot(j) < buffer_end
  <1>1. /\ buffer_end \in Nat /\ buffer_end <= KB_BUFFER_SIZE /\ KB_BUFFER_SIZE \in Nat \ {0}
        /\ idx \in Nat
        BY KeyboardAssumption DEF TypeOK
  <1>2. WaitingLen \in Nat /\ WaitingLen <= KB_BUFFER_SIZE
        BY <1>1 DEF WaitingLen
  <1>3. \A j \in 1..WaitingLen : Slot(j) \in 0..KB_BUFFER_SIZE - 1 /\ Slot(j) < buffer_end
        BY <1>1 DEF WaitingLen, Slot
  <1>4. Waiting = [j \in 1..WaitingLen |-> kb_buffer[Slot(j)]]
    <2>1. CASE pc = "shift"
      <3>1. \A j \in 1..buffer_end - 1 : (idx < j) <=> ~(j <= idx)
            BY <1>1
      <3>2. [j \in 1..buffer_end - 1 |-> IF j <= idx THEN kb_buffer[j - 1] ELSE kb_buffer[j]]
              = [j \in 1..buffer_end - 1 |-> kb_buffer[Slot(j)]]
            BY <2>1, <3>1 DEF Slot
      <3> QED BY <2>1, <3>2 DEF Waiting, WaitingLen
    <2>2. CASE pc # "shift"
          BY <2>2 DEF Waiting, WaitingLen, Slot
    <2> QED BY <2>1, <2>2
  <1>5. Len(Waiting) = WaitingLen
        BY <1>2, <1>4
  <1> QED BY <1>2, <1>3, <1>4, <1>5

(* The packets in their slots make the sequence of those that wait.        *)
LEMMA WaitingIsSeq ==
  ASSUME TypeOK, pc = "shift" => buffer_end # 0,
         \A j \in 1..WaitingLen : kb_buffer[Slot(j)] \in Packets
  PROVE  Waiting \in Seq(Packets)
  <1>1. /\ WaitingLen \in Nat
        /\ Waiting = [j \in 1..WaitingLen |-> kb_buffer[Slot(j)]]
        BY WaitingSlots
  <1>2. Waiting \in [1..WaitingLen -> Packets]
        BY <1>1
  <1> QED BY <1>1, <1>2, SeqDef

(* A key's packet, whatever the modifiers.                                 *)
LEMMA PacketTypes ==
  ASSUME NEW k \in Keys, NEW m \in ModStates
  PROVE  /\ Pressed(m, k) \in ModStates /\ Released(m, k) \in ModStates
         /\ \A n \in ModStates : Packet(k, n, Value(k, m)) \in Packets
  <1>1. Pressed(m, k) \in ModStates
        BY DEF Pressed, ModStates
  <1>2. Released(m, k) \in ModStates
        BY DEF Released, ModStates
  <1>3. Value(k, m) \in Keys \X {"us", "shift", "caps", "shift_caps"}
        BY DEF Value, Layout
  <1>4. ASSUME NEW n \in ModStates PROVE Packet(k, n, Value(k, m)) \in Packets
    <2>1. (Kind[k] = "char") \in BOOLEAN
          OBVIOUS
    <2> QED BY <1>3, <2>1 DEF Packet, Packets, ModStates
  <1> QED BY <1>1, <1>2, <1>4

LEMMA CodeKinds ==
  /\ E0 \notin Codes /\ NoByte \notin Codes /\ E0 # NoByte
  /\ \A c \in Codes : c.key \in Keys /\ c.make \in BOOLEAN
  /\ ~E0.make /\ ~NoByte.make
  BY KeyboardAssumption DEF E0, NoByte, Codes, Code

LEMMA InitQueueInv == Init => QueueInv /\ Queue!Init
  <1> SUFFICES ASSUME Init PROVE QueueInv /\ Queue!Init
      OBVIOUS
  <1>1. TypeOK
        BY KeyboardAssumption, EmptySeq DEF Init, TypeOK
  <1>2. Waiting = <<>>
    <2>1. pc # "shift" /\ buffer_end = 0
          BY DEF Init
    <2>2. Waiting = [j \in 1..0 |-> kb_buffer[j - 1]]
          BY <2>1 DEF Waiting
    <2> QED BY <2>2
  <1>3. Waiting \in Seq(Packets)
        BY <1>2, EmptySeq
  <1>4. Fetched = <<>>
        BY DEF Init, Fetched
  <1> QED BY <1>1, <1>2, <1>3, <1>4 DEF QueueInv, Queue!Init, Init

-----------------------------------------------------------------------------
(* What a step does to the queue.                                          *)
QueueStep == Queue!Next \/ UNCHANGED <<Waiting, Fetched>>

(* Nobody has touched the buffer or kb_fetch.                              *)
LEMMA BufferUntouched ==
  ASSUME QueueInv, TypeOK', irq' => obf' # NoByte,
         UNCHANGED <<handle_irq, buffer, fetch>>
  PROVE  QueueInv' /\ UNCHANGED <<Waiting, Fetched>>
  <1>1. UNCHANGED <<handle_irq, kb_buffer, buffer_end, pc, idx, out, got>>
        BY DEF buffer, fetch
  <1>2. UNCHANGED <<Waiting, Fetched>>
        BY <1>1 DEF Waiting, Fetched
  <1> QED BY <1>1, <1>2 DEF QueueInv

LEMMA PressQueue ==
  ASSUME QueueInv, NEW k \in Keys, Press(k) \/ Release(k)
  PROVE  QueueInv' /\ UNCHANGED <<Waiting, Fetched>>
  <1>1. \A make \in BOOLEAN : Send(k, make) => fifo' \in Seq(Codes \cup {E0})
    <2> SUFFICES ASSUME NEW make \in BOOLEAN, Send(k, make)
                 PROVE  fifo' \in Seq(Codes \cup {E0})
        OBVIOUS
    <2> DEFINE S == Codes \cup {E0}
               pre == IF k \in Extended THEN <<E0>> ELSE <<>>
               last == <<Code(k, make)>>
    <2>1. fifo \in Seq(S) /\ pre \in Seq(S) /\ last \in Seq(S)
      <3>1. Code(k, make) \in S /\ E0 \in S /\ fifo \in Seq(S)
            BY DEF Codes, Code, QueueInv, TypeOK
      <3> HIDE DEF S
      <3>2. <<E0>> \in Seq(S) /\ <<>> \in Seq(S) /\ <<Code(k, make)>> \in Seq(S)
            BY <3>1
      <3> QED BY <3>1, <3>2
    <2>2. fifo' = fifo \o pre \o last
          BY DEF Send
    <2> HIDE DEF S, pre, last
    <2>3. fifo \o pre \in Seq(S)
          BY <2>1, ConcatProperties
    <2>4. fifo' \in Seq(S)
          BY <2>1, <2>2, <2>3, ConcatProperties
    <2> QED BY <2>4 DEF S
  <1>2. fifo' \in Seq(Codes \cup {E0})
        BY <1>1 DEF Press, Release
  <1>3. /\ held' \subseteq Keys /\ locked' \in BOOLEAN /\ events' \in 0..MaxTyped
        /\ UNCHANGED <<obf, irq, handle_irq, buffer, is_pressed, mods, fetch, missed, dropped>>
    <2>1. events \in Nat /\ MaxTyped \in Nat /\ held \subseteq Keys /\ locked \in BOOLEAN
          BY KeyboardAssumption DEF QueueInv, TypeOK
    <2>2. events < MaxTyped /\ events' = events + 1
          BY DEF Press, Release
    <2>3. events' \in 0..MaxTyped
          BY <2>1, <2>2
    <2>4. held' \subseteq Keys /\ locked' \in BOOLEAN
          BY <2>1 DEF Press, Release
    <2> QED BY <2>3, <2>4 DEF Press, Release
  <1>4. TypeOK'
        BY <1>2, <1>3 DEF QueueInv, TypeOK, buffer, fetch
  <1> QED BY <1>3, <1>4, BufferUntouched DEF QueueInv

LEMMA ArriveQueue ==
  ASSUME QueueInv, Arrive
  PROVE  QueueInv' /\ UNCHANGED <<Waiting, Fetched>>
  <1>1. obf' \in Codes \cup {E0} /\ fifo' \in Seq(Codes \cup {E0}) /\ irq' = TRUE
        BY HeadTailProperties DEF Arrive, QueueInv, TypeOK
  <1>2. UNCHANGED <<device, handle_irq, buffer, is_pressed, mods, fetch, missed, dropped>>
        BY DEF Arrive
  <1>3. TypeOK'
        BY <1>1, <1>2 DEF QueueInv, TypeOK, device, buffer, fetch
  <1>4. obf' # NoByte
        BY <1>1, CodeKinds
  <1> QED BY <1>2, <1>3, <1>4, BufferUntouched

(* add_to_buffer is the queue's Put, if kb_fetch is not moving packets.    *)
LEMMA AddPuts ==
  ASSUME QueueInv, handle_irq, NEW p \in Packets, add_to_buffer(p), UNCHANGED fetch
  PROVE  /\ Queue!Put(p)
         /\ kb_buffer' \in [0..KB_BUFFER_SIZE - 1 -> Packets \cup {Blank}]
         /\ buffer_end' \in 0..KB_BUFFER_SIZE /\ buffer_end' # 0
         /\ handle_irq' = TRUE /\ dropped' \in BOOLEAN
         /\ Waiting' \in Seq(Packets)
  <1>1. /\ TypeOK /\ pc \notin {"take", "shift", "unmask"} /\ pc' = pc /\ got' = got
        /\ UNCHANGED Fetched
        BY DEF QueueInv, fetch, Fetched
  <1>2. /\ buffer_end \in Nat /\ buffer_end <= KB_BUFFER_SIZE /\ KB_BUFFER_SIZE \in Nat
        /\ KB_BUFFER_SIZE # 0
        /\ kb_buffer \in [0..KB_BUFFER_SIZE - 1 -> Packets \cup {Blank}]
        BY <1>1, KeyboardAssumption DEF TypeOK
  <1>3. /\ Waiting = [j \in 1..buffer_end |-> kb_buffer[j - 1]] /\ Len(Waiting) = buffer_end
        /\ Waiting' = [j \in 1..buffer_end' |-> kb_buffer'[j - 1]]
        /\ Waiting \in Seq(Packets)
        BY <1>1, <1>2 DEF Waiting, QueueInv
  <1>4. CASE buffer_end < KB_BUFFER_SIZE
    <2>1. /\ kb_buffer' = [kb_buffer EXCEPT ![buffer_end] = p]
          /\ buffer_end' = buffer_end + 1 /\ UNCHANGED <<dropped, handle_irq>>
      <3>1. ~(buffer_end >= KB_BUFFER_SIZE)
            BY <1>2, <1>4
      <3> QED BY <3>1 DEF add_to_buffer
    <2>2. /\ Append(Waiting, p) \in Seq(Packets) /\ Len(Append(Waiting, p)) = buffer_end + 1
          /\ \A j \in 1..buffer_end : Append(Waiting, p)[j] = kb_buffer[j - 1]
          /\ Append(Waiting, p)[buffer_end + 1] = p
          BY <1>2, <1>3, AppendProperties
    <2> DEFINE w == Append(Waiting, p)
    <2> HIDE DEF w
    <2>3. w = [j \in 1..buffer_end + 1 |-> w[j]]
          BY <2>2, LenProperties DEF w
    <2>4. \A j \in 1..buffer_end + 1 : kb_buffer'[j - 1] = w[j]
      <3> SUFFICES ASSUME NEW j \in 1..buffer_end + 1 PROVE kb_buffer'[j - 1] = w[j]
          OBVIOUS
      <3>1. CASE j = buffer_end + 1
            BY <1>2, <1>4, <2>1, <2>2, <3>1 DEF w
      <3>2. CASE j # buffer_end + 1
        <4>1. j \in 1..buffer_end /\ j - 1 # buffer_end
              BY <1>2, <3>2
        <4> QED BY <1>2, <1>4, <2>1, <2>2, <4>1 DEF w
      <3> QED BY <3>1, <3>2
    <2>5. Waiting' = w
          BY <1>3, <2>1, <2>3, <2>4
    <2>6. Queue!Put(p)
      <3>1. Len(Waiting) # KB_BUFFER_SIZE
            BY <1>2, <1>3, <1>4
      <3>2. Waiting' = Append(Waiting, p) /\ UNCHANGED Fetched
            BY <1>1, <2>5 DEF w
      <3> QED BY <3>1, <3>2 DEF Queue!Put
    <2>7. kb_buffer' \in [0..KB_BUFFER_SIZE - 1 -> Packets \cup {Blank}]
          BY <1>2, <1>4, <2>1
    <2> QED BY <1>1, <1>2, <1>4, <2>1, <2>2, <2>5, <2>6, <2>7 DEF w, TypeOK
  <1>5. CASE ~(buffer_end < KB_BUFFER_SIZE)
    <2>1. buffer_end = KB_BUFFER_SIZE
          BY <1>2, <1>5
    <2>2. /\ kb_buffer' = [j \in 0..KB_BUFFER_SIZE - 1 |->
                             IF j = KB_BUFFER_SIZE - 1 THEN p ELSE At(j + 1)]
          /\ buffer_end' = buffer_end /\ handle_irq' = TRUE /\ dropped' = TRUE
          BY <1>2, <1>5, <2>1 DEF add_to_buffer
    <2> DEFINE n == KB_BUFFER_SIZE
    <2>3. /\ Waiting # <<>> /\ Tail(Waiting) \in Seq(Packets) /\ Len(Tail(Waiting)) = n - 1
          /\ \A j \in 1..n - 1 : Tail(Waiting)[j] = kb_buffer[j]
      <3>1. Waiting # <<>>
            BY <1>2, <1>3, <2>1
      <3>2. /\ Tail(Waiting) \in Seq(Packets) /\ Len(Tail(Waiting)) = n - 1
            /\ \A j \in 1..n - 1 : Tail(Waiting)[j] = Waiting[j + 1]
        <4>1. Waiting \in Seq(Packets) /\ Len(Waiting) = n
              BY <1>3, <2>1
        <4> HIDE DEF n
        <4> QED BY <3>1, <4>1, HeadTailProperties
      <3>3. \A j \in 1..n - 1 : Waiting[j + 1] = kb_buffer[j]
        <4>1. \A j \in 1..n - 1 : j + 1 \in 1..buffer_end /\ (j + 1) - 1 = j
              BY <1>2, <2>1
        <4> QED BY <1>3, <4>1
      <3> QED BY <3>1, <3>2, <3>3
    <2> DEFINE w == Append(Tail(Waiting), p)
    <2>4. /\ w \in Seq(Packets) /\ Len(w) = n
          /\ \A j \in 1..n - 1 : w[j] = kb_buffer[j]
          /\ w[n] = p
          BY <1>2, <2>3, AppendProperties
    <2> HIDE DEF w
    <2>5. w = [j \in 1..n |-> w[j]]
          BY <2>4, LenProperties
    <2>6. \A j \in 1..n : kb_buffer'[j - 1] = w[j]
      <3> SUFFICES ASSUME NEW j \in 1..n PROVE kb_buffer'[j - 1] = w[j]
          OBVIOUS
      <3>1. j - 1 \in 0..n - 1
            BY <1>2
      <3>2. CASE j = n
            BY <1>2, <2>2, <2>4, <3>1, <3>2
      <3>3. CASE j # n
        <4>1. j \in 1..n - 1 /\ j - 1 # n - 1 /\ (j - 1) + 1 = j /\ j < n
              BY <1>2, <3>3
        <4>2. kb_buffer'[j - 1] = At(j)
              BY <2>2, <3>1, <4>1
        <4> QED BY <2>4, <4>1, <4>2 DEF At
      <3> QED BY <3>2, <3>3
    <2>7. Waiting' = w
          BY <1>3, <2>1, <2>2, <2>5, <2>6
    <2>8. Queue!Put(p)
          BY <1>1, <1>3, <2>1, <2>7 DEF Queue!Put, w
    <2>9. kb_buffer' \in [0..n - 1 -> Packets \cup {Blank}]
      <3>1. \A j \in 0..n - 1 : j # n - 1 => j + 1 \in 0..n - 1
            BY <1>2
      <3>2. \A j \in 0..n - 1 : At(j + 1) \in Packets \cup {Blank}
            BY <1>2, <3>1 DEF At
      <3> QED BY <2>2, <3>2
    <2> QED BY <1>1, <1>2, <2>1, <2>2, <2>4, <2>7, <2>8, <2>9 DEF TypeOK
  <1> QED BY <1>4, <1>5

(* The interrupt handler puts one packet into the queue for a key press,   *)
(* and none otherwise.                                                     *)
LEMMA InputQueue ==
  ASSUME QueueInv, keyboard_input
  PROVE  /\ QueueInv'
         /\ \/ UNCHANGED <<Waiting, Fetched>>
            \/ /\ handle_irq /\ obf \in Codes /\ obf.make
               /\ Queue!Put(Packet(obf.key, Pressed(mods, obf.key), Value(obf.key, mods)))
  <1>1. /\ TypeOK /\ irq /\ irq' = FALSE /\ UNCHANGED <<device, fifo, fetch>>
        /\ mods \in ModStates
        BY DEF QueueInv, TypeOK, keyboard_input, ModStates
  <1>2. CASE ~Handles
    <2>1. missed' = TRUE /\ UNCHANGED <<obf, is_pressed, mods, buffer, dropped, handle_irq>>
          BY <1>2 DEF keyboard_input
    <2>2. irq' \in BOOLEAN /\ handle_irq' \in BOOLEAN /\ missed' \in BOOLEAN /\ dropped' \in BOOLEAN
          BY <1>1, <2>1 DEF TypeOK
    <2>3. TypeOK'
          BY <1>1, <2>1, <2>2 DEF TypeOK, device, buffer, fetch
    <2> QED BY <1>1, <2>1, <2>3, BufferUntouched
  <1>3. CASE Handles
    <2>1. handle_irq /\ obf' = NoByte /\ missed' = missed
          BY <1>3 DEF keyboard_input, Handles
    <2>2. obf # NoByte /\ obf \in Codes \cup {E0}
          BY <1>1 DEF QueueInv, TypeOK
    <2>3. CASE obf = E0
      <3>1. UNCHANGED <<is_pressed, mods, buffer, dropped, handle_irq>>
            BY <1>3, <2>3 DEF keyboard_input
      <3>3. /\ UNCHANGED <<held, locked, typed, events, fifo, handle_irq, kb_buffer, buffer_end,
                         is_pressed, mods, pc, idx, out, got, missed, dropped>>
            /\ obf' \in Codes \cup {E0, NoByte} /\ irq' \in BOOLEAN
            BY <1>1, <2>1, <3>1 DEF device, buffer, fetch
      <3>2. TypeOK'
            BY <1>1, <3>3 DEF TypeOK, QueueInv
      <3> QED BY <1>1, <3>1, <3>2, BufferUntouched
    <2>4. CASE obf # E0 /\ obf.make
      <3> DEFINE k == obf.key
                 p == Packet(k, Pressed(mods, k), Value(k, mods))
      <3>1. obf \in Codes /\ k \in Keys
            BY <2>2, <2>4, CodeKinds
      <3>2. key_pressed(k)
            BY <1>3, <2>4 DEF keyboard_input
      <3>3. p \in Packets /\ Pressed(mods, k) \in ModStates
            BY <1>1, <3>1, PacketTypes
      <3>4. add_to_buffer(p) /\ mods' = Pressed(mods, k) /\ is_pressed' = is_pressed \cup {k}
            BY <3>2 DEF key_pressed
      <3>5. UNCHANGED fetch
            BY <1>1
      <3> HIDE DEF p, k
      <3>6. /\ Queue!Put(p)
            /\ kb_buffer' \in [0..KB_BUFFER_SIZE - 1 -> Packets \cup {Blank}]
            /\ buffer_end' \in 0..KB_BUFFER_SIZE /\ buffer_end' # 0
            /\ handle_irq' = TRUE /\ dropped' \in BOOLEAN
            /\ Waiting' \in Seq(Packets)
            BY <2>1, <3>3, <3>4, <3>5, AddPuts
      <3>7. is_pressed' \subseteq Keys /\ mods' \in ModStates
            BY <1>1, <3>1, <3>3, <3>4 DEF TypeOK
      <3>8. TypeOK'
            BY <1>1, <2>1, <3>6, <3>7 DEF TypeOK, device, fetch, ModStates
      <3>9. QueueInv'
            BY <1>1, <2>1, <3>6, <3>8 DEF QueueInv, fetch
      <3> QED BY <2>1, <2>4, <3>1, <3>6, <3>9 DEF p, k
    <2>5. CASE obf # E0 /\ ~obf.make
      <3>1. obf.key \in Keys /\ key_released(obf.key)
            BY <1>3, <2>2, <2>5, CodeKinds DEF keyboard_input
      <3>2. mods' \in ModStates /\ is_pressed' \subseteq Keys
            /\ UNCHANGED <<buffer, dropped, handle_irq>>
            BY <1>1, <3>1, PacketTypes DEF key_released, TypeOK
      <3>3. TypeOK'
            BY <1>1, <2>1, <3>2 DEF TypeOK, device, buffer, fetch, ModStates
      <3> QED BY <1>1, <3>2, <3>3, BufferUntouched
    <2> QED BY <2>3, <2>4, <2>5
  <1> QED BY <1>2, <1>3

(* kb_fetch: the packet leaves the queue when it is copied, and the packets *)
(* that move up behind it are the same at each step.                       *)
FetchStep == QueueInv' /\ (Queue!Get \/ UNCHANGED <<Waiting, Fetched>>)

LEMMA WaitQueue ==
  ASSUME QueueInv, Client, KbFetch \/ Waited \/ Mask
  PROVE  QueueInv' /\ UNCHANGED <<Waiting, Fetched>>
  <1>1. /\ UNCHANGED <<kb_buffer, buffer_end, idx, out, got>> /\ pc \notin {"take", "shift", "unmask"}
        /\ pc' # "shift" /\ pc' # "unmask" /\ pc' \in {"wait", "mask", "take"}
        /\ handle_irq' <=> pc' \notin {"take", "shift", "unmask"}
        /\ handle_irq' \in BOOLEAN
        /\ pc' \in {"mask", "take", "shift"} => buffer_end # 0
        BY DEF QueueInv, TypeOK, KbFetch, Waited, Mask, Goto, buffer
  <1>2. UNCHANGED <<Waiting, Fetched>>
        BY <1>1 DEF Waiting, Fetched
  <1>3. UNCHANGED <<held, locked, typed, events, fifo, obf, irq, is_pressed, mods, missed, dropped>>
        BY DEF Client, device
  <1>4. TypeOK'
        BY <1>1, <1>3 DEF QueueInv, TypeOK
  <1> QED BY <1>1, <1>2, <1>3, <1>4 DEF QueueInv

LEMMA TakeQueue ==
  ASSUME QueueInv, Client, Take
  PROVE  QueueInv' /\ Queue!Get
  <1>1. /\ TypeOK /\ pc = "take" /\ pc' = "shift" /\ out' = At(0) /\ idx' = 0 /\ buffer_end # 0
        /\ UNCHANGED <<handle_irq, kb_buffer, buffer_end, got>>
        /\ UNCHANGED <<held, locked, typed, events, fifo, obf, irq, is_pressed, mods, missed, dropped>>
        BY DEF QueueInv, Take, Goto, Client, device, buffer
  <1>2. /\ buffer_end \in Nat /\ buffer_end <= KB_BUFFER_SIZE /\ KB_BUFFER_SIZE \in Nat
        BY <1>1, KeyboardAssumption DEF TypeOK
  <1>3. /\ Waiting = [j \in 1..buffer_end |-> kb_buffer[j - 1]] /\ Len(Waiting) = buffer_end
        /\ Waiting \in Seq(Packets) /\ Waiting # <<>>
        BY <1>1, <1>2 DEF Waiting, QueueInv
  <1>4. /\ out' = kb_buffer[0] /\ kb_buffer[0] = Head(Waiting) /\ out' \in Packets
    <2>1. 1 \in 1..buffer_end /\ 1 - 1 = 0 /\ 0 < KB_BUFFER_SIZE
          BY <1>1, <1>2
    <2>2. kb_buffer[0] = Waiting[1]
          BY <1>3, <2>1
    <2>3. out' = kb_buffer[0]
          BY <1>1, <2>1 DEF At
    <2>4. Head(Waiting) = Waiting[1] /\ Head(Waiting) \in Packets
      <3>1. Waiting \in Seq(Packets) /\ Waiting # <<>>
            BY <1>3
      <3> QED BY <3>1, HeadTailProperties
    <2> QED BY <2>2, <2>3, <2>4
  <1>5. Waiting' = [j \in 1..buffer_end - 1 |-> kb_buffer[j]]
    <2>1. \A j \in 1..buffer_end - 1 : ~(j <= 0)
          BY <1>2
    <2> QED BY <1>1, <2>1 DEF Waiting
  <1>6. Waiting' = Tail(Waiting) /\ Tail(Waiting) \in Seq(Packets)
    <2>1. /\ Tail(Waiting) \in Seq(Packets) /\ Len(Tail(Waiting)) = buffer_end - 1
          /\ \A j \in 1..buffer_end - 1 : Tail(Waiting)[j] = Waiting[j + 1]
          BY <1>3, HeadTailProperties
    <2>2. \A j \in 1..buffer_end - 1 : Waiting[j + 1] = kb_buffer[j]
      <3>1. \A j \in 1..buffer_end - 1 : j + 1 \in 1..buffer_end /\ (j + 1) - 1 = j
            BY <1>2
      <3> QED BY <1>3, <3>1
    <2> DEFINE t == Tail(Waiting)
    <2> HIDE DEF t
    <2>3. t = [j \in 1..buffer_end - 1 |-> t[j]]
          BY <2>1, LenProperties DEF t
    <2>4. \A j \in 1..buffer_end - 1 : t[j] = kb_buffer[j]
          BY <2>1, <2>2 DEF t
    <2>5. Waiting' = t
          BY <1>5, <2>3, <2>4
    <2> QED BY <2>1, <2>5 DEF t
  <1>7. Queue!Get
    <2>1. Fetched = got /\ Fetched' = Append(got, out')
          BY <1>1 DEF Fetched
    <2> QED BY <1>3, <1>4, <1>6, <2>1 DEF Queue!Get
  <1>8. TypeOK'
        BY <1>1, <1>2, <1>4 DEF TypeOK
  <1>9. QueueInv'
        BY <1>1, <1>2, <1>4, <1>6, <1>8 DEF QueueInv
  <1> QED BY <1>7, <1>9

LEMMA ShiftQueue ==
  ASSUME QueueInv, Client, Shift
  PROVE  QueueInv' /\ UNCHANGED <<Waiting, Fetched>>
  <1>1. /\ TypeOK /\ pc = "shift" /\ idx < buffer_end /\ idx' = idx + 1 /\ buffer_end # 0
        /\ kb_buffer' = [kb_buffer EXCEPT ![idx] = At(idx + 1)] /\ out \in Packets
        /\ UNCHANGED <<handle_irq, buffer_end, pc, out, got>>
        /\ UNCHANGED <<held, locked, typed, events, fifo, obf, irq, is_pressed, mods, missed, dropped>>
        BY DEF QueueInv, Shift, Client, device
  <1>2. /\ buffer_end \in Nat /\ buffer_end <= KB_BUFFER_SIZE /\ KB_BUFFER_SIZE \in Nat
        /\ idx \in Nat /\ kb_buffer \in [0..KB_BUFFER_SIZE - 1 -> Packets \cup {Blank}]
        BY <1>1, KeyboardAssumption DEF TypeOK
  <1>3. /\ idx \in 0..KB_BUFFER_SIZE - 1 /\ idx + 1 \in 0..KB_BUFFER_SIZE
        /\ idx + 1 <= buffer_end
        BY <1>1, <1>2
  <1>4. kb_buffer' \in [0..KB_BUFFER_SIZE - 1 -> Packets \cup {Blank}]
    <2>1. idx + 1 < KB_BUFFER_SIZE => idx + 1 \in 0..KB_BUFFER_SIZE - 1
          BY <1>2
    <2>2. At(idx + 1) \in Packets \cup {Blank}
          BY <1>2, <2>1 DEF At
    <2> QED BY <1>1, <1>2, <2>2
  <1>5. TypeOK'
        BY <1>1, <1>2, <1>3, <1>4 DEF TypeOK
  <1>6. Waiting' = Waiting
    <2>1. \A j \in 1..buffer_end - 1 :
            (IF j <= idx + 1 THEN kb_buffer'[j - 1] ELSE kb_buffer'[j])
              = (IF j <= idx THEN kb_buffer[j - 1] ELSE kb_buffer[j])
      <3> SUFFICES ASSUME NEW j \in 1..buffer_end - 1
                   PROVE  (IF j <= idx + 1 THEN kb_buffer'[j - 1] ELSE kb_buffer'[j])
                            = (IF j <= idx THEN kb_buffer[j - 1] ELSE kb_buffer[j])
          OBVIOUS
      <3>1. /\ j \in 0..KB_BUFFER_SIZE - 1 /\ j - 1 \in 0..KB_BUFFER_SIZE - 1
            /\ j < KB_BUFFER_SIZE
            BY <1>2
      <3>2. CASE j <= idx
        <4>1. j <= idx + 1 /\ j - 1 # idx
              BY <1>2, <3>2
        <4> QED BY <1>1, <1>2, <3>1, <3>2, <4>1
      <3>3. CASE j = idx + 1
        <4>1. ~(j <= idx) /\ j <= idx + 1 /\ j - 1 = idx
              BY <1>2, <3>3
        <4>2. kb_buffer'[j - 1] = At(j)
              BY <1>1, <1>2, <3>1, <3>3, <4>1
        <4> QED BY <3>1, <4>1, <4>2 DEF At
      <3>4. CASE ~(j <= idx) /\ j # idx + 1
        <4>1. ~(j <= idx + 1) /\ j # idx
              BY <1>2, <3>4
        <4> QED BY <1>1, <1>2, <3>1, <3>4, <4>1
      <3> QED BY <3>2, <3>3, <3>4
    <2>2. Waiting' = [j \in 1..buffer_end - 1 |->
                        IF j <= idx + 1 THEN kb_buffer'[j - 1] ELSE kb_buffer'[j]]
          BY <1>1 DEF Waiting
    <2>3. Waiting = [j \in 1..buffer_end - 1 |->
                       IF j <= idx THEN kb_buffer[j - 1] ELSE kb_buffer[j]]
          BY <1>1 DEF Waiting
    <2> QED BY <2>1, <2>2, <2>3
  <1>7. Fetched' = Fetched
        BY <1>1 DEF Fetched
  <1> QED BY <1>1, <1>3, <1>5, <1>6, <1>7 DEF QueueInv

LEMMA ShrinkQueue ==
  ASSUME QueueInv, Client, Shrink
  PROVE  QueueInv' /\ UNCHANGED <<Waiting, Fetched>>
  <1>1. /\ TypeOK /\ pc = "shift" /\ pc' = "unmask" /\ ~(idx < buffer_end) /\ buffer_end # 0
        /\ buffer_end' = buffer_end - 1 /\ idx <= buffer_end /\ out \in Packets
        /\ UNCHANGED <<handle_irq, kb_buffer, idx, out, got>>
        /\ UNCHANGED <<held, locked, typed, events, fifo, obf, irq, is_pressed, mods, missed, dropped>>
        BY DEF QueueInv, Shrink, Goto, Client, device
  <1>2. /\ buffer_end \in Nat /\ buffer_end <= KB_BUFFER_SIZE /\ KB_BUFFER_SIZE \in Nat
        /\ idx \in Nat
        BY <1>1, KeyboardAssumption DEF TypeOK
  <1>3. TypeOK'
        BY <1>1, <1>2 DEF TypeOK
  <1>4. Waiting' = Waiting
    <2>1. \A j \in 1..buffer_end - 1 : j <= idx
          BY <1>1, <1>2
    <2> QED BY <1>1, <2>1 DEF Waiting
  <1>5. Fetched' = Fetched
        BY <1>1 DEF Fetched
  <1> QED BY <1>1, <1>3, <1>4, <1>5 DEF QueueInv

LEMMA UnmaskQueue ==
  ASSUME QueueInv, Client, Unmask
  PROVE  QueueInv' /\ UNCHANGED <<Waiting, Fetched>>
  <1>1. /\ TypeOK /\ pc = "unmask" /\ pc' = "idle" /\ handle_irq' = TRUE
        /\ got' = Append(got, out) /\ out' = Blank /\ idx' = 0 /\ out \in Packets
        /\ UNCHANGED <<kb_buffer, buffer_end>>
        /\ UNCHANGED <<held, locked, typed, events, fifo, obf, irq, is_pressed, mods, missed, dropped>>
        BY DEF QueueInv, Unmask, Goto, Client, device, buffer
  <1>2. got' \in Seq(Packets) /\ 0 \in 0..KB_BUFFER_SIZE
        BY <1>1, KeyboardAssumption, AppendProperties DEF TypeOK
  <1>3. TypeOK'
        BY <1>1, <1>2 DEF TypeOK
  <1>4. UNCHANGED <<Waiting, Fetched>>
        BY <1>1 DEF Waiting, Fetched
  <1> QED BY <1>1, <1>3, <1>4 DEF QueueInv

LEMMA ClientQueue ==
  ASSUME QueueInv, Client
  PROVE  FetchStep
  <1>1. CASE KbFetch \/ Waited \/ Mask
        BY <1>1, WaitQueue DEF FetchStep
  <1>2. CASE Take
        BY <1>2, TakeQueue DEF FetchStep
  <1>3. CASE Shift
        BY <1>3, ShiftQueue DEF FetchStep
  <1>4. CASE Shrink
        BY <1>4, ShrinkQueue DEF FetchStep
  <1>5. CASE Unmask
        BY <1>5, UnmaskQueue DEF FetchStep
  <1> QED BY <1>1, <1>2, <1>3, <1>4, <1>5 DEF Client, Fetching

LEMMA QueueInvStep == QueueInv /\ [Next]_vars => QueueInv' /\ QueueStep
  <1> SUFFICES ASSUME QueueInv, [Next]_vars PROVE QueueInv' /\ QueueStep
      OBVIOUS
  <1>1. ASSUME NEW k \in Keys, Press(k) \/ Release(k) PROVE QueueInv' /\ QueueStep
        BY <1>1, PressQueue DEF QueueStep
  <1>2. CASE Arrive
        BY <1>2, ArriveQueue DEF QueueStep
  <1>3. CASE keyboard_input
    <2>1. CASE UNCHANGED <<Waiting, Fetched>>
          BY <1>3, <2>1, InputQueue DEF QueueStep
    <2>2. CASE ~UNCHANGED <<Waiting, Fetched>>
      <3> DEFINE p == Packet(obf.key, Pressed(mods, obf.key), Value(obf.key, mods))
      <3>1. QueueInv' /\ obf \in Codes /\ Queue!Put(p)
            BY <1>3, <2>2, InputQueue
      <3>2. p \in Packets
        <4>1. mods \in ModStates /\ obf.key \in Keys
              BY <3>1, CodeKinds DEF QueueInv, TypeOK, ModStates
        <4> QED BY <4>1, PacketTypes
      <3> HIDE DEF p
      <3> QED BY <3>1, <3>2 DEF QueueStep, Queue!Next
    <2> QED BY <2>1, <2>2
  <1>4. CASE Client
        BY <1>4, ClientQueue DEF FetchStep, QueueStep, Queue!Next
  <1>5. CASE UNCHANGED vars
    <2>1. /\ UNCHANGED <<handle_irq, buffer, fetch>>
          /\ UNCHANGED <<held, locked, typed, events, fifo, obf, irq, is_pressed, mods, missed,
                         dropped>>
          BY <1>5 DEF vars, device
    <2>2. TypeOK'
          BY <2>1 DEF QueueInv, TypeOK, buffer, fetch
    <2>3. irq' => obf' # NoByte
          BY <2>1 DEF QueueInv
    <2> QED BY <2>1, <2>2, <2>3, BufferUntouched DEF QueueStep
  <1> QED BY <1>1, <1>2, <1>3, <1>4, <1>5 DEF Next

(* Indices, buffer and packets keep their types: neither the handler nor   *)
(* kb_fetch writes behind the buffer of src/src/drivers/keyboard.c.        *)
THEOREM KeyboardTypeCorrect == Spec => []TypeOK
  <1>1. QueueInv => TypeOK
        BY DEF QueueInv
  <1> QED BY <1>1, InitQueueInv, QueueInvStep, PTL DEF Spec

(* The interrupt handler and kb_fetch together are a queue, whatever its   *)
(* size and whenever the interrupt comes: add_to_buffer puts a packet at   *)
(* its end, displacing the oldest when it is full, kb_fetch takes the      *)
(* first, and no packet is torn, doubled or out of order.                  *)
THEOREM KeyboardImplementsQueue == Spec => ImplementsQueue
  <1>1. QueueInv /\ [Next]_vars => [Queue!Next]_<<Waiting, Fetched>>
        BY QueueInvStep DEF QueueStep
  <1> QED BY <1>1, InitQueueInv, QueueInvStep, PTL
          DEF Spec, ImplementsQueue, Queue!Spec, Queue!vars

-----------------------------------------------------------------------------
(* From the keys to the queue.  A code that is handled takes the driver's  *)
(* modifiers from m to n, and the number of key presses seen from a to b;  *)
(* t are the packets of all key presses.                                   *)
Effect(t, c, m, a, n, b) ==
  IF c \in Codes
  THEN IF c.make
       THEN n = Pressed(m, c.key) /\ b = a + 1 /\ t[b] = Packet(c.key, n, Value(c.key, m))
       ELSE n = Released(m, c.key) /\ b = a
  ELSE n = m /\ b = a

(* The codes on their way, o in the output buffer and f behind it, will    *)
(* take the modifiers from m to n and the key presses from a to b: mm and  *)
(* num are what they are before each code.                                 *)
Along(t, o, f, mm, num) ==
  /\ mm \in [0..Len(f) + 1 -> ModStates] /\ num \in [0..Len(f) + 1 -> 0..Len(t)]
  /\ Effect(t, o, mm[0], num[0], mm[1], num[1])
  /\ \A j \in 1..Len(f) : Effect(t, f[j], mm[j], num[j], mm[j + 1], num[j + 1])

Flight(t, o, f, m, a, n, b) ==
  \E mm, num :
    /\ Along(t, o, f, mm, num)
    /\ mm[0] = m /\ num[0] = a /\ mm[Len(f) + 1] = n /\ num[Len(f) + 1] = b

(* What is on its way turns the driver's view into the user's.             *)
InFlight ==
  Flight(typed, obf, fifo, mods, Len(typed) - MakesUnderWay,
         UserMods(held, locked), Len(typed))

DeliveryInv ==
  /\ QueueInv /\ typed \in Seq(Packets)
  /\ InFlight /\ TypedIsDelivered

Sent == Codes \cup {E0}

(* The user sends one more code, which stands for a key press or not.      *)
LEMMA FlightExtends ==
  ASSUME NEW t \in Seq(Packets), NEW u \in Seq(Packets), NEW f \in Seq(Sent), NEW c \in Sent,
         Len(t) <= Len(u), \A j \in 1..Len(t) : u[j] = t[j],
         NEW o, NEW m, NEW a, NEW n, NEW b, Flight(t, o, f, m, a, n, b),
         NEW l \in ModStates, NEW d \in 0..Len(u), Effect(u, c, n, b, l, d)
  PROVE  Flight(u, o, f \o <<c>>, m, a, l, d)
  <1> DEFINE z == Len(f)
             g == f \o <<c>>
             w == Len(t)
             v == Len(u)
  <1>1. z \in Nat /\ w \in Nat /\ v \in Nat /\ w <= v
        BY LenProperties
  <1>2. Len(g) = z + 1 /\ g[z + 1] = c /\ \A j \in 1..z : g[j] = f[j]
    <2>1. <<c>> \in Seq(Sent) /\ Len(<<c>>) = 1 /\ <<c>>[1] = c
          OBVIOUS
    <2>2. /\ Len(g) = z + 1
          /\ \A j \in 1..z + 1 : g[j] = IF j <= z THEN f[j] ELSE <<c>>[j - z]
          BY <2>1, ConcatProperties
    <2>3. (z + 1) - z = 1 /\ ~(z + 1 <= z) /\ z + 1 \in 1..z + 1
          BY <1>1
    <2>4. \A j \in 1..z : j \in 1..z + 1 /\ j <= z
          BY <1>1
    <2> HIDE DEF g, z
    <2> QED BY <2>1, <2>2, <2>3, <2>4
  <1>3. PICK mm, num : /\ Along(t, o, f, mm, num)
                       /\ mm[0] = m /\ num[0] = a /\ mm[z + 1] = n /\ num[z + 1] = b
        BY DEF Flight
  <1>4. /\ mm \in [0..z + 1 -> ModStates] /\ num \in [0..z + 1 -> 0..w]
        /\ Effect(t, o, mm[0], num[0], mm[1], num[1])
        /\ \A j \in 1..z : Effect(t, f[j], mm[j], num[j], mm[j + 1], num[j + 1])
        BY <1>3 DEF Along
  <1> DEFINE mx == [j \in 0..z + 2 |-> IF j = z + 2 THEN l ELSE mm[j]]
             nx == [j \in 0..z + 2 |-> IF j = z + 2 THEN d ELSE num[j]]
  <1> HIDE DEF z, g, w, v
  <1>5. mx \in [0..z + 2 -> ModStates] /\ nx \in [0..z + 2 -> 0..v]
    <2>1. \A j \in 0..z + 2 : j # z + 2 => j \in 0..z + 1
          BY <1>1
    <2>2. \A j \in 0..z + 1 : num[j] \in 0..v
          BY <1>1, <1>4
    <2>3. d \in 0..v
          BY DEF v
    <2> QED BY <1>4, <2>1, <2>2, <2>3
  <1>6. /\ mx[0] = m /\ nx[0] = a /\ mx[1] = mm[1] /\ nx[1] = num[1]
        /\ mx[z + 2] = l /\ nx[z + 2] = d /\ mx[z + 1] = n /\ nx[z + 1] = b
        /\ \A j \in 1..z : /\ mx[j] = mm[j] /\ nx[j] = num[j]
                           /\ mx[j + 1] = mm[j + 1] /\ nx[j + 1] = num[j + 1]
    <2>1. /\ 0 \in 0..z + 2 /\ 1 \in 0..z + 2 /\ z + 1 \in 0..z + 2 /\ z + 2 \in 0..z + 2
          /\ 0 # z + 2 /\ 1 # z + 2 /\ z + 1 # z + 2
          /\ \A j \in 1..z : /\ j \in 0..z + 2 /\ j # z + 2
                             /\ j + 1 \in 0..z + 2 /\ j + 1 # z + 2
          BY <1>1
    <2> QED BY <1>3, <2>1
  <1>7. \A e, p, q, r, s : q \in 0..w /\ s \in 0..w /\ Effect(t, e, p, q, r, s)
                             => Effect(u, e, p, q, r, s)
    <2> SUFFICES ASSUME NEW e, NEW p, NEW q, NEW r, NEW s,
                        q \in 0..w, s \in 0..w, Effect(t, e, p, q, r, s)
                 PROVE  Effect(u, e, p, q, r, s)
        OBVIOUS
    <2>1. s = q + 1 => u[s] = t[s]
      <3>1. s = q + 1 => s \in 1..w
            BY <1>1
      <3> QED BY <3>1 DEF w
    <2> QED BY <2>1 DEF Effect
  <1>8. Effect(u, o, mx[0], nx[0], mx[1], nx[1])
    <2>1. num[0] \in 0..w /\ num[1] \in 0..w
          BY <1>1, <1>4
    <2> QED BY <1>3, <1>4, <1>6, <1>7, <2>1
  <1>9. \A j \in 1..z + 1 : Effect(u, g[j], mx[j], nx[j], mx[j + 1], nx[j + 1])
    <2> SUFFICES ASSUME NEW j \in 1..z + 1
                 PROVE  Effect(u, g[j], mx[j], nx[j], mx[j + 1], nx[j + 1])
        OBVIOUS
    <2>1. CASE j = z + 1
      <3>1. j + 1 = z + 2
            BY <1>1, <2>1
      <3> QED BY <1>2, <1>6, <2>1, <3>1
    <2>2. CASE j # z + 1
      <3>1. j \in 1..z /\ j \in 0..z + 1 /\ j + 1 \in 0..z + 1
            BY <1>1, <2>2
      <3>2. num[j] \in 0..w /\ num[j + 1] \in 0..w
            BY <1>4, <3>1
      <3> QED BY <1>2, <1>4, <1>6, <1>7, <3>1, <3>2
    <2> QED BY <2>1, <2>2
  <1> HIDE DEF mx, nx
  <1>10. Along(u, o, g, mx, nx)
    <2>1. Len(g) + 1 = z + 2
          BY <1>1, <1>2
    <2> QED BY <1>2, <1>5, <1>8, <1>9, <2>1 DEF Along, v
  <1>11. Flight(u, o, g, m, a, l, d)
    <2>1. Len(g) + 1 = z + 2
          BY <1>1, <1>2
    <2> QED BY <1>6, <1>10, <2>1 DEF Flight
  <1> QED BY <1>11 DEF g

(* The next code arrives in the empty output buffer.                       *)
LEMMA FlightArrives ==
  ASSUME NEW t \in Seq(Packets), NEW f \in Seq(Sent), f # <<>>,
         NEW m, NEW a, NEW n, NEW b, Flight(t, NoByte, f, m, a, n, b)
  PROVE  Flight(t, Head(f), Tail(f), m, a, n, b)
  <1> DEFINE z == Len(f)
             g == Tail(f)
             w == Len(t)
  <1>1. z \in Nat /\ z # 0 /\ w \in Nat
        BY LenProperties, EmptySeq
  <1>2. Len(g) = z - 1 /\ Head(f) = f[1] /\ \A j \in 1..z - 1 : g[j] = f[j + 1]
        BY HeadTailProperties
  <1>3. PICK mm, num : /\ Along(t, NoByte, f, mm, num)
                       /\ mm[0] = m /\ num[0] = a /\ mm[z + 1] = n /\ num[z + 1] = b
        BY DEF Flight
  <1>4. /\ mm \in [0..z + 1 -> ModStates] /\ num \in [0..z + 1 -> 0..w]
        /\ mm[1] = m /\ num[1] = a
        /\ \A j \in 1..z : Effect(t, f[j], mm[j], num[j], mm[j + 1], num[j + 1])
        BY <1>3, CodeKinds DEF Along, Effect
  <1> DEFINE mx == [j \in 0..z |-> mm[j + 1]]
             nx == [j \in 0..z |-> num[j + 1]]
  <1> HIDE DEF z, g, w
  <1>5. mx \in [0..z -> ModStates] /\ nx \in [0..z -> 0..w]
    <2>1. \A j \in 0..z : j + 1 \in 0..z + 1
          BY <1>1
    <2> QED BY <1>4, <2>1
  <1>6. /\ mx[0] = m /\ nx[0] = a /\ mx[z] = n /\ nx[z] = b
        /\ \A j \in 0..z : mx[j] = mm[j + 1] /\ nx[j] = num[j + 1]
        /\ mx[1] = mm[2] /\ nx[1] = num[2]
    <2>1. 0 \in 0..z /\ z \in 0..z /\ 1 \in 0..z /\ 0 + 1 = 1 /\ 1 + 1 = 2
          BY <1>1
    <2>2. \A j \in 0..z : mx[j] = mm[j + 1] /\ nx[j] = num[j + 1]
          OBVIOUS
    <2> HIDE DEF mx, nx
    <2>3. mx[0] = mm[1] /\ nx[0] = num[1] /\ mx[1] = mm[2] /\ nx[1] = num[2]
          BY <2>1, <2>2
    <2> QED BY <1>3, <1>4, <2>1, <2>2, <2>3
  <1> HIDE DEF mx, nx
  <1>7. Effect(t, Head(f), mx[0], nx[0], mx[1], nx[1])
    <2>1. 1 \in 1..z /\ 1 + 1 = 2
          BY <1>1
    <2>2. Effect(t, f[1], mm[1], num[1], mm[2], num[2])
          BY <1>4, <2>1
    <2> QED BY <1>2, <1>4, <1>6, <2>2
  <1>8. \A j \in 1..z - 1 : Effect(t, g[j], mx[j], nx[j], mx[j + 1], nx[j + 1])
    <2> SUFFICES ASSUME NEW j \in 1..z - 1
                 PROVE  Effect(t, g[j], mx[j], nx[j], mx[j + 1], nx[j + 1])
        OBVIOUS
    <2> DEFINE i == j + 1
    <2>1. i \in 1..z /\ j \in 0..z /\ i \in 0..z
          BY <1>1
    <2>2. g[j] = f[i] /\ mx[j] = mm[i] /\ nx[j] = num[i]
          BY <1>2, <1>6, <2>1
    <2>3. mx[i] = mm[i + 1] /\ nx[i] = num[i + 1]
          BY <1>6, <2>1
    <2> HIDE DEF i
    <2>4. Effect(t, f[i], mm[i], num[i], mm[i + 1], num[i + 1])
          BY <1>4, <2>1
    <2>5. Effect(t, g[j], mx[j], nx[j], mx[i], nx[i])
          BY <2>2, <2>3, <2>4
    <2> QED BY <2>5 DEF i
  <1>9. Along(t, Head(f), g, mx, nx)
    <2>1. Len(g) + 1 = z
          BY <1>1, <1>2
    <2> QED BY <1>2, <1>5, <1>7, <1>8, <2>1 DEF Along, w
  <1>10. Flight(t, Head(f), g, m, a, n, b)
    <2>1. Len(g) + 1 = z
          BY <1>1, <1>2
    <2> QED BY <1>6, <1>9, <2>1 DEF Flight
  <1> QED BY <1>10 DEF g

(* The handler takes the code out of the output buffer.                    *)
LEMMA FlightHandled ==
  ASSUME NEW t \in Seq(Packets), NEW f \in Seq(Sent), NEW o,
         NEW m, NEW a, NEW n, NEW b, Flight(t, o, f, m, a, n, b)
  PROVE  /\ a \in 0..Len(t)
         /\ \E l \in ModStates, d \in 0..Len(t) :
              Effect(t, o, m, a, l, d) /\ Flight(t, NoByte, f, l, d, n, b)
  <1> DEFINE z == Len(f)
             w == Len(t)
  <1>1. z \in Nat /\ w \in Nat
        BY LenProperties
  <1>3. PICK mm, num : /\ Along(t, o, f, mm, num)
                       /\ mm[0] = m /\ num[0] = a /\ mm[z + 1] = n /\ num[z + 1] = b
        BY DEF Flight
  <1>4. /\ mm \in [0..z + 1 -> ModStates] /\ num \in [0..z + 1 -> 0..w]
        /\ Effect(t, o, mm[0], num[0], mm[1], num[1])
        /\ \A j \in 1..z : Effect(t, f[j], mm[j], num[j], mm[j + 1], num[j + 1])
        BY <1>3 DEF Along
  <1> DEFINE mx == [mm EXCEPT ![0] = mm[1]]
             nx == [num EXCEPT ![0] = num[1]]
  <1> HIDE DEF z, w
  <1>5. /\ 0 \in 0..z + 1 /\ 1 \in 0..z + 1 /\ z + 1 # 0 /\ z + 1 \in 0..z + 1
        /\ \A j \in 1..z : j # 0 /\ j + 1 # 0 /\ j \in 0..z + 1 /\ j + 1 \in 0..z + 1
        BY <1>1
  <1>6. mx \in [0..z + 1 -> ModStates] /\ nx \in [0..z + 1 -> 0..w]
        BY <1>4, <1>5
  <1>7. /\ mx[0] = mm[1] /\ nx[0] = num[1] /\ mx[1] = mm[1] /\ nx[1] = num[1]
        /\ mx[z + 1] = n /\ nx[z + 1] = b
        /\ \A j \in 1..z : /\ mx[j] = mm[j] /\ nx[j] = num[j]
                           /\ mx[j + 1] = mm[j + 1] /\ nx[j + 1] = num[j + 1]
        BY <1>3, <1>4, <1>5
  <1>8. mm[1] \in ModStates /\ num[1] \in 0..w /\ num[0] \in 0..w
        BY <1>4, <1>5
  <1> HIDE DEF mx, nx
  <1>9. Effect(t, NoByte, mx[0], nx[0], mx[1], nx[1])
        BY <1>7, CodeKinds DEF Effect
  <1>10. \A j \in 1..z : Effect(t, f[j], mx[j], nx[j], mx[j + 1], nx[j + 1])
        BY <1>4, <1>7
  <1>11. Along(t, NoByte, f, mx, nx)
        BY <1>6, <1>9, <1>10 DEF Along, z, w
  <1>12. Flight(t, NoByte, f, mm[1], num[1], n, b)
        BY <1>7, <1>11 DEF Flight, z
  <1> QED BY <1>3, <1>4, <1>8, <1>12 DEF w

-----------------------------------------------------------------------------
(* How many key presses are on their way.                                  *)
Makes(f) == {j \in DOMAIN f : f[j].make}

LEMMA MakesFinite ==
  ASSUME NEW f \in Seq(Sent)
  PROVE  IsFiniteSet(Makes(f)) /\ Cardinality(Makes(f)) \in Nat
  <1>1. Len(f) \in Nat /\ DOMAIN f = 1..Len(f)
        BY LenProperties
  <1>2. IsFiniteSet(1..Len(f)) /\ Makes(f) \in SUBSET (1..Len(f))
        BY <1>1, FS_Interval DEF Makes
  <1>3. IsFiniteSet(Makes(f))
        BY <1>2, FS_Subset
  <1> QED BY <1>3, FS_CardinalityType

LEMMA MakesSent ==
  ASSUME NEW f \in Seq(Sent), NEW c \in Sent
  PROVE  Cardinality(Makes(f \o <<c>>)) = Cardinality(Makes(f)) + IF c.make THEN 1 ELSE 0
  <1> DEFINE z == Len(f)
             g == f \o <<c>>
  <1>1. z \in Nat /\ DOMAIN f = 1..z
        BY LenProperties
  <1>2. <<c>> \in Seq(Sent) /\ Len(<<c>>) = 1 /\ <<c>>[1] = c
        OBVIOUS
  <1>3. /\ g \in Seq(Sent) /\ Len(g) = z + 1
        /\ \A j \in 1..z + 1 : g[j] = IF j <= z THEN f[j] ELSE <<c>>[j - z]
        BY <1>2, ConcatProperties
  <1> HIDE DEF g, z
  <1>4. DOMAIN g = 1..z + 1
        BY <1>3, LenProperties
  <1>5. /\ g[z + 1] = c /\ z + 1 \in 1..z + 1 /\ z + 1 \notin 1..z
        /\ \A j \in 1..z : g[j] = f[j] /\ j \in 1..z + 1
        /\ \A j \in 1..z + 1 : j = z + 1 \/ j \in 1..z
    <2>1. /\ (z + 1) - z = 1 /\ ~(z + 1 <= z) /\ z + 1 \in 1..z + 1 /\ z + 1 \notin 1..z
          /\ \A j \in 1..z : j \in 1..z + 1 /\ j <= z
          /\ \A j \in 1..z + 1 : j = z + 1 \/ j \in 1..z
          BY <1>1
    <2> QED BY <1>2, <1>3, <2>1
  <1>6. IsFiniteSet(Makes(f)) /\ Cardinality(Makes(f)) \in Nat /\ z + 1 \notin Makes(f)
        BY <1>1, <1>5, MakesFinite DEF Makes
  <1>7. CASE c.make
    <2>1. Makes(g) = Makes(f) \cup {z + 1}
          BY <1>1, <1>4, <1>5, <1>7 DEF Makes
    <2> QED BY <1>6, <1>7, <2>1, FS_AddElement DEF g
  <1>8. CASE ~c.make
    <2>1. Makes(g) = Makes(f)
          BY <1>1, <1>4, <1>5, <1>8 DEF Makes
    <2> QED BY <1>6, <1>8, <2>1 DEF g
  <1> QED BY <1>7, <1>8

LEMMA MakesArrive ==
  ASSUME NEW f \in Seq(Sent), f # <<>>
  PROVE  Cardinality(Makes(f)) = Cardinality(Makes(Tail(f))) + IF Head(f).make THEN 1 ELSE 0
  <1> DEFINE z == Len(f)
             g == Tail(f)
  <1>1. z \in Nat /\ z # 0 /\ DOMAIN f = 1..z
        BY LenProperties, EmptySeq
  <1>2. g \in Seq(Sent) /\ Len(g) = z - 1 /\ \A j \in 1..z - 1 : g[j] = f[j + 1]
        BY HeadTailProperties
  <1>9. Head(f) = f[1]
        OBVIOUS
  <1> HIDE DEF g, z
  <1>3. DOMAIN g = 1..z - 1
        BY <1>2, LenProperties
  <1> DEFINE S == Makes(g)
             T == Makes(f) \ {1}
             h == [j \in S |-> j + 1]
  <1>4. IsFiniteSet(S) /\ IsFiniteSet(Makes(f)) /\ Cardinality(Makes(f)) \in Nat
        BY <1>2, MakesFinite
  <1>5. h \in Bijection(S, T)
    <2>1. \A j \in 1..z - 1 : j + 1 \in 1..z /\ j + 1 # 1
          BY <1>1
    <2>2. \A j \in S : j \in 1..z - 1 /\ f[j + 1].make
          BY <1>2, <1>3 DEF Makes
    <2>3. h \in [S -> T]
          BY <1>1, <2>1, <2>2 DEF Makes
    <2>4. \A j, k \in S : h[j] = h[k] => j = k
      <3>1. \A j, k \in 1..z - 1 : j + 1 = k + 1 => j = k
            BY <1>1
      <3> QED BY <2>2, <3>1
    <2>5. \A k \in T : \E j \in S : h[j] = k
      <3> SUFFICES ASSUME NEW k \in T PROVE \E j \in S : h[j] = k
          OBVIOUS
      <3> DEFINE j == k - 1
      <3>1. k \in 1..z /\ k # 1 /\ f[k].make
            BY <1>1 DEF Makes
      <3>2. j \in 1..z - 1 /\ j + 1 = k
            BY <1>1, <3>1
      <3> HIDE DEF j
      <3>3. j \in S
            BY <1>2, <1>3, <3>1, <3>2 DEF Makes
      <3> QED BY <3>2, <3>3
    <2> QED BY <2>3, <2>4, <2>5 DEF Bijection, Injection, Surjection, IsInjective
  <1> HIDE DEF h
  <1>6. Cardinality(T) = Cardinality(S)
        BY <1>4, <1>5, FS_Bijection DEF ExistsBijection
  <1>7. 1 \in Makes(f) <=> f[1].make
        BY <1>1 DEF Makes
  <1>8. Cardinality(T) = IF 1 \in Makes(f) THEN Cardinality(Makes(f)) - 1 ELSE Cardinality(Makes(f))
        BY <1>4, FS_RemoveElement
  <1>10. Cardinality(S) \in Nat
        BY <1>4, FS_CardinalityType
  <1> HIDE DEF S, T
  <1>11. Cardinality(Makes(f)) = Cardinality(S) + IF f[1].make THEN 1 ELSE 0
        BY <1>4, <1>6, <1>7, <1>8, <1>10
  <1> QED BY <1>9, <1>11 DEF S, g

-----------------------------------------------------------------------------
(* The end of a sequence, element by element.                              *)
LEMMA SuffixIs ==
  ASSUME NEW s \in Seq(Packets), NEW t \in Seq(Packets)
  PROVE  IsSuffix(s, t) <=>
           /\ Len(s) <= Len(t)
           /\ \A j \in 1..Len(s) : s[j] = t[j + (Len(t) - Len(s))]
  <1> DEFINE m == Len(s)
             n == Len(t)
             r == Reverse(s)
             q == Reverse(t)
  <1>1. m \in Nat /\ n \in Nat
        BY LenProperties
  <1>2. /\ r = [k \in 1..m |-> s[(m - k) + 1]] /\ q = [k \in 1..n |-> t[(n - k) + 1]]
        BY DEF Reverse
  <1>3. \A k \in 1..m : s[k] \in Packets
        BY ElementOfSeq
  <1>4. \A k \in 1..n : t[k] \in Packets
        BY ElementOfSeq
  <1> HIDE DEF m, n
  <1>5. r \in Seq(Packets) /\ Len(r) = m
    <2>1. \A k \in 1..m : (m - k) + 1 \in 1..m
          BY <1>1
    <2>2. r \in [1..m -> Packets]
          BY <1>2, <1>3, <2>1
    <2> HIDE DEF r
    <2> QED BY <1>1, <2>2, SeqDef
  <1>6. q \in Seq(Packets) /\ Len(q) = n
    <2>1. \A k \in 1..n : (n - k) + 1 \in 1..n
          BY <1>1
    <2>2. q \in [1..n -> Packets]
          BY <1>2, <1>4, <2>1
    <2> HIDE DEF q
    <2> QED BY <1>1, <2>2, SeqDef
  <1> HIDE DEF r, q
  <1>7. IsSuffix(s, t) <=> m <= n /\ SubSeq(r, 1, m) = SubSeq(q, 1, m)
        BY <1>5, <1>6 DEF IsSuffix, IsPrefix, r, q
  <1>8. ASSUME m <= n
        PROVE  SubSeq(r, 1, m) = SubSeq(q, 1, m) <=> \A j \in 1..m : s[j] = t[j + (n - m)]
    <2>1. SubSeq(r, 1, m) = r
          BY <1>5, SubSeqFull
    <2>2. /\ SubSeq(q, 1, m) \in Seq(Packets) /\ Len(SubSeq(q, 1, m)) = m
          /\ \A k \in 1..m : SubSeq(q, 1, m)[k] = q[k]
      <3>1. \A k \in 1..m : q[k] \in Packets
        <4>1. \A k \in 1..m : k \in 1..Len(q)
              BY <1>1, <1>6, <1>8
        <4> QED BY <1>6, <4>1, ElementOfSeq
      <3>2. /\ SubSeq(q, 1, m) \in Seq(Packets)
            /\ Len(SubSeq(q, 1, m)) = IF 1 <= m THEN m - 1 + 1 ELSE 0
            /\ \A k \in 1..m - 1 + 1 : SubSeq(q, 1, m)[k] = q[1 + k - 1]
            BY <1>1, <3>1, SubSeqProperties
      <3>3. /\ (IF 1 <= m THEN m - 1 + 1 ELSE 0) = m /\ m - 1 + 1 = m
            /\ \A k \in 1..m : 1 + k - 1 = k
            BY <1>1
      <3> QED BY <3>2, <3>3
    <2>3. r = SubSeq(q, 1, m) <=> \A k \in 1..m : r[k] = q[k]
      <3> DEFINE p == SubSeq(q, 1, m)
      <3> HIDE DEF p
      <3>1. (\A k \in 1..Len(r) : r[k] = p[k]) => r = p
            BY <1>5, <2>2, SeqEqual DEF p
      <3> QED BY <1>5, <2>2, <3>1 DEF p
    <2>4. \A k \in 1..m : r[k] = s[(m - k) + 1] /\ q[k] = t[(n - k) + 1]
      <3>1. \A k \in 1..m : k \in 1..n
            BY <1>1, <1>8
      <3> QED BY <1>2, <3>1
    <2>5. ASSUME \A k \in 1..m : r[k] = q[k], NEW j \in 1..m
          PROVE  s[j] = t[j + (n - m)]
      <3> DEFINE k == (m - j) + 1
      <3>1. k \in 1..m /\ (m - k) + 1 = j /\ (n - k) + 1 = j + (n - m)
            BY <1>1
      <3> HIDE DEF k
      <3> QED BY <2>4, <2>5, <3>1
    <2>6. ASSUME \A j \in 1..m : s[j] = t[j + (n - m)], NEW k \in 1..m
          PROVE  r[k] = q[k]
      <3> DEFINE j == (m - k) + 1
      <3>1. j \in 1..m /\ (n - k) + 1 = j + (n - m)
            BY <1>1
      <3> HIDE DEF j
      <3>2. s[j] = t[j + (n - m)]
            BY <2>6, <3>1
      <3> QED BY <2>4, <3>1, <3>2 DEF j
    <2> QED BY <2>1, <2>3, <2>5, <2>6
  <1> QED BY <1>7, <1>8 DEF m, n

LEMMA SuffixTail ==
  ASSUME NEW s \in Seq(Packets), NEW t \in Seq(Packets), IsSuffix(s, t), s # <<>>
  PROVE  IsSuffix(Tail(s), t)
  <1> DEFINE m == Len(s)
             n == Len(t)
             r == Tail(s)
  <1>1. m \in Nat /\ n \in Nat /\ m # 0
        BY LenProperties, EmptySeq
  <1>2. r \in Seq(Packets) /\ Len(r) = m - 1 /\ \A j \in 1..m - 1 : r[j] = s[j + 1]
        BY HeadTailProperties
  <1>3. m <= n /\ \A j \in 1..m : s[j] = t[j + (n - m)]
        BY SuffixIs
  <1> HIDE DEF m, r
  <1>4. \A j \in 1..m - 1 : r[j] = t[j + (n - (m - 1))]
    <2> SUFFICES ASSUME NEW j \in 1..m - 1 PROVE r[j] = t[j + (n - (m - 1))]
        OBVIOUS
    <2>1. j + 1 \in 1..m /\ (j + 1) + (n - m) = j + (n - (m - 1))
          BY <1>1
    <2> QED BY <1>2, <1>3, <2>1
  <1>5. m - 1 <= n
        BY <1>1, <1>3
  <1> HIDE DEF n
  <1>6. Len(r) <= Len(t) /\ \A j \in 1..Len(r) : r[j] = t[j + (Len(t) - Len(r))]
        BY <1>2, <1>4, <1>5 DEF n
  <1>7. IsSuffix(r, t)
        BY <1>2, <1>6, SuffixIs
  <1> QED BY <1>7 DEF r

LEMMA SuffixAppend ==
  ASSUME NEW s \in Seq(Packets), NEW t \in Seq(Packets), IsSuffix(s, t), NEW p \in Packets
  PROVE  IsSuffix(Append(s, p), Append(t, p))
  <1> DEFINE m == Len(s)
             n == Len(t)
             r == Append(s, p)
             q == Append(t, p)
  <1>1. m \in Nat /\ n \in Nat
        BY LenProperties
  <1>2. /\ r \in Seq(Packets) /\ Len(r) = m + 1
        /\ r[m + 1] = p /\ \A j \in 1..m : r[j] = s[j]
        BY AppendProperties
  <1>3. /\ q \in Seq(Packets) /\ Len(q) = n + 1
        /\ q[n + 1] = p /\ \A j \in 1..n : q[j] = t[j]
        BY AppendProperties
  <1>4. m <= n /\ \A j \in 1..m : s[j] = t[j + (n - m)]
        BY SuffixIs
  <1> HIDE DEF m, n, r, q
  <1>5. \A j \in 1..m + 1 : r[j] = q[j + ((n + 1) - (m + 1))]
    <2> SUFFICES ASSUME NEW j \in 1..m + 1 PROVE r[j] = q[j + ((n + 1) - (m + 1))]
        OBVIOUS
    <2>1. (n + 1) - (m + 1) = n - m /\ (m + 1) + (n - m) = n + 1
          BY <1>1
    <2>2. CASE j = m + 1
          BY <1>2, <1>3, <2>1, <2>2
    <2>3. CASE j # m + 1
      <3>1. j \in 1..m /\ j + (n - m) \in 1..n
            BY <1>1, <1>4, <2>3
      <3> QED BY <1>2, <1>3, <1>4, <2>1, <3>1
    <2> QED BY <2>2, <2>3
  <1>6. Len(r) <= Len(q) /\ \A j \in 1..Len(r) : r[j] = q[j + (Len(q) - Len(r))]
    <2>1. m + 1 <= n + 1
          BY <1>1, <1>4
    <2> QED BY <2>1, <1>2, <1>3, <1>5
  <1>7. IsSuffix(r, q)
        BY <1>2, <1>3, <1>6, SuffixIs
  <1> QED BY <1>7 DEF r, q

-----------------------------------------------------------------------------
(* The modifiers as the user sets them follow the keys.  The user has one  *)
(* key of each modifier: with two shift keys down, the release of one      *)
(* turns _shift off.                                                       *)
OneOfEach ==
  \A j, k \in Keys : Kind[j] = Kind[k] /\ Kind[j] \in {"shift", "alt", "ctrl"} => j = k

LEMMA ModsExcept ==
  ASSUME NEW a, NEW b, NEW c, NEW d, NEW v, NEW m,
         m = [shift |-> a, alt |-> b, ctrl |-> c, capslock |-> d]
  PROVE  /\ [m EXCEPT !.shift = v] = [shift |-> v, alt |-> b, ctrl |-> c, capslock |-> d]
         /\ [m EXCEPT !.alt = v] = [shift |-> a, alt |-> v, ctrl |-> c, capslock |-> d]
         /\ [m EXCEPT !.ctrl = v] = [shift |-> a, alt |-> b, ctrl |-> v, capslock |-> d]
  OBVIOUS

LEMMA UserPresses ==
  ASSUME NEW keys \in SUBSET Keys, NEW lock \in BOOLEAN, NEW k \in Keys,
         k \notin keys \/ Kind[k] # "caps"
  PROVE  /\ UserMods(keys, lock) \in ModStates
         /\ UserMods(keys \cup {k}, IF Kind[k] = "caps" THEN ~lock ELSE lock)
              = Pressed(UserMods(keys, lock), k)
  <1> DEFINE u == UserMods(keys, lock)
             down(kind) == \E j \in keys : Kind[j] = kind
             also(kind) == \E j \in keys \cup {k} : Kind[j] = kind
             after == IF Kind[k] = "caps" THEN ~lock ELSE lock
  <1>1. u = [shift |-> down("shift"), alt |-> down("alt"), ctrl |-> down("ctrl"),
             capslock |-> lock]
        BY DEF UserMods
  <1>2. UserMods(keys \cup {k}, after)
          = [shift |-> also("shift"), alt |-> also("alt"), ctrl |-> also("ctrl"),
             capslock |-> after]
        BY DEF UserMods
  <1>3. \A kind : also(kind) <=> down(kind) \/ Kind[k] = kind
        OBVIOUS
  <1>4. \A kind : down(kind) \in BOOLEAN /\ also(kind) \in BOOLEAN
        OBVIOUS
  <1>5. Kind[k] \in {"char", "special", "shift", "alt", "ctrl", "caps"}
        BY KeyboardAssumption
  <1> HIDE DEF down, also
  <1>6. u \in ModStates
        BY <1>1, <1>4 DEF ModStates
  <1>7. UserMods(keys \cup {k}, after) = Pressed(u, k)
    <2>1. CASE Kind[k] = "shift"
      <3>1. also("shift") = TRUE /\ also("alt") = down("alt") /\ also("ctrl") = down("ctrl")
            BY <1>3, <1>4, <2>1
      <3>2. Pressed(u, k) = [u EXCEPT !.shift = TRUE]
            BY <2>1 DEF Pressed
      <3>3. after = lock
            BY <2>1
      <3> HIDE DEF u, after
      <3> QED BY <1>1, <1>2, <3>1, <3>2, <3>3, ModsExcept
    <2>2. CASE Kind[k] = "alt"
      <3>1. also("alt") = TRUE /\ also("shift") = down("shift") /\ also("ctrl") = down("ctrl")
            BY <1>3, <1>4, <2>2
      <3>2. Pressed(u, k) = [u EXCEPT !.alt = TRUE]
            BY <2>2 DEF Pressed
      <3>3. after = lock
            BY <2>2
      <3> HIDE DEF u, after
      <3> QED BY <1>1, <1>2, <3>1, <3>2, <3>3, ModsExcept
    <2>3. CASE Kind[k] = "ctrl"
      <3>1. also("ctrl") = TRUE /\ also("alt") = down("alt") /\ also("shift") = down("shift")
            BY <1>3, <1>4, <2>3
      <3>2. Pressed(u, k) = [u EXCEPT !.ctrl = TRUE]
            BY <2>3 DEF Pressed
      <3>3. after = lock
            BY <2>3
      <3> HIDE DEF u, after
      <3> QED BY <1>1, <1>2, <3>1, <3>2, <3>3, ModsExcept
    <2>4. CASE Kind[k] \in {"char", "special", "caps"}
      <3>1. also("shift") = down("shift") /\ also("alt") = down("alt") /\ also("ctrl") = down("ctrl")
            BY <1>3, <1>4, <2>4
      <3> QED BY <1>1, <1>2, <2>4, <3>1 DEF Pressed
    <2> QED BY <1>5, <2>1, <2>2, <2>3, <2>4
  <1> QED BY <1>6, <1>7

LEMMA UserReleases ==
  ASSUME OneOfEach, NEW keys \in SUBSET Keys, NEW lock \in BOOLEAN, NEW k \in keys
  PROVE  UserMods(keys \ {k}, lock) = Released(UserMods(keys, lock), k)
  <1> DEFINE u == UserMods(keys, lock)
             down(kind) == \E j \in keys : Kind[j] = kind
             still(kind) == \E j \in keys \ {k} : Kind[j] = kind
  <1>1. u = [shift |-> down("shift"), alt |-> down("alt"), ctrl |-> down("ctrl"),
             capslock |-> lock]
        BY DEF UserMods
  <1>2. UserMods(keys \ {k}, lock)
          = [shift |-> still("shift"), alt |-> still("alt"), ctrl |-> still("ctrl"),
             capslock |-> lock]
        BY DEF UserMods
  <1>3. \A kind : Kind[k] # kind => (still(kind) <=> down(kind))
        OBVIOUS
  <1>4. \A kind \in {"shift", "alt", "ctrl"} : Kind[k] = kind => ~still(kind)
        BY DEF OneOfEach
  <1>5. \A kind : down(kind) \in BOOLEAN /\ still(kind) \in BOOLEAN
        OBVIOUS
  <1>6. Kind[k] \in {"char", "special", "shift", "alt", "ctrl", "caps"}
        BY KeyboardAssumption
  <1> HIDE DEF down, still
  <1>7. CASE Kind[k] = "shift"
    <2>1. still("shift") = FALSE /\ still("alt") = down("alt") /\ still("ctrl") = down("ctrl")
          BY <1>3, <1>4, <1>5, <1>7
    <2>2. Released(u, k) = [u EXCEPT !.shift = FALSE]
          BY <1>7 DEF Released
    <2> HIDE DEF u
    <2>3. UserMods(keys \ {k}, lock) = Released(u, k)
          BY <1>1, <1>2, <2>1, <2>2, ModsExcept
    <2> QED BY <2>3 DEF u
  <1>8. CASE Kind[k] = "alt"
    <2>1. still("alt") = FALSE /\ still("shift") = down("shift") /\ still("ctrl") = down("ctrl")
          BY <1>3, <1>4, <1>5, <1>8
    <2>2. Released(u, k) = [u EXCEPT !.alt = FALSE]
          BY <1>8 DEF Released
    <2> HIDE DEF u
    <2>3. UserMods(keys \ {k}, lock) = Released(u, k)
          BY <1>1, <1>2, <2>1, <2>2, ModsExcept
    <2> QED BY <2>3 DEF u
  <1>9. CASE Kind[k] = "ctrl"
    <2>1. still("ctrl") = FALSE /\ still("alt") = down("alt") /\ still("shift") = down("shift")
          BY <1>3, <1>4, <1>5, <1>9
    <2>2. Released(u, k) = [u EXCEPT !.ctrl = FALSE]
          BY <1>9 DEF Released
    <2> HIDE DEF u
    <2>3. UserMods(keys \ {k}, lock) = Released(u, k)
          BY <1>1, <1>2, <2>1, <2>2, ModsExcept
    <2> QED BY <2>3 DEF u
  <1>10. CASE Kind[k] \in {"char", "special", "caps"}
    <2>1. still("shift") = down("shift") /\ still("alt") = down("alt") /\ still("ctrl") = down("ctrl")
          BY <1>3, <1>5, <1>10
    <2> QED BY <1>1, <1>2, <1>10, <2>1 DEF Released
  <1> QED BY <1>6, <1>7, <1>8, <1>9, <1>10

-----------------------------------------------------------------------------
(* What the queue's steps do to what is delivered.                         *)
LEMMA GetDelivers ==
  ASSUME QueueInv, TypedIsDelivered, Entered \in Seq(Packets),
         Queue!Get, Entered' = Entered, dropped' = dropped
  PROVE  TypedIsDelivered'
  <1>1. Waiting \in Seq(Packets) /\ Fetched \in Seq(Packets)
    <2>1. pc \in {"shift", "unmask"} => Append(got, out) \in Seq(Packets)
          BY AppendProperties DEF QueueInv, TypeOK
    <2> QED BY <2>1 DEF QueueInv, TypeOK, Fetched
  <1>2. /\ Waiting # <<>> /\ Waiting' = Tail(Waiting)
        /\ Fetched' = Append(Fetched, Head(Waiting))
        BY DEF Queue!Get
  <1>3. Head(Waiting) \in Packets /\ Tail(Waiting) \in Seq(Packets)
        BY <1>1, <1>2, HeadTailProperties
  <1>4. IsSuffix(Waiting', Entered')
        BY <1>1, <1>2, SuffixTail DEF TypedIsDelivered
  <1>5. Fetched' \o Waiting' = Fetched \o Waiting
    <2> DEFINE h == Head(Waiting)
               r == Tail(Waiting)
    <2>1. /\ Waiting = <<h>> \o r /\ <<h>> \in Seq(Packets)
      <3>1. Len(Waiting) \in Nat /\ Len(Waiting) # 0
            BY <1>1, <1>2, LenProperties, EmptySeq
      <3>2. <<h>> \in Seq(Packets) /\ Len(<<h>>) = 1 /\ <<h>>[1] = h
            BY <1>3
      <3>3. /\ r \in Seq(Packets) /\ Len(r) = Len(Waiting) - 1
            /\ \A j \in 1..Len(r) : r[j] = Waiting[j + 1]
            BY <1>1, <1>2, HeadTailProperties
      <3>4. h = Waiting[1]
            BY <1>2
      <3> DEFINE w == Waiting
                 n == Len(Waiting)
                 x == <<h>> \o r
      <3>5. x \in Seq(Packets) /\ Len(x) = 1 + (n - 1)
            /\ \A j \in 1..1 + (n - 1) : x[j] = IF j <= 1 THEN <<h>>[j] ELSE r[j - 1]
            BY <3>2, <3>3, ConcatProperties
      <3> HIDE DEF h, r, n, x
      <3>6. n \in Nat /\ n # 0 /\ 1 + (n - 1) = n
            BY <3>1 DEF n
      <3>7. \A j \in 1..n : w[j] = x[j]
        <4> SUFFICES ASSUME NEW j \in 1..n PROVE w[j] = x[j]
            OBVIOUS
        <4>1. CASE j = 1
              BY <3>2, <3>4, <3>5, <3>6, <4>1
        <4>2. CASE j # 1
          <5>1. ~(j <= 1) /\ j - 1 \in 1..n - 1 /\ (j - 1) + 1 = j
                BY <3>6, <4>2
          <5>2. Len(r) = n - 1
                BY <3>3 DEF n
          <5>3. r[j - 1] = w[j]
                BY <3>3, <5>1, <5>2
          <5> QED BY <3>5, <3>6, <5>1, <5>3
        <4> QED BY <4>1, <4>2
      <3>8. w = x
            BY <1>1, <3>5, <3>6, <3>7, SeqEqual DEF n
      <3> QED BY <3>2, <3>8 DEF x
    <2> HIDE DEF h, r
    <2>2. h \in Packets /\ r \in Seq(Packets)
          BY <1>3 DEF h, r
    <2>3. Append(Fetched, h) = Fetched \o <<h>>
          BY <1>1, <2>2, AppendIsConcat
    <2>4. (Fetched \o <<h>>) \o r = Fetched \o (<<h>> \o r)
          BY <1>1, <2>1, <2>2, ConcatAssociative
    <2> QED BY <1>2, <2>1, <2>3, <2>4 DEF h, r
  <1> QED BY <1>4, <1>5 DEF TypedIsDelivered

LEMMA PutDelivers ==
  ASSUME QueueInv, TypedIsDelivered, Entered \in Seq(Packets),
         NEW p \in Packets, Queue!Put(p), Entered' = Append(Entered, p),
         dropped' \/ (Len(Waiting) # KB_BUFFER_SIZE /\ dropped' = dropped)
  PROVE  TypedIsDelivered'
  <1>1. Waiting \in Seq(Packets) /\ Fetched \in Seq(Packets)
    <2>1. pc \in {"shift", "unmask"} => Append(got, out) \in Seq(Packets)
          BY AppendProperties DEF QueueInv, TypeOK
    <2> QED BY <2>1 DEF QueueInv, TypeOK, Fetched
  <1>2. IsSuffix(Waiting, Entered) /\ (~dropped => Fetched \o Waiting = Entered)
        BY DEF TypedIsDelivered
  <1>3. Fetched' = Fetched
        BY DEF Queue!Put
  <1>4. CASE Len(Waiting) = KB_BUFFER_SIZE
    <2>1. Waiting # <<>>
          BY <1>4, KeyboardAssumption
    <2>2. Waiting' = Append(Tail(Waiting), p) /\ Tail(Waiting) \in Seq(Packets)
          BY <1>1, <1>4, <2>1, HeadTailProperties DEF Queue!Put
    <2>3. IsSuffix(Waiting', Entered')
          BY <1>1, <1>2, <2>1, <2>2, SuffixTail, SuffixAppend
    <2> QED BY <1>4, <2>3 DEF TypedIsDelivered
  <1>5. CASE Len(Waiting) # KB_BUFFER_SIZE
    <2>1. Waiting' = Append(Waiting, p)
          BY <1>5 DEF Queue!Put
    <2>2. IsSuffix(Waiting', Entered')
          BY <1>1, <1>2, <2>1, SuffixAppend
    <2>3. Fetched \o Append(Waiting, p) = Append(Fetched \o Waiting, p)
      <3>1. <<p>> \in Seq(Packets)
            OBVIOUS
      <3>2. Append(Waiting, p) = Waiting \o <<p>>
            BY <1>1, AppendIsConcat
      <3>3. Fetched \o Waiting \in Seq(Packets)
            BY <1>1, ConcatProperties
      <3>4. Append(Fetched \o Waiting, p) = (Fetched \o Waiting) \o <<p>>
            BY <3>3, AppendIsConcat
      <3> QED BY <1>1, <3>1, <3>2, <3>4, ConcatAssociative
    <2> QED BY <1>2, <1>3, <2>1, <2>2, <2>3 DEF TypedIsDelivered
  <1> QED BY <1>4, <1>5

-----------------------------------------------------------------------------
(* The codes a key sends, and what they will do when they are handled.     *)
LEMMA SendFlight ==
  ASSUME NEW k \in Keys, NEW make \in BOOLEAN, Send(k, make),
         fifo \in Seq(Sent), typed \in Seq(Packets), NEW u \in Seq(Packets),
         Len(typed) <= Len(u), \A j \in 1..Len(typed) : u[j] = typed[j],
         NEW m, NEW a, NEW n \in ModStates, NEW b \in 0..Len(typed),
         Flight(typed, obf, fifo, m, a, n, b),
         NEW l \in ModStates, NEW d \in 0..Len(u), Effect(u, Code(k, make), n, b, l, d)
  PROVE  /\ Flight(u, obf, fifo', m, a, l, d)
         /\ Cardinality(Makes(fifo')) = Cardinality(Makes(fifo)) + IF make THEN 1 ELSE 0
  <1> DEFINE c == Code(k, make)
  <1>1. c \in Sent /\ c.make = make /\ E0 \in Sent /\ ~E0.make
        BY CodeKinds DEF Sent, Codes, Code
  <1>2. Effect(u, c, n, b, l, d)
        OBVIOUS
  <1>3. CASE k \in Extended
    <2> DEFINE f == fifo \o <<E0>>
    <2>1. fifo' = f \o <<c>>
          BY <1>3 DEF Send
    <2>2. f \in Seq(Sent)
      <3>1. <<E0>> \in Seq(Sent)
            BY <1>1
      <3> QED BY <3>1, ConcatProperties
    <2>3. Effect(typed, E0, n, b, n, b)
          BY CodeKinds DEF Effect
    <2>4. Len(typed) <= Len(typed)
          BY LenProperties
    <2>5. Flight(typed, obf, f, m, a, n, b)
          BY <1>1, <2>3, <2>4, FlightExtends
    <2>6. Cardinality(Makes(f)) = Cardinality(Makes(fifo))
      <3>1. Cardinality(Makes(f)) = Cardinality(Makes(fifo)) + 0 /\ Cardinality(Makes(fifo)) \in Nat
            BY <1>1, MakesSent, MakesFinite
      <3> QED BY <3>1
    <2> HIDE DEF f, c
    <2>7. Flight(u, obf, f \o <<c>>, m, a, l, d)
          BY <1>1, <1>2, <2>2, <2>5, FlightExtends
    <2>8. Cardinality(Makes(f \o <<c>>)) = Cardinality(Makes(f)) + IF make THEN 1 ELSE 0
          BY <1>1, <2>2, MakesSent
    <2> QED BY <2>1, <2>6, <2>7, <2>8
  <1>4. CASE k \notin Extended
    <2>1. fifo' = fifo \o <<c>>
      <3>1. fifo' = fifo \o <<>> \o <<c>>
            BY <1>4 DEF Send
      <3>2. fifo \o <<>> = fifo
            BY ConcatEmptySeq
      <3> QED BY <3>1, <3>2
    <2> HIDE DEF c
    <2>2. Flight(u, obf, fifo \o <<c>>, m, a, l, d)
          BY <1>1, <1>2, FlightExtends
    <2>3. Cardinality(Makes(fifo \o <<c>>)) = Cardinality(Makes(fifo)) + IF make THEN 1 ELSE 0
          BY <1>1, MakesSent
    <2> QED BY <2>1, <2>2, <2>3
  <1> QED BY <1>3, <1>4

(* The key presses that have reached the queue, and those under way.       *)
LEMMA UnderWayCounts ==
  ASSUME DeliveryInv
  PROVE  /\ MakesUnderWay = Cardinality(Makes(fifo)) + (IF obf.make THEN 1 ELSE 0)
         /\ Cardinality(Makes(fifo)) \in Nat /\ MakesUnderWay \in Nat
         /\ Len(typed) \in Nat /\ Len(typed) - MakesUnderWay \in 0..Len(typed)
         /\ fifo \in Seq(Sent) /\ typed \in Seq(Packets) /\ mods \in ModStates
         /\ held \in SUBSET Keys /\ locked \in BOOLEAN /\ obf \in Sent \cup {NoByte}
         /\ Entered \in Seq(Packets)
         /\ InFlight
  <1>1. /\ fifo \in Seq(Sent) /\ typed \in Seq(Packets) /\ mods \in ModStates
        /\ held \in SUBSET Keys /\ locked \in BOOLEAN /\ obf \in Sent \cup {NoByte} /\ InFlight
        BY DEF DeliveryInv, QueueInv, TypeOK, Sent, ModStates
  <1>2. MakesUnderWay = Cardinality(Makes(fifo)) + (IF obf.make THEN 1 ELSE 0)
        BY DEF MakesUnderWay, Makes
  <1>3. Cardinality(Makes(fifo)) \in Nat /\ MakesUnderWay \in Nat
        BY <1>1, <1>2, MakesFinite
  <1>4. Len(typed) \in Nat
        BY <1>1, LenProperties
  <1>5. Len(typed) - MakesUnderWay \in 0..Len(typed)
        BY <1>1, FlightHandled DEF InFlight
  <1>6. Entered \in Seq(Packets)
    <2> DEFINE e == Len(typed) - MakesUnderWay
    <2>1. \A j \in 1..e : typed[j] \in Packets
      <3>1. \A j \in 1..e : j \in 1..Len(typed)
            BY <1>4, <1>5
      <3> QED BY <1>1, <3>1, ElementOfSeq
    <2>2. e \in Int
          BY <1>5
    <2> HIDE DEF e
    <2>3. SubSeq(typed, 1, e) \in Seq(Packets)
          BY <2>1, <2>2, SubSeqProperties
    <2> QED BY <2>3 DEF e, Entered
  <1> QED BY <1>1, <1>2, <1>3, <1>4, <1>5, <1>6

LEMMA InitDelivery == Init => DeliveryInv
  <1> SUFFICES ASSUME Init PROVE DeliveryInv
      OBVIOUS
  <1>1. QueueInv /\ Waiting = <<>> /\ Fetched = <<>>
        BY InitQueueInv DEF Queue!Init
  <1>2. /\ typed = <<>> /\ fifo = <<>> /\ obf = NoByte
        /\ held = {} /\ locked = FALSE
        /\ mods = [shift |-> FALSE, alt |-> FALSE, ctrl |-> FALSE, capslock |-> FALSE]
        BY DEF Init
  <1>3. Len(typed) = 0 /\ Len(fifo) = 0 /\ typed \in Seq(Packets)
        BY <1>2
  <1>4. MakesUnderWay = 0
    <2>1. {j \in DOMAIN fifo : fifo[j].make} = {}
          BY <1>2
    <2>2. ~obf.make
          BY <1>2, CodeKinds
    <2> QED BY <2>1, <2>2, FS_EmptySet DEF MakesUnderWay
  <1>5. mods = UserMods(held, locked) /\ mods \in ModStates
        BY <1>2 DEF UserMods, ModStates
  <1>6. InFlight
    <2> DEFINE mm == [j \in 0..1 |-> mods]
               num == [j \in 0..1 |-> 0]
    <2>1. /\ mm \in [0..1 -> ModStates] /\ num \in [0..1 -> 0..0]
          /\ mm[0] = mods /\ mm[1] = mods /\ num[0] = 0 /\ num[1] = 0
          BY <1>5
    <2> HIDE DEF mm, num
    <2>2. Effect(typed, obf, mm[0], num[0], mm[1], num[1])
          BY <1>2, <2>1, CodeKinds DEF Effect
    <2>3. Len(fifo) + 1 = 1 /\ \A j \in 1..Len(fifo) : FALSE
          BY <1>3
    <2>4. Along(typed, obf, fifo, mm, num)
          BY <1>3, <2>1, <2>2, <2>3 DEF Along
    <2>5. Len(typed) - MakesUnderWay = 0
          BY <1>3, <1>4
    <2>6. Flight(typed, obf, fifo, mods, 0, mods, 0)
          BY <2>1, <2>3, <2>4 DEF Flight
    <2> QED BY <1>3, <1>5, <2>5, <2>6 DEF InFlight
  <1>7. Entered = <<>>
    <2>1. Len(typed) - MakesUnderWay = 0
          BY <1>3, <1>4
    <2> QED BY <2>1, SubSeqEmpty DEF Entered
  <1>8. TypedIsDelivered
    <2> DEFINE e == <<>>
    <2>1. e \in Seq(Packets) /\ Len(e) = 0
          BY EmptySeq
    <2>2. e \o e = e
          BY <2>1, ConcatEmptySeq
    <2> HIDE DEF e
    <2>3. IsSuffix(e, e)
      <3>1. Len(e) <= Len(e) /\ \A j \in 1..Len(e) : e[j] = e[j + (Len(e) - Len(e))]
            BY <2>1
      <3> QED BY <2>1, <3>1, SuffixIs
    <2>4. Waiting = e /\ Fetched = e /\ Entered = e
          BY <1>1, <1>7 DEF e
    <2> QED BY <2>2, <2>3, <2>4 DEF TypedIsDelivered
  <1> QED BY <1>1, <1>3, <1>6, <1>8 DEF DeliveryInv

(* Nothing enters or leaves the queue.                                     *)
LEMMA SameDelivered ==
  ASSUME TypedIsDelivered, UNCHANGED <<Waiting, Fetched, dropped>>, Entered' = Entered
  PROVE  TypedIsDelivered'
  BY DEF TypedIsDelivered

LEMMA PressDelivery ==
  ASSUME DeliveryInv, NEW k \in Keys, Press(k)
  PROVE  DeliveryInv'
  <1> DEFINE u == UserMods(held, locked)
             n == Len(typed)
             w == MakesUnderWay
             q == Packet(k, Pressed(u, k), Value(k, u))
  <1>1. /\ MakesUnderWay = Cardinality(Makes(fifo)) + (IF obf.make THEN 1 ELSE 0)
        /\ Cardinality(Makes(fifo)) \in Nat /\ w \in Nat
        /\ n \in Nat /\ n - w \in 0..n
        /\ fifo \in Seq(Sent) /\ typed \in Seq(Packets)
        /\ held \in SUBSET Keys /\ locked \in BOOLEAN
        BY UnderWayCounts
  <1>2. QueueInv' /\ UNCHANGED <<Waiting, Fetched>>
        BY PressQueue DEF DeliveryInv
  <1>3. /\ Send(k, TRUE) /\ (k \notin held \/ Kind[k] # "caps")
        /\ held' = held \cup {k}
        /\ locked' = IF Kind[k] = "caps" THEN ~locked ELSE locked
        /\ typed' = Append(typed, Packet(k, UserMods(held', locked'), Value(k, u)))
        /\ UNCHANGED <<obf, mods, dropped>>
        BY DEF Press
  <1>4. UserMods(held', locked') = Pressed(u, k) /\ u \in ModStates
        BY <1>1, <1>3, UserPresses
  <1>5. Pressed(u, k) \in ModStates /\ q \in Packets
        BY <1>4, PacketTypes
  <1>6. /\ typed' \in Seq(Packets) /\ Len(typed') = n + 1
        /\ typed'[n + 1] = q /\ \A j \in 1..n : typed'[j] = typed[j]
        BY <1>1, <1>3, <1>4, <1>5, AppendProperties
  <1>7. Flight(typed, obf, fifo, mods, n - w, u, n)
        BY UnderWayCounts DEF InFlight
  <1>8. Effect(typed', Code(k, TRUE), u, n, Pressed(u, k), n + 1)
    <2>1. Code(k, TRUE) \in Codes /\ Code(k, TRUE).make = TRUE /\ Code(k, TRUE).key = k
          BY DEF Codes, Code
    <2> QED BY <1>6, <2>1 DEF Effect
  <1> HIDE DEF u, q, w
  <1>9. /\ Flight(typed', obf, fifo', mods, n - w, Pressed(u, k), n + 1)
        /\ Cardinality(Makes(fifo')) = Cardinality(Makes(fifo)) + 1
    <2> DEFINE t == typed'
               l == Pressed(u, k)
    <2>1. t \in Seq(Packets) /\ n <= Len(t) /\ \A j \in 1..n : t[j] = typed[j]
          BY <1>1, <1>6
    <2>2. n + 1 \in 0..Len(t) /\ n \in 0..n /\ l \in ModStates
          BY <1>1, <1>5, <1>6
    <2>3. Effect(t, Code(k, TRUE), u, n, l, n + 1)
          BY <1>8
    <2> HIDE DEF t, l
    <2> DEFINE d == n + 1
    <2>4. d \in 0..Len(t) /\ Effect(t, Code(k, TRUE), u, n, l, d)
          BY <2>2, <2>3
    <2> HIDE DEF d
    <2>5. /\ Flight(t, obf, fifo', mods, n - w, l, d)
          /\ Cardinality(Makes(fifo')) = Cardinality(Makes(fifo)) + IF TRUE THEN 1 ELSE 0
          BY <1>1, <1>3, <1>4, <1>7, <2>1, <2>2, <2>4, SendFlight
    <2> QED BY <2>5 DEF t, l, d
  <1>10. MakesUnderWay' = w + 1 /\ Len(typed') - MakesUnderWay' = n - w
    <2>1. MakesUnderWay' = Cardinality(Makes(fifo')) + (IF obf.make THEN 1 ELSE 0)
          BY <1>3 DEF MakesUnderWay, Makes
    <2> HIDE DEF n
    <2>2. MakesUnderWay' = w + 1
          BY <1>1, <1>9, <2>1 DEF w
    <2> QED BY <1>1, <1>6, <2>2
  <1>11. InFlight'
    <2>1. mods' = mods /\ obf' = obf /\ UserMods(held', locked') = Pressed(u, k)
          BY <1>3, <1>4
    <2> QED BY <1>6, <1>9, <1>10, <2>1 DEF InFlight
  <1>12. Entered' = Entered
    <2> DEFINE e == n - w
    <2>1. e \in 0..n /\ Entered = SubSeq(typed, 1, e) /\ Entered' = SubSeq(typed', 1, e)
          BY <1>1, <1>10 DEF Entered, w
    <2> HIDE DEF e
    <2>2. \A j \in 1..e : typed'[j] = typed[j]
          BY <1>1, <1>6, <2>1
    <2>3. SubSeq(typed', 1, e) = SubSeq(typed, 1, e)
          BY <1>1, <2>1, <2>2
    <2> QED BY <2>1, <2>3
  <1>13. TypedIsDelivered'
        BY <1>2, <1>3, <1>12, SameDelivered DEF DeliveryInv
  <1> QED BY <1>2, <1>6, <1>11, <1>13 DEF DeliveryInv

LEMMA ReleaseDelivery ==
  ASSUME OneOfEach, DeliveryInv, NEW k \in Keys, Release(k)
  PROVE  DeliveryInv'
  <1> DEFINE u == UserMods(held, locked)
             n == Len(typed)
             w == MakesUnderWay
  <1>1. /\ MakesUnderWay = Cardinality(Makes(fifo)) + (IF obf.make THEN 1 ELSE 0)
        /\ Cardinality(Makes(fifo)) \in Nat /\ w \in Nat
        /\ n \in Nat /\ n - w \in 0..n
        /\ fifo \in Seq(Sent) /\ typed \in Seq(Packets)
        /\ held \in SUBSET Keys /\ locked \in BOOLEAN
        BY UnderWayCounts
  <1>2. QueueInv' /\ UNCHANGED <<Waiting, Fetched>>
        BY PressQueue DEF DeliveryInv
  <1>3. /\ Send(k, FALSE) /\ k \in held /\ held' = held \ {k}
        /\ UNCHANGED <<locked, typed, obf, mods, dropped>>
        BY DEF Release
  <1>4. UserMods(held', locked') = Released(u, k)
        BY <1>1, <1>3, UserReleases
  <1>5. Released(u, k) \in ModStates /\ u \in ModStates
    <2>1. u \in ModStates
          BY <1>1 DEF UserMods, ModStates
    <2> QED BY <2>1, PacketTypes
  <1>6. Flight(typed, obf, fifo, mods, n - w, u, n)
        BY UnderWayCounts DEF InFlight
  <1>7. Effect(typed, Code(k, FALSE), u, n, Released(u, k), n)
    <2>1. Code(k, FALSE) \in Codes /\ Code(k, FALSE).make = FALSE /\ Code(k, FALSE).key = k
          BY DEF Codes, Code
    <2> QED BY <2>1 DEF Effect
  <1> HIDE DEF u, w
  <1>8. /\ Flight(typed, obf, fifo', mods, n - w, Released(u, k), n)
        /\ Cardinality(Makes(fifo')) = Cardinality(Makes(fifo))
    <2>1. n <= n /\ n \in 0..n
          BY <1>1
    <2> DEFINE l == Released(u, k)
    <2>2. l \in ModStates /\ Effect(typed, Code(k, FALSE), u, n, l, n)
          BY <1>5, <1>7
    <2> HIDE DEF l
    <2>3. /\ Flight(typed, obf, fifo', mods, n - w, l, n)
          /\ Cardinality(Makes(fifo')) = Cardinality(Makes(fifo)) + IF FALSE THEN 1 ELSE 0
          BY <1>1, <1>3, <1>5, <1>6, <2>1, <2>2, SendFlight
    <2>4. Cardinality(Makes(fifo')) = Cardinality(Makes(fifo))
          BY <1>1, <2>3
    <2> QED BY <2>3, <2>4 DEF l
  <1>9. MakesUnderWay' = w
        BY <1>1, <1>3, <1>8 DEF MakesUnderWay, Makes, w
  <1>10. InFlight'
    <2>1. mods' = mods /\ obf' = obf /\ typed' = typed
          BY <1>3
    <2> QED BY <1>4, <1>8, <1>9, <2>1 DEF InFlight
  <1>11. TypedIsDelivered'
    <2>1. Entered' = Entered
          BY <1>3, <1>9 DEF Entered, w
    <2> QED BY <1>2, <1>3, <2>1, SameDelivered DEF DeliveryInv
  <1> QED BY <1>1, <1>2, <1>3, <1>10, <1>11 DEF DeliveryInv

LEMMA ArriveDelivery ==
  ASSUME DeliveryInv, Arrive
  PROVE  DeliveryInv'
  <1>1. /\ MakesUnderWay = Cardinality(Makes(fifo)) + (IF obf.make THEN 1 ELSE 0)
        /\ Cardinality(Makes(fifo)) \in Nat
        /\ fifo \in Seq(Sent) /\ typed \in Seq(Packets) /\ InFlight
        BY UnderWayCounts
  <1>2. QueueInv' /\ UNCHANGED <<Waiting, Fetched>>
        BY ArriveQueue DEF DeliveryInv
  <1>3. /\ obf = NoByte /\ fifo # <<>> /\ obf' = Head(fifo) /\ fifo' = Tail(fifo)
        /\ UNCHANGED <<held, locked, typed, mods, dropped>>
        BY DEF Arrive, device
  <1>4. MakesUnderWay' = MakesUnderWay
    <2>1. Cardinality(Makes(fifo)) = Cardinality(Makes(fifo')) + (IF obf'.make THEN 1 ELSE 0)
          BY <1>1, <1>3, MakesArrive
    <2>2. MakesUnderWay' = Cardinality(Makes(fifo')) + (IF obf'.make THEN 1 ELSE 0)
          BY DEF MakesUnderWay, Makes
    <2>3. ~obf.make
          BY <1>3, CodeKinds
    <2> QED BY <1>1, <2>1, <2>2, <2>3
  <1>5. InFlight'
    <2> DEFINE a == Len(typed) - MakesUnderWay
               l == UserMods(held, locked)
               n == Len(typed)
    <2>1. Flight(typed, NoByte, fifo, mods, a, l, n)
          BY <1>1, <1>3 DEF InFlight
    <2>2. /\ a' = a /\ l' = l /\ n' = n
          BY <1>3, <1>4
    <2> HIDE DEF a, l, n
    <2>3. Flight(typed, Head(fifo), Tail(fifo), mods, a, l, n)
          BY <1>1, <1>3, <2>1, FlightArrives
    <2>4. Flight(typed', obf', fifo', mods', a', l', n')
          BY <1>3, <2>2, <2>3
    <2> QED BY <2>4 DEF InFlight, a, l, n
  <1>6. TypedIsDelivered'
    <2>1. Entered' = Entered
          BY <1>3, <1>4 DEF Entered
    <2> QED BY <1>2, <1>3, <2>1, SameDelivered DEF DeliveryInv
  <1> QED BY <1>1, <1>2, <1>3, <1>5, <1>6 DEF DeliveryInv

(* A code is handled that is no key press: it may change the modifiers.    *)
LEMMA HandledQuietly ==
  ASSUME DeliveryInv, obf' = NoByte, ~obf.make, Effect(typed, obf, mods, 0, mods', 0),
         UNCHANGED <<held, locked, typed, fifo, dropped, Waiting, Fetched>>
  PROVE  InFlight' /\ TypedIsDelivered'
  <1> DEFINE a == Len(typed) - MakesUnderWay
             u == UserMods(held, locked)
             n == Len(typed)
  <1>1. /\ fifo \in Seq(Sent) /\ typed \in Seq(Packets)
        /\ MakesUnderWay = Cardinality(Makes(fifo)) + (IF obf.make THEN 1 ELSE 0)
        BY UnderWayCounts
  <1>2. MakesUnderWay' = MakesUnderWay
        BY <1>1, CodeKinds DEF MakesUnderWay, Makes
  <1>3. Flight(typed, obf, fifo, mods, a, u, n)
        BY UnderWayCounts DEF InFlight
  <1>4. a' = a /\ u' = u /\ n' = n
        BY <1>2
  <1> HIDE DEF a, u, n
  <1>5. PICK l \in ModStates, d \in 0..Len(typed) :
               Effect(typed, obf, mods, a, l, d) /\ Flight(typed, NoByte, fifo, l, d, u, n)
        BY <1>1, <1>3, FlightHandled
  <1>6. l = mods' /\ d = a
        BY <1>5 DEF Effect
  <1>7. Flight(typed', obf', fifo', mods', a', u', n')
        BY <1>4, <1>5, <1>6
  <1>8. InFlight'
        BY <1>7 DEF InFlight, a, u, n
  <1>9. Entered' = Entered
        BY <1>2 DEF Entered
  <1> QED BY <1>8, <1>9, SameDelivered DEF DeliveryInv

(* A key press is handled: its packet is the one the user meant.           *)
LEMMA HandledPress ==
  ASSUME DeliveryInv, handle_irq, obf \in Codes, obf.make, obf' = NoByte, key_pressed(obf.key),
         UNCHANGED <<held, locked, typed, fifo, fetch>>
  PROVE  InFlight' /\ TypedIsDelivered'
  <1> DEFINE a == Len(typed) - MakesUnderWay
             u == UserMods(held, locked)
             n == Len(typed)
             p == Packet(obf.key, Pressed(mods, obf.key), Value(obf.key, mods))
  <1>1. /\ fifo \in Seq(Sent) /\ typed \in Seq(Packets) /\ mods \in ModStates
        /\ Cardinality(Makes(fifo)) \in Nat /\ n \in Nat
        /\ MakesUnderWay = Cardinality(Makes(fifo)) + (IF obf.make THEN 1 ELSE 0)
        /\ a \in 0..n /\ Entered \in Seq(Packets)
        BY UnderWayCounts
  <1>2. MakesUnderWay' + 1 = MakesUnderWay /\ MakesUnderWay' \in Nat
    <2>1. MakesUnderWay' = Cardinality(Makes(fifo)) + (IF NoByte.make THEN 1 ELSE 0)
          BY DEF MakesUnderWay, Makes
    <2>2. MakesUnderWay' = Cardinality(Makes(fifo)) /\ MakesUnderWay = Cardinality(Makes(fifo)) + 1
          BY <1>1, <2>1, CodeKinds
    <2> QED BY <1>1, <2>2
  <1>3. Flight(typed, obf, fifo, mods, a, u, n)
        BY UnderWayCounts DEF InFlight
  <1>4. a' = a + 1 /\ u' = u /\ n' = n
    <2> DEFINE b == MakesUnderWay'
    <2>1. MakesUnderWay = b + 1 /\ b \in Nat /\ n \in Nat
          BY <1>1, <1>2
    <2> HIDE DEF b
    <2>2. n - b = (n - MakesUnderWay) + 1
          BY <2>1
    <2> QED BY <2>2 DEF b
  <1>5. /\ mods' = Pressed(mods, obf.key) /\ add_to_buffer(p)
        BY DEF key_pressed
  <1>6. p \in Packets
    <2>1. obf.key \in Keys
          BY CodeKinds
    <2> QED BY <1>1, <2>1, PacketTypes
  <1> HIDE DEF a, u, n
  <1>7. PICK l \in ModStates, d \in 0..Len(typed) :
               Effect(typed, obf, mods, a, l, d) /\ Flight(typed, NoByte, fifo, l, d, u, n)
        BY <1>1, <1>3, FlightHandled
  <1>8. l = mods' /\ d = a + 1 /\ typed[a + 1] = p
        BY <1>5, <1>7 DEF Effect
  <1>9. Flight(typed', obf', fifo', mods', a', u', n')
        BY <1>4, <1>7, <1>8
  <1>10. InFlight'
        BY <1>9 DEF InFlight, a, u, n
  <1> HIDE DEF p
  <1>11. Entered' = Append(Entered, p)
    <2>1. Entered = SubSeq(typed, 1, a)
          BY DEF Entered, a
    <2>2. Entered' = SubSeq(typed, 1, a + 1)
      <3>1. Entered' = SubSeq(typed', 1, a')
            BY DEF Entered, a
      <3> QED BY <1>4, <3>1
    <2>3. a \in Nat /\ 1 \in 1..Len(typed) /\ a + 1 \in 1..Len(typed) /\ (a + 1) - 1 = a
      <3>1. a + 1 \in 0..n
            BY <1>7, <1>8 DEF n
      <3> QED BY <1>1, <3>1 DEF n
    <2>4. SubSeq(typed, 1, a + 1) = SubSeq(typed, 1, a) \o <<typed[a + 1]>>
      <3>1. a + 1 \in 1..Len(typed) /\ 1 \in 1..Len(typed)
            BY <2>3
      <3> DEFINE b == a + 1
      <3>2. b \in 1..Len(typed) /\ 1 \in 1..Len(typed) /\ b - 1 = a
            BY <2>3
      <3> HIDE DEF b
      <3>3. SubSeq(typed, 1, b) = SubSeq(typed, 1, b - 1) \o <<typed[b]>>
        <4>1. 1..Len(typed) \subseteq Int /\ b \in 1..Len(typed)
              BY <3>2
        <4>2. b \in 1..Len(typed) /\ b >= 1
              BY <3>2
        <4> QED BY <1>1, <3>2, <4>2, SubSeqRecursiveSecond
      <3> QED BY <3>2, <3>3 DEF b
    <2>5. Append(Entered, p) = Entered \o <<p>>
          BY <1>1, <1>6, AppendIsConcat
    <2> QED BY <1>8, <2>1, <2>2, <2>4, <2>5
  <1>12. Queue!Put(p)
    <2>1. QueueInv /\ UNCHANGED fetch
          BY DEF DeliveryInv
    <2> QED BY <1>5, <1>6, <2>1, AddPuts
  <1>13. dropped' \/ (Len(Waiting) # KB_BUFFER_SIZE /\ dropped' = dropped)
    <2>1. QueueInv /\ pc # "shift"
          BY DEF DeliveryInv, QueueInv
    <2>2. Len(Waiting) = buffer_end
      <3>1. TypeOK
            BY <2>1 DEF QueueInv
      <3> QED BY <2>1, <3>1, WaitingSlots DEF WaitingLen
    <2>3. /\ buffer_end \in Nat /\ KB_BUFFER_SIZE \in Nat
          BY <2>1, KeyboardAssumption DEF QueueInv, TypeOK
    <2>4. CASE buffer_end < KB_BUFFER_SIZE /\ dropped' = dropped
          BY <2>2, <2>3, <2>4
    <2>5. CASE dropped' = TRUE
          BY <2>5
    <2> QED BY <1>5, <2>4, <2>5 DEF add_to_buffer
  <1>14. TypedIsDelivered'
    <2>1. QueueInv /\ TypedIsDelivered
          BY DEF DeliveryInv
    <2> QED BY <1>1, <1>6, <1>11, <1>12, <1>13, <2>1, PutDelivers
  <1> QED BY <1>10, <1>14

LEMMA InputDelivery ==
  ASSUME DeliveryInv, keyboard_input
  PROVE  DeliveryInv'
  <1>1. /\ QueueInv' /\ QueueInv /\ typed \in Seq(Packets)
        /\ InFlight /\ TypedIsDelivered
        BY InputQueue DEF DeliveryInv
  <1>2. UNCHANGED <<held, locked, typed, events, fifo, pc, idx, out, got>>
        BY DEF keyboard_input, device, fetch
  <1>3. CASE ~Handles
    <2>1. UNCHANGED <<obf, mods, dropped, kb_buffer, buffer_end>>
          BY <1>3 DEF keyboard_input, buffer
    <2>2. UNCHANGED <<Waiting, Fetched, MakesUnderWay>>
          BY <1>2, <2>1 DEF Waiting, Fetched, MakesUnderWay
    <2>3. InFlight'
          BY <1>1, <1>2, <2>1, <2>2 DEF InFlight
    <2>4. TypedIsDelivered'
      <3>1. Entered' = Entered
            BY <1>2, <2>2 DEF Entered
      <3> QED BY <1>1, <2>1, <2>2, <3>1, SameDelivered
    <2> QED BY <1>1, <1>2, <2>3, <2>4 DEF DeliveryInv
  <1>4. CASE Handles
    <2>1. handle_irq /\ obf' = NoByte
          BY <1>4 DEF keyboard_input, Handles
    <2>2. obf \in Codes \cup {E0}
          BY <1>1 DEF QueueInv, TypeOK, keyboard_input
    <2>3. CASE obf = E0
      <3>1. UNCHANGED <<mods, kb_buffer, buffer_end, dropped>>
            BY <1>4, <2>3 DEF keyboard_input, buffer
      <3>2. UNCHANGED <<Waiting, Fetched>>
            BY <1>2, <3>1 DEF Waiting, Fetched
      <3>3. Effect(typed, obf, mods, 0, mods', 0) /\ ~obf.make
            BY <2>3, <3>1, CodeKinds DEF Effect
      <3> QED BY <1>1, <1>2, <2>1, <3>1, <3>2, <3>3, HandledQuietly DEF DeliveryInv
    <2>4. CASE obf # E0 /\ obf.make
      <3>1. key_pressed(obf.key) /\ obf \in Codes
            BY <1>4, <2>2, <2>4 DEF keyboard_input
      <3>2. UNCHANGED fetch
            BY <1>2 DEF fetch
      <3>3. InFlight' /\ TypedIsDelivered'
            BY <1>2, <2>1, <2>4, <3>1, <3>2, HandledPress
      <3> QED BY <1>1, <1>2, <3>3 DEF DeliveryInv
    <2>5. CASE obf # E0 /\ ~obf.make
      <3>1. key_released(obf.key) /\ obf \in Codes
            BY <1>4, <2>2, <2>5 DEF keyboard_input
      <3>2. UNCHANGED <<kb_buffer, buffer_end, dropped>> /\ mods' = Released(mods, obf.key)
            BY <3>1 DEF key_released, buffer
      <3>3. UNCHANGED <<Waiting, Fetched>>
            BY <1>2, <3>2 DEF Waiting, Fetched
      <3>4. Effect(typed, obf, mods, 0, mods', 0)
            BY <2>5, <3>1, <3>2 DEF Effect
      <3> QED BY <1>1, <1>2, <2>1, <2>5, <3>2, <3>3, <3>4, HandledQuietly DEF DeliveryInv
    <2> QED BY <2>3, <2>4, <2>5
  <1> QED BY <1>3, <1>4

LEMMA ClientDelivery ==
  ASSUME DeliveryInv, Client
  PROVE  DeliveryInv'
  <1>1. /\ QueueInv /\ QueueInv' /\ (Queue!Get \/ UNCHANGED <<Waiting, Fetched>>)
        /\ TypedIsDelivered /\ typed \in Seq(Packets) /\ InFlight
        BY ClientQueue DEF DeliveryInv, FetchStep
  <1>2. UNCHANGED <<held, locked, typed, fifo, obf, mods, dropped>>
        BY DEF Client, device
  <1>3. MakesUnderWay' = MakesUnderWay
        BY <1>2 DEF MakesUnderWay
  <1>4. InFlight'
        BY <1>1, <1>2, <1>3 DEF InFlight
  <1>5. Entered' = Entered /\ Entered \in Seq(Packets)
    <2>1. Entered' = Entered
          BY <1>2, <1>3 DEF Entered
    <2> QED BY <2>1, UnderWayCounts
  <1>6. TypedIsDelivered'
        BY <1>1, <1>2, <1>5, GetDelivers, SameDelivered
  <1> QED BY <1>1, <1>2, <1>4, <1>6 DEF DeliveryInv

LEMMA DeliveryStep ==
  ASSUME OneOfEach
  PROVE  DeliveryInv /\ [Next]_vars => DeliveryInv'
  <1> SUFFICES ASSUME DeliveryInv, [Next]_vars PROVE DeliveryInv'
      OBVIOUS
  <1>1. ASSUME NEW k \in Keys, Press(k) PROVE DeliveryInv'
        BY <1>1, PressDelivery
  <1>2. ASSUME NEW k \in Keys, Release(k) PROVE DeliveryInv'
        BY <1>2, ReleaseDelivery
  <1>3. CASE Arrive
        BY <1>3, ArriveDelivery
  <1>4. CASE keyboard_input
        BY <1>4, InputDelivery
  <1>5. CASE Client
        BY <1>5, ClientDelivery
  <1>6. CASE UNCHANGED vars
    <2>1. /\ QueueInv' /\ QueueInv
          /\ TypedIsDelivered /\ typed \in Seq(Packets) /\ InFlight
          BY <1>6, QueueInvStep DEF DeliveryInv
    <2>2. /\ UNCHANGED <<held, locked, typed, fifo, obf, mods, dropped>>
          /\ UNCHANGED <<kb_buffer, buffer_end, pc, idx, out, got>>
          BY <1>6 DEF vars, device, buffer, fetch
    <2>3. UNCHANGED <<Waiting, Fetched, MakesUnderWay>>
          BY <2>2 DEF Waiting, Fetched, MakesUnderWay
    <2>4. InFlight'
          BY <2>1, <2>2, <2>3 DEF InFlight
    <2>5. Entered' = Entered
          BY <2>2, <2>3 DEF Entered
    <2> QED BY <2>1, <2>2, <2>3, <2>4, <2>5, SameDelivered DEF DeliveryInv
  <1> QED BY <1>1, <1>2, <1>3, <1>4, <1>5, <1>6 DEF Next

(* What the user types is what the client gets, for every number of keys   *)
(* and key presses and every size of the buffer: the layouts and modifiers *)
(* of key_pressed and key_released are those the user had set, however     *)
(* late the interrupt comes, and nothing is lost or moved as long as the   *)
(* buffer has never been full.  The one hypothesis is that no modifier has *)
(* two keys: the driver keeps one _shift for two shift keys, and with      *)
(* both down the release of one turns it off.                              *)
THEOREM KeyboardDelivers ==
  ASSUME OneOfEach
  PROVE  Spec => []TypedIsDelivered
  <1>1. DeliveryInv => TypedIsDelivered
        BY DEF DeliveryInv
  <1>2. DeliveryInv /\ [Next]_vars => DeliveryInv'
        BY DeliveryStep
  <1> QED BY <1>1, <1>2, InitDelivery, PTL DEF Spec

=============================================================================
