------------------------------ MODULE Keyboard ------------------------------
(***************************************************************************)
(* The keyboard driver (src/src/drivers/keyboard.c), from the keys the     *)
(* user presses to the packets kb_fetch returns.                           *)
(*                                                                         *)
(* The keyboard sends scan codes, which wait in its own queue until the    *)
(* controller's one-byte output buffer is empty.  A byte arriving there    *)
(* raises IRQ 1; the interrupt controller is set up edge-triggered         *)
(* (ICW1 = 0x11), so it raises it once.  The handler runs with interrupts  *)
(* off, hence in one step; kb_fetch runs with interrupts on, statement by  *)
(* statement, and keeps the handler out of the buffer with _handle_irq.    *)
(***************************************************************************)
EXTENDS Integers, Sequences, SequencesExt

CONSTANTS
  Keys,
  Kind,           \* key -> "char", "special", "shift", "alt", "ctrl", "caps"
  Extended,       \* keys whose scan codes come after a byte 0xE0
  KB_BUFFER_SIZE, \* 128, scaled
  MaxTyped        \* bound: how often keys are pressed or released

ASSUME KeyboardAssumption ==
  /\ Kind \in [Keys -> {"char", "special", "shift", "alt", "ctrl", "caps"}]
  /\ Extended \subseteq Keys
  /\ KB_BUFFER_SIZE \in Nat \ {0}
  /\ MaxTyped \in Nat
  /\ {"0xE0", "none"} \cap Keys = {}

Code(k, make) == [key |-> k, make |-> make]
Codes == [key : Keys, make : BOOLEAN]
E0 == Code("0xE0", FALSE)
NoByte == Code("none", FALSE)

VARIABLES
  held,       \* the keys the user holds down
  locked,     \* whether the user has turned caps lock on
  fifo,       \* scan codes waiting in the keyboard
  obf,        \* the controller's output buffer
  irq,        \* whether IRQ 1 is requested
  handle_irq, \* _handle_irq
  kb_buffer, buffer_end,
  is_pressed, \* the keys is_pressed_map marks
  mods,       \* _shift, _alt, _ctrl, _capslock
  pc, idx, out, \* kb_fetch: the next statement, i and out
  got,        \* history: the packets kb_fetch has returned
  typed,      \* history: the packet each key press stands for
  events,     \* how many presses and releases there were
  missed,     \* history: an interrupt came while _handle_irq was off
  dropped     \* history: a full buffer has lost its oldest packet

device == <<held, locked, typed, events>>
buffer == <<kb_buffer, buffer_end>>
fetch  == <<pc, idx, out, got>>
vars == <<device, fifo, obf, irq, handle_irq, buffer, is_pressed, mods, fetch,
          missed, dropped>>

-----------------------------------------------------------------------------
(* The packet of key k in a state m of the modifiers.                      *)
Layout(m) == IF m.shift THEN (IF m.capslock THEN "shift_caps" ELSE "shift")
             ELSE IF m.capslock THEN "caps" ELSE "us"

Value(k, m) == IF Kind[k] = "char" THEN <<k, Layout(m)>> ELSE <<k, "us">>

Packet(k, m, value) ==
  [printable |-> Kind[k] = "char", shift |-> m.shift, alt |-> m.alt,
   ctrl |-> m.ctrl, capslock |-> m.capslock, value |-> value]

(* The modifiers after key k has been pressed, or released.                *)
Pressed(m, k) ==
  CASE Kind[k] = "shift" -> [m EXCEPT !.shift = TRUE]
    [] Kind[k] = "alt"   -> [m EXCEPT !.alt = TRUE]
    [] Kind[k] = "ctrl"  -> [m EXCEPT !.ctrl = TRUE]
    [] Kind[k] = "caps"  -> [m EXCEPT !.capslock = ~m.capslock]
    [] OTHER             -> m

ReleasedIgnoringShift(m, k) ==   \* mutant
  CASE Kind[k] = "alt"   -> [m EXCEPT !.alt = FALSE]
    [] Kind[k] = "ctrl"  -> [m EXCEPT !.ctrl = FALSE]
    [] OTHER             -> m
Released(m, k) ==
  CASE Kind[k] = "shift" -> [m EXCEPT !.shift = FALSE]
    [] Kind[k] = "alt"   -> [m EXCEPT !.alt = FALSE]
    [] Kind[k] = "ctrl"  -> [m EXCEPT !.ctrl = FALSE]
    [] OTHER             -> m

Packets == [printable : BOOLEAN, shift : BOOLEAN, alt : BOOLEAN, ctrl : BOOLEAN,
            capslock : BOOLEAN,
            value : Keys \X {"us", "shift", "caps", "shift_caps"}]

(* What the zeroed buffer, and the memory behind it, give for a packet.    *)
Blank == [printable |-> FALSE, shift |-> FALSE, alt |-> FALSE, ctrl |-> FALSE,
          capslock |-> FALSE, value |-> <<"", "us">>]

-----------------------------------------------------------------------------
Init ==
  /\ held = {} /\ locked = FALSE /\ fifo = <<>> /\ obf = NoByte /\ irq = FALSE
  /\ handle_irq = TRUE
  /\ kb_buffer = [j \in 0..KB_BUFFER_SIZE - 1 |-> Blank] /\ buffer_end = 0
  /\ is_pressed = {}
  /\ mods = [shift |-> FALSE, alt |-> FALSE, ctrl |-> FALSE, capslock |-> FALSE]
  /\ pc = "idle" /\ idx = 0 /\ out = Blank /\ got = <<>>
  /\ typed = <<>> /\ events = 0 /\ missed = FALSE /\ dropped = FALSE

(* The modifiers as the user has set them.                                 *)
UserMods(keys, lock) ==
  LET down(kind) == \E k \in keys : Kind[k] = kind
  IN [shift |-> down("shift"), alt |-> down("alt"), ctrl |-> down("ctrl"),
      capslock |-> lock]

Send(k, make) ==
  fifo' = fifo \o (IF k \in Extended THEN <<E0>> ELSE <<>>) \o <<Code(k, make)>>

(* The user presses a key, or holds it down until it repeats.              *)
(* bound: caps lock is not held down that long; every repeat toggles it.   *)
Press(k) ==
  /\ events < MaxTyped /\ events' = events + 1
  /\ k \notin held \/ Kind[k] # "caps"
  /\ held' = held \cup {k}
  /\ locked' = IF Kind[k] = "caps" THEN ~locked ELSE locked
  /\ Send(k, TRUE)
  /\ typed' = Append(typed, Packet(k, UserMods(held', locked'),
                                   Value(k, UserMods(held, locked))))
  /\ UNCHANGED <<obf, irq, handle_irq, buffer, is_pressed, mods, fetch, missed, dropped>>

Release(k) ==
  /\ events < MaxTyped /\ events' = events + 1
  /\ k \in held
  /\ held' = held \ {k}
  /\ Send(k, FALSE)
  /\ UNCHANGED <<locked, typed, obf, irq, handle_irq, buffer, is_pressed, mods, fetch,
                 missed, dropped>>

(* The next scan code arrives in the output buffer.                        *)
Arrive ==
  /\ obf = NoByte /\ fifo # <<>>
  /\ obf' = Head(fifo) /\ fifo' = Tail(fifo)
  /\ irq' = TRUE
  /\ UNCHANGED <<device, handle_irq, buffer, is_pressed, mods, fetch, missed, dropped>>

-----------------------------------------------------------------------------
At(j) == IF j < KB_BUFFER_SIZE THEN kb_buffer[j] ELSE Blank

(* add_to_buffer.  On a full buffer it calls kb_fetch, which the handler   *)
(* runs to its end.                                                        *)
AddUncounted(p) ==   \* mutant
  /\ kb_buffer' = [kb_buffer EXCEPT ![0] = p]
  /\ UNCHANGED <<buffer_end, dropped, handle_irq>>
AddWithoutRoom(p) ==   \* mutant
  /\ kb_buffer' = [kb_buffer EXCEPT ![KB_BUFFER_SIZE - 1] = p]
  /\ buffer_end' = buffer_end + 1
  /\ UNCHANGED <<dropped, handle_irq>>
add_to_buffer(p) ==
  \/ /\ buffer_end < KB_BUFFER_SIZE
     /\ kb_buffer' = [kb_buffer EXCEPT ![buffer_end] = p]
     /\ buffer_end' = buffer_end + 1
     /\ UNCHANGED <<dropped, handle_irq>>
  \/ /\ buffer_end >= KB_BUFFER_SIZE
     /\ kb_buffer' = [j \in DOMAIN kb_buffer |->
                        IF j = buffer_end - 1 THEN p ELSE At(j + 1)]
     /\ buffer_end' = buffer_end
     /\ handle_irq' = TRUE
     /\ dropped' = TRUE

(* The layout is chosen before the key itself changes a modifier.          *)
key_pressed(k) ==
  /\ is_pressed' = is_pressed \cup {k}
  /\ mods' = Pressed(mods, k)
  /\ add_to_buffer(Packet(k, Pressed(mods, k), Value(k, mods)))

key_released(k) ==
  /\ is_pressed' = is_pressed \ {k}
  /\ mods' = Released(mods, k)
  /\ UNCHANGED <<buffer, dropped, handle_irq>>

(* irq_handler acknowledges the interrupt and calls keyboard_input.  When  *)
(* _handle_irq is off the byte stays in the output buffer.                 *)
HandlesAlways == TRUE   \* mutant
Handles == handle_irq

keyboard_input ==
  /\ irq
  /\ irq' = FALSE
  /\ \/ /\ ~Handles
        /\ missed' = TRUE
        /\ UNCHANGED <<obf, is_pressed, mods, buffer, dropped, handle_irq>>
     \/ /\ Handles
        /\ obf' = NoByte
        /\ \/ obf = E0 /\ UNCHANGED <<is_pressed, mods, buffer, dropped, handle_irq>>
           \/ obf # E0 /\ obf.make /\ key_pressed(obf.key)
           \/ obf # E0 /\ ~obf.make /\ key_released(obf.key)
        /\ UNCHANGED missed
  /\ UNCHANGED <<device, fifo, fetch>>

-----------------------------------------------------------------------------
(* kb_fetch, called by get_input_line.                                     *)
Goto(from, to) == pc = from /\ pc' = to

KbFetch ==
  /\ Goto("idle", "wait")
  /\ UNCHANGED <<handle_irq, buffer, idx, out, got>>

Waited ==
  /\ Goto("wait", "mask") /\ buffer_end # 0
  /\ UNCHANGED <<handle_irq, buffer, idx, out, got>>

Mask ==
  /\ Goto("mask", "take")
  /\ handle_irq' = FALSE
  /\ UNCHANGED <<buffer, idx, out, got>>

Take ==
  /\ Goto("take", "shift")
  /\ out' = At(0) /\ idx' = 0
  /\ UNCHANGED <<handle_irq, buffer, got>>

Shift ==
  /\ pc = "shift" /\ idx < buffer_end
  /\ kb_buffer' = [kb_buffer EXCEPT ![idx] = At(idx + 1)]
  /\ idx' = idx + 1
  /\ UNCHANGED <<handle_irq, buffer_end, pc, out, got>>

Shrink ==
  /\ Goto("shift", "unmask") /\ ~(idx < buffer_end)
  /\ buffer_end' = buffer_end - 1
  /\ UNCHANGED <<handle_irq, kb_buffer, idx, out, got>>

Unmask ==
  /\ Goto("unmask", "idle")
  /\ handle_irq' = TRUE
  /\ got' = Append(got, out) /\ out' = Blank /\ idx' = 0
  /\ UNCHANGED buffer

Fetching == Waited \/ Mask \/ Take \/ Shift \/ Shrink \/ Unmask

Client ==
  /\ KbFetch \/ Fetching
  /\ UNCHANGED <<device, fifo, obf, irq, is_pressed, mods, missed, dropped>>

Next ==
  \/ \E k \in Keys : Press(k) \/ Release(k)
  \/ Arrive
  \/ keyboard_input
  \/ Client

(* The hardware delivers what it holds; the processor runs the kernel,     *)
(* which has no other thread, and the shell asks for the next key.         *)
Spec == Init /\ [][Next]_vars /\ WF_vars(Arrive) /\ WF_vars(keyboard_input)
             /\ WF_vars(Client)

-----------------------------------------------------------------------------
TypeOK ==
  /\ held \subseteq Keys /\ is_pressed \subseteq Keys /\ locked \in BOOLEAN
  /\ fifo \in Seq(Codes \cup {E0}) /\ obf \in Codes \cup {E0, NoByte}
  /\ irq \in BOOLEAN /\ handle_irq \in BOOLEAN
  /\ buffer_end \in 0..KB_BUFFER_SIZE
  /\ kb_buffer \in [0..KB_BUFFER_SIZE - 1 -> Packets \cup {Blank}]
  /\ mods \in [shift : BOOLEAN, alt : BOOLEAN, ctrl : BOOLEAN, capslock : BOOLEAN]
  /\ pc \in {"idle", "wait", "mask", "take", "shift", "unmask"}
  /\ idx \in 0..KB_BUFFER_SIZE /\ out \in Packets \cup {Blank}
  /\ got \in Seq(Packets) /\ events \in 0..MaxTyped
  /\ missed \in BOOLEAN /\ dropped \in BOOLEAN

(* The buffer as its clients see it: a packet leaves it when kb_fetch      *)
(* copies it, although the others move up only afterwards.                 *)
Waiting ==
  IF pc = "shift"
  THEN [j \in 1..buffer_end - 1 |-> IF j <= idx THEN kb_buffer[j - 1] ELSE kb_buffer[j]]
  ELSE [j \in 1..buffer_end |-> kb_buffer[j - 1]]

Fetched == IF pc \in {"shift", "unmask"} THEN Append(got, out) ELSE got

(* The handler and kb_fetch together implement a queue: whenever the       *)
(* interrupt comes, no packet is torn, doubled, or out of order.           *)
Queue == INSTANCE KeyQueue WITH Capacity <- KB_BUFFER_SIZE, queue <- Waiting,
                                got <- Fetched
ImplementsQueue == Queue!Spec

(* What the client gets are the keys in the order they were pressed, each  *)
(* with the layout and the modifiers the user had set at that moment,      *)
(* however late the interrupt came.  Nothing is left out as long as the    *)
(* buffer has never been full, and what waits in it are the latest keys.   *)
MakesUnderWay ==
  Cardinality({j \in DOMAIN fifo : fifo[j].make}) + (IF obf.make THEN 1 ELSE 0)
Entered == SubSeq(typed, 1, Len(typed) - MakesUnderWay)

TypedIsDelivered ==
  /\ IsSuffix(Waiting, Entered)
  /\ ~dropped => Fetched \o Waiting = Entered

(* A client that waits gets an answer once a key press has reached the     *)
(* controller.                                                             *)
PressArrived == obf \in Codes /\ obf.make
FetchReturns == (pc = "wait" /\ PressArrived) ~> (pc # "wait")

(* The same, unless an interrupt has come in the middle of kb_fetch.       *)
FetchReturnsUnlessMissed == (pc = "wait" /\ PressArrived) ~> (pc # "wait" \/ missed)
=============================================================================
