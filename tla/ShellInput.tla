----------------------------- MODULE ShellInput -----------------------------
(***************************************************************************)
(* The shell's loop (start_shell in src/src/userinter/shell.c) as far as   *)
(* the user sees it: the prompt, the line that is typed and edited on the  *)
(* screen and in the input buffer, its words, and the output of the        *)
(* command.  The words are found by strtok (src/src/common/str.c), one     *)
(* call after the other, which writes ends into the line and keeps its     *)
(* place in a static pointer; a word is a pointer into the line.           *)
(*                                                                         *)
(* kb_fetch is Keyboard's subject: here any key may come next.             *)
(***************************************************************************)
EXTENDS Terminal

CONSTANTS
  Space,           \* ' '
  Prompt,          \* the prompt, without the new line before it
  Banner,          \* what stands on the screen before the first prompt
  InputBufferSize, \* INPUTBUFFERSIZE
  TokenBufferSize, \* TOKENBUFFSIZE
  Behind,          \* what may lie in memory behind the input buffer, up to a null
  ExtraTokens,     \* what may lie behind the token array: its entries up to a null
  ClearWord,       \* "clear"
  Outputs          \* what other commands print

Nul == "nul"

ASSUME ShellInputAssumption ==
  /\ Space \in Glyphs /\ Nul \notin Glyphs \cup {NewLine}
  /\ Prompt \in Seq(Glyphs) /\ Banner \in Seq(Glyphs \cup {NewLine})
  /\ InputBufferSize \in Nat \ {0} /\ TokenBufferSize \in Nat \ {0}
  /\ Behind \subseteq Seq(Glyphs) /\ Behind # {} /\ ExtraTokens \subseteq Nat /\ ExtraTokens # {}
  /\ ClearWord \in Seq(Glyphs \ {Space}) /\ ClearWord # <<>>
  /\ \A o \in Outputs : o \in Seq(Glyphs \cup {NewLine})
  \* A line and its prompt fit on the screen: 80 * 24 cells against 512 and the prompt.
  /\ Len(Prompt) + InputBufferSize <= Width * (Height - 1)

VARIABLES
  screen, \* the terminal
  step,   \* where start_shell is
  line,   \* the input buffer up to what has been written, then up to its end
  next,   \* strtok's static pointer, an index into line
  tokens, \* the words found: indices into line
  argc,   \* their number as start_shell counts it
  typed,  \* history: the line when it was returned
  full    \* history: it was returned because the buffer was full

vars == <<screen, step, line, next, tokens, argc, typed, full>>

Init ==
  /\ screen = TerminalWrite(Cleared, Banner)
  /\ step = "prompt" /\ line = <<>> /\ next = 1 /\ tokens = <<>> /\ argc = 0
  /\ typed = <<>> /\ full = FALSE

OutputPrompt ==
  /\ step = "prompt"
  /\ screen' = TerminalWrite(screen, <<NewLine>> \o Prompt)
  /\ step' = "read" /\ line' = <<>> /\ next' = 1 /\ tokens' = <<>> /\ argc' = 0
  /\ typed' = <<>> /\ full' = FALSE

-----------------------------------------------------------------------------
(* get_input_line, one key.  The characters in line are the position there.*)
Return(chars, isFull) ==
  /\ step' = "split" /\ typed' = chars /\ full' = isFull

Printable(c) ==
  /\ step = "read"
  /\ screen' = TerminalWrite(screen, <<c>>)
  /\ IF Len(line) + 1 < InputBufferSize
     THEN line' = Append(line, c) /\ UNCHANGED <<step, typed, full>>
     ELSE /\ \E b \in Behind : line' = Append(line, c) \o b \o <<Nul>>
          /\ Return(Append(line, c), TRUE)
  /\ UNCHANGED <<next, tokens, argc>>

Backspace ==
  /\ step = "read" /\ line # <<>> /\ RemEnds(screen)
  /\ screen' = TerminalRem(screen) /\ line' = Front(line)
  /\ UNCHANGED <<step, next, tokens, argc, typed, full>>

Enter ==
  /\ step = "read"
  /\ screen' = TerminalWrite(screen, <<NewLine>>)
  /\ line' = Append(line, Nul)
  /\ Return(line, FALSE)
  /\ UNCHANGED <<next, tokens, argc>>

-----------------------------------------------------------------------------
(* split_line: one call of strtok.                                         *)
First(from, chars) == Min({i \in from..Len(line) : line[i] \in chars})

OneSpaceSkipped == IF line[next] = Space THEN next + 1 ELSE next   \* mutant
SpacesSkipped == First(next, (Glyphs \cup {Nul}) \ {Space})

(* Words are counted up to a null; the array has none once it is full.     *)
Counted(n) == IF n < TokenBufferSize THEN {n} ELSE {n + x : x \in ExtraTokens}

Strtok ==
  LET start == SpacesSkipped
      end == First(start, {Space, Nul})
  IN /\ step = "split"
     /\ IF line[start] = Nul
        THEN /\ next' = start
             /\ step' = "run" /\ argc' = Len(tokens)
             /\ UNCHANGED <<line, tokens>>
        ELSE /\ line' = [line EXCEPT ![end] = Nul]
             /\ next' = IF line[end] = Nul THEN end ELSE end + 1
             /\ tokens' = Append(tokens, start)
             /\ IF Len(tokens') >= TokenBufferSize
                THEN step' = "run" /\ argc' \in Counted(Len(tokens'))
                ELSE UNCHANGED <<step, argc>>
     /\ UNCHANGED <<screen, typed, full>>

(* The string a token points to.                                           *)
Word(t) == SubSeq(line, t, First(t, {Nul}) - 1)

(* The command, and the next turn of the loop.                             *)
Run ==
  /\ step = "run"
  /\ step' = "prompt"
  /\ IF argc = 0 THEN UNCHANGED screen
     ELSE IF Word(tokens[1]) = ClearWord THEN screen' = Cleared
     ELSE \E o \in Outputs : screen' = TerminalWrite(screen, o)
  /\ line' = <<>> /\ next' = 1 /\ tokens' = <<>> /\ argc' = 0 /\ typed' = <<>> /\ full' = FALSE

Next ==
  \/ OutputPrompt
  \/ \E c \in Glyphs : Printable(c)
  \/ Backspace \/ Enter
  \/ Strtok \/ Run

Spec == Init /\ [][Next]_vars

-----------------------------------------------------------------------------
TypeOK ==
  /\ screen \in Screens
  /\ step \in {"prompt", "read", "split", "run"}
  /\ line \in Seq(Glyphs \cup {Nul}) /\ next \in 1..Len(line) + 1
  /\ tokens \in Seq(DOMAIN line) /\ Len(tokens) <= TokenBufferSize
  /\ argc \in Nat /\ typed \in Seq(Glyphs) /\ full \in BOOLEAN

(* What the user sees is what the shell reads: at every key, whatever was  *)
(* typed and taken back, over the ends of lines and while the screen       *)
(* scrolls, the cells up to the cursor are the prompt and the line, and    *)
(* those from the cursor on are empty.  Taking back always ends.           *)
EchoMatchesLine ==
  step = "read" =>
    LET shown == Prompt \o line
        start == Cursor(screen) - Len(shown)
    IN /\ start >= 0
       /\ \A i \in 1..Len(shown) : screen.cells[start + i - 1] = shown[i]
       /\ \A i \in Cursor(screen)..Width * Height - 1 : screen.cells[i] = Blank
       /\ line # <<>> => RemEnds(screen)

(* The words of a text: the longest stretches without a space, in order.   *)
Stretches(text) ==
  {w \in (1..Len(text)) \X (1..Len(text)) :
     /\ w[1] <= w[2] /\ \A i \in w[1]..w[2] : text[i] # Space
     /\ w[1] = 1 \/ text[w[1] - 1] = Space
     /\ w[2] = Len(text) \/ text[w[2] + 1] = Space}
Earlier(text, w) == {v \in Stretches(text) : v[1] < w[1]}
Words(text) ==
  [i \in 1..Cardinality(Stretches(text)) |->
     LET nth == CHOOSE w \in Stretches(text) : Cardinality(Earlier(text, w)) = i - 1
     IN SubSeq(text, nth[1], nth[2])]

(* The command gets the words of the line that was typed, all of them and  *)
(* nothing else, each still readable where strtok has left it in the line, *)
(* if the line and the words fit their buffers; as many of them as fit, if *)
(* the words do not.                                                       *)
TokensAreWords ==
  step = "run" /\ ~full =>
    LET words == Words(typed)
    IN /\ IsPrefix([i \in DOMAIN tokens |-> Word(tokens[i])], words)
       /\ IF Len(words) < TokenBufferSize THEN argc = Len(words) /\ argc = Len(tokens)
          ELSE Len(tokens) = TokenBufferSize
=============================================================================
