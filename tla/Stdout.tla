------------------------------- MODULE Stdout -------------------------------
(***************************************************************************)
(* Where the output of a shell command goes: the redirections of           *)
(* start_shell (src/src/userinter/shell.c), the output system calls        *)
(* (src/src/userinter/output.c, src/src/syscalls.c) and the descriptor     *)
(* they share (src/src/stdout.c).                                          *)
(*                                                                         *)
(* A command prints its output piece by piece, one system call each.  The  *)
(* file system reports its errors the same way, with a system call from    *)
(* inside the one that failed, and that call goes where the output goes.   *)
(* A file is the sequence of the pieces in it.  Which clusters it has is   *)
(* FatChain's subject; here they are counted, those the search would find  *)
(* and those FSInfo promises, since both decide whether a write fails.     *)
(***************************************************************************)
EXTENDS Integers, Sequences, FiniteSets, SequencesExt

CONSTANTS
  Names,       \* names of files
  Pieces,      \* what commands print
  Outputs,     \* the outputs of commands, sequences of pieces
  Size,        \* piece or message -> its bytes
  ClusterSize, \* bytes of a cluster
  Space,       \* the free clusters the search finds at the start
  Counted,     \* FSInfo.freeClusterCount at the start
  MaxCommands, \* bound: the commands run
  MaxDepth     \* bound: the nested system calls followed

NotEnough == "Not enough Space"
NoSuchFile == "no such file or directory"
Messages == {NotEnough, NoSuchFile}

ASSUME StdoutAssumption ==
  /\ Pieces \cap Messages = {}
  /\ \A o \in Outputs : o \in Seq(Pieces)
  /\ Size \in [Pieces \cup Messages -> Nat \ {0}]
  /\ ClusterSize \in Nat \ {0}
  /\ Space \in Nat /\ Counted \in Nat /\ Counted >= Space
  /\ MaxCommands \in Nat /\ MaxDepth \in Nat \ {0}

VARIABLES
  exists,  \* the files there are
  content, \* file -> pieces
  size,    \* file -> the size in its directory entry
  free,    \* the free clusters the search finds
  count,   \* partDesc->FSInfo.freeClusterCount
  mode, target, rewrite, \* stdout.mode, .dirPath with .fileName, .rewrite
  calls,   \* the system calls in progress, the innermost last
  running, \* whether a command is being executed
  todo,    \* the pieces it has still to print
  screen,  \* history: what this command has put on the screen
  printed, \* history: the pieces it has printed
  before,  \* history: the contents when it began
  replace, \* history: whether it was started with ">"
  commands, \* how many commands there were
  wild     \* history: a write has gone on with a cluster nobody found

files == <<exists, content, size, free, count>>
stdout == <<mode, target, rewrite>>
vars == <<files, stdout, calls, running, todo, screen, printed, before, replace, commands,
          wild>>

Clusters(n) == (n + ClusterSize - 1) \div ClusterSize

-----------------------------------------------------------------------------
Init ==
  /\ exists = {} /\ content = [f \in Names |-> <<>>] /\ size = [f \in Names |-> 0]
  /\ free = Space /\ count = Counted
  /\ mode = "screen" /\ target \in Names /\ rewrite = FALSE
  /\ calls = <<>> /\ running = FALSE /\ todo = <<>>
  /\ screen = <<>> /\ printed = <<>> /\ before = content /\ replace = FALSE
  /\ commands = 0 /\ wild = FALSE

(* set_stdout_to_file, from start_shell; a command without redirection     *)
(* leaves stdout alone.                                                    *)
Plain == "none"
Redirections == {Plain} \cup (Names \X {">", ">>"})

Redirect(r) ==
  \/ /\ r = Plain
     /\ screen' = <<>> /\ replace' = FALSE
     /\ UNCHANGED stdout
  \/ /\ r # Plain /\ r[1] \in exists
     /\ mode' = "file" /\ target' = r[1] /\ rewrite' = (r[2] = ">")
     /\ screen' = <<>> /\ replace' = (r[2] = ">")
  \/ /\ r # Plain /\ r[1] \notin exists
     /\ screen' = <<NoSuchFile>> /\ replace' = FALSE
     /\ UNCHANGED stdout

Begin(r, output) ==
  /\ ~running /\ commands < MaxCommands
  /\ running' = TRUE /\ commands' = commands + 1
  /\ Redirect(r)
  /\ todo' = output /\ printed' = <<>> /\ before' = content
  /\ UNCHANGED <<calls, wild>>

(* A command that prints: cmd_echo, cmd_ls, cmd_help.                      *)
Output(r, output) ==
  /\ Begin(r, output)
  /\ UNCHANGED files

(* cmd_cat: a file is printed as it is read, an empty one not at all.  A   *)
(* sector of it is one piece here, whatever was written to it at once.     *)
(* bound: a file is not printed into itself, `cat f > f`, where rewriting  *)
(* it frees the clusters the reader is walking along.                      *)
Cat(r, f) ==
  /\ f \in exists
  /\ r # Plain => r[1] # f
  /\ Begin(r, content[f])
  /\ UNCHANGED files

(* cmd_touch *)
Create(f) ==
  /\ f \notin exists
  /\ Begin(Plain, <<>>)
  /\ exists' = exists \cup {f}
  /\ UNCHANGED <<content, size, free, count>>

(* cmd_rm, whose redirection is evaluated first.                           *)
Delete(r, f) ==
  /\ f \in exists
  /\ Begin(r, <<>>)
  /\ exists' = exists \ {f}
  /\ content' = [content EXCEPT ![f] = <<>>] /\ size' = [size EXCEPT ![f] = 0]
  /\ free' = free + Clusters(size[f]) /\ count' = count + Clusters(size[f])

(* print, print_string: the command makes a system call.                   *)
Emit ==
  /\ calls = <<>> /\ todo # <<>>
  /\ calls' = <<[data |-> Head(todo), step |-> "write"]>>
  /\ todo' = Tail(todo) /\ printed' = Append(printed, Head(todo))
  /\ UNCHANGED <<files, stdout, running, screen, before, replace, commands,
                 wild>>

-----------------------------------------------------------------------------
(* sys_write.  Its second step, once the file has been written to, makes   *)
(* the next write append.  The target is there whenever something is       *)
(* written: only rm deletes a file, and it prints nothing afterwards.      *)
Innermost(step) == calls # <<>> /\ Last(calls).step = step

SysWriteScreen ==
  /\ Innermost("write") /\ mode = "screen"
  /\ screen' = Append(screen, Last(calls).data)
  /\ calls' = Front(calls)
  /\ UNCHANGED <<files, stdout, wild>>

(* The target after the write, rewrite or append.                          *)
Rewritten(old, data) == IF rewrite THEN <<data>> ELSE Append(old, data)
NewSize(data) == IF rewrite THEN Size[data] ELSE size[target] + Size[data]

Needs(f, bytes) == Clusters(bytes) - Clusters(size[f])

(* A file without clusters that needs some has its first one marked before *)
(* the count is consulted about the others, and then not counted yet.      *)
FirstOf(f, more) == IF more > 0 /\ size[f] = 0 THEN 1 ELSE 0

(* find_empty_Cluster finds it; the count promises the others.             *)
FindsUnchecked(first) == TRUE   \* mutant
Finds(first) == first <= free
Promised(more, first) == more - first <= count

SysWriteFile ==
  LET data == Last(calls).data
      more == Needs(target, NewSize(data))
  IN /\ Innermost("write") /\ mode = "file" /\ target \in exists
     /\ more <= free
     /\ content' = [content EXCEPT ![target] = Rewritten(content[target], data)]
     /\ size' = [size EXCEPT ![target] = NewSize(data)]
     /\ free' = free - more /\ count' = count - more
     /\ calls' = [calls EXCEPT ![Len(calls)].step = "written"]
     /\ UNCHANGED <<exists, stdout, screen, wild>>

(* The write fails: the message is printed from inside it.  A first        *)
(* cluster found stays marked and is not counted.                          *)
SysWriteNoSpace ==
  LET more == Needs(target, NewSize(Last(calls).data))
      first == FirstOf(target, more)
  IN /\ Innermost("write") /\ mode = "file" /\ target \in exists
     /\ Finds(first) /\ ~Promised(more, first)
     /\ free' = free - first
     /\ Len(calls) < MaxDepth
     /\ calls' = Append([calls EXCEPT ![Len(calls)].step = "written"],
                        [data |-> NotEnough, step |-> "write"])
     /\ UNCHANGED <<exists, content, size, count, stdout, screen, wild>>

(* The count promises clusters the search does not find, or not even a     *)
(* first one is found, which is noticed only after it has been written to  *)
(* the FAT: entry 0xFFFFFFFF, or one the array has from malloc, is         *)
(* written.  bound: what follows from there is not followed.               *)
SysWriteWild ==
  LET more == Needs(target, NewSize(Last(calls).data))
      first == FirstOf(target, more)
  IN /\ Innermost("write") /\ mode = "file" /\ target \in exists
     /\ more > free /\ (~Finds(first) \/ Promised(more, first))
     /\ wild' = TRUE
     /\ UNCHANGED <<files, stdout, calls, screen>>

RewriteFlagKept == rewrite   \* mutant
RewriteFlagAfter == FALSE

SysWriteReturn ==
  /\ Innermost("written")
  /\ rewrite' = RewriteFlagAfter
  /\ calls' = Front(calls)
  /\ UNCHANGED <<files, mode, target, screen, wild>>

SysWrite ==
  /\ ~wild
  /\ \/ SysWriteScreen \/ SysWriteFile \/ SysWriteNoSpace \/ SysWriteWild
     \/ SysWriteReturn
  /\ UNCHANGED <<running, todo, printed, before, replace, commands>>

(* The command has returned: change_stdout_to_screen.                      *)
ModeKept == mode   \* mutant
ModeAfterCommand == "screen"

Finish ==
  /\ running /\ todo = <<>> /\ calls = <<>>
  /\ running' = FALSE
  /\ mode' = ModeAfterCommand
  /\ UNCHANGED <<files, target, rewrite, calls, todo, screen, printed, before, replace,
                 commands, wild>>

Next ==
  \/ \E r \in Redirections : \/ \E o \in Outputs : Output(r, o)
                             \/ \E f \in Names : Cat(r, f) \/ Delete(r, f)
  \/ \E f \in Names : Create(f)
  \/ Emit
  \/ SysWrite
  \/ Finish

Spec == Init /\ [][Next]_vars

-----------------------------------------------------------------------------
TypeOK ==
  /\ exists \subseteq Names /\ content \in [Names -> Seq(Pieces \cup Messages)]
  /\ size \in [Names -> Nat] /\ free \in Nat /\ count \in Nat
  /\ mode \in {"screen", "file"} /\ target \in Names /\ rewrite \in BOOLEAN
  /\ calls \in Seq([data : Pieces \cup Messages, step : {"write", "written"}])
  /\ running \in BOOLEAN /\ todo \in Seq(Pieces \cup Messages) /\ replace \in BOOLEAN
  /\ commands \in 0..MaxCommands /\ wild \in BOOLEAN

(* What a command has printed, each piece as it is or, where there was no  *)
(* space for it, the message instead.                                      *)
Stands(c, pieces) ==
  /\ Len(c) = Len(pieces)
  /\ \A i \in DOMAIN c : c[i] \in {pieces[i], NotEnough}

Done == running /\ todo = <<>> /\ calls = <<>>

(* ">" leaves in the file the whole output of the command, and nothing     *)
(* else, although it is written piece by piece; ">>" adds it at the end.   *)
(* A command that prints nothing changes nothing.                          *)
RedirectedOutput ==
  Done /\ mode = "file" /\ target \in exists =>
    IF printed = <<>> THEN content[target] = before[target]
    ELSE LET kept == IF replace THEN <<>> ELSE before[target]
         IN /\ IsPrefix(kept, content[target])
            /\ Stands(SubSeq(content[target], Len(kept) + 1, Len(content[target])), printed)

(* Output goes to one place: what is redirected changes only the file it   *)
(* is redirected to and does not show on the screen, and what is not       *)
(* redirected, or could not be, is on the screen in the order in which it  *)
(* was printed and changes no file.                                        *)
OnePlace ==
  Done =>
    /\ screen \in IF mode = "file" THEN {<<>>} ELSE {printed, <<NoSuchFile>> \o printed}
    /\ \A f \in exists : content[f] = before[f] \/ (mode = "file" /\ f = target)
=============================================================================
