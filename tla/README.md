# WavOS verification

TLA+ specifications of the WavOS kernel (`src/`): a 32-bit hobby kernel with a
heap, a PS/2 keyboard driver, an ATA disk driver, a FAT32 file system and a shell
whose output can be redirected to files. TLC checks each module on a small
instance; for the heap, cluster allocation, the keyboard and disk drivers and the output
of commands, TLAPS proves the same properties for every value of the constants.

Every definition is translated from the C code, and PROJECT.json names for each
one the lines it stands for. Definitions marked `\* mutant` are plausible wrong
versions of the one that follows; no specification uses them. For each property
of each passing run PROJECT.json names the one that breaks it.

## The system

There is one processor and one thread: `start_shell` reads a line, executes the
command, and starts again. The only concurrency is between that thread and the
interrupt handlers, which run with interrupts off; and between the kernel and what
it does not control: the keyboard with its controller, the disk drive, which works on
its own while it is busy, and the power switch.

| part | code | state | operations | talks to |
|---|---|---|---|---|
| heap | `memorymanagement.c` | list of chunk headers in one region | `init_memory`, `malloc`, `calloc`, `free` | called by everything |
| FAT cluster allocation | `filesystem/fat.c` | two FAT copies, FSInfo sector, sizes and first clusters in directory entries (disk); free count (memory) | allocate, extend, shrink, delete a chain | ATA driver, one sector write at a time |
| FAT entry addressing | `filesystem/fat.c` 53-90 | the sectors of the FAT | `read_fat_entry`, `write_fat_entry` | used by cluster allocation |
| directory slots | `filesystem/fat.c`, `fat.h` | 32-byte slots of a directory cluster | look up, place, delete an entry | ATA driver |
| file contents | `filesystem/fat.c` | data sectors | rewrite, append, read | cluster chains, ATA driver |
| directory tree and paths | `filesystem/fat.c`, `shell.c` | directories, `..` entries, working directory as a cluster and as text | `cd`, `mkdir`, `rmdir`, `rm`, `touch` | cluster allocation, slots |
| keyboard driver | `drivers/keyboard.c`, `isr.c` | packet buffer, modifiers, `_handle_irq` | `keyboard_input` (interrupt), `kb_fetch` (shell) | shared state between the two |
| stdout and redirection | `stdout.c`, `syscalls.c`, `output.c`, `shell.c` | output descriptor: mode, path, rewrite flag | `>`/`>>`, `sys_write`, return to screen | file system, which reports errors through it |
| shell input and tokens | `shell.c`, `common/str.c` | line buffer, token array, strtok's pointer | `get_input_line`, `split_line`, `strtok` | keyboard, heap, terminal |
| terminal | `io/screen.c` | cursor, text buffer | put, scroll, remove a character | called by the shell and drivers |
| ATA driver | `drivers/ata.c` | none of its own; the drive's registers and data port | `identify`, `read28`, `write28`, `flush` | the drive |
| scheduler | `multitasking.c`, `multitask.asm` | task table | `add_task`, `schedule` | timer interrupt; nothing creates a task yet |
| start-up, tables, PCI, port I/O, partition table | `kernel.c`, `gdtdesc.c`, `idtdesc.c`, `pci.c`, `portio.c`, `msdospart.c` | filled once | | |

What is hard here, and what makes each part correct:

* **heap**: three operations rewrite the same doubly linked list, each merge or
  split up to five fields; only long sequences of calls reach the interesting
  lists. Correct: the list and the memory agree, free neighbours are merged, no
  memory is lost, blocks do not overlap, and nobody touches a block that is held.
* **cluster allocation**: an operation is a series of sector writes that nothing
  makes atomic, with the free count and the search for clusters kept apart, and
  chain lengths computed from sizes. Correct: no cluster has two owners, none is
  lost, chain and size agree, the free count follows; and after the machine has
  stopped anywhere only the file that was operated on can have been damaged.
* **directory slots**: entries of several slots are placed in holes that others
  have left, across sectors with end marks, and every loop goes on into whatever lies
  behind a directory without one. Correct: while there is an end mark, what was created is
  found until it is deleted, deleting gives back exactly the entry's slots, and nothing
  behind the directory is touched; and the mark goes only when the directory is full.
* **file contents**: sector, cluster and text boundaries do not coincide. Correct:
  reading gives what was written; writing stays in the file's clusters.
* **tree and paths**: the same fact is kept twice (working directory, `..`), and an
  operation is several disk writes in an order of its own. Correct: the copies agree,
  removing a directory frees what is below it, and seen by its paths the tree changes
  at once or not at all, wherever the machine stops; until an operation leaves the tree
  (a directory has become full, no cluster is free, text is written over a directory).
* **shell input and terminal**: a line is edited in two places, on the screen, where it
  wraps and scrolls, and in the input buffer; `strtok` cuts it up in place. Correct:
  the screen shows what the buffer has, and the command gets the words of the line.
* **ATA driver**: commands and words only count when the drive is ready for them, and
  nothing says when it will be. Correct: it is a disk, one request at a time, and every
  request ends.
* **keyboard**: the handler runs between any two statements of `kb_fetch`.
  Correct: the two together are a queue, with the modifiers of the moment each key
  was pressed; a waiting reader is answered.
* **stdout**: one flag and one target are shared by all pieces a command prints and
  by the error messages of the writes themselves. Correct: a redirected command's
  output is in the file, all of it and nowhere else.

## Modules

| module | models | uses |
|---|---|---|
| `Heap` | the heap | |
| `HeapProofs` | theorems about `Heap` | `Heap`, TLAPS |
| `FatEntry` | FAT entry addressing (operators, no state) | |
| `FatChain` | cluster allocation with crashes | extends `FatEntry` |
| `FatChainProofs` | theorems about `FatChain` | `FatChain`, TLAPS |
| `Volume` | the volume's geometry (a constant) | |
| `FatDir` | slots of a directory | extends `Volume` |
| `FileData` | contents of files | takes from `FatChain` that chain and size agree |
| `ClusterProofs` | theorems about `FileData` and `FatDir`, what the sectors of clusters hold | `FileData`, `FatDir`, TLAPS |
| `PathTree` | abstract: the tree by its paths | |
| `FatTree` | tree, paths, working directory, with crashes | implements `PathTree`; takes from `FatDir` that look-up works |
| `FatTreeProofs` | theorems about `FatTree` | `FatTree`, TLAPS |
| `KeyQueue` | abstract: what the keyboard driver promises | |
| `Keyboard` | the keyboard driver, its interrupt and the hardware around it | implements `KeyQueue` (`INSTANCE ... WITH`) |
| `KeyboardProofs` | theorems about `Keyboard` | `Keyboard`, TLAPS |
| `Stdout` | redirection and output system calls | takes from `FatChain` how many clusters a write needs |
| `StdoutProofs` | theorems about `Stdout` | `Stdout`, TLAPS |
| `Terminal` | the text screen (operators, no state) | |
| `ShellInput` | the shell's loop: prompt, line, words, output | extends `Terminal`; takes from `Keyboard` that any key may come next |
| `ShellInputProofs` | theorems about `ShellInput` and `Terminal` | `ShellInput`, TLAPS |
| `Disk` | abstract: what the file system expects of the disk | |
| `Ata` | the ATA driver and the drive | implements `Disk` |
| `AtaProofs` | theorems about `Ata` | `Ata`, TLAPS |
| `MC*` | values of the constants for TLC | the module named |

**Heap.** A chunk is the address of its header; `hdr` maps it to the fields of
`MemoryChunck`. `Malloc` is the first-fit search (`Scanned`, `FirstFit`) with the
split or the chunk handed out whole; `Free` is the backward merge and then the
forward merge. The forward merge advances `chunk->next` before it reads
`chunk->next->size`, as the code does; when there is nothing beyond, what is read
lies near address 0 and is any of `NullSizes`. `size_t` wraps at `Word`. A free
with such a merge in the middle of the list sets `torn`, one at the end `tailLost`;
chunks may overlap once `torn`, so the behaviour goes on with `malloc` but frees
nothing more.

**FatEntry, FatChain.** The FAT is a function on *places*, a sector and an offset
in it; `FatEntry` computes the place of an entry the way the code does. An operation
of `FatChain` computes, from the disk it finds, the list `todo` of writes it will
issue (`FatWrite` is two of them, one for each copy); `DiskWrite` lets the next one
reach the disk; `Crash` drops the rest and reads the free count from FSInfo. This
is faithful because nothing else writes to the disk and no operation reads back
what it has just written except where the sequence accounts for it (`Empty(used)`).
That a sector write is one step is what `Ata` shows, `ImplementsDisk`.
Where the search finds fewer clusters than the count promised, the array keeps what
`malloc` left in it (`Garbage`) and `wild` is set.

**FatDir.** Slots by sector, the sector behind the directory included, since the loops
visit it: it is the first of the next cluster, of a file or of another directory
(`Beyond`), and its owner may write it at any time (`Elsewhere`). `Dots` are the entries
`.` and `..` that `init_dir` writes into a subdirectory. An entry is `Lfn[name]`
long-name slots and a short one. `HasRoom` counts empty slots as the code does,
`FirstEmpty` is where the entry is written, `Since` and `Collected` what a look-up has
in `lfnEnt` when it comes to a short entry. Once a directory has been full it has no end
mark any more (`EndMarked`): from then on the names of a directory behind it are found
in it, `mkdir` and `touch` refuse them, and `rm` marks the neighbour's slots. The model
does all that, and the properties say what holds then: less.

**FileData.** `SectorWritten` and `SectorRead` give the sector of the k-th piece of a
file as the write and the read loops compute it; the two differ from a cluster's end
on. `Spills` says which files no longer read back after a write for that reason, and
`spilled` collects them: the file itself if one of its sectors is not where reading
looks for it, and a neighbour whose first sector was overwritten. `ReadFile` gives the
bytes printed, the b-th from the `SectorNumber(b)`-th sector the read loop prints.

**FatTree, PathTree.** `Resolve` is `find_dir_first_cluster`, `Normalized` the text
`change_current_working_dir` makes, `Target` what the commands make of their argument
after `split_path`, `Cleared` the recursion of `clear_dir_by_cluster`. A command
computes the disk writes it is going to issue (`todo`), in the order of the code:
`mkdir` marks the cluster, writes the entry, then the new directory's contents; a first
write marks the cluster, then writes the entry; `rm` frees, then deletes the entry;
`rmdir` deletes the entry, then frees what is below and then the directory. `WriteMark`,
`WriteFree`, `WritePut` and `WriteInit` let the next one reach the disk, `Crash` drops
the rest. A file has at most one cluster here: its text fits. Redirecting into a name
that belongs to a directory is a `WriteFile` like any other. `PathTree` knows paths
only: under the mapping `dirs <- DirPaths, files <- FilePaths, cwd <- cwdString` each
operation takes effect with the one write that puts its entry, and all others are
stutters. That needs `..` on the disk to lead where the text of a path leads, at every
depth.

A stop in the middle leaves: after `rmdir` or a first write, clusters in use that no
path leads to (`lost`); after `mkdir`'s entry, a directory with what was in the cluster
before; after `rm` has freed, an entry that leads to a free cluster. The last two set
`damaged`, and nothing is run on such a tree; `ReachableInUse` and `ImplementsTree` hold
there too, but for the contents of that one cluster.

Some steps of the code leave what the module follows. They are steps of the model, set
`wild`, and nothing is claimed or run afterwards, in `PathTree` either: `mkdir` and the
first write to a file when no cluster is free, which go on with cluster 0xFFFFFFFF;
output redirected to a directory, which writes text over its entries; `rmdir` of a file,
which takes its text for entries; and an entry that takes a directory's last slots
(`Fills`, with room for `Room` entries and one more in the root, which has no dot
entries). With the last slot the end mark is gone for good, and every search in that
directory, the recursion of `rmdir` included, goes on behind it and frees what is listed
there. `read_BPB` writes the first byte of `CWDString` and no terminator, on a stack
nobody has cleared: `leftover` is the number of names that happen to lie behind the "/",
which a path from the root, or one `..` each, takes away (bound: what lies there is text
that ends within the string's 512 bytes and 64 names; a name in it is not a `.` or
`..`).

**Keyboard.** `Press` and `Release` are the user, `fifo` the keyboard's own queue,
`obf` the controller's output buffer, `irq` the request line. `keyboard_input` is one
step, for interrupts are off in it; `kb_fetch` is a step per statement (`KbFetch`,
`Waited`, `Mask`, `Take`, `Shift`, `Shrink`, `Unmask`).

**ShellInput, Terminal.** A screen is a cursor and cells; the functions of `screen.c` are
operators from screen to screen. `Printable`, `Backspace` and `Enter` are a turn of
`get_input_line`'s loop, `Strtok` a call of `strtok` from `split_line` with what is done
with its answer, `Run` the rest of the loop: a command prints any of `Outputs`, or clears
the screen. A word is an index into `line`, as it is a pointer in the code, so that what
`strtok` writes into the line can spoil it.

**Ata, Disk.** `Select`, `Issue`, `Poll`, `Transfer`, `StartRest` and `Rest` are the steps
of the driver, one status read or one data word each; `doing` says for which of its
functions. `Drive` is the drive: busy until it has data, wants data, has stored them or
has failed, which it may do whenever it is busy. It takes no command and no register
while it is not idle. `Disk` stores and answers at once; a read maps to its answer when
it returns, a write when the drive has stored the sector, wherever the driver is by then.

**Stdout.** `free` is the clusters the search would find, `count` FSInfo's number of them;
they part when a first write fails, which marks a cluster and does not count it. A write
fails with its message only if it finds the first cluster, should it need one, and the count
does not promise the others (`Finds`, `Promised`); if the count promises more than there is,
or not even a first one is found, the code goes on with an index nobody found and the model
stops (`wild`). `Begin` is the redirection at the start of a command, `Emit` a system
call of the command, `SysWrite...` the two halves of `sys_write`; `calls` is the stack
of system calls, which grows when a write fails and reports it. `Finish` is the end
of the command.

## Runs

| run | instance | shows |
|---|---|---|
| `heap` | 15 units of memory, headers of 2, requests 1, 2, 4, up to 3 blocks held | list, memory and held blocks stay in step over every sequence of calls |
| `heap_torn` | the same | after a merge in the middle, `malloc` hands out memory that is held |
| `fat_chain` | 2 names, 8 FAT entries, 6 of them in the first sector, of which 3 free, texts of 1 and 3 bytes in clusters of 2, one crash | consistency between operations, others' files intact at every instant, FAT copies apart by one entry per crash |
| `fat_dir` | 4 names of one long slot, 2 sectors of 4 slots, 2 of them dot entries; behind them a file, a directory with `a`, a full one with `a` and `d` | look-up, placement and deletion agree while there is an end mark; what is behind the directory changes only when it is full or has been |
| `fat_dir_mixed` | 3 names of one long slot and one of two, 2 sectors of 8 slots, 2 of them dot entries | creating it overwrites another entry |
| `file_data` | 2 files of up to 8 bytes, sectors of 2, clusters of 4, in sequence and in turns | what is written reads back until a file spills; no other sector changes |
| `fat_tree` | 3 names, 4 clusters, directories that 2 entries fill, paths down, up and round about, any number of crashes | the commands are operations of `PathTree` until one goes wild; clusters in use and working directory agree |
| `keyboard` | a character, shift, caps lock, and an extended alt key, buffer of 2, 4 presses, repeats or releases | the driver implements `KeyQueue`; modifiers; a reader is answered |
| `keyboard_missed` | one key, 2 presses or releases | without the exception for missed interrupts it is not |
| `shell_input` | a screen of 4 by 4, 3 glyphs, a buffer of 7 and 3 words | the screen shows the line; the command gets its words |
| `ata` | 2 sectors of 4 bytes, data of 1 to 4 bytes, reads of 1 to 4 | the driver implements `Disk`; every request ends |
| `stdout` | 2 files, 4 clusters of 2 bytes, pieces of 1 and 7 bytes, outputs of up to three pieces, `cat`, 5 commands | redirected output is complete and in one place |

Why the bounds suffice. The heap has room for five chunks, so there is a chunk with two
neighbours of either kind, an exact fit, the smallest split and a request that does not
fit. In `fat_chain` three clusters let a file of three clusters grow, shrink and be
deleted, two files compete, and the last cluster be refused; a text of 1 and one of 3
put sizes on both sides of a cluster's end. The volume has two entries more in a second
sector of the FAT, which the search never comes to and garbage can name. `fat_dir` has
room for three of its four names beside the dot entries: every order of creating and
deleting fills it up to the last slot, a fourth name goes behind it, and from then on
the neighbour's names are found, refused and deleted in it. `file_data` covers text ends
before, at and behind the end of sectors and clusters, files of one cluster and of two,
and both neighbourhoods a spilled sector can fall into. `fat_tree` has directories three
deep, the disk full, a root with a file and a directory in it and a directory with
either, every step that goes wild, and a crash before each write of each operation,
again and again. `keyboard` fills its buffer and loses a packet with three presses, and
an interrupt can fall between any two statements. In `shell_input` a line wraps twice,
makes the screen scroll while it is edited, fills its buffer, and has more words than
the array; every command's output scrolls or leaves the cursor in another column. `ata`
has an even and an odd count that end in the first and in the last word, and the drive
failing at each of its steps. `stdout` exhausts the disk both in a first and in a later
piece: a first write that needs all four clusters, one that needs one more than are left
and is not refused, and free clusters and count apart after one that failed.

Deadlock is checked for `FatDir`, `FileData`, `ShellInput` and `Ata`, where some
operation is always possible. It is off elsewhere: where a behaviour ends for a reason the
module names (the bounds on commands, key presses and blocks held, `torn` in `Heap`,
`wild` in `FatChain` and `Stdout`), and in `FatTree`, whose `Crash` is always possible.

Fairness is assumed of `Keyboard` and `Ata` only. `Keyboard`: weak fairness of `Arrive`
and `keyboard_input` (the controller delivers what it holds, and interrupts are enabled
whenever the shell waits) and of `Client` (there is one thread, and it does nothing
else). `Ata`: weak fairness of `Host`, the same thread, and of `Drive`: a drive that is
busy comes to the end of what it does, with or without success; one that stays busy for
ever hangs the driver, which has no timeout. The waits in `kb_fetch` and in the driver
read a variable or a port anew on each turn: the Makefile builds with `-O0`, and `inb` is
an `asm volatile`. The other modules state safety only: nothing in them waits.

## What the code does that a reader may not expect

The three violation runs are findings, each with the line and the comment it departs
from, in PROJECT.json: the size read after the link has been advanced in `free`
(`heap_torn`); scattered empty slots taken for a run (`fat_dir_mixed`); the interrupt
ignored while `kb_fetch` is at work (`keyboard_missed`).

The bounds and guards of the passing runs keep out what else was met while modelling.
Where the models have the behaviour, changing the constant named shows it:

* `SECTOR_TO_BYTE` is `SECTOR_SIZE / 4` without parentheses, so that FAT entries share
  places once the FAT is longer than a sector (`fat.c:62`): `ChainMatchesSize` of
  `FatChain` is violated with `SECTOR_SIZE = 16`, `MaxCluster = 7`, `SearchLimit = 8`,
  `InitFree = 5`.
* Deleting, rewriting and appending shift the first cluster's high half the wrong way
  (`fat.c:480`, 744, 815, 936; `firstFileCluster`), so that a chain that starts in cluster
  65536 or later is taken for another one. The search comes there only in a FAT of more
  than 2^18 sectors, where entries share places long before: `FatAssumption` has a sector's
  entries below `HalfWord`, and no run shows this alone.
* The write loops put one sector too many in each cluster (`fat.c:869`). That sector is
  the first of the next cluster on the disk: it reads back if that cluster is also the
  next of the chain, and is a neighbour's otherwise; all that follows is a sector off.
  `ReadsBack` excepts exactly the files this happens to (`spilled`).
* `write28` does not wait for the drive to want data (`ata.c:137`): with `InTime = FALSE`
  the first words can be lost, `ImplementsDisk` is violated.
* `init_dir` writes without `flush` (`fat.c:536`): with `Patient = FALSE` the request
  that follows finds a busy drive, which ignores its address and its command, and
  `ImplementsDisk` is violated. `flush` itself sends its command to a drive that is still
  busy with the write and may ignore it: it serves as a wait.
* A path whose directory reads the same as its last name is taken for the name alone
  (`shell.c:146` and its likes, `strcmp` on what `split_path` leaves): `rmdir b/b` removes
  `b`. `OnlyName` says so, and `PathTree`'s operation is at that path.
* `free` merging with the *last* chunk adds a size read near address 0 (`tailLost`):
  `LiveInHeap` and `CoversHeap` claim nothing afterwards.
* The free count may promise more clusters than the search can find (`InitFree`
  larger than the clusters below `SearchLimit`): the FAT is then written through
  indexes nobody found (`wild`).
* A sector whose free slots are too few for an entry keeps its end mark while the
  entry goes to the next sector, where no look-up sees it (names with different
  `Lfn`, small `EntriesPerSector`).
* A full directory's next entry goes to the sector behind it, which is part of the next
  cluster on the disk, and a directory that has been full has no end mark: look-ups,
  deletions and `rmdir` go on there (`fat.c:493`, 658-684 and their likes, `<=
  sectorPerCluster`). If that cluster is another directory's, its names are found and
  refused here, `rm` marks its slots, and `rmdir` frees its chains. `FoundIffPlaced` and
  `NoOrphans` claim nothing then, `OutsideUntouched` names the steps, `FatTree` stops.
* `utf8_to_utf16` writes no terminator: with `StackClean = FALSE` a name just created
  is not found.
* `rm` accepts a directory and loses what is in it (`lost`); `rmdir` accepts a file and
  takes its text for directory entries (`wild`).
* `>` and `>>` accept a directory and overwrite its entries with text (`fat.c:815`-878,
  `WriteFile`). `mkdir` on a full disk counts, marks and enters cluster 0xFFFFFFFF
  (`fat.c:622`-634, `CreateDir`), and so does the first write to a file. The check that
  would report "Not enough Space" takes the first cluster of an empty file off what it needs
  before the count has been lowered for it (`fat.c:827`-838 with 238): a file that needs
  one cluster more than there are is not refused (`Promised`).
* `read_BPB` leaves `CWDString` without a terminator (`fat.c:107`): the prompt shows what
  lies behind the "/" until a path from the root is taken (`leftover`).
* A line that fills the input buffer is returned without its terminator, so that `strtok`
  goes on into what lies behind and may cut it (`full`, `Behind`); the 64th word leaves the
  token array without its null (`ExtraTokens`).
* `terminal_rem` ends only if the screen has something to the left of the cursor or
  above it: the prompt and a full line fit on the screen (`ShellInputAssumption`, 512 and
  the prompt's length against 80 times 24), so that `EchoMatchesLine` can promise it. A
  path so long that they do not would void it.
* "Not enough Space" in a redirected command is written to the same file, fails the
  same way, and is reported again without end where it does not fit either (`MaxDepth`
  cuts the recursion).

Not in any model: the first redirection calls `free(0)` twice; `cat` redirected into its
own source (`Cat`'s guard); two keys for one modifier in a run, and caps lock held down
until it repeats, each repeat of which toggles `_capslock` (`Press`); what commands do
after `wild`; what commands do in a working directory that has been removed (`FatTree`
stops there: `stale`); names of more than 20 long slots and the 512 characters and 64
names `change_current_working_dir` has room for; scan codes outside of the key maps.

## Proofs

The theorems hold for every value of the constants their module's `ASSUME` allows, which
TLC evaluates for the values of the runs. Where a theorem needs more, the hypothesis has a
name and is in its statement; the runs' instances satisfy all of them.

| module | theorem | property | hypotheses |
|---|---|---|---|
| `HeapProofs` | `HeapTypeCorrect`, `HeapListMatchesMemory`, `HeapHeldIsAllocated` | `TypeOK`, `ListMatchesMemory`, `HeldIsAllocated` | |
| | `HeapLiveDisjoint` | `LiveDisjointUntorn` | |
| | `HeapNoAdjacentFree`, `HeapCoversHeap`, `HeapLiveInHeap` | `NoAdjacentFree`, `CoversHeap`, `LiveInHeap` | |
| | `HeapHeldUntouched` | `HeldUntouched` (a property of steps) | |
| `FatChainProofs` | `FatMirrorLag` | `MirrorLag` | |
| | `FatTypeCorrect` | `TypeOK` | `FewClusters`, `CountCovers` |
| | `FatNoCrossLink`, `FatChainMatchesSize`, `FatNothingLost`, `FatFreeCountTracks`, `FatOthersIntact` | those of the names | `FewClusters` |
| | `FatPlacesCollide` | why `FewClusters` is there | |
| `ClusterProofs` | `FileDataTypeCorrect`, `FileDataStaysInChain` | `TypeOK`, `StaysInChain` (a property of steps) | |
| | `FileDataReadsBack` | `ReadsBack` | `ClustersApart` |
| | `FatDirTypeCorrect` | `DirTypeOK` | |
| | `FatDirFindsPlaced`, `FatDirNoOrphans` | `FoundIffPlaced`, `NoOrphans` | `EvenSlots` |
| | `FatDirOutsideUntouched`, `FatDirMarkedUntilFull` | `OutsideUntouched`, `MarkedUntilFull` (properties of steps; the second has no run) | `EvenSlots` |
| `FatTreeProofs` | `FatTreeTypeCorrect`, `FatTreeMatchesFat`, `FatTreeReachableInUse` | `TypeOK`, `TreeMatchesFat`, `ReachableInUse` | |
| | `FatTreeCwdStringNamesCwd` | `CwdStringNamesCwd` | |
| | `FatTreeImplementsTree` | `ImplementsTree` (refinement) | |
| `KeyboardProofs` | `KeyboardTypeCorrect`, `KeyboardImplementsQueue` | `TypeOK`, `ImplementsQueue` (refinement) | |
| | `KeyboardDelivers` | `TypedIsDelivered` | `OneOfEach` |
| `AtaProofs` | `AtaTypeCorrect` | `TypeOK` | |
| | `AtaImplementsDisk` | `ImplementsDisk` (refinement) | `InTime`, `Patient` |
| `StdoutProofs` | `StdoutTypeCorrect`, `StdoutRedirectedOutput`, `StdoutOnePlace` | `TypeOK`, `RedirectedOutput`, `OnePlace` | |
| `ShellInputProofs` | `ShellInputTypeCorrect`, `ShellInputEcho`, `ShellInputTokensAreWords` | `TypeOK`, `EchoMatchesLine`, `TokensAreWords` | |

**Heap.** The inductive invariant is `HeapInv == TypeOK /\ ListMatchesMemory /\
HeldIsAllocated /\ HeldDistinct`. No conjunct is inductive alone: that the list stays
tiled over a `free` needs the block freed to be a chunk of the list (`HeldIsAllocated`);
that the other blocks stay allocated chunks needs the merges to remove free chunks and the
freed one only, which rests on next and perv being inverse (`ListMatchesMemory`), and on
no other block having the freed address (`HeldDistinct`). Disjointness then follows with
no further induction (`InvImpliesDisjoint`): chunks do not overlap, and each block lies in
its own. The step is split as the code is: `MallocWholeInv`, `MallocSplitInv` and
`FreeInv`, the last one through `FreedLinked`, `MergeBackLinked`, `AfterBackLinked` and
`MergeForwardLinked`, one for each phase of `free`.

`CoverInv` adds `NoAdjacentFree`, `CoversHeap` and the bounds of the heap. That the two
merges leave no free neighbours needs that there was at most one pair before, the one the
freed chunk makes (`MergedBut`); that nothing is lost needs the size a merged chunk gets to
reach to its new successor, which is true of the sizes read from chunks and not of one read
near address 0 (`tailLost`).

One bound is in the model and so in the theorems: `Malloc` hands out no block whose end
wraps round the address space (its guard), which only a size read near address 0 could
make possible.

**FAT cluster allocation.** `FatMirrorLag` needs no hypothesis: `MirrorInv` says that the
pending writes are pairs, one for each copy with the same place and value, that a crash or
a new operation may find the first of a pair done (`Resumes`), and counts the places that
differ besides.

The other theorems are about a volume where the search for free clusters stays in the
first sector of the FAT, and what is in use when it is mounted lies there too
(`FewClusters`). The volume and its FAT may be longer, since the driver never looks at
the rest: the search stops at `fat_size / 4` *clusters*, and a sector has 128 entries,
so that the hypothesis holds for every FAT of up to 512 sectors with nothing beyond
cluster 127 in use at the start. The two partitions of `src/drive.img` are of that kind:
FATs of 104 sectors, so a search that stops at cluster 26, and nothing in use beyond
cluster 7. It says what the code needs: `FatPlacesCollide` proves that beyond the first
sector entries are written to places that other entries have, so that on a larger volume
allocating one cluster overwrites another's entry. On such a disk as `drive.img` the
free count promises far more clusters than the search finds, so that running out of them
is not reported but ends in `wild`: the theorems speak of what comes before.

`AllocInv` says that there are chains, a sequence of clusters for each file, such that
the disk *once all pending writes are done* is `Good`: the entries of each file's
clusters link up to its chain and end it, the chain is as long as the size says, chains
are disjoint, the clusters marked are those of the chains, of the volume and of failed
writes, and the free count is what is left. `Completes` states it by what each place
will hold (`Lands`), so that a single sector write changes nothing and only the step
that starts an operation needs a proof for each operation and branch (`CreateMoves`,
`ExtendMoves` and so on). `Untouched` is the same for every file but the one operated
on, at each instant, which makes it survive a crash. The free count is a natural number
if the volume's count covers its free clusters (`CountCovers`); with a count that is too
low the unsigned counter would wrap.

**File contents.** `ReadInv` adds to the types that the texts are as long as the files and
that every byte of a file nothing has spilled over is where reading looks for it
(`Stored`). Rewriting and appending are both `Writes`: `OwnWritten` says that a write
which does not spill puts each sector where reading looks for it and overwrites none of the
file's others, `OthersKept` that it leaves the sectors of other files alone; both rest on
cluster and offset determining the sector (`SectorOfInjective`). `ClustersApart`, that no
cluster has two places in the chains, is what `FatNoCrossLink` proves of the FAT; the types
and `StaysInChain` do without.

**Directory slots.** The types hold always: an entry is only put where a slot is empty
(`FirstEmptyIs`), and what is cut off at a sector's end was of the right type. The rest
needs `EvenSlots`: every name takes the same number of slots, a sector is a whole number
of entries long, so are the dot entries, and the padding of a name is zero. With 16
slots in a sector that are the names of up to 13 characters, or, in the root only, those
of 27 to 39, and so on. Each part is what the code needs, as the list above shows: names
of different lengths (`fat_dir_mixed`) make a search count scattered slots; a rest at a
sector's end keeps its end mark and hides the sectors behind it, as two dot entries and
names of four slots do. How many names there are, and what lies behind the directory, is
left open.

Under it `DirInv` sees the directory as blocks of the size of an entry (`Cell` is the
o-th slot of a block): a block was never used, or is unused again, or has dot entries,
or holds the whole entry of a name, which has no other block (`EntriesWhole`); behind a
block never used there are only such (`EndsLast`); and as long as there is one, the
names in blocks are those placed (`AsPlaced`). Without one the names a neighbour has can
be deleted or refused in their place, so that nothing ties the blocks to `placed`; but
they stay whole and apart, which is all that `OutsideUntouched` and `MarkedUntilFull`
need. `EndsLast` is what makes look-up see every entry (`VisitedIs`) and nothing behind
the directory (`BeyondUnseen`); that the blocks are whole makes `lfnEnt`, which collects
long names since the last short entry wherever they lie, hold exactly those of the entry
(`CollectedIs`). `RoomIs` shows that the count of empty slots, which counts an end mark
once for each slot behind it, still says rightly whether a block is free; `FirstFree`
that the first empty slot is where the first free block begins. So an entry goes to the
first free block (`PutTo`), or behind the directory if there is none (`PutBehind`), and
a deletion empties the whole block (`DropFrom`) or, with no end mark left, slots behind
the directory (`DropBehind`). `SlotsMatch` gives `NoOrphans` by pairing slots in use
with the parts of the names.

**Directory tree.** `Inv == TypeOK /\ Forest /\ CwdThere /\ Phase`. `Forest` is about the
entries alone: each cluster has one entry at most (`Apart`), the root none (`BelowRoot`),
what is not reached from the root is empty (`OnlyReached`), and no directory lies below
itself (`RankedBy`, some numbering that grows downwards, so that what a recursive deletion
takes ends, and never has its own directory in it). `Phase` says what is left to write and
what the FAT marks meanwhile: a new entry (`Adding`) whose cluster is marked first, a new
directory's contents (`Starting`), an entry whose cluster has been freed (`Deleting`),
a subtree that is still to be cut (`Removing`), clusters that are still to be freed
(`Freeing`, with nothing left to free: between operations), and a tree that a stop has
damaged (`Broken`). A stop leads from each to `Freeing` or to `Broken`. The invariant needs
no hypothesis: it holds for every set of clusters, every `Room` and `leftover`, and wherever
the machine stops. What the theorems say ends where `wild` is set, with the operation that
sets it; of what the code does from there on they say nothing.

Which clusters a deletion takes is a least fixed point (`DirsFrom`); `DirsLeast`
characterises it by its two properties, and `CutKeeps` uses them to show that cutting a
subtree leaves what the rest of the tree reaches as it was. `CwdStringNamesCwd` is about
a prompt with nothing left in front, `leftover = 0`; it follows from `StringLeads`, that
what `cd` has put there leads to the working directory, whatever is in front of it. For
that, `WalkFacts` gives resolving a path as a walk down the entries, `KeepsPaths` shows
that a write which keeps the entries of a path keeps where it leads, and
`NormalizedLeads`, by induction over the path, that the text `cd` makes leads where the
path led: going up by `..` on the disk is taking the last name off the text (`UpAgain`),
because each directory has one parent (`Apart`, `Linked`).

For `FatTreeImplementsTree` the tree of paths, `Places`, is shown to be the paths that
lead to a directory (`PlacesLeadHolds`): no path that leads somewhere passes a cluster
twice (`PathsAreShort`), so the depth `Places` goes to is enough. From there on paths
are the relation `Leads`, and no directory has two (`OnePath`). A write to an entry
changes nothing but the paths through it (`TreeStaysAside`); what becomes of those is
`FileAppears`, `DirAppears` and `TreeIsCut`, the last because all that a removal forgets
lies below the entry it removes (`GoneIsBelow`). `Aims` is the part of the invariant
that ties the writes still to make to the request: the path it named, however the client
wrote it (`RequestsAim`), leads to the directory whose entry is written, and still does
when that write comes, since it is the only one of an entry (`OneEntryOnly`). So the
write of the entry is the abstract operation, and every other step of the disk changes
no path.

**Keyboard.** `QueueInv` ties the interrupt handler's switch, the place `kb_fetch` is at and
the loop variable of its shift together, so that `Waiting`, the queue's contents, can be
read off the buffer in the middle of the shift. Each step is then `Put`, `Get` or a stutter
of `KeyQueue`. `DeliveryInv` adds that the scan codes under way, decoded with the modifiers
there are, will be the keys still to be delivered. `OneOfEach` (no two keys for the same
modifier) is needed: the driver keeps one flag for both shift keys, and releasing the one
clears it while the other is held.

**ATA driver.** `DiskInv` says for each step of the driver where the drive can be, and
which prefix of the sector has gone through the data port. `InTime`: the drive wants the
first word of a write when the driver sends it, which the code takes for granted.
`Patient`: nobody makes a request while a write that was not flushed is under way; the code
does that in one place, after `init_dir`.

**Stdout.** `StdoutInv` says how much of what has been printed has landed in the file: all
of it, or all but the piece whose system call is innermost and has not written yet. Only the
first write of a command finds `rewrite` set, however deep failed writes have nested,
because each of them that returns has had the innermost one write before.

**Shell input, terminal.** `InputInv` says of the screen that it is empty from the cursor
on (`Fresh`) and, while a line is read, that the prompt and the line stand right before the
cursor (`EndsWith`). The first is what makes the second inductive: `terminal_rem` goes back
to the last cell that is not blank (`BackIs`), which is the last key's, also across a wrap,
because nothing stands behind it and no glyph is blank; and a scroll takes whole rows away
at the top while what is read fits below them (`Fits`, from `ShellInputAssumption`), so that
every cell of it moves by the same `Width` (`NextLineMoves`). `PutCharShows` and
`RemTakesBack` are the two keys, `WriteKeeps` any output of a command. What `Backspace` must
not do, and `ShellInputEcho` says it does not, is take the prompt.

`WordsInv` is about `split_line`: the line from strtok's position on is as it was typed and
ends with the null (`LineLeft`), and the words before the position are the tokens, in order
and none left out (`TokensFound`), until no word is left or the array is full (`AllFound`).
A word ends at the first space or null behind it, and the null strtok puts there is what
makes the token read as that word (`TokenReads`). That the i-th token is the i-th word
counts the words before it (`NthIs`). Where the line was returned without its null (`full`)
nothing is claimed of the words, as in the run.

Induction over numbers is done with `Counting` (a set that has 0 and with each number the
next has them all, from well-foundedness), since the library's induction theorems take
operators.

Only model-checked, by TLC on the instances above: liveness
(`FetchReturnsUnlessMissed`, `RequestReturns`), which is beyond the prover. Every other
property of a passing run is stated by a theorem; what a hypothesis leaves out is in the
table.

## Not modelled

* The scheduler: `schedule` is called at every timer interrupt and returns at once,
  since nothing in the kernel calls `add_task`.
* What a drive's cache loses when the power goes: `Disk` keeps what the drive has stored.
* Start-up, descriptor tables, PCI, port I/O, partition table: they run once and in a
  fixed order, or have no state.
* `ls` and `help` change nothing but the screen; `Stdout` takes their text as pieces.
* What the CPU does to the stack beyond an overrun array (`lfnEnt`, names longer than
  twenty slots), and scan codes outside of the key maps.

## Plan

Done: every component that keeps state of its own. The order was heap and cluster
allocation, since everything else rests on them; the other parts of the file system,
keyboard and stdout; then the disk driver below the file system, the shell's input above
the keyboard, and the tree with its crashes against `PathTree`. What is left:
`FileSystem`, names to texts, implemented by `FatChain` and `FileData` together; the
working directory removed; `cat` into its own source; what the code does in the tree and
in the FAT after `wild`.
