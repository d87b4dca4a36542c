------------------------------- MODULE FatTree -------------------------------
(***************************************************************************)
(* The directory tree of the FAT32 driver (src/src/filesystem/fat.c) and   *)
(* the commands of the shell that work on it (src/src/userinter/shell.c):  *)
(* how paths are split and resolved, what the working directory is, which  *)
(* disk writes creating and removing take, in which order, and what is     *)
(* left when the machine stops between two of them.                        *)
(*                                                                         *)
(* A directory is the cluster its entries lie in; its entry "..", written  *)
(* when it is made, names the cluster of its parent.  A file has no        *)
(* cluster until something is written to it, then one (bound: its text     *)
(* fits).  Slots, chains and the free count are FatDir's and FatChain's    *)
(* subject.                                                                *)
(*                                                                         *)
(* Three things the code does are named and not followed, after which      *)
(* nothing is claimed or run (wild): it goes on with cluster 0xFFFFFFFF    *)
(* when none is free, it takes the text of a file for directory entries or *)
(* writes text over them, and it reads on behind a directory that has been *)
(* full and has no end mark any more.                                      *)
(***************************************************************************)
EXTENDS Integers, Sequences, FiniteSets, SequencesExt

CONSTANTS
  Names,   \* names of files and directories
  Parts,   \* the paths clients use: sequences of names, "." and ".."
  Root,    \* bpb.rootCluster
  Clusters, \* the root's cluster and those find_empty_Cluster looks at
  Room,    \* how many entries of two slots a directory takes besides "." and ".."
  MaxLeftover \* bound: the names that lie behind CWDString[0] at the start

ASSUME TreeAssumption ==
  /\ Names \cap {".", ".."} = {}
  /\ \A p \in Parts : p \in Seq(Names \cup {".", ".."})
  /\ Clusters \subseteq Nat \ {0} /\ IsFiniteSet(Clusters) /\ Root \in Clusters
  /\ Room \in Nat \ {0} /\ MaxLeftover \in Nat

VARIABLES
  used,      \* the clusters marked in the FAT
  entries,   \* directory cluster -> name -> entry
  dotdot,    \* directory cluster -> the cluster its ".." names
  cwd,       \* partDesc->currentWorkingDir
  cwdString, \* partDesc->CWDString, as the sequence of its names, without
  leftover,  \* the number of names in front that nobody has put there
  todo,      \* the disk writes the operation in progress has still to make
  target,    \* the cluster whose entry and mark it writes one after the other, or 0
  named,     \* history: the path from the root the operation is about
  lost,      \* history: clusters in use that no path leads to
  stale,     \* history: the working directory has been removed
  wild,      \* history: the code has gone where the model does not follow
  damaged    \* history: the machine stopped between target's entry and its mark

disk == <<used, entries, dotdot>>
session == <<cwd, cwdString, leftover>>
vars == <<disk, session, todo, target, named, lost, stale, wild, damaged>>

Absent == [kind |-> "absent", first |-> 0]
File(c) == [kind |-> "file", first |-> c]
Dir(c) == [kind |-> "dir", first |-> c]
EmptyDir == [n \in Names |-> Absent]
Entry(d, n) == entries[d][n]

Invalid == -1   \* 0xFFFFFFFF

-----------------------------------------------------------------------------
(* find_dir_first_cluster: only directories are found, and the root's ".." *)
(* is the root.                                                            *)
ParentAlways(d) == dotdot[d]   \* mutant
Parent(d) == IF d = Root THEN d ELSE dotdot[d]

Enter(d, part) ==
  CASE d = Invalid -> Invalid
    [] d # Invalid /\ part = "." -> d
    [] d # Invalid /\ part = ".." -> Parent(d)
    [] OTHER -> IF Entry(d, part).kind = "dir" THEN Entry(d, part).first ELSE Invalid

Resolve(absolute, parts) ==
  LET at[i \in 0..Len(parts)] == IF i = 0 THEN (IF absolute THEN Root ELSE cwd)
                                 ELSE Enter(at[i - 1], parts[i])
  IN at[Len(parts)]

(* The commands split the last name n off the path.  What is left is taken *)
(* for a path without a directory if it reads the same as the name: b/b    *)
(* means b.                                                                *)
OnlyName(absolute, parts, n) == ~absolute /\ parts \in {<<>>, <<n>>}
Target(absolute, parts, n) ==
  IF OnlyName(absolute, parts, n) THEN cwd ELSE Resolve(absolute, parts)

(* change_current_working_dir works on the text of the path alone.         *)
NormalizedKeepingUp(parts) == SelectSeq(parts, LAMBDA part : part \notin {".", ".."})   \* mutant
With(s, part) ==
  CASE part = "." -> s
    [] part = ".." -> IF s = <<>> THEN s ELSE Front(s)
    [] OTHER -> Append(s, part)
Normalized(parts) ==
  LET text[i \in 0..Len(parts)] == IF i = 0 THEN <<>> ELSE With(text[i - 1], parts[i])
  IN text[Len(parts)]

(* What is left of the names in front: a ".." takes one of them away when  *)
(* there is no other.                                                      *)
LeftoverAfter(absolute, parts) ==
  LET climbs == {i \in DOMAIN parts :
                   parts[i] = ".." /\ Normalized(cwdString \o SubSeq(parts, 1, i - 1)) = <<>>}
  IN IF absolute \/ Cardinality(climbs) >= leftover THEN 0
     ELSE leftover - Cardinality(climbs)

(* The path from the root that a command is about.                         *)
Named(absolute, parts, n) ==
  Append(IF OnlyName(absolute, parts, n) THEN cwdString
         ELSE Normalized((IF absolute THEN <<>> ELSE cwdString) \o parts), n)

(* The directory or file and all that lies below it, as                    *)
(* clear_dir_by_cluster visits it.                                         *)
Firsts(d) == {Entry(d, n).first : n \in {m \in Names : Entry(d, m).kind # "absent"}} \ {0}
Subdirs(d) == {Entry(d, n).first : n \in {m \in Names : Entry(d, m).kind = "dir"}}

DirsFrom(d) ==
  LET dirs[i \in 0..Cardinality(Clusters)] ==
        IF i = 0 THEN {d} ELSE dirs[i - 1] \cup UNION {Subdirs(c) : c \in dirs[i - 1]}
  IN dirs[Cardinality(Clusters) - 1]

Below(d) == UNION {Firsts(c) : c \in DirsFrom(d)}

(* What delete_dir_by_parent_cluster frees besides the directory itself.   *)
ClearedDirectly(d) == Firsts(d)   \* mutant
Cleared(d) == Below(d)

-----------------------------------------------------------------------------
Init ==
  /\ used = {Root} /\ entries = [d \in Clusters |-> EmptyDir]
  /\ dotdot = [d \in Clusters |-> 0]
  /\ cwd = Root /\ cwdString = <<>> /\ leftover \in 0..MaxLeftover
  /\ todo = <<>> /\ target = 0 /\ named = <<>>
  /\ lost = {} /\ stale = FALSE /\ wild = FALSE /\ damaged = FALSE

(* bound: nothing is run in a working directory that is gone, once the     *)
(* code has gone wild, or on a tree that a restart has damaged.            *)
Sound == ~stale /\ ~wild /\ ~damaged
Ready == Sound /\ todo = <<>>

Cd(absolute, parts) ==
  LET d == Resolve(absolute, parts)
  IN /\ Ready /\ d # Invalid
     /\ cwd' = d
     /\ cwdString' = Normalized((IF absolute THEN <<>> ELSE cwdString) \o parts)
     /\ leftover' = LeftoverAfter(absolute, parts)
     /\ UNCHANGED <<disk, todo, target, named, lost, stale, wild, damaged>>

(* The disk writes: a FAT entry marked, some freed (in an order left open, *)
(* it depends on the slots), a directory's sector, a directory's first     *)
(* contents.                                                               *)
Mark(c) == [op |-> "mark", c |-> c]
Free(cs) == IF cs = {} THEN <<>> ELSE <<[op |-> "free", cs |-> cs]>>
Put(d, n, e, gone) == [op |-> "put", d |-> d, n |-> n, e |-> e, gone |-> gone]
InitDir(c, parent) == [op |-> "init", c |-> c, parent |-> parent]

(* An operation starts.                                                    *)
Issue(writes, c) ==
  /\ todo' = writes /\ target' = c
  /\ UNCHANGED <<disk, damaged>>

FreeClusters == Clusters \ used
FindEmpty == CHOOSE c \in FreeClusters : \A x \in FreeClusters : c <= x

(* The new entry takes the last slots a directory has, and with them its   *)
(* end mark: every search goes on behind it from now on.  The root has     *)
(* room for one more, having no "." and "..".                              *)
Fills(d) ==
  Cardinality({m \in Names : Entry(d, m) # Absent}) + 1 >= Room + (IF d = Root THEN 1 ELSE 0)

CreateFile(d, n) ==
  /\ Entry(d, n) = Absent
  /\ Issue(<<Put(d, n, File(0), {})>>, 0)
  /\ wild' = Fills(d)
  /\ UNCHANGED <<lost, stale>>

(* Output is redirected to whatever has the name; to a directory too,      *)
(* whose entries the text replaces.  Only the first write to a file        *)
(* changes the cluster its entry names.                                    *)
WriteFile(d, n) ==
  LET first == Entry(d, n) = File(0)
  IN /\ Entry(d, n) # Absent
     /\ \/ /\ first /\ FreeClusters # {}
           /\ Issue(<<Mark(FindEmpty), Put(d, n, File(FindEmpty), {})>>, FindEmpty)
           /\ UNCHANGED wild
        \/ /\ first => FreeClusters = {}
           /\ Issue(<<>>, 0)
           /\ wild' = (first \/ Entry(d, n).kind = "dir")
     /\ UNCHANGED <<lost, stale>>

(* create_dir_by_parent_cluster with init_dir; nothing checks that a       *)
(* cluster was found.                                                      *)
DotDotOfNewIsRoot(parent) == Root   \* mutant
DotDotOfNew(parent) == parent

CreateDir(d, n) ==
  /\ Entry(d, n) = Absent
  /\ \/ /\ FreeClusters # {}
        /\ Issue(<<Mark(FindEmpty), Put(d, n, Dir(FindEmpty), {}),
                   InitDir(FindEmpty, DotDotOfNew(d))>>, FindEmpty)
        /\ wild' = Fills(d)
     \/ FreeClusters = {} /\ Issue(<<>>, 0) /\ wild' = TRUE
  /\ UNCHANGED <<lost, stale>>

(* delete_file: the cluster of the entry of that name is freed, whatever   *)
(* it is, then the entry is deleted.                                       *)
DeleteFile(d, n) ==
  LET e == Entry(d, n)
      inside == IF e.kind = "dir" THEN Below(e.first) ELSE {}
      gone == inside \cup {e.first}
  IN /\ e # Absent
     /\ Issue(Free({e.first} \ {0}) \o <<Put(d, n, Absent, gone)>>, e.first)
     /\ lost' = lost \cup inside
     /\ stale' = (e.kind = "dir" /\ cwd \in gone)
     /\ UNCHANGED wild

(* delete_dir: the entry of that name is deleted, then what lies in its    *)
(* cluster is taken for directory entries.  The text of a file can free    *)
(* any cluster that way.                                                   *)
RemovalClearingFirst(d, n, e, cleared) ==   \* mutant
  Free(cleared) \o <<Put(d, n, Absent, cleared \cup {e.first})>> \o Free({e.first} \ {0})
Removal(d, n, e, cleared) ==
  <<Put(d, n, Absent, cleared \cup {e.first})>> \o Free(cleared) \o Free({e.first} \ {0})

DeleteDir(d, n) ==
  LET e == Entry(d, n)
      cleared == IF e.kind = "dir" THEN Cleared(e.first) ELSE {}
  IN /\ e # Absent
     /\ Issue(Removal(d, n, e, cleared), 0)
     /\ wild' = (e.kind = "file" /\ e.first # 0)
     /\ stale' = (cwd \in cleared \cup {e.first})
     /\ UNCHANGED lost

(* A command of the shell: the directory and the path its argument means.  *)
Requests == {[dir |-> Target(absolute, parts, n), path |-> Named(absolute, parts, n), name |-> n] :
               absolute \in BOOLEAN, parts \in Parts, n \in Names}

Command(d, n) ==
  CreateFile(d, n) \/ WriteFile(d, n) \/ CreateDir(d, n) \/ DeleteFile(d, n) \/ DeleteDir(d, n)

Operation(r) ==
  /\ r.dir # Invalid
  /\ Command(r.dir, r.name)
  /\ named' = IF todo' = <<>> THEN <<>> ELSE r.path
  /\ UNCHANGED session

-----------------------------------------------------------------------------
(* One disk write.  What lies in the clusters that leave the tree with an  *)
(* entry is not read again and is forgotten.                               *)
Wrote(left) ==
  /\ todo' = left
  /\ target' = IF left = <<>> THEN 0 ELSE target
  /\ named' = IF left = <<>> THEN <<>> ELSE named
  /\ UNCHANGED <<session, lost, stale, wild, damaged>>

WriteMark ==
  LET w == Head(todo)
  IN /\ todo # <<>> /\ w.op = "mark"
     /\ used' = used \cup {w.c}
     /\ Wrote(Tail(todo))
     /\ UNCHANGED <<entries, dotdot>>

WriteFree ==
  LET w == Head(todo)
  IN /\ todo # <<>> /\ w.op = "free"
     /\ \E c \in w.cs :
          /\ used' = used \ {c}
          /\ Wrote(Free(w.cs \ {c}) \o Tail(todo))
     /\ UNCHANGED <<entries, dotdot>>

WritePut ==
  LET w == Head(todo)
  IN /\ todo # <<>> /\ w.op = "put"
     /\ entries' = [c \in Clusters |-> IF c \in w.gone THEN EmptyDir
                                      ELSE IF c = w.d THEN [entries[c] EXCEPT ![w.n] = w.e]
                                      ELSE entries[c]]
     /\ dotdot' = [c \in Clusters |-> IF c \in w.gone THEN 0 ELSE dotdot[c]]
     /\ Wrote(Tail(todo))
     /\ UNCHANGED used

WriteInit ==
  LET w == Head(todo)
  IN /\ todo # <<>> /\ w.op = "init"
     /\ entries' = [entries EXCEPT ![w.c] = EmptyDir]
     /\ dotdot' = [dotdot EXCEPT ![w.c] = w.parent]
     /\ Wrote(Tail(todo))
     /\ UNCHANGED used

(* The machine stops and is started again: read_BPB finds the root, and    *)
(* puts a "/" in front of what happens to lie where CWDString is.  The     *)
(* clusters that were still to be freed stay in use, and so does one that  *)
(* was marked for an entry not yet written.  If target's entry was there   *)
(* by then, but not its mark or its contents, the tree is damaged.         *)
Unfreed == UNION {w.cs : w \in {x \in ToSet(todo) : x.op = "free"}}
EntryPending == \E i \in DOMAIN todo : todo[i].op = "put"
TargetThere == target # 0 /\ target \in Below(Root)

Crash ==
  LET broken == TargetThere /\ ~(EntryPending /\ target \in used)
  IN /\ todo' = <<>> /\ target' = (IF broken THEN target ELSE 0) /\ named' = <<>>
     /\ cwd' = Root /\ cwdString' = <<>> /\ leftover' \in 0..MaxLeftover
     /\ stale' = FALSE
     /\ damaged' = broken
     /\ lost' = IF ~EntryPending THEN lost \cup Unfreed
                ELSE (lost \cup {target}) \cap (used \ Below(Root))
     /\ UNCHANGED <<disk, wild>>

Next ==
  \/ \E absolute \in BOOLEAN, parts \in Parts : Cd(absolute, parts)
  \/ Ready /\ \E r \in Requests : Operation(r)
  \/ WriteMark \/ WriteFree \/ WritePut \/ WriteInit
  \/ Crash

Spec == Init /\ [][Next]_vars

-----------------------------------------------------------------------------
Entries == {Absent} \cup {File(c) : c \in Clusters \cup {0}} \cup {Dir(c) : c \in Clusters}
Writes ==
  [op : {"mark"}, c : Clusters] \cup [op : {"free"}, cs : SUBSET Clusters]
  \cup [op : {"put"}, d : Clusters, n : Names, e : Entries, gone : SUBSET (Clusters \cup {0})]
  \cup [op : {"init"}, c : Clusters, parent : Clusters]

TypeOK ==
  /\ used \subseteq Clusters /\ cwd \in Clusters /\ cwdString \in Seq(Names)
  /\ leftover \in 0..MaxLeftover
  /\ entries \in [Clusters -> [Names -> Entries]]
  /\ dotdot \in [Clusters -> Clusters \cup {0}]
  /\ todo \in Seq(Writes) /\ target \in Clusters \cup {0} /\ named \in Seq(Names)
  /\ lost \subseteq Clusters /\ {stale, wild, damaged} \subseteq BOOLEAN

(* Between operations the clusters marked in the FAT are those of the      *)
(* tree, and those known to be lost: what was in directories removed with  *)
(* rm, and what a restart has cut off.  Removing a directory gives back    *)
(* all that was in it, at any depth, and nothing else.                     *)
TreeMatchesFat ==
  todo = <<>> /\ ~wild /\ ~damaged => used = {Root} \cup Below(Root) \cup lost

(* At every instant, in the middle of operations and after a restart, what *)
(* a path leads to is marked in the FAT and has one entry only, but for    *)
(* the one cluster whose entry and mark are being written.                 *)
ReachableInUse ==
  LET slots == DirsFrom(Root) \X Names
      first == [x \in slots |-> Entry(x[1], x[2]).first]
      held == {x \in slots : first[x] # 0}
  IN ~wild => /\ \A x \in held : first[x] = target \/ first[x] \in used
              /\ Cardinality({first[x] : x \in held}) = Cardinality(held)

(* The prompt tells the truth once nothing is left in front of it: the     *)
(* working directory's string, taken as a path from the root, leads to the *)
(* working directory's cluster, although the one is computed from text and *)
(* the other from the disk.                                                *)
CwdStringNamesCwd ==
  ~stale /\ ~wild /\ leftover = 0 => Resolve(TRUE, cwdString) = cwd

(* The tree by its paths.  A directory whose contents are not there yet    *)
(* counts as empty.                                                        *)
Places ==   \* every directory with its path
  LET places[i \in 0..Cardinality(Clusters)] ==
        IF i = 0 THEN {<<<<>>, Root>>}
        ELSE LET above == places[i - 1]
             IN above \cup UNION {{<<Append(x[1], n), Entry(x[2], n).first>> :
                                   n \in {m \in Names : Entry(x[2], m).kind = "dir"}} : x \in above}
  IN places[Cardinality(Clusters) - 1]
DirPaths == {x[1] : x \in Places}
FilePaths == UNION {{Append(x[1], n) : n \in {m \in Names : Entry(x[2], m).kind = "file"}} :
                    x \in Places}

Tree == INSTANCE PathTree WITH dirs <- DirPaths, files <- FilePaths, cwd <- cwdString

(* Whatever the order of the disk writes, and wherever the machine stops   *)
(* between them, every operation has the effect its name says, at once, at *)
(* the path the client named, or none: the entries of the two ".." and the *)
(* text of the path lead to the same place.  Nothing is promised of what   *)
(* comes after an operation has gone wild.                                 *)
ImplementsTree == Tree!Spec
=============================================================================
