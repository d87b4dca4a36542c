------------------------------ MODULE FatChain ------------------------------
(***************************************************************************)
(* Cluster allocation of the FAT32 driver (src/src/filesystem/fat.c): the  *)
(* two copies of the FAT, the free count in memory and in the FSInfo       *)
(* sector, and the directory entries of the files of one directory.        *)
(*                                                                         *)
(* The driver works on the disk itself, one sector write after the other,  *)
(* with nothing to make them atomic.  An operation computes the writes it  *)
(* is going to issue, in order, from the disk it finds; they reach the     *)
(* disk one at a time, and the machine may stop between any two of them.   *)
(* Where the slots of a directory lie and what the clusters contain are    *)
(* left to other modules.                                                  *)
(***************************************************************************)
EXTENDS FatEntry, Sequences, FiniteSets, SequencesExt

CONSTANTS
  Names,       \* the names in the directory
  SearchLimit, \* fat_size / 4: the search for free clusters stops below it, far
               \* below MaxCluster (fat_size is in sectors, 128 clusters each)
  EOC,         \* 0x0FFFFFF8, the end of a chain
  Foreign,     \* clusters in use when the partition is mounted (root directory)
  InitFree,    \* FSInfo.freeClusterCount of the mounted partition
  ClusterSize, \* bytes of a cluster, scaled
  HalfWord,    \* 2^16: what one half of an entry's first cluster can say
  Sizes,       \* the sizes of the texts clients write
  MaxSize,     \* bound: no file grows beyond it
  Garbage,     \* what an array element no one has written can hold
  MaxCrashes,  \* bound: how often the machine stops
  UseAfterCrash \* bound: whether a partition is written to after a crash

ASSUME FatAssumption ==
  /\ EOC \in Nat /\ EOC > MaxCluster
  /\ SearchLimit \in 2..(MaxCluster + 1)
  /\ Foreign \subseteq 2..MaxCluster
  /\ InitFree \in Nat
  /\ ClusterSize \in Nat \ {0}
  /\ HalfWord \in Nat \ {0} /\ PerSector <= HalfWord  \* 128, 65536
  /\ Sizes \subseteq Nat \ {0}  \* the shell never redirects an empty text
  /\ MaxSize \in Nat
  /\ Garbage \subseteq Entries
  /\ MaxCrashes \in Nat /\ UseAfterCrash \in BOOLEAN

VARIABLES
  fat1, fat2,  \* the two copies of the FAT on the disk: place -> value
  fsinfo,      \* FSInfo.freeClusterCount on the disk
  dirent,      \* the directory entries on the disk
  freeCount,   \* partDesc->FSInfo.freeClusterCount
  todo,        \* the writes the running operation has still to issue
  target,      \* history: the name the running operation is about
  wild,        \* history: an operation has used an index no search returned
  leaked,      \* history: clusters a failed write has left without an owner
  crashes,     \* how often the machine has stopped
  reused       \* history: an operation has been run after a crash

disk == <<fat1, fat2, fsinfo, dirent>>
vars == <<disk, freeCount, todo, target, wild, leaked, crashes, reused>>

NoEntry == [live |-> FALSE, dir |-> FALSE, first |-> 0, size |-> 0]

-----------------------------------------------------------------------------
(* One disk write: where it goes and what it puts there.                   *)
Write(dst, key, val) == <<[dst |-> dst, key |-> key, val |-> val]>>

(* write_fat_entry: one copy after the other.                              *)
FatWriteFirstOnly(c, v) == Write("fat1", c, v)   \* mutant
FatWrite(c, v) == Write("fat1", c, v) \o Write("fat2", c, v)

(* As many of these as there are entries in cs, with the values vs.        *)
FatWrites(cs, vs) ==
  [k \in 1..2 * Len(cs) |->
     [dst |-> IF k % 2 = 1 THEN "fat1" ELSE "fat2",
      key |-> cs[(k + 1) \div 2], val |-> vs[(k + 1) \div 2]]]

(* update_FSInfo *)
FSInfoWrite(n) == Write("fsinfo", 0, n)

DirentWrite(f, e) == Write("dirent", f, e)

(* A copy of the FAT once a write has reached the disk.                    *)
Effect(fat, copy, w) ==
  IF w.dst = copy THEN write_fat_entry(fat, w.key, w.val) ELSE fat

fatEntry(c) == read_fat_entry(fat1, c)

-----------------------------------------------------------------------------
(* The chain that starts in cluster c, as every loop over nextFileCluster  *)
(* walks it; cluster 0 is followed like any other.  The walk of a cyclic   *)
(* chain does not return: the code hangs, and no operation gets past it.   *)
Walk(c) ==
  LET walk[i \in 0..MaxCluster + 1] ==
        IF i = 0 THEN c ELSE IF walk[i-1] \in Entries THEN fatEntry(walk[i-1]) ELSE EOC
  IN walk

Returns(c) == \E i \in DOMAIN Walk(c) : Walk(c)[i] >= EOC

ChainLength(c) == Cardinality({i \in 0..MaxCluster : Walk(c)[i] < EOC})
Chain(c) == [i \in 1..ChainLength(c) |-> Walk(c)[i-1]]

(* The empty clusters find_empty_Cluster and find_free_clusters see, in    *)
(* the order they see them.                                                *)
Ascending(S) ==
  CHOOSE s \in [1..Cardinality(S) -> S] : \A i, j \in DOMAIN s : i < j => s[i] < s[j]

EmptyIgnoringFat(used) ==   \* mutant
  Ascending({c \in 2..SearchLimit-1 : c \notin Foreign})
Empty(used) ==
  Ascending({c \in 2..SearchLimit-1 : fatEntry(c) = 0 /\ c \notin used})

(* The array find_free_clusters returns: what the search did not find room *)
(* for stays as malloc left it.                                            *)
Filled(found, n, junk) ==
  [i \in 1..n |-> IF i <= Len(found) THEN found[i] ELSE junk]

(* The writes of allocate_new_clusters once the clusters idx are chosen:   *)
(* the end of the chain is linked first, then the clusters among           *)
(* themselves.                                                             *)
LinkUnterminated(last, idx) == FatWrites(<<last>> \o Front(idx), idx)   \* mutant
Link(last, idx) == FatWrites(<<last>> \o idx, idx \o <<EOC>>)

(* The writes of remove_clusters_from_chain: the clusters beyond keep, out *)
(* of the size the caller knows of, are cleared, then the chain is ended.  *)
Cleared(idx, keep) ==
  FatWrites(SubSeq(idx, keep + 1, Len(idx)), [i \in 1..Len(idx) - keep |-> 0])
UnlinkKeepingLink(idx, keep) == Cleared(idx, keep)   \* mutant
Unlink(idx, keep) ==
  Cleared(idx, keep) \o (IF keep > 0 THEN FatWrite(idx[keep], EOC) ELSE <<>>)

(* The free count once n clusters have been given back: the code subtracts *)
(* a negative number from an unsigned counter.                             *)
ReturnedSubtracting(n) == freeCount - n   \* mutant
Returned(n) == freeCount + n

Clusters(size) == (size + ClusterSize - 1) \div ClusterSize

(* The first cluster as deleting, rewriting and appending put it together  *)
(* from its halves, (hi >> 16) | lo: the high half is shifted away.        *)
firstFileCluster(f) == dirent[f].first % HalfWord

-----------------------------------------------------------------------------
(* The disk as read_BPB finds it: foreign clusters in chains of their own, *)
(* the media entries 0 and 1 in place, no files.                           *)
Init ==
  /\ fat1 = [p \in Places |-> IF \E c \in {0, 1} \cup Foreign : p = Place(c) THEN EOC ELSE 0]
  /\ fat2 = fat1
  /\ fsinfo = InitFree
  /\ freeCount = fsinfo
  /\ dirent = [f \in Names |-> NoEntry]
  /\ todo = <<>> /\ target \in Names
  /\ wild = FALSE /\ leaked = {} /\ crashes = 0 /\ reused = FALSE

(* An operation of the shell starts when the one before has returned.      *)
(* bound: nothing is run once an operation has gone wild.                  *)
Idle == todo = <<>> /\ ~wild /\ (crashes = 0 \/ UseAfterCrash)

Start(f, writes, count) ==
  /\ todo' = writes
  /\ freeCount' = count
  /\ target' = f
  /\ reused' = (crashes > 0)
  /\ UNCHANGED <<disk, crashes>>

(* create_file_by_dir_cluster, as far as it concerns this module: an entry *)
(* without clusters.                                                       *)
CreateFile(f) ==
  /\ Idle /\ ~dirent[f].live
  /\ Start(f, DirentWrite(f, [NoEntry EXCEPT !.live = TRUE]), freeCount)
  /\ UNCHANGED <<wild, leaked>>

(* create_dir_by_parent_cluster: the free count, the FAT, then the entry.  *)
(* Nothing checks that a cluster was found.                                *)
CreateDir(f) ==
  LET empty == Empty({})
      made(c) == [live |-> TRUE, dir |-> TRUE, first |-> c, size |-> 0]
  IN /\ Idle /\ ~dirent[f].live
     /\ IF empty # <<>>
        THEN /\ Start(f, FSInfoWrite(freeCount - 1)
                           \o FatWrite(Head(empty), EOC)
                           \o DirentWrite(f, made(Head(empty))),
                      freeCount - 1)
             /\ UNCHANGED wild
        ELSE /\ Start(f, FSInfoWrite(freeCount - 1) \o DirentWrite(f, made(EOC)),
                      freeCount - 1)
             /\ wild' = TRUE  \* the FAT write goes to entry 0xFFFFFFFF
     /\ UNCHANGED leaked

-----------------------------------------------------------------------------
(* rewrite_file_by_dir_cluster and append_to_file_by_dir_cluster give the  *)
(* file the clusters its new size needs, then write the entry.             *)

(* A file that has clusters grows by n of them, n possibly 0.              *)
Extend(f, n, new) ==
  LET chain == Chain(firstFileCluster(f))
      found == Empty({})
  IN /\ Returns(firstFileCluster(f))
     /\ UNCHANGED leaked
     /\ \/ /\ n = 0
           /\ Start(f, FSInfoWrite(freeCount) \o DirentWrite(f, new), freeCount)
           /\ UNCHANGED wild
        \/ /\ n > 0 /\ freeCount < n       \* "Not enough Space"
           /\ Start(f, <<>>, freeCount)
           /\ UNCHANGED wild
        \/ /\ n > 0 /\ freeCount >= n
           /\ \E junk \in IF Len(found) < n THEN Garbage ELSE {0} :
                Start(f, Link(Last(chain), Filled(found, n, junk))
                           \o FSInfoWrite(freeCount - n)
                           \o FSInfoWrite(freeCount - n)
                           \o DirentWrite(f, new),
                      freeCount - n)
           /\ wild' = (Len(found) < n)

(* A file without clusters gets a first one, which is marked in the FAT    *)
(* before the free count is consulted for the n - 1 others and is not      *)
(* given back when they cannot be had.                                     *)
Begin(f, n, new) ==
  LET empty == Empty({})
      first == Head(empty)
      rest  == Empty({first})
      entry == [new EXCEPT !.first = first]
  IN \/ /\ empty = <<>>                   \* "Not enough Space"
        /\ Start(f, <<>>, freeCount)
        /\ wild' = TRUE  \* the FAT write goes to entry 0xFFFFFFFF
        /\ UNCHANGED leaked
     \/ /\ empty # <<>> /\ n = 1
        /\ Start(f, FatWrite(first, EOC) \o FSInfoWrite(freeCount - 1)
                      \o DirentWrite(f, entry),
                 freeCount - 1)
        /\ UNCHANGED <<wild, leaked>>
     \/ /\ empty # <<>> /\ n > 1 /\ freeCount < n - 1   \* "Not enough Space"
        /\ Start(f, FatWrite(first, EOC), freeCount)
        /\ leaked' = leaked \cup {first}
        /\ UNCHANGED wild
     \/ /\ empty # <<>> /\ n > 1 /\ freeCount >= n - 1
        /\ \E junk \in IF Len(rest) < n - 1 THEN Garbage ELSE {0} :
             Start(f, FatWrite(first, EOC)
                        \o Link(first, Filled(rest, n - 1, junk))
                        \o FSInfoWrite(freeCount - (n - 1))
                        \o FSInfoWrite(freeCount - n)
                        \o DirentWrite(f, entry),
                   freeCount - n)
        /\ wild' = (Len(rest) < n - 1)
        /\ UNCHANGED leaked

(* A file that needs fewer clusters gives the last ones back.  Its chain   *)
(* is taken to be as long as its size says.                                *)
Shrink(f, new) ==
  LET chain == Chain(firstFileCluster(f))
      had   == Clusters(dirent[f].size)
      keep  == Clusters(new.size)
  IN /\ Returns(firstFileCluster(f))
     /\ \E junk \in IF Len(chain) < had THEN Garbage ELSE {0} :
          Start(f, Unlink(Filled(chain, had, junk), keep)
                     \o FSInfoWrite(Returned(had - keep))
                     \o DirentWrite(f, new),
                Returned(had - keep))
     /\ wild' = (Len(chain) < had)
     /\ UNCHANGED leaked

WriteFile(f, size) ==
  LET new == [dirent[f] EXCEPT !.size = size]
      n   == Clusters(size) - Clusters(dirent[f].size)
  IN /\ Idle /\ dirent[f].live
     /\ ~dirent[f].dir  \* bound: output is redirected to files only
     /\ size <= MaxSize
     /\ \/ n > 0 /\ firstFileCluster(f) = 0 /\ Begin(f, n, new)
        \/ n >= 0 /\ ~(n > 0 /\ firstFileCluster(f) = 0) /\ Extend(f, n, new)
        \/ n < 0 /\ Shrink(f, new)

RewriteFile(f, size) == WriteFile(f, size)
AppendFile(f, size) == WriteFile(f, dirent[f].size + size)

-----------------------------------------------------------------------------
(* Freeing all of a chain; a first cluster of 0 means there is none.       *)
FreeAllKeepingFirst(first) ==   \* mutant
  IF first = 0 THEN <<>>
  ELSE Unlink(Chain(first), 1) \o FSInfoWrite(Returned(Len(Chain(first))))
FreeAll(first) ==
  IF first = 0 THEN <<>>
  ELSE Unlink(Chain(first), 0) \o FSInfoWrite(Returned(Len(Chain(first))))

CountAfterUnchanged(first) == freeCount   \* mutant
CountAfter(first) == IF first = 0 THEN freeCount ELSE Returned(Len(Chain(first)))

(* delete_file_by_dir_cluster: the chain, then the entry.                  *)
DeleteFile(f) ==
  LET first == firstFileCluster(f)
  IN /\ Idle /\ dirent[f].live /\ Returns(first)
     /\ Start(f, FreeAll(first) \o DirentWrite(f, NoEntry), CountAfter(first))
     /\ UNCHANGED <<wild, leaked>>

(* delete_dir_by_parent_cluster, of an empty directory: the entry, then    *)
(* the chain.                                                              *)
DeleteDir(f) ==
  LET first == firstFileCluster(f)
  IN /\ Idle /\ dirent[f].live /\ dirent[f].dir /\ Returns(first)
     /\ Start(f, DirentWrite(f, NoEntry) \o FreeAll(first), CountAfter(first))
     /\ UNCHANGED <<wild, leaked>>

-----------------------------------------------------------------------------
(* The next write reaches the disk.                                        *)
DiskWrite ==
  LET w == Head(todo)
  IN /\ todo # <<>>
     /\ fat1' = Effect(fat1, "fat1", w)
     /\ fat2' = Effect(fat2, "fat2", w)
     /\ fsinfo' = IF w.dst = "fsinfo" THEN w.val ELSE fsinfo
     /\ dirent' = IF w.dst = "dirent" THEN [dirent EXCEPT ![w.key] = w.val] ELSE dirent
     /\ todo' = Tail(todo)
     /\ UNCHANGED <<freeCount, target, wild, leaked, crashes, reused>>

(* The machine stops and is started again: the writes not issued are lost, *)
(* and read_BPB reads the free count from the disk.                        *)
Crash ==
  /\ crashes < MaxCrashes
  /\ crashes' = crashes + 1
  /\ todo' = <<>>
  /\ freeCount' = fsinfo
  /\ UNCHANGED <<disk, target, wild, leaked, reused>>

Next ==
  \/ \E f \in Names : \/ CreateFile(f) \/ CreateDir(f)
                      \/ DeleteFile(f) \/ DeleteDir(f)
                      \/ \E size \in Sizes : RewriteFile(f, size) \/ AppendFile(f, size)
  \/ DiskWrite
  \/ Crash

Spec == Init /\ [][Next]_vars

-----------------------------------------------------------------------------
TypeOK ==
  /\ fat1 \in [Places -> Entries \cup {EOC}]
  /\ fat2 \in [Places -> Entries \cup {EOC}]
  /\ fsinfo \in Int /\ freeCount \in Int
  /\ ~wild /\ ~reused => fsinfo \in Nat /\ freeCount \in Nat
  /\ dirent \in [Names -> [live : BOOLEAN, dir : BOOLEAN,
                           first : Entries \cup {EOC}, size : 0..MaxSize]]
  /\ target \in Names /\ wild \in BOOLEAN /\ leaked \subseteq Entries
  /\ crashes \in 0..MaxCrashes /\ reused \in BOOLEAN

(* The second copy of the FAT trails the first by the entry being written, *)
(* and by one more entry for each time the machine stopped in between.     *)
Differing == {p \in Places : fat1[p] # fat2[p]}
MirrorLag ==
  LET inFlight == IF todo # <<>> /\ todo[1].dst = "fat2" THEN 1 ELSE 0
  IN Cardinality(Differing) <= crashes + inFlight

(* What the driver keeps true between two operations, as long as the       *)
(* machine has not stopped in the middle of one.                           *)
Settled == Idle /\ crashes = 0
Owned(f) == IF dirent[f].live /\ dirent[f].first # 0
            THEN {Chain(dirent[f].first)[i] : i \in 1..Len(Chain(dirent[f].first))}
            ELSE {}

Intact(f) ==
  dirent[f].live =>
    /\ Returns(dirent[f].first)
    /\ Cardinality(Owned(f)) =
         IF dirent[f].dir THEN 1 ELSE Clusters(dirent[f].size)

(* No cluster belongs to two files, or to a file and to what was on the    *)
(* disk before.                                                            *)
NoCrossLink ==
  Settled => \A f \in Names : /\ Owned(f) \cap (Foreign \cup leaked \cup {0, 1}) = {}
                              /\ \A g \in Names \ {f} : Owned(f) \cap Owned(g) = {}

(* A file's chain comes to an end and has exactly the clusters its size    *)
(* needs: read, append and delete take the one from the other.             *)
ChainMatchesSize == Settled => \A f \in Names : Intact(f)

(* A cluster is marked in the FAT if and only if something owns it: no     *)
(* space is lost but the clusters of failed writes, and no owner's cluster *)
(* is up for allocation.  Said of the clusters whose entries lie in the    *)
(* first sector; those of the others are looked for at the same places.    *)
NothingLost ==
  Settled => {c \in 2..MaxCluster : c < PerSector /\ fatEntry(c) # 0} =
               Foreign \cup leaked \cup UNION {Owned(f) : f \in Names}

(* The free count follows the allocations exactly, in memory and on disk,  *)
(* apart from the clusters failed writes have taken without counting.      *)
FreeCountTracks ==
  Settled => /\ freeCount = InitFree - Cardinality(UNION {Owned(f) : f \in Names})
             /\ fsinfo = freeCount

(* At no instant, in the middle of an operation or after the machine has   *)
(* stopped there, is a file other than the one operated on damaged.        *)
OthersIntact ==
  ~wild /\ ~reused =>
    \A f \in Names \ {target} :
      /\ Intact(f)
      /\ Owned(f) \cap (Foreign \cup leaked \cup {0, 1}) = {}
      /\ \A g \in Names \ {target, f} : Owned(f) \cap Owned(g) = {}
=============================================================================
