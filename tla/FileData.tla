------------------------------ MODULE FileData ------------------------------
(***************************************************************************)
(* The contents of files (src/src/filesystem/fat.c): how a text is laid    *)
(* out over the sectors of a cluster chain when a file is rewritten or     *)
(* appended to, and which sectors reading it visits.                       *)
(*                                                                         *)
(* The chains are given: a file of k clusters has the first k of           *)
(* layout[file], as FatChain's ChainMatchesSize says, next to each other   *)
(* or not.  A sector is a sequence of SectorSize bytes; a byte is the name *)
(* of the text it comes from with its place there, so that no two texts    *)
(* share one.                                                              *)
(***************************************************************************)
EXTENDS Integers, Sequences, SequencesExt, Volume

CONSTANTS
  Files,
  Layouts,          \* functions: file -> the clusters it gets, in order
  SectorSize,       \* 512, scaled
  Texts,            \* names of the texts clients write
  Lengths,          \* how long they are
  MaxSize           \* bound: no file grows beyond it

ClusterSize == SectorPerCluster * SectorSize
Clusters(size) == (size + ClusterSize - 1) \div ClusterSize

ASSUME FileDataAssumption ==
  /\ SectorSize \in Nat \ {0}
  /\ Lengths \subseteq Nat \ {0} /\ MaxSize \in Nat
  /\ \A l \in Layouts, f \in Files : /\ l[f] \in Seq(Nat \ {0, 1})
                                     /\ Len(l[f]) = Clusters(MaxSize)

VARIABLES
  layout, \* where the files' clusters are
  sector, \* data sector -> its bytes
  size,   \* file -> dirent.size
  text,   \* history: file -> what has been written to it
  spilled \* history: files a sector of which was written in the wrong place or overwritten

vars == <<layout, sector, size, text, spilled>>

NoByte == <<"zero", 0>>
Text(t, n) == [i \in 1..n |-> <<t, i>>]

(* The clusters of a file of a given size.                                 *)
Chain(f, n) == SubSeq(layout[f], 1, Clusters(n))

(* Sector number off of a cluster; off may run past the cluster's end.     *)
SectorOf(cluster, off) == SectorPerCluster * (cluster - 2) + off

(* The sectors of all clusters, and one beyond each.                       *)
DataSectors == {SectorOf(l[f][i], off) : l \in Layouts, f \in Files,
                                         i \in 1..Clusters(MaxSize), off \in 0..SectorPerCluster}
OwnSectors(f, n) == {SectorOf(Chain(f, n)[i], off) :
                       i \in 1..Clusters(n), off \in 0..(SectorPerCluster - 1)}

-----------------------------------------------------------------------------
(* Number of the sectors a text of n bytes takes, and the bytes in the     *)
(* k-th of them.                                                           *)
SectorsOf(n) == (n + SectorSize - 1) \div SectorSize
ChunkUnpadded(s, k) ==   \* mutant
  LET from == (k - 1) * SectorSize
      till == from + SectorSize
  IN SubSeq(s, from + 1, IF till <= Len(s) THEN till ELSE Len(s))
Chunk(s, k) ==
  LET from == (k - 1) * SectorSize
  IN [i \in 1..SectorSize |-> IF from + i <= Len(s) THEN s[from + i] ELSE NoByte]

(* Where the write loops put the k-th sector: they leave a cluster when    *)
(* ++sectorOffset exceeds sectorPerCluster, one sector after its last.     *)
PerClusterWritten == SectorPerCluster + 1
SectorWrittenShifted(chain, k) ==   \* mutant: sectors counted from 1
  SectorOf(chain[((k - 1) \div PerClusterWritten) + 1], k % PerClusterWritten)
SectorWritten(chain, k) ==
  SectorOf(chain[((k - 1) \div PerClusterWritten) + 1], (k - 1) % PerClusterWritten)

(* The sectors a loop over the chain gets to.                              *)
Reached(chain, n) ==
  {k \in 1..SectorsOf(n) : ((k - 1) \div PerClusterWritten) + 1 <= Len(chain)}

(* The disk after the sectors ks of the chain have been written in order,  *)
(* the k-th with new[k]: where two fall on the same sector, the later one  *)
(* stays.                                                                  *)
Written(chain, ks, new) ==
  [s \in DOMAIN sector |->
     LET here == {k \in ks : SectorWritten(chain, k) = s}
     IN IF here = {} THEN sector[s]
        ELSE new[CHOOSE k \in here : \A j \in here : j <= k]]

(* What read_file_by_cluster prints: a cluster's loop reads one sector     *)
(* more than it prints before it goes on to the next cluster.              *)
SectorRead(chain, k) ==
  SectorOf(chain[((k - 1) \div SectorPerCluster) + 1], (k - 1) % SectorPerCluster)

(* The files that do not read back after the sectors ks of f have been     *)
(* written: f, if one of its n bytes is not where reading looks for it,    *)
(* and those whose clusters f's last sector runs into.                     *)
Spills(f, n, ks) ==
  LET chain == Chain(f, n)
      stray == {SectorWritten(chain, k) : k \in ks} \ OwnSectors(f, n)
  IN {g \in Files : IF g = f
                    THEN \E k \in 1..SectorsOf(n) : \/ k \notin Reached(chain, n)
                                                    \/ SectorWritten(chain, k) # SectorRead(chain, k)
                    ELSE OwnSectors(g, size[g]) \cap stray # {}}

-----------------------------------------------------------------------------
(* rewrite_file_by_dir_cluster, the data *)
RewriteFile(f, t, n) ==
  LET chain == Chain(f, n)
      ks == Reached(chain, n)
  IN /\ n <= MaxSize
     /\ sector' = Written(chain, ks, [k \in ks |-> Chunk(Text(t, n), k)])
     /\ size' = [size EXCEPT ![f] = n]
     /\ text' = [text EXCEPT ![f] = Text(t, n)]
     /\ spilled' = (spilled \ {f}) \cup Spills(f, n, ks)
     /\ UNCHANGED layout

(* The k-th sector when n bytes of data are appended to a file of old      *)
(* bytes: the bytes the file has there already are kept, and the data      *)
(* moves up by as much as has been written.                                *)
MergedOverwriting(chain, k, old, data) ==   \* mutant: nothing is kept
  LET at == (k - 1) * SectorSize
  IN [i \in 1..SectorSize |->
        IF at + i - old \in DOMAIN data THEN data[at + i - old] ELSE NoByte]
Merged(chain, k, old, data) ==
  LET at == (k - 1) * SectorSize
      keep == old - at
  IN [i \in 1..SectorSize |->
        IF i <= keep THEN sector[SectorWritten(chain, k)][i]
        ELSE IF at + i - old \in DOMAIN data THEN data[at + i - old]
        ELSE NoByte]

(* append_to_file_by_dir_cluster, the data: only the sectors that hold     *)
(* some of it are written.                                                 *)
AppendFile(f, t, n) ==
  LET old == size[f]
      chain == Chain(f, old + n)
      ks == {k \in Reached(chain, old + n) : k * SectorSize > old}
  IN /\ old + n <= MaxSize
     /\ sector' = Written(chain, ks, [k \in ks |-> Merged(chain, k, old, Text(t, n))])
     /\ size' = [size EXCEPT ![f] = old + n]
     /\ text' = [text EXCEPT ![f] = text[f] \o Text(t, n)]
     /\ spilled' = spilled \cup Spills(f, old + n, ks)
     /\ UNCHANGED layout

(* Which sector of its file the b-th byte is in, and its place there.      *)
SectorNumber(b) == ((b - 1) \div SectorSize) + 1
PlaceInSector(b) == ((b - 1) % SectorSize) + 1

ReadFile(f) ==
  [b \in 1..size[f] |->
     sector[SectorRead(Chain(f, size[f]), SectorNumber(b))][PlaceInSector(b)]]

-----------------------------------------------------------------------------
Init ==
  /\ layout \in Layouts
  /\ sector = [s \in DataSectors |-> [i \in 1..SectorSize |-> NoByte]]
  /\ size = [f \in Files |-> 0]
  /\ text = [f \in Files |-> <<>>] /\ spilled = {}

Next == \E f \in Files, t \in Texts, n \in Lengths :
          RewriteFile(f, t, n) \/ AppendFile(f, t, n)

Spec == Init /\ [][Next]_vars

-----------------------------------------------------------------------------
Byte == {NoByte} \cup (Texts \X (1..MaxSize))
TypeOK ==
  /\ layout \in Layouts
  /\ sector \in [DataSectors -> [1..SectorSize -> Byte]]
  /\ size \in [Files -> 0..MaxSize] /\ spilled \subseteq Files

(* Reading a file gives what was written to it, whatever was written to    *)
(* other files before and since, until the write loop has put one of its   *)
(* sectors in the wrong place or a sector of another file over one of its. *)
ReadsBack == \A f \in Files \ spilled : ReadFile(f) = text[f]

(* Writing a file changes no sector outside of its clusters, but for the   *)
(* one behind a cluster that spills.                                       *)
StaysInChain ==
  [][\A s \in DataSectors : sector'[s] # sector[s] =>
       \E f \in Files :
         /\ \A g \in Files \ {f} : text'[g] = text[g]
         /\ \/ s \in OwnSectors(f, size'[f])
            \/ /\ size'[f] > ClusterSize
               /\ s \in {SectorOf(c, SectorPerCluster) : c \in ToSet(Chain(f, size'[f]))}]_vars
=============================================================================
