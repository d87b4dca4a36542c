--------------------------- MODULE ClusterProofs ---------------------------
(***************************************************************************)
(* The proofs about what the sectors of clusters hold: the contents of     *)
(* files and the slots of directories.                                     *)
(*                                                                         *)
(* Writing a file changes no sector outside of its clusters but the ones   *)
(* behind them, for every layout of the chains; and where no two files     *)
(* share a cluster, which is what FatChain's NoCrossLink says of the FAT,  *)
(* a file reads back what was written to it until a write loop has spilled *)
(* over it: for every size of sectors and clusters, and any number of      *)
(* files, texts and writes.                                                *)
(*                                                                         *)
(* A directory in which all entries take the same number of slots, and fit *)
(* a sector without a rest, finds what was created and not deleted, and    *)
(* gives back every slot, over every order of creating and deleting.       *)
(***************************************************************************)
EXTENDS FileData, FatDir, FiniteSetTheorems, SequenceTheorems, WellFoundedInduction, TLAPS

(* No cluster has two places in the chains.                                *)
ClustersApart ==
  \A l \in Layouts, f, g \in Files : \A i, j \in 1..Clusters(MaxSize) :
    l[f][i] = l[g][j] => f = g /\ i = j

-----------------------------------------------------------------------------
(* Arithmetic: products, quotients and remainders.                         *)
LEMMA Products ==
  ASSUME NEW d \in Nat \ {0}, NEW m \in Int, NEW n \in Int
  PROVE  /\ m <= n => d * m <= d * n
         /\ m < n => d * m + d <= d * n
         /\ d * m < d * n => m < n
  <1>1. ASSUME NEW x \in Int, NEW y \in Int, x < y
        PROVE  d * x + d <= d * y
    <2> DEFINE z == y - x - 1
    <2>1. z \in Nat /\ y = x + 1 + z
          BY <1>1
    <2>2. d * y = d * x + d + d * z
          BY <2>1
    <2>3. d * z \in Nat
          BY <2>1
    <2>4. d * x \in Int
          OBVIOUS
    <2> HIDE DEF z
    <2> QED BY <2>2, <2>3, <2>4
  <1>2. m < n => d * m + d <= d * n
        BY <1>1
  <1>3. n < m => d * n + d <= d * m
        BY <1>1
  <1>4. d * m \in Int /\ d * n \in Int
        OBVIOUS
  <1>5. m = n => d * m = d * n
        OBVIOUS
  <1> QED BY <1>2, <1>3, <1>4, <1>5

LEMMA DivMod ==
  ASSUME NEW a \in Nat, NEW d \in Nat \ {0}
  PROVE  /\ a \div d \in Nat
         /\ a % d \in 0..d - 1
         /\ d * (a \div d) + (a % d) = a
  BY Z3

LEMMA DivLess ==
  ASSUME NEW a \in Nat, NEW d \in Nat \ {0}, NEW q \in Nat, a < d * q
  PROVE  a \div d < q
  <1> DEFINE p == a \div d
             r == a % d
  <1>1. p \in Nat /\ r \in 0..d - 1 /\ d * p + r = a
        BY DivMod
  <1> HIDE DEF p, r
  <1>2. d * p \in Nat /\ d * q \in Nat
        BY <1>1
  <1>3. d * p < d * q
        BY <1>1, <1>2
  <1>4. p < q
        BY <1>1, <1>3, Products
  <1> QED BY <1>4 DEF p

(* How many pieces of d hold n.                                            *)
LEMMA Ceiling ==
  ASSUME NEW n \in Nat, NEW d \in Nat \ {0}
  PROVE  /\ (n + d - 1) \div d \in Nat
         /\ n <= d * ((n + d - 1) \div d)
         /\ d * ((n + d - 1) \div d) < n + d
  <1> DEFINE a == n + d - 1
             q == a \div d
             r == a % d
  <1>1. a \in Nat
        OBVIOUS
  <1>2. q \in Nat /\ r \in 0..d - 1 /\ d * q + r = a
    <2> HIDE DEF a
    <2> QED BY <1>1, DivMod
  <1> HIDE DEF q, r
  <1>3. d * q \in Nat
        BY <1>2
  <1>4. n <= d * q /\ d * q < n + d
        BY <1>2, <1>3
  <1> QED BY <1>2, <1>4 DEF q

-----------------------------------------------------------------------------
(* Sectors and clusters of a file of n bytes.                              *)
LEMMA ClusterSizePositive == ClusterSize \in Nat \ {0}
  <1>1. SectorPerCluster \in Nat \ {0} /\ SectorSize \in Nat \ {0}
        BY FileDataAssumption, VolumeAssumption
  <1>2. SectorPerCluster * SectorSize \in Nat
        BY <1>1
  <1>3. SectorPerCluster * SectorSize >= SectorPerCluster * 1
        BY <1>1, Products
  <1> QED BY <1>1, <1>2, <1>3 DEF ClusterSize

LEMMA ClustersOf ==
  ASSUME NEW n \in Nat
  PROVE  /\ Clusters(n) \in Nat
         /\ n <= ClusterSize * Clusters(n)
         /\ ClusterSize * Clusters(n) < n + ClusterSize
  BY ClusterSizePositive, Ceiling DEF Clusters

LEMMA ClustersMonotone ==
  ASSUME NEW m \in Nat, NEW n \in Nat, m <= n
  PROVE  Clusters(m) <= Clusters(n)
  <1> DEFINE a == Clusters(m)
             b == Clusters(n)
             d == ClusterSize
  <1>1. d \in Nat \ {0}
        BY ClusterSizePositive
  <1>2. a \in Nat /\ b \in Nat /\ d * a < m + d /\ n <= d * b
        BY ClustersOf
  <1> HIDE DEF a, b, d
  <1>3. d * a \in Nat /\ d * b \in Nat /\ d * (b + 1) = d * b + d
        BY <1>1, <1>2
  <1>4. d * a < d * (b + 1)
        BY <1>1, <1>2, <1>3
  <1>5. a < b + 1
        BY <1>1, <1>2, <1>4, Products
  <1> QED BY <1>2, <1>5 DEF a, b

LEMMA SectorsOfFile ==
  ASSUME NEW n \in Nat
  PROVE  /\ SectorsOf(n) \in Nat
         /\ n <= SectorSize * SectorsOf(n)
         /\ SectorSize * SectorsOf(n) < n + SectorSize
  BY FileDataAssumption, Ceiling DEF SectorsOf

(* The k-th sector of n bytes is in one of their clusters.                 *)
LEMMA SectorInChain ==
  ASSUME NEW n \in Nat, NEW k \in 1..SectorsOf(n)
  PROVE  /\ ((k - 1) \div SectorPerCluster) + 1 \in 1..Clusters(n)
         /\ (k - 1) % SectorPerCluster \in 0..SectorPerCluster - 1
  <1> DEFINE m == SectorsOf(n)
             q == Clusters(n)
             C == SectorPerCluster
             S == SectorSize
  <1>1. C \in Nat \ {0} /\ S \in Nat \ {0}
        BY FileDataAssumption, VolumeAssumption
  <1>2. m \in Nat /\ S * m < n + S
        BY SectorsOfFile
  <1>3. q \in Nat /\ n <= (C * S) * q
        BY ClustersOf DEF ClusterSize
  <1>4. k \in 1..m
        OBVIOUS
  <1> HIDE DEF m, q, C, S
  <1>5. C * q \in Nat /\ (C * S) * q = S * (C * q)
        BY <1>1, <1>3
  <1> DEFINE p == C * q
  <1>6. p \in Nat /\ n <= S * p
        BY <1>3, <1>5
  <1>7. k - 1 < p
    <2> HIDE DEF p
    <2>1. S * m \in Nat /\ S * p \in Nat /\ S * (p + 1) = S * p + S
          BY <1>1, <1>2, <1>6
    <2>2. S * m < S * (p + 1)
          BY <1>1, <1>2, <1>6, <2>1
    <2>3. m < p + 1
          BY <1>1, <1>2, <1>6, <2>2, Products
    <2> QED BY <1>2, <1>4, <1>6, <2>3
  <1>8. k - 1 \in Nat
        BY <1>2, <1>4
  <1>9. (k - 1) \div C < q
        BY <1>1, <1>3, <1>7, <1>8, DivLess
  <1>10. (k - 1) \div C \in Nat /\ (k - 1) % C \in 0..C - 1
         BY <1>1, <1>8, DivMod
  <1> QED
    <2> DEFINE x == (k - 1) \div C
    <2>1. x \in Nat /\ x < q
          BY <1>9, <1>10
    <2> HIDE DEF x
    <2>2. x + 1 \in 1..q
          BY <2>1, <1>3
    <2> QED BY <2>2, <1>10 DEF x, C, q

(* The b-th of n bytes is in one of their sectors, at its place there.     *)
LEMMA ByteInSector ==
  ASSUME NEW n \in Nat, NEW b \in 1..n
  PROVE  /\ SectorNumber(b) \in 1..SectorsOf(n)
         /\ PlaceInSector(b) \in 1..SectorSize
         /\ (SectorNumber(b) - 1) * SectorSize + PlaceInSector(b) = b
         /\ SectorNumber(b) * SectorSize >= b
  <1> DEFINE S == SectorSize
             m == SectorsOf(n)
             a == b - 1
             q == a \div S
             r == a % S
  <1>1. S \in Nat \ {0}
        BY FileDataAssumption
  <1>2. m \in Nat /\ n <= S * m
        BY SectorsOfFile
  <1>3. a \in Nat /\ a < n /\ b = a + 1
        OBVIOUS
  <1> HIDE DEF m, S, a
  <1>4. a < S * m
    <2>1. S * m \in Nat
          BY <1>1, <1>2
    <2> QED BY <1>2, <1>3, <2>1
  <1>5. q < m
        BY <1>1, <1>2, <1>3, <1>4, DivLess
  <1>6. q \in Nat /\ r \in 0..S - 1 /\ S * q + r = a
        BY <1>1, <1>3, DivMod
  <1> HIDE DEF q, r
  <1>7. /\ q + 1 \in 1..m /\ r + 1 \in 1..S
        BY <1>1, <1>2, <1>5, <1>6
  <1>8. S * q \in Nat /\ ((q + 1) - 1) * S = S * q /\ (q + 1) * S = S * q + S
        BY <1>1, <1>6
  <1>9. ((q + 1) - 1) * S + (r + 1) = b /\ (q + 1) * S >= b
        BY <1>1, <1>3, <1>6, <1>8
  <1> QED BY <1>7, <1>9 DEF q, r, a, S, m, SectorNumber, PlaceInSector

-----------------------------------------------------------------------------
(* Two sectors of clusters differ where cluster or offset does.            *)
LEMMA SectorOfInjective ==
  ASSUME NEW c \in Int, NEW e \in Int,
         NEW o \in 0..SectorPerCluster - 1, NEW p \in 0..SectorPerCluster - 1,
         SectorOf(c, o) = SectorOf(e, p)
  PROVE  c = e /\ o = p
  <1> DEFINE C == SectorPerCluster
             x == c - 2
             y == e - 2
  <1>1. C \in Nat \ {0}
        BY FileDataAssumption, VolumeAssumption
  <1>2. C * x + o = C * y + p
        BY DEF SectorOf
  <1>3. x \in Int /\ y \in Int /\ (x = y => c = e)
        OBVIOUS
  <1>4. o \in 0..C - 1 /\ p \in 0..C - 1
        OBVIOUS
  <1> HIDE DEF C, x, y
  <1>5. C * x \in Int /\ C * y \in Int
        BY <1>1, <1>3
  <1>6. (x < y => C * x + C <= C * y) /\ (y < x => C * y + C <= C * x)
        BY <1>1, <1>3, Products
  <1>7. ~(x < y) /\ ~(y < x)
        BY <1>1, <1>2, <1>4, <1>5, <1>6
  <1>8. x = y
        BY <1>3, <1>7
  <1> QED BY <1>2, <1>3, <1>4, <1>5, <1>8

-----------------------------------------------------------------------------
(* The chain of a file is the beginning of its clusters.                   *)
LEMMA ChainOf ==
  ASSUME layout \in Layouts, NEW f \in Files, NEW n \in 0..MaxSize
  PROVE  /\ Clusters(n) \in Nat
         /\ Clusters(n) <= Clusters(MaxSize)
         /\ Len(Chain(f, n)) = Clusters(n)
         /\ \A i \in 1..Clusters(n) : /\ i \in 1..Clusters(MaxSize)
                                      /\ Chain(f, n)[i] = layout[f][i]
                                      /\ layout[f][i] \in Nat
  <1> DEFINE q == Clusters(n)
             m == Clusters(MaxSize)
             s == layout[f]
  <1>1. MaxSize \in Nat /\ n \in Nat /\ n <= MaxSize
        BY FileDataAssumption
  <1>2. q \in Nat /\ m \in Nat /\ q <= m
        BY <1>1, ClustersOf, ClustersMonotone
  <1>3. s \in Seq(Nat \ {0, 1}) /\ Len(s) = m
        BY FileDataAssumption
  <1> HIDE DEF q, m, s
  <1>4. Len(SubSeq(s, 1, q)) = q /\ \A i \in 1..q : SubSeq(s, 1, q)[i] = s[i] /\ i \in 1..m
        BY <1>2, <1>3
  <1>5. \A i \in 1..q : s[i] \in Nat
        BY <1>2, <1>3
  <1> QED BY <1>2, <1>4, <1>5 DEF q, m, s, Chain

(* Where a read looks for the k-th sector.                                 *)
ReadCluster(k) == ((k - 1) \div SectorPerCluster) + 1
ReadOffset(k) == (k - 1) % SectorPerCluster

LEMMA ReadAt ==
  ASSUME layout \in Layouts, NEW f \in Files, NEW n \in 0..MaxSize,
         NEW k \in 1..SectorsOf(n)
  PROVE  /\ ReadCluster(k) \in 1..Clusters(n)
         /\ ReadCluster(k) \in 1..Clusters(MaxSize)
         /\ ReadOffset(k) \in 0..SectorPerCluster - 1
         /\ layout[f][ReadCluster(k)] \in Nat
         /\ SectorRead(layout[f], k) = SectorOf(layout[f][ReadCluster(k)], ReadOffset(k))
         /\ SectorRead(Chain(f, n), k) = SectorRead(layout[f], k)
         /\ SectorRead(layout[f], k) \in OwnSectors(f, n)
         /\ SectorRead(layout[f], k) \in DataSectors
  <1>1. n \in Nat /\ SectorPerCluster \in Nat \ {0}
        BY FileDataAssumption, VolumeAssumption
  <1>2. ReadCluster(k) \in 1..Clusters(n) /\ ReadOffset(k) \in 0..SectorPerCluster - 1
        BY <1>1, SectorInChain DEF ReadCluster, ReadOffset
  <1>3. /\ ReadCluster(k) \in 1..Clusters(MaxSize)
        /\ Chain(f, n)[ReadCluster(k)] = layout[f][ReadCluster(k)]
        /\ layout[f][ReadCluster(k)] \in Nat
        BY <1>2, ChainOf
  <1>4. /\ SectorRead(layout[f], k) = SectorOf(layout[f][ReadCluster(k)], ReadOffset(k))
        /\ SectorRead(Chain(f, n), k) = SectorOf(Chain(f, n)[ReadCluster(k)], ReadOffset(k))
        BY DEF SectorRead, ReadCluster, ReadOffset
  <1>5. SectorRead(layout[f], k) \in OwnSectors(f, n)
        BY <1>2, <1>3, <1>4 DEF OwnSectors
  <1>6. ReadOffset(k) \in 0..SectorPerCluster
        BY <1>1, <1>2
  <1>7. SectorRead(layout[f], k) \in DataSectors
        BY <1>3, <1>4, <1>6 DEF DataSectors
  <1> QED BY <1>2, <1>3, <1>4, <1>5, <1>7

(* Reading finds no two sectors of a file in the same place.               *)
LEMMA ReadInjective ==
  ASSUME ClustersApart, layout \in Layouts, NEW f \in Files, NEW n \in 0..MaxSize,
         NEW j \in 1..SectorsOf(n), NEW k \in 1..SectorsOf(n),
         SectorRead(layout[f], j) = SectorRead(layout[f], k)
  PROVE  j = k
  <1>1. layout[f][ReadCluster(j)] = layout[f][ReadCluster(k)] /\ ReadOffset(j) = ReadOffset(k)
    <2> DEFINE c == layout[f][ReadCluster(j)]
               e == layout[f][ReadCluster(k)]
               o == ReadOffset(j)
               p == ReadOffset(k)
    <2>1. /\ c \in Nat /\ o \in 0..SectorPerCluster - 1
          /\ SectorRead(layout[f], j) = SectorOf(c, o)
          BY ReadAt
    <2>2. /\ e \in Nat /\ p \in 0..SectorPerCluster - 1
          /\ SectorRead(layout[f], k) = SectorOf(e, p)
          BY ReadAt
    <2> HIDE DEF c, e, o, p
    <2>3. c \in Int /\ e \in Int /\ SectorOf(c, o) = SectorOf(e, p)
      <3>1. c \in Int /\ e \in Int
            BY <2>1, <2>2
      <3>2. SectorOf(c, o) = SectorOf(e, p)
            BY <2>1, <2>2, Zenon
      <3> QED BY <3>1, <3>2
    <2>4. c = e /\ o = p
          BY <2>1, <2>2, <2>3, SectorOfInjective
    <2> QED BY <2>4 DEF c, e, o, p
  <1>2. ReadCluster(j) = ReadCluster(k)
    <2>1. ReadCluster(j) \in 1..Clusters(MaxSize) /\ ReadCluster(k) \in 1..Clusters(MaxSize)
          BY ReadAt
    <2> QED BY <1>1, <2>1 DEF ClustersApart
  <1>3. SectorPerCluster \in Nat \ {0} /\ SectorsOf(n) \in Nat /\ n \in Nat
        BY FileDataAssumption, VolumeAssumption, SectorsOfFile
  <1>4. ASSUME NEW x \in 1..SectorsOf(n)
        PROVE  x = SectorPerCluster * (ReadCluster(x) - 1) + ReadOffset(x) + 1
    <2> DEFINE a == x - 1
               q == a \div SectorPerCluster
               r == a % SectorPerCluster
    <2>1. a \in Nat /\ x = a + 1
          BY <1>3
    <2>2. q \in Nat /\ r \in 0..SectorPerCluster - 1 /\ SectorPerCluster * q + r = a
      <3> HIDE DEF a
      <3> QED BY <2>1, <1>3, DivMod
    <2>3. ReadCluster(x) = q + 1 /\ ReadOffset(x) = r
          BY DEF ReadCluster, ReadOffset
    <2> HIDE DEF a, q, r
    <2>4. ReadCluster(x) - 1 = q
          BY <2>2, <2>3
    <2>5. SectorPerCluster * q \in Nat
          BY <2>2, <1>3
    <2> QED BY <2>1, <2>2, <2>3, <2>4, <2>5, <1>3
  <1> QED BY <1>1, <1>2, <1>4

(* Where a write puts it.                                                  *)
WriteCluster(k) == ((k - 1) \div PerClusterWritten) + 1
WriteOffset(k) == (k - 1) % PerClusterWritten

LEMMA WriteAt ==
  ASSUME layout \in Layouts, NEW f \in Files, NEW n \in 0..MaxSize,
         NEW k \in Reached(Chain(f, n), n)
  PROVE  /\ k \in 1..SectorsOf(n)
         /\ WriteCluster(k) \in 1..Clusters(n)
         /\ WriteOffset(k) \in 0..SectorPerCluster
         /\ WriteOffset(k) = SectorPerCluster => n > ClusterSize
         /\ Chain(f, n)[WriteCluster(k)] = layout[f][WriteCluster(k)]
         /\ SectorWritten(Chain(f, n), k) = SectorOf(layout[f][WriteCluster(k)], WriteOffset(k))
         /\ SectorWritten(Chain(f, n), k) \in DataSectors
  <1> DEFINE C == SectorPerCluster
             S == SectorSize
             m == SectorsOf(n)
             a == k - 1
             q == a \div (C + 1)
             r == a % (C + 1)
  <1>1. C \in Nat \ {0} /\ S \in Nat \ {0} /\ C + 1 \in Nat \ {0} /\ n \in Nat
        BY FileDataAssumption, VolumeAssumption
  <1>2. m \in Nat /\ S * m < n + S
        BY <1>1, SectorsOfFile
  <1>3. k \in 1..m /\ WriteCluster(k) <= Len(Chain(f, n))
        BY DEF Reached, WriteCluster
  <1>4. a \in Nat /\ k = a + 1
        BY <1>2, <1>3
  <1>5. q \in Nat /\ r \in 0..C /\ (C + 1) * q + r = a
    <2> DEFINE d == C + 1
    <2>1. d \in Nat \ {0} /\ d - 1 = C
          BY <1>1
    <2> HIDE DEF a, d
    <2>2. a \div d \in Nat /\ a % d \in 0..d - 1 /\ d * (a \div d) + (a % d) = a
          BY <2>1, <1>4, DivMod
    <2> QED BY <2>1, <2>2 DEF d
  <1>6. WriteCluster(k) = q + 1 /\ WriteOffset(k) = r
        BY DEF WriteCluster, WriteOffset, PerClusterWritten
  <1>7. WriteCluster(k) \in 1..Clusters(n)
    <2>1. Len(Chain(f, n)) = Clusters(n) /\ Clusters(n) \in Nat
          BY ChainOf
    <2> HIDE DEF q
    <2> QED BY <2>1, <1>3, <1>5, <1>6
  <1>8. WriteOffset(k) = C => n > S * C
    <2> SUFFICES ASSUME r = C PROVE n > S * C
        BY <1>6
    <2> HIDE DEF C, S, m, a, q, r
    <2>1. (C + 1) * q \in Nat
          BY <1>1, <1>5
    <2>2. C + 1 <= m
          BY <2>1, <1>1, <1>2, <1>3, <1>4, <1>5
    <2>3. S * (C + 1) <= S * m /\ S * (C + 1) = S * C + S
          BY <2>2, <1>1, <1>2, Products
    <2>4. S * m \in Nat /\ S * C \in Nat
          BY <1>1, <1>2
    <2> QED BY <2>3, <2>4, <1>1, <1>2
  <1>9. S * C = ClusterSize
        BY <1>1 DEF ClusterSize
  <1>10. /\ Chain(f, n)[WriteCluster(k)] = layout[f][WriteCluster(k)]
         /\ WriteCluster(k) \in 1..Clusters(MaxSize)
         BY <1>7, ChainOf
  <1>11. SectorWritten(Chain(f, n), k) = SectorOf(layout[f][WriteCluster(k)], WriteOffset(k))
         BY <1>10 DEF SectorWritten, WriteCluster, WriteOffset
  <1>12. WriteOffset(k) \in 0..SectorPerCluster
         BY <1>5, <1>6
  <1>13. SectorWritten(Chain(f, n), k) \in DataSectors
         BY <1>10, <1>11, <1>12 DEF DataSectors
  <1> HIDE DEF C, S, m, a, q, r
  <1> QED BY <1>3, <1>7, <1>8, <1>9, <1>10, <1>11, <1>12, <1>13 DEF C, m

-----------------------------------------------------------------------------
(* The disk after a write.                                                 *)
LEMMA HasGreatest ==
  ASSUME NEW m \in Nat, NEW T \in SUBSET (1..m), T # {}
  PROVE  \E k \in T : \A j \in T : j <= k
  <1> DEFINE Above == {m - k : k \in T}
  <1>1. Above \subseteq Nat /\ Above # {}
    <2>1. \A k \in T : m - k \in Nat
          OBVIOUS
    <2> QED BY <2>1
  <1>2. IsWellFoundedOn(OpToRel(<, Nat), Nat)
        BY NatLessThanWellFounded
  <1>3. PICK x \in Above : \A y \in Above : ~(<<y, x>> \in OpToRel(<, Nat))
        BY <1>1, <1>2, WFMin, Zenon
  <1>4. \A y \in Above : ~(y < x)
        BY <1>1, <1>3 DEF OpToRel
  <1>5. PICK k \in T : x = m - k
        BY <1>3
  <1>6. \A j \in T : j \in Int /\ ~(m - j < m - k)
        BY <1>4, <1>5
  <1> QED BY <1>5, <1>6

LEMMA WrittenElsewhere ==
  ASSUME DOMAIN sector = DataSectors, NEW chain, NEW ks, NEW new, NEW s \in DataSectors,
         \A k \in ks : SectorWritten(chain, k) # s
  PROVE  Written(chain, ks, new)[s] = sector[s]
  BY DEF Written

LEMMA WrittenOnce ==
  ASSUME DOMAIN sector = DataSectors, NEW chain, NEW ks \in SUBSET Nat, NEW new,
         NEW k \in ks, SectorWritten(chain, k) \in DataSectors,
         \A j \in ks : SectorWritten(chain, j) = SectorWritten(chain, k) => j = k
  PROVE  Written(chain, ks, new)[SectorWritten(chain, k)] = new[k]
  <1> DEFINE s == SectorWritten(chain, k)
             here == {j \in ks : SectorWritten(chain, j) = s}
  <1>1. here = {k}
        OBVIOUS
  <1>2. Written(chain, ks, new)[s] = IF here = {} THEN sector[s]
                                     ELSE new[CHOOSE i \in here : \A j \in here : j <= i]
        BY DEF Written
  <1> HIDE DEF here
  <1>3. (CHOOSE i \in here : \A j \in here : j <= i) = k
        BY <1>1
  <1> QED BY <1>1, <1>2, <1>3

LEMMA WrittenTyped ==
  ASSUME NEW B, sector \in [DataSectors -> B], NEW chain, NEW m \in Nat,
         NEW ks \in SUBSET (1..m), NEW new, \A k \in ks : new[k] \in B
  PROVE  Written(chain, ks, new) \in [DataSectors -> B]
  <1> SUFFICES ASSUME NEW s \in DataSectors
               PROVE  Written(chain, ks, new)[s] \in B
      BY DEF Written
  <1> DEFINE here == {j \in ks : SectorWritten(chain, j) = s}
  <1>1. Written(chain, ks, new)[s] = IF here = {} THEN sector[s]
                                     ELSE new[CHOOSE i \in here : \A j \in here : j <= i]
        BY DEF Written
  <1>2. here \subseteq ks
        OBVIOUS
  <1> HIDE DEF here
  <1>3. CASE here = {}
        BY <1>1, <1>3
  <1>4. CASE here # {}
    <2>1. \E i \in here : \A j \in here : j <= i
          BY <1>2, <1>4, HasGreatest
    <2>2. (CHOOSE i \in here : \A j \in here : j <= i) \in here
          BY <2>1
    <2> QED BY <1>1, <1>2, <1>4, <2>2
  <1> QED BY <1>3, <1>4

(* A write that spills neither over the file itself nor over another puts  *)
(* every sector where reading looks for it, and touches no other.          *)
LEMMA OwnWritten ==
  ASSUME ClustersApart, TypeOK, NEW f \in Files, NEW n \in 0..MaxSize,
         NEW ks \in SUBSET Reached(Chain(f, n), n), NEW new,
         f \notin Spills(f, n, ks),
         NEW k \in 1..SectorsOf(n)
  PROVE  /\ SectorWritten(Chain(f, n), k) = SectorRead(layout[f], k)
         /\ k \in Reached(Chain(f, n), n)
         /\ Written(Chain(f, n), ks, new)[SectorRead(layout[f], k)] =
              IF k \in ks THEN new[k] ELSE sector[SectorRead(layout[f], k)]
  <1> DEFINE chain == Chain(f, n)
             s == SectorRead(layout[f], k)
  <1>1. layout \in Layouts /\ DOMAIN sector = DataSectors
        BY DEF TypeOK
  <1>2. ASSUME NEW j \in 1..SectorsOf(n)
        PROVE  j \in Reached(chain, n) /\ SectorWritten(chain, j) = SectorRead(layout[f], j)
    <2>1. j \in Reached(chain, n) /\ SectorWritten(chain, j) = SectorRead(chain, j)
          BY DEF Spills
    <2> QED BY <1>1, <2>1, ReadAt
  <1>3. s \in DataSectors
        BY <1>1, ReadAt
  <1>4. ASSUME NEW j \in ks, SectorWritten(chain, j) = s PROVE j = k
    <2>1. j \in 1..SectorsOf(n)
          BY DEF Reached
    <2> QED BY <1>1, <1>2, <1>4, <2>1, ReadInjective
  <1>5. SectorWritten(chain, k) = s
        BY <1>2
  <1>6. ks \in SUBSET Nat
    <2>1. SectorsOf(n) \in Nat
          BY SectorsOfFile, FileDataAssumption
    <2> QED BY <2>1 DEF Reached
  <1> HIDE DEF chain, s
  <1>7. CASE k \in ks
    <2>1. \A j \in ks : SectorWritten(chain, j) = s => j = k
          BY <1>4
    <2>2. /\ DOMAIN sector = DataSectors
          /\ SectorWritten(chain, k) \in DataSectors
          /\ \A j \in ks : SectorWritten(chain, j) = SectorWritten(chain, k) => j = k
          BY <1>1, <1>3, <1>5, <2>1
    <2>3. Written(chain, ks, new)[SectorWritten(chain, k)] = new[k]
          BY <1>6, <1>7, <2>2, WrittenOnce
    <2> QED BY <1>2, <1>5, <1>7, <2>3 DEF chain, s
  <1>8. CASE k \notin ks
    <2>1. \A j \in ks : SectorWritten(chain, j) # s
          BY <1>4, <1>8
    <2>2. Written(chain, ks, new)[s] = sector[s]
          BY <1>1, <1>3, <2>1, WrittenElsewhere
    <2> QED BY <1>2, <1>8, <2>2 DEF chain, s
  <1> QED BY <1>7, <1>8, <1>2 DEF chain, s

LEMMA OthersKept ==
  ASSUME ClustersApart, TypeOK, NEW f \in Files, NEW n \in 0..MaxSize,
         NEW ks \in SUBSET Reached(Chain(f, n), n), NEW new,
         NEW g \in Files, g # f, g \notin Spills(f, n, ks),
         NEW k \in 1..SectorsOf(size[g])
  PROVE  Written(Chain(f, n), ks, new)[SectorRead(layout[g], k)] =
           sector[SectorRead(layout[g], k)]
  <1> DEFINE chain == Chain(f, n)
             s == SectorRead(layout[g], k)
             c == layout[g][ReadCluster(k)]
             o == ReadOffset(k)
  <1>1. /\ layout \in Layouts /\ DOMAIN sector = DataSectors
        /\ size[g] \in 0..MaxSize
        BY DEF TypeOK
  <1>2. /\ s \in DataSectors /\ s \in OwnSectors(g, size[g]) /\ s = SectorOf(c, o)
        /\ c \in Nat /\ o \in 0..SectorPerCluster - 1
        /\ ReadCluster(k) \in 1..Clusters(MaxSize)
        BY <1>1, ReadAt
  <1>3. s \notin OwnSectors(f, n)
    <2> SUFFICES ASSUME s \in OwnSectors(f, n) PROVE FALSE
        OBVIOUS
    <2>1. PICK i \in 1..Clusters(n), p \in 0..SectorPerCluster - 1 : s = SectorOf(chain[i], p)
          BY DEF OwnSectors
    <2>2. chain[i] = layout[f][i] /\ layout[f][i] \in Nat /\ i \in 1..Clusters(MaxSize)
          BY <1>1, ChainOf
    <2>3. layout[f][i] = c
      <3> DEFINE e == layout[f][i]
      <3>1. e \in Int /\ c \in Int /\ SectorOf(e, p) = SectorOf(c, o)
            BY <1>2, <2>1, <2>2
      <3> HIDE DEF e, c, o
      <3>2. e = c
            BY <1>2, <3>1, SectorOfInjective
      <3> QED BY <3>2 DEF e
    <2> QED BY <1>1, <1>2, <2>2, <2>3 DEF ClustersApart
  <1>4. ASSUME NEW j \in ks PROVE SectorWritten(chain, j) # s
    <2> SUFFICES ASSUME SectorWritten(chain, j) = s PROVE FALSE
        OBVIOUS
    <2>1. s \in {SectorWritten(chain, i) : i \in ks} \ OwnSectors(f, n)
          BY <1>3
    <2>2. OwnSectors(g, size[g]) \cap ({SectorWritten(chain, i) : i \in ks} \ OwnSectors(f, n)) # {}
          BY <1>2, <2>1
    <2> QED BY <2>2 DEF Spills
  <1> HIDE DEF chain, s
  <1>5. Written(chain, ks, new)[s] = sector[s]
        BY <1>1, <1>2, <1>4, WrittenElsewhere
  <1> QED BY <1>5 DEF chain, s

-----------------------------------------------------------------------------
(* The texts are as long as the files, and every byte of a file that no    *)
(* write has spilled over is where reading looks for it.                   *)
Texted ==
  /\ text \in [Files -> Seq(Byte)]
  /\ \A f \in Files : Len(text[f]) = size[f]
DataInv == TypeOK /\ Texted

Stored ==
  \A f \in Files \ spilled : \A b \in 1..size[f] :
    sector[SectorRead(layout[f], SectorNumber(b))][PlaceInSector(b)] = text[f][b]
ReadInv == DataInv /\ Stored

LEMMA TextTyped ==
  ASSUME NEW t \in Texts, NEW n \in Nat, n <= MaxSize
  PROVE  /\ Text(t, n) \in Seq(Byte) /\ Len(Text(t, n)) = n
         /\ \A i \in 1..n : Text(t, n)[i] \in Byte
  <1> DEFINE s == Text(t, n)
  <1>1. s = [i \in 1..n |-> <<t, i>>]
        BY DEF Text
  <1>2. \A i \in 1..n : <<t, i>> \in Byte
        BY FileDataAssumption DEF Byte
  <1>3. \A i \in 1..n : s[i] \in Byte
        BY <1>1, <1>2
  <1> QED BY <1>1, <1>3

LEMMA ChunkTyped ==
  ASSUME NEW s \in Seq(Byte), NEW k \in Nat \ {0}
  PROVE  Chunk(s, k) \in [1..SectorSize -> Byte]
  <1> DEFINE from == (k - 1) * SectorSize
  <1>1. from \in Nat
        BY FileDataAssumption
  <1> HIDE DEF from
  <1>2. NoByte \in Byte
        BY DEF Byte
  <1>3. ASSUME NEW i \in 1..SectorSize
        PROVE  (IF from + i <= Len(s) THEN s[from + i] ELSE NoByte) \in Byte
    <2>1. from + i \in Nat \ {0}
          BY <1>1, FileDataAssumption
    <2> QED BY <1>2, <2>1
  <1>4. Chunk(s, k) = [i \in 1..SectorSize |->
                         IF from + i <= Len(s) THEN s[from + i] ELSE NoByte]
        BY DEF Chunk, from
  <1> QED BY <1>3, <1>4

LEMMA MergedTyped ==
  ASSUME sector \in [DataSectors -> [1..SectorSize -> Byte]], NEW chain, NEW k \in Nat \ {0},
         SectorWritten(chain, k) \in DataSectors, NEW old \in Nat, NEW data \in Seq(Byte)
  PROVE  Merged(chain, k, old, data) \in [1..SectorSize -> Byte]
  <1> DEFINE at == (k - 1) * SectorSize
             here == sector[SectorWritten(chain, k)]
  <1>1. at \in Nat
        BY FileDataAssumption
  <1>2. NoByte \in Byte
        BY DEF Byte
  <1>3. here \in [1..SectorSize -> Byte]
        OBVIOUS
  <1>4. Merged(chain, k, old, data) =
          [i \in 1..SectorSize |-> IF i <= old - at THEN here[i]
                                   ELSE IF at + i - old \in DOMAIN data THEN data[at + i - old]
                                   ELSE NoByte]
        BY DEF Merged
  <1> HIDE DEF at, here
  <1>5. \A x \in DOMAIN data : data[x] \in Byte
        OBVIOUS
  <1>6. \A i \in 1..SectorSize :
          (IF i <= old - at THEN here[i]
           ELSE IF at + i - old \in DOMAIN data THEN data[at + i - old]
           ELSE NoByte) \in Byte
        BY <1>2, <1>3, <1>5
  <1> QED BY <1>4, <1>6

(* Whatever a write changes is in the file's clusters or behind one.       *)
LEMMA WrittenInside ==
  ASSUME TypeOK, NEW f \in Files, NEW n \in 0..MaxSize,
         NEW ks \in SUBSET Reached(Chain(f, n), n), NEW new, NEW s \in DataSectors,
         Written(Chain(f, n), ks, new)[s] # sector[s]
  PROVE  \/ s \in OwnSectors(f, n)
         \/ /\ n > ClusterSize
            /\ s \in {SectorOf(c, SectorPerCluster) : c \in ToSet(Chain(f, n))}
  <1> DEFINE chain == Chain(f, n)
  <1>1. layout \in Layouts /\ DOMAIN sector = DataSectors
        BY DEF TypeOK
  <1>2. PICK k \in ks : SectorWritten(chain, k) = s
        BY <1>1, WrittenElsewhere
  <1> DEFINE i == WriteCluster(k)
             o == WriteOffset(k)
  <1>3. /\ i \in 1..Clusters(n) /\ o \in 0..SectorPerCluster
        /\ o = SectorPerCluster => n > ClusterSize
        /\ s = SectorOf(chain[i], o)
        BY <1>1, <1>2, WriteAt
  <1>4. i \in DOMAIN chain
    <2>1. chain \in Seq(Nat) /\ Len(chain) = Clusters(n)
      <3>1. Len(chain) = Clusters(n)
            BY <1>1, ChainOf
      <3>2. layout[f] \in Seq(Nat)
            BY <1>1, FileDataAssumption
      <3>3. Clusters(n) \in Nat /\ Clusters(n) <= Clusters(MaxSize) /\ Len(layout[f]) = Clusters(MaxSize)
            BY <1>1, ChainOf, FileDataAssumption
      <3> QED BY <3>1, <3>2, <3>3 DEF Chain
    <2> QED BY <1>3, <2>1
  <1>5. chain[i] \in ToSet(chain)
        BY <1>4 DEF ToSet
  <1>6. SectorPerCluster \in Nat
        BY FileDataAssumption, VolumeAssumption
  <1> HIDE DEF i, o
  <1>7. CASE o = SectorPerCluster
        BY <1>3, <1>5, <1>7
  <1>8. CASE o # SectorPerCluster
    <2>1. o \in 0..SectorPerCluster - 1
          BY <1>3, <1>6, <1>8
    <2> QED BY <1>3, <2>1 DEF OwnSectors
  <1> QED BY <1>7, <1>8

-----------------------------------------------------------------------------
(* What the two ways to write a file have in common: n bytes the file then *)
(* has, the sectors ks that are written, with new, and the text s.         *)
Writes(f, n, ks, new, s) ==
  /\ n \in 0..MaxSize /\ ks \subseteq Reached(Chain(f, n), n)
  /\ \A k \in ks : new[k] \in [1..SectorSize -> Byte]
  /\ s \in Seq(Byte) /\ Len(s) = n
  /\ sector' = Written(Chain(f, n), ks, new)
  /\ size' = [size EXCEPT ![f] = n]
  /\ text' = [text EXCEPT ![f] = s]
  /\ spilled' \subseteq Files
  /\ (spilled \ {f}) \cup Spills(f, n, ks) \subseteq spilled'
  /\ layout' = layout

RewriteSectors(f, n) == Reached(Chain(f, n), n)
RewriteChunks(f, t, n) == [k \in RewriteSectors(f, n) |-> Chunk(Text(t, n), k)]

LEMMA RewriteWrites ==
  ASSUME DataInv, NEW f \in Files, NEW t \in Texts, NEW n \in Lengths, RewriteFile(f, t, n)
  PROVE  Writes(f, n, RewriteSectors(f, n), RewriteChunks(f, t, n), Text(t, n))
  <1>1. n \in Nat /\ n <= MaxSize /\ n \in 0..MaxSize
        BY FileDataAssumption DEF RewriteFile
  <1>2. Text(t, n) \in Seq(Byte) /\ Len(Text(t, n)) = n
        BY <1>1, TextTyped
  <1>3. ASSUME NEW k \in RewriteSectors(f, n)
        PROVE  RewriteChunks(f, t, n)[k] \in [1..SectorSize -> Byte]
    <2>1. k \in Nat \ {0}
          BY <1>1, SectorsOfFile DEF RewriteSectors, Reached
    <2> QED BY <1>2, <2>1, ChunkTyped DEF RewriteChunks
  <1>4. spilled' = (spilled \ {f}) \cup Spills(f, n, RewriteSectors(f, n))
        BY DEF RewriteFile, RewriteSectors
  <1>5. spilled \subseteq Files /\ Spills(f, n, RewriteSectors(f, n)) \subseteq Files
        BY DEF DataInv, TypeOK, Spills
  <1>6. /\ sector' = Written(Chain(f, n), RewriteSectors(f, n), RewriteChunks(f, t, n))
        /\ size' = [size EXCEPT ![f] = n] /\ text' = [text EXCEPT ![f] = Text(t, n)]
        /\ layout' = layout
        BY DEF RewriteFile, RewriteSectors, RewriteChunks
  <1> QED BY <1>1, <1>2, <1>3, <1>4, <1>5, <1>6 DEF Writes, RewriteSectors

AppendSectors(f, n) ==
  {k \in Reached(Chain(f, size[f] + n), size[f] + n) : k * SectorSize > size[f]}
AppendChunks(f, t, n) ==
  [k \in AppendSectors(f, n) |-> Merged(Chain(f, size[f] + n), k, size[f], Text(t, n))]

LEMMA AppendWrites ==
  ASSUME DataInv, NEW f \in Files, NEW t \in Texts, NEW n \in Lengths, AppendFile(f, t, n)
  PROVE  /\ Writes(f, size[f] + n, AppendSectors(f, n), AppendChunks(f, t, n),
                   text[f] \o Text(t, n))
         /\ spilled \subseteq spilled'
  <1> DEFINE m == size[f] + n
  <1>1. /\ n \in Nat /\ n <= MaxSize /\ m \in 0..MaxSize /\ m \in Nat
        /\ size[f] \in Nat
        BY FileDataAssumption DEF AppendFile, DataInv, TypeOK
  <1>2. Text(t, n) \in Seq(Byte) /\ Len(Text(t, n)) = n
        BY <1>1, TextTyped
  <1>3. text[f] \in Seq(Byte) /\ Len(text[f]) = size[f]
        BY DEF DataInv, Texted
  <1>4. text[f] \o Text(t, n) \in Seq(Byte) /\ Len(text[f] \o Text(t, n)) = m
    <2>1. ASSUME NEW v \in Seq(Byte), NEW w \in Seq(Byte)
          PROVE  v \o w \in Seq(Byte) /\ Len(v \o w) = Len(v) + Len(w)
          OBVIOUS
    <2>2. text[f] \o Text(t, n) \in Seq(Byte)
          BY <1>2, <1>3, <2>1
    <2>3. Len(text[f] \o Text(t, n)) = Len(text[f]) + Len(Text(t, n))
          BY <1>2, <1>3, <2>1
    <2> QED BY <1>2, <1>3, <2>2, <2>3
  <1>5. layout \in Layouts /\ sector \in [DataSectors -> [1..SectorSize -> Byte]]
        BY DEF DataInv, TypeOK
  <1>6. AppendSectors(f, n) \subseteq Reached(Chain(f, m), m)
        BY DEF AppendSectors
  <1> HIDE DEF m
  <1>7. ASSUME NEW k \in AppendSectors(f, n)
        PROVE  AppendChunks(f, t, n)[k] \in [1..SectorSize -> Byte]
    <2>1. k \in Nat \ {0}
      <3>1. SectorsOf(m) \in Nat
            BY <1>1, SectorsOfFile
      <3>2. k \in 1..SectorsOf(m)
            BY <1>6 DEF Reached
      <3> QED BY <3>1, <3>2
    <2>2. SectorWritten(Chain(f, m), k) \in DataSectors
          BY <1>1, <1>5, <1>6, WriteAt
    <2>3. Merged(Chain(f, m), k, size[f], Text(t, n)) \in [1..SectorSize -> Byte]
          BY <1>1, <1>2, <1>5, <2>1, <2>2, MergedTyped
    <2> QED BY <2>3 DEF AppendChunks, m
  <1>8. spilled' = spilled \cup Spills(f, m, AppendSectors(f, n))
        BY DEF AppendFile, AppendSectors, m
  <1>9. spilled \subseteq Files /\ Spills(f, m, AppendSectors(f, n)) \subseteq Files
        BY DEF DataInv, TypeOK, Spills
  <1>10. /\ sector' = Written(Chain(f, m), AppendSectors(f, n), AppendChunks(f, t, n))
         /\ size' = [size EXCEPT ![f] = m] /\ text' = [text EXCEPT ![f] = text[f] \o Text(t, n)]
         /\ layout' = layout
         BY DEF AppendFile, AppendSectors, AppendChunks, m
  <1>11. Writes(f, m, AppendSectors(f, n), AppendChunks(f, t, n), text[f] \o Text(t, n))
    <2>1. /\ spilled' \subseteq Files
          /\ (spilled \ {f}) \cup Spills(f, m, AppendSectors(f, n)) \subseteq spilled'
          BY <1>8, <1>9
    <2> QED BY <1>1, <1>4, <1>6, <1>7, <1>10, <2>1 DEF Writes
  <1> QED BY <1>8, <1>11 DEF m

(* A write keeps types and lengths, and stays inside.                      *)
LEMMA WritesKeepData ==
  ASSUME DataInv, NEW f \in Files, NEW n, NEW ks, NEW new, NEW s, Writes(f, n, ks, new, s)
  PROVE  DataInv'
  <1>1. /\ layout \in Layouts /\ sector \in [DataSectors -> [1..SectorSize -> Byte]]
        /\ size \in [Files -> 0..MaxSize] /\ text \in [Files -> Seq(Byte)]
        /\ \A g \in Files : Len(text[g]) = size[g]
        BY DEF DataInv, TypeOK, Texted
  <1>2. ks \subseteq 1..SectorsOf(n) /\ SectorsOf(n) \in Nat
    <2>1. n \in Nat
          BY FileDataAssumption DEF Writes
    <2> QED BY <2>1, SectorsOfFile DEF Writes, Reached
  <1>3. sector' \in [DataSectors -> [1..SectorSize -> Byte]]
    <2> DEFINE B == [1..SectorSize -> Byte]
    <2>1. sector \in [DataSectors -> B] /\ \A k \in ks : new[k] \in B
          BY <1>1 DEF Writes
    <2> HIDE DEF B
    <2>2. Written(Chain(f, n), ks, new) \in [DataSectors -> B]
          BY <1>2, <2>1, WrittenTyped
    <2> QED BY <2>2 DEF Writes, B
  <1>4. TypeOK'
    <2>1. DataSectors' = DataSectors /\ Byte' = Byte
          BY DEF DataSectors, SectorOf, Byte, NoByte
    <2>2. size' \in [Files -> 0..MaxSize] /\ layout' \in Layouts /\ spilled' \subseteq Files
          BY <1>1 DEF Writes
    <2> QED BY <1>3, <2>1, <2>2 DEF TypeOK
  <1>5. Texted'
    <2>1. text' \in [Files -> Seq(Byte)]
          BY <1>1 DEF Writes
    <2>2. \A g \in Files : Len(text'[g]) = size'[g]
          BY <1>1 DEF Writes
    <2> QED BY <2>1, <2>2 DEF Texted, Byte, NoByte
  <1> QED BY <1>4, <1>5 DEF DataInv

LEMMA WritesInside ==
  ASSUME DataInv, NEW f \in Files, NEW n, NEW ks, NEW new, NEW s, Writes(f, n, ks, new, s),
         NEW x \in DataSectors, sector'[x] # sector[x]
  PROVE  /\ \A g \in Files \ {f} : text'[g] = text[g]
         /\ \/ x \in OwnSectors(f, size'[f])
            \/ /\ size'[f] > ClusterSize
               /\ x \in {SectorOf(c, SectorPerCluster) : c \in ToSet(Chain(f, size'[f]))}
  <1>1. size'[f] = n /\ \A g \in Files \ {f} : text'[g] = text[g]
        BY DEF Writes, DataInv, TypeOK, Texted
  <1>2. TypeOK /\ n \in 0..MaxSize /\ ks \in SUBSET Reached(Chain(f, n), n)
        /\ Written(Chain(f, n), ks, new)[x] # sector[x]
        BY DEF Writes, DataInv
  <1>3. \/ x \in OwnSectors(f, n)
        \/ /\ n > ClusterSize
           /\ x \in {SectorOf(c, SectorPerCluster) : c \in ToSet(Chain(f, n))}
        BY <1>2, WrittenInside
  <1> QED BY <1>1, <1>3

(* A write leaves the bytes of every other file where they are, unless it  *)
(* spills over them.                                                       *)
LEMMA WritesKeepOthers ==
  ASSUME ClustersApart, ReadInv, NEW f \in Files, NEW n, NEW ks, NEW new, NEW s,
         Writes(f, n, ks, new, s),
         NEW g \in Files \ spilled', g # f, NEW b \in 1..size'[g]
  PROVE  sector'[SectorRead(layout'[g], SectorNumber(b))][PlaceInSector(b)] = text'[g][b]
  <1>1. size'[g] = size[g] /\ text'[g] = text[g] /\ layout' = layout
        BY DEF Writes, ReadInv, DataInv, TypeOK, Texted
  <1>2. g \notin spilled /\ g \notin Spills(f, n, ks)
        BY DEF Writes
  <1>3. size[g] \in Nat
        BY FileDataAssumption DEF ReadInv, DataInv, TypeOK
  <1>4. SectorNumber(b) \in 1..SectorsOf(size[g])
        BY <1>1, <1>3, ByteInSector
  <1>5. TypeOK /\ n \in 0..MaxSize /\ ks \in SUBSET Reached(Chain(f, n), n)
        /\ sector' = Written(Chain(f, n), ks, new)
        BY DEF Writes, ReadInv, DataInv
  <1>6. sector'[SectorRead(layout[g], SectorNumber(b))]
          = sector[SectorRead(layout[g], SectorNumber(b))]
        BY <1>2, <1>4, <1>5, OthersKept
  <1>7. sector[SectorRead(layout[g], SectorNumber(b))][PlaceInSector(b)] = text[g][b]
        BY <1>1, <1>2 DEF ReadInv, Stored
  <1> QED BY <1>1, <1>6, <1>7

(* After either write the file itself can be read, too.                    *)
LEMMA RewriteStores ==
  ASSUME ClustersApart, ReadInv, NEW f \in Files, NEW t \in Texts, NEW n \in Lengths,
         RewriteFile(f, t, n)
  PROVE  Stored'
  <1> DEFINE ks == RewriteSectors(f, n)
             new == RewriteChunks(f, t, n)
             s == Text(t, n)
  <1>1. Writes(f, n, ks, new, s)
        BY RewriteWrites DEF ReadInv
  <1>2. ASSUME f \notin spilled', NEW b \in 1..size'[f]
        PROVE  sector'[SectorRead(layout'[f], SectorNumber(b))][PlaceInSector(b)] = text'[f][b]
    <2> DEFINE k == SectorNumber(b)
               p == PlaceInSector(b)
    <2>1. n \in Nat /\ size'[f] = n /\ text'[f] = s /\ layout' = layout /\ Len(s) = n
          BY <1>1, FileDataAssumption DEF Writes, ReadInv, DataInv, TypeOK, Texted
    <2>2. /\ k \in 1..SectorsOf(n) /\ p \in 1..SectorSize
          /\ (k - 1) * SectorSize + p = b
          BY <2>1, ByteInSector
    <2>3. /\ TypeOK /\ n \in 0..MaxSize /\ ks \in SUBSET Reached(Chain(f, n), n)
          /\ f \notin Spills(f, n, ks)
          /\ sector' = Written(Chain(f, n), ks, new)
          BY <1>1, <1>2 DEF Writes, ReadInv, DataInv
    <2> HIDE DEF new, s, k, p
    <2>4. /\ k \in Reached(Chain(f, n), n)
          /\ sector'[SectorRead(layout[f], k)]
               = IF k \in ks THEN new[k] ELSE sector[SectorRead(layout[f], k)]
          BY <2>2, <2>3, OwnWritten
    <2>5. sector'[SectorRead(layout[f], k)] = Chunk(s, k)
          BY <2>4 DEF new, s, RewriteChunks, RewriteSectors
    <2>6. Chunk(s, k)[p] = s[b]
          BY <2>1, <2>2 DEF Chunk
    <2> QED BY <2>1, <2>5, <2>6 DEF k, p
  <1> HIDE DEF ks, new, s
  <1>3. ASSUME NEW g \in Files \ spilled', g # f, NEW b \in 1..size'[g]
        PROVE  sector'[SectorRead(layout'[g], SectorNumber(b))][PlaceInSector(b)] = text'[g][b]
        BY <1>1, <1>3, WritesKeepOthers
  <1>4. ASSUME NEW g \in Files \ spilled', NEW b \in 1..size'[g]
        PROVE  sector'[SectorRead(layout'[g], SectorNumber(b))][PlaceInSector(b)] = text'[g][b]
    <2>1. CASE g = f
          BY <1>2, <1>4, <2>1
    <2>2. CASE g # f
          BY <1>3, <1>4, <2>2
    <2> QED BY <2>1, <2>2
  <1> QED BY <1>4 DEF Stored, SectorRead, SectorOf, SectorNumber, PlaceInSector

LEMMA AppendStores ==
  ASSUME ClustersApart, ReadInv, NEW f \in Files, NEW t \in Texts, NEW n \in Lengths,
         AppendFile(f, t, n)
  PROVE  Stored'
  <1> DEFINE old == size[f]
             m == old + n
             ks == AppendSectors(f, n)
             new == AppendChunks(f, t, n)
             data == Text(t, n)
             s == text[f] \o data
  <1>1. Writes(f, m, ks, new, s) /\ spilled \subseteq spilled'
        BY AppendWrites DEF ReadInv
  <1>2. /\ old \in Nat /\ n \in Nat /\ n <= MaxSize /\ m \in Nat
        BY FileDataAssumption DEF ReadInv, DataInv, TypeOK, AppendFile
  <1>3. /\ text[f] \in Seq(Byte) /\ Len(text[f]) = old
        /\ data \in Seq(Byte) /\ Len(data) = n
        BY <1>2, TextTyped DEF ReadInv, DataInv, Texted
  <1>4. /\ DOMAIN data = 1..n
        /\ \A b \in 1..old : s[b] = text[f][b]
        /\ \A b \in old + 1..m : s[b] = data[b - old]
    <2> HIDE DEF old, data
    <2> QED BY <1>2, <1>3
  <1>5. ASSUME f \notin spilled', NEW b \in 1..size'[f]
        PROVE  sector'[SectorRead(layout'[f], SectorNumber(b))][PlaceInSector(b)] = text'[f][b]
    <2> DEFINE k == SectorNumber(b)
               p == PlaceInSector(b)
               at == (k - 1) * SectorSize
               r == SectorRead(layout[f], k)
               chain == Chain(f, m)
    <2>1. size'[f] = m /\ text'[f] = s /\ layout' = layout
          BY <1>1 DEF Writes, ReadInv, DataInv, TypeOK, Texted
    <2>2. b \in 1..m
          BY <2>1
    <2>3. /\ TypeOK /\ m \in 0..MaxSize /\ ks \in SUBSET Reached(chain, m)
          /\ f \notin Spills(f, m, ks) /\ f \notin spilled
          /\ sector' = Written(chain, ks, new)
          BY <1>1, <1>5 DEF Writes, ReadInv, DataInv
    <2>4. b <= old => sector[r][p] = text[f][b]
      <3>1. old + 1 > old /\ (b <= old => b \in 1..old)
            BY <1>2, <2>2
      <3> QED BY <2>3, <3>1 DEF ReadInv, Stored
    <2> HIDE DEF old, m
    <2>5. /\ k \in 1..SectorsOf(m) /\ p \in 1..SectorSize
          /\ at + p = b /\ k * SectorSize >= b
          BY <1>2, <2>2, ByteInSector
    <2>6. at \in Nat
      <3>1. SectorsOf(m) \in Nat /\ SectorSize \in Nat
            BY <1>2, SectorsOfFile, FileDataAssumption
      <3>2. k - 1 \in Nat
            BY <2>5, <3>1
      <3> HIDE DEF k
      <3> QED BY <3>1, <3>2
    <2> HIDE DEF ks, new, data, s, k, p, at, chain, r
    <2>7. /\ SectorWritten(chain, k) = r /\ k \in Reached(chain, m)
          /\ sector'[r] = IF k \in ks THEN new[k] ELSE sector[r]
          BY <2>3, <2>5, OwnWritten DEF chain, r
    <2>8. CASE k \in ks
      <3>1. new[k] = Merged(chain, k, old, data)
            BY <2>8 DEF new, ks, AppendChunks, chain, data, m, old
      <3>2. Merged(chain, k, old, data)[p]
              = IF p <= old - at THEN sector[SectorWritten(chain, k)][p]
                ELSE IF at + p - old \in DOMAIN data THEN data[at + p - old] ELSE NoByte
            BY <2>5 DEF Merged, at
      <3>3. sector'[r][p] = IF b <= old THEN sector[r][p]
                            ELSE IF b - old \in DOMAIN data THEN data[b - old] ELSE NoByte
        <4>1. at + p = b /\ p \in Int /\ at \in Int /\ old \in Int /\ b \in Int
          <5>1. SectorSize \in Nat
                BY FileDataAssumption
          <5> QED BY <1>2, <2>2, <2>5, <2>6, <5>1
        <4>2. (p <= old - at) <=> (b <= old)
              BY <4>1
        <4> QED BY <2>7, <2>8, <3>1, <3>2, <4>1, <4>2
      <3>4. ASSUME b <= old PROVE sector'[r][p] = s[b]
        <4>1. b \in 1..old
              BY <1>2, <2>2, <3>4
        <4> QED BY <1>4, <2>4, <3>3, <3>4, <4>1
      <3>5. ASSUME ~(b <= old) PROVE sector'[r][p] = s[b]
        <4>1. b \in old + 1..m /\ b - old \in 1..n
              BY <1>2, <2>2, <3>5 DEF m
        <4> QED BY <1>4, <3>3, <3>5, <4>1
      <3>6. sector'[r][p] = s[b]
            BY <3>4, <3>5
      <3> QED BY <2>1, <3>6 DEF r, p, k
    <2>9. CASE k \notin ks
      <3>1. ~(k * SectorSize > old)
            BY <2>7, <2>9 DEF ks, AppendSectors, chain, m, old
      <3>2. b <= old /\ b \in 1..old
        <4> DEFINE x == k * SectorSize
        <4>1. x \in Int
          <5>1. SectorsOf(m) \in Nat /\ SectorSize \in Nat
                BY <1>2, SectorsOfFile, FileDataAssumption
          <5> QED BY <2>5, <5>1
        <4> HIDE DEF x
        <4>2. x >= b /\ ~(x > old)
              BY <2>5, <3>1 DEF x
        <4> QED BY <1>2, <2>2, <4>1, <4>2
      <3>3. sector'[r][p] = s[b]
            BY <1>4, <2>4, <2>7, <2>9, <3>2
      <3> QED BY <2>1, <3>3 DEF r, p, k
    <2> QED BY <2>8, <2>9
  <1> HIDE DEF ks, new, s, m
  <1>6. ASSUME NEW g \in Files \ spilled', g # f, NEW b \in 1..size'[g]
        PROVE  sector'[SectorRead(layout'[g], SectorNumber(b))][PlaceInSector(b)] = text'[g][b]
        BY <1>1, <1>6, WritesKeepOthers
  <1>7. ASSUME NEW g \in Files \ spilled', NEW b \in 1..size'[g]
        PROVE  sector'[SectorRead(layout'[g], SectorNumber(b))][PlaceInSector(b)] = text'[g][b]
    <2>1. CASE g = f
          BY <1>5, <1>7, <2>1
    <2>2. CASE g # f
          BY <1>6, <1>7, <2>2
    <2> QED BY <2>1, <2>2
  <1> QED BY <1>7 DEF Stored, SectorRead, SectorOf, SectorNumber, PlaceInSector

-----------------------------------------------------------------------------
LEMMA DataInit == Init => DataInv
  <1> SUFFICES ASSUME Init PROVE DataInv
      OBVIOUS
  <1>1. NoByte \in Byte
        BY DEF Byte
  <1>2. TypeOK
    <2>1. MaxSize \in Nat
          BY FileDataAssumption
    <2> QED BY <1>1, <2>1 DEF Init, TypeOK
  <1>3. Texted
        BY DEF Init, Texted
  <1> QED BY <1>2, <1>3 DEF DataInv

LEMMA DataStep == DataInv /\ [Next]_vars => DataInv'
  <1> SUFFICES ASSUME DataInv, [Next]_vars PROVE DataInv'
      OBVIOUS
  <1>1. CASE UNCHANGED vars
    <2>1. TypeOK'
          BY <1>1 DEF vars, DataInv, TypeOK, DataSectors, SectorOf, Byte, NoByte
    <2>2. Texted'
          BY <1>1 DEF vars, DataInv, Texted, Byte, NoByte
    <2> QED BY <2>1, <2>2 DEF DataInv
  <1>2. ASSUME NEW f \in Files, NEW t \in Texts, NEW n \in Lengths, RewriteFile(f, t, n)
        PROVE  DataInv'
    <2>1. Writes(f, n, RewriteSectors(f, n), RewriteChunks(f, t, n), Text(t, n))
          BY <1>2, RewriteWrites
    <2> QED BY <2>1, WritesKeepData
  <1>3. ASSUME NEW f \in Files, NEW t \in Texts, NEW n \in Lengths, AppendFile(f, t, n)
        PROVE  DataInv'
    <2>1. Writes(f, size[f] + n, AppendSectors(f, n), AppendChunks(f, t, n), text[f] \o Text(t, n))
          BY <1>3, AppendWrites
    <2> QED BY <2>1, WritesKeepData
  <1> QED BY <1>1, <1>2, <1>3 DEF Next

LEMMA DataAlways == Spec => []DataInv
  BY DataInit, DataStep, PTL DEF Spec

(* Sectors are filled with whole sectors of bytes, in the data area, and   *)
(* no file grows beyond the bound: TypeOK.                                 *)
THEOREM FileDataTypeCorrect == Spec => []TypeOK
  <1>1. DataInv => TypeOK
        BY DEF DataInv
  <1> QED BY <1>1, DataAlways, PTL

(* A write changes sectors of the file's own clusters only, and the one    *)
(* behind each where its loop counts one sector too many: for every layout *)
(* of the chains, whether or not they share clusters.                      *)
THEOREM FileDataStaysInChain == Spec => StaysInChain
  <1> DEFINE Inside == \A s \in DataSectors : sector'[s] # sector[s] =>
                         \E f \in Files :
                           /\ \A g \in Files \ {f} : text'[g] = text[g]
                           /\ \/ s \in OwnSectors(f, size'[f])
                              \/ /\ size'[f] > ClusterSize
                                 /\ s \in {SectorOf(c, SectorPerCluster) :
                                             c \in ToSet(Chain(f, size'[f]))}
  <1>1. DataInv /\ [Next]_vars => [Inside]_vars
    <2> SUFFICES ASSUME DataInv, Next PROVE Inside
        OBVIOUS
    <2>1. ASSUME NEW f \in Files, NEW n, NEW ks, NEW new, NEW s, Writes(f, n, ks, new, s)
          PROVE  Inside
          BY <2>1, WritesInside
    <2> HIDE DEF Inside
    <2>2. ASSUME NEW f \in Files, NEW t \in Texts, NEW n \in Lengths, RewriteFile(f, t, n)
          PROVE  Inside
          BY <2>1, <2>2, RewriteWrites
    <2>3. ASSUME NEW f \in Files, NEW t \in Texts, NEW n \in Lengths, AppendFile(f, t, n)
          PROVE  Inside
          BY <2>1, <2>3, AppendWrites
    <2> QED BY <2>2, <2>3 DEF Next
  <1> QED BY <1>1, DataAlways, PTL DEF Spec, StaysInChain

(* Where no cluster has two places in the chains, a file reads back what   *)
(* was written to it, byte for byte, whatever is written to it and to      *)
(* other files, until a write has put one of its sectors where reading     *)
(* does not look for it, or a sector of another file over one of its.      *)
THEOREM FileDataReadsBack == ASSUME ClustersApart PROVE Spec => []ReadsBack
  <1>1. Init => ReadInv
    <2> SUFFICES ASSUME Init PROVE Stored
        BY DataInit DEF ReadInv
    <2>1. \A f \in Files : size[f] = 0
          BY DEF Init
    <2> QED BY <2>1 DEF Stored
  <1>2. ReadInv /\ [Next]_vars => ReadInv'
    <2> SUFFICES ASSUME ReadInv, [Next]_vars PROVE Stored'
        BY DataStep DEF ReadInv
    <2>1. CASE UNCHANGED vars
          BY <2>1 DEF vars, ReadInv, Stored, SectorRead, SectorOf, SectorNumber, PlaceInSector
    <2>2. ASSUME NEW f \in Files, NEW t \in Texts, NEW n \in Lengths, RewriteFile(f, t, n)
          PROVE  Stored'
          BY <2>2, RewriteStores
    <2>3. ASSUME NEW f \in Files, NEW t \in Texts, NEW n \in Lengths, AppendFile(f, t, n)
          PROVE  Stored'
          BY <2>3, AppendStores
    <2> QED BY <2>1, <2>2, <2>3 DEF Next
  <1>3. ReadInv => ReadsBack
    <2> SUFFICES ASSUME ReadInv, NEW f \in Files \ spilled PROVE ReadFile(f) = text[f]
        BY DEF ReadsBack
    <2> DEFINE n == size[f]
    <2>1. /\ n \in 0..MaxSize /\ n \in Nat /\ layout \in Layouts
          /\ text[f] \in Seq(Byte) /\ Len(text[f]) = n
          BY FileDataAssumption DEF ReadInv, DataInv, TypeOK, Texted
    <2>2. ReadFile(f) = [b \in 1..n |->
                           sector[SectorRead(Chain(f, n), SectorNumber(b))][PlaceInSector(b)]]
          BY DEF ReadFile
    <2>3. ASSUME NEW b \in 1..n
          PROVE  sector[SectorRead(Chain(f, n), SectorNumber(b))][PlaceInSector(b)] = text[f][b]
      <3>1. SectorNumber(b) \in 1..SectorsOf(n)
            BY <2>1, ByteInSector
      <3>2. SectorRead(Chain(f, n), SectorNumber(b)) = SectorRead(layout[f], SectorNumber(b))
            BY <2>1, <3>1, ReadAt
      <3> QED BY <3>2 DEF ReadInv, Stored
    <2> HIDE DEF n
    <2>4. text[f] = [b \in 1..n |-> text[f][b]]
          BY <2>1
    <2>5. [b \in 1..n |-> sector[SectorRead(Chain(f, n), SectorNumber(b))][PlaceInSector(b)]]
            = [b \in 1..n |-> text[f][b]]
          BY <2>3
    <2> QED BY <2>2, <2>4, <2>5
  <1> QED BY <1>1, <1>2, <1>3, PTL DEF Spec

-----------------------------------------------------------------------------
(***************************************************************************)
(* The slots of directories.                                               *)
(***************************************************************************)
(* A set of numbers that has 0 and, with a number, the next one, has all.  *)
LEMMA Counting ==
  ASSUME NEW S, 0 \in S, \A n \in Nat : n \in S => n + 1 \in S
  PROVE  Nat \subseteq S
  <1> DEFINE Bad == Nat \ S
  <1> SUFFICES ASSUME Bad # {} PROVE FALSE
      OBVIOUS
  <1>1. IsWellFoundedOn(OpToRel(<, Nat), Nat)
        BY NatLessThanWellFounded
  <1>2. \E x \in Bad : \A y \in Bad : ~(<<y, x>> \in OpToRel(<, Nat))
        BY <1>1, WFMin, Zenon
  <1>3. PICK x \in Bad : \A y \in Bad : ~(<<y, x>> \in OpToRel(<, Nat))
        BY <1>2
  <1>4. \A y \in Bad : ~(y < x)
        BY <1>3 DEF OpToRel
  <1>5. x # 0
        OBVIOUS
  <1>6. x - 1 \in Nat /\ x - 1 < x /\ (x - 1) + 1 = x
        BY <1>5
  <1>7. x - 1 \notin S
        BY <1>6
  <1> QED BY <1>4, <1>6, <1>7

(* What the directory needs to work: all names take the same number of     *)
(* slots, a sector is a whole number of entries long, so are the dot       *)
(* entries, and the padding of the name is zero.                           *)
EntriesFit(m, q) ==
  /\ m > 1 /\ EntriesPerSector = q * m
  /\ \E d \in Nat : Dots = d * m
  /\ \A n \in Names : Lfn[n] + 1 = m

EvenSlots == StackClean /\ \E m, q \in Nat : EntriesFit(m, q)

-----------------------------------------------------------------------------
(* The directory as a row of places for one entry each.                    *)
EntrySize == CHOOSE m \in Nat : \E q \in Nat : EntriesFit(m, q)
InSector == CHOOSE q \in Nat : EntriesFit(EntrySize, q)

Blocks == (0..SectorPerCluster - 1) \X (0..InSector - 1)
Cell(b, o) == <<b[1], b[2] * EntrySize + o>>

LEMMA SizesAre ==
  ASSUME EvenSlots
  PROVE  /\ EntrySize \in Nat /\ EntrySize > 1 /\ InSector \in Nat
         /\ EntriesPerSector = InSector * EntrySize
         /\ EntriesPerSector \in Nat /\ SectorPerCluster \in Nat
         /\ \A n \in Names : Lfn[n] \in Nat /\ Lfn[n] + 1 = EntrySize
         /\ \E d \in Nat : Dots = d * EntrySize
  <1>1. \E m \in Nat : \E q \in Nat : EntriesFit(m, q)
        BY DEF EvenSlots
  <1>2. EntrySize \in Nat /\ \E q \in Nat : EntriesFit(EntrySize, q)
        BY <1>1 DEF EntrySize
  <1>3. InSector \in Nat /\ EntriesFit(EntrySize, InSector)
        BY <1>2 DEF InSector
  <1>4. EntriesPerSector \in Nat /\ SectorPerCluster \in Nat /\ Lfn \in [Names -> Nat \ {0}]
        BY FatDirAssumption, VolumeAssumption DEF FatDirAssumption, VolumeAssumption
  <1> QED BY <1>2, <1>3, <1>4 DEF EntriesFit

(* Multiples of a number, and what lies between them.                      *)
LEMMA Gaps ==
  ASSUME NEW m \in Nat, NEW i \in Nat, NEW j \in Nat, i < j
  PROVE  i * m \in Nat /\ j * m \in Nat /\ i * m + m <= j * m
  <1>1. \A x, y \in Nat : x * y \in Nat
        OBVIOUS
  <1>2. i * m \in Nat /\ j * m \in Nat
        BY <1>1
  <1> DEFINE d == j - i - 1
  <1>3. d \in Nat /\ j = i + 1 + d
        OBVIOUS
  <1> HIDE DEF d
  <1>4. (i + 1 + d) * m = i * m + m + d * m
        BY <1>3
  <1>5. d * m \in Nat
        BY <1>1, <1>3
  <1> QED BY <1>2, <1>3, <1>4, <1>5

LEMMA CellIs ==
  ASSUME EvenSlots, NEW b \in Blocks, NEW o \in 1..EntrySize
  PROVE  /\ b = <<b[1], b[2]>> /\ b[1] \in 0..SectorPerCluster - 1 /\ b[1] \in Sectors
         /\ b[2] \in 0..InSector - 1 /\ b[2] * EntrySize \in Nat
         /\ b[2] * EntrySize + o \in Slots
         /\ Cell(b, o) = <<b[1], b[2] * EntrySize + o>> /\ Cell(b, o) \in Place
  <1>1. /\ b = <<b[1], b[2]>> /\ b[1] \in 0..SectorPerCluster - 1 /\ b[2] \in 0..InSector - 1
        BY DEF Blocks
  <1>2. /\ EntrySize \in Nat /\ EntrySize > 1 /\ InSector \in Nat
        /\ EntriesPerSector = InSector * EntrySize /\ SectorPerCluster \in Nat
        BY SizesAre
  <1>3. b[2] * EntrySize \in Nat /\ b[2] * EntrySize + EntrySize <= InSector * EntrySize
    <2>1. b[2] \in Nat /\ b[2] < InSector
          BY <1>1, <1>2
    <2> QED BY <2>1, <1>2, Gaps
  <1> DEFINE x == b[2] * EntrySize
  <1>4. x + o \in 1..EntriesPerSector
    <2> HIDE DEF x
    <2>1. x \in Nat /\ x + EntrySize <= EntriesPerSector
          BY <1>2, <1>3 DEF x
    <2>2. EntriesPerSector \in Int
          BY SizesAre
    <2> QED BY <2>1, <2>2, <1>2
  <1>5. b[1] \in Sectors
        BY <1>1, <1>2 DEF Sectors
  <1> QED BY <1>1, <1>3, <1>4, <1>5 DEF Cell, Place, Slots

LEMMA CellOf ==
  ASSUME EvenSlots, NEW s \in 0..SectorPerCluster - 1, NEW i \in Slots
  PROVE  \E b \in Blocks, o \in 1..EntrySize : b[1] = s /\ b[2] * EntrySize + o = i
  <1>1. /\ EntrySize \in Nat /\ EntrySize > 1 /\ InSector \in Nat
        /\ EntriesPerSector = InSector * EntrySize /\ EntriesPerSector \in Nat
        BY SizesAre
  <1>2. i \in Nat /\ i >= 1 /\ i <= EntriesPerSector
        BY <1>1 DEF Slots
  <1> DEFINE S == {x \in Nat : \E j \in Nat, o \in 1..EntrySize : j * EntrySize + o = x + 1}
  <1>3. 0 \in S
    <2>1. 0 * EntrySize + 1 = 0 + 1 /\ 1 \in 1..EntrySize
          BY <1>1
    <2> QED BY <2>1
  <1>4. ASSUME NEW x \in Nat, x \in S PROVE x + 1 \in S
    <2>1. PICK j \in Nat, o \in 1..EntrySize : j * EntrySize + o = x + 1
          BY <1>4
    <2>2. j * EntrySize \in Nat /\ (j + 1) * EntrySize = j * EntrySize + EntrySize
      <3>1. j * EntrySize \in Nat /\ 1 * EntrySize = EntrySize
            BY <1>1, Gaps
      <3>2. \A u, v \in Nat : (u + 1) * v = u * v + v
            OBVIOUS
      <3> QED BY <3>1, <3>2, <1>1
    <2>3. CASE o < EntrySize
      <3>1. o + 1 \in 1..EntrySize
            BY <2>3, <1>1
      <3>2. j * EntrySize + (o + 1) = (x + 1) + 1
            BY <2>1, <2>2
      <3> QED BY <3>1, <3>2
    <2>4. CASE o = EntrySize
      <3>1. (j + 1) * EntrySize + 1 = (x + 1) + 1
        <4> DEFINE y == j * EntrySize
        <4>1. (j + 1) * EntrySize = y + EntrySize /\ y \in Nat /\ y + EntrySize = x + 1
              BY <2>1, <2>2, <2>4
        <4> QED BY <4>1
      <3>2. 1 \in 1..EntrySize /\ j + 1 \in Nat
            BY <1>1
      <3> QED BY <3>1, <3>2
    <2> QED BY <2>3, <2>4, <1>1
  <1>5. Nat \subseteq S
    <2> HIDE DEF S
    <2> QED BY <1>3, <1>4, Counting
  <1>6. PICK j \in Nat, o \in 1..EntrySize : j * EntrySize + o = i
    <2>1. i - 1 \in S /\ (i - 1) + 1 = i
          BY <1>2, <1>5
    <2> QED BY <2>1
  <1>7. j < InSector
    <2> SUFFICES ASSUME ~(j < InSector) PROVE FALSE
        OBVIOUS
    <2>1. InSector * EntrySize \in Nat /\ j * EntrySize \in Nat
          BY <1>1
    <2>2. InSector * EntrySize <= j * EntrySize
      <3>1. CASE j = InSector
            BY <3>1, <2>1
      <3>2. CASE InSector < j
        <4>1. InSector * EntrySize + EntrySize <= j * EntrySize
              BY <3>2, <1>1, Gaps
        <4> QED BY <4>1, <2>1, <1>1
      <3> QED BY <3>1, <3>2, <1>1
    <2> DEFINE y == j * EntrySize
    <2>3. y \in Nat /\ EntriesPerSector <= y /\ y + o = i /\ o >= 1 /\ o \in Nat
          BY <2>1, <2>2, <1>1, <1>6
    <2> HIDE DEF y
    <2> QED BY <2>3, <1>1, <1>2
  <1> DEFINE b == <<s, j>>
  <1>8. b \in Blocks /\ b[1] = s /\ b[2] = j
        BY <1>1, <1>7 DEF Blocks
  <1> QED BY <1>6, <1>8

LEMMA PlaceIs ==
  ASSUME EvenSlots, NEW p \in Place
  PROVE  /\ p = <<p[1], p[2]>> /\ p[1] \in Sectors /\ p[1] \in Int
         /\ p[2] \in Slots /\ p[2] \in Int
         /\ \/ p[1] = SectorPerCluster
            \/ \E b \in Blocks, o \in 1..EntrySize : p = Cell(b, o)
  <1>1. SectorPerCluster \in Nat /\ EntriesPerSector \in Nat
        BY SizesAre
  <1>2. p = <<p[1], p[2]>> /\ p[1] \in Sectors /\ p[2] \in Slots
        BY DEF Place
  <1>3. p[1] \in 0..SectorPerCluster /\ p[2] \in Int
        BY <1>1, <1>2 DEF Sectors, Slots
  <1>4. CASE p[1] # SectorPerCluster
    <2>1. p[1] \in 0..SectorPerCluster - 1
          BY <1>1, <1>3, <1>4
    <2>2. PICK b \in Blocks, o \in 1..EntrySize :
                 b[1] = p[1] /\ b[2] * EntrySize + o = p[2]
          BY <2>1, <1>2, CellOf
    <2>3. Cell(b, o) = <<p[1], p[2]>>
          BY <2>2 DEF Cell
    <2> QED BY <2>3, <1>2, <1>3
  <1> QED BY <1>2, <1>3, <1>4

LEMMA BlockOrder ==
  ASSUME EvenSlots, NEW b \in Blocks, NEW c \in Blocks
  PROVE  /\ Before(b, c) \/ b = c \/ Before(c, b)
         /\ ~(Before(b, c) /\ Before(c, b)) /\ ~Before(b, b)
  <1>1. /\ b = <<b[1], b[2]>> /\ b[1] \in Int /\ b[2] \in Int
        /\ c = <<c[1], c[2]>> /\ c[1] \in Int /\ c[2] \in Int
        BY DEF Blocks
  <1> QED BY <1>1 DEF Before

LEMMA CellOrder ==
  ASSUME EvenSlots, NEW b \in Blocks, NEW c \in Blocks,
         NEW o \in 1..EntrySize, NEW u \in 1..EntrySize
  PROVE  /\ Before(b, c) => Before(Cell(b, o), Cell(c, u))
         /\ b = c => (Before(Cell(b, o), Cell(c, u)) <=> o < u)
         /\ ~(Before(Cell(b, o), Cell(c, u)) /\ Before(Cell(c, u), Cell(b, o)))
         /\ Cell(b, o) = Cell(c, u) => b = c /\ o = u
  <1> DEFINE x == b[2] * EntrySize
             y == c[2] * EntrySize
  <1>1. /\ b = <<b[1], b[2]>> /\ b[1] \in Int /\ b[2] \in Nat /\ x \in Nat
        /\ Cell(b, o) = <<b[1], x + o>>
        /\ c = <<c[1], c[2]>> /\ c[1] \in Int /\ c[2] \in Nat /\ y \in Nat
        /\ Cell(c, u) = <<c[1], y + u>>
        BY CellIs
  <1>2. EntrySize \in Nat /\ o \in Int /\ u \in Int /\ o >= 1 /\ u >= 1
        /\ o <= EntrySize /\ u <= EntrySize
        BY SizesAre
  <1>3. b[2] < c[2] => x + EntrySize <= y
        BY <1>1, <1>2, Gaps
  <1>4. c[2] < b[2] => y + EntrySize <= x
        BY <1>1, <1>2, Gaps
  <1>5. b[2] = c[2] => x = y
        OBVIOUS
  <1> HIDE DEF x, y
  <1>6. /\ Cell(b, o)[1] = b[1] /\ Cell(b, o)[2] = x + o
        /\ Cell(c, u)[1] = c[1] /\ Cell(c, u)[2] = y + u
        BY <1>1
  <1>7. b[2] < c[2] => x + o < y + u
        BY <1>1, <1>2, <1>3
  <1>8. c[2] < b[2] => y + u < x + o
        BY <1>1, <1>2, <1>4
  <1>9. ASSUME Before(b, c) PROVE Before(Cell(b, o), Cell(c, u))
        BY <1>6, <1>7, <1>9 DEF Before
  <1>10. ASSUME b = c PROVE Before(Cell(b, o), Cell(c, u)) <=> o < u
    <2>1. b[1] = c[1] /\ x = y
          BY <1>5, <1>10
    <2>2. Before(Cell(b, o), Cell(c, u)) <=> x + o < x + u
          BY <1>1, <1>6, <2>1 DEF Before
    <2> QED BY <2>2, <1>1, <1>2
  <1>11. ~(Before(Cell(b, o), Cell(c, u)) /\ Before(Cell(c, u), Cell(b, o)))
    <2>1. x + o \in Int /\ y + u \in Int
          BY <1>1, <1>2
    <2> QED BY <2>1, <1>1, <1>6 DEF Before
  <1>12. ASSUME Cell(b, o) = Cell(c, u) PROVE b = c /\ o = u
    <2>1. b[1] = c[1] /\ x + o = y + u
          BY <1>6, <1>12
    <2>2. b[2] = c[2]
      <3>1. x + o \in Int /\ y + u \in Int
            BY <1>1, <1>2
      <3> QED BY <3>1, <2>1, <1>1, <1>7, <1>8
    <2>3. b = c
          BY <2>1, <2>2, <1>1
    <2> QED BY <2>1, <2>2, <2>3, <1>1, <1>2, <1>5
  <1> QED BY <1>9, <1>10, <1>11, <1>12

-----------------------------------------------------------------------------
(* A block is all of one kind, or one entry fills it.                      *)
FreeBlock(b, x) == \A o \in 1..EntrySize : At(Cell(b, o)) = x

Holds(b, n) ==
  /\ \A o \in 1..EntrySize - 1 : At(Cell(b, o)) = Slot("long", n, EntrySize - o)
  /\ At(Cell(b, EntrySize)) = Slot("short", n, 0)

(* Every block is free, one of dot entries, or holds the entry of a name,  *)
(* and no name has two.                                                    *)
EntriesWhole ==
  /\ \A b \in Blocks : \/ FreeBlock(b, End) \/ FreeBlock(b, Unused)
                       \/ FreeBlock(b, Dot)
                       \/ \E n \in Names : Holds(b, n)
  /\ \A n \in Names : \A b, c \in Blocks : Holds(b, n) /\ Holds(c, n) => b = c

(* Behind a block never used there are only such blocks.                   *)
EndsLast ==
  \A b, c \in Blocks : FreeBlock(b, End) /\ Before(b, c) => FreeBlock(c, End)

(* As long as there is one, the names in the directory are those placed.   *)
AsPlaced ==
  EndMarked => \A n \in Names : n \in placed <=> \E b \in Blocks : Holds(b, n)

DirInv == placed \subseteq Names /\ EntriesWhole /\ EndsLast /\ AsPlaced

LEMMA SlotsDiffer ==
  ASSUME NEW n, NEW i
  PROVE  /\ Slot("long", n, i) \notin {End, Unused, Dot, Data}
         /\ Slot("short", n, i) \notin {End, Unused, Dot, Data}
         /\ Slot("long", n, i).kind = "long" /\ Slot("short", n, i).kind = "short"
         /\ Slot("long", n, i).name = n /\ Slot("short", n, i).name = n
         /\ Slot("long", n, i).part = i /\ Slot("short", n, i).part = i
         /\ End # Unused /\ End # Data /\ Unused # Data
         /\ Dot # End /\ Dot # Unused
         /\ End.kind = "end" /\ Unused.kind = "unused" /\ Data.kind = "data"
         /\ Dot.kind = "dot"
  BY DEF Slot, End, Unused, Dot, Data

(* What a slot of the directory's own sectors can be.                      *)
LEMMA CellCases ==
  ASSUME EvenSlots, EntriesWhole, NEW b \in Blocks, NEW o \in 1..EntrySize
  PROVE  \/ FreeBlock(b, End) /\ At(Cell(b, o)) = End
         \/ FreeBlock(b, Unused) /\ At(Cell(b, o)) = Unused
         \/ FreeBlock(b, Dot) /\ At(Cell(b, o)) = Dot
         \/ \E n \in Names : /\ Holds(b, n)
                              /\ At(Cell(b, o)) = IF o = EntrySize THEN Slot("short", n, 0)
                                                  ELSE Slot("long", n, EntrySize - o)
  <1>1. CASE FreeBlock(b, End)
        BY <1>1 DEF FreeBlock
  <1>2. CASE FreeBlock(b, Unused)
        BY <1>2 DEF FreeBlock
  <1>4. CASE FreeBlock(b, Dot)
        BY <1>4 DEF FreeBlock
  <1>3. ASSUME NEW n \in Names, Holds(b, n)
        PROVE  At(Cell(b, o)) = IF o = EntrySize THEN Slot("short", n, 0)
                                ELSE Slot("long", n, EntrySize - o)
    <2>1. o # EntrySize => o \in 1..EntrySize - 1
          BY SizesAre
    <2> QED BY <2>1, <1>3 DEF Holds
  <1> QED BY <1>1, <1>2, <1>3, <1>4 DEF EntriesWhole

LEMMA HoldsApart ==
  ASSUME EvenSlots, NEW b \in Blocks, NEW n, Holds(b, n)
  PROVE  /\ ~FreeBlock(b, End) /\ ~FreeBlock(b, Unused) /\ ~FreeBlock(b, Dot)
         /\ \A x : Holds(b, x) => x = n
  <1>1. EntrySize \in 1..EntrySize
        BY SizesAre
  <1>2. At(Cell(b, EntrySize)) = Slot("short", n, 0)
        BY DEF Holds
  <1>3. At(Cell(b, EntrySize)) \notin {End, Unused, Dot}
        BY <1>2, SlotsDiffer
  <1>4. ASSUME NEW x, Holds(b, x) PROVE x = n
    <2>1. Slot("short", n, 0) = Slot("short", x, 0)
          BY <1>2, <1>4 DEF Holds
    <2> QED BY <2>1, SlotsDiffer
  <1> QED BY <1>1, <1>3, <1>4 DEF FreeBlock

(* The look-up comes to every slot of the directory but those never used.  *)
LEMMA VisitedIs ==
  ASSUME EvenSlots, DirInv, NEW b \in Blocks, NEW o \in 1..EntrySize
  PROVE  Cell(b, o) \in Visited <=> ~FreeBlock(b, End)
  <1> DEFINE p == Cell(b, o)
  <1>1. p \in Place /\ p[1] \in 0..SectorPerCluster - 1
        BY CellIs
  <1>2. ASSUME FreeBlock(b, End) PROVE p \notin Visited
    <2>1. At(p) = End
          BY <1>2 DEF FreeBlock
    <2> QED BY <2>1, <1>1 DEF Visited
  <1>3. ASSUME ~FreeBlock(b, End), NEW r \in Place, Before(r, p) \/ r = p
        PROVE  At(r) # End
    <2>1. r[1] # SectorPerCluster
      <3>1. r[1] <= p[1] /\ r[1] \in Int
            BY <1>1, <1>3, PlaceIs DEF Before
      <3> QED BY <3>1, <1>1, SizesAre
    <2>2. PICK c \in Blocks, u \in 1..EntrySize : r = Cell(c, u)
          BY <2>1, PlaceIs
    <2>3. ~Before(b, c)
      <3>1. Before(b, c) => Before(p, r)
            BY <2>2, CellOrder
      <3>2. ~(Before(p, r) /\ Before(r, p))
            BY <2>2, CellOrder
      <3>3. r = p => b = c
            BY <2>2, CellOrder
      <3> QED BY <3>1, <3>2, <3>3, <1>3, BlockOrder
    <2>4. b = c \/ Before(c, b)
          BY <2>3, BlockOrder
    <2>5. ~FreeBlock(c, End)
          BY <2>4, <1>3 DEF DirInv, EndsLast
    <2>6. EntriesWhole
          BY DEF DirInv
    <2> QED BY <2>2, <2>5, <2>6, CellCases, SlotsDiffer
  <1>4. ~FreeBlock(b, End) => p \in Visited
        BY <1>1, <1>3 DEF Visited
  <1> QED BY <1>2, <1>4

-----------------------------------------------------------------------------
(* The slots collected for a short entry are the long ones of its block.   *)
LEMMA SinceIs ==
  ASSUME EvenSlots, DirInv, NEW b \in Blocks, NEW n, Holds(b, n)
  PROVE  Since(Cell(b, EntrySize)) = {Cell(b, o) : o \in 1..EntrySize - 1}
  <1> DEFINE p == Cell(b, EntrySize)
             T == {Cell(b, o) : o \in 1..EntrySize - 1}
  <1>1. EntrySize \in Nat /\ EntrySize \in 1..EntrySize
        BY SizesAre
  <1>2. p \in Place /\ p \in Visited /\ EntriesWhole /\ p[1] \in 0..SectorPerCluster - 1
        BY <1>1, CellIs, VisitedIs, HoldsApart DEF DirInv
  <1>3. ASSUME NEW x \in T PROVE x \in Since(p)
    <2>1. PICK o \in 1..EntrySize - 1 : x = Cell(b, o)
          OBVIOUS
    <2>2. o \in 1..EntrySize /\ o < EntrySize
          BY <1>1
    <2>3. x \in Visited /\ Before(x, p)
          BY <1>1, <2>1, <2>2, VisitedIs, HoldsApart, CellOrder
    <2>4. At(x).kind = "long"
          BY <2>1, SlotsDiffer DEF Holds
    <2>5. ASSUME NEW r \in Visited, Before(x, r), Before(r, p) PROVE ~IsShort(At(r))
      <3>1. r \in Place
            BY DEF Visited
      <3>2. r[1] # SectorPerCluster
        <4>1. r[1] <= p[1] /\ r[1] \in Int
              BY <1>2, <2>5, <3>1, PlaceIs DEF Before
        <4> QED BY <4>1, <1>2, SizesAre
      <3>3. PICK c \in Blocks, u \in 1..EntrySize : r = Cell(c, u)
            BY <3>1, <3>2, PlaceIs
      <3>4. c = b
        <4>1. ~Before(c, b)
              BY <2>1, <2>2, <2>5, <3>3, CellOrder
        <4>2. ~Before(b, c)
              BY <1>1, <2>5, <3>3, CellOrder
        <4> QED BY <4>1, <4>2, BlockOrder
      <3>5. u < EntrySize
            BY <1>1, <2>5, <3>3, <3>4, CellOrder
      <3>6. u \in 1..EntrySize - 1
            BY <1>1, <3>5
      <3>7. At(r) = Slot("long", n, EntrySize - u)
            BY <3>3, <3>4, <3>6 DEF Holds
      <3> QED BY <3>7, SlotsDiffer DEF IsShort
    <2> QED BY <2>3, <2>4, <2>5 DEF Since
  <1>4. ASSUME NEW x \in Since(p) PROVE x \in T
    <2>1. x \in Visited /\ x \in Place /\ Before(x, p) /\ At(x).kind = "long"
          /\ \A r \in Visited : Before(x, r) /\ Before(r, p) => ~IsShort(At(r))
          BY DEF Since, Visited
    <2>2. x[1] # SectorPerCluster
      <3>1. x[1] <= p[1] /\ x[1] \in Int
            BY <1>2, <2>1, PlaceIs DEF Before
      <3> QED BY <3>1, <1>2, SizesAre
    <2>3. PICK c \in Blocks, u \in 1..EntrySize : x = Cell(c, u)
          BY <2>1, <2>2, PlaceIs
    <2>4. PICK m \in Names : Holds(c, m) /\ u # EntrySize
          BY <1>2, <2>1, <2>3, CellCases, SlotsDiffer
    <2>5. c = b
      <3>1. ~Before(b, c)
            BY <1>1, <2>1, <2>3, CellOrder
      <3>2. ~Before(c, b)
        <4> SUFFICES ASSUME Before(c, b) PROVE FALSE
            OBVIOUS
        <4> DEFINE r == Cell(c, EntrySize)
        <4>1. r \in Visited
              BY <1>1, <2>4, VisitedIs, HoldsApart
        <4>2. Before(r, p)
              BY <1>1, CellOrder
        <4>3. u < EntrySize
              BY <1>1, <2>4
        <4>4. Before(x, r)
              BY <1>1, <2>3, <4>3, CellOrder
        <4>5. IsShort(At(r))
              BY <2>4, SlotsDiffer DEF Holds, IsShort
        <4> QED BY <2>1, <4>1, <4>2, <4>4, <4>5
      <3> QED BY <3>1, <3>2, BlockOrder
    <2>6. u \in 1..EntrySize - 1
          BY <1>1, <2>4
    <2> QED BY <2>3, <2>5, <2>6
  <1> QED BY <1>3, <1>4

LEMMA ListedCount ==
  ASSUME NEW T, NEW k \in Nat, NEW f \in [1..k -> T],
         \A i, j \in 1..k : i # j => f[i] # f[j],
         \A x \in T : \E i \in 1..k : f[i] = x
  PROVE  Cardinality(T) = k
  <1>1. f \in Injection(1..k, T)
        BY DEF Injection, IsInjective
  <1>2. f \in Surjection(1..k, T)
        BY DEF Surjection
  <1>3. ExistsBijection(1..k, T)
        BY <1>1, <1>2 DEF ExistsBijection, Bijection
  <1> QED BY <1>3, FS_CountingElements

LEMMA CellsCount ==
  ASSUME EvenSlots, NEW b \in Blocks, NEW k \in 0..EntrySize
  PROVE  Cardinality({Cell(b, o) : o \in 1..k}) = k
  <1> DEFINE T == {Cell(b, o) : o \in 1..k}
             f == [o \in 1..k |-> Cell(b, o)]
  <1>1. k \in Nat /\ \A o \in 1..k : o \in 1..EntrySize
        BY SizesAre
  <1>2. f \in [1..k -> T]
        OBVIOUS
  <1>3. \A i, j \in 1..k : i # j => f[i] # f[j]
        BY <1>1, CellOrder
  <1>4. \A x \in T : \E i \in 1..k : f[i] = x
        OBVIOUS
  <1> HIDE DEF f, T
  <1>5. Cardinality(T) = k
        BY <1>1, <1>2, <1>3, <1>4, ListedCount
  <1> QED BY <1>5 DEF T

LEMMA CollectedIs ==
  ASSUME EvenSlots, DirInv, NEW b \in Blocks, NEW n, Holds(b, n)
  PROVE  Collected(Cell(b, EntrySize)) =
           [i \in 1..EntrySize - 1 |-> Slot("long", n, EntrySize - i)]
  <1> DEFINE p == Cell(b, EntrySize)
             S == Since(p)
             k == EntrySize - 1
             earlier(q) == {r \in S : Before(r, q)}
             nth(i) == CHOOSE q \in S : Cardinality(earlier(q)) = i - 1
  <1>1. EntrySize \in Nat /\ k \in Nat /\ k \in 0..EntrySize
        /\ \A o \in 1..k : o \in 1..EntrySize
        BY SizesAre
  <1>2. S = {Cell(b, o) : o \in 1..k}
        BY SinceIs
  <1>3. Cardinality(S) = k
        BY <1>1, <1>2, CellsCount
  <1>4. ASSUME NEW o \in 1..k PROVE Cardinality(earlier(Cell(b, o))) = o - 1
    <2>1. earlier(Cell(b, o)) = {Cell(b, u) : u \in 1..o - 1}
      <3>1. ASSUME NEW x \in earlier(Cell(b, o)) PROVE x \in {Cell(b, u) : u \in 1..o - 1}
        <4>1. PICK u \in 1..k : x = Cell(b, u)
              BY <1>2
        <4>2. Before(Cell(b, u), Cell(b, o))
              BY <4>1
        <4>3. u < o
              BY <4>2, <1>1, CellOrder
        <4>4. u \in 1..o - 1
              BY <4>3, <1>1
        <4> QED BY <4>1, <4>4
      <3>2. ASSUME NEW u \in 1..o - 1 PROVE Cell(b, u) \in earlier(Cell(b, o))
        <4>1. u \in 1..k /\ u < o
              BY <1>1
        <4>2. Before(Cell(b, u), Cell(b, o))
              BY <4>1, <1>1, CellOrder
        <4> QED BY <4>1, <4>2, <1>2
      <3> QED BY <3>1, <3>2
    <2>2. o - 1 \in 0..EntrySize
          BY <1>1
    <2> QED BY <2>1, <2>2, CellsCount
  <1> HIDE DEF S, earlier
  <1>5. ASSUME NEW i \in 1..k PROVE nth(i) = Cell(b, i)
    <2>1. Cell(b, i) \in S /\ Cardinality(earlier(Cell(b, i))) = i - 1
          BY <1>2, <1>4
    <2>2. ASSUME NEW q \in S, Cardinality(earlier(q)) = i - 1 PROVE q = Cell(b, i)
      <3>1. PICK o \in 1..k : q = Cell(b, o)
            BY <1>2
      <3>2. o - 1 = i - 1
            BY <3>1, <2>2, <1>4
      <3>3. o = i
            BY <3>2, <1>1
      <3> QED BY <3>1, <3>3
    <2> QED BY <2>1, <2>2
  <1>6. Collected(p) = [i \in 1..k |-> At(nth(i))]
        BY <1>3 DEF Collected, S, earlier
  <1> HIDE DEF nth, k
  <1>7. \A i \in 1..k : At(nth(i)) = Slot("long", n, EntrySize - i)
        BY <1>5 DEF Holds, k
  <1> QED BY <1>6, <1>7 DEF k

(* The dot entries have no long name.                                      *)
LEMMA CollectedDot ==
  ASSUME EvenSlots, DirInv, NEW d \in Blocks, NEW v \in 1..EntrySize, FreeBlock(d, Dot)
  PROVE  Len(Collected(Cell(d, v))) = 0
  <1> DEFINE p == Cell(d, v)
             S == Since(p)
  <1>1. EntrySize \in Nat /\ EntrySize \in 1..EntrySize /\ EntriesWhole
        /\ p \in Place /\ p[1] \in 0..SectorPerCluster - 1
        BY SizesAre, CellIs DEF DirInv
  <1>2. ASSUME NEW x \in S PROVE FALSE
    <2>1. x \in Visited /\ x \in Place /\ Before(x, p) /\ At(x).kind = "long"
          /\ \A r \in Visited : Before(x, r) /\ Before(r, p) => ~IsShort(At(r))
          BY DEF Since, Visited
    <2>2. x[1] # SectorPerCluster
      <3>1. x[1] <= p[1] /\ x[1] \in Int
            BY <1>1, <2>1, PlaceIs DEF Before
      <3> QED BY <3>1, <1>1, SizesAre
    <2>3. PICK c \in Blocks, u \in 1..EntrySize : x = Cell(c, u)
          BY <2>1, <2>2, PlaceIs
    <2>4. PICK m \in Names : Holds(c, m) /\ u # EntrySize
          BY <1>1, <2>1, <2>3, CellCases, SlotsDiffer
    <2> DEFINE r == Cell(c, EntrySize)
    <2>5. r \in Visited
          BY <1>1, <2>4, VisitedIs, HoldsApart
    <2>6. Before(r, p)
      <3>1. c # d
            BY <2>4, HoldsApart
      <3>2. ~Before(d, c)
            BY <2>1, <2>3, CellOrder
      <3>3. Before(c, d)
            BY <3>1, <3>2, BlockOrder
      <3> QED BY <3>3, <1>1, CellOrder
    <2>7. u < EntrySize
          BY <1>1, <2>4
    <2>8. Before(x, r)
          BY <1>1, <2>3, <2>7, CellOrder
    <2>9. IsShort(At(r))
          BY <2>4, SlotsDiffer DEF Holds, IsShort
    <2> QED BY <2>1, <2>5, <2>6, <2>8, <2>9
  <1>3. Cardinality(S) = 0
        BY <1>2, FS_EmptySet
  <1>4. Collected(p) = [i \in 1..0 |-> Collected(p)[i]]
        BY <1>3 DEF Collected
  <1> HIDE DEF S, p
  <1>5. Len(Collected(p)) = 0
        BY <1>4
  <1> QED BY <1>5 DEF p

(* In the directory's own sectors a name is found where a block holds its  *)
(* entry.                                                                  *)
LEMMA MatchesAre ==
  ASSUME EvenSlots, DirInv, NEW n \in Names
  PROVE  /\ \A b \in Blocks : Holds(b, n) => Cell(b, EntrySize) \in Matches(n)
         /\ \A p \in Matches(n) : p \in Place /\ p \in Visited
         /\ \A p \in Matches(n) : p[1] # SectorPerCluster =>
              \E b \in Blocks : Holds(b, n) /\ p = Cell(b, EntrySize)
  <1>1. /\ EntrySize \in Nat /\ EntrySize \in 1..EntrySize /\ EntriesWhole
        /\ Lfn[n] = EntrySize - 1 /\ EntrySize > 1
        BY SizesAre DEF DirInv
  <1> DEFINE long(m) == [i \in 1..EntrySize - 1 |-> Slot("long", m, EntrySize - i)]
  <1>2. ASSUME NEW m PROVE Len(long(m)) = EntrySize - 1
        BY <1>1
  <1>3. ASSUME NEW m PROVE long(m)[EntrySize - 1] = Slot("long", m, 1)
        BY <1>1
  <1>4. ASSUME NEW b \in Blocks, Holds(b, n) PROVE Cell(b, EntrySize) \in Matches(n)
    <2> DEFINE p == Cell(b, EntrySize)
    <2>1. p \in Visited
          BY <1>1, <1>4, VisitedIs, HoldsApart
    <2>2. IsShort(At(p))
          BY <1>4, SlotsDiffer DEF Holds, IsShort
    <2>3. Collected(p) = long(n)
          BY <1>4, CollectedIs
    <2>4. ASSUME NEW i \in 1..Lfn[n]
          PROVE  long(n)[Len(long(n)) + 1 - i] = Slot("long", n, i)
      <3>1. EntrySize - i \in 1..EntrySize - 1 /\ EntrySize - (EntrySize - i) = i
            /\ (EntrySize - 1) + 1 - i = EntrySize - i
            BY <1>1
      <3> QED BY <3>1, <1>2
    <2>5. Spells(long(n), n)
          BY <2>4, <1>1, <1>2 DEF Spells
    <2> QED BY <2>1, <2>2, <2>3, <2>5 DEF Matches
  <1>5. ASSUME NEW p \in Matches(n)
        PROVE  p \in Visited /\ p \in Place /\ IsShort(At(p)) /\ Spells(Collected(p), n)
        BY DEF Matches, Visited
  <1>6. ASSUME NEW p \in Matches(n), p[1] # SectorPerCluster
        PROVE  \E b \in Blocks : Holds(b, n) /\ p = Cell(b, EntrySize)
    <2>1. p \in Visited /\ p \in Place /\ IsShort(At(p)) /\ Spells(Collected(p), n)
          BY <1>5
    <2>3. PICK c \in Blocks, u \in 1..EntrySize : p = Cell(c, u)
          BY <2>1, <1>6, PlaceIs
    <2>7. ~FreeBlock(c, Dot)
      <3>1. FreeBlock(c, Dot) => Len(Collected(p)) = 0
            BY <2>3, CollectedDot
      <3> QED BY <3>1, <2>1, <1>1 DEF Spells
    <2>4. PICK m \in Names : Holds(c, m) /\ u = EntrySize
          BY <1>1, <2>1, <2>3, <2>7, CellCases, SlotsDiffer DEF IsShort
    <2>5. Collected(p) = long(m)
          BY <2>3, <2>4, CollectedIs
    <2>6. m = n
      <3>1. 1 \in 1..Lfn[n]
            BY <1>1
      <3>2. long(m)[Len(long(m)) + 1 - 1] = Slot("long", n, 1)
            BY <2>1, <2>5, <3>1 DEF Spells
      <3>3. Len(long(m)) + 1 - 1 = EntrySize - 1
            BY <1>1, <1>2
      <3>4. Slot("long", m, 1) = Slot("long", n, 1)
            BY <1>3, <3>2, <3>3
      <3> QED BY <3>4, SlotsDiffer
    <2> QED BY <2>3, <2>4, <2>6
  <1> QED BY <1>4, <1>5, <1>6

(* What lies behind an end mark is not looked at.                          *)
LEMMA BeyondUnseen ==
  ASSUME EndMarked, NEW p \in Visited
  PROVE  p[1] # SectorPerCluster
  <1> SUFFICES ASSUME p[1] = SectorPerCluster PROVE FALSE
      OBVIOUS
  <1>1. PICK q \in Own : At(q) = End
        BY DEF EndMarked
  <1>2. q \in Place /\ Before(q, p)
        BY DEF Own, Before
  <1> QED BY <1>1, <1>2 DEF Visited

(* So is_file_in_dir is right.                                             *)
LEMMA HeldIsFound ==
  ASSUME EvenSlots, DirInv, NEW n \in Names
  PROVE  /\ \A b \in Blocks : Holds(b, n) => IsFileInDir(n)
         /\ EndMarked => (IsFileInDir(n) <=> n \in placed)
  <1>1. \A b \in Blocks : Holds(b, n) => IsFileInDir(n)
        BY MatchesAre DEF IsFileInDir
  <1>2. ASSUME EndMarked, IsFileInDir(n) PROVE \E b \in Blocks : Holds(b, n)
        BY <1>2, MatchesAre, BeyondUnseen DEF IsFileInDir
  <1> QED BY <1>1, <1>2 DEF DirInv, AsPlaced

LEMMA FoundHolds ==
  ASSUME EvenSlots, DirInv
  PROVE  FoundIffPlaced
  BY HeldIsFound DEF FoundIffPlaced

-----------------------------------------------------------------------------
(* A function defined by recursion over 0..n exists: g gives the next      *)
(* value.                                                                  *)
Recurses(V, b, n, g) ==
  \E w \in [0..n -> V] : w[0] = b /\ \A i \in 1..n : w[i] = g[i][w[i - 1]]

LEMMA Recursion ==
  ASSUME NEW V, NEW b \in V, NEW n \in Nat, NEW g \in [1..n -> [V -> V]]
  PROVE  Recurses(V, b, n, g)
  <1> DEFINE Upto(k) == \E w \in [0..k -> V] :
                          w[0] = b /\ \A i \in 1..k : w[i] = g[i][w[i - 1]]
             S == {k \in Nat : k <= n => Upto(k)}
  <1>1. 0 \in S
    <2> DEFINE w == [i \in 0..0 |-> b]
    <2>1. w \in [0..0 -> V] /\ w[0] = b /\ \A i \in 1..0 : w[i] = g[i][w[i - 1]]
          OBVIOUS
    <2>2. Upto(0)
          BY <2>1
    <2> QED BY <2>2
  <1>2. ASSUME NEW k \in Nat, k \in S PROVE k + 1 \in S
    <2> SUFFICES ASSUME k + 1 <= n PROVE Upto(k + 1)
        OBVIOUS
    <2>1. PICK w \in [0..k -> V] : w[0] = b /\ \A i \in 1..k : w[i] = g[i][w[i - 1]]
          BY <1>2
    <2> DEFINE v == [i \in 0..k + 1 |-> IF i = k + 1 THEN g[k + 1][w[k]] ELSE w[i]]
    <2>2. k + 1 \in 1..n /\ w[k] \in V
          OBVIOUS
    <2>3. g[k + 1][w[k]] \in V
          BY <2>2
    <2>4. v \in [0..k + 1 -> V] /\ v[0] = b
          BY <2>1, <2>3
    <2>5. ASSUME NEW i \in 1..k + 1 PROVE v[i] = g[i][v[i - 1]]
      <3>1. CASE i = k + 1
            BY <3>1
      <3>2. CASE i # k + 1
        <4>1. i \in 1..k /\ i - 1 \in 0..k /\ i \in 0..k + 1 /\ i - 1 \in 0..k + 1 /\ i - 1 # k + 1
              BY <3>2
        <4>2. v[i] = w[i] /\ v[i - 1] = w[i - 1]
              BY <4>1, <3>2
        <4> QED BY <2>1, <4>1, <4>2
      <3> QED BY <3>1, <3>2
    <2> QED BY <2>4, <2>5
  <1> HIDE DEF Upto
  <1>3. Nat \subseteq S
        BY <1>1, <1>2, Counting
  <1> QED BY <1>3 DEF Upto, Recurses

(* The search for empty slots: what each slot of a sector counts.          *)
Worth(s, i) == CASE slots[s][i] = End -> EntriesPerSector + 1 - i
                 [] slots[s][i] = Unused -> 1
                 [] OTHER -> 0

Counts(s, w) ==
  /\ w[0] = 0
  /\ \A i \in 1..EntriesPerSector : w[i] \in Nat /\ w[i] = w[i - 1] + Worth(s, i)
  /\ Counted(s) = w[EntriesPerSector]

LEMMA WorthIs ==
  ASSUME NEW s, NEW i \in 1..EntriesPerSector
  PROVE  /\ Worth(s, i) \in Nat
         /\ IsEmpty(slots[s][i]) => Worth(s, i) >= 1
         /\ ~IsEmpty(slots[s][i]) => Worth(s, i) = 0
  <1>1. EntriesPerSector \in Nat
        BY FatDirAssumption DEF FatDirAssumption
  <1>2. CASE slots[s][i] = End
    <2>1. Worth(s, i) = EntriesPerSector + 1 - i \/ Worth(s, i) = 1
          BY <1>2 DEF Worth
    <2>2. IsEmpty(slots[s][i])
          BY <1>2 DEF IsEmpty
    <2> QED BY <2>1, <2>2, <1>1
  <1>3. CASE slots[s][i] # End /\ slots[s][i] = Unused
    <2>1. Worth(s, i) = 1
          BY <1>3 DEF Worth
    <2>2. IsEmpty(slots[s][i])
          BY <1>3 DEF IsEmpty
    <2> QED BY <2>1, <2>2
  <1>4. CASE slots[s][i] # End /\ slots[s][i] # Unused
    <2>1. Worth(s, i) = 0
          BY <1>4 DEF Worth
    <2>2. ~IsEmpty(slots[s][i])
          BY <1>4 DEF IsEmpty
    <2> QED BY <2>1, <2>2
  <1> QED BY <1>2, <1>3, <1>4

LEMMA CountedIs ==
  ASSUME NEW s
  PROVE  \E w : Counts(s, w)
  <1> DEFINE n == EntriesPerSector
             v == [i \in 1..n |-> Worth(s, i)]
             g == [i \in 1..n |-> [x \in Nat |-> x + v[i]]]
             Again(f) == [i \in 0..n |-> IF i = 0 THEN 0 ELSE f[i - 1] + Worth(s, i)]
             f0 == CHOOSE f : f = Again(f)
  <1>1. n \in Nat
        BY FatDirAssumption DEF FatDirAssumption
  <1>2. \A i \in 1..n : v[i] \in Nat /\ v[i] = Worth(s, i)
        BY WorthIs
  <1>3. Counted(s) = f0[n]
        BY DEF Counted, Worth
  <1> HIDE DEF n, v
  <1>4. g \in [1..n -> [Nat -> Nat]]
        BY <1>2
  <1>5. \A i \in 1..n : \A x \in Nat : g[i][x] = x + v[i]
        OBVIOUS
  <1> HIDE DEF g
  <1>6. PICK w \in [0..n -> Nat] : w[0] = 0 /\ \A i \in 1..n : w[i] = g[i][w[i - 1]]
    <2>1. 0 \in Nat
          OBVIOUS
    <2>2. Recurses(Nat, 0, n, g)
          BY <1>1, <1>4, <2>1, Recursion
    <2> QED BY <2>2 DEF Recurses
  <1>7. \A i \in 1..n : w[i] = w[i - 1] + Worth(s, i)
    <2> SUFFICES ASSUME NEW i \in 1..n PROVE w[i] = w[i - 1] + Worth(s, i)
        OBVIOUS
    <2>1. i - 1 \in 0..n
          BY <1>1
    <2>2. w[i - 1] \in Nat
          BY <1>6, <2>1
    <2>3. w[i] = w[i - 1] + v[i]
          BY <1>5, <1>6, <2>2
    <2> QED BY <1>2, <2>3
  <1>8. w = Again(w)
    <2>1. \A i \in 0..n : i # 0 => i \in 1..n
          BY <1>1
    <2>2. \A i \in 0..n : w[i] = IF i = 0 THEN 0 ELSE w[i - 1] + Worth(s, i)
          BY <1>6, <1>7, <2>1
    <2> QED BY <2>2
  <1>9. f0 = Again(f0)
        BY <1>8
  <1> HIDE DEF f0
  <1>10. f0[0] = 0 /\ \A i \in 1..n : f0[i] = f0[i - 1] + Worth(s, i)
    <2>1. \A i \in 0..n : f0[i] = IF i = 0 THEN 0 ELSE f0[i - 1] + Worth(s, i)
          BY <1>9
    <2>2. 0 \in 0..n /\ \A i \in 1..n : i \in 0..n /\ i # 0
          BY <1>1
    <2> QED BY <2>1, <2>2
  <1>11. \A i \in 0..n : f0[i] \in Nat
    <2> DEFINE S == {i \in Nat : i \in 0..n => f0[i] \in Nat}
    <2>1. 0 \in S
          BY <1>10
    <2>2. ASSUME NEW i \in Nat, i \in S PROVE i + 1 \in S
      <3> SUFFICES ASSUME i + 1 \in 0..n PROVE f0[i + 1] \in Nat
          OBVIOUS
      <3>1. i \in 0..n /\ i + 1 \in 1..n /\ i + 1 - 1 = i
            BY <1>1
      <3>2. f0[i] \in Nat
            BY <2>2, <3>1
      <3>3. f0[i + 1] = f0[i] + Worth(s, i + 1) /\ Worth(s, i + 1) \in Nat
            BY <3>1, <1>2, <1>10
      <3> QED BY <3>2, <3>3
    <2> HIDE DEF S
    <2>3. Nat \subseteq S
          BY <2>1, <2>2, Counting
    <2>4. \A i \in 0..n : i \in Nat
          BY <1>1
    <2> QED BY <2>3, <2>4 DEF S
  <1>12. \A i \in 1..n : f0[i] \in Nat
        BY <1>1, <1>11
  <1>13. Counts(s, f0)
        BY <1>3, <1>10, <1>12 DEF Counts, n
  <1> QED BY <1>13

LEMMA CountsUp ==
  ASSUME NEW s, NEW w, Counts(s, w)
  PROVE  /\ \A i \in 0..EntriesPerSector : w[i] \in Nat
         /\ \A i \in 0..EntriesPerSector : w[i] <= w[EntriesPerSector]
  <1> DEFINE n == EntriesPerSector
  <1>1. n \in Nat
        BY FatDirAssumption DEF FatDirAssumption
  <1>2. \A i \in 0..n : w[i] \in Nat
    <2>1. \A i \in 0..n : i = 0 \/ i \in 1..n
          BY <1>1
    <2> QED BY <2>1 DEF Counts
  <1> SUFFICES ASSUME NEW i \in 0..n PROVE w[i] <= w[n]
      BY <1>2
  <1> DEFINE S == {d \in Nat : i + d <= n => w[i] <= w[i + d]}
  <1>3. 0 \in S
    <2>1. i + 0 = i /\ w[i] \in Nat
          BY <1>1, <1>2
    <2> QED BY <2>1
  <1>4. ASSUME NEW d \in Nat, d \in S PROVE d + 1 \in S
    <2> SUFFICES ASSUME i + (d + 1) <= n PROVE w[i] <= w[i + (d + 1)]
        OBVIOUS
    <2> DEFINE j == i + (d + 1)
    <2>1. j \in 1..n /\ j - 1 = i + d /\ i + d \in 0..n /\ i + d <= n
          BY <1>1
    <2>2. w[j] = w[i + d] + Worth(s, j)
          BY <2>1 DEF Counts
    <2>3. w[i] <= w[i + d] /\ Worth(s, j) \in Nat
          BY <1>4, <2>1, WorthIs
    <2>4. w[i] \in Nat /\ w[i + d] \in Nat
          BY <1>2, <2>1
    <2> QED BY <2>2, <2>3, <2>4
  <1>5. n - i \in S
    <2> HIDE DEF S
    <2>1. Nat \subseteq S
          BY <1>3, <1>4, Counting
    <2>2. n - i \in Nat
          BY <1>1
    <2> QED BY <2>1, <2>2
  <1>6. i + (n - i) = n /\ i + (n - i) <= n
        BY <1>1
  <1> QED BY <1>5, <1>6

(* Where nothing is empty nothing is counted.                              *)
LEMMA CountsNothing ==
  ASSUME NEW s, \A i \in Slots : ~IsEmpty(slots[s][i])
  PROVE  Counted(s) = 0
  <1> DEFINE n == EntriesPerSector
  <1>1. n \in Nat /\ Slots = 1..n
        BY FatDirAssumption DEF FatDirAssumption, Slots
  <1>2. PICK w : Counts(s, w)
        BY CountedIs
  <1> DEFINE S == {i \in Nat : i <= n => w[i] = 0}
  <1>3. 0 \in S
        BY <1>2 DEF Counts
  <1>4. ASSUME NEW i \in Nat, i \in S PROVE i + 1 \in S
    <2> SUFFICES ASSUME i + 1 <= n PROVE w[i + 1] = 0
        OBVIOUS
    <2>1. i + 1 \in 1..n /\ i + 1 - 1 = i /\ i <= n
          BY <1>1
    <2>2. w[i + 1] = w[i] + Worth(s, i + 1)
          BY <1>2, <2>1 DEF Counts
    <2>3. Worth(s, i + 1) = 0
          BY <1>1, <2>1, WorthIs
    <2> QED BY <1>4, <2>1, <2>2, <2>3
  <1>5. n \in S
    <2> HIDE DEF S
    <2>1. Nat \subseteq S
          BY <1>3, <1>4, Counting
    <2> QED BY <1>1, <2>1
  <1> QED BY <1>1, <1>2, <1>5 DEF Counts

LEMMA FirstEmptyIs ==
  ASSUME NEW s, NEW e \in Slots, IsEmpty(slots[s][e])
  PROVE  /\ FirstEmpty(s) \in Slots /\ IsEmpty(slots[s][FirstEmpty(s)])
         /\ \A j \in 1..FirstEmpty(s) - 1 : ~IsEmpty(slots[s][j])
  <1> DEFINE S == {i \in Slots : IsEmpty(slots[s][i])}
  <1>1. EntriesPerSector \in Nat /\ Slots = 1..EntriesPerSector
        BY FatDirAssumption DEF FatDirAssumption, Slots
  <1>2. S \subseteq Nat /\ e \in S
        BY <1>1
  <1>3. \E i \in S : \A y \in S : i <= y
    <2>1. IsWellFoundedOn(OpToRel(<, Nat), Nat)
          BY NatLessThanWellFounded
    <2>2. \E x \in S : \A y \in S : ~(<<y, x>> \in OpToRel(<, Nat))
      <3> HIDE DEF S
      <3>1. S \subseteq Nat /\ S # {}
            BY <1>2
      <3> QED BY <2>1, <3>1, WFMin, Zenon
    <2>3. PICK x \in S : \A y \in S : ~(<<y, x>> \in OpToRel(<, Nat))
          BY <2>2
    <2>4. ASSUME NEW y \in S PROVE x <= y
      <3>1. x \in Nat /\ y \in Nat
            BY <1>2
      <3>2. ~(y < x)
            BY <2>3, <3>1 DEF OpToRel
      <3> QED BY <3>1, <3>2
    <2> QED BY <2>4
  <1>4. PICK i \in S : \A y \in S : i <= y
        BY <1>3
  <1>5. \A j \in 1..i - 1 : ~IsEmpty(slots[s][j])
    <2> SUFFICES ASSUME NEW j \in 1..i - 1, IsEmpty(slots[s][j]) PROVE FALSE
        OBVIOUS
    <2>1. i \in 1..EntriesPerSector
          BY <1>1
    <2>2. j \in Slots /\ j < i
          BY <1>1, <2>1
    <2>3. j \in S
          BY <2>2
    <2>4. i <= j
          BY <1>4, <2>3
    <2> QED BY <2>1, <2>2, <2>4
  <1>6. i \in Slots /\ IsEmpty(slots[s][i])
        OBVIOUS
  <1> QED BY <1>5, <1>6 DEF FirstEmpty

-----------------------------------------------------------------------------
FreeFor(b) == FreeBlock(b, End) \/ FreeBlock(b, Unused)

(* A free block counts for more slots than an entry has long names.        *)
LEMMA CountsFree ==
  ASSUME EvenSlots, NEW b \in Blocks, FreeFor(b)
  PROVE  Counted(b[1]) \in Nat /\ Counted(b[1]) >= EntrySize
  <1> DEFINE n == EntriesPerSector
             m == EntrySize
             x == b[2] * EntrySize
             s == b[1]
  <1>1. n \in Nat /\ m \in Nat /\ m > 1 /\ m \in 1..m
        BY SizesAre
  <1>2. x \in Nat /\ x + m \in 1..n /\ \A o \in 1..m : x + o \in 1..n
        BY <1>1, CellIs DEF Slots
  <1>3. \A o \in 1..m : IsEmpty(slots[s][x + o])
    <2> SUFFICES ASSUME NEW o \in 1..m PROVE IsEmpty(slots[s][x + o])
        OBVIOUS
    <2>1. Cell(b, o)[1] = s /\ Cell(b, o)[2] = x + o
          BY DEF Cell
    <2>2. At(Cell(b, o)) = End \/ At(Cell(b, o)) = Unused
          BY DEF FreeFor, FreeBlock
    <2> QED BY <2>1, <2>2 DEF At, IsEmpty
  <1> HIDE DEF n, m, x, s
  <1>4. PICK w : Counts(s, w)
        BY CountedIs
  <1>5. \A i \in 0..n : w[i] \in Nat /\ w[i] <= w[n]
        BY <1>4, CountsUp DEF n
  <1> DEFINE S == {o \in Nat : o <= m => w[x + o] >= o}
  <1>6. 0 \in S
    <2>1. x + 0 \in 0..n
          BY <1>1, <1>2
    <2>2. w[x + 0] \in Nat
          BY <2>1, <1>5
    <2> QED BY <2>2
  <1>7. ASSUME NEW o \in Nat, o \in S PROVE o + 1 \in S
    <2> SUFFICES ASSUME o + 1 <= m PROVE w[x + (o + 1)] >= o + 1
        OBVIOUS
    <2> DEFINE j == x + (o + 1)
    <2>1. o + 1 \in 1..m /\ o <= m
          BY <1>1
    <2>2. j \in 1..n /\ j - 1 = x + o /\ x + o \in 0..n
          BY <2>1, <1>1, <1>2
    <2>3. w[j] = w[x + o] + Worth(s, j)
          BY <2>2, <1>4 DEF Counts, n
    <2>4. Worth(s, j) \in Nat /\ Worth(s, j) >= 1
          BY <2>1, <2>2, <1>3, WorthIs DEF n
    <2>5. w[x + o] >= o /\ w[x + o] \in Nat
          BY <2>1, <2>2, <1>5, <1>7
    <2> HIDE DEF j
    <2> QED BY <2>3, <2>4, <2>5 DEF j
  <1>8. w[x + m] >= m
    <2> HIDE DEF S
    <2>1. Nat \subseteq S
          BY <1>6, <1>7, Counting
    <2>2. m \in S
          BY <2>1, <1>1
    <2> QED BY <2>2, <1>1 DEF S
  <1>9. x + m \in 0..n /\ n \in 0..n
        BY <1>1, <1>2
  <1>10. w[x + m] \in Nat /\ w[n] \in Nat /\ w[x + m] <= w[n]
        BY <1>5, <1>9
  <1>11. Counted(s) = w[n]
        BY <1>4 DEF Counts, n
  <1>12. w[n] >= m
        BY <1>1, <1>8, <1>10
  <1> QED BY <1>10, <1>11, <1>12 DEF m, s

(* A sector of the directory has room exactly if one of its blocks is free.*)
LEMMA RoomIs ==
  ASSUME EvenSlots, DirInv, NEW n \in Names, NEW s \in 0..SectorPerCluster - 1
  PROVE  HasRoom(s, n) <=> \E b \in Blocks : b[1] = s /\ FreeFor(b)
  <1>1. Lfn[n] \in Nat /\ Lfn[n] + 1 = EntrySize /\ EntrySize \in Nat /\ EntriesWhole
        BY SizesAre DEF DirInv
  <1>2. ASSUME NEW b \in Blocks, b[1] = s, FreeFor(b) PROVE HasRoom(s, n)
    <2>1. Counted(s) \in Nat /\ Counted(s) >= EntrySize
          BY <1>2, CountsFree
    <2> QED BY <2>1, <1>1 DEF HasRoom
  <1>3. ASSUME \A b \in Blocks : b[1] = s => ~FreeFor(b) PROVE ~HasRoom(s, n)
    <2>1. ASSUME NEW i \in Slots PROVE ~IsEmpty(slots[s][i])
      <3>1. PICK b \in Blocks, o \in 1..EntrySize : b[1] = s /\ b[2] * EntrySize + o = i
            BY CellOf
      <3>2. Cell(b, o)[1] = s /\ Cell(b, o)[2] = i
            BY <3>1 DEF Cell
      <3>3. ~FreeBlock(b, End) /\ ~FreeBlock(b, Unused)
            BY <1>3, <3>1 DEF FreeFor
      <3>4. At(Cell(b, o)) \notin {End, Unused}
            BY <3>3, <1>1, CellCases, SlotsDiffer
      <3> QED BY <3>2, <3>4 DEF At, IsEmpty
    <2>2. Counted(s) = 0
          BY <2>1, CountsNothing
    <2> QED BY <2>2, <1>1 DEF HasRoom
  <1> QED BY <1>2, <1>3

(* The first empty slot of a sector with a free block is where the first   *)
(* free block begins.                                                      *)
LEMMA FirstFree ==
  ASSUME EvenSlots, DirInv, NEW a \in Blocks, FreeFor(a)
  PROVE  \E b \in Blocks :
           /\ b[1] = a[1] /\ FreeFor(b) /\ FirstEmpty(a[1]) = b[2] * EntrySize + 1
           /\ \A c \in Blocks : c[1] = a[1] /\ c[2] < b[2] => ~FreeFor(c)
  <1> DEFINE s == a[1]
             i == FirstEmpty(s)
  <1>1. EntrySize \in Nat /\ 1 \in 1..EntrySize /\ EntriesWhole
        /\ EntriesPerSector \in Nat
        BY SizesAre DEF DirInv
  <1>2. ASSUME NEW c \in Blocks, c[1] = s, FreeFor(c), NEW o \in 1..EntrySize
        PROVE  c[2] * EntrySize + o \in Slots /\ IsEmpty(slots[s][c[2] * EntrySize + o])
    <2>1. At(Cell(c, o)) = End \/ At(Cell(c, o)) = Unused
          BY <1>2 DEF FreeFor, FreeBlock
    <2>2. Cell(c, o)[1] = s /\ Cell(c, o)[2] = c[2] * EntrySize + o
          BY <1>2 DEF Cell
    <2>3. c[2] * EntrySize + o \in Slots
          BY CellIs
    <2> QED BY <2>1, <2>2, <2>3 DEF At, IsEmpty
  <1>3. /\ i \in Slots /\ IsEmpty(slots[s][i])
        /\ \A j \in 1..i - 1 : ~IsEmpty(slots[s][j])
        BY <1>1, <1>2, FirstEmptyIs
  <1> HIDE DEF i
  <1>4. PICK b \in Blocks, o \in 1..EntrySize : b[1] = s /\ b[2] * EntrySize + o = i
    <2>1. s \in 0..SectorPerCluster - 1
          BY <1>1, CellIs
    <2> QED BY <2>1, <1>3, CellOf
  <1>5. FreeFor(b)
    <2>1. Cell(b, o)[1] = s /\ Cell(b, o)[2] = i
          BY <1>4 DEF Cell
    <2>2. At(Cell(b, o)) \in {End, Unused}
          BY <2>1, <1>3 DEF At, IsEmpty
    <2> QED BY <2>2, <1>1, CellCases, SlotsDiffer DEF FreeFor
  <1>6. ASSUME NEW c \in Blocks, c[1] = s, FreeFor(c) PROVE i <= c[2] * EntrySize + 1
    <2> DEFINE j == c[2] * EntrySize + 1
    <2>1. j \in Slots /\ IsEmpty(slots[s][j])
          BY <1>1, <1>2, <1>6
    <2> HIDE DEF j
    <2>2. j \in Nat /\ j >= 1 /\ i \in Nat
          BY <2>1, <1>1, <1>3 DEF Slots
    <2>3. j \notin 1..i - 1
          BY <2>1, <1>3
    <2>4. i <= j
          BY <2>2, <2>3
    <2> QED BY <2>4 DEF j
  <1>7. i = b[2] * EntrySize + 1
    <2>1. b[2] * EntrySize \in Nat
          BY CellIs
    <2>2. i <= b[2] * EntrySize + 1
          BY <1>4, <1>5, <1>6
    <2> DEFINE x == b[2] * EntrySize
    <2>3. x \in Nat /\ i <= x + 1 /\ x + o = i /\ o \in Nat /\ o >= 1
          BY <2>1, <2>2, <1>1, <1>4
    <2> HIDE DEF x
    <2>4. i = x + 1
          BY <2>3
    <2> QED BY <2>4 DEF x
  <1>8. ASSUME NEW c \in Blocks, c[1] = s, c[2] < b[2] PROVE ~FreeFor(c)
    <2> SUFFICES ASSUME FreeFor(c) PROVE FALSE
        OBVIOUS
    <2> DEFINE x == b[2] * EntrySize
               y == c[2] * EntrySize
    <2>1. c[2] \in Nat /\ b[2] \in Nat
          BY DEF Blocks
    <2>2. x \in Nat /\ y \in Nat /\ y + EntrySize <= x
          BY <2>1, <1>1, <1>8, Gaps
    <2>3. x + 1 <= y + 1
          BY <1>6, <1>7, <1>8
    <2> HIDE DEF x, y
    <2>4. EntrySize > 1
          BY SizesAre
    <2> QED BY <2>2, <2>3, <2>4, <1>1
  <1> QED BY <1>4, <1>5, <1>7, <1>8 DEF i

(* The end mark lies in a block never used, and a full directory has no    *)
(* free block.                                                             *)
LEMMA MarkedIs ==
  ASSUME EvenSlots, DirInv
  PROVE  /\ EndMarked => \E b \in Blocks : FreeBlock(b, End)
         /\ (\A b \in Blocks : ~FreeFor(b)) => Full
  <1>1. /\ EntrySize \in 1..EntrySize /\ EntriesWhole
        /\ SectorPerCluster \in Nat
        BY SizesAre DEF DirInv
  <1>2. ASSUME NEW p \in Own
        PROVE  \E b \in Blocks, o \in 1..EntrySize : p = Cell(b, o)
    <2>1. p \in Place /\ p[1] # SectorPerCluster
          BY <1>1 DEF Own, Place
    <2> QED BY <2>1, PlaceIs
  <1>3. ASSUME NEW p \in Own, At(p) = End PROVE \E b \in Blocks : FreeBlock(b, End)
    <2>1. PICK b \in Blocks, o \in 1..EntrySize : p = Cell(b, o)
          BY <1>2
    <2> QED BY <2>1, <1>1, <1>3, CellCases, SlotsDiffer
  <1>4. ASSUME \A b \in Blocks : ~FreeFor(b), NEW p \in Own PROVE ~IsEmpty(At(p))
    <2>1. PICK b \in Blocks, o \in 1..EntrySize : p = Cell(b, o)
          BY <1>2
    <2>2. ~FreeBlock(b, End) /\ ~FreeBlock(b, Unused)
          BY <1>4 DEF FreeFor
    <2> QED BY <2>1, <2>2, <1>1, CellCases, SlotsDiffer DEF IsEmpty
  <1> QED BY <1>3, <1>4 DEF EndMarked, Full

-----------------------------------------------------------------------------
(* An operation writes one block, and only that one changes.               *)
Over(b, e) ==
  [i \in Slots |-> IF i \in b[2] * EntrySize + 1..b[2] * EntrySize + EntrySize
                   THEN e[i - b[2] * EntrySize] ELSE slots[b[1]][i]]

LEMMA OneBlock ==
  ASSUME EvenSlots, DirTypeOK, NEW b \in Blocks, NEW e,
         slots' = [slots EXCEPT ![b[1]] = Over(b, e)]
  PROVE  /\ \A o \in 1..EntrySize : At(Cell(b, o))' = e[o]
         /\ \A c \in Blocks : c # b =>
              \A o \in 1..EntrySize : At(Cell(c, o))' = At(Cell(c, o))
         /\ slots'[SectorPerCluster] = slots[SectorPerCluster]
  <1> DEFINE x == b[2] * EntrySize
             m == EntrySize
  <1>1. m \in Nat /\ m > 1 /\ SectorPerCluster \in Nat
        BY SizesAre
  <1>2. x \in Nat /\ b[1] \in Sectors /\ b[1] \in 0..SectorPerCluster - 1
        BY <1>1, CellIs
  <1>3. DOMAIN slots = Sectors
        BY DEF DirTypeOK
  <1>4. slots'[b[1]] = Over(b, e)
        BY <1>2, <1>3
  <1>5. \A s : s # b[1] => slots'[s] = slots[s]
        BY <1>2, <1>3
  <1>6. ASSUME NEW o \in 1..m PROVE At(Cell(b, o))' = e[o]
    <2>1. Cell(b, o)[1] = b[1] /\ Cell(b, o)[2] = x + o /\ x + o \in Slots
          BY CellIs DEF Cell
    <2>2. Over(b, e)[x + o] = e[(x + o) - x]
      <3>1. x + o \in x + 1..x + m
            BY <1>1, <1>2
      <3> QED BY <3>1, <2>1 DEF Over
    <2>3. (x + o) - x = o
          BY <1>1, <1>2
    <2>4. slots'[b[1]][x + o] = e[o]
          BY <1>4, <2>2, <2>3
    <2> QED BY <2>1, <2>4 DEF At
  <1>7. ASSUME NEW c \in Blocks, c # b, NEW o \in 1..m PROVE At(Cell(c, o))' = At(Cell(c, o))
    <2> DEFINE y == c[2] * EntrySize
    <2>1. Cell(c, o)[1] = c[1] /\ Cell(c, o)[2] = y + o /\ y + o \in Slots /\ y \in Nat
          BY CellIs DEF Cell
    <2>2. slots'[c[1]][y + o] = slots[c[1]][y + o]
      <3>1. CASE c[1] # b[1]
            BY <3>1, <1>5
      <3>2. CASE c[1] = b[1]
        <4>1. y + o \notin x + 1..x + m
          <5> SUFFICES ASSUME y + o \in x + 1..x + m PROVE FALSE
              OBVIOUS
          <5> DEFINE u == y + o - x
          <5>1. u \in 1..m /\ x + u = y + o
            <6> HIDE DEF x, y
            <6> QED BY <1>1, <1>2, <2>1
          <5>2. Cell(b, u) = Cell(c, o)
                BY <5>1, <3>2 DEF Cell
          <5> HIDE DEF u
          <5> QED BY <5>1, <5>2, <1>7, CellOrder
        <4>2. Over(b, e)[y + o] = slots[b[1]][y + o]
              BY <4>1, <2>1 DEF Over
        <4> QED BY <4>2, <1>4, <3>2
      <3> QED BY <3>1, <3>2
    <2> QED BY <2>1, <2>2 DEF At
  <1>8. SectorPerCluster # b[1]
        BY <1>1, <1>2
  <1> QED BY <1>5, <1>6, <1>7, <1>8

LEMMA OthersSame ==
  ASSUME EvenSlots, DirTypeOK, NEW b \in Blocks, NEW e,
         slots' = [slots EXCEPT ![b[1]] = Over(b, e)],
         NEW c \in Blocks, c # b
  PROVE  /\ \A x : FreeBlock(c, x)' <=> FreeBlock(c, x)
         /\ \A n : Holds(c, n)' <=> Holds(c, n)
  <1>1. \A o \in 1..EntrySize : At(Cell(c, o))' = At(Cell(c, o))
        BY OneBlock
  <1>2. \A o \in 1..EntrySize - 1 : o \in 1..EntrySize
        BY SizesAre
  <1>3. EntrySize \in 1..EntrySize
        BY SizesAre
  <1>4. ASSUME NEW x PROVE FreeBlock(c, x)' <=> FreeBlock(c, x)
        BY <1>1 DEF FreeBlock
  <1>5. ASSUME NEW n PROVE Holds(c, n)' <=> Holds(c, n)
        BY <1>1, <1>2, <1>3 DEF Holds
  <1> QED BY <1>4, <1>5

LEMMA LastPut ==
  ASSUME NEW S, NEW q \in Seq(S), NEW x \in S
  PROVE  /\ Len(q \o <<x>>) = Len(q) + 1 /\ (q \o <<x>>)[Len(q) + 1] = x
         /\ \A i \in 1..Len(q) : (q \o <<x>>)[i] = q[i]
  OBVIOUS

(* Creating an entry fills the first free block.                           *)
LEMMA PutTo ==
  ASSUME EvenSlots, DirTypeOK, DirInv, NEW n \in Names, PutEntry(n),
         \E a \in Blocks : FreeFor(a)
  PROVE  \E b \in Blocks : \E e :
           /\ FreeFor(b) /\ \A c \in Blocks : Before(c, b) => ~FreeFor(c)
           /\ slots' = [slots EXCEPT ![b[1]] = Over(b, e)]
           /\ \A o \in 1..EntrySize - 1 : e[o] = Slot("long", n, EntrySize - o)
           /\ e[EntrySize] = Slot("short", n, 0)
  <1>1. /\ EntrySize \in Nat /\ EntrySize > 1 /\ Lfn[n] \in Nat /\ Lfn[n] + 1 = EntrySize
        /\ SectorPerCluster \in Nat /\ StackClean
        BY SizesAre DEF EvenSlots
  <1> DEFINE exact == [i \in 1..Lfn[n] |-> Slot("long", n, Lfn[n] + 1 - i)]
             short == Slot("short", n, 0)
             entry == exact \o <<short>>
  <1>2. PICK s \in Sectors :
          /\ HasRoom(s, n) /\ \A r \in 0..s - 1 : ~HasRoom(r, n)
          /\ \E long \in LongSlots(n) :
               slots' = [slots EXCEPT ![s] = Filled(s, FirstEmpty(s), long \o <<short>>)]
        BY DEF PutEntry
  <1>3. LongSlots(n) = {exact}
        BY <1>1 DEF LongSlots
  <1>4. slots' = [slots EXCEPT ![s] = Filled(s, FirstEmpty(s), entry)]
        BY <1>2, <1>3
  <1>5. /\ Len(entry) = EntrySize
        /\ \A o \in 1..EntrySize - 1 : entry[o] = Slot("long", n, EntrySize - o)
        /\ entry[EntrySize] = short
    <2> DEFINE T == {Slot("long", n, j) : j \in Int} \cup {short}
    <2>1. \A i \in 1..Lfn[n] : Slot("long", n, Lfn[n] + 1 - i) \in T
          BY <1>1
    <2>2. short \in T
          OBVIOUS
    <2>3. \A o \in 1..Lfn[n] : exact[o] = Slot("long", n, EntrySize - o)
          BY <1>1
    <2> HIDE DEF T, short
    <2>4. exact \in Seq(T) /\ Len(exact) = Lfn[n]
          BY <2>1, <1>1
    <2> HIDE DEF exact
    <2>5. /\ Len(entry) = Lfn[n] + 1 /\ entry[Lfn[n] + 1] = short
          /\ \A o \in 1..Lfn[n] : entry[o] = exact[o]
          BY <2>2, <2>4, LastPut
    <2>6. EntrySize - 1 = Lfn[n]
          BY <1>1
    <2> QED BY <2>3, <2>5, <2>6, <1>1
  <1> HIDE DEF entry
  <1>6. PICK a \in Blocks : FreeFor(a)
        OBVIOUS
  <1>7. s \in 0..SectorPerCluster - 1
    <2>1. a[1] \in 0..SectorPerCluster - 1
          BY DEF Blocks
    <2>2. HasRoom(a[1], n)
          BY <2>1, <1>6, RoomIs
    <2>3. a[1] \notin 0..s - 1
          BY <2>2, <1>2
    <2> QED BY <2>1, <2>3, <1>1 DEF Sectors
  <1>8. PICK d \in Blocks : d[1] = s /\ FreeFor(d)
        BY <1>2, <1>7, RoomIs
  <1>9. PICK b \in Blocks :
          /\ b[1] = s /\ FreeFor(b) /\ FirstEmpty(s) = b[2] * EntrySize + 1
          /\ \A c \in Blocks : c[1] = s /\ c[2] < b[2] => ~FreeFor(c)
        BY <1>8, FirstFree
  <1>10. ASSUME NEW c \in Blocks, Before(c, b) PROVE ~FreeFor(c)
    <2>1. CASE c[1] = s
      <3>1. ~(c[1] < c[1])
            BY DEF Blocks
      <3> QED BY <2>1, <3>1, <1>9, <1>10 DEF Before
    <2>2. CASE c[1] # s
      <3>1. c[1] \in 0..SectorPerCluster - 1 /\ c[1] < s
            BY <2>2, <1>9, <1>10 DEF Before, Blocks
      <3>2. c[1] \in 0..s - 1
            BY <3>1, <1>1, <1>7
      <3>3. ~HasRoom(c[1], n)
            BY <3>2, <1>2
      <3> QED BY <3>1, <3>3, RoomIs
    <2> QED BY <2>1, <2>2
  <1>11. Filled(s, FirstEmpty(s), entry) = Over(b, entry)
    <2> DEFINE x == b[2] * EntrySize
    <2>1. x \in Nat
          BY CellIs, <1>1
    <2>2. (x + 1) + Len(entry) - 1 = x + EntrySize
          BY <2>1, <1>1, <1>5
    <2>3. \A i \in Slots : i \in Int
          BY SizesAre DEF Slots
    <2> HIDE DEF x
    <2>4. \A i \in Slots : i - (x + 1) + 1 = i - x
          BY <2>1, <2>3
    <2>5. Filled(s, x + 1, entry) =
            [i \in Slots |-> IF i \in x + 1..x + EntrySize THEN entry[i - x] ELSE slots[s][i]]
          BY <2>2, <2>4 DEF Filled
    <2> QED BY <2>5, <1>9 DEF Over, x
  <1> QED BY <1>4, <1>5, <1>9, <1>10, <1>11

(* When none is free it writes the sector behind the directory.            *)
LEMMA PutBehind ==
  ASSUME EvenSlots, DirTypeOK, DirInv, NEW n \in Names, PutEntry(n),
         \A a \in Blocks : ~FreeFor(a)
  PROVE  \A s \in 0..SectorPerCluster - 1 : slots'[s] = slots[s]
  <1>1. PICK s \in Sectors :
          HasRoom(s, n) /\ \E x : slots' = [slots EXCEPT ![s] = x]
        BY DEF PutEntry
  <1>2. s \notin 0..SectorPerCluster - 1
        BY <1>1, RoomIs
  <1> QED BY <1>1, <1>2

(* Deleting one empties its block, the only one it finds in the directory  *)
(* itself.                                                                 *)
LEMMA DropFrom ==
  ASSUME EvenSlots, DirTypeOK, DirInv, NEW n \in Names, DropEntry(n),
         NEW b \in Blocks, Holds(b, n)
  PROVE  slots' = [slots EXCEPT ![b[1]] = Over(b, [o \in 1..EntrySize |-> Unused])]
  <1> DEFINE p == Cell(b, EntrySize)
             x == b[2] * EntrySize
             e == [o \in 1..EntrySize |-> Unused]
  <1>3. EntrySize \in Nat /\ EntrySize > 1 /\ EntrySize \in 1..EntrySize
        BY SizesAre
  <1>4. /\ x \in Nat /\ p \in Place /\ p[1] = b[1] /\ p[2] = x + EntrySize
        /\ p[1] \in 0..SectorPerCluster - 1 /\ SectorPerCluster \in Nat
        BY <1>3, CellIs, SizesAre DEF Cell
  <1>5. p \in Matches(n)
        BY MatchesAre
  <1>11. ASSUME NEW q \in Matches(n), q # p PROVE Before(p, q) /\ ~Before(q, p)
    <2>1. q \in Place
          BY MatchesAre
    <2>2. q[1] = SectorPerCluster
      <3> SUFFICES ASSUME q[1] # SectorPerCluster PROVE FALSE
          OBVIOUS
      <3>1. PICK c \in Blocks : Holds(c, n) /\ q = Cell(c, EntrySize)
            BY MatchesAre
      <3>2. c = b
            BY <3>1 DEF DirInv, EntriesWhole
      <3> QED BY <3>1, <3>2, <1>11
    <2> HIDE DEF p
    <2>3. p[1] < q[1] /\ ~(q[1] < p[1]) /\ q[1] # p[1]
          BY <2>2, <1>4
    <2> QED BY <2>3 DEF Before
  <1>6. FirstMatch(n) = p
    <2>1. ~Before(p, p)
          BY <1>3, CellOrder
    <2> HIDE DEF p
    <2> QED BY <2>1, <1>5, <1>11 DEF FirstMatch
  <1>7. Marked(p) = x + 1..x + EntrySize
    <2>1. Collected(p) = [i \in 1..EntrySize - 1 |-> Slot("long", n, EntrySize - i)]
          BY CollectedIs
    <2>2. Len(Collected(p)) = EntrySize - 1
          BY <2>1, <1>3
    <2> HIDE DEF p, x
    <2>3. (x + EntrySize) - (EntrySize - 1) = x + 1
          BY <1>3, <1>4
    <2> QED BY <2>2, <2>3, <1>4 DEF Marked
  <1>8. slots' = [slots EXCEPT ![p[1]] =
                    [i \in Slots |-> IF i \in Marked(p) THEN Unused ELSE slots[p[1]][i]]]
        BY <1>6, <1>4 DEF DropEntry, DirTypeOK, Place
  <1>9. [i \in Slots |-> IF i \in Marked(p) THEN Unused ELSE slots[p[1]][i]] = Over(b, e)
    <2> HIDE DEF p, x
    <2>1. ASSUME NEW i \in x + 1..x + EntrySize PROVE e[i - x] = Unused
      <3>1. i - x \in 1..EntrySize
            BY <1>3, <1>4
      <3> QED BY <3>1
    <2> HIDE DEF e
    <2>2. [i \in Slots |-> IF i \in Marked(p) THEN Unused ELSE slots[p[1]][i]] =
          [i \in Slots |-> IF i \in x + 1..x + EntrySize THEN e[i - x] ELSE slots[b[1]][i]]
          BY <2>1, <1>4, <1>7
    <2> QED BY <2>2 DEF Over, x
  <1>10. slots' = [slots EXCEPT ![b[1]] = Over(b, e)]
        BY <1>4, <1>8, <1>9
  <1> QED BY <1>10

(* A name that no block holds is found, and deleted, behind the directory. *)
LEMMA DropBehind ==
  ASSUME EvenSlots, DirTypeOK, DirInv, NEW n \in Names, DropEntry(n),
         \A b \in Blocks : ~Holds(b, n)
  PROVE  ~EndMarked /\ \A s \in 0..SectorPerCluster - 1 : slots'[s] = slots[s]
  <1>1. /\ SectorPerCluster \in Nat /\ EntriesPerSector \in Nat
        /\ Slots = 1..EntriesPerSector
        BY SizesAre DEF Slots
  <1>2. \A p \in Matches(n) : /\ p[1] = SectorPerCluster /\ p = <<SectorPerCluster, p[2]>>
                              /\ p \in Visited /\ p[2] \in Slots
        BY MatchesAre DEF Place
  <1>3. PICK p0 : p0 \in Matches(n)
        BY DEF DropEntry, IsFileInDir
  <1>4. ~EndMarked
        BY <1>2, <1>3, BeyondUnseen
  <1> DEFINE S == {i \in Slots : <<SectorPerCluster, i>> \in Matches(n)}
  <1>5. S \subseteq Nat /\ S # {}
        BY <1>1, <1>2, <1>3
  <1>6. PICK i \in S : \A y \in S : ~(<<y, i>> \in OpToRel(<, Nat))
    <2>1. IsWellFoundedOn(OpToRel(<, Nat), Nat)
          BY NatLessThanWellFounded
    <2> HIDE DEF S
    <2>2. \E x \in S : \A y \in S : ~(<<y, x>> \in OpToRel(<, Nat))
          BY <2>1, <1>5, WFMin, Zenon
    <2> QED BY <2>2
  <1> DEFINE m == <<SectorPerCluster, i>>
  <1>7. m \in Matches(n)
        OBVIOUS
  <1>8. ASSUME NEW q \in Matches(n) PROVE ~Before(q, m)
    <2>1. q = <<SectorPerCluster, q[2]>> /\ q[2] \in S
          BY <1>2
    <2>2. q[2] \in Nat /\ i \in Nat /\ ~(q[2] < i)
          BY <2>1, <1>5, <1>6 DEF OpToRel
    <2>3. q[1] = SectorPerCluster /\ m[1] = SectorPerCluster /\ m[2] = i
          BY <2>1
    <2> HIDE DEF m
    <2> QED BY <2>2, <2>3, <1>1 DEF Before
  <1>9. FirstMatch(n) \in Matches(n)
    <2> HIDE DEF m
    <2> QED BY <1>7, <1>8 DEF FirstMatch
  <1>10. FirstMatch(n)[1] = SectorPerCluster
        BY <1>2, <1>9
  <1> DEFINE f == FirstMatch(n)
  <1>11. \E x : slots' = [slots EXCEPT ![f[1]] = x]
        BY DEF DropEntry
  <1> HIDE DEF f
  <1>12. ASSUME NEW s \in 0..SectorPerCluster - 1 PROVE slots'[s] = slots[s]
    <2>1. s # f[1]
          BY <1>1, <1>10 DEF f
    <2> QED BY <2>1, <1>11
  <1> QED BY <1>4, <1>12

-----------------------------------------------------------------------------
(* A new directory is a row of blocks of dots and blocks never used.       *)
LEMMA InitDir ==
  ASSUME EvenSlots, DirInit
  PROVE  DirInv
  <1>1. PICK old \in Beyond :
               slots = [s \in Sectors |->
                          IF s = SectorPerCluster THEN old
                          ELSE [i \in Slots |-> IF s = 0 /\ i <= Dots THEN Dot ELSE End]]
        BY DEF DirInit
  <1>2. /\ placed = {} /\ SectorPerCluster \in Nat
        /\ EntrySize \in Nat /\ EntrySize > 1 /\ EntrySize \in 1..EntrySize
        BY SizesAre DEF DirInit
  <1>3. PICK d \in Nat : Dots = d * EntrySize
        BY SizesAre
  <1>4. Dots \in Nat
        BY FatDirAssumption DEF FatDirAssumption
  <1> DEFINE InDots(b) == b[1] = 0 /\ b[2] < d
  <1>5. ASSUME NEW b \in Blocks, NEW o \in 1..EntrySize
        PROVE  At(Cell(b, o)) = IF InDots(b) THEN Dot ELSE End
    <2> DEFINE x == b[2] * EntrySize
    <2>1. /\ Cell(b, o)[1] = b[1] /\ Cell(b, o)[2] = x + o /\ x + o \in Slots
          /\ b[1] \in Sectors /\ b[1] \in 0..SectorPerCluster - 1 /\ x \in Nat
          BY CellIs DEF Cell
    <2>2. b[1] # SectorPerCluster
          BY <2>1, <1>2
    <2>3. At(Cell(b, o)) = IF b[1] = 0 /\ x + o <= Dots THEN Dot ELSE End
          BY <2>1, <2>2, <1>1 DEF At
    <2>4. b[2] \in Nat
          BY DEF Blocks
    <2>5. b[2] < d => x + EntrySize <= Dots
          BY <2>4, <1>2, <1>3, Gaps
    <2>6. d < b[2] => Dots + EntrySize <= x
          BY <2>4, <1>2, <1>3, Gaps
    <2>7. d = b[2] => Dots = x
          BY <1>3
    <2> HIDE DEF x
    <2>8. x + o <= Dots <=> b[2] < d
          BY <2>1, <2>4, <2>5, <2>6, <2>7, <1>2, <1>4
    <2> QED BY <2>3, <2>8
  <1>6. ASSUME NEW b \in Blocks
        PROVE  FreeBlock(b, IF InDots(b) THEN Dot ELSE End)
        BY <1>5 DEF FreeBlock
  <1>7. ASSUME NEW b \in Blocks, NEW n PROVE ~Holds(b, n)
        BY <1>6, HoldsApart
  <1>8. EndsLast
    <2> SUFFICES ASSUME NEW b \in Blocks, NEW c \in Blocks, FreeBlock(b, End), Before(b, c)
                 PROVE  FreeBlock(c, End)
        BY DEF EndsLast
    <2>1. ~InDots(b)
          BY <1>2, <1>5, SlotsDiffer DEF FreeBlock
    <2>2. ~InDots(c)
          BY <2>1 DEF Before, Blocks
    <2> QED BY <2>2, <1>6
  <1>9. EntriesWhole /\ AsPlaced
        BY <1>2, <1>6, <1>7 DEF EntriesWhole, AsPlaced
  <1> QED BY <1>2, <1>8, <1>9 DEF DirInv

(* What is written behind the directory changes none of its blocks.        *)
LEMMA BehindKeeps ==
  ASSUME EvenSlots, DirInv, \A s \in 0..SectorPerCluster - 1 : slots'[s] = slots[s],
         placed' \subseteq Names, EndMarked => placed' = placed
  PROVE  /\ DirInv' /\ (EndMarked' <=> EndMarked)
  <1>1. SectorPerCluster \in Nat
        BY SizesAre
  <1>2. ASSUME NEW b \in Blocks, NEW o \in 1..EntrySize
        PROVE  At(Cell(b, o))' = At(Cell(b, o))
    <2>1. Cell(b, o)[1] \in 0..SectorPerCluster - 1
          BY CellIs DEF Cell
    <2> QED BY <2>1 DEF At
  <1>3. \A b \in Blocks : \A x : FreeBlock(b, x)' <=> FreeBlock(b, x)
        BY <1>2 DEF FreeBlock
  <1>4. \A b \in Blocks : \A n : Holds(b, n)' <=> Holds(b, n)
    <2>1. EntrySize \in 1..EntrySize /\ \A o \in 1..EntrySize - 1 : o \in 1..EntrySize
          BY SizesAre
    <2> QED BY <1>2, <2>1 DEF Holds
  <1>5. EndMarked' <=> EndMarked
    <2>1. ASSUME NEW p \in Own PROVE At(p)' = At(p)
      <3>1. p[1] \in 0..SectorPerCluster - 1
            BY <1>1 DEF Own, Place, Sectors
      <3> QED BY <3>1 DEF At
    <2>2. Own' = Own
          BY DEF Own, Place
    <2> QED BY <2>1, <2>2 DEF EndMarked
  <1>6. EntriesWhole'
        BY <1>3, <1>4 DEF DirInv, EntriesWhole
  <1>7. EndsLast'
        BY <1>3 DEF DirInv, EndsLast
  <1>8. AsPlaced'
        BY <1>4, <1>5 DEF DirInv, AsPlaced
  <1> QED BY <1>5, <1>6, <1>7, <1>8 DEF DirInv

(* No end mark appears where a block is written over.                      *)
LEMMA MarkStays ==
  ASSUME EvenSlots, DirTypeOK, DirInv, NEW b \in Blocks, NEW e,
         slots' = [slots EXCEPT ![b[1]] = Over(b, e)],
         \A o \in 1..EntrySize : e[o] # End
  PROVE  /\ EndMarked' => EndMarked
         /\ EndMarked' <=> \E c \in Blocks : c # b /\ FreeBlock(c, End)
  <1>1. SectorPerCluster \in Nat /\ EntrySize \in 1..EntrySize
        BY SizesAre
  <1>2. Own' = Own
        BY DEF Own, Place
  <1>3. \A p \in Own : \E c \in Blocks, o \in 1..EntrySize : p = Cell(c, o)
    <2>1. \A p \in Own : p \in Place /\ p[1] # SectorPerCluster
          BY <1>1 DEF Own, Place
    <2> QED BY <2>1, PlaceIs
  <1>4. ASSUME EndMarked' PROVE \E c \in Blocks : c # b /\ FreeBlock(c, End)
    <2>1. PICK p \in Own : At(p)' = End
          BY <1>2, <1>4 DEF EndMarked
    <2>2. PICK c \in Blocks, o \in 1..EntrySize : p = Cell(c, o)
          BY <1>3
    <2>3. c # b
          BY <2>1, <2>2, OneBlock
    <2>4. At(Cell(c, o)) = End
          BY <2>1, <2>2, <2>3, OneBlock
    <2>5. FreeBlock(c, End)
          BY <2>4, CellCases, SlotsDiffer DEF DirInv
    <2> QED BY <2>3, <2>5
  <1>5. ASSUME NEW c \in Blocks, FreeBlock(c, End) PROVE Cell(c, EntrySize) \in Own
        /\ At(Cell(c, EntrySize)) = End
    <2>1. Cell(c, EntrySize) \in Place /\ Cell(c, EntrySize)[1] = c[1]
          /\ c[1] \in 0..SectorPerCluster - 1
          BY <1>1, CellIs DEF Cell
    <2>2. At(Cell(c, EntrySize)) = End
          BY <1>1, <1>5 DEF FreeBlock
    <2> QED BY <2>1, <2>2, <1>1 DEF Own
  <1>6. ASSUME NEW c \in Blocks, c # b, FreeBlock(c, End) PROVE EndMarked'
    <2>1. Cell(c, EntrySize) \in Own /\ At(Cell(c, EntrySize))' = End
          BY <1>1, <1>5, <1>6, OneBlock
    <2> QED BY <2>1, <1>2 DEF EndMarked
  <1>7. ASSUME NEW c \in Blocks, FreeBlock(c, End) PROVE EndMarked
        BY <1>5, <1>7 DEF EndMarked
  <1> QED BY <1>4, <1>6, <1>7

(* What a creation does while a block is free.                             *)
LEMMA PutKeeps ==
  ASSUME EvenSlots, DirTypeOK, DirInv, NEW n \in Names, PutEntry(n),
         \E a \in Blocks : FreeFor(a)
  PROVE  /\ DirInv' /\ slots'[SectorPerCluster] = slots[SectorPerCluster]
         /\ EndMarked /\ ~EndMarked' => Full'
  <1>1. /\ placed' = placed \cup {n}
        /\ \A c \in Blocks : ~Holds(c, n)
    <2>1. ~IsFileInDir(n) /\ placed' = placed \cup {n}
          BY DEF PutEntry
    <2> QED BY <2>1, HeldIsFound
  <1>2. PICK b \in Blocks : \E e :
           /\ FreeFor(b) /\ \A c \in Blocks : Before(c, b) => ~FreeFor(c)
           /\ slots' = [slots EXCEPT ![b[1]] = Over(b, e)]
           /\ \A o \in 1..EntrySize - 1 : e[o] = Slot("long", n, EntrySize - o)
           /\ e[EntrySize] = Slot("short", n, 0)
        BY PutTo
  <1>3. PICK e :
           /\ FreeFor(b) /\ \A c \in Blocks : Before(c, b) => ~FreeFor(c)
           /\ slots' = [slots EXCEPT ![b[1]] = Over(b, e)]
           /\ \A o \in 1..EntrySize - 1 : e[o] = Slot("long", n, EntrySize - o)
           /\ e[EntrySize] = Slot("short", n, 0)
        BY <1>2
  <1>4. /\ \A o \in 1..EntrySize : At(Cell(b, o))' = e[o]
        /\ \A c \in Blocks : c # b =>
              \A o \in 1..EntrySize : At(Cell(c, o))' = At(Cell(c, o))
        /\ slots'[SectorPerCluster] = slots[SectorPerCluster]
        BY <1>3, OneBlock
  <1>5. Holds(b, n)'
    <2>1. EntrySize \in 1..EntrySize /\ \A o \in 1..EntrySize - 1 : o \in 1..EntrySize
          BY SizesAre
    <2> QED BY <2>1, <1>3, <1>4 DEF Holds
  <1>6. ASSUME NEW c \in Blocks, c # b
        PROVE  /\ \A x : FreeBlock(c, x)' <=> FreeBlock(c, x)
               /\ \A x : Holds(c, x)' <=> Holds(c, x)
        BY <1>3, <1>6, OthersSame
  <1>14. \A o \in 1..EntrySize : ~IsEmpty(e[o]) /\ e[o] # End
    <2>1. \A o \in 1..EntrySize : o = EntrySize \/ o \in 1..EntrySize - 1
          BY SizesAre
    <2> QED BY <2>1, <1>3, SlotsDiffer DEF IsEmpty
  <1>7. ~FreeBlock(b, End)' /\ \A x : Holds(b, x)' => x = n
    <2>1. EntrySize \in 1..EntrySize
          BY SizesAre
    <2>2. At(Cell(b, EntrySize))' = Slot("short", n, 0)
          BY <2>1, <1>3, <1>4
    <2>3. ~FreeBlock(b, End)'
          BY <2>1, <2>2, SlotsDiffer DEF FreeBlock
    <2>4. ASSUME NEW x, Holds(b, x)' PROVE x = n
      <3>1. Slot("short", n, 0) = Slot("short", x, 0)
            BY <2>2, <2>4 DEF Holds
      <3> QED BY <3>1, SlotsDiffer
    <2> QED BY <2>3, <2>4
  <1>8. ASSUME NEW x PROVE ~Holds(b, x)
        BY <1>3, HoldsApart DEF FreeFor
  <1>10. EntriesWhole'
    <2>1. ASSUME NEW c \in Blocks
          PROVE  \/ FreeBlock(c, End)' \/ FreeBlock(c, Unused)' \/ FreeBlock(c, Dot)'
                 \/ \E x \in Names : Holds(c, x)'
          BY <1>5, <1>6 DEF DirInv, EntriesWhole
    <2>3. ASSUME NEW x \in Names, NEW c \in Blocks, NEW d \in Blocks, Holds(c, x)', Holds(d, x)'
          PROVE  c = d
      <3>1. CASE x = n
        <4>1. c = b
              BY <3>1, <2>3, <1>1, <1>6
        <4>2. d = b
              BY <3>1, <2>3, <1>1, <1>6
        <4> QED BY <4>1, <4>2
      <3>2. CASE x # n
        <4>1. c # b /\ d # b
              BY <3>2, <2>3, <1>7
        <4>2. Holds(c, x) /\ Holds(d, x)
              BY <4>1, <2>3, <1>6
        <4> QED BY <4>2 DEF DirInv, EntriesWhole
      <3> QED BY <3>1, <3>2
    <2> QED BY <2>1, <2>3 DEF EntriesWhole
  <1>11. EndsLast'
    <2> SUFFICES ASSUME NEW c \in Blocks, NEW d \in Blocks, FreeBlock(c, End)', Before(c, d)
                 PROVE  FreeBlock(d, End)'
        BY DEF EndsLast
    <2>1. c # b /\ FreeBlock(c, End)
          BY <1>6, <1>7
    <2>2. d # b
          BY <2>1, <1>3 DEF FreeFor
    <2>3. FreeBlock(d, End)
          BY <2>1 DEF DirInv, EndsLast
    <2> QED BY <2>2, <2>3, <1>6
  <1>12. AsPlaced'
    <2> SUFFICES ASSUME EndMarked', NEW x \in Names
                 PROVE  x \in placed' <=> \E c \in Blocks : Holds(c, x)'
        BY DEF AsPlaced
    <2>1. x \in placed <=> \E c \in Blocks : Holds(c, x)
          BY <1>3, <1>14, MarkStays DEF DirInv, AsPlaced
    <2>2. CASE x = n
          BY <2>2, <1>1, <1>5
    <2>3. CASE x # n
      <3>1. \A c \in Blocks : Holds(c, x)' <=> Holds(c, x)
            BY <2>3, <1>6, <1>7, <1>8
      <3> QED BY <2>1, <2>3, <3>1, <1>1
    <2> QED BY <2>2, <2>3
  <1>13. (placed \subseteq Names)'
        BY <1>1 DEF DirInv
  <1>15. ASSUME EndMarked, ~EndMarked' PROVE Full'
    <2>1. \A c \in Blocks : c # b => ~FreeBlock(c, End)
          BY <1>3, <1>14, <1>15, MarkStays
    <2>2. FreeBlock(b, End)
          BY <2>1, <1>15, MarkedIs
    <2>3. ASSUME NEW c \in Blocks, c # b PROVE ~FreeFor(c)
      <3>1. Before(c, b) \/ Before(b, c)
            BY <2>3, BlockOrder
      <3>2. ~Before(b, c)
            BY <2>1, <2>2, <2>3 DEF DirInv, EndsLast
      <3> QED BY <3>1, <3>2, <1>3
    <2>4. Own' = Own
          BY DEF Own, Place
    <2>5. ASSUME NEW p \in Own PROVE ~IsEmpty(At(p)')
      <3>1. p \in Place /\ p[1] # SectorPerCluster
            BY SizesAre DEF Own, Place
      <3>2. PICK c \in Blocks, o \in 1..EntrySize : p = Cell(c, o)
            BY <3>1, PlaceIs
      <3>3. CASE c = b
            BY <3>2, <3>3, <1>4, <1>14
      <3>4. CASE c # b
        <4>1. ~FreeBlock(c, End) /\ ~FreeBlock(c, Unused)
              BY <2>3, <3>4 DEF FreeFor
        <4>2. At(p)' = At(p)
              BY <3>2, <3>4, <1>4
        <4>3. At(p) # End /\ At(p) # Unused
              BY <4>1, <3>2, CellCases, SlotsDiffer DEF DirInv
        <4> QED BY <4>2, <4>3 DEF IsEmpty
      <3> QED BY <3>3, <3>4
    <2> QED BY <2>4, <2>5 DEF Full, IsEmpty
  <1> QED BY <1>4, <1>10, <1>11, <1>12, <1>13, <1>15 DEF DirInv

(* And a deletion of a name that a block holds.                            *)
LEMMA DropKeeps ==
  ASSUME EvenSlots, DirTypeOK, DirInv, NEW n \in Names, DropEntry(n),
         NEW b \in Blocks, Holds(b, n)
  PROVE  /\ DirInv' /\ slots'[SectorPerCluster] = slots[SectorPerCluster]
         /\ EndMarked => EndMarked'
  <1> DEFINE e == [o \in 1..EntrySize |-> Unused]
  <1>1. placed' = placed \ {n}
        BY DEF DropEntry
  <1>2. slots' = [slots EXCEPT ![b[1]] = Over(b, e)]
        BY DropFrom
  <1>3. \A o \in 1..EntrySize : e[o] = Unused /\ e[o] # End
        BY SlotsDiffer
  <1> HIDE DEF e
  <1>4. /\ \A o \in 1..EntrySize : At(Cell(b, o))' = e[o]
        /\ slots'[SectorPerCluster] = slots[SectorPerCluster]
        BY <1>2, OneBlock
  <1>5. FreeBlock(b, Unused)'
        BY <1>3, <1>4 DEF FreeBlock
  <1>6. ASSUME NEW c \in Blocks, c # b
        PROVE  /\ \A x : FreeBlock(c, x)' <=> FreeBlock(c, x)
               /\ \A x : Holds(c, x)' <=> Holds(c, x)
        BY <1>2, <1>6, OthersSame
  <1>7. ~FreeBlock(b, End)' /\ \A x : ~Holds(b, x)'
    <2>1. EntrySize \in 1..EntrySize
          BY SizesAre
    <2>2. At(Cell(b, EntrySize))' = Unused
          BY <2>1, <1>3, <1>4
    <2>3. ~FreeBlock(b, End)'
          BY <2>1, <2>2, SlotsDiffer DEF FreeBlock
    <2>4. ASSUME NEW x, Holds(b, x)' PROVE FALSE
      <3>1. Slot("short", x, 0) = Unused
            BY <2>2, <2>4 DEF Holds
      <3> QED BY <3>1, SlotsDiffer
    <2> QED BY <2>3, <2>4
  <1>8. ASSUME NEW c \in Blocks, Holds(c, n) PROVE c = b
        BY <1>8 DEF DirInv, EntriesWhole
  <1>9. EntriesWhole'
    <2>1. ASSUME NEW c \in Blocks
          PROVE  \/ FreeBlock(c, End)' \/ FreeBlock(c, Unused)' \/ FreeBlock(c, Dot)'
                 \/ \E x \in Names : Holds(c, x)'
          BY <1>5, <1>6 DEF DirInv, EntriesWhole
    <2>3. ASSUME NEW x \in Names, NEW c \in Blocks, NEW d \in Blocks, Holds(c, x)', Holds(d, x)'
          PROVE  c = d
      <3>1. c # b /\ d # b
            BY <2>3, <1>7
      <3>2. Holds(c, x) /\ Holds(d, x)
            BY <3>1, <2>3, <1>6
      <3> QED BY <3>2 DEF DirInv, EntriesWhole
    <2> QED BY <2>1, <2>3 DEF EntriesWhole
  <1>10. EndsLast'
    <2> SUFFICES ASSUME NEW c \in Blocks, NEW d \in Blocks, FreeBlock(c, End)', Before(c, d)
                 PROVE  FreeBlock(d, End)'
        BY DEF EndsLast
    <2>1. c # b /\ FreeBlock(c, End)
          BY <1>6, <1>7
    <2>2. FreeBlock(d, End)
          BY <2>1 DEF DirInv, EndsLast
    <2>3. d # b
          BY <2>2, HoldsApart
    <2> QED BY <2>2, <2>3, <1>6
  <1>11. AsPlaced'
    <2> SUFFICES ASSUME EndMarked', NEW x \in Names
                 PROVE  x \in placed' <=> \E c \in Blocks : Holds(c, x)'
        BY DEF AsPlaced
    <2>1. x \in placed <=> \E c \in Blocks : Holds(c, x)
          BY <1>2, <1>3, MarkStays DEF DirInv, AsPlaced
    <2>2. CASE x = n
          BY <2>2, <1>1, <1>6, <1>7, <1>8
    <2>3. CASE x # n
      <3>1. \A c \in Blocks : Holds(c, x)' <=> Holds(c, x)
            BY <2>3, <1>6, <1>7, HoldsApart
      <3> QED BY <2>1, <2>3, <3>1, <1>1
    <2> QED BY <2>2, <2>3
  <1>12. (placed \subseteq Names)'
        BY <1>1 DEF DirInv
  <1>13. ASSUME EndMarked PROVE EndMarked'
    <2>1. PICK c \in Blocks : FreeBlock(c, End)
          BY <1>13, MarkedIs
    <2>2. c # b
          BY <2>1, HoldsApart
    <2> QED BY <2>1, <2>2, <1>2, <1>3, MarkStays
  <1> QED BY <1>4, <1>9, <1>10, <1>11, <1>12, <1>13 DEF DirInv

(* Every used slot belongs to a name in the directory, and every part of a *)
(* name's entry has one.                                                   *)
LEMMA SlotsMatch ==
  ASSUME EvenSlots, DirInv
  PROVE  NoOrphans
  <1> SUFFICES ASSUME EndMarked
               PROVE  Cardinality({p \in Own : At(p).kind \in {"long", "short"}}) =
                        Cardinality(UNION {{n} \X (0..Lfn[n]) : n \in placed})
      BY DEF NoOrphans
  <1>0. \A n \in Names : n \in placed <=> \E b \in Blocks : Holds(b, n)
        BY DEF DirInv, AsPlaced
  <1> DEFINE P == {p \in Own : At(p).kind \in {"long", "short"}}
             T == UNION {{n} \X (0..Lfn[n]) : n \in placed}
             f == [p \in P |-> <<At(p).name, At(p).part>>]
  <1>1. /\ EntrySize \in Nat /\ EntrySize > 1 /\ EntriesWhole /\ placed \subseteq Names
        /\ \A n \in Names : Lfn[n] = EntrySize - 1
        BY SizesAre DEF DirInv
  <1>12. ASSUME NEW b \in Blocks, NEW o \in 1..EntrySize PROVE Cell(b, o) \in Own
    <2>1. Cell(b, o) \in Place /\ Cell(b, o)[1] \in 0..SectorPerCluster - 1
          BY CellIs DEF Cell
    <2> QED BY <2>1, SizesAre DEF Own
  <1>2. ASSUME NEW b \in Blocks, NEW o \in 1..EntrySize, NEW n, Holds(b, n)
        PROVE  /\ Cell(b, o) \in P
               /\ At(Cell(b, o)).name = n /\ At(Cell(b, o)).part = EntrySize - o
    <2>1. CASE o = EntrySize
      <3>1. At(Cell(b, o)) = Slot("short", n, 0) /\ EntrySize - o = 0
            BY <2>1, <1>1, <1>2 DEF Holds
      <3> QED BY <3>1, <1>12, SlotsDiffer
    <2>2. CASE o # EntrySize
      <3>1. o \in 1..EntrySize - 1
            BY <2>2, <1>1
      <3>2. At(Cell(b, o)) = Slot("long", n, EntrySize - o)
            BY <3>1, <1>2 DEF Holds
      <3> QED BY <3>2, <1>12, SlotsDiffer
    <2> QED BY <2>1, <2>2
  <1>3. ASSUME NEW p \in P
        PROVE  \E b \in Blocks, o \in 1..EntrySize, n \in placed : p = Cell(b, o) /\ Holds(b, n)
    <2>1. p \in Place /\ p[1] # SectorPerCluster /\ At(p).kind \in {"long", "short"}
          BY SizesAre DEF Own, Place
    <2>2. PICK b \in Blocks, o \in 1..EntrySize : p = Cell(b, o)
          BY <2>1, PlaceIs
    <2>3. PICK n \in Names : Holds(b, n)
          BY <2>1, <2>2, <1>1, CellCases, SlotsDiffer
    <2> QED BY <2>2, <2>3, <1>0
  <1>4. \A x : x \in T <=> \E n \in placed, j \in 0..EntrySize - 1 : x = <<n, j>>
        BY <1>1
  <1>5. \A b \in Blocks : \A o \in 1..EntrySize : \A n : Holds(b, n) =>
          Cell(b, o) \in P /\ f[Cell(b, o)] = <<n, EntrySize - o>>
        BY <1>2
  <1> HIDE DEF P, T, f
  <1>6. f \in [P -> T]
    <2>1. ASSUME NEW p \in P PROVE f[p] \in T
      <3>1. PICK b \in Blocks, o \in 1..EntrySize, n \in placed : p = Cell(b, o) /\ Holds(b, n)
            BY <1>3
      <3>2. EntrySize - o \in 0..EntrySize - 1
            BY <1>1
      <3> QED BY <3>1, <3>2, <1>4, <1>5
    <2>2. f = [p \in P |-> f[p]]
          BY DEF f
    <2> QED BY <2>1, <2>2
  <1>7. ASSUME NEW p \in P, NEW r \in P, f[p] = f[r] PROVE p = r
    <2>1. PICK b \in Blocks, o \in 1..EntrySize, n \in placed : p = Cell(b, o) /\ Holds(b, n)
          BY <1>3
    <2>2. PICK c \in Blocks, u \in 1..EntrySize, m \in placed : r = Cell(c, u) /\ Holds(c, m)
          BY <1>3
    <2>3. <<n, EntrySize - o>> = <<m, EntrySize - u>>
          BY <2>1, <2>2, <1>5, <1>7
    <2>4. n = m /\ EntrySize - o = EntrySize - u
          BY <2>3
    <2>5. o = u
          BY <2>4, <1>1
    <2>6. b = c
          BY <2>1, <2>2, <2>4, <1>1 DEF EntriesWhole
    <2> QED BY <2>1, <2>2, <2>5, <2>6
  <1>8. ASSUME NEW x \in T PROVE \E p \in P : f[p] = x
    <2>1. PICK n \in placed, j \in 0..EntrySize - 1 : x = <<n, j>>
          BY <1>4
    <2>2. PICK b \in Blocks : Holds(b, n)
          BY <1>0, <1>1
    <2>3. EntrySize - j \in 1..EntrySize /\ EntrySize - (EntrySize - j) = j
          BY <1>1
    <2> QED BY <2>1, <2>2, <2>3, <1>5
  <1>9. ExistsBijection(P, T)
    <2>1. f \in Injection(P, T)
          BY <1>6, <1>7 DEF Injection, IsInjective
    <2>2. f \in Surjection(P, T)
          BY <1>6, <1>8 DEF Surjection
    <2> QED BY <2>1, <2>2 DEF ExistsBijection, Bijection
  <1>10. IsFiniteSet(P)
    <2>1. SectorPerCluster \in Int /\ EntriesPerSector \in Int
          BY SizesAre
    <2>2. IsFiniteSet(Sectors) /\ IsFiniteSet(Slots)
      <3>1. IsFiniteSet(0..SectorPerCluster) /\ IsFiniteSet(1..EntriesPerSector)
            BY <2>1, FS_Interval
      <3> QED BY <3>1 DEF Sectors, Slots
    <2>3. IsFiniteSet(Place)
          BY <2>2, FS_Product DEF Place
    <2>4. P \in SUBSET Place
          BY DEF P, Own
    <2> QED BY <2>3, <2>4, FS_Subset
  <1>11. Cardinality(T) = Cardinality(P)
        BY <1>9, <1>10, FS_Bijection
  <1> QED BY <1>11 DEF P, T

-----------------------------------------------------------------------------
(* The types, which need none of this.                                     *)
LEMMA SlotIsAny ==
  ASSUME NEW n \in Names \cup {NoName}, NEW i \in Nat
  PROVE  /\ Slot("long", n, i) \in Slotted /\ Slot("short", n, i) \in Slotted
         /\ End \in Slotted /\ Unused \in Slotted /\ Dot \in Slotted
  BY DEF Slot, Slotted, End, Unused, Dot

LEMMA PutTyped ==
  ASSUME DirTypeOK, NEW n \in Names, PutEntry(n)
  PROVE  DirTypeOK'
  <1>1. /\ Lfn[n] \in Nat \ {0} /\ EntriesPerSector \in Nat
        BY FatDirAssumption DEF FatDirAssumption
  <1>2. PICK s \in Sectors :
          /\ HasRoom(s, n)
          /\ \E long \in LongSlots(n) :
               slots' = [slots EXCEPT ![s] =
                           Filled(s, FirstEmpty(s), long \o <<Slot("short", n, 0)>>)]
        BY DEF PutEntry
  <1>3. PICK long \in LongSlots(n) :
               slots' = [slots EXCEPT ![s] =
                           Filled(s, FirstEmpty(s), long \o <<Slot("short", n, 0)>>)]
        BY <1>2
  <1>4. Slot("short", n, 0) \in Slotted /\ \A i \in Nat : Slot("long", n, i) \in Slotted
        /\ Slot("long", NoName, i) \in Slotted
        BY SlotIsAny
  <1> DEFINE exact == [i \in 1..Lfn[n] |-> Slot("long", n, Lfn[n] + 1 - i)]
             from == FirstEmpty(s)
             entry == long \o <<Slot("short", n, 0)>>
  <1>5. long \in Seq(Slotted)
    <2>1. \A i \in 1..Lfn[n] : Lfn[n] + 1 - i \in Nat
          BY <1>1
    <2>2. exact \in [1..Lfn[n] -> Slotted]
          BY <2>1, <1>4
    <2>3. [exact EXCEPT ![1] = Slot("long", NoName, Lfn[n])] \in [1..Lfn[n] -> Slotted]
          BY <2>2, <1>1, <1>4
    <2>4. long \in [1..Lfn[n] -> Slotted]
          BY <2>2, <2>3 DEF LongSlots
    <2> QED BY <2>4, <1>1
  <1>6. entry \in Seq(Slotted)
        BY <1>4, <1>5
  <1>7. from \in Slots
    <2>1. \E i \in Slots : IsEmpty(slots[s][i])
      <3> SUFFICES ASSUME \A i \in Slots : ~IsEmpty(slots[s][i]) PROVE FALSE
          OBVIOUS
      <3>1. Counted(s) = 0
            BY CountsNothing
      <3> QED BY <3>1, <1>1, <1>2 DEF HasRoom
    <2> QED BY <2>1, FirstEmptyIs
  <1> HIDE DEF entry, from
  <1>8. Filled(s, from, entry) \in [Slots -> Slotted]
    <2>1. ASSUME NEW i \in Slots, i \in from..from + Len(entry) - 1
          PROVE  entry[i - from + 1] \in Slotted
      <3>1. i \in Int /\ from \in Int /\ Len(entry) \in Nat
            BY <1>1, <1>6, <1>7 DEF Slots
      <3>2. i - from + 1 \in 1..Len(entry)
            BY <3>1, <2>1
      <3> QED BY <3>2, <1>6
    <2>2. \A i \in Slots : slots[s][i] \in Slotted
          BY DEF DirTypeOK
    <2> QED BY <2>1, <2>2 DEF Filled
  <1>9. slots' \in [Sectors -> [Slots -> Slotted]]
    <2>1. slots \in [Sectors -> [Slots -> Slotted]]
          BY DEF DirTypeOK
    <2> QED BY <2>1, <1>3, <1>8 DEF entry, from
  <1>10. placed' \subseteq Names
        BY DEF PutEntry, DirTypeOK
  <1> QED BY <1>9, <1>10 DEF DirTypeOK

LEMMA DropTyped ==
  ASSUME DirTypeOK, NEW n \in Names, DropEntry(n)
  PROVE  DirTypeOK'
  <1>1. slots \in [Sectors -> [Slots -> Slotted]] /\ placed' \subseteq Names
        BY DEF DirTypeOK, DropEntry
  <1>2. Unused \in Slotted
        BY DEF Slotted, Unused, Slot
  <1> DEFINE p == FirstMatch(n)
             marked == [i \in Slots |-> IF i \in Marked(p) THEN Unused ELSE slots[p[1]][i]]
  <1>3. slots' = [slots EXCEPT ![p[1]] = marked]
        BY DEF DropEntry
  <1>4. p[1] \in Sectors => marked \in [Slots -> Slotted]
        BY <1>1, <1>2
  <1> HIDE DEF p, marked
  <1>5. slots' \in [Sectors -> [Slots -> Slotted]]
        BY <1>1, <1>3, <1>4
  <1> QED BY <1>1, <1>5 DEF DirTypeOK

LEMMA InitTyped ==
  ASSUME DirInit
  PROVE  DirTypeOK
  <1>1. PICK old \in Beyond :
               slots = [s \in Sectors |->
                          IF s = SectorPerCluster THEN old
                          ELSE [i \in Slots |-> IF s = 0 /\ i <= Dots THEN Dot ELSE End]]
        BY DEF DirInit
  <1>2. old \in [Slots -> Slotted]
        BY FatDirAssumption DEF FatDirAssumption
  <1>3. End \in Slotted /\ Dot \in Slotted
        BY DEF Slotted, End, Dot, Slot
  <1>4. slots \in [Sectors -> [Slots -> Slotted]]
        BY <1>1, <1>2, <1>3
  <1> QED BY <1>4 DEF DirInit, DirTypeOK

LEMMA ElsewhereTyped ==
  ASSUME DirTypeOK, Elsewhere
  PROVE  DirTypeOK'
  BY FatDirAssumption DEF FatDirAssumption, Elsewhere, DirTypeOK

LEMMA Steps ==
  ASSUME DirNext
  PROVE  Elsewhere \/ \E n \in Names : PutEntry(n) \/ DropEntry(n)
  BY DEF DirNext, CreateFile, CreateDir, DeleteFile, DeleteDir

(* Whatever the names, the sectors and what lies behind the directory, the *)
(* slots have their types: an entry is only put where a slot is empty.     *)
THEOREM FatDirTypeCorrect == DirSpec => []DirTypeOK
  <1>1. ASSUME DirTypeOK, [DirNext]_dirVars PROVE DirTypeOK'
    <2>1. CASE DirNext
          BY <2>1, <1>1, Steps, PutTyped, DropTyped, ElsewhereTyped
    <2>2. CASE UNCHANGED dirVars
          BY <2>2, <1>1 DEF dirVars, DirTypeOK
    <2> QED BY <1>1, <2>1, <2>2
  <1> QED BY <1>1, InitTyped, PTL DEF DirSpec

(* Each step keeps the directory a row of blocks, and writes behind it     *)
(* only when it is full, or has been and finds a name there.               *)
LEMMA PutStep ==
  ASSUME EvenSlots, DirTypeOK, DirInv, NEW n \in Names, PutEntry(n)
  PROVE  /\ DirInv' /\ (EndMarked /\ ~EndMarked' => Full')
         /\ Full \/ slots'[SectorPerCluster] = slots[SectorPerCluster]
  <1>1. CASE \E a \in Blocks : FreeFor(a)
        BY <1>1, PutKeeps
  <1>2. CASE \A a \in Blocks : ~FreeFor(a)
    <2>1. Full /\ ~EndMarked
          BY <1>2, MarkedIs DEF FreeFor
    <2>2. placed' \subseteq Names
          BY DEF PutEntry, DirInv
    <2>3. \A s \in 0..SectorPerCluster - 1 : slots'[s] = slots[s]
          BY <1>2, PutBehind
    <2> QED BY <2>1, <2>2, <2>3, BehindKeeps
  <1> QED BY <1>1, <1>2

LEMMA DropStep ==
  ASSUME EvenSlots, DirTypeOK, DirInv, NEW n \in Names, DropEntry(n)
  PROVE  /\ DirInv' /\ (EndMarked => EndMarked')
         /\ ~EndMarked \/ slots'[SectorPerCluster] = slots[SectorPerCluster]
  <1>1. CASE \E b \in Blocks : Holds(b, n)
        BY <1>1, DropKeeps
  <1>2. CASE \A b \in Blocks : ~Holds(b, n)
    <2>1. ~EndMarked /\ \A s \in 0..SectorPerCluster - 1 : slots'[s] = slots[s]
          BY <1>2, DropBehind
    <2>2. placed' \subseteq Names
          BY DEF DropEntry, DirInv
    <2> QED BY <2>1, <2>2, BehindKeeps
  <1> QED BY <1>1, <1>2

LEMMA ElsewhereStep ==
  ASSUME EvenSlots, DirInv, Elsewhere
  PROVE  DirInv' /\ (EndMarked' <=> EndMarked)
  <1>1. \A s \in 0..SectorPerCluster - 1 : slots'[s] = slots[s]
        BY SizesAre DEF Elsewhere
  <1>2. placed' \subseteq Names /\ placed' = placed
        BY DEF DirInv, Elsewhere
  <1> QED BY <1>1, <1>2, BehindKeeps

(* While every entry takes the same number of slots, and the dot entries   *)
(* and a sector are a whole number of entries long, a directory is a row   *)
(* of whole entries: no name has two, none is torn, and nothing used lies  *)
(* behind what was never used.                                             *)
THEOREM FatDirInvariant ==
  ASSUME EvenSlots
  PROVE  DirSpec => []DirInv
  <1>1. ASSUME DirTypeOK, DirInv, [DirNext]_dirVars PROVE DirInv'
    <2>1. CASE DirNext
          BY <2>1, <1>1, Steps, PutStep, DropStep, ElsewhereStep
    <2>2. CASE UNCHANGED dirVars
          BY <2>2, <1>1 DEF dirVars, DirInv, EntriesWhole, EndsLast, AsPlaced, EndMarked,
                            Own, FreeBlock, Holds, At
    <2> QED BY <1>1, <2>1, <2>2
  <1> QED BY <1>1, InitDir, FatDirTypeCorrect, PTL DEF DirSpec

(* Such a directory finds exactly the names created and not deleted since  *)
(* as long as it has its end mark: is_file_in_dir and the deletions, over  *)
(* any order of creating and deleting, whatever lies behind it.            *)
THEOREM FatDirFindsPlaced ==
  ASSUME EvenSlots
  PROVE  DirSpec => []FoundIffPlaced
  <1>1. DirInv => FoundIffPlaced
        BY FoundHolds
  <1> QED BY <1>1, FatDirInvariant, PTL

(* Deleting gives back every slot of an entry, the long-name ones too:     *)
(* while the directory has its end mark the slots in use are as many as    *)
(* the names in it need.                                                   *)
THEOREM FatDirNoOrphans ==
  ASSUME EvenSlots
  PROVE  DirSpec => []NoOrphans
  <1>1. DirInv => NoOrphans
        BY SlotsMatch
  <1> QED BY <1>1, FatDirInvariant, PTL

(* The sector behind the directory, which every loop over its sectors      *)
(* visits, is written by others, by creating an entry in a directory with  *)
(* no free slot, and by deleting one from a directory without end mark,    *)
(* and never else.                                                         *)
THEOREM FatDirOutsideUntouched ==
  ASSUME EvenSlots
  PROVE  DirSpec => OutsideUntouched
  <1> DEFINE Apart ==
        \/ slots'[SectorPerCluster] = slots[SectorPerCluster]
        \/ Elsewhere
        \/ Full /\ \E n \in Names : CreateFile(n) \/ CreateDir(n)
        \/ ~EndMarked /\ \E n \in Names : DeleteFile(n) \/ DeleteDir(n)
  <1>1. ASSUME DirTypeOK, DirInv, [DirNext]_dirVars
        PROVE  [Apart]_dirVars
    <2>1. ASSUME NEW n \in Names, CreateFile(n) \/ CreateDir(n) PROVE Apart
          BY <1>1, <2>1, PutStep DEF CreateFile, CreateDir
    <2>2. ASSUME NEW n \in Names, DeleteFile(n) \/ DeleteDir(n) PROVE Apart
          BY <1>1, <2>2, DropStep DEF DeleteFile, DeleteDir
    <2> QED BY <1>1, <2>1, <2>2 DEF DirNext
  <1> QED BY <1>1, FatDirInvariant, FatDirTypeCorrect, PTL DEF DirSpec, OutsideUntouched

(* The end mark is lost only by the creation that takes the last free      *)
(* slot: a directory that never held as many names as it has room for has  *)
(* all that the theorems above say.                                        *)
THEOREM FatDirMarkedUntilFull ==
  ASSUME EvenSlots
  PROVE  DirSpec => MarkedUntilFull
  <1>1. ASSUME DirTypeOK, DirInv, [DirNext]_dirVars
        PROVE  [EndMarked /\ ~EndMarked' => Full']_dirVars
        BY <1>1, Steps, PutStep, DropStep, ElsewhereStep
  <1> QED BY <1>1, FatDirInvariant, FatDirTypeCorrect, PTL DEF DirSpec, MarkedUntilFull
=============================================================================
