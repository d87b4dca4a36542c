--------------------------- MODULE FatChainProofs ---------------------------
(***************************************************************************)
(* What FatChain's operators compute (the writes of a rewritten chain, the *)
(* clusters a search finds, the length of a chain), and the proof that the *)
(* two copies of the FAT never differ by more than the entry that is being *)
(* written: for every disk and every sequence of commands and crashes, and *)
(* with no further hypothesis.                                             *)
(***************************************************************************)
EXTENDS FatChain, FiniteSetTheorems, SequenceTheorems, WellFoundedInduction, TLAPS

(* A set of numbers that has 0 and, with a number, the next one, has all.  *)
LEMMA Counting ==
  ASSUME NEW S, 0 \in S, \A n \in Nat : n \in S => n + 1 \in S
  PROVE  Nat \subseteq S
  <1> DEFINE Bad == Nat \ S
  <1> SUFFICES ASSUME Bad # {} PROVE FALSE
      OBVIOUS
  <1>1. IsWellFoundedOn(OpToRel(<, Nat), Nat)
        BY NatLessThanWellFounded
  <1>2. \E x \in Bad : \A y \in Bad : ~(<<y, x>> \in OpToRel(<, Nat))
        BY <1>1, WFMin, Zenon
  <1>3. PICK x \in Bad : \A y \in Bad : ~(<<y, x>> \in OpToRel(<, Nat))
        BY <1>2
  <1>4. \A y \in Bad : ~(y < x)
        BY <1>3 DEF OpToRel
  <1>5. x # 0
        OBVIOUS
  <1>6. x - 1 \in Nat /\ x - 1 < x /\ (x - 1) + 1 = x
        BY <1>5
  <1>7. x - 1 \notin S
        BY <1>6
  <1> QED BY <1>4, <1>6, <1>7

-----------------------------------------------------------------------------
Follow(x) == IF x \in Entries THEN fatEntry(x) ELSE EOC

Path(c, n, w) ==
  /\ DOMAIN w = 0..n
  /\ w = [i \in 0..n |-> w[i]]
  /\ w[0] = c
  /\ \A i \in 1..n : w[i] = Follow(w[i - 1])

LEMMA PathExists ==
  ASSUME NEW c, NEW n \in Nat
  PROVE  \E w : Path(c, n, w)
  <1> DEFINE S == {k \in Nat : \E w : Path(c, k, w)}
  <1>1. 0 \in S
    <2>1. Path(c, 0, [i \in 0..0 |-> c])
          BY DEF Path
    <2> QED BY <2>1
  <1>2. ASSUME NEW k \in Nat, k \in S PROVE k + 1 \in S
    <2>1. PICK w : Path(c, k, w)
          BY <1>2
    <2> DEFINE v == [i \in 0..k + 1 |-> IF i = k + 1 THEN Follow(w[k]) ELSE w[i]]
    <2>2. \A i \in 1..k + 1 : v[i] = Follow(v[i - 1])
      <3> SUFFICES ASSUME NEW i \in 1..k + 1 PROVE v[i] = Follow(v[i - 1])
          OBVIOUS
      <3>1. CASE i = k + 1
            BY <3>1
      <3>2. CASE i # k + 1
        <4>1. i \in 1..k /\ i \in 1..k + 1 /\ i - 1 \in 0..k /\ i - 1 \in 0..k + 1
              BY <3>2
        <4>2. v[i] = w[i] /\ v[i - 1] = w[i - 1]
              BY <4>1, <3>2
        <4> QED BY <4>1, <4>2, <2>1 DEF Path
      <3> QED BY <3>1, <3>2
    <2>3. v[0] = c
          BY <2>1 DEF Path
    <2>4. Path(c, k + 1, v)
          BY <2>2, <2>3 DEF Path
    <2> QED BY <2>4
  <1>3. Nat \subseteq S
        BY <1>1, <1>2, Counting
  <1> QED BY <1>3

LEMMA WalkIsPath ==
  ASSUME NEW c
  PROVE  Path(c, MaxCluster + 1, Walk(c))
  <1> DEFINE Again(w) == [i \in 0..MaxCluster + 1 |->
               IF i = 0 THEN c ELSE IF w[i-1] \in Entries THEN fatEntry(w[i-1]) ELSE EOC]
  <1>1. Walk(c) = CHOOSE w : w = Again(w)
        BY DEF Walk
  <1>2. PICK w : Path(c, MaxCluster + 1, w)
        BY PathExists, FatEntryAssumption
  <1>3. w = Again(w)
        BY <1>2, FatEntryAssumption DEF Path, Follow
  <1>4. Walk(c) = Again(Walk(c))
        BY <1>1, <1>3
  <1> DEFINE w0 == Walk(c)
  <1> HIDE DEF w0
  <1>5. w0 = Again(w0)
        BY <1>4 DEF w0
  <1>6. /\ DOMAIN w0 = 0..MaxCluster + 1
        /\ \A i \in 0..MaxCluster + 1 : w0[i] = IF i = 0 THEN c ELSE Follow(w0[i-1])
        BY <1>5 DEF Follow
  <1>7. w0 = [i \in 0..MaxCluster + 1 |-> w0[i]]
        BY <1>5, <1>6
  <1>8. w0[0] = c /\ \A i \in 1..MaxCluster + 1 : w0[i] = Follow(w0[i-1])
        BY <1>6, FatEntryAssumption
  <1> QED BY <1>6, <1>7, <1>8 DEF Path, w0

-----------------------------------------------------------------------------
(* What the walk along a chain gives.                                      *)
FatsTyped ==
  /\ fat1 \in [Places -> Entries \cup {EOC}]
  /\ fat2 \in [Places -> Entries \cup {EOC}]

LEMMA PlaceInPlaces ==
  ASSUME NEW c \in Entries
  PROVE  Place(c) \in Places
  <1> DEFINE a == c \div SECTOR_SIZE
             b == MaxCluster \div SECTOR_SIZE
             q == SECTOR_SIZE \div 4
  <1>1. /\ SECTOR_SIZE \in Nat /\ SECTOR_SIZE >= 4 /\ MaxCluster \in Nat
        /\ c \in Nat /\ c <= MaxCluster
        BY FatEntryAssumption DEF Entries
  <1>2. q \in Nat /\ q > 0
        BY <1>1
  <1>3. a \in Nat /\ b \in Nat /\ a <= b
        BY <1>1, Z3
  <1>4. a \div 4 \in Nat /\ b \div 4 \in Nat /\ a \div 4 <= b \div 4
    <2> HIDE DEF a, b
    <2> QED BY <1>3
  <1>5. c % q \in 0..q - 1
    <2> HIDE DEF q
    <2> QED BY <1>1, <1>2
  <1> QED BY <1>4, <1>5 DEF Place, Places, entrySector, entryOffInSect, PerSector

LEMMA FollowTyped ==
  ASSUME FatsTyped, NEW x
  PROVE  Follow(x) \in Entries \cup {EOC}
  BY PlaceInPlaces DEF FatsTyped, Follow, fatEntry, read_fat_entry

LEMMA WalkTyped ==
  ASSUME FatsTyped, NEW c \in Entries
  PROVE  /\ Walk(c)[0] = c
         /\ DOMAIN Walk(c) = 0..MaxCluster + 1
         /\ \A i \in 0..MaxCluster + 1 : Walk(c)[i] \in Entries \cup {EOC}
         /\ \A i \in 0..MaxCluster : Walk(c)[i + 1] = Follow(Walk(c)[i])
  <1> DEFINE w == Walk(c)
  <1>1. Path(c, MaxCluster + 1, w)
        BY WalkIsPath
  <1> HIDE DEF w
  <1>2. MaxCluster \in Nat
        BY FatEntryAssumption
  <1>3. w[0] = c /\ DOMAIN w = 0..MaxCluster + 1
        BY <1>1 DEF Path
  <1>4. ASSUME NEW i \in 0..MaxCluster PROVE w[i + 1] = Follow(w[i])
    <2>1. i + 1 \in 1..MaxCluster + 1 /\ (i + 1) - 1 = i
          BY <1>2
    <2> QED BY <2>1, <1>1 DEF Path
  <1>5. ASSUME NEW i \in 0..MaxCluster + 1 PROVE w[i] \in Entries \cup {EOC}
    <2>1. CASE i = 0
          BY <2>1, <1>3
    <2>2. CASE i # 0
      <3>1. i - 1 \in 0..MaxCluster /\ (i - 1) + 1 = i
            BY <2>2, <1>2
      <3>2. w[i] = Follow(w[i - 1])
            BY <1>4, <3>1
      <3> QED BY <3>2, FollowTyped
    <2> QED BY <2>1, <2>2
  <1> QED BY <1>3, <1>4, <1>5 DEF w

(* Behind the end of a chain the walk stays at the end.                    *)
LEMMA WalkStays ==
  ASSUME FatsTyped, NEW c \in Entries,
         NEW n \in 0..MaxCluster + 1, Walk(c)[n] >= EOC
  PROVE  \A i \in n..MaxCluster + 1 : Walk(c)[i] = EOC
  <1> DEFINE w == Walk(c)
             S == {k \in Nat : n + k <= MaxCluster + 1 => w[n + k] = EOC}
  <1>1. /\ w[n] >= EOC
        /\ \A i \in 0..MaxCluster + 1 : w[i] \in Entries \cup {EOC}
        /\ \A i \in 0..MaxCluster : w[i + 1] = Follow(w[i])
        BY WalkTyped
  <1> HIDE DEF w
  <1>2. MaxCluster \in Nat /\ EOC \in Nat /\ EOC > MaxCluster
        BY FatEntryAssumption, FatAssumption
  <1>3. EOC \notin Entries
        BY <1>2 DEF Entries
  <1>4. 0 \in S
    <2>1. w[n] \in Entries \cup {EOC}
          BY <1>1
    <2>2. w[n] = EOC
          BY <2>1, <1>1, <1>2 DEF Entries
    <2> QED BY <2>2
  <1>5. ASSUME NEW k \in Nat, k \in S PROVE k + 1 \in S
    <2> SUFFICES ASSUME n + (k + 1) <= MaxCluster + 1 PROVE w[n + (k + 1)] = EOC
        OBVIOUS
    <2>1. n + k \in 0..MaxCluster /\ n + (k + 1) = (n + k) + 1 /\ n + k <= MaxCluster + 1
          BY <1>2
    <2>2. w[n + k] = EOC
          BY <2>1, <1>5
    <2>3. w[n + (k + 1)] = Follow(EOC)
          BY <1>1, <2>1, <2>2
    <2> QED BY <2>3, <1>3 DEF Follow
  <1>6. Nat \subseteq S
        BY <1>4, <1>5, Counting
  <1>7. ASSUME NEW i \in n..MaxCluster + 1 PROVE w[i] = EOC
    <2>1. i - n \in Nat /\ n + (i - n) = i /\ i <= MaxCluster + 1
          BY <1>2
    <2>2. i - n \in S
          BY <1>6, <2>1
    <2> QED BY <2>1, <2>2
  <1> QED BY <1>7 DEF w

LEMMA ChainTyped ==
  ASSUME FatsTyped, NEW c \in Entries
  PROVE  /\ Chain(c) \in Seq(Entries) /\ Len(Chain(c)) = ChainLength(c)
         /\ ChainLength(c) \in 1..MaxCluster + 1
         /\ Chain(c)[1] = c
  <1> DEFINE w == Walk(c)
             n == ChainLength(c)
             S == {i \in 0..MaxCluster : w[i] < EOC}
  <1>1. /\ MaxCluster \in Nat /\ EOC \in Nat /\ EOC > MaxCluster
        /\ w[0] = c
        /\ \A i \in 0..MaxCluster + 1 : w[i] \in Entries \cup {EOC}
        BY WalkTyped, FatEntryAssumption, FatAssumption
  <1>2. IsFiniteSet(0..MaxCluster) /\ Cardinality(0..MaxCluster) = MaxCluster + 1
        BY <1>1, FS_Interval
  <1>3. IsFiniteSet(S) /\ Cardinality(S) <= MaxCluster + 1 /\ Cardinality(S) \in Nat
        BY <1>2, FS_Subset, FS_CardinalityType
  <1>4. n = Cardinality(S)
        BY DEF ChainLength
  <1>5. n # 0
    <2>1. 0 \in S
          BY <1>1 DEF Entries
    <2> QED BY <2>1, <1>3, <1>4, FS_EmptySet
  <1>6. n \in 1..MaxCluster + 1
        BY <1>3, <1>4, <1>5, <1>1
  <1>7. ASSUME NEW i \in 1..n PROVE w[i - 1] \in Entries
    <2> SUFFICES ASSUME w[i - 1] \notin Entries PROVE FALSE
        OBVIOUS
    <2>1. i - 1 \in 0..MaxCluster + 1
          BY <1>6, <1>1
    <2>2. w[i - 1] >= EOC
          BY <2>1, <1>1
    <2>3. \A j \in i - 1..MaxCluster + 1 : w[j] = EOC
          BY <2>1, <2>2, WalkStays
    <2> HIDE DEF w
    <2>4. S \subseteq 0..i - 2
      <3> SUFFICES ASSUME NEW j \in S, ~(j <= i - 2) PROVE FALSE
          BY <1>6, <1>1
      <3>1. j \in i - 1..MaxCluster + 1
            BY <1>6, <1>1
      <3> QED BY <3>1, <2>3, <1>1
    <2>5. IsFiniteSet(0..i - 2) /\ Cardinality(0..i - 2) <= i - 1
      <3> DEFINE k == i - 2
      <3>1. k \in Int /\ k + 1 = i - 1 /\ k + 1 >= 0
            BY <1>6, <1>1
      <3> HIDE DEF k
      <3>2. IsFiniteSet(0..k) /\ Cardinality(0..k) = IF 0 > k THEN 0 ELSE k - 0 + 1
            BY <3>1, 0 \in Int, FS_Interval, Zenon
      <3>3. Cardinality(0..k) <= k + 1
            BY <3>1, <3>2
      <3> QED BY <3>1, <3>2, <3>3 DEF k
    <2>6. Cardinality(S) <= Cardinality(0..i - 2) /\ Cardinality(0..i - 2) \in Nat
          BY <2>4, <2>5, FS_Subset, FS_CardinalityType
    <2> HIDE DEF S, n
    <2> QED BY <2>5, <2>6, <1>4, <1>3, <1>6
  <1> HIDE DEF w, n
  <1>8. Chain(c) = [i \in 1..n |-> w[i - 1]]
        BY DEF Chain, w, n
  <1>9. Chain(c) \in Seq(Entries) /\ Len(Chain(c)) = n /\ Chain(c)[1] = w[0]
        BY <1>6, <1>7, <1>8
  <1> QED BY <1>6, <1>9, <1>1 DEF n

-----------------------------------------------------------------------------
(* The FAT by its entries, and the sequence of a chain's clusters in it.   *)
(* Only the clusters whose entries lie in the first sector have a place of *)
(* their own: those of the higher ones are looked for at the same places.  *)
Near == {c \in Entries : c < PerSector}

FatOf(fat) == [c \in Near |-> fat[Place(c)]]

LEMMA NearIn == Near \subseteq Entries /\ Seq(Near) \subseteq Seq(Entries)
  BY DEF Near

Distinct(s) == \A i, j \in 1..Len(s) : i # j => s[i] # s[j]

IsChain(F, s) ==
  \A i \in 1..Len(s) : F[s[i]] = IF i = Len(s) THEN EOC ELSE s[i + 1]

LEMMA DistinctFits ==
  ASSUME NEW S, IsFiniteSet(S), NEW s \in Seq(S), Distinct(s)
  PROVE  /\ Len(s) <= Cardinality(S)
         /\ IsFiniteSet({s[i] : i \in 1..Len(s)})
         /\ Cardinality({s[i] : i \in 1..Len(s)}) = Len(s)
  <1> DEFINE n == Len(s)
             R == {s[i] : i \in 1..n}
  <1>1. n \in Nat /\ s \in [1..n -> S]
        OBVIOUS
  <1>2. IsFiniteSet(1..n) /\ Cardinality(1..n) = n
    <2>1. n \in Nat
          BY <1>1
    <2> HIDE DEF n
    <2>2. 1 \in Int /\ n \in Int
          BY <2>1
    <2>3. IsFiniteSet(1..n) /\ Cardinality(1..n) = IF 1 > n THEN 0 ELSE n - 1 + 1
          BY <2>2, FS_Interval
    <2> QED BY <2>1, <2>3
  <1>3. R \subseteq S
        BY <1>1
  <1>4. IsFiniteSet(R) /\ Cardinality(R) <= Cardinality(S)
        BY <1>3, FS_Subset
  <1>5. s \in [1..n -> R]
        BY <1>1
  <1>6. s \in Bijection(1..n, R)
        BY <1>5 DEF Distinct, Bijection, Injection, Surjection, IsInjective
  <1>7. ExistsBijection(1..n, R)
        BY <1>6 DEF ExistsBijection
  <1>8. Cardinality(R) = n
        BY <1>7, <1>2, FS_Bijection
  <1> QED BY <1>4, <1>8

(* find_cluster_chain, clusterChainLen and the other walks find exactly    *)
(* the clusters that are linked.                                           *)
LEMMA ChainIs ==
  ASSUME FatsTyped, NEW s \in Seq(Near), s # <<>>, Distinct(s),
         IsChain(FatOf(fat1), s)
  PROVE  Chain(s[1]) = s /\ Returns(s[1])
  <1> DEFINE n == Len(s)
             c == s[1]
             w == Walk(c)
  <1>1. /\ MaxCluster \in Nat /\ EOC \in Nat /\ EOC > MaxCluster
        BY FatEntryAssumption, FatAssumption
  <1>2. /\ n \in Nat /\ n >= 1 /\ s \in Seq(Entries)
        /\ \A i \in 1..n : s[i] \in Near /\ s[i] \in Entries
        BY NearIn
  <1>3. IsFiniteSet(Entries) /\ Cardinality(Entries) = MaxCluster + 1
        BY <1>1, FS_Interval DEF Entries
  <1>4. n <= MaxCluster + 1
        BY <1>2, <1>3, DistinctFits
  <1>5. c \in Entries
        BY <1>2
  <1>6. /\ w[0] = c
        /\ \A i \in 0..MaxCluster + 1 : w[i] \in Entries \cup {EOC}
        /\ \A i \in 0..MaxCluster : w[i + 1] = Follow(w[i])
        /\ DOMAIN w = 0..MaxCluster + 1
        BY <1>5, WalkTyped
  <1>7. \A i \in 1..n : fatEntry(s[i]) = IF i = n THEN EOC ELSE s[i + 1]
        BY <1>2 DEF IsChain, FatOf, fatEntry, read_fat_entry
  <1>8. \A i \in 1..n : Follow(s[i]) = IF i = n THEN EOC ELSE s[i + 1]
        BY <1>2, <1>7 DEF Follow
  <1>9. \A m \in 0..MaxCluster + 1 : w[m] >= EOC => \A i \in m..MaxCluster + 1 : w[i] = EOC
        BY <1>5, WalkStays
  <1> DEFINE S == {k \in Nat : k < n => w[k] = s[k + 1]}
  <1>10. \A k \in 0..n - 1 : w[k] = s[k + 1]
    <2> HIDE DEF w, n
    <2>1. 0 \in S
          BY <1>6
    <2>2. ASSUME NEW k \in Nat, k \in S PROVE k + 1 \in S
      <3> SUFFICES ASSUME k + 1 < n PROVE w[k + 1] = s[(k + 1) + 1]
          OBVIOUS
      <3>1. k \in 0..MaxCluster /\ k < n /\ k + 1 \in 1..n /\ k + 1 # n
            BY <1>4, <1>2, <1>1
      <3>2. w[k] = s[k + 1] /\ w[k + 1] = Follow(w[k])
            BY <3>1, <2>2, <1>6
      <3>3. Follow(s[k + 1]) = s[(k + 1) + 1]
            BY <3>1, <1>8
      <3> QED BY <3>2, <3>3
    <2>3. Nat \subseteq S
          BY <2>1, <2>2, Counting
    <2>4. ASSUME NEW k \in 0..n - 1 PROVE w[k] = s[k + 1]
      <3>1. k \in Nat /\ k < n
            BY <1>2
      <3> QED BY <3>1, <2>3
    <2> QED BY <2>4
  <1>11. w[n] = EOC
    <2> HIDE DEF w, n
    <2>1. n - 1 \in 0..n - 1 /\ n - 1 \in 0..MaxCluster /\ (n - 1) + 1 = n /\ n \in 1..n
          BY <1>2, <1>4, <1>1
    <2>2. w[n - 1] = s[n]
          BY <2>1, <1>10
    <2>3. w[n] = Follow(w[n - 1])
          BY <2>1, <1>6
    <2>4. Follow(s[n]) = EOC
          BY <2>1, <1>8
    <2> QED BY <2>2, <2>3, <2>4
  <1>12. n \in 0..MaxCluster + 1
        BY <1>2, <1>4, <1>1
  <1>13. \A i \in n..MaxCluster + 1 : w[i] = EOC
        BY <1>9, <1>11, <1>12, <1>1
  <1>14. {i \in 0..MaxCluster : w[i] < EOC} = 0..n - 1
    <2> HIDE DEF w, n
    <2>1. ASSUME NEW i \in 0..MaxCluster PROVE w[i] < EOC <=> i \in 0..n - 1
      <3>1. CASE i \in 0..n - 1
        <4>1. w[i] = s[i + 1] /\ i + 1 \in 1..n
              BY <3>1, <1>10, <1>2
        <4>2. w[i] \in Entries
              BY <4>1, <1>2
        <4> QED BY <4>2, <3>1, <1>1 DEF Entries
      <3>2. CASE i \notin 0..n - 1
        <4>1. i \in n..MaxCluster + 1
              BY <3>2, <1>12, <1>1
        <4> QED BY <4>1, <1>13, <3>2, <1>1
      <3> QED BY <3>1, <3>2
    <2>2. 0..n - 1 \subseteq 0..MaxCluster
          BY <1>12, <1>1
    <2> QED BY <2>1, <2>2
  <1>15. ChainLength(c) = n
    <2>1. n - 1 \in Int /\ Cardinality(0..n - 1) = IF 0 > n - 1 THEN 0 ELSE (n - 1) - 0 + 1
          BY <1>2, FS_Interval
    <2>2. Cardinality(0..n - 1) = n
      <3> HIDE DEF n
      <3> QED BY <2>1, <1>2
    <2> QED BY <2>2, <1>14 DEF ChainLength
  <1>16. Returns(c)
    <2>1. n \in DOMAIN w /\ w[n] >= EOC
          BY <1>6, <1>11, <1>12, <1>1
    <2> QED BY <2>1 DEF Returns
  <1>17. Chain(c) = [i \in 1..n |-> w[i - 1]]
        BY <1>15 DEF Chain
  <1>18. \A i \in 1..n : w[i - 1] = s[i]
    <2> HIDE DEF w, n
    <2> SUFFICES ASSUME NEW i \in 1..n PROVE w[i - 1] = s[i]
        OBVIOUS
    <2>1. i - 1 \in 0..n - 1 /\ (i - 1) + 1 = i
          BY <1>2
    <2> QED BY <2>1, <1>10
  <1>19. Chain(c) = s
    <2>1. s = [i \in 1..n |-> s[i]]
          OBVIOUS
    <2> HIDE DEF w, n
    <2> QED BY <2>1, <1>17, <1>18
  <1> QED BY <1>16, <1>19

-----------------------------------------------------------------------------
(* The sequences of empty clusters.                                        *)
IsAscending(S, s) ==
  /\ s \in [1..Cardinality(S) -> S]
  /\ \A i, j \in DOMAIN s : i < j => s[i] < s[j]

LEMMA AscendingExists ==
  ASSUME NEW n \in Nat
  PROVE  \A S \in SUBSET (0..n - 1) : \E s : IsAscending(S, s)
  <1> DEFINE Ns == {k \in Nat : \A S \in SUBSET (0..k - 1) : \E s : IsAscending(S, s)}
  <1>1. 0 \in Ns
    <2> SUFFICES ASSUME NEW S \in SUBSET (0..0 - 1) PROVE \E s : IsAscending(S, s)
        OBVIOUS
    <2>1. S = {}
          OBVIOUS
    <2>2. Cardinality(S) = 0
          BY <2>1, FS_EmptySet
    <2>3. IsAscending(S, [i \in 1..0 |-> 0])
          BY <2>1, <2>2 DEF IsAscending
    <2> QED BY <2>3
  <1>2. ASSUME NEW k \in Nat, k \in Ns PROVE k + 1 \in Ns
    <2> SUFFICES ASSUME NEW S \in SUBSET (0..(k + 1) - 1) PROVE \E s : IsAscending(S, s)
        OBVIOUS
    <2>1. CASE k \notin S
      <3>1. S \in SUBSET (0..k - 1)
            BY <2>1
      <3> QED BY <3>1, <1>2
    <2>2. CASE k \in S
      <3> DEFINE T == S \ {k}
                 c == Cardinality(T)
      <3>1. T \in SUBSET (0..k - 1)
            OBVIOUS
      <3>2. PICK t : IsAscending(T, t)
            BY <3>1, <1>2
      <3>3. IsFiniteSet(0..k - 1)
            BY FS_Interval, k - 1 \in Int, 0 \in Int, Zenon
      <3>4. IsFiniteSet(T) /\ c \in Nat
            BY <3>1, <3>3, FS_Subset, FS_CardinalityType
      <3>5. S = T \cup {k} /\ k \notin T
            BY <2>2
      <3>6. Cardinality(S) = c + 1
            BY <3>4, <3>5, FS_AddElement
      <3> HIDE DEF c
      <3> DEFINE s == [i \in 1..c + 1 |-> IF i = c + 1 THEN k ELSE t[i]]
      <3>7. /\ t \in [1..c -> T]
            /\ \A i, j \in 1..c : i < j => t[i] < t[j]
            BY <3>2 DEF IsAscending, c
      <3>8. \A i \in 1..c : t[i] \in 0..k - 1 /\ s[i] = t[i]
        <4> SUFFICES ASSUME NEW i \in 1..c PROVE t[i] \in 0..k - 1 /\ s[i] = t[i]
            OBVIOUS
        <4>1. t[i] \in T
              BY <3>7
        <4>2. t[i] \in 0..k - 1
              BY <4>1, <3>1
        <4>3. i \in 1..c + 1 /\ i # c + 1
              BY <3>4
        <4> QED BY <4>2, <4>3
      <3>9. s[c + 1] = k
            BY <3>4
      <3>10. s \in [1..Cardinality(S) -> S]
            BY <3>6, <3>7, <3>5, <3>4
      <3>11. ASSUME NEW i \in 1..c + 1, NEW j \in 1..c + 1, i < j PROVE s[i] < s[j]
        <4>1. i \in 1..c /\ s[i] = t[i] /\ t[i] \in 0..k - 1
          <5>1. i \in 1..c
                BY <3>11, <3>4
          <5> QED BY <5>1, <3>8
        <4>2. CASE j = c + 1
              BY <4>1, <4>2, <3>9
        <4>3. CASE j # c + 1
          <5>1. j \in 1..c
                BY <4>3, <3>4
          <5> QED BY <5>1, <4>1, <3>7, <3>8, <3>11
        <4> QED BY <4>2, <4>3
      <3>13. DOMAIN s = 1..c + 1
            OBVIOUS
      <3> HIDE DEF s
      <3>14. IsAscending(S, s)
            BY <3>10, <3>11, <3>13 DEF IsAscending
      <3> QED BY <3>14
    <2> QED BY <2>1, <2>2
  <1>3. Nat \subseteq Ns
        BY <1>1, <1>2, Counting
  <1> QED BY <1>3

LEMMA AscendingIs ==
  ASSUME NEW S \in SUBSET Entries
  PROVE  /\ IsFiniteSet(S) /\ Cardinality(S) \in Nat
         /\ Ascending(S) \in Seq(S) /\ Len(Ascending(S)) = Cardinality(S)
         /\ Distinct(Ascending(S))
         /\ Ascending(S) = <<>> => S = {}
  <1> DEFINE s == Ascending(S)
  <1>1. MaxCluster \in Nat /\ MaxCluster + 1 \in Nat /\ Entries = 0..(MaxCluster + 1) - 1
        BY FatEntryAssumption DEF Entries
  <1>2. \E t : IsAscending(S, t)
        BY <1>1, AscendingExists
  <1>3. \E t \in [1..Cardinality(S) -> S] : \A i, j \in DOMAIN t : i < j => t[i] < t[j]
        BY <1>2 DEF IsAscending
  <1>4. /\ s \in [1..Cardinality(S) -> S]
        /\ \A i, j \in DOMAIN s : i < j => s[i] < s[j]
        BY <1>3 DEF Ascending
  <1>5. IsFiniteSet(0..MaxCluster)
        BY <1>1, FS_Interval
  <1>6. IsFiniteSet(S) /\ Cardinality(S) \in Nat
        BY <1>5, FS_Subset, FS_CardinalityType DEF Entries
  <1> HIDE DEF s
  <1>7. s \in Seq(S) /\ Len(s) = Cardinality(S) /\ DOMAIN s = 1..Cardinality(S)
        BY <1>4, <1>6
  <1>8. \A i \in 1..Len(s) : s[i] \in Nat
    <2>1. \A i \in 1..Len(s) : s[i] \in S
          BY <1>7
    <2>2. \A x \in S : x \in Nat
          BY <1>1
    <2> QED BY <2>1, <2>2
  <1>9. Distinct(s)
    <2> SUFFICES ASSUME NEW i \in 1..Len(s), NEW j \in 1..Len(s), i # j PROVE s[i] # s[j]
        BY DEF Distinct
    <2>1. CASE i < j
          BY <2>1, <1>4, <1>7, <1>8
    <2>2. CASE j < i
          BY <2>2, <1>4, <1>7, <1>8
    <2> QED BY <2>1, <2>2, <1>7, <1>6
  <1>10. s = <<>> => S = {}
        BY <1>6, <1>7, FS_EmptySet
  <1> QED BY <1>6, <1>7, <1>9, <1>10 DEF s

-----------------------------------------------------------------------------
(* The writes an operation issues.                                         *)
DirEntries == [live : BOOLEAN, dir : BOOLEAN, first : Entries \cup {EOC}, size : 0..MaxSize]

Writes ==
  [dst : {"fat1", "fat2"}, key : Entries, val : Entries \cup {EOC}]
    \cup [dst : {"fsinfo"}, key : {0}, val : Int]
    \cup [dst : {"dirent"}, key : Names, val : DirEntries]

(* A write to the second copy of the FAT repeats the one before it, which  *)
(* was to the first.                                                       *)
Whole(W) ==
  \A i \in 1..Len(W) :
    /\ W[i].dst = "fat1" => i < Len(W) /\ W[i + 1] = [W[i] EXCEPT !.dst = "fat2"]
    /\ W[i].dst = "fat2" => i > 1 /\ W[i - 1].dst = "fat1"

(* A directory entry says where its file starts, unless an index that      *)
(* nobody has found is used.                                               *)
Found(W) == \A i \in 1..Len(W) : W[i].dst = "dirent" => W[i].val.first \in Entries

Orderly(W, astray) == W \in Seq(Writes) /\ Whole(W) /\ (~astray => Found(W))

LEMMA ConcatSeq ==
  ASSUME NEW S, NEW s \in Seq(S), NEW t \in Seq(S)
  PROVE  /\ s \o t \in Seq(S) /\ Len(s \o t) = Len(s) + Len(t)
         /\ Len(s) \in Nat /\ Len(t) \in Nat
         /\ \A i \in 1..Len(s) : (s \o t)[i] = s[i]
         /\ \A i \in 1..Len(t) : (s \o t)[Len(s) + i] = t[i]
         /\ \A i \in 1..Len(s \o t) : i \notin 1..Len(s) =>
              i - Len(s) \in 1..Len(t) /\ (s \o t)[i] = t[i - Len(s)]
  OBVIOUS

LEMMA OrderlyConcat ==
  ASSUME NEW s, NEW t, NEW a, Orderly(s, a), Orderly(t, a)
  PROVE  Orderly(s \o t, a)
  <1> DEFINE u == s \o t
             m == Len(s)
             n == Len(t)
  <1>1. s \in Seq(Writes) /\ t \in Seq(Writes) /\ Whole(s) /\ Whole(t)
        BY DEF Orderly
  <1>2. /\ u \in Seq(Writes) /\ Len(u) = m + n /\ m \in Nat /\ n \in Nat
        /\ \A i \in 1..m : u[i] = s[i]
        /\ \A i \in 1..n : u[m + i] = t[i]
        /\ \A i \in 1..Len(u) : i \notin 1..m => i - m \in 1..n /\ u[i] = t[i - m]
        BY <1>1, ConcatSeq
  <1> HIDE DEF u, m, n
  <1>3. Whole(u)
    <2> SUFFICES ASSUME NEW i \in 1..Len(u)
                 PROVE  /\ u[i].dst = "fat1" => i < Len(u) /\ u[i + 1] = [u[i] EXCEPT !.dst = "fat2"]
                        /\ u[i].dst = "fat2" => i > 1 /\ u[i - 1].dst = "fat1"
        BY DEF Whole
    <2>1. CASE i \in 1..m
      <3>1. /\ s[i].dst = "fat1" => i < m /\ s[i + 1] = [s[i] EXCEPT !.dst = "fat2"]
            /\ s[i].dst = "fat2" => i > 1 /\ s[i - 1].dst = "fat1"
            BY <2>1, <1>1 DEF Whole, m
      <3>2. u[i] = s[i] /\ (i < m => u[i + 1] = s[i + 1]) /\ (i > 1 => u[i - 1] = s[i - 1])
            BY <2>1, <1>2
      <3> QED BY <3>1, <3>2, <2>1, <1>2
    <2>2. CASE i \notin 1..m
      <3> DEFINE j == i - m
      <3>1. j \in 1..n /\ u[i] = t[j]
            BY <2>2, <1>2
      <3>2. /\ t[j].dst = "fat1" => j < n /\ t[j + 1] = [t[j] EXCEPT !.dst = "fat2"]
            /\ t[j].dst = "fat2" => j > 1 /\ t[j - 1].dst = "fat1"
            BY <3>1, <1>1 DEF Whole, n
      <3>3. j < n => i + 1 = m + (j + 1) /\ j + 1 \in 1..n /\ i < Len(u)
            BY <3>1, <1>2
      <3>4. j > 1 => i - 1 = m + (j - 1) /\ j - 1 \in 1..n /\ i > 1
            BY <3>1, <1>2
      <3> HIDE DEF j
      <3>5. j < n => u[i + 1] = t[j + 1]
            BY <3>3, <1>2
      <3>6. j > 1 => u[i - 1] = t[j - 1]
            BY <3>4, <1>2
      <3> QED BY <3>1, <3>2, <3>3, <3>4, <3>5, <3>6
    <2> QED BY <2>1, <2>2
  <1>4. ~a => Found(u)
    <2> SUFFICES ASSUME ~a, NEW i \in 1..Len(u), u[i].dst = "dirent"
                 PROVE  u[i].val.first \in Entries
        BY DEF Found
    <2>1. Found(s) /\ Found(t)
          BY DEF Orderly
    <2>2. CASE i \in 1..m
          BY <2>1, <2>2, <1>2 DEF Found, m
    <2>3. CASE i \notin 1..m
          BY <2>1, <2>3, <1>2 DEF Found, n
    <2> QED BY <2>2, <2>3
  <1> QED BY <1>2, <1>3, <1>4 DEF Orderly, u

LEMMA TwoWrites ==
  ASSUME NEW x, NEW y
  PROVE  <<x>> \o <<y>> = <<x, y>>
  <1>1. <<x>> \in Seq({x, y}) /\ <<y>> \in Seq({x, y}) /\ <<x, y>> \in Seq({x, y})
        OBVIOUS
  <1>2. <<x>> \o <<y>> \in Seq({x, y}) /\ Len(<<x>> \o <<y>>) = 2
        BY <1>1
  <1>3. (<<x>> \o <<y>>)[1] = x /\ (<<x>> \o <<y>>)[2] = y
        BY <1>1
  <1>4. Len(<<x, y>>) = 2 /\ <<x, y>>[1] = x /\ <<x, y>>[2] = y
        OBVIOUS
  <1>5. \A i \in 1..2 : i = 1 \/ i = 2
        OBVIOUS
  <1> QED BY <1>1, <1>2, <1>3, <1>4, <1>5, SeqEqual

LEMMA OrderlyNothing ==
  ASSUME NEW a
  PROVE  Orderly(<<>>, a)
  BY DEF Orderly, Whole, Found

LEMMA OrderlyFatWrite ==
  ASSUME NEW a, NEW c \in Entries, NEW v \in Entries \cup {EOC}
  PROVE  Orderly(FatWrite(c, v), a)
  <1> DEFINE x == [dst |-> "fat1", key |-> c, val |-> v]
             y == [dst |-> "fat2", key |-> c, val |-> v]
  <1>1. FatWrite(c, v) = <<x, y>>
        BY TwoWrites DEF FatWrite, Write
  <1>2. x \in Writes /\ y \in Writes
        BY DEF Writes
  <1>3. y = [x EXCEPT !.dst = "fat2"] /\ x.dst = "fat1" /\ y.dst = "fat2"
        OBVIOUS
  <1> HIDE DEF x, y
  <1>4. Whole(<<x, y>>) /\ Found(<<x, y>>)
    <2> DEFINE W == <<x, y>>
    <2>1. Len(W) = 2 /\ W[1] = x /\ W[2] = y
          OBVIOUS
    <2> HIDE DEF W
    <2>2. \A i \in 1..2 : i = 1 \/ i = 2
          OBVIOUS
    <2>3. W[1 + 1] = y /\ W[2 - 1] = x
          BY <2>1
    <2>4. Whole(W)
      <3> SUFFICES ASSUME NEW i \in 1..2
                   PROVE  /\ W[i].dst = "fat1" => i < 2 /\ W[i + 1] = [W[i] EXCEPT !.dst = "fat2"]
                          /\ W[i].dst = "fat2" => i > 1 /\ W[i - 1].dst = "fat1"
          BY <2>1 DEF Whole
      <3>1. CASE i = 1
            BY <3>1, <2>1, <2>3, <1>3
      <3>2. CASE i = 2
            BY <3>2, <2>1, <2>3, <1>3
      <3> QED BY <3>1, <3>2, <2>2
    <2>5. Found(W)
          BY <2>1, <2>2, <1>3 DEF Found
    <2> QED BY <2>4, <2>5 DEF W
  <1> QED BY <1>1, <1>2, <1>4 DEF Orderly

LEMMA OrderlyFSInfoWrite ==
  ASSUME NEW a, NEW n \in Int
  PROVE  Orderly(FSInfoWrite(n), a)
  BY DEF FSInfoWrite, Write, Orderly, Writes, Whole, Found

LEMMA OrderlyDirentWrite ==
  ASSUME NEW a, NEW f \in Names, NEW e \in DirEntries, ~a => e.first \in Entries
  PROVE  Orderly(DirentWrite(f, e), a)
  <1> DEFINE x == [dst |-> "dirent", key |-> f, val |-> e]
  <1>1. DirentWrite(f, e) = <<x>>
        BY DEF DirentWrite, Write
  <1>2. x \in Writes
        BY DEF Writes
  <1>3. x.dst = "dirent" /\ x.val = e
        OBVIOUS
  <1> HIDE DEF x
  <1>4. Whole(<<x>>) /\ (~a => Found(<<x>>))
        BY <1>3 DEF Whole, Found
  <1> QED BY <1>1, <1>2, <1>4 DEF Orderly

(* FatWrites, write by write.                                              *)
LEMMA FatWritesAre ==
  ASSUME NEW cs \in Seq(Entries), NEW vs \in Seq(Entries \cup {EOC}), Len(cs) <= Len(vs)
  PROVE  /\ FatWrites(cs, vs) \in Seq(Writes)
         /\ Len(FatWrites(cs, vs)) = 2 * Len(cs)
         /\ \A j \in 1..Len(cs) :
              /\ 2 * j - 1 \in 1..2 * Len(cs)
              /\ FatWrites(cs, vs)[2 * j - 1] = [dst |-> "fat1", key |-> cs[j], val |-> vs[j]]
              /\ 2 * j \in 1..2 * Len(cs)
              /\ FatWrites(cs, vs)[2 * j] = [dst |-> "fat2", key |-> cs[j], val |-> vs[j]]
         /\ \A k \in 1..2 * Len(cs) : \E j \in 1..Len(cs) : k = 2 * j - 1 \/ k = 2 * j
  <1> DEFINE n == Len(cs)
             h(k) == (k + 1) \div 2
             W == FatWrites(cs, vs)
  <1>1. n \in Nat /\ Len(vs) \in Nat /\ n <= Len(vs)
        OBVIOUS
  <1>2. /\ \A j \in 1..n : cs[j] \in Entries
        /\ \A j \in 1..n : vs[j] \in Entries \cup {EOC}
        BY <1>1
  <1> HIDE DEF n
  <1>3. \A k \in 1..2 * n : h(k) \in 1..n /\ (k = 2 * h(k) - 1 \/ k = 2 * h(k))
        BY <1>1
  <1>4. \A j \in 1..n : /\ 2 * j - 1 \in 1..2 * n /\ h(2 * j - 1) = j /\ (2 * j - 1) % 2 = 1
                        /\ 2 * j \in 1..2 * n /\ h(2 * j) = j /\ (2 * j) % 2 = 0
        BY <1>1
  <1>5. W = [k \in 1..2 * n |->
               [dst |-> IF k % 2 = 1 THEN "fat1" ELSE "fat2",
                key |-> cs[h(k)], val |-> vs[h(k)]]]
        BY DEF FatWrites, n
  <1> HIDE DEF h
  <1>6. \A k \in 1..2 * n : [dst |-> IF k % 2 = 1 THEN "fat1" ELSE "fat2",
                            key |-> cs[h(k)], val |-> vs[h(k)]] \in Writes
        BY <1>3, <1>2 DEF Writes
  <1>7. 2 * n \in Nat
        BY <1>1
  <1> HIDE DEF W
  <1>8. W \in Seq(Writes) /\ Len(W) = 2 * n
        BY <1>5, <1>6, <1>7
  <1>9. ASSUME NEW j \in 1..n
        PROVE  /\ W[2 * j - 1] = [dst |-> "fat1", key |-> cs[j], val |-> vs[j]]
               /\ W[2 * j] = [dst |-> "fat2", key |-> cs[j], val |-> vs[j]]
        BY <1>4, <1>5
  <1> QED BY <1>3, <1>4, <1>8, <1>9 DEF W, n

LEMMA OrderlyFatWrites ==
  ASSUME NEW a, NEW cs \in Seq(Entries), NEW vs \in Seq(Entries \cup {EOC}),
         Len(cs) <= Len(vs)
  PROVE  Orderly(FatWrites(cs, vs), a)
  <1> DEFINE W == FatWrites(cs, vs)
             n == Len(cs)
  <1>0. n \in Nat
        OBVIOUS
  <1>1. /\ W \in Seq(Writes) /\ Len(W) = 2 * n
        /\ \A j \in 1..n :
              /\ 2 * j - 1 \in 1..2 * n
              /\ W[2 * j - 1] = [dst |-> "fat1", key |-> cs[j], val |-> vs[j]]
              /\ 2 * j \in 1..2 * n
              /\ W[2 * j] = [dst |-> "fat2", key |-> cs[j], val |-> vs[j]]
        /\ \A k \in 1..2 * n : \E j \in 1..n : k = 2 * j - 1 \/ k = 2 * j
        BY FatWritesAre, Zenon
  <1> HIDE DEF W, n
  <1>2. ASSUME NEW k \in 1..Len(W)
        PROVE  /\ W[k].dst = "fat1" => k < Len(W) /\ W[k + 1] = [W[k] EXCEPT !.dst = "fat2"]
               /\ W[k].dst = "fat2" => k > 1 /\ W[k - 1].dst = "fat1"
               /\ W[k].dst # "dirent"
    <2>1. PICK j \in 1..n : k = 2 * j - 1 \/ k = 2 * j
          BY <1>1
    <2> DEFINE x == [dst |-> "fat1", key |-> cs[j], val |-> vs[j]]
               y == [dst |-> "fat2", key |-> cs[j], val |-> vs[j]]
    <2>2. y = [x EXCEPT !.dst = "fat2"] /\ x.dst = "fat1" /\ y.dst = "fat2"
          OBVIOUS
    <2>3. W[2 * j - 1] = x /\ W[2 * j] = y
          BY <1>1
    <2> HIDE DEF x, y
    <2>4. CASE k = 2 * j - 1
      <3>1. k + 1 = 2 * j /\ k < Len(W)
            BY <2>4, <1>0, <1>1
      <3> QED BY <2>2, <2>3, <2>4, <3>1
    <2>5. CASE k = 2 * j
      <3>1. k - 1 = 2 * j - 1 /\ k > 1
            BY <2>5, <1>0, <1>1
      <3> QED BY <2>2, <2>3, <2>5, <3>1
    <2> QED BY <2>1, <2>4, <2>5
  <1>3. Whole(W) /\ Found(W)
        BY <1>2 DEF Whole, Found
  <1> QED BY <1>1, <1>3 DEF Orderly, W

-----------------------------------------------------------------------------
(* What the operations compute from the disk.                              *)
LEMMA ClustersTyped ==
  ASSUME NEW size \in Nat
  PROVE  Clusters(size) \in Nat /\ (Clusters(size) = 0 <=> size = 0)
  <1> DEFINE C == ClusterSize
             q == (size + C - 1) \div C
  <1>1. C \in Nat /\ C > 0
        BY FatAssumption
  <1>2. Clusters(size) = q
        BY DEF Clusters
  <1> HIDE DEF C
  <1>3. q \in Nat
        BY <1>1, Z3
  <1>4. size = 0 => q = 0
        BY <1>1, Z3
  <1>5. size > 0 => q > 0
        BY <1>1, Z3
  <1> HIDE DEF q
  <1> QED BY <1>2, <1>3, <1>4, <1>5

Free(used) == {c \in 2..SearchLimit-1 : fatEntry(c) = 0 /\ c \notin used}

LEMMA FreeInEntries ==
  ASSUME NEW used
  PROVE  Free(used) \subseteq Entries /\ Free(used) \subseteq 2..MaxCluster
  BY FatEntryAssumption, FatAssumption DEF Free, Entries

LEMMA EmptyTyped ==
  ASSUME NEW used
  PROVE  /\ Empty(used) \in Seq(Free(used)) /\ Empty(used) \in Seq(Entries)
         /\ Distinct(Empty(used))
         /\ Len(Empty(used)) = Cardinality(Free(used)) /\ IsFiniteSet(Free(used))
         /\ Empty(used) # <<>> => Head(Empty(used)) \in Free(used)
  <1>1. Free(used) \subseteq Entries
        BY FreeInEntries
  <1>2. Empty(used) = Ascending(Free(used))
        BY DEF Empty, Free
  <1> DEFINE s == Empty(used)
             S == Free(used)
  <1> HIDE DEF s, S
  <1>3. s \in Seq(S) /\ Distinct(s) /\ Len(s) = Cardinality(S) /\ IsFiniteSet(S)
        BY <1>1, <1>2, AscendingIs DEF s, S
  <1>4. s \in Seq(Entries)
        BY <1>1, <1>3 DEF S
  <1>5. s # <<>> => Head(s) \in S
        BY <1>3
  <1> QED BY <1>3, <1>4, <1>5 DEF s, S

LEMMA FilledTyped ==
  ASSUME NEW found \in Seq(Entries), NEW n \in Nat, NEW junk \in Entries
  PROVE  /\ Filled(found, n, junk) \in Seq(Entries)
         /\ Len(Filled(found, n, junk)) = n
  <1>1. \A i \in 1..n : (IF i <= Len(found) THEN found[i] ELSE junk) \in Entries
        OBVIOUS
  <1> QED BY <1>1 DEF Filled

LEMMA LinkOrderly ==
  ASSUME NEW a, NEW last \in Entries, NEW idx \in Seq(Entries)
  PROVE  Orderly(Link(last, idx), a)
  <1> DEFINE cs == <<last>> \o idx
             vs == idx \o <<EOC>>
  <1>1. cs \in Seq(Entries) /\ Len(cs) = 1 + Len(idx)
    <2>1. <<last>> \in Seq(Entries) /\ Len(<<last>>) = 1
          OBVIOUS
    <2> QED BY <2>1, ConcatSeq
  <1>2. vs \in Seq(Entries \cup {EOC}) /\ Len(vs) = Len(idx) + 1
    <2>1. <<EOC>> \in Seq(Entries \cup {EOC}) /\ Len(<<EOC>>) = 1
          OBVIOUS
    <2>2. idx \in Seq(Entries \cup {EOC})
          OBVIOUS
    <2> QED BY <2>1, <2>2, ConcatSeq
  <1>3. Len(cs) <= Len(vs)
    <2>1. Len(idx) \in Nat
          OBVIOUS
    <2> HIDE DEF cs, vs
    <2> QED BY <1>1, <1>2, <2>1
  <1> HIDE DEF cs, vs
  <1>4. Orderly(FatWrites(cs, vs), a)
        BY <1>1, <1>2, <1>3, OrderlyFatWrites
  <1> QED BY <1>4 DEF Link, cs, vs

LEMMA ClearedAre ==
  ASSUME NEW idx \in Seq(Entries), NEW keep \in Nat, keep <= Len(idx)
  PROVE  LET cs == SubSeq(idx, keep + 1, Len(idx))
             vs == [i \in 1..Len(idx) - keep |-> 0]
         IN /\ cs \in Seq(Entries) /\ Len(cs) = Len(idx) - keep
            /\ vs \in Seq(Entries \cup {EOC}) /\ Len(vs) = Len(idx) - keep
            /\ \A i \in 1..Len(idx) - keep : cs[i] = idx[keep + i]
  <1> DEFINE n == Len(idx)
             cs == SubSeq(idx, keep + 1, n)
             vs == [i \in 1..n - keep |-> 0]
  <1>1. n \in Nat /\ n - keep \in Nat /\ keep + 1 \in 1..n + 1 /\ n \in 0..n
        OBVIOUS
  <1>2. 0 \in Entries
        BY FatEntryAssumption DEF Entries
  <1>3. vs \in Seq(Entries \cup {EOC}) /\ Len(vs) = n - keep
    <2>1. \A i \in 1..n - keep : vs[i] \in Entries \cup {EOC}
          BY <1>2
    <2> HIDE DEF n
    <2> QED BY <2>1, <1>1
  <1>4. /\ cs = [i \in 1..n - keep |-> idx[keep + i]]
    <2> DEFINE m == keep + 1
    <2>1. cs = [i \in 1..(1 + n - m) |-> idx[m + i - 1]]
          OBVIOUS
    <2>2. 1 + n - m = n - keep
          BY <1>1
    <2>3. \A i \in 1..n - keep : m + i - 1 = keep + i
          BY <1>1
    <2> HIDE DEF m, cs, n
    <2> QED BY <2>1, <2>2, <2>3
  <1>5. \A i \in 1..n - keep : keep + i \in 1..n /\ idx[keep + i] \in Entries
        BY <1>1
  <1> HIDE DEF cs
  <1>6. cs \in Seq(Entries) /\ Len(cs) = n - keep /\ \A i \in 1..n - keep : cs[i] = idx[keep + i]
    <2> DEFINE m == n - keep
    <2>1. m \in Nat
          BY <1>1
    <2>2. cs = [i \in 1..m |-> idx[keep + i]] /\ \A i \in 1..m : idx[keep + i] \in Entries
          BY <1>4, <1>5
    <2> HIDE DEF m
    <2>3. cs \in Seq(Entries) /\ Len(cs) = m /\ \A i \in 1..m : cs[i] = idx[keep + i]
          BY <2>1, <2>2
    <2> QED BY <2>3 DEF m
  <1> QED BY <1>3, <1>6 DEF cs

LEMMA UnlinkOrderly ==
  ASSUME NEW a, NEW idx \in Seq(Entries), NEW keep \in Nat, keep <= Len(idx)
  PROVE  Orderly(Unlink(idx, keep), a)
  <1> DEFINE cs == SubSeq(idx, keep + 1, Len(idx))
             vs == [i \in 1..Len(idx) - keep |-> 0]
             end == IF keep > 0 THEN FatWrite(idx[keep], EOC) ELSE <<>>
  <1>1. cs \in Seq(Entries) /\ vs \in Seq(Entries \cup {EOC}) /\ Len(cs) <= Len(vs)
    <2>1. /\ cs \in Seq(Entries) /\ vs \in Seq(Entries \cup {EOC})
          /\ Len(cs) = Len(idx) - keep /\ Len(vs) = Len(idx) - keep
          BY ClearedAre, Zenon
    <2>2. Len(idx) - keep \in Int
          OBVIOUS
    <2> HIDE DEF cs, vs
    <2> QED BY <2>1, <2>2
  <1> HIDE DEF cs, vs
  <1>2. Orderly(FatWrites(cs, vs), a)
        BY <1>1, OrderlyFatWrites
  <1>3. Orderly(end, a)
    <2>1. CASE keep > 0
      <3>1. idx[keep] \in Entries
            BY <2>1
      <3>2. Orderly(FatWrite(idx[keep], EOC), a)
            BY <3>1, OrderlyFatWrite
      <3> QED BY <3>2, <2>1
    <2>2. CASE ~(keep > 0)
          BY <2>2, OrderlyNothing
    <2> QED BY <2>1, <2>2
  <1> HIDE DEF end
  <1>4. Orderly(FatWrites(cs, vs) \o end, a)
        BY <1>2, <1>3, OrderlyConcat
  <1> QED BY <1>4 DEF Unlink, Cleared, cs, vs, end

-----------------------------------------------------------------------------
(* Types, whatever the partition: the counts may be wrong after a crash or *)
(* when more clusters are promised than there are.                         *)
Firsts(entries) == \A f \in Names : entries[f].first \in Entries

TypeInv ==
  /\ FatsTyped /\ fsinfo \in Int /\ freeCount \in Int
  /\ dirent \in [Names -> DirEntries]
  /\ target \in Names /\ wild \in BOOLEAN /\ leaked \subseteq Entries
  /\ crashes \in 0..MaxCrashes /\ reused \in BOOLEAN
  /\ todo \in Seq(Writes)
  /\ ~wild => Firsts(dirent) /\ Found(todo)

(* An operation begins: it has computed its writes and the free count.     *)
Begins ==
  \E f \in Names, n \in Int : \E W :
    /\ Start(f, W, n) /\ Orderly(W, wild')
    /\ wild' \in BOOLEAN /\ leaked' \subseteq Entries

LEMMA FirstTyped ==
  ASSUME TypeInv, ~wild, NEW f \in Names
  PROVE  firstFileCluster(f) \in Entries /\ firstFileCluster(f) <= dirent[f].first
  <1> DEFINE x == dirent[f].first
  <1>1. x \in Nat /\ x <= MaxCluster /\ HalfWord \in Nat /\ HalfWord > 0 /\ MaxCluster \in Nat
        BY FatAssumption, FatEntryAssumption DEF TypeInv, Firsts, Entries
  <1> HIDE DEF x
  <1>2. x % HalfWord \in Nat /\ x % HalfWord <= x
        BY <1>1, Z3
  <1>3. firstFileCluster(f) = x % HalfWord
        BY DEF firstFileCluster, x
  <1> QED BY <1>1, <1>2, <1>3 DEF Entries, x

(* What write_to_file makes of an entry, with the clusters it may then be  *)
(* given as its first.                                                     *)
NewEntry(new, old, size) ==
  /\ new \in DirEntries /\ new.first = old.first /\ new.size = size
  /\ \A c \in Entries : /\ [new EXCEPT !.first = c] \in DirEntries
                        /\ [new EXCEPT !.first = c].first = c

LEMMA NewEntryTyped ==
  ASSUME TypeInv, NEW f \in Names, NEW size \in Nat, size <= MaxSize,
         NEW new, new = [dirent[f] EXCEPT !.size = size]
  PROVE  NewEntry(new, dirent[f], size)
  <1>1. dirent[f] \in DirEntries /\ MaxSize \in Nat
        BY FatAssumption DEF TypeInv
  <1> DEFINE d == dirent[f]
  <1>0. new = [d EXCEPT !.size = size]
        OBVIOUS
  <1>2. /\ d = [live |-> d.live, dir |-> d.dir, first |-> d.first, size |-> d.size]
        /\ d.live \in BOOLEAN /\ d.dir \in BOOLEAN /\ d.first \in Entries \cup {EOC}
        BY <1>1 DEF DirEntries
  <1> HIDE DEF d
  <1>3. new = [live |-> d.live, dir |-> d.dir, first |-> d.first, size |-> size]
        BY <1>0, <1>2
  <1>4. ASSUME NEW c \in Entries
        PROVE  [new EXCEPT !.first = c] = [live |-> d.live, dir |-> d.dir, first |-> c, size |-> size]
    <2> DEFINE lit == [live |-> d.live, dir |-> d.dir, first |-> d.first, size |-> size]
    <2>1. [lit EXCEPT !.first = c] = [live |-> d.live, dir |-> d.dir, first |-> c, size |-> size]
          OBVIOUS
    <2>2. new = lit
          BY <1>3
    <2> HIDE DEF lit
    <2> QED BY <2>1, <2>2, Zenon
  <1>5. size \in 0..MaxSize
        BY <1>1
  <1>6. new \in DirEntries /\ new.first = d.first /\ new.size = size
        BY <1>2, <1>3, <1>5 DEF DirEntries
  <1>7. ASSUME NEW c \in Entries
        PROVE  /\ [new EXCEPT !.first = c] \in DirEntries
               /\ [new EXCEPT !.first = c].first = c
    <2> DEFINE e == [new EXCEPT !.first = c]
    <2>1. e = [live |-> d.live, dir |-> d.dir, first |-> c, size |-> size]
          BY <1>4
    <2> HIDE DEF e
    <2>2. e \in DirEntries /\ e.first = c
          BY <2>1, <1>2, <1>5 DEF DirEntries
    <2> QED BY <2>2 DEF e
  <1> QED BY <1>6, <1>7 DEF d, NewEntry

LEMMA MadeLive ==
  ASSUME NEW d \in DirEntries, NEW t \in BOOLEAN
  PROVE  LET e == [d EXCEPT !.live = t]
         IN /\ e \in DirEntries /\ e.live = t /\ e.dir = d.dir /\ e.first = d.first
            /\ e.size = d.size
  <1> DEFINE e == [d EXCEPT !.live = t]
  <1>1. e \in DirEntries
        BY DEF DirEntries
  <1>2. e.live = t /\ e.dir = d.dir /\ e.first = d.first /\ e.size = d.size
        BY DEF DirEntries
  <1> QED BY <1>1, <1>2

LEMMA NoEntryTyped == NoEntry \in DirEntries /\ NoEntry.first = 0 /\ 0 \in Entries
  BY FatEntryAssumption, FatAssumption DEF NoEntry, DirEntries, Entries

LEMMA CreateFileBegins ==
  ASSUME TypeInv, NEW f \in Names, CreateFile(f)
  PROVE  Begins
  <1> DEFINE e == [NoEntry EXCEPT !.live = TRUE]
             W == DirentWrite(f, e)
  <1>1. e \in DirEntries /\ e.first \in Entries
    <2>1. TRUE \in BOOLEAN
          OBVIOUS
    <2> QED BY <2>1, NoEntryTyped, MadeLive
  <1> HIDE DEF e
  <1>2. Orderly(W, wild')
        BY <1>1, OrderlyDirentWrite
  <1>3. Start(f, W, freeCount) /\ wild' \in BOOLEAN /\ leaked' \subseteq Entries
        BY DEF CreateFile, TypeInv, e
  <1>4. freeCount \in Int
        BY DEF TypeInv
  <1> HIDE DEF W
  <1> QED BY <1>2, <1>3, <1>4 DEF Begins

LEMMA CreateDirBegins ==
  ASSUME TypeInv, NEW f \in Names, CreateDir(f)
  PROVE  Begins
  <1> DEFINE empty == Empty({})
             made(c) == [live |-> TRUE, dir |-> TRUE, first |-> c, size |-> 0]
             n == freeCount - 1
  <1>1. n \in Int /\ wild' \in BOOLEAN /\ leaked' \subseteq Entries
    <2>1. freeCount \in Int /\ leaked \subseteq Entries /\ wild \in BOOLEAN
          BY DEF TypeInv
    <2>2. leaked' = leaked /\ (wild' = wild \/ wild' = TRUE)
          BY DEF CreateDir
    <2>3. wild' \in BOOLEAN
          BY <2>1, <2>2, Zenon
    <2> QED BY <2>1, <2>2, <2>3
  <1>2. \A c \in Entries \cup {EOC} : made(c) \in DirEntries /\ made(c).first = c
        BY FatAssumption DEF DirEntries
  <1>3. empty # <<>> => Head(empty) \in Entries
        BY EmptyTyped
  <1>4. CASE empty # <<>>
    <2> DEFINE h == Head(empty)
               W == FSInfoWrite(n) \o FatWrite(h, EOC) \o DirentWrite(f, made(h))
    <2>1. Start(f, W, n)
          BY <1>4 DEF CreateDir
    <2>2. h \in Entries
          BY <1>3, <1>4
    <2> HIDE DEF h, made, n
    <2>3. Orderly(FSInfoWrite(n), wild') /\ Orderly(FatWrite(h, EOC), wild')
          BY <1>1, <2>2, OrderlyFSInfoWrite, OrderlyFatWrite
    <2>4. Orderly(DirentWrite(f, made(h)), wild')
          BY <1>2, <2>2, OrderlyDirentWrite
    <2>5. Orderly(W, wild')
          BY <2>3, <2>4, OrderlyConcat
    <2> HIDE DEF W
    <2> QED BY <1>1, <2>1, <2>5 DEF Begins
  <1>5. CASE empty = <<>>
    <2> DEFINE W == FSInfoWrite(n) \o DirentWrite(f, made(EOC))
    <2>1. Start(f, W, n) /\ wild'
          BY <1>5 DEF CreateDir
    <2> HIDE DEF made, n
    <2>2. Orderly(FSInfoWrite(n), wild') /\ Orderly(DirentWrite(f, made(EOC)), wild')
          BY <1>1, <1>2, <2>1, OrderlyFSInfoWrite, OrderlyDirentWrite
    <2>3. Orderly(W, wild')
          BY <2>2, OrderlyConcat
    <2> HIDE DEF W
    <2> QED BY <1>1, <2>1, <2>3 DEF Begins
  <1> QED BY <1>4, <1>5

LEMMA ExtendBegins ==
  ASSUME TypeInv, Idle, NEW f \in Names, NEW n \in Int,
         NEW new \in DirEntries, new.first \in Entries,
         ~(n > 0 /\ firstFileCluster(f) = 0), Extend(f, n, new)
  PROVE  Begins
  <1> DEFINE first == firstFileCluster(f)
             chain == Chain(first)
             found == Empty({})
  <1>1. freeCount \in Int /\ wild \in BOOLEAN /\ leaked \subseteq Entries /\ ~wild /\ FatsTyped
        BY DEF TypeInv, Idle
  <1>2. leaked' \subseteq Entries
        BY <1>1 DEF Extend
  <1>3. first \in Entries
        BY <1>1, FirstTyped
  <1>4. CASE n = 0 /\ UNCHANGED wild /\ Start(f, FSInfoWrite(freeCount) \o DirentWrite(f, new), freeCount)
    <2> DEFINE W == FSInfoWrite(freeCount) \o DirentWrite(f, new)
    <2>1. Orderly(FSInfoWrite(freeCount), wild') /\ Orderly(DirentWrite(f, new), wild')
          BY <1>1, OrderlyFSInfoWrite, OrderlyDirentWrite
    <2>2. Orderly(W, wild')
          BY <2>1, OrderlyConcat
    <2>3. Start(f, W, freeCount) /\ wild' \in BOOLEAN
          BY <1>4, <1>1
    <2> HIDE DEF W
    <2> QED BY <1>1, <1>2, <2>2, <2>3 DEF Begins
  <1>5. CASE UNCHANGED wild /\ Start(f, <<>>, freeCount)
    <2>1. Orderly(<<>>, wild') /\ wild' \in BOOLEAN
          BY <1>5, <1>1, OrderlyNothing
    <2> QED BY <1>1, <1>2, <1>5, <2>1 DEF Begins
  <1>6. ASSUME n > 0, NEW junk \in IF Len(found) < n THEN Garbage ELSE {0},
               Start(f, Link(Last(chain), Filled(found, n, junk))
                           \o FSInfoWrite(freeCount - n)
                           \o FSInfoWrite(freeCount - n)
                           \o DirentWrite(f, new),
                      freeCount - n),
               wild' = (Len(found) < n)
        PROVE  Begins
    <2> DEFINE idx == Filled(found, n, junk)
               last == Last(chain)
               m == freeCount - n
               W == Link(last, idx) \o FSInfoWrite(m) \o FSInfoWrite(m) \o DirentWrite(f, new)
    <2>1. junk \in Entries
          BY <1>6, FatAssumption, FatEntryAssumption DEF Entries
    <2>2. found \in Seq(Entries) /\ n \in Nat
          BY <1>6, EmptyTyped
    <2>3. idx \in Seq(Entries)
          BY <2>1, <2>2, FilledTyped
    <2>4. last \in Entries
      <3>1. chain \in Seq(Entries) /\ Len(chain) \in 1..MaxCluster + 1
            BY <1>1, <1>3, ChainTyped
      <3> HIDE DEF chain
      <3>2. Len(chain) \in 1..Len(chain)
            BY <3>1, FatEntryAssumption
      <3> QED BY <3>1, <3>2 DEF Last
    <2>5. m \in Int /\ wild' \in BOOLEAN
          BY <1>1, <1>6
    <2>6. Start(f, W, m)
          BY <1>6
    <2> HIDE DEF idx, last, m
    <2>7. /\ Orderly(Link(last, idx), wild') /\ Orderly(FSInfoWrite(m), wild')
          /\ Orderly(DirentWrite(f, new), wild')
          BY <2>3, <2>4, <2>5, LinkOrderly, OrderlyFSInfoWrite, OrderlyDirentWrite
    <2>8. Orderly(W, wild')
          BY <2>7, OrderlyConcat
    <2> HIDE DEF W
    <2> QED BY <1>2, <2>5, <2>6, <2>8 DEF Begins
  <1> QED BY <1>4, <1>5, <1>6 DEF Extend

LEMMA BeginBegins ==
  ASSUME TypeInv, Idle, NEW f \in Names, NEW n \in Int, n > 0,
         NEW new \in DirEntries,
         \A c \in Entries : /\ [new EXCEPT !.first = c] \in DirEntries
                            /\ [new EXCEPT !.first = c].first = c,
         Begin(f, n, new)
  PROVE  Begins
  <1> DEFINE empty == Empty({})
             first == Head(empty)
             rest == Empty({first})
             entry == [new EXCEPT !.first = first]
  <1>1. freeCount \in Int /\ wild \in BOOLEAN /\ leaked \subseteq Entries
        BY DEF TypeInv
  <1>2. empty # <<>> => first \in Entries /\ entry \in DirEntries /\ entry.first = first
    <2>1. empty # <<>> => first \in Entries
          BY EmptyTyped, FreeInEntries
    <2> HIDE DEF first
    <2> QED BY <2>1
  <1>3. rest \in Seq(Entries)
        BY EmptyTyped
  <1> HIDE DEF first, rest, entry
  <1>4. CASE Start(f, <<>>, freeCount) /\ wild' = TRUE /\ UNCHANGED leaked
    <2>1. Orderly(<<>>, wild')
          BY OrderlyNothing
    <2> QED BY <1>1, <1>4, <2>1 DEF Begins
  <1>5. CASE /\ empty # <<>> /\ UNCHANGED <<wild, leaked>>
             /\ Start(f, FatWrite(first, EOC) \o FSInfoWrite(freeCount - 1)
                           \o DirentWrite(f, entry), freeCount - 1)
    <2> DEFINE m == freeCount - 1
               W == FatWrite(first, EOC) \o FSInfoWrite(m) \o DirentWrite(f, entry)
    <2>1. m \in Int /\ Start(f, W, m) /\ wild' \in BOOLEAN /\ leaked' \subseteq Entries
          BY <1>1, <1>5
    <2> HIDE DEF m
    <2>2. /\ Orderly(FatWrite(first, EOC), wild') /\ Orderly(FSInfoWrite(m), wild')
          /\ Orderly(DirentWrite(f, entry), wild')
          BY <1>2, <1>5, <2>1, OrderlyFatWrite, OrderlyFSInfoWrite, OrderlyDirentWrite
    <2>3. Orderly(W, wild')
          BY <2>2, OrderlyConcat
    <2> HIDE DEF W
    <2> QED BY <2>1, <2>3 DEF Begins
  <1>6. CASE /\ empty # <<>> /\ Start(f, FatWrite(first, EOC), freeCount)
             /\ leaked' = leaked \cup {first} /\ UNCHANGED wild
    <2>1. Orderly(FatWrite(first, EOC), wild')
          BY <1>2, <1>6, OrderlyFatWrite
    <2> QED BY <1>1, <1>2, <1>6, <2>1 DEF Begins
  <1>7. ASSUME empty # <<>>,
               NEW junk \in IF Len(rest) < n - 1 THEN Garbage ELSE {0},
               Start(f, FatWrite(first, EOC)
                          \o Link(first, Filled(rest, n - 1, junk))
                          \o FSInfoWrite(freeCount - (n - 1))
                          \o FSInfoWrite(freeCount - n)
                          \o DirentWrite(f, entry),
                     freeCount - n),
               wild' = (Len(rest) < n - 1), UNCHANGED leaked
        PROVE  Begins
    <2> DEFINE idx == Filled(rest, n - 1, junk)
               k == freeCount - (n - 1)
               m == freeCount - n
               W == FatWrite(first, EOC) \o Link(first, idx)
                      \o FSInfoWrite(k) \o FSInfoWrite(m) \o DirentWrite(f, entry)
    <2>1. junk \in Entries
      <3>1. Garbage \subseteq Entries /\ 0 \in Entries
            BY FatAssumption, FatEntryAssumption DEF Entries
      <3> QED BY <3>1, <1>7
    <2>2. n - 1 \in Nat
          OBVIOUS
    <2>3. idx \in Seq(Entries)
          BY <2>1, <2>2, <1>3, FilledTyped
    <2>4. k \in Int /\ m \in Int /\ wild' \in BOOLEAN /\ leaked' \subseteq Entries
          BY <1>1, <1>7
    <2>5. Start(f, W, m)
          BY <1>7
    <2> HIDE DEF idx, k, m
    <2>6. /\ Orderly(FatWrite(first, EOC), wild')
          /\ Orderly(Link(first, idx), wild') /\ Orderly(FSInfoWrite(k), wild')
          /\ Orderly(FSInfoWrite(m), wild') /\ Orderly(DirentWrite(f, entry), wild')
          BY <1>2, <1>7, <2>3, <2>4, LinkOrderly, OrderlyFatWrite, OrderlyFSInfoWrite,
             OrderlyDirentWrite
    <2>7. Orderly(W, wild')
          BY <2>6, OrderlyConcat
    <2> HIDE DEF W
    <2> QED BY <2>4, <2>5, <2>7 DEF Begins
  <1> QED BY <1>4, <1>5, <1>6, <1>7 DEF Begin, first, rest, entry

LEMMA ShrinkBegins ==
  ASSUME TypeInv, Idle, NEW f \in Names, NEW new \in DirEntries, new.first \in Entries,
         Clusters(new.size) < Clusters(dirent[f].size), Shrink(f, new)
  PROVE  Begins
  <1> DEFINE first == firstFileCluster(f)
             chain == Chain(first)
             had == Clusters(dirent[f].size)
             keep == Clusters(new.size)
             m == Returned(had - keep)
  <1>1. freeCount \in Int /\ leaked \subseteq Entries /\ ~wild /\ FatsTyped
        BY DEF TypeInv, Idle
  <1>2. had \in Nat /\ keep \in Nat /\ keep < had
    <2>1. dirent[f].size \in Nat /\ new.size \in Nat
          BY FatAssumption DEF TypeInv, DirEntries
    <2> QED BY <2>1, ClustersTyped
  <1>3. chain \in Seq(Entries)
        BY <1>1, FirstTyped, ChainTyped
  <1> HIDE DEF chain, had, keep
  <1>4. m \in Int
        BY <1>1, <1>2 DEF Returned
  <1>5. PICK junk \in IF Len(chain) < had THEN Garbage ELSE {0} :
               Start(f, Unlink(Filled(chain, had, junk), keep)
                     \o FSInfoWrite(m) \o DirentWrite(f, new), m)
        BY DEF Shrink, chain, had, keep
  <1> DEFINE idx == Filled(chain, had, junk)
             W == Unlink(idx, keep) \o FSInfoWrite(m) \o DirentWrite(f, new)
  <1>6. junk \in Entries
    <2>1. Garbage \subseteq Entries /\ 0 \in Entries
          BY FatAssumption, FatEntryAssumption DEF Entries
    <2>2. junk \in IF Len(chain) < had THEN Garbage ELSE {0}
          BY <1>5
    <2> QED BY <2>1, <2>2
  <1>7. idx \in Seq(Entries) /\ Len(idx) = had
        BY <1>2, <1>3, <1>6, FilledTyped
  <1>8. wild' \in BOOLEAN /\ leaked' \subseteq Entries
        BY <1>1 DEF Shrink
  <1> HIDE DEF idx, m
  <1>9. keep <= Len(idx)
        BY <1>2, <1>7
  <1>10. /\ Orderly(Unlink(idx, keep), wild') /\ Orderly(FSInfoWrite(m), wild')
         /\ Orderly(DirentWrite(f, new), wild')
        BY <1>2, <1>4, <1>7, <1>9, UnlinkOrderly, OrderlyFSInfoWrite, OrderlyDirentWrite
  <1>11. Orderly(W, wild')
        BY <1>10, OrderlyConcat
  <1>12. Start(f, W, m)
        BY <1>5 DEF idx
  <1> HIDE DEF W
  <1> QED BY <1>4, <1>8, <1>11, <1>12 DEF Begins

LEMMA WriteFileBegins ==
  ASSUME TypeInv, NEW f \in Names, NEW size \in Nat, WriteFile(f, size)
  PROVE  Begins
  <1> DEFINE new == [dirent[f] EXCEPT !.size = size]
             n == Clusters(size) - Clusters(dirent[f].size)
  <1>1. Idle /\ size <= MaxSize
        BY DEF WriteFile
  <1>2. /\ new \in DirEntries /\ new.first = dirent[f].first /\ new.size = size
        /\ \A c \in Entries : /\ [new EXCEPT !.first = c] \in DirEntries
                              /\ [new EXCEPT !.first = c].first = c
    <2>1. new = [dirent[f] EXCEPT !.size = size]
          OBVIOUS
    <2> HIDE DEF new
    <2>2. NewEntry(new, dirent[f], size)
          BY <1>1, <2>1, NewEntryTyped
    <2> QED BY <2>2 DEF NewEntry
  <1>3. new.first \in Entries
    <2>1. dirent[f].first \in Entries
          BY <1>1 DEF TypeInv, Firsts, Idle
    <2> HIDE DEF new
    <2> QED BY <2>1, <1>2
  <1>4. Clusters(size) \in Nat /\ Clusters(dirent[f].size) \in Nat
    <2>1. dirent[f].size \in Nat
          BY FatAssumption DEF TypeInv, DirEntries
    <2> QED BY <2>1, ClustersTyped
  <1>5. n \in Int
        BY <1>4
  <1>6. n < 0 => Clusters(new.size) < Clusters(dirent[f].size)
    <2>1. Clusters(new.size) = Clusters(size)
          BY <1>2
    <2> HIDE DEF new
    <2> QED BY <2>1, <1>4
  <1>7. \/ n > 0 /\ firstFileCluster(f) = 0 /\ Begin(f, n, new)
        \/ n >= 0 /\ ~(n > 0 /\ firstFileCluster(f) = 0) /\ Extend(f, n, new)
        \/ n < 0 /\ Shrink(f, new)
        BY DEF WriteFile
  <1> HIDE DEF new, n
  <1>8. CASE n > 0 /\ firstFileCluster(f) = 0 /\ Begin(f, n, new)
        BY <1>1, <1>2, <1>5, <1>8, BeginBegins
  <1>9. CASE n >= 0 /\ ~(n > 0 /\ firstFileCluster(f) = 0) /\ Extend(f, n, new)
        BY <1>1, <1>2, <1>3, <1>5, <1>9, ExtendBegins
  <1>10. CASE n < 0 /\ Shrink(f, new)
        BY <1>1, <1>2, <1>3, <1>6, <1>10, ShrinkBegins
  <1> QED BY <1>7, <1>8, <1>9, <1>10

LEMMA FreeAllOrderly ==
  ASSUME TypeInv, NEW a, NEW first \in Entries
  PROVE  Orderly(FreeAll(first), a) /\ CountAfter(first) \in Int
  <1> DEFINE chain == Chain(first)
             m == Returned(Len(chain))
  <1>1. FatsTyped /\ freeCount \in Int
        BY DEF TypeInv
  <1>2. chain \in Seq(Entries) /\ Len(chain) \in Nat
    <2>1. chain \in Seq(Entries)
          BY <1>1, ChainTyped
    <2> HIDE DEF chain
    <2> QED BY <2>1
  <1> HIDE DEF chain
  <1>3. m \in Int
        BY <1>1, <1>2 DEF Returned
  <1>4. 0 \in Nat /\ 0 <= Len(chain)
        BY <1>2
  <1>5. Orderly(Unlink(chain, 0), a)
        BY <1>2, <1>4, UnlinkOrderly
  <1> HIDE DEF m
  <1>6. Orderly(Unlink(chain, 0) \o FSInfoWrite(m), a)
        BY <1>3, <1>5, OrderlyFSInfoWrite, OrderlyConcat
  <1> QED BY <1>1, <1>3, <1>6, OrderlyNothing DEF FreeAll, CountAfter, chain, m

LEMMA DeleteBegins ==
  ASSUME TypeInv, NEW f \in Names, DeleteFile(f) \/ DeleteDir(f)
  PROVE  Begins
  <1> DEFINE first == firstFileCluster(f)
             n == CountAfter(first)
             F == FreeAll(first)
             D == DirentWrite(f, NoEntry)
  <1>1. ~wild /\ wild \in BOOLEAN /\ leaked \subseteq Entries /\ UNCHANGED <<wild, leaked>>
        BY DEF TypeInv, Idle, DeleteFile, DeleteDir
  <1>2. wild' \in BOOLEAN /\ leaked' \subseteq Entries
        BY <1>1
  <1>3. first \in Entries
        BY <1>1, FirstTyped
  <1>4. Orderly(F, wild') /\ n \in Int
        BY <1>3, FreeAllOrderly
  <1>5. Orderly(D, wild')
        BY NoEntryTyped, OrderlyDirentWrite
  <1>6. Start(f, F \o D, n) \/ Start(f, D \o F, n)
        BY DEF DeleteFile, DeleteDir
  <1> HIDE DEF F, D, n
  <1>7. Orderly(F \o D, wild') /\ Orderly(D \o F, wild')
        BY <1>4, <1>5, OrderlyConcat
  <1>8. CASE Start(f, F \o D, n)
        BY <1>2, <1>4, <1>7, <1>8 DEF Begins
  <1>9. CASE Start(f, D \o F, n)
        BY <1>2, <1>4, <1>7, <1>9 DEF Begins
  <1> QED BY <1>6, <1>8, <1>9

-----------------------------------------------------------------------------
LEMMA NextCases ==
  ASSUME TypeInv, Next
  PROVE  (Idle /\ Begins) \/ DiskWrite \/ Crash
  <1>1. ASSUME NEW f \in Names, CreateFile(f) PROVE Idle /\ Begins
        BY <1>1, CreateFileBegins DEF CreateFile
  <1>2. ASSUME NEW f \in Names, CreateDir(f) PROVE Idle /\ Begins
        BY <1>2, CreateDirBegins DEF CreateDir
  <1>3. ASSUME NEW f \in Names, DeleteFile(f) \/ DeleteDir(f) PROVE Idle /\ Begins
        BY <1>3, DeleteBegins DEF DeleteFile, DeleteDir
  <1>4. ASSUME NEW f \in Names, NEW size \in Nat, WriteFile(f, size) PROVE Idle /\ Begins
        BY <1>4, WriteFileBegins DEF WriteFile
  <1>5. ASSUME NEW f \in Names, NEW size \in Sizes, RewriteFile(f, size) PROVE Idle /\ Begins
        BY <1>4, <1>5, FatAssumption DEF RewriteFile
  <1>6. ASSUME NEW f \in Names, NEW size \in Sizes, AppendFile(f, size) PROVE Idle /\ Begins
    <2>1. dirent[f].size + size \in Nat
          BY FatAssumption DEF TypeInv, DirEntries
    <2> QED BY <1>4, <1>6, <2>1 DEF AppendFile
  <1> QED BY <1>1, <1>2, <1>3, <1>5, <1>6 DEF Next

LEMMA InitTypeInv == Init => TypeInv
  <1> SUFFICES ASSUME Init PROVE TypeInv
      OBVIOUS
  <1>1. 0 \in Entries /\ FatsTyped
        BY FatEntryAssumption DEF Init, FatsTyped, Entries
  <1>2. dirent \in [Names -> DirEntries] /\ Firsts(dirent)
        BY NoEntryTyped DEF Init, Firsts
  <1>3. todo \in Seq(Writes) /\ Found(todo)
        BY DEF Init, Found
  <1>4. fsinfo \in Int /\ freeCount \in Int /\ target \in Names /\ crashes \in 0..MaxCrashes
        BY FatAssumption DEF Init
  <1>5. wild \in BOOLEAN /\ leaked \subseteq Entries /\ reused \in BOOLEAN
        BY DEF Init
  <1> QED BY <1>1, <1>2, <1>3, <1>4, <1>5 DEF TypeInv

(* A write that reaches the disk.                                          *)
LEMMA EffectTyped ==
  ASSUME NEW fat \in [Places -> Entries \cup {EOC}], NEW copy \in {"fat1", "fat2"},
         NEW w \in Writes
  PROVE  Effect(fat, copy, w) \in [Places -> Entries \cup {EOC}]
  <1>1. w.dst = copy => w.key \in Entries /\ w.val \in Entries \cup {EOC}
        BY DEF Writes
  <1> QED BY <1>1 DEF Effect, write_fat_entry

LEMMA HeadTail ==
  ASSUME TypeInv, todo # <<>>
  PROVE  /\ Head(todo) \in Writes /\ Head(todo) = todo[1]
         /\ Tail(todo) \in Seq(Writes) /\ Len(todo) \in Nat /\ Len(todo) > 0
         /\ Len(Tail(todo)) = Len(todo) - 1
         /\ \A i \in 1..Len(Tail(todo)) : i + 1 \in 1..Len(todo) /\ Tail(todo)[i] = todo[i + 1]
  BY DEF TypeInv

LEMMA DiskWriteTyped ==
  ASSUME TypeInv, DiskWrite
  PROVE  TypeInv'
  <1> DEFINE w == Head(todo)
  <1>1. todo # <<>> /\ w \in Writes /\ todo' \in Seq(Writes)
        BY HeadTail DEF DiskWrite
  <1>2. FatsTyped'
        BY <1>1, EffectTyped DEF DiskWrite, TypeInv, FatsTyped
  <1>3. w.dst = "fsinfo" => w.val \in Int
        BY <1>1 DEF Writes
  <1>4. fsinfo' \in Int
        BY <1>1, <1>3 DEF DiskWrite, TypeInv
  <1>5. w.dst = "dirent" => w.key \in Names /\ w.val \in DirEntries
        BY <1>1 DEF Writes
  <1>6. dirent' \in [Names -> DirEntries]
        BY <1>5 DEF DiskWrite, TypeInv
  <1>7. ASSUME ~wild PROVE Firsts(dirent') /\ Found(todo')
    <2>1. Firsts(dirent) /\ Found(todo)
          BY <1>7 DEF TypeInv
    <2>2. w.dst = "dirent" => w.val.first \in Entries
          BY <1>1, <2>1, HeadTail DEF Found
    <2>3. Firsts(dirent')
          BY <2>1, <2>2, <1>5 DEF Firsts, DiskWrite, TypeInv
    <2>4. Found(todo')
          BY <1>1, <2>1, HeadTail DEF Found, DiskWrite
    <2> QED BY <2>3, <2>4
  <1>8. UNCHANGED <<freeCount, target, wild, leaked, crashes, reused>>
        BY DEF DiskWrite
  <1> QED BY <1>1, <1>2, <1>4, <1>6, <1>7, <1>8 DEF TypeInv, Firsts

LEMMA TypeInvStep == TypeInv /\ [Next]_vars => TypeInv'
  <1> SUFFICES ASSUME TypeInv, [Next]_vars PROVE TypeInv'
      OBVIOUS
  <1>1. ASSUME Idle, Begins PROVE TypeInv'
    <2>0. PICK f \in Names, n \in Int :
            \E W : /\ Start(f, W, n) /\ Orderly(W, wild')
                   /\ wild' \in BOOLEAN /\ leaked' \subseteq Entries
          BY <1>1 DEF Begins
    <2>1. PICK W : /\ Start(f, W, n) /\ Orderly(W, wild')
                   /\ wild' \in BOOLEAN /\ leaked' \subseteq Entries
          BY <2>0
    <2>2. /\ todo' = W /\ freeCount' = n /\ target' = f /\ reused' = (crashes > 0)
          /\ UNCHANGED <<fat1, fat2, fsinfo, dirent, crashes>>
          BY <2>1 DEF Start, disk
    <2>3. W \in Seq(Writes) /\ (~wild' => Found(W))
          BY <2>1 DEF Orderly
    <2>4. FatsTyped'
          BY <2>2 DEF TypeInv, FatsTyped
    <2>5. reused' \in BOOLEAN
          BY <2>2
    <2>6. ~wild' => ~wild
          BY <1>1 DEF Idle
    <2> QED BY <2>1, <2>2, <2>3, <2>4, <2>5, <2>6 DEF TypeInv, Firsts
  <1>2. ASSUME Crash PROVE TypeInv'
    <2>1. /\ todo' = <<>> /\ freeCount' = fsinfo /\ crashes' = crashes + 1
          /\ crashes < MaxCrashes
          /\ UNCHANGED <<fat1, fat2, fsinfo, dirent, target, wild, leaked, reused>>
          BY <1>2 DEF Crash, disk
    <2>2. FatsTyped' /\ Found(todo') /\ todo' \in Seq(Writes)
          BY <2>1 DEF TypeInv, FatsTyped, Found
    <2> QED BY <2>1, <2>2, FatAssumption DEF TypeInv, Firsts
  <1>3. CASE UNCHANGED vars
        BY <1>3 DEF TypeInv, FatsTyped, Firsts, Found, vars, disk
  <1> QED BY <1>1, <1>2, <1>3, DiskWriteTyped, NextCases

-----------------------------------------------------------------------------
(* MirrorLag: a write to the second copy is due exactly when the place it  *)
(* is for has been written in the first.                                   *)
InFlight == todo # <<>> /\ todo[1].dst = "fat2"

Resumes(W) ==
  \A i \in 1..Len(W) :
    /\ W[i].dst = "fat1" => i < Len(W) /\ W[i + 1] = [W[i] EXCEPT !.dst = "fat2"]
    /\ W[i].dst = "fat2" /\ i > 1 => W[i - 1].dst = "fat1"

MirrorInv ==
  /\ TypeInv /\ Resumes(todo)
  /\ InFlight => /\ fat1[Place(todo[1].key)] = todo[1].val
                 /\ Cardinality(Differing \ {Place(todo[1].key)}) <= crashes
  /\ ~InFlight => Cardinality(Differing) <= crashes

LEMMA DifferingFinite ==
  /\ IsFiniteSet(Differing) /\ Cardinality(Differing) \in Nat
  /\ \A D \in SUBSET Differing : IsFiniteSet(D) /\ Cardinality(D) \in Nat
                                 /\ Cardinality(D) <= Cardinality(Differing)
  /\ \A p : Cardinality(Differing) <= Cardinality(Differing \ {p}) + 1
  <1> DEFINE A == 0..entrySector(MaxCluster)
             B == 0..PerSector - 1
  <1>1. entrySector(MaxCluster) \in Int /\ PerSector - 1 \in Int
    <2> DEFINE b == MaxCluster \div SECTOR_SIZE
    <2>1. b \in Int
          BY FatEntryAssumption, Z3
    <2> HIDE DEF b
    <2>2. b \div 4 \in Int
          BY <2>1
    <2>3. SECTOR_SIZE \div 4 \in Int
          BY FatEntryAssumption
    <2> QED BY <2>2, <2>3 DEF entrySector, PerSector, b
  <1>2. IsFiniteSet(A) /\ IsFiniteSet(B)
    <2> DEFINE a == entrySector(MaxCluster)
               b == PerSector - 1
    <2>1. a \in Int /\ b \in Int /\ 0 \in Int
          BY <1>1
    <2> HIDE DEF a, b
    <2>2. IsFiniteSet(0..a) /\ IsFiniteSet(0..b)
          BY <2>1, FS_Interval, Zenon
    <2> QED BY <2>2 DEF a, b
  <1> HIDE DEF A, B
  <1>3. IsFiniteSet(A \X B)
        BY <1>2, FS_Product
  <1>4. Places = A \X B
        BY DEF Places, A, B
  <1>5. Differing \subseteq Places
        BY DEF Differing
  <1> DEFINE D0 == Differing
  <1> HIDE DEF D0
  <1>6. IsFiniteSet(D0) /\ Cardinality(D0) \in Nat
        BY <1>3, <1>4, <1>5, FS_Subset, FS_CardinalityType DEF D0
  <1>7. \A D \in SUBSET D0 : IsFiniteSet(D) /\ Cardinality(D) \in Nat
                             /\ Cardinality(D) <= Cardinality(D0)
        BY <1>6, FS_Subset, FS_CardinalityType
  <1>8. ASSUME NEW p PROVE Cardinality(D0) <= Cardinality(D0 \ {p}) + 1
    <2>1. Cardinality(D0 \ {p}) = IF p \in D0 THEN Cardinality(D0) - 1 ELSE Cardinality(D0)
          BY <1>6, FS_RemoveElement
    <2> QED BY <2>1, <1>6
  <1> QED BY <1>6, <1>7, <1>8 DEF D0

LEMMA MirrorImpliesLag == MirrorInv => MirrorLag
  <1> SUFFICES ASSUME MirrorInv PROVE MirrorLag
      OBVIOUS
  <1>1. crashes \in Nat
        BY FatAssumption DEF MirrorInv, TypeInv
  <1>2. CASE InFlight
    <2> DEFINE p == Place(todo[1].key)
    <2>1. Cardinality(Differing \ {p}) <= crashes
          BY <1>2 DEF MirrorInv
    <2> HIDE DEF p
    <2>2. Cardinality(Differing) <= Cardinality(Differing \ {p}) + 1
          BY DifferingFinite
    <2>3. /\ Cardinality(Differing) \in Nat /\ Cardinality(Differing \ {p}) \in Nat
          BY DifferingFinite
    <2>4. Cardinality(Differing) <= crashes + 1
          BY <1>1, <2>1, <2>2, <2>3
    <2> QED BY <1>2, <2>4 DEF MirrorLag, InFlight
  <1>3. CASE ~InFlight
    <2>1. Cardinality(Differing) <= crashes
          BY <1>3 DEF MirrorInv
    <2> QED BY <1>1, <1>3, <2>1 DEF MirrorLag, InFlight
  <1> QED BY <1>2, <1>3

LEMMA InitMirrorInv == Init => MirrorInv
  <1> SUFFICES ASSUME Init PROVE MirrorInv
      OBVIOUS
  <1>1. TypeInv
        BY InitTypeInv
  <1>2. todo = <<>> /\ fat1 = fat2 /\ crashes = 0
        BY DEF Init
  <1>3. Differing = {}
        BY <1>2 DEF Differing
  <1>4. Cardinality(Differing) <= crashes
        BY <1>2, <1>3, FS_EmptySet
  <1>5. Resumes(todo) /\ ~InFlight
        BY <1>2 DEF Resumes, InFlight
  <1> QED BY <1>1, <1>4, <1>5 DEF MirrorInv

LEMMA DiskWriteMirror ==
  ASSUME MirrorInv, DiskWrite, TypeInv'
  PROVE  MirrorInv'
  <1> DEFINE w == Head(todo)
             p == Place(w.key)
             t == Tail(todo)
  <1>1. /\ todo # <<>> /\ w = todo[1] /\ todo' = t /\ crashes' = crashes /\ w \in Writes
        /\ fat1' = Effect(fat1, "fat1", w) /\ fat2' = Effect(fat2, "fat2", w)
        BY HeadTail DEF DiskWrite, MirrorInv
  <1>2. /\ Len(todo) \in Nat /\ Len(todo) > 0 /\ Len(t) = Len(todo) - 1
        /\ \A i \in 1..Len(t) : i + 1 \in 1..Len(todo) /\ t[i] = todo[i + 1]
        BY <1>1, HeadTail DEF MirrorInv
  <1>3. /\ TypeInv /\ Resumes(todo) /\ FatsTyped /\ crashes \in Nat
        BY FatAssumption DEF MirrorInv, TypeInv
  <1> HIDE DEF w, t
  <1>4. Resumes(t)
    <2> SUFFICES ASSUME NEW i \in 1..Len(t)
                 PROVE  /\ t[i].dst = "fat1" => i < Len(t) /\ t[i + 1] = [t[i] EXCEPT !.dst = "fat2"]
                        /\ t[i].dst = "fat2" /\ i > 1 => t[i - 1].dst = "fat1"
        BY DEF Resumes
    <2> DEFINE j == i + 1
    <2>1. j \in 1..Len(todo) /\ t[i] = todo[j] /\ j > 1
          BY <1>2
    <2>2. /\ todo[j].dst = "fat1" => j < Len(todo) /\ todo[j + 1] = [todo[j] EXCEPT !.dst = "fat2"]
          /\ todo[j].dst = "fat2" => todo[j - 1].dst = "fat1"
          BY <2>1, <1>3 DEF Resumes
    <2>3. j < Len(todo) => i < Len(t) /\ t[i + 1] = todo[j + 1]
      <3> SUFFICES ASSUME j < Len(todo) PROVE i < Len(t) /\ t[i + 1] = todo[j + 1]
          OBVIOUS
      <3>1. i < Len(t) /\ i + 1 \in 1..Len(t)
            BY <1>2
      <3> QED BY <3>1, <1>2
    <2>4. i > 1 => t[i - 1] = todo[j - 1]
      <3> SUFFICES ASSUME i > 1 PROVE t[i - 1] = todo[j - 1]
          OBVIOUS
      <3>1. i - 1 \in 1..Len(t) /\ (i - 1) + 1 = j - 1
            BY <1>2
      <3> QED BY <3>1, <1>2
    <2> HIDE DEF j
    <2> QED BY <2>1, <2>2, <2>3, <2>4
  <1>5. 1 \in 1..Len(todo) /\ 1 + 1 = 2
        BY <1>2
  <1>6. w.dst = "fat1" => Len(t) >= 1 /\ t # <<>> /\ t[1] = [w EXCEPT !.dst = "fat2"]
    <2> SUFFICES ASSUME w.dst = "fat1" PROVE Len(t) >= 1 /\ t # <<>> /\ t[1] = [w EXCEPT !.dst = "fat2"]
        OBVIOUS
    <2>1. 1 < Len(todo) /\ todo[2] = [w EXCEPT !.dst = "fat2"]
          BY <1>1, <1>3, <1>5 DEF Resumes
    <2>2. Len(t) >= 1 /\ t[1] = todo[2]
          BY <2>1, <1>2, <1>5
    <2> QED BY <2>1, <2>2
  <1>7. w.dst # "fat1" => ~InFlight'
    <2> SUFFICES ASSUME w.dst # "fat1", t # <<>>, t[1].dst = "fat2" PROVE FALSE
        BY <1>1 DEF InFlight
    <2>1. Len(t) >= 1
          BY <1>1, <1>3, HeadTail DEF t
    <2>2. t[1] = todo[2] /\ 2 \in 1..Len(todo)
          BY <2>1, <1>2
    <2>3. todo[2 - 1].dst = "fat1"
      <3>1. \A i \in 1..Len(todo) : todo[i].dst = "fat2" /\ i > 1 => todo[i - 1].dst = "fat1"
            BY <1>3 DEF Resumes
      <3>2. todo[2].dst = "fat2" /\ 2 > 1
            BY <2>2
      <3> QED BY <3>1, <3>2, <2>2
    <2>4. 2 - 1 = 1
          OBVIOUS
    <2> QED BY <2>3, <2>4, <1>1
  <1>8. Differing \in SUBSET Places
        BY DEF Differing
  <1>9. CASE w.dst = "fat1"
    <2>1. w.key \in Entries /\ p \in Places
          BY <1>1, <1>9, PlaceInPlaces DEF Writes
    <2>2. fat1' = [fat1 EXCEPT ![p] = w.val] /\ fat2' = fat2
          BY <1>1, <1>9 DEF Effect, write_fat_entry
    <2>3. t[1].key = w.key /\ t[1].val = w.val /\ t[1].dst = "fat2"
      <3>1. t[1] = [w EXCEPT !.dst = "fat2"]
            BY <1>6, <1>9
      <3>2. w \in [dst : {"fat1", "fat2"}, key : Entries, val : Entries \cup {EOC}]
            BY <1>1, <1>9 DEF Writes
      <3> QED BY <3>1, <3>2
    <2>4. InFlight'
          BY <1>1, <1>6, <1>9, <2>3 DEF InFlight
    <2>5. fat1'[p] = w.val
          BY <2>1, <2>2, <1>3 DEF FatsTyped
    <2>6. ~InFlight
          BY <1>1, <1>9 DEF InFlight
    <2>7. Cardinality(Differing) <= crashes
          BY <2>6 DEF MirrorInv
    <2>8. (Differing' \ {p}) \in SUBSET Differing
          BY <2>1, <2>2, <1>3 DEF FatsTyped, Differing
    <2>9. Cardinality(Differing' \ {p}) <= crashes
      <3> DEFINE D == Differing' \ {p}
      <3>1. Cardinality(D) <= Cardinality(Differing) /\ Cardinality(D) \in Nat
            BY <2>8, DifferingFinite
      <3>2. Cardinality(Differing) \in Nat
            BY DifferingFinite
      <3> HIDE DEF D
      <3>3. Cardinality(D) <= crashes
            BY <3>1, <3>2, <2>7, <1>3
      <3> QED BY <3>3 DEF D
    <2>10. fat1'[Place(todo'[1].key)] = todo'[1].val
          BY <1>1, <2>3, <2>5
    <2>11. Cardinality(Differing' \ {Place(todo'[1].key)}) <= crashes'
          BY <1>1, <2>3, <2>9
    <2>12. Resumes(todo')
          BY <1>1, <1>4
    <2> QED BY <2>4, <2>10, <2>11, <2>12 DEF MirrorInv
  <1>10. CASE w.dst = "fat2"
    <2>1. w.key \in Entries /\ p \in Places
          BY <1>1, <1>10, PlaceInPlaces DEF Writes
    <2>2. fat1' = fat1 /\ fat2' = [fat2 EXCEPT ![p] = w.val]
          BY <1>1, <1>10 DEF Effect, write_fat_entry
    <2>3. InFlight
          BY <1>1, <1>10 DEF InFlight
    <2>4. fat1[p] = w.val /\ Cardinality(Differing \ {p}) <= crashes
          BY <1>1, <2>3 DEF MirrorInv
    <2>5. Differing' = Differing \ {p}
          BY <2>1, <2>2, <2>4, <1>3 DEF FatsTyped, Differing
    <2>6. Cardinality(Differing') <= crashes'
          BY <1>1, <2>4, <2>5
    <2>7. Resumes(todo')
          BY <1>1, <1>4
    <2>8. ~InFlight'
          BY <1>7, <1>10
    <2> QED BY <2>6, <2>7, <2>8 DEF MirrorInv
  <1>11. CASE w.dst # "fat1" /\ w.dst # "fat2"
    <2>1. fat1' = fat1 /\ fat2' = fat2
          BY <1>1, <1>11 DEF Effect
    <2>2. ~InFlight
          BY <1>1, <1>11 DEF InFlight
    <2>3. Differing' = Differing
          BY <2>1 DEF Differing
    <2>4. Cardinality(Differing') <= crashes'
          BY <1>1, <2>2, <2>3 DEF MirrorInv
    <2>5. Resumes(todo') /\ ~InFlight'
          BY <1>1, <1>4, <1>7, <1>11
    <2> QED BY <2>4, <2>5 DEF MirrorInv
  <1> QED BY <1>9, <1>10, <1>11

LEMMA MirrorInvStep == MirrorInv /\ [Next]_vars => MirrorInv'
  <1> SUFFICES ASSUME MirrorInv, [Next]_vars PROVE MirrorInv'
      OBVIOUS
  <1>1. TypeInv /\ TypeInv'
        BY TypeInvStep DEF MirrorInv
  <1>2. ASSUME Idle, Begins PROVE MirrorInv'
    <2>0. PICK f \in Names, n \in Int : \E W : Start(f, W, n) /\ Orderly(W, wild')
          BY <1>2 DEF Begins
    <2>1. PICK W : Start(f, W, n) /\ Orderly(W, wild')
          BY <2>0
    <2>2. todo' = W /\ UNCHANGED <<fat1, fat2, crashes>>
          BY <2>1 DEF Start, disk
    <2>3. Whole(W) /\ W \in Seq(Writes)
          BY <2>1 DEF Orderly
    <2>4. Resumes(todo')
          BY <2>2, <2>3 DEF Whole, Resumes
    <2>5. ~InFlight'
      <3> SUFFICES ASSUME W # <<>>, W[1].dst = "fat2" PROVE FALSE
          BY <2>2 DEF InFlight
      <3>1. 1 \in 1..Len(W)
            BY <2>3
      <3>2. \A i \in 1..Len(W) : W[i].dst = "fat2" => i > 1
            BY <2>3 DEF Whole
      <3>3. 1 > 1
            BY <3>1, <3>2
      <3> QED BY <3>3
    <2>6. ~InFlight /\ Differing' = Differing
          BY <1>2, <2>2 DEF Idle, InFlight, Differing
    <2> QED BY <1>1, <2>2, <2>4, <2>5, <2>6 DEF MirrorInv
  <1>3. ASSUME Crash PROVE MirrorInv'
    <2>1. todo' = <<>> /\ crashes' = crashes + 1 /\ UNCHANGED <<fat1, fat2>>
          BY <1>3 DEF Crash, disk
    <2>2. Resumes(todo') /\ ~InFlight' /\ Differing' = Differing
          BY <2>1 DEF Resumes, InFlight, Differing
    <2>3. MirrorLag /\ crashes \in Nat /\ Cardinality(Differing) \in Nat
          BY MirrorImpliesLag, DifferingFinite, FatAssumption DEF MirrorInv, TypeInv
    <2>4. Cardinality(Differing) <= crashes + 1
          BY <2>3 DEF MirrorLag
    <2> QED BY <1>1, <2>1, <2>2, <2>4 DEF MirrorInv
  <1>4. CASE UNCHANGED vars
    <2>1. UNCHANGED <<fat1, fat2, todo, crashes>>
          BY <1>4 DEF vars, disk
    <2>2. Differing' = Differing
          BY <2>1 DEF Differing
    <2> QED BY <1>1, <2>1, <2>2 DEF MirrorInv, InFlight
  <1> QED BY <1>1, <1>2, <1>3, <1>4, DiskWriteMirror, NextCases

(* write_fat_entry writes an entry to the first copy of the FAT and then   *)
(* to the second, so that for every partition, every sequence of           *)
(* operations and every pattern of crashes the copies differ in at most    *)
(* one entry for each crash, and one more while an entry is being written. *)
(* It holds without a hypothesis, after an operation that has used an      *)
(* index nobody found too.                                                 *)
THEOREM FatMirrorLag == Spec => []MirrorLag
  <1> QED BY InitMirrorInv, MirrorInvStep, MirrorImpliesLag, PTL DEF Spec

-----------------------------------------------------------------------------
(***************************************************************************)
(* The allocation of clusters where the search for free ones stays in the  *)
(* first sector of the FAT: no cluster is in two files, a chain is as long *)
(* as its file's size says, no cluster is lost, the free count is right,   *)
(* and no command touches what belongs to another file; all until a crash, *)
(* and for every disk, every number of files and every sequence of         *)
(* commands.  The invariant says, of each file, which chain it has once    *)
(* the writes still pending are done.                                      *)
(***************************************************************************)
(* What the driver needs to allocate correctly: that the search for free   *)
(* clusters, which stops at fat_size / 4, stops within the first sector of *)
(* the FAT, and that what was in use before lies there too.  The volume    *)
(* and its FAT may be longer: the driver never comes to the rest.          *)
FewClusters == SearchLimit <= PerSector /\ \A c \in Foreign : c < PerSector

-----------------------------------------------------------------------------
(* What a place on the disk will hold once all of the writes W are done,   *)
(* if it holds x now.                                                      *)
Hits(w, dst, key) == w.dst = dst /\ w.key = key

Lands(x, dst, key, W, v) ==
  \/ /\ v = x
     /\ \A j \in 1..Len(W) : ~Hits(W[j], dst, key)
  \/ \E i \in 1..Len(W) : /\ Hits(W[i], dst, key) /\ W[i].val = v
                          /\ \A j \in 1..Len(W) : j > i => ~Hits(W[j], dst, key)

LEMMA LandsNothing ==
  ASSUME NEW x, NEW dst, NEW key, NEW v
  PROVE  Lands(x, dst, key, <<>>, v) <=> v = x
  BY DEF Lands

LEMMA LandsOne ==
  ASSUME NEW x, NEW dst, NEW key, NEW w
  PROVE  Lands(x, dst, key, <<w>>, IF Hits(w, dst, key) THEN w.val ELSE x)
  <1> DEFINE W == <<w>>
  <1>1. Len(W) = 1 /\ W[1] = w
        OBVIOUS
  <1>2. \A j \in 1..1 : j = 1
        OBVIOUS
  <1> HIDE DEF W
  <1>3. CASE Hits(w, dst, key)
    <2>1. 1 \in 1..Len(W) /\ Hits(W[1], dst, key) /\ W[1].val = w.val
          BY <1>1, <1>3
    <2>2. \A j \in 1..Len(W) : j > 1 => ~Hits(W[j], dst, key)
          BY <1>1, <1>2
    <2> QED BY <2>1, <2>2, <1>3 DEF Lands, W
  <1>4. CASE ~Hits(w, dst, key)
    <2>1. \A j \in 1..Len(W) : ~Hits(W[j], dst, key)
          BY <1>1, <1>2, <1>4
    <2> QED BY <2>1, <1>4 DEF Lands, W
  <1> QED BY <1>3, <1>4

LEMMA LandsConcat ==
  ASSUME NEW x, NEW dst, NEW key, NEW s \in Seq(Writes), NEW t \in Seq(Writes),
         NEW y, NEW z, Lands(x, dst, key, s, y), Lands(y, dst, key, t, z)
  PROVE  Lands(x, dst, key, s \o t, z)
  <1> DEFINE u == s \o t
             m == Len(s)
             n == Len(t)
  <1>1. /\ Len(u) = m + n /\ m \in Nat /\ n \in Nat
        /\ \A i \in 1..m : u[i] = s[i]
        /\ \A i \in 1..n : u[m + i] = t[i]
        /\ \A i \in 1..Len(u) : i \notin 1..m => i - m \in 1..n /\ u[i] = t[i - m]
        BY ConcatSeq
  <1> HIDE DEF u, m, n
  <1>2. CASE \A j \in 1..n : ~Hits(t[j], dst, key)
    <2>1. z = y
          BY <1>2 DEF Lands, n
    <2>2. CASE y = x /\ \A j \in 1..m : ~Hits(s[j], dst, key)
      <3>1. \A j \in 1..Len(u) : ~Hits(u[j], dst, key)
            BY <1>1, <1>2, <2>2
      <3> QED BY <2>1, <2>2, <3>1 DEF Lands, u
    <2>3. ASSUME NEW i \in 1..m, Hits(s[i], dst, key), s[i].val = y,
                 \A j \in 1..m : j > i => ~Hits(s[j], dst, key)
          PROVE  Lands(x, dst, key, u, z)
      <3>1. i \in 1..Len(u) /\ u[i] = s[i]
            BY <1>1
      <3>2. \A j \in 1..Len(u) : j > i => ~Hits(u[j], dst, key)
            BY <1>1, <1>2, <2>3
      <3> QED BY <2>1, <2>3, <3>1, <3>2 DEF Lands
    <2> QED BY <2>2, <2>3 DEF Lands, u, m
  <1>3. ASSUME NEW i \in 1..n, Hits(t[i], dst, key), t[i].val = z,
               \A j \in 1..n : j > i => ~Hits(t[j], dst, key)
        PROVE  Lands(x, dst, key, u, z)
    <2>1. m + i \in 1..Len(u) /\ u[m + i] = t[i]
          BY <1>1
    <2>2. ASSUME NEW j \in 1..Len(u), j > m + i PROVE ~Hits(u[j], dst, key)
      <3>1. j \notin 1..m /\ j - m \in Int /\ j - m > i
            BY <1>1, <2>2
      <3>2. j - m \in 1..n /\ u[j] = t[j - m]
            BY <3>1, <1>1
      <3> QED BY <3>1, <3>2, <1>3
    <2> QED BY <1>3, <2>1, <2>2 DEF Lands
  <1>4. \/ \A j \in 1..n : ~Hits(t[j], dst, key)
        \/ \E i \in 1..n : /\ Hits(t[i], dst, key) /\ t[i].val = z
                           /\ \A j \in 1..n : j > i => ~Hits(t[j], dst, key)
        BY DEF Lands, n
  <1> QED BY <1>2, <1>3, <1>4 DEF u

LEMMA LandsNext ==
  ASSUME NEW x, NEW dst, NEW key, NEW W \in Seq(Writes), W # <<>>,
         NEW v, Lands(x, dst, key, W, v)
  PROVE  Lands(IF Hits(W[1], dst, key) THEN W[1].val ELSE x, dst, key, Tail(W), v)
  <1> DEFINE t == Tail(W)
             n == Len(W)
  <1>1. /\ n \in Nat /\ n > 0 /\ Len(t) = n - 1
        /\ \A i \in 1..Len(t) : i + 1 \in 1..n /\ t[i] = W[i + 1]
        OBVIOUS
  <1> HIDE DEF t, n
  <1>2. \A i \in 1..n : i # 1 => i - 1 \in 1..Len(t) /\ t[i - 1] = W[i]
        BY <1>1
  <1>3. CASE v = x /\ \A j \in 1..n : ~Hits(W[j], dst, key)
    <2>1. ~Hits(W[1], dst, key)
          BY <1>1, <1>3
    <2>2. \A j \in 1..Len(t) : ~Hits(t[j], dst, key)
          BY <1>1, <1>3
    <2> QED BY <1>3, <2>1, <2>2 DEF Lands, t
  <1>4. ASSUME NEW i \in 1..n, Hits(W[i], dst, key), W[i].val = v,
               \A j \in 1..n : j > i => ~Hits(W[j], dst, key)
        PROVE  Lands(IF Hits(W[1], dst, key) THEN W[1].val ELSE x, dst, key, t, v)
    <2>1. CASE i = 1
      <3>1. \A j \in 1..Len(t) : ~Hits(t[j], dst, key)
            BY <1>1, <1>4, <2>1
      <3> QED BY <1>4, <2>1, <3>1 DEF Lands
    <2>2. CASE i # 1
      <3>1. i - 1 \in 1..Len(t) /\ t[i - 1] = W[i]
            BY <1>2, <2>2
      <3>2. \A j \in 1..Len(t) : j > i - 1 => ~Hits(t[j], dst, key)
            BY <1>1, <1>4
      <3> QED BY <1>4, <3>1, <3>2 DEF Lands
    <2> QED BY <2>1, <2>2
  <1> QED BY <1>3, <1>4 DEF Lands, t, n

-----------------------------------------------------------------------------
(* The FAT F, the directory entries D and the count I of the FSInfo sector *)
(* become F1, D1 and I1 by the writes W.                                   *)
Yields(W, F, D, I, F1, D1, I1) ==
  /\ W \in Seq(Writes)
  /\ \A c \in Near : Lands(F[c], "fat1", c, W, F1[c])
  /\ \A g \in Names : Lands(D[g], "dirent", g, W, D1[g])
  /\ Lands(I, "fsinfo", 0, W, I1)

(* The writes W concern the entries K of the FAT and the file f, and no    *)
(* count they write is below n.                                            *)
Within(W, K, f, n) ==
  \A i \in 1..Len(W) : /\ W[i].dst = "fat1" => W[i].key \in K
                       /\ W[i].dst = "dirent" => W[i].key = f
                       /\ W[i].dst = "fsinfo" => W[i].val >= n

LEMMA YieldsConcat ==
  ASSUME NEW s, NEW t, NEW F, NEW D, NEW I, NEW F1, NEW D1, NEW I1, NEW F2, NEW D2, NEW I2,
         Yields(s, F, D, I, F1, D1, I1), Yields(t, F1, D1, I1, F2, D2, I2)
  PROVE  Yields(s \o t, F, D, I, F2, D2, I2)
  <1>1. s \in Seq(Writes) /\ t \in Seq(Writes)
        BY DEF Yields
  <1>2. s \o t \in Seq(Writes)
        BY <1>1, ConcatSeq
  <1>3. ASSUME NEW c \in Near PROVE Lands(F[c], "fat1", c, s \o t, F2[c])
    <2>1. Lands(F[c], "fat1", c, s, F1[c]) /\ Lands(F1[c], "fat1", c, t, F2[c])
          BY DEF Yields
    <2> QED BY <1>1, <2>1, LandsConcat
  <1>4. ASSUME NEW g \in Names PROVE Lands(D[g], "dirent", g, s \o t, D2[g])
    <2>1. Lands(D[g], "dirent", g, s, D1[g]) /\ Lands(D1[g], "dirent", g, t, D2[g])
          BY DEF Yields
    <2> QED BY <1>1, <2>1, LandsConcat
  <1>5. Lands(I, "fsinfo", 0, s \o t, I2)
    <2>1. Lands(I, "fsinfo", 0, s, I1) /\ Lands(I1, "fsinfo", 0, t, I2)
          BY DEF Yields
    <2> QED BY <1>1, <2>1, LandsConcat
  <1> QED BY <1>2, <1>3, <1>4, <1>5 DEF Yields

LEMMA WithinConcat ==
  ASSUME NEW s \in Seq(Writes), NEW t \in Seq(Writes), NEW K, NEW f, NEW n,
         Within(s, K, f, n), Within(t, K, f, n)
  PROVE  Within(s \o t, K, f, n)
  <1> DEFINE u == s \o t
  <1>1. /\ Len(u) = Len(s) + Len(t) /\ Len(s) \in Nat /\ Len(t) \in Nat
        /\ \A i \in 1..Len(s) : u[i] = s[i]
        /\ \A i \in 1..Len(u) : i \notin 1..Len(s) => i - Len(s) \in 1..Len(t) /\ u[i] = t[i - Len(s)]
        BY ConcatSeq
  <1> HIDE DEF u
  <1> SUFFICES ASSUME NEW i \in 1..Len(u)
               PROVE  /\ u[i].dst = "fat1" => u[i].key \in K
                      /\ u[i].dst = "dirent" => u[i].key = f
                      /\ u[i].dst = "fsinfo" => u[i].val >= n
      BY DEF Within, u
  <1>2. CASE i \in 1..Len(s)
        BY <1>1, <1>2 DEF Within
  <1>3. CASE i \notin 1..Len(s)
        BY <1>1, <1>3 DEF Within
  <1> QED BY <1>2, <1>3

LEMMA BothConcat ==
  ASSUME NEW s, NEW t, NEW F, NEW D, NEW I, NEW F1, NEW D1, NEW I1, NEW F2, NEW D2, NEW I2,
         NEW K, NEW f, NEW n,
         Yields(s, F, D, I, F1, D1, I1), Within(s, K, f, n),
         Yields(t, F1, D1, I1, F2, D2, I2), Within(t, K, f, n)
  PROVE  Yields(s \o t, F, D, I, F2, D2, I2) /\ Within(s \o t, K, f, n)
  <1>1. s \in Seq(Writes) /\ t \in Seq(Writes)
        BY DEF Yields
  <1> QED BY <1>1, YieldsConcat, WithinConcat

LEMMA NothingYields ==
  ASSUME NEW F, NEW D, NEW I, NEW K, NEW f, NEW n
  PROVE  Yields(<<>>, F, D, I, F, D, I) /\ Within(<<>>, K, f, n)
  <1>1. <<>> \in Seq(Writes) /\ Within(<<>>, K, f, n)
        BY DEF Within
  <1> QED BY <1>1, LandsNothing DEF Yields

LEMMA FSInfoYields ==
  ASSUME NEW m \in Int, NEW F, NEW D, NEW I, NEW K, NEW f, NEW n \in Int, m >= n
  PROVE  Yields(FSInfoWrite(m), F, D, I, F, D, m) /\ Within(FSInfoWrite(m), K, f, n)
  <1> DEFINE w == [dst |-> "fsinfo", key |-> 0, val |-> m]
  <1>1. FSInfoWrite(m) = <<w>>
        BY DEF FSInfoWrite, Write
  <1>2. w \in Writes /\ w.dst = "fsinfo" /\ w.val = m /\ w.key = 0
        BY DEF Writes
  <1> HIDE DEF w
  <1>3. <<w>> \in Seq(Writes)
        BY <1>2
  <1>4. /\ \A c : ~Hits(w, "fat1", c) /\ ~Hits(w, "dirent", c)
        /\ Hits(w, "fsinfo", 0)
        BY <1>2 DEF Hits
  <1>5. /\ \A c \in Near : Lands(F[c], "fat1", c, <<w>>, F[c])
        /\ \A g \in Names : Lands(D[g], "dirent", g, <<w>>, D[g])
    <2>1. ASSUME NEW c \in Near PROVE Lands(F[c], "fat1", c, <<w>>, F[c])
      <3>1. Lands(F[c], "fat1", c, <<w>>, IF Hits(w, "fat1", c) THEN w.val ELSE F[c])
            BY LandsOne
      <3> QED BY <3>1, <1>4
    <2>2. ASSUME NEW g \in Names PROVE Lands(D[g], "dirent", g, <<w>>, D[g])
      <3>1. Lands(D[g], "dirent", g, <<w>>, IF Hits(w, "dirent", g) THEN w.val ELSE D[g])
            BY LandsOne
      <3> QED BY <3>1, <1>4
    <2> QED BY <2>1, <2>2
  <1>6. Lands(I, "fsinfo", 0, <<w>>, m)
    <2>1. Lands(I, "fsinfo", 0, <<w>>, IF Hits(w, "fsinfo", 0) THEN w.val ELSE I)
          BY LandsOne
    <2> QED BY <2>1, <1>4, <1>2
  <1>7. Within(<<w>>, K, f, n)
        BY <1>2 DEF Within
  <1> QED BY <1>1, <1>3, <1>5, <1>6, <1>7 DEF Yields

LEMMA DirentYields ==
  ASSUME NEW e \in DirEntries, NEW F, NEW D, NEW I, NEW K, NEW f \in Names, NEW n,
         NEW D1, D1[f] = e, \A g \in Names \ {f} : D1[g] = D[g]
  PROVE  Yields(DirentWrite(f, e), F, D, I, F, D1, I) /\ Within(DirentWrite(f, e), K, f, n)
  <1> DEFINE w == [dst |-> "dirent", key |-> f, val |-> e]
  <1>1. DirentWrite(f, e) = <<w>>
        BY DEF DirentWrite, Write
  <1>2. w \in Writes /\ w.dst = "dirent" /\ w.val = e /\ w.key = f
        BY DEF Writes
  <1> HIDE DEF w
  <1>3. <<w>> \in Seq(Writes)
        BY <1>2
  <1>4. /\ \A c : ~Hits(w, "fat1", c) /\ ~Hits(w, "fsinfo", c)
        /\ \A g : Hits(w, "dirent", g) <=> g = f
        BY <1>2 DEF Hits
  <1>5. ASSUME NEW c \in Near PROVE Lands(F[c], "fat1", c, <<w>>, F[c])
    <2>1. Lands(F[c], "fat1", c, <<w>>, IF Hits(w, "fat1", c) THEN w.val ELSE F[c])
          BY LandsOne
    <2> QED BY <2>1, <1>4
  <1>6. ASSUME NEW g \in Names PROVE Lands(D[g], "dirent", g, <<w>>, D1[g])
    <2>1. Lands(D[g], "dirent", g, <<w>>, IF Hits(w, "dirent", g) THEN w.val ELSE D[g])
          BY LandsOne
    <2>2. D1[g] = IF Hits(w, "dirent", g) THEN w.val ELSE D[g]
          BY <1>2, <1>4
    <2> QED BY <2>1, <2>2
  <1>7. Lands(I, "fsinfo", 0, <<w>>, I)
    <2>1. Lands(I, "fsinfo", 0, <<w>>, IF Hits(w, "fsinfo", 0) THEN w.val ELSE I)
          BY LandsOne
    <2> QED BY <2>1, <1>4
  <1>8. Within(<<w>>, K, f, n)
        BY <1>2 DEF Within
  <1> QED BY <1>1, <1>3, <1>5, <1>6, <1>7, <1>8 DEF Yields

LEMMA FatWriteYields ==
  ASSUME NEW c \in Near, NEW v \in Entries \cup {EOC}, NEW F, NEW D, NEW I,
         NEW F1, F1[c] = v, \A d \in Near \ {c} : F1[d] = F[d],
         NEW K, c \in K, NEW f, NEW n
  PROVE  Yields(FatWrite(c, v), F, D, I, F1, D, I) /\ Within(FatWrite(c, v), K, f, n)
  <1> DEFINE x == [dst |-> "fat1", key |-> c, val |-> v]
             y == [dst |-> "fat2", key |-> c, val |-> v]
  <1>1. FatWrite(c, v) = <<x>> \o <<y>>
        BY DEF FatWrite, Write
  <1>2. /\ x \in Writes /\ x.dst = "fat1" /\ x.key = c /\ x.val = v
        /\ y \in Writes /\ y.dst = "fat2" /\ y.key = c /\ y.val = v
        BY NearIn DEF Writes
  <1> HIDE DEF x, y
  <1>3. <<x>> \in Seq(Writes) /\ <<y>> \in Seq(Writes)
        BY <1>2
  <1>4. /\ \A g : ~Hits(x, "dirent", g) /\ ~Hits(x, "fsinfo", g)
        /\ \A g : ~Hits(y, "dirent", g) /\ ~Hits(y, "fsinfo", g) /\ ~Hits(y, "fat1", g)
        /\ \A g : Hits(x, "fat1", g) <=> g = c
        BY <1>2 DEF Hits
  <1>5. Yields(<<x>>, F, D, I, F1, D, I)
    <2>1. ASSUME NEW d \in Near PROVE Lands(F[d], "fat1", d, <<x>>, F1[d])
      <3>1. Lands(F[d], "fat1", d, <<x>>, IF Hits(x, "fat1", d) THEN x.val ELSE F[d])
            BY LandsOne
      <3>2. F1[d] = IF Hits(x, "fat1", d) THEN x.val ELSE F[d]
            BY <1>2, <1>4
      <3> QED BY <3>1, <3>2
    <2>2. ASSUME NEW g \in Names PROVE Lands(D[g], "dirent", g, <<x>>, D[g])
      <3>1. Lands(D[g], "dirent", g, <<x>>, IF Hits(x, "dirent", g) THEN x.val ELSE D[g])
            BY LandsOne
      <3> QED BY <3>1, <1>4
    <2>3. Lands(I, "fsinfo", 0, <<x>>, I)
      <3>1. Lands(I, "fsinfo", 0, <<x>>, IF Hits(x, "fsinfo", 0) THEN x.val ELSE I)
            BY LandsOne
      <3> QED BY <3>1, <1>4
    <2> QED BY <1>3, <2>1, <2>2, <2>3 DEF Yields
  <1>6. Yields(<<y>>, F1, D, I, F1, D, I)
    <2>1. ASSUME NEW d \in Near PROVE Lands(F1[d], "fat1", d, <<y>>, F1[d])
      <3>1. Lands(F1[d], "fat1", d, <<y>>, IF Hits(y, "fat1", d) THEN y.val ELSE F1[d])
            BY LandsOne
      <3> QED BY <3>1, <1>4
    <2>2. ASSUME NEW g \in Names PROVE Lands(D[g], "dirent", g, <<y>>, D[g])
      <3>1. Lands(D[g], "dirent", g, <<y>>, IF Hits(y, "dirent", g) THEN y.val ELSE D[g])
            BY LandsOne
      <3> QED BY <3>1, <1>4
    <2>3. Lands(I, "fsinfo", 0, <<y>>, I)
      <3>1. Lands(I, "fsinfo", 0, <<y>>, IF Hits(y, "fsinfo", 0) THEN y.val ELSE I)
            BY LandsOne
      <3> QED BY <3>1, <1>4
    <2> QED BY <1>3, <2>1, <2>2, <2>3 DEF Yields
  <1>7. Yields(<<x>> \o <<y>>, F, D, I, F1, D, I)
        BY <1>5, <1>6, YieldsConcat
  <1>8. Within(<<x>>, K, f, n) /\ Within(<<y>>, K, f, n)
        BY <1>2 DEF Within
  <1>9. Within(<<x>> \o <<y>>, K, f, n)
        BY <1>3, <1>8, WithinConcat
  <1> QED BY <1>1, <1>7, <1>9

Elems(s) == {s[i] : i \in 1..Len(s)}

LEMMA FatWritesYields ==
  ASSUME NEW cs \in Seq(Near), NEW vs \in Seq(Entries \cup {EOC}), Len(cs) <= Len(vs),
         Distinct(cs), NEW F, NEW D, NEW I, NEW F1,
         \A j \in 1..Len(cs) : F1[cs[j]] = vs[j],
         \A d \in Near : d \notin Elems(cs) => F1[d] = F[d],
         NEW K, Elems(cs) \subseteq K, NEW f, NEW n
  PROVE  Yields(FatWrites(cs, vs), F, D, I, F1, D, I) /\ Within(FatWrites(cs, vs), K, f, n)
  <1> DEFINE W == FatWrites(cs, vs)
             m == Len(cs)
  <1>0. m \in Nat
        OBVIOUS
  <1>1. /\ W \in Seq(Writes) /\ Len(W) = 2 * m
        /\ \A j \in 1..m :
              /\ 2 * j - 1 \in 1..2 * m
              /\ W[2 * j - 1] = [dst |-> "fat1", key |-> cs[j], val |-> vs[j]]
              /\ 2 * j \in 1..2 * m
              /\ W[2 * j] = [dst |-> "fat2", key |-> cs[j], val |-> vs[j]]
        /\ \A k \in 1..2 * m : \E j \in 1..m : k = 2 * j - 1 \/ k = 2 * j
    <2>1. cs \in Seq(Entries)
          BY NearIn
    <2> QED BY <2>1, FatWritesAre, Zenon
  <1>2. \A i, j \in 1..m : i # j => cs[i] # cs[j]
        BY DEF Distinct
  <1>3. \A j \in 1..m : F1[cs[j]] = vs[j] /\ cs[j] \in K
        BY DEF Elems
  <1>4. \A d \in Near : (\A j \in 1..m : cs[j] # d) => F1[d] = F[d]
        BY DEF Elems
  <1> HIDE DEF W, m
  <1>5. ASSUME NEW k \in 1..Len(W)
        PROVE  \E j \in 1..m : /\ W[k].key = cs[j] /\ W[k].val = vs[j]
                               /\ \/ k = 2 * j - 1 /\ W[k].dst = "fat1"
                                  \/ W[k].dst = "fat2"
    <2>1. PICK j \in 1..m : k = 2 * j - 1 \/ k = 2 * j
          BY <1>1
    <2>2. CASE k = 2 * j - 1
      <3>1. W[k] = [dst |-> "fat1", key |-> cs[j], val |-> vs[j]]
            BY <2>2, <1>1
      <3> QED BY <2>2, <3>1
    <2>3. CASE k = 2 * j
      <3>1. W[k] = [dst |-> "fat2", key |-> cs[j], val |-> vs[j]]
            BY <2>3, <1>1
      <3> QED BY <3>1
    <2> QED BY <2>1, <2>2, <2>3
  <1>51. ASSUME NEW k \in 1..Len(W), NEW d, Hits(W[k], "fat1", d)
         PROVE  \E j \in 1..m : k = 2 * j - 1 /\ d = cs[j]
    <2>1. W[k].dst # "fat2" /\ W[k].key = d
          BY <1>51 DEF Hits
    <2> QED BY <2>1, <1>5
  <1>52. ASSUME NEW k \in 1..Len(W), NEW d
         PROVE  ~Hits(W[k], "dirent", d) /\ ~Hits(W[k], "fsinfo", d)
    <2>1. W[k].dst = "fat1" \/ W[k].dst = "fat2"
          BY <1>5
    <2> QED BY <2>1 DEF Hits
  <1>6. ASSUME NEW d \in Near PROVE Lands(F[d], "fat1", d, W, F1[d])
    <2>1. CASE \A j \in 1..m : cs[j] # d
      <3>1. \A k \in 1..Len(W) : ~Hits(W[k], "fat1", d)
        <4> SUFFICES ASSUME NEW k \in 1..Len(W), Hits(W[k], "fat1", d) PROVE FALSE
            OBVIOUS
        <4>1. \E j \in 1..m : k = 2 * j - 1 /\ d = cs[j]
              BY <1>51
        <4> QED BY <4>1, <2>1
      <3> QED BY <2>1, <3>1, <1>4 DEF Lands
    <2>2. ASSUME NEW j \in 1..m, cs[j] = d PROVE Lands(F[d], "fat1", d, W, F1[d])
      <3> DEFINE i == 2 * j - 1
      <3>1. i \in 1..Len(W) /\ W[i] = [dst |-> "fat1", key |-> cs[j], val |-> vs[j]]
            BY <1>1
      <3>2. Hits(W[i], "fat1", d) /\ W[i].val = F1[d]
        <4>1. W[i].dst = "fat1" /\ W[i].key = cs[j] /\ W[i].val = vs[j]
              BY <3>1
        <4> HIDE DEF i
        <4> QED BY <4>1, <2>2, <1>3 DEF Hits
      <3>3. ASSUME NEW k \in 1..Len(W), k > i PROVE ~Hits(W[k], "fat1", d)
        <4> SUFFICES ASSUME Hits(W[k], "fat1", d) PROVE FALSE
            OBVIOUS
        <4>1. PICK l \in 1..m : k = 2 * l - 1 /\ d = cs[l]
              BY <1>51
        <4>2. l = j
              BY <4>1, <2>2, <1>2
        <4>3. k = i
              BY <4>1, <4>2
        <4>4. i \in Int
              BY <1>0
        <4> HIDE DEF i
        <4> QED BY <4>3, <4>4, <3>3
      <3> HIDE DEF i
      <3> QED BY <3>1, <3>2, <3>3 DEF Lands
    <2> QED BY <2>1, <2>2
  <1>7. ASSUME NEW g \in Names PROVE Lands(D[g], "dirent", g, W, D[g])
    <2>1. \A k \in 1..Len(W) : ~Hits(W[k], "dirent", g)
          BY <1>52
    <2> QED BY <2>1 DEF Lands
  <1>8. Lands(I, "fsinfo", 0, W, I)
    <2>1. \A k \in 1..Len(W) : ~Hits(W[k], "fsinfo", 0)
          BY <1>52
    <2> QED BY <2>1 DEF Lands
  <1>9. Within(W, K, f, n)
    <2> SUFFICES ASSUME NEW i \in 1..Len(W)
                 PROVE  /\ W[i].dst = "fat1" => W[i].key \in K
                        /\ W[i].dst = "dirent" => W[i].key = f
                        /\ W[i].dst = "fsinfo" => W[i].val >= n
        BY DEF Within
    <2>2. \/ \E j \in 1..m : W[i].dst = "fat1" /\ W[i].key = cs[j]
          \/ W[i].dst = "fat2"
          BY <1>5
    <2> QED BY <2>2, <1>3
  <1> QED BY <1>1, <1>6, <1>7, <1>8, <1>9 DEF Yields, W

-----------------------------------------------------------------------------
(* A file's clusters, in the FAT F: a chain of as many as its entry e      *)
(* says.                                                                   *)
Clus == {c \in 2..MaxCluster : c < PerSector}

Linked(F, e, s) ==
  /\ Distinct(s) /\ IsChain(F, s)
  /\ IF e.live /\ e.first # 0 THEN s # <<>> /\ s[1] = e.first ELSE s = <<>>
  /\ e.live => Len(s) = IF e.dir THEN 1 ELSE Clusters(e.size)

AllOwned(ch) == UNION {Elems(ch[f]) : f \in Names}

(* What is true between two operations: of the FAT F, the entries D, the   *)
(* clusters L that failed writes have left, and the free count n.          *)
Good(F, D, L, ch, n) ==
  /\ F \in [Near -> Entries \cup {EOC}]
  /\ D \in [Names -> DirEntries]
  /\ L \subseteq Clus
  /\ ch \in [Names -> Seq(Clus)]
  /\ F[0] = EOC /\ F[1] = EOC
  /\ \A f \in Names : Linked(F, D[f], ch[f]) /\ D[f].first \in Near
  /\ \A f \in Names : Elems(ch[f]) \cap (Foreign \cup L) = {}
  /\ \A f, g \in Names : f # g => Elems(ch[f]) \cap Elems(ch[g]) = {}
  /\ \A c \in Clus : F[c] # 0 <=> c \in Foreign \cup L \cup AllOwned(ch)
  /\ n = InitFree - Cardinality(AllOwned(ch))

LEMMA ClusIn ==
  /\ Clus \subseteq Near /\ 0 \in Near /\ 1 \in Near /\ 0 \notin Clus /\ 1 \notin Clus
  /\ EOC \notin Near /\ EOC # 0
  /\ IsFiniteSet(Clus)
  <1>1. MaxCluster \in Nat /\ MaxCluster >= 1 /\ EOC \in Nat /\ EOC > MaxCluster
        BY FatEntryAssumption, FatAssumption
  <1>2. IsFiniteSet(Clus)
    <2>1. IsFiniteSet(2..MaxCluster)
          BY <1>1, FS_Interval
    <2>2. Clus \subseteq 2..MaxCluster
          BY DEF Clus
    <2> QED BY <2>1, <2>2, FS_Subset
  <1>3. PerSector \in Nat /\ PerSector >= 2
        BY FatEntryAssumption DEF PerSector
  <1> QED BY <1>1, <1>2, <1>3 DEF Clus, Near, Entries

LEMMA ElemsIn ==
  ASSUME NEW s \in Seq(Clus)
  PROVE  /\ Elems(s) \subseteq Clus /\ s \in Seq(Near)
         /\ IsFiniteSet(Elems(s)) /\ (Distinct(s) => Cardinality(Elems(s)) = Len(s))
  <1>1. Elems(s) \subseteq Clus
        BY DEF Elems
  <1>2. IsFiniteSet(Elems(s))
        BY <1>1, ClusIn, FS_Subset
  <1>3. Distinct(s) => Cardinality(Elems(s)) = Len(s)
        BY ClusIn, DistinctFits DEF Elems
  <1>4. s \in Seq(Near)
        BY ClusIn
  <1> QED BY <1>1, <1>2, <1>3, <1>4

LEMMA OwnedIn ==
  ASSUME NEW ch \in [Names -> Seq(Clus)]
  PROVE  /\ AllOwned(ch) \subseteq Clus /\ IsFiniteSet(AllOwned(ch))
         /\ Cardinality(AllOwned(ch)) \in Nat
  <1>1. \A f \in Names : Elems(ch[f]) \subseteq Clus
        BY ElemsIn
  <1>2. AllOwned(ch) \subseteq Clus
        BY <1>1 DEF AllOwned
  <1> QED BY <1>2, ClusIn, FS_Subset, FS_CardinalityType

(* The chain of f is replaced by s, made of its own and of free clusters.  *)
Replaces(F, old, e, s, F1) ==
  /\ e \in DirEntries /\ e.first \in Near
  /\ s \in Seq(Clus) /\ F1 \in [Near -> Entries \cup {EOC}]
  /\ Linked(F1, e, s)
  /\ \A c \in Elems(s) : c \in Elems(old) \/ F[c] = 0
  /\ \A c \in Near : c \notin Elems(old) \cup Elems(s) => F1[c] = F[c]
  /\ \A c \in Elems(old) \ Elems(s) : F1[c] = 0

LEMMA Replaced ==
  ASSUME NEW F, NEW D, NEW L, NEW ch, NEW n, Good(F, D, L, ch, n), NEW f \in Names,
         NEW e, NEW s, NEW F1, Replaces(F, ch[f], e, s, F1)
  PROVE  Good(F1, [D EXCEPT ![f] = e], L, [ch EXCEPT ![f] = s], n + Len(ch[f]) - Len(s))
  <1>0. /\ e \in DirEntries /\ e.first \in Near
        /\ s \in Seq(Clus) /\ F1 \in [Near -> Entries \cup {EOC}]
        /\ Linked(F1, e, s)
        /\ \A c \in Elems(s) : c \in Elems(ch[f]) \/ F[c] = 0
        /\ \A c \in Near : c \notin Elems(ch[f]) \cup Elems(s) => F1[c] = F[c]
        /\ \A c \in Elems(ch[f]) \ Elems(s) : F1[c] = 0
        BY DEF Replaces
  <1> USE <1>0
  <1> DEFINE D1 == [D EXCEPT ![f] = e]
             ch1 == [ch EXCEPT ![f] = s]
             A == Elems(ch[f])
             B == Elems(s)
             R == UNION {Elems(ch[g]) : g \in Names \ {f}}
  <1>1. /\ D \in [Names -> DirEntries] /\ ch \in [Names -> Seq(Clus)]
        /\ F \in [Near -> Entries \cup {EOC}] /\ L \subseteq Clus
        /\ \A g \in Names : Linked(F, D[g], ch[g]) /\ D[g].first \in Near
        /\ \A g \in Names : Elems(ch[g]) \cap (Foreign \cup L) = {}
        /\ \A g, h \in Names : g # h => Elems(ch[g]) \cap Elems(ch[h]) = {}
        /\ \A c \in Clus : F[c] # 0 <=> c \in Foreign \cup L \cup AllOwned(ch)
        /\ n = InitFree - Cardinality(AllOwned(ch))
        /\ F[0] = EOC /\ F[1] = EOC
        BY DEF Good
  <1>2. /\ D1 \in [Names -> DirEntries] /\ ch1 \in [Names -> Seq(Clus)]
        /\ D1[f] = e /\ ch1[f] = s
        /\ \A g \in Names \ {f} : D1[g] = D[g] /\ ch1[g] = ch[g]
        BY <1>1
  <1> HIDE DEF D1, ch1
  <1>3. /\ A \subseteq Clus /\ IsFiniteSet(A) /\ Cardinality(A) = Len(ch[f])
        /\ B \subseteq Clus /\ IsFiniteSet(B) /\ Cardinality(B) = Len(s)
    <2>1. ch[f] \in Seq(Clus) /\ Distinct(ch[f]) /\ Distinct(s)
          BY <1>1 DEF Linked
    <2> QED BY <2>1, ElemsIn
  <1>4. AllOwned(ch) = R \cup A /\ AllOwned(ch1) = R \cup B /\ R \cap A = {}
    <2>1. AllOwned(ch) = R \cup A
          BY DEF AllOwned
    <2>2. AllOwned(ch1) = R \cup B
      <3>1. \A x : x \in AllOwned(ch1) <=> \E g \in Names : x \in Elems(ch1[g])
            BY DEF AllOwned
      <3>2. \A x : x \in R <=> \E g \in Names \ {f} : x \in Elems(ch[g])
            OBVIOUS
      <3> QED BY <1>2, <3>1, <3>2
    <2>3. R \cap A = {}
          BY <1>1
    <2> QED BY <2>1, <2>2, <2>3
  <1>5. \A c \in Clus : c \in R => F[c] # 0
        BY <1>1, <1>4
  <1>6. R \subseteq Clus
        BY <1>1, <1>4, OwnedIn
  <1>7. R \cap B = {}
    <2> SUFFICES ASSUME NEW c \in B, c \in R PROVE FALSE
        OBVIOUS
    <2>1. c \in A \/ F[c] = 0
          OBVIOUS
    <2> QED BY <2>1, <1>3, <1>4, <1>5
  <1> HIDE DEF A, B, R
  <1>8. IsFiniteSet(R) /\ Cardinality(R) \in Nat
        BY <1>6, ClusIn, FS_Subset, FS_CardinalityType
  <1>9. /\ Cardinality(R \cup A) = Cardinality(R) + Cardinality(A)
        /\ Cardinality(R \cup B) = Cardinality(R) + Cardinality(B)
    <2>1. Cardinality({}) = 0
          BY FS_EmptySet
    <2>2. Cardinality(A) \in Nat /\ Cardinality(B) \in Nat
          BY <1>3, FS_CardinalityType
    <2>3. Cardinality(R \cup A) = Cardinality(R) + Cardinality(A) - Cardinality(R \cap A)
          BY <1>3, <1>8, FS_Union, Zenon
    <2>4. Cardinality(R \cup B) = Cardinality(R) + Cardinality(B) - Cardinality(R \cap B)
          BY <1>3, <1>8, FS_Union, Zenon
    <2>5. Cardinality(R \cap A) = 0 /\ Cardinality(R \cap B) = 0
          BY <2>1, <1>4, <1>7, Zenon
    <2> QED BY <2>2, <2>3, <2>4, <2>5, <1>8
  <1>10. n + Len(ch[f]) - Len(s) = InitFree - Cardinality(AllOwned(ch1))
    <2>1. Cardinality(A) \in Nat /\ Cardinality(B) \in Nat /\ InitFree \in Nat
          BY <1>3, FS_CardinalityType, FatAssumption
    <2>2. n = InitFree - (Cardinality(R) + Cardinality(A))
          BY <1>1, <1>4, <1>9
    <2>3. Cardinality(AllOwned(ch1)) = Cardinality(R) + Cardinality(B)
          BY <1>4, <1>9
    <2>4. Len(ch[f]) = Cardinality(A) /\ Len(s) = Cardinality(B) /\ Cardinality(R) \in Nat
          BY <1>3, <1>8
    <2> QED BY <2>1, <2>2, <2>3, <2>4
  <1>11. ASSUME NEW g \in Names \ {f} PROVE Linked(F1, D1[g], ch1[g])
    <2>1. ch1[g] = ch[g] /\ D1[g] = D[g] /\ Linked(F, D[g], ch[g])
          BY <1>1, <1>2
    <2>2. \A c \in Elems(ch[g]) : c \in R
          BY DEF R
    <2>3. \A c \in Elems(ch[g]) : F1[c] = F[c]
          BY <2>2, <1>4, <1>6, <1>7, ClusIn DEF A, B
    <2>4. \A i \in 1..Len(ch[g]) : F1[ch[g][i]] = F[ch[g][i]]
          BY <2>3 DEF Elems
    <2>5. IsChain(F, ch[g]) => IsChain(F1, ch[g])
          BY <2>4 DEF IsChain
    <2> QED BY <2>1, <2>5 DEF Linked
  <1>12. \A g \in Names : Linked(F1, D1[g], ch1[g]) /\ D1[g].first \in Near
        BY <1>1, <1>2, <1>11
  <1>13. B \cap (Foreign \cup L) = {}
    <2> SUFFICES ASSUME NEW c \in B, c \in Foreign \cup L PROVE FALSE
        OBVIOUS
    <2>1. c \in A \/ F[c] = 0
          BY DEF A, B
    <2>2. c \notin A
          BY <1>1 DEF A
    <2> QED BY <2>1, <2>2, <1>1, <1>3
  <1>14. \A g \in Names : Elems(ch1[g]) \cap (Foreign \cup L) = {}
        BY <1>1, <1>2, <1>13 DEF B
  <1>15. ASSUME NEW g \in Names \ {f} PROVE Elems(ch1[g]) \cap Elems(ch1[f]) = {}
    <2>1. Elems(ch1[g]) \subseteq R
          BY <1>2 DEF R
    <2> QED BY <2>1, <1>2, <1>7 DEF B
  <1>16. \A g, h \in Names : g # h => Elems(ch1[g]) \cap Elems(ch1[h]) = {}
    <2> SUFFICES ASSUME NEW g \in Names, NEW h \in Names, g # h
                 PROVE  Elems(ch1[g]) \cap Elems(ch1[h]) = {}
        OBVIOUS
    <2>1. CASE h = f
          BY <1>15, <2>1
    <2>2. CASE g = f
      <3>1. Elems(ch1[h]) \cap Elems(ch1[f]) = {}
            BY <1>15, <2>2
      <3> QED BY <3>1, <2>2
    <2>3. CASE g # f /\ h # f
      <3>1. ch1[g] = ch[g] /\ ch1[h] = ch[h]
            BY <1>2, <2>3
      <3>2. Elems(ch[g]) \cap Elems(ch[h]) = {}
            BY <1>1
      <3> QED BY <3>1, <3>2
    <2> QED BY <2>1, <2>2, <2>3
  <1>17. ASSUME NEW c \in Clus
         PROVE  F1[c] # 0 <=> c \in Foreign \cup L \cup AllOwned(ch1)
    <2>1. CASE c \in B
      <3>1. PICK i \in 1..Len(s) : c = s[i]
            BY <2>1 DEF B, Elems
      <3>2. F1[c] = IF i = Len(s) THEN EOC ELSE s[i + 1]
            BY <3>1 DEF Linked, IsChain
      <3>3. i # Len(s) => s[i + 1] \in Clus
            OBVIOUS
      <3>4. F1[c] # 0
            BY <3>2, <3>3, ClusIn
      <3> QED BY <2>1, <3>4, <1>4
    <2>2. CASE c \in A /\ c \notin B
      <3>1. F1[c] = 0
            BY <2>2 DEF A, B
      <3>2. c \notin Foreign \cup L
            BY <2>2, <1>1 DEF A
      <3> QED BY <2>2, <3>1, <3>2, <1>4
    <2>3. CASE c \notin A /\ c \notin B
      <3>1. F1[c] = F[c]
            BY <2>3, ClusIn DEF A, B
      <3> QED BY <2>3, <3>1, <1>1, <1>4
    <2> QED BY <2>1, <2>2, <2>3
  <1>18. F1[0] = EOC /\ F1[1] = EOC
        BY <1>1, <1>3, ClusIn DEF A, B
  <1> QED BY <1>1, <1>2, <1>10, <1>12, <1>14, <1>16, <1>17, <1>18 DEF Good, D1, ch1

-----------------------------------------------------------------------------
(* The FAT F with s linked up.                                             *)
Position(s, c) == CHOOSE j \in 1..Len(s) : s[j] = c
After(s, j) == IF j = Len(s) THEN EOC ELSE s[j + 1]
Chained(F, s) ==
  [c \in Near |-> IF c \in Elems(s) THEN After(s, Position(s, c)) ELSE F[c]]

LEMMA ChainedIs ==
  ASSUME NEW F \in [Near -> Entries \cup {EOC}], NEW s \in Seq(Clus), Distinct(s)
  PROVE  /\ Chained(F, s) \in [Near -> Entries \cup {EOC}]
         /\ \A j \in 1..Len(s) : Chained(F, s)[s[j]] = After(s, j)
         /\ \A c \in Near : c \notin Elems(s) => Chained(F, s)[c] = F[c]
         /\ IsChain(Chained(F, s), s)
  <1> DEFINE n == Len(s)
             G == Chained(F, s)
  <1>1. n \in Nat /\ \A j \in 1..n : s[j] \in Clus /\ s[j] \in Near
        BY ClusIn
  <1>2. \A i, j \in 1..n : i # j => s[i] # s[j]
        BY DEF Distinct
  <1>3. \A j \in 1..n : After(s, j) \in Entries \cup {EOC}
        BY <1>1, NearIn DEF After
  <1>4. ASSUME NEW j \in 1..n PROVE Position(s, s[j]) = j /\ s[j] \in Elems(s)
    <2>1. \E i \in 1..n : s[i] = s[j]
          OBVIOUS
    <2>2. Position(s, s[j]) \in 1..n /\ s[Position(s, s[j])] = s[j]
          BY <2>1 DEF Position
    <2> QED BY <2>2, <1>2 DEF Elems
  <1>5. ASSUME NEW c \in Near, c \in Elems(s) PROVE Position(s, c) \in 1..n
        BY <1>4, <1>5 DEF Elems
  <1>6. G \in [Near -> Entries \cup {EOC}]
        BY <1>3, <1>5 DEF Chained
  <1>7. \A j \in 1..n : G[s[j]] = After(s, j)
        BY <1>1, <1>4 DEF Chained
  <1>8. \A c \in Near : c \notin Elems(s) => G[c] = F[c]
        BY DEF Chained
  <1>9. IsChain(G, s)
        BY <1>7 DEF IsChain, After
  <1> QED BY <1>6, <1>7, <1>8, <1>9

LEMMA LinkYields ==
  ASSUME NEW last \in Near, NEW idx \in Seq(Near), Distinct(<<last>> \o idx),
         NEW F, NEW D, NEW I, NEW F1,
         F1[last] = (idx \o <<EOC>>)[1],
         \A j \in 1..Len(idx) : F1[idx[j]] = After(idx, j),
         \A d \in Near : d # last /\ d \notin Elems(idx) => F1[d] = F[d],
         NEW K, last \in K, Elems(idx) \subseteq K, NEW f, NEW n
  PROVE  Yields(Link(last, idx), F, D, I, F1, D, I) /\ Within(Link(last, idx), K, f, n)
  <1> DEFINE cs == <<last>> \o idx
             vs == idx \o <<EOC>>
             m == Len(idx)
  <1>1. m \in Nat /\ \A j \in 1..m : idx[j] \in Near
        OBVIOUS
  <1>2. <<last>> \in Seq(Near) /\ Len(<<last>>) = 1 /\ <<last>>[1] = last
        OBVIOUS
  <1>3. <<EOC>> \in Seq(Entries \cup {EOC}) /\ Len(<<EOC>>) = 1 /\ <<EOC>>[1] = EOC
        OBVIOUS
  <1>4. /\ cs \in Seq(Near) /\ Len(cs) = 1 + m /\ cs[1] = last
        /\ \A j \in 1..m : cs[1 + j] = idx[j]
    <2>1. cs \in Seq(Near) /\ Len(cs) = 1 + m
          BY <1>2, ConcatSeq
    <2>2. cs[1] = last
          BY <1>2
    <2>3. \A j \in 1..m : cs[1 + j] = idx[j]
          BY <1>1, <1>2
    <2> QED BY <2>1, <2>2, <2>3
  <1>5. /\ vs \in Seq(Entries \cup {EOC}) /\ Len(vs) = m + 1 /\ vs[m + 1] = EOC
        /\ \A j \in 1..m : vs[j] = idx[j]
    <2>1. idx \in Seq(Entries \cup {EOC})
          BY NearIn
    <2>2. vs \in Seq(Entries \cup {EOC}) /\ Len(vs) = m + 1
          BY <1>3, <2>1, ConcatSeq
    <2>3. vs[m + 1] = EOC
          BY <1>1, <1>3
    <2>4. \A j \in 1..m : vs[j] = idx[j]
          BY <1>1
    <2> QED BY <2>2, <2>3, <2>4
  <1>6. F1[last] = vs[1]
        OBVIOUS
  <1>7. Distinct(cs)
        OBVIOUS
  <1> HIDE DEF cs, vs, m
  <1>8. ASSUME NEW j \in 1..Len(cs) PROVE F1[cs[j]] = vs[j]
    <2>1. CASE j = 1
          BY <2>1, <1>4, <1>6
    <2>2. CASE j # 1
      <3> DEFINE i == j - 1
      <3>1. i \in 1..m /\ 1 + i = j
            BY <2>2, <1>1, <1>4
      <3> HIDE DEF i
      <3>2. cs[j] = idx[i] /\ F1[idx[i]] = After(idx, i)
            BY <3>1, <1>4 DEF m
      <3>3. After(idx, i) = vs[j]
        <4>1. CASE i = m
              BY <4>1, <3>1, <1>5, <1>1 DEF After, m
        <4>2. CASE i # m
          <5>1. i + 1 \in 1..m /\ i + 1 = j
                BY <4>2, <3>1, <1>1
          <5> QED BY <5>1, <4>2, <1>5 DEF After, m
        <4> QED BY <4>1, <4>2
      <3> QED BY <3>2, <3>3
    <2> QED BY <2>1, <2>2
  <1>9. \A d \in Elems(cs) : d = last \/ d \in Elems(idx)
    <2> SUFFICES ASSUME NEW j \in 1..Len(cs), j # 1 PROVE cs[j] \in Elems(idx)
        BY <1>4 DEF Elems
    <2> DEFINE i == j - 1
    <2>1. i \in 1..m /\ 1 + i = j
          BY <1>1, <1>4
    <2> HIDE DEF i
    <2> QED BY <2>1, <1>4 DEF Elems, m
  <1>10. last \in Elems(cs) /\ Elems(idx) \subseteq Elems(cs)
    <2>1. 1 \in 1..Len(cs)
          BY <1>1, <1>4
    <2>2. \A j \in 1..m : 1 + j \in 1..Len(cs)
          BY <1>1, <1>4
    <2>3. ASSUME NEW j \in 1..m PROVE idx[j] \in Elems(cs)
          BY <2>2, <1>4 DEF Elems
    <2> QED BY <2>1, <2>3, <1>4 DEF Elems, m
  <1>11. /\ Elems(cs) \subseteq K
         /\ \A d \in Near : d \notin Elems(cs) => F1[d] = F[d]
        BY <1>9, <1>10
  <1>12. Len(cs) <= Len(vs)
        BY <1>1, <1>4, <1>5
  <1>13. Yields(FatWrites(cs, vs), F, D, I, F1, D, I) /\ Within(FatWrites(cs, vs), K, f, n)
    <2>1. /\ cs \in Seq(Near) /\ vs \in Seq(Entries \cup {EOC}) /\ Len(cs) <= Len(vs)
          /\ Distinct(cs) /\ Elems(cs) \subseteq K
          BY <1>4, <1>5, <1>7, <1>11, <1>12
    <2>2. \A d \in Near : d \notin Elems(cs) => F1[d] = F[d]
          BY <1>11
    <2> QED BY <2>1, <2>2, <1>8, FatWritesYields
  <1> QED BY <1>13 DEF Link, cs, vs

(* The FAT F with the clusters of idx beyond keep given back.              *)
Trimmed(F, idx, keep) ==
  [c \in Near |->
     IF \E i \in 1..Len(idx) : i > keep /\ idx[i] = c THEN 0
     ELSE IF keep > 0 /\ idx[keep] = c THEN EOC ELSE F[c]]

LEMMA UnlinkYields ==
  ASSUME NEW idx \in Seq(Near), Distinct(idx), NEW keep \in Nat, keep <= Len(idx),
         NEW F, NEW D, NEW I, NEW K, Elems(idx) \subseteq K, NEW f, NEW n
  PROVE  /\ Yields(Unlink(idx, keep), F, D, I, Trimmed(F, idx, keep), D, I)
         /\ Within(Unlink(idx, keep), K, f, n)
  <1> DEFINE m == Len(idx)
             cs == SubSeq(idx, keep + 1, m)
             vs == [i \in 1..m - keep |-> 0]
             F1 == [c \in Near |->
                      IF \E i \in 1..m : i > keep /\ idx[i] = c THEN 0 ELSE F[c]]
             F2 == Trimmed(F, idx, keep)
             end == IF keep > 0 THEN FatWrite(idx[keep], EOC) ELSE <<>>
  <1>1. m \in Nat /\ m - keep \in Nat /\ \A i \in 1..m : idx[i] \in Near /\ idx[i] \in K
        BY DEF Elems
  <1>2. /\ cs \in Seq(Near) /\ Len(cs) = m - keep
        /\ vs \in Seq(Entries \cup {EOC}) /\ Len(vs) = m - keep
        /\ \A i \in 1..m - keep : cs[i] = idx[keep + i]
    <2>1. idx \in Seq(Entries) /\ \A i \in 1..m : idx[i] \in Near
          BY NearIn
    <2>2. /\ cs \in Seq(Entries) /\ Len(cs) = m - keep
          /\ vs \in Seq(Entries \cup {EOC}) /\ Len(vs) = m - keep
          /\ \A i \in 1..m - keep : cs[i] = idx[keep + i]
          BY <2>1, ClearedAre, Zenon
    <2>3. \A i \in 1..m - keep : keep + i \in 1..m
          BY <1>1
    <2> HIDE DEF cs, vs, m
    <2>4. cs \in Seq(Near)
          BY <2>1, <2>2, <2>3
    <2> QED BY <2>2, <2>4
  <1>3. \A i \in 1..m - keep : vs[i] = 0
        OBVIOUS
  <1>4. \A i, j \in 1..m : i # j => idx[i] # idx[j]
        BY DEF Distinct
  <1> HIDE DEF m, cs, vs
  <1>5. Distinct(cs)
    <2> SUFFICES ASSUME NEW i \in 1..m - keep, NEW j \in 1..m - keep, i # j
                 PROVE  cs[i] # cs[j]
        BY <1>2 DEF Distinct
    <2>1. keep + i \in 1..m /\ keep + j \in 1..m /\ keep + i # keep + j
          BY <1>1
    <2> QED BY <2>1, <1>2, <1>4
  <1>6. \A c : c \in Elems(cs) <=> \E i \in 1..m : i > keep /\ idx[i] = c
    <2>1. ASSUME NEW c, NEW i \in 1..m, i > keep, idx[i] = c PROVE c \in Elems(cs)
      <3>1. i - keep \in 1..m - keep /\ keep + (i - keep) = i
            BY <2>1, <1>1
      <3>2. cs[i - keep] = c
            BY <3>1, <2>1, <1>2
      <3> QED BY <3>1, <3>2, <1>2 DEF Elems
    <2>2. ASSUME NEW i \in 1..m - keep
          PROVE  \E j \in 1..m : j > keep /\ idx[j] = cs[i]
      <3>1. keep + i \in 1..m /\ keep + i > keep
            BY <1>1
      <3> QED BY <3>1, <1>2
    <2> QED BY <2>1, <2>2, <1>2 DEF Elems
  <1>7. Elems(cs) \subseteq K
        BY <1>1, <1>6
  <1>8. ASSUME NEW j \in 1..Len(cs) PROVE F1[cs[j]] = vs[j]
    <2>1. cs[j] \in Elems(cs) /\ cs[j] \in Near
          BY <1>2 DEF Elems
    <2>2. F1[cs[j]] = 0
          BY <2>1, <1>6
    <2> QED BY <2>2, <1>2, <1>3
  <1>9. \A d \in Near : d \notin Elems(cs) => F1[d] = F[d]
        BY <1>6
  <1> HIDE DEF F1
  <1>10. Len(cs) <= Len(vs)
        BY <1>1, <1>2
  <1>11. /\ Yields(FatWrites(cs, vs), F, D, I, F1, D, I)
         /\ Within(FatWrites(cs, vs), K, f, n)
        BY <1>2, <1>5, <1>7, <1>8, <1>9, <1>10, FatWritesYields
  <1>12. Yields(end, F1, D, I, F2, D, I) /\ Within(end, K, f, n)
    <2>1. CASE keep > 0
      <3>1. keep \in 1..m
            BY <2>1, <1>1 DEF m
      <3>2. idx[keep] \in Near /\ idx[keep] \in K
            BY <3>1, <1>1
      <3>3. \A i \in 1..m : i > keep => idx[i] # idx[keep]
            BY <3>1, <1>1, <1>4
      <3>4. F2[idx[keep]] = EOC
            BY <2>1, <3>2, <3>3 DEF Trimmed, m
      <3>5. \A d \in Near \ {idx[keep]} : F2[d] = F1[d]
            BY DEF Trimmed, F1, m
      <3> HIDE DEF F2
      <3>6. Yields(FatWrite(idx[keep], EOC), F1, D, I, F2, D, I)
            /\ Within(FatWrite(idx[keep], EOC), K, f, n)
            BY <3>2, <3>4, <3>5, FatWriteYields
      <3> QED BY <2>1, <3>6
    <2>2. CASE ~(keep > 0)
      <3>1. F2 = F1
            BY <2>2 DEF Trimmed, F1, m
      <3> QED BY <2>2, <3>1, NothingYields
    <2> QED BY <2>1, <2>2
  <1> HIDE DEF end, F2
  <1>13. Yields(FatWrites(cs, vs) \o end, F, D, I, F2, D, I)
        BY <1>11, <1>12, YieldsConcat
  <1>14. Within(FatWrites(cs, vs) \o end, K, f, n)
        BY <1>11, <1>12, WithinConcat DEF Yields
  <1> QED BY <1>13, <1>14 DEF Unlink, Cleared, cs, vs, end, F2, m


-----------------------------------------------------------------------------
(* A free cluster is marked without an owner.                              *)
LEMMA Leaked ==
  ASSUME NEW F, NEW D, NEW L, NEW ch, NEW n, Good(F, D, L, ch, n),
         NEW c \in Clus, F[c] = 0
  PROVE  Good([F EXCEPT ![c] = EOC], D, L \cup {c}, ch, n)
  <1> DEFINE F1 == [F EXCEPT ![c] = EOC]
             M == L \cup {c}
  <1>1. /\ D \in [Names -> DirEntries] /\ ch \in [Names -> Seq(Clus)]
        /\ F \in [Near -> Entries \cup {EOC}] /\ L \subseteq Clus
        /\ \A g \in Names : Linked(F, D[g], ch[g]) /\ D[g].first \in Near
        /\ \A g \in Names : Elems(ch[g]) \cap (Foreign \cup L) = {}
        /\ \A g, h \in Names : g # h => Elems(ch[g]) \cap Elems(ch[h]) = {}
        /\ \A d \in Clus : F[d] # 0 <=> d \in Foreign \cup L \cup AllOwned(ch)
        /\ n = InitFree - Cardinality(AllOwned(ch))
        /\ F[0] = EOC /\ F[1] = EOC
        BY DEF Good
  <1>2. /\ F1 \in [Near -> Entries \cup {EOC}] /\ F1[c] = EOC
        /\ \A d \in Near : d # c => F1[d] = F[d]
        BY <1>1, ClusIn
  <1> HIDE DEF F1
  <1>3. c \notin AllOwned(ch) /\ c # 0 /\ c # 1
        BY <1>1, ClusIn
  <1>4. ASSUME NEW g \in Names PROVE Linked(F1, D[g], ch[g]) /\ c \notin Elems(ch[g])
    <2>1. c \notin Elems(ch[g])
          BY <1>3 DEF AllOwned
    <2>2. ch[g] \in Seq(Clus) /\ \A i \in 1..Len(ch[g]) : ch[g][i] \in Clus
          BY <1>1
    <2>3. \A i \in 1..Len(ch[g]) : F1[ch[g][i]] = F[ch[g][i]]
          BY <2>1, <2>2, <1>2, ClusIn DEF Elems
    <2>4. IsChain(F, ch[g]) => IsChain(F1, ch[g])
          BY <2>3 DEF IsChain
    <2> QED BY <2>1, <2>4, <1>1 DEF Linked
  <1>5. \A g \in Names : Elems(ch[g]) \cap (Foreign \cup M) = {}
        BY <1>1, <1>4
  <1>6. ASSUME NEW d \in Clus PROVE F1[d] # 0 <=> d \in Foreign \cup M \cup AllOwned(ch)
    <2>1. CASE d = c
          BY <2>1, <1>2, ClusIn
    <2>2. CASE d # c
          BY <2>2, <1>1, <1>2, ClusIn
    <2> QED BY <2>1, <2>2
  <1>7. F1[0] = EOC /\ F1[1] = EOC
        BY <1>1, <1>2, <1>3, ClusIn
  <1>8. M \subseteq Clus
        BY <1>1
  <1>9. \A g \in Names : Linked(F1, D[g], ch[g]) /\ D[g].first \in Near
        BY <1>1, <1>4
  <1> HIDE DEF M
  <1>10. Good(F1, D, M, ch, n)
        BY <1>1, <1>2, <1>5, <1>6, <1>7, <1>8, <1>9 DEF Good
  <1> QED BY <1>10 DEF F1, M

LEMMA PlaceInjective ==
  ASSUME NEW c \in Near, NEW d \in Near
  PROVE  Place(c) = Place(d) => c = d
  <1>1. MaxCluster \in Nat /\ PerSector \in Nat /\ c \in Nat /\ d \in Nat
    <2>1. SECTOR_SIZE \in Nat /\ MaxCluster \in Nat
          BY FatEntryAssumption
    <2>2. SECTOR_SIZE \div 4 \in Nat
          BY <2>1
    <2> QED BY <2>1, <2>2 DEF PerSector, Near, Entries
  <1>2. 0 <= c /\ c < PerSector /\ 0 <= d /\ d < PerSector
        BY <1>1 DEF Near, Entries
  <1>3. c % PerSector = c /\ d % PerSector = d
        BY <1>1, <1>2, Z3
  <1> QED BY <1>3 DEF Place, entryOffInSect

(* The FAT once a write has reached its first copy.                        *)
LEMMA FatOfEffect ==
  ASSUME FatsTyped, NEW w \in Writes, w.dst = "fat1" => w.key \in Near, NEW c \in Near
  PROVE  FatOf(Effect(fat1, "fat1", w))[c] =
           IF Hits(w, "fat1", c) THEN w.val ELSE FatOf(fat1)[c]
  <1> DEFINE G == Effect(fat1, "fat1", w)
  <1>1. Place(c) \in Places /\ fat1 \in [Places -> Entries \cup {EOC}]
        BY PlaceInPlaces DEF FatsTyped, Near
  <1>2. FatOf(G)[c] = G[Place(c)] /\ FatOf(fat1)[c] = fat1[Place(c)]
        BY DEF FatOf
  <1>3. CASE w.dst = "fat1"
    <2>1. w.key \in Near
          BY <1>3
    <2>2. G = [fat1 EXCEPT ![Place(w.key)] = w.val]
          BY <1>3 DEF Effect, write_fat_entry
    <2>3. G[Place(c)] = IF Place(w.key) = Place(c) THEN w.val ELSE fat1[Place(c)]
          BY <2>2, <1>1
    <2>4. Place(w.key) = Place(c) <=> w.key = c
          BY <2>1, PlaceInjective
    <2> QED BY <1>2, <1>3, <2>3, <2>4 DEF Hits
  <1>4. CASE w.dst # "fat1"
        BY <1>2, <1>4 DEF Effect, Hits
  <1> QED BY <1>3, <1>4


-----------------------------------------------------------------------------
(* Between two operations, before the machine has ever stopped.            *)
Steady(ch) ==
  /\ TypeInv /\ Idle /\ FewClusters
  /\ fsinfo = freeCount
  /\ Good(FatOf(fat1), dirent, leaked, ch, freeCount)

(* What an operation on f is going to do from there.                       *)
Unowned == {c \in Clus : FatOf(fat1)[c] = 0}

Moves(f, ch) ==
  \E W, n, F1, D1, ch1 :
    /\ n \in Int /\ Start(f, W, n)
    /\ Yields(W, FatOf(fat1), dirent, fsinfo, F1, D1, n)
    /\ Within(W, Elems(ch[f]) \cup Unowned, f, n)
    /\ Good(F1, D1, leaked', ch1, n)
    /\ leaked' \subseteq leaked \cup Unowned

LEMMA SteadyIs ==
  ASSUME NEW ch, Steady(ch)
  PROVE  /\ FatOf(fat1) \in [Near -> Entries \cup {EOC}]
         /\ dirent \in [Names -> DirEntries] /\ ch \in [Names -> Seq(Clus)]
         /\ leaked \subseteq Clus /\ freeCount \in Int /\ fsinfo = freeCount
         /\ FatOf(fat1)[0] = EOC
         /\ \A f \in Names : Linked(FatOf(fat1), dirent[f], ch[f]) /\ dirent[f].first \in Near
  BY DEF Steady, Good, TypeInv

LEMMA LiveChain ==
  ASSUME NEW ch, Steady(ch), NEW f \in Names, dirent[f].live
  PROVE  /\ firstFileCluster(f) = dirent[f].first /\ dirent[f].first \in Near
         /\ dirent[f].first = 0 => ch[f] = <<>>
         /\ dirent[f].first # 0 => /\ ch[f] # <<>> /\ ch[f][1] = dirent[f].first
                                   /\ Chain(dirent[f].first) = ch[f]
         /\ Len(ch[f]) = IF dirent[f].dir THEN 1 ELSE Clusters(dirent[f].size)
         /\ Distinct(ch[f]) /\ IsChain(FatOf(fat1), ch[f]) /\ ch[f] \in Seq(Clus)
  <1>1. /\ Linked(FatOf(fat1), dirent[f], ch[f]) /\ dirent[f].first \in Near
        /\ ch[f] \in Seq(Clus)
        BY SteadyIs
  <1>2. firstFileCluster(f) = dirent[f].first
    <2> DEFINE c == dirent[f].first
    <2>1. c \in Nat /\ c < HalfWord /\ HalfWord \in Nat
      <3>1. PerSector \in Nat /\ HalfWord \in Nat \ {0} /\ PerSector <= HalfWord
            BY FatEntryAssumption, FatAssumption DEF PerSector
      <3> QED BY <3>1, <1>1 DEF Near, Entries
    <2> HIDE DEF c
    <2>2. c % HalfWord = c
          BY <2>1, Z3
    <2> QED BY <2>2 DEF firstFileCluster, c
  <1>3. ASSUME dirent[f].first # 0 PROVE Chain(dirent[f].first) = ch[f]
    <2>1. ch[f] # <<>> /\ ch[f][1] = dirent[f].first /\ Distinct(ch[f]) /\ IsChain(FatOf(fat1), ch[f])
          BY <1>1, <1>3 DEF Linked
    <2>2. ch[f] \in Seq(Near) /\ FatsTyped
          BY <1>1, ClusIn DEF Steady, TypeInv
    <2>3. Chain(ch[f][1]) = ch[f]
          BY <2>1, <2>2, ChainIs
    <2> QED BY <2>1, <2>3
  <1> QED BY <1>1, <1>2, <1>3 DEF Linked

(* What the searches for free clusters find.                               *)
LEMMA EmptyUnowned ==
  ASSUME FewClusters, NEW used
  PROVE  /\ Empty(used) \in Seq(Clus) /\ Distinct(Empty(used)) /\ Len(Empty(used)) \in Nat
         /\ \A i \in 1..Len(Empty(used)) : /\ Empty(used)[i] \in Unowned
                                           /\ Empty(used)[i] \notin used
         /\ Empty(used) # <<>> => /\ Head(Empty(used)) \in Unowned
                                  /\ Head(Empty(used)) \in Near
                                  /\ Head(Empty(used)) \in Clus
  <1>1. ASSUME NEW c \in Free(used) PROVE c \in Unowned /\ c \notin used /\ c \in Clus
    <2>1. c \in Clus /\ c \in Near
      <3>1. c \in 2..SearchLimit - 1 /\ c \in Entries
            BY FreeInEntries DEF Free
      <3>2. PerSector \in Nat /\ SearchLimit \in Nat
            BY FatEntryAssumption, FatAssumption DEF PerSector
      <3> QED BY <3>1, <3>2, ClusIn DEF FewClusters, Clus, Entries
    <2>2. fatEntry(c) = 0 /\ c \notin used
          BY DEF Free
    <2> QED BY <2>1, <2>2 DEF Unowned, FatOf, fatEntry, read_fat_entry
  <1>2. /\ Empty(used) \in Seq(Free(used)) /\ Distinct(Empty(used))
        /\ Empty(used) # <<>> => Head(Empty(used)) \in Free(used)
        BY EmptyTyped
  <1>3. Empty(used) \in Seq(Clus)
        BY <1>1, <1>2
  <1>4. \A i \in 1..Len(Empty(used)) : Empty(used)[i] \in Free(used)
        BY <1>2
  <1> QED BY <1>1, <1>2, <1>3, <1>4, ClusIn

LEMMA FilledFound ==
  ASSUME NEW found \in Seq(Clus), NEW n \in Nat, n <= Len(found), NEW junk,
         Distinct(found)
  PROVE  /\ Filled(found, n, junk) \in Seq(Clus) /\ Len(Filled(found, n, junk)) = n
         /\ \A i \in 1..n : i \in 1..Len(found) /\ Filled(found, n, junk)[i] = found[i]
         /\ Distinct(Filled(found, n, junk))
         /\ n = Len(found) => Filled(found, n, junk) = found
  <1> DEFINE s == Filled(found, n, junk)
  <1>1. \A i \in 1..n : i \in 1..Len(found)
        OBVIOUS
  <1>2. /\ s = [i \in 1..n |-> found[i]]
        BY <1>1 DEF Filled
  <1>3. s \in Seq(Clus) /\ Len(s) = n /\ \A i \in 1..n : s[i] = found[i]
        BY <1>1, <1>2
  <1> HIDE DEF s
  <1>4. Distinct(s)
        BY <1>1, <1>3 DEF Distinct
  <1>5. n = Len(found) => s = found
        BY <1>3
  <1> QED BY <1>1, <1>3, <1>4, <1>5 DEF s


(* The clusters idx are linked behind the chain s.                         *)
LEMMA LinkGrown ==
  ASSUME NEW s \in Seq(Clus), s # <<>>, NEW idx \in Seq(Clus), Distinct(s \o idx),
         NEW F \in [Near -> Entries \cup {EOC}], IsChain(F, s),
         NEW G \in [Near -> Entries \cup {EOC}],
         \A d \in Near : d \notin Elems(s) => F[d] = G[d],
         NEW D, NEW I, NEW K, Elems(s \o idx) \subseteq K, NEW f, NEW n
  PROVE  /\ Yields(Link(Last(s), idx), F, D, I, Chained(G, s \o idx), D, I)
         /\ Within(Link(Last(s), idx), K, f, n)
  <1> DEFINE t == s \o idx
             p == Len(s)
             m == Len(idx)
             last == Last(s)
             F1 == Chained(G, t)
  <1>1. /\ t \in Seq(Clus) /\ Len(t) = p + m /\ p \in Nat /\ m \in Nat
        /\ \A i \in 1..p : t[i] = s[i]
        /\ \A i \in 1..m : t[p + i] = idx[i]
        /\ \A i \in 1..Len(t) : i \notin 1..p => i - p \in 1..m /\ t[i] = idx[i - p]
        BY ConcatSeq
  <1>2. p > 0 /\ last = s[p] /\ p \in 1..p
        BY DEF Last
  <1>3. /\ \A i \in 1..p : s[i] \in Clus /\ s[i] \in Near
        /\ \A i \in 1..m : idx[i] \in Clus /\ idx[i] \in Near
        BY ClusIn
  <1>4. \A i, j \in 1..Len(t) : i # j => t[i] # t[j]
        BY DEF Distinct
  <1>5. /\ \A j \in 1..Len(t) : F1[t[j]] = After(t, j)
        /\ \A c \in Near : c \notin Elems(t) => F1[c] = G[c]
        BY <1>1, ChainedIs
  <1>6. \A c : c \in Elems(t) <=> c \in Elems(s) \/ c \in Elems(idx)
    <2>1. \A i \in 1..p : i \in 1..Len(t)
          BY <1>1
    <2>2. \A i \in 1..m : p + i \in 1..Len(t)
          BY <1>1
    <2>3. ASSUME NEW c \in Elems(t) PROVE c \in Elems(s) \/ c \in Elems(idx)
      <3>1. PICK i \in 1..Len(t) : c = t[i]
            BY DEF Elems
      <3>2. CASE i \in 1..p
            BY <3>1, <3>2, <1>1 DEF Elems
      <3>3. CASE i \notin 1..p
            BY <3>1, <3>3, <1>1 DEF Elems
      <3> QED BY <3>2, <3>3
    <2>4. ASSUME NEW i \in 1..p PROVE s[i] \in Elems(t)
          BY <2>1, <1>1 DEF Elems
    <2>5. ASSUME NEW i \in 1..m PROVE idx[i] \in Elems(t)
          BY <2>2, <1>1 DEF Elems
    <2> QED BY <2>3, <2>4, <2>5 DEF Elems
  <1>7. <<last>> \in Seq(Near) /\ Len(<<last>>) = 1 /\ <<last>>[1] = last
        BY <1>2, <1>3
  <1>8. idx \in Seq(Near)
        BY ClusIn
  <1> HIDE DEF t, p, m, F1, last
  <1>9. Distinct(<<last>> \o idx)
    <2> DEFINE cs == <<last>> \o idx
    <2>1. /\ Len(cs) = 1 + m
          /\ \A i \in 1..1 : cs[i] = last
          /\ \A i \in 1..Len(cs) : i \notin 1..1 => i - 1 \in 1..m /\ cs[i] = idx[i - 1]
      <3>1. /\ Len(cs) = 1 + m
            /\ \A i \in 1..Len(<<last>>) : cs[i] = <<last>>[i]
            /\ \A i \in 1..Len(cs) : i \notin 1..Len(<<last>>) =>
                 i - Len(<<last>>) \in 1..Len(idx) /\ cs[i] = idx[i - Len(<<last>>)]
            BY <1>7, <1>8, ConcatSeq DEF m
      <3>2. \A i \in 1..1 : <<last>>[i] = last
            BY <1>7
      <3> HIDE DEF cs
      <3> QED BY <3>1, <3>2, <1>7 DEF m
    <2> HIDE DEF cs
    <2>2. \A i \in 1..Len(cs) : p + (i - 1) \in 1..Len(t) /\ cs[i] = t[p + (i - 1)]
      <3> TAKE i \in 1..Len(cs)
      <3>1. CASE i \in 1..1
        <4>1. i = 1 /\ p + (i - 1) = p
              BY <3>1, <1>1
        <4> QED BY <4>1, <2>1, <1>1, <1>2 DEF p
      <3>2. CASE i \notin 1..1
        <4>1. i - 1 \in 1..m /\ cs[i] = idx[i - 1]
              BY <3>2, <2>1
        <4> DEFINE k == i - 1
        <4> HIDE DEF k
        <4>2. k \in 1..m /\ cs[i] = idx[k]
              BY <4>1 DEF k
        <4>3. p + k \in 1..Len(t) /\ cs[i] = t[p + k]
              BY <4>2, <1>1
        <4> QED BY <4>3 DEF k
      <3> QED BY <3>1, <3>2
    <2>3. \A i, j \in 1..Len(cs) : i # j => p + (i - 1) # p + (j - 1)
          BY <1>1, <2>1
    <2>4. ASSUME NEW i \in 1..Len(cs), NEW j \in 1..Len(cs), i # j
          PROVE  cs[i] # cs[j]
      <3>1. /\ p + (i - 1) \in 1..Len(t) /\ cs[i] = t[p + (i - 1)]
            /\ p + (j - 1) \in 1..Len(t) /\ cs[j] = t[p + (j - 1)]
            /\ p + (i - 1) # p + (j - 1)
            BY <2>2, <2>3, <2>4
      <3> QED BY <3>1, <1>4
    <2>5. Distinct(cs)
          BY <2>4 DEF Distinct
    <2> QED BY <2>5 DEF cs
  <1>10. F1[last] = (idx \o <<EOC>>)[1]
    <2>1. t[p] = last /\ p \in 1..Len(t)
          BY <1>1, <1>2 DEF p
    <2>2. F1[last] = After(t, p)
          BY <2>1, <1>5
    <2>3. CASE m = 0
      <3>1. idx = <<>>
            BY <2>3 DEF m
      <3>2. (idx \o <<EOC>>)[1] = EOC
            BY <3>1
      <3> QED BY <2>2, <2>3, <3>2, <1>1 DEF After
    <2>4. CASE m # 0
      <3>1. 1 \in 1..m /\ p # Len(t)
            BY <2>4, <1>1
      <3>2. (idx \o <<EOC>>)[1] = idx[1]
            BY <3>1 DEF m
      <3>3. t[p + 1] = idx[1]
            BY <3>1, <1>1
      <3> QED BY <2>2, <3>1, <3>2, <3>3 DEF After
    <2> QED BY <2>3, <2>4
  <1>11. ASSUME NEW j \in 1..m PROVE F1[idx[j]] = After(idx, j)
    <2>1. p + j \in 1..Len(t) /\ t[p + j] = idx[j]
          BY <1>1
    <2>2. F1[idx[j]] = After(t, p + j)
          BY <2>1, <1>5
    <2>3. CASE j = m
      <3>1. p + j = Len(t)
            BY <2>3, <1>1
      <3> QED BY <2>2, <2>3, <3>1 DEF After, m
    <2>4. CASE j # m
      <3>1. p + j # Len(t) /\ j + 1 \in 1..m /\ (p + j) + 1 = p + (j + 1)
            BY <2>4, <1>1
      <3>2. t[(p + j) + 1] = idx[j + 1]
            BY <3>1, <1>1
      <3> QED BY <2>2, <2>4, <3>1, <3>2 DEF After, m
    <2> QED BY <2>3, <2>4
  <1>12. ASSUME NEW d \in Near, d # last, d \notin Elems(idx) PROVE F1[d] = F[d]
    <2>1. CASE d \in Elems(s)
      <3>1. PICK i \in 1..p : d = s[i]
            BY <2>1 DEF Elems, p
      <3>2. i # p
            BY <3>1, <1>2, <1>12
      <3>3. i \in 1..Len(t) /\ i # Len(t) /\ i + 1 \in 1..p
            BY <3>2, <1>1, <1>2
      <3>4. F1[d] = t[i + 1]
            BY <3>1, <3>3, <1>1, <1>5 DEF After
      <3>5. F[d] = s[i + 1]
            BY <3>1, <3>2 DEF IsChain, p
      <3> QED BY <3>3, <3>4, <3>5, <1>1
    <2>2. CASE d \notin Elems(s)
      <3>1. d \notin Elems(t)
            BY <2>2, <1>6, <1>12
      <3> QED BY <3>1, <2>2, <1>5
    <2> QED BY <2>1, <2>2
  <1>13. last \in K /\ Elems(idx) \subseteq K /\ last \in Near
    <2>1. last \in Elems(s) /\ last \in Near
          BY <1>2, <1>3 DEF Elems, p
    <2> QED BY <2>1, <1>6 DEF t
  <1>14. \A j \in 1..Len(idx) : F1[idx[j]] = After(idx, j)
        BY <1>11 DEF m
  <1>15. \A d \in Near : d # last /\ d \notin Elems(idx) => F1[d] = F[d]
        BY <1>12
  <1>16. Yields(Link(last, idx), F, D, I, F1, D, I) /\ Within(Link(last, idx), K, f, n)
        BY <1>8, <1>9, <1>10, <1>13, <1>14, <1>15, LinkYields
  <1> QED BY <1>16 DEF last, F1, t


(* The file f has its chain lengthened by the unowned clusters idx.        *)
LEMMA Grown ==
  ASSUME NEW ch, Steady(ch), NEW f \in Names, NEW idx \in Seq(Clus), Distinct(idx),
         \A i \in 1..Len(idx) : idx[i] \in Unowned,
         NEW e \in DirEntries, e.live, e.first \in Near, e.first # 0,
         ch[f] \o idx # <<>>, (ch[f] \o idx)[1] = e.first,
         Len(ch[f] \o idx) = IF e.dir THEN 1 ELSE Clusters(e.size)
  PROVE  /\ Good(Chained(FatOf(fat1), ch[f] \o idx), [dirent EXCEPT ![f] = e], leaked,
                 [ch EXCEPT ![f] = ch[f] \o idx], freeCount - Len(idx))
         /\ Distinct(ch[f] \o idx)
         /\ Elems(ch[f] \o idx) \subseteq Elems(ch[f]) \cup Unowned
  <1> DEFINE F == FatOf(fat1)
             s == ch[f]
             t == s \o idx
             p == Len(s)
             m == Len(idx)
             F1 == Chained(F, t)
  <1>0. /\ Good(F, dirent, leaked, ch, freeCount) /\ ch \in [Names -> Seq(Clus)]
        /\ F \in [Near -> Entries \cup {EOC}] /\ s \in Seq(Clus)
        /\ freeCount \in Int
        BY SteadyIs DEF Steady
  <1>1. Distinct(s) /\ \A c \in Clus : F[c] # 0 <=> c \in Foreign \cup leaked \cup AllOwned(ch)
        BY <1>0 DEF Good, Linked
  <1>2. /\ t \in Seq(Clus) /\ Len(t) = p + m /\ p \in Nat /\ m \in Nat
        /\ \A i \in 1..p : t[i] = s[i]
        /\ \A i \in 1..m : t[p + i] = idx[i]
        /\ \A i \in 1..Len(t) : i \notin 1..p => i - p \in 1..m /\ t[i] = idx[i - p]
        BY <1>0, ConcatSeq
  <1>3. \A i \in 1..p : s[i] \in Clus /\ s[i] \in Elems(s)
        BY <1>0 DEF Elems
  <1>4. \A i \in 1..m : idx[i] \in Clus /\ F[idx[i]] = 0
        BY DEF Unowned
  <1> HIDE DEF F, t, p, m
  <1>5. \A i \in 1..p, j \in 1..m : s[i] # idx[j]
    <2>1. \A i \in 1..p : F[s[i]] # 0
          BY <1>1, <1>3 DEF AllOwned, s
    <2> QED BY <2>1, <1>4
  <1>6. Distinct(t)
    <2> SUFFICES ASSUME NEW i \in 1..Len(t), NEW j \in 1..Len(t), i # j
                 PROVE  t[i] # t[j]
        BY DEF Distinct
    <2>1. CASE i \in 1..p /\ j \in 1..p
          BY <2>1, <1>1, <1>2 DEF Distinct, p
    <2>2. ASSUME NEW a \in 1..Len(t), NEW b \in 1..Len(t), a \in 1..p, b \notin 1..p
          PROVE  t[a] # t[b]
      <3> DEFINE k == b - p
      <3>1. k \in 1..m /\ t[b] = idx[k] /\ t[a] = s[a]
            BY <2>2, <1>2
      <3> HIDE DEF k
      <3> QED BY <3>1, <2>2, <1>5
    <2>3. CASE (i \in 1..p /\ j \notin 1..p) \/ (i \notin 1..p /\ j \in 1..p)
          BY <2>2, <2>3
    <2>4. CASE i \notin 1..p /\ j \notin 1..p
      <3> DEFINE k == i - p
                 l == j - p
      <3>1. k \in 1..m /\ l \in 1..m /\ k # l /\ t[i] = idx[k] /\ t[j] = idx[l]
            BY <2>4, <1>2
      <3> HIDE DEF k, l
      <3> QED BY <3>1 DEF Distinct, m
    <2> QED BY <2>1, <2>3, <2>4
  <1>7. ASSUME NEW c \in Elems(t)
        PROVE  c \in Elems(s) \/ (c \in Unowned /\ F[c] = 0)
    <2>1. PICK i \in 1..Len(t) : c = t[i]
          BY DEF Elems
    <2>2. CASE i \in 1..p
          BY <2>1, <2>2, <1>2, <1>3
    <2>3. CASE i \notin 1..p
      <3>1. i - p \in 1..m /\ t[i] = idx[i - p]
            BY <2>3, <1>2
      <3>2. idx[i - p] \in Unowned
            BY <3>1 DEF m
      <3> QED BY <2>1, <3>1, <3>2, <1>4
    <2> QED BY <2>2, <2>3
  <1>8. Elems(s) \subseteq Elems(t)
    <2>1. \A i \in 1..p : i \in 1..Len(t) /\ t[i] = s[i]
          BY <1>2
    <2> QED BY <2>1 DEF Elems, p
  <1>9. /\ F1 \in [Near -> Entries \cup {EOC}] /\ IsChain(F1, t)
        /\ \A c \in Near : c \notin Elems(t) => F1[c] = F[c]
        BY <1>0, <1>2, <1>6, ChainedIs
  <1> HIDE DEF F1
  <1>10. Linked(F1, e, t)
    <2>1. t # <<>> /\ t[1] = e.first /\ Len(t) = IF e.dir THEN 1 ELSE Clusters(e.size)
          BY DEF t
    <2> QED BY <2>1, <1>6, <1>9 DEF Linked
  <1>11. /\ \A c \in Elems(t) : c \in Elems(ch[f]) \/ F[c] = 0
         /\ \A c \in Near : c \notin Elems(ch[f]) \cup Elems(t) => F1[c] = F[c]
         /\ \A c \in Elems(ch[f]) \ Elems(t) : F1[c] = 0
        BY <1>7, <1>8, <1>9
  <1>12. Good(F1, [dirent EXCEPT ![f] = e], leaked, [ch EXCEPT ![f] = t],
              freeCount + Len(ch[f]) - Len(t))
    <2>1. Good(F, dirent, leaked, ch, freeCount)
          BY <1>0
    <2>2. Replaces(F, ch[f], e, t, F1)
          BY <1>2, <1>9, <1>10, <1>11 DEF Replaces
    <2> HIDE DEF s
    <2> QED BY <2>1, <2>2, Replaced
  <1>13. freeCount + Len(ch[f]) - Len(t) = freeCount - Len(idx)
        BY <1>0, <1>2 DEF p, m
  <1>14. Elems(t) \subseteq Elems(s) \cup Unowned
        BY <1>7
  <1> HIDE DEF s
  <1>15. Good(F1, [dirent EXCEPT ![f] = e], leaked, [ch EXCEPT ![f] = t],
              freeCount - Len(idx))
        BY <1>12, <1>13
  <1> QED BY <1>6, <1>14, <1>15 DEF F1, F, t, s

LEMMA DirentBecomes ==
  ASSUME NEW e \in DirEntries, NEW f \in Names, dirent \in [Names -> DirEntries],
         NEW F, NEW I, NEW K, NEW n
  PROVE  /\ Yields(DirentWrite(f, e), F, dirent, I, F, [dirent EXCEPT ![f] = e], I)
         /\ Within(DirentWrite(f, e), K, f, n)
  <1> DEFINE D1 == [dirent EXCEPT ![f] = e]
  <1>1. D1[f] = e /\ \A g \in Names \ {f} : D1[g] = dirent[g]
        OBVIOUS
  <1> HIDE DEF D1
  <1>2. /\ Yields(DirentWrite(f, e), F, dirent, I, F, D1, I)
        /\ Within(DirentWrite(f, e), K, f, n)
        BY <1>1, DirentYields
  <1> QED BY <1>2 DEF D1


LEMMA OneChained ==
  ASSUME NEW F \in [Near -> Entries \cup {EOC}], NEW c \in Clus
  PROVE  /\ Chained(F, <<c>>)[c] = EOC
         /\ \A d \in Near \ {c} : Chained(F, <<c>>)[d] = F[d]
         /\ <<c>> \in Seq(Clus) /\ Len(<<c>>) = 1 /\ <<c>>[1] = c /\ <<c>> # <<>>
         /\ Distinct(<<c>>) /\ Elems(<<c>>) = {c}
         /\ <<>> \o <<c>> = <<c>> /\ Last(<<c>>) = c
  <1> DEFINE s == <<c>>
  <1>1. /\ s \in Seq(Clus) /\ Len(s) = 1 /\ s[1] = c /\ s # <<>> /\ <<>> \o s = s
        OBVIOUS
  <1>2. \A j \in 1..1 : j = 1
        OBVIOUS
  <1> HIDE DEF s
  <1>3. Distinct(s) /\ Elems(s) = {c} /\ Last(s) = c
    <2>1. Distinct(s)
          BY <1>1, <1>2 DEF Distinct
    <2>2. 1 \in 1..1
          OBVIOUS
    <2>3. Elems(s) = {c}
          BY <1>1, <1>2, <2>2 DEF Elems
    <2> QED BY <2>1, <2>3, <1>1 DEF Last
  <1>4. /\ \A j \in 1..Len(s) : Chained(F, s)[s[j]] = After(s, j)
        /\ \A d \in Near : d \notin Elems(s) => Chained(F, s)[d] = F[d]
        BY <1>1, <1>3, ChainedIs
  <1>5. 1 \in 1..Len(s) /\ After(s, 1) = EOC
        BY <1>1 DEF After
  <1> QED BY <1>1, <1>3, <1>4, <1>5 DEF s

LEMMA CreateFileMoves ==
  ASSUME NEW ch, Steady(ch), NEW f \in Names, CreateFile(f)
  PROVE  Moves(f, ch)
  <1> DEFINE F == FatOf(fat1)
             e == [NoEntry EXCEPT !.live = TRUE]
             D1 == [dirent EXCEPT ![f] = e]
             ch1 == [ch EXCEPT ![f] = <<>>]
             K == Elems(ch[f]) \cup Unowned
             W == DirentWrite(f, e)
  <1>1. /\ F \in [Near -> Entries \cup {EOC}] /\ dirent \in [Names -> DirEntries]
        /\ ch \in [Names -> Seq(Clus)] /\ freeCount \in Int /\ fsinfo = freeCount
        /\ Linked(F, dirent[f], ch[f]) /\ Good(F, dirent, leaked, ch, freeCount)
        BY SteadyIs DEF Steady
  <1>2. ~dirent[f].live /\ Start(f, W, freeCount) /\ leaked' = leaked
        BY DEF CreateFile
  <1>3. ch[f] = <<>>
        BY <1>1, <1>2 DEF Linked
  <1>4. e \in DirEntries /\ e.live /\ ~e.dir /\ e.first = 0 /\ e.size = 0
    <2>1. NoEntry \in DirEntries /\ NoEntry.first = 0
          BY NoEntryTyped
    <2>2. NoEntry.dir = FALSE /\ NoEntry.size = 0
          BY DEF NoEntry
    <2>3. /\ e \in DirEntries /\ e.live = TRUE /\ e.dir = NoEntry.dir
          /\ e.first = NoEntry.first /\ e.size = NoEntry.size
          BY <2>1, MadeLive, TRUE \in BOOLEAN
    <2> HIDE DEF e
    <2> QED BY <2>1, <2>2, <2>3
  <1> HIDE DEF e, F
  <1>5. Clusters(0) = 0
        BY ClustersTyped
  <1>6. <<>> \in Seq(Clus) /\ Len(<<>>) = 0 /\ \A i : i \notin 1..0
        OBVIOUS
  <1>61. Distinct(<<>>) /\ IsChain(F, <<>>) /\ Elems(<<>>) = {}
        BY <1>6 DEF Distinct, IsChain, Elems
  <1>7. Linked(F, e, <<>>)
    <2>1. e.live => Len(<<>>) = IF e.dir THEN 1 ELSE Clusters(e.size)
          BY <1>4, <1>5, <1>6
    <2> QED BY <1>4, <1>61, <2>1 DEF Linked
  <1>8. Replaces(F, ch[f], e, <<>>, F)
    <2>1. e.first \in Near
          BY <1>4, ClusIn
    <2> QED BY <1>1, <1>3, <1>4, <1>6, <1>61, <1>7, <2>1 DEF Replaces
  <1>9. Good(F, D1, leaked, ch1, freeCount + Len(ch[f]) - Len(<<>>))
        BY <1>1, <1>8, Replaced
  <1>10. freeCount + Len(ch[f]) - Len(<<>>) = freeCount
        BY <1>1, <1>3, <1>6
  <1>11. Yields(W, F, dirent, fsinfo, F, D1, fsinfo) /\ Within(W, K, f, freeCount)
        BY <1>1, <1>4, DirentBecomes
  <1> HIDE DEF W, K, D1, ch1
  <1>12. Good(F, D1, leaked', ch1, freeCount) /\ Yields(W, F, dirent, fsinfo, F, D1, freeCount)
        BY <1>1, <1>2, <1>9, <1>10, <1>11
  <1> QED BY <1>1, <1>2, <1>11, <1>12 DEF Moves, F, K

LEMMA CreateDirMoves ==
  ASSUME NEW ch, Steady(ch), NEW f \in Names, CreateDir(f)
  PROVE  wild' \/ Moves(f, ch)
  <1> SUFFICES ASSUME ~wild' PROVE Moves(f, ch)
      OBVIOUS
  <1> DEFINE F == FatOf(fat1)
             c == Head(Empty({}))
             e == [live |-> TRUE, dir |-> TRUE, first |-> c, size |-> 0]
             idx == <<c>>
             t == ch[f] \o idx
             F1 == Chained(F, t)
             D1 == [dirent EXCEPT ![f] = e]
             ch1 == [ch EXCEPT ![f] = t]
             K == Elems(ch[f]) \cup Unowned
             n == freeCount - 1
             W == FSInfoWrite(n) \o FatWrite(c, EOC) \o DirentWrite(f, e)
  <1>1. /\ F \in [Near -> Entries \cup {EOC}] /\ dirent \in [Names -> DirEntries]
        /\ ch \in [Names -> Seq(Clus)] /\ freeCount \in Int /\ fsinfo = freeCount
        /\ Linked(F, dirent[f], ch[f])
        BY SteadyIs
  <1>2. ~dirent[f].live /\ Empty({}) # <<>> /\ Start(f, W, n) /\ leaked' = leaked
        BY DEF CreateDir
  <1>3. ch[f] = <<>>
        BY <1>1, <1>2 DEF Linked
  <1>4. c \in Unowned /\ c \in Near /\ c \in Clus
        BY <1>2, EmptyUnowned DEF Steady
  <1> HIDE DEF F
  <1>5. e \in DirEntries /\ e.live /\ e.dir /\ e.first = c
    <2>1. 0 \in 0..MaxSize
          BY FatAssumption
    <2> HIDE DEF c
    <2> QED BY <2>1, <1>4, NearIn DEF DirEntries
  <1> HIDE DEF e, c
  <1>6. /\ Chained(F, idx)[c] = EOC
        /\ \A d \in Near \ {c} : Chained(F, idx)[d] = F[d]
        /\ idx \in Seq(Clus) /\ Len(idx) = 1 /\ idx[1] = c /\ idx # <<>>
        /\ Distinct(idx) /\ <<>> \o idx = idx
        BY <1>1, <1>4, OneChained
  <1> HIDE DEF idx
  <1>7. t = idx
        BY <1>3, <1>6
  <1>8. c # 0 /\ \A i \in 1..Len(idx) : idx[i] \in Unowned
        BY <1>4, <1>6, ClusIn
  <1>9. Good(F1, D1, leaked, ch1, freeCount - Len(idx))
    <2>1. Len(t) = IF e.dir THEN 1 ELSE Clusters(e.size)
          BY <1>5, <1>6, <1>7
    <2>2. t # <<>> /\ t[1] = e.first /\ e.first # 0 /\ e.first \in Near
          BY <1>4, <1>5, <1>6, <1>7, <1>8
    <2> QED BY <1>5, <1>6, <1>8, <2>1, <2>2, Grown DEF F
  <1>10. F1[c] = EOC /\ \A d \in Near \ {c} : F1[d] = F[d]
        BY <1>6, <1>7
  <1> HIDE DEF F1
  <1>11. n \in Int /\ n >= n /\ c \in K
        BY <1>1, <1>4
  <1> HIDE DEF n, K
  <1>12. /\ Yields(FSInfoWrite(n), F, dirent, fsinfo, F, dirent, n)
         /\ Within(FSInfoWrite(n), K, f, n)
        BY <1>11, FSInfoYields
  <1>13. /\ Yields(FatWrite(c, EOC), F, dirent, n, F1, dirent, n)
         /\ Within(FatWrite(c, EOC), K, f, n)
        BY <1>4, <1>10, <1>11, FatWriteYields
  <1>14. /\ Yields(DirentWrite(f, e), F1, dirent, n, F1, D1, n)
         /\ Within(DirentWrite(f, e), K, f, n)
        BY <1>1, <1>5, DirentBecomes
  <1> HIDE DEF D1
  <1>15. /\ Yields(FSInfoWrite(n) \o FatWrite(c, EOC), F, dirent, fsinfo, F1, dirent, n)
         /\ Within(FSInfoWrite(n) \o FatWrite(c, EOC), K, f, n)
        BY <1>12, <1>13, BothConcat
  <1>16. Yields(W, F, dirent, fsinfo, F1, D1, n) /\ Within(W, K, f, n)
        BY <1>14, <1>15, BothConcat
  <1> HIDE DEF W, ch1
  <1>17. Good(F1, D1, leaked', ch1, n)
        BY <1>2, <1>6, <1>9 DEF n
  <1> QED BY <1>2, <1>11, <1>16, <1>17 DEF Moves, F, K


(* The entry of f with the size a write is going to give it.               *)
Grows(f, n, new) ==
  /\ dirent[f].live /\ ~dirent[f].dir
  /\ new \in DirEntries /\ new.live /\ ~new.dir /\ new.first = dirent[f].first
  /\ n \in Int /\ Clusters(new.size) \in Nat
  /\ Clusters(new.size) = Clusters(dirent[f].size) + n
  /\ Clusters(new.size) > 0

LEMMA ExtendMoves ==
  ASSUME NEW ch, Steady(ch), NEW f \in Names, NEW n, NEW new, Grows(f, n, new),
         ~(n > 0 /\ firstFileCluster(f) = 0), Extend(f, n, new)
  PROVE  wild' \/ Moves(f, ch)
  <1> SUFFICES ASSUME ~wild' PROVE Moves(f, ch)
      OBVIOUS
  <1> DEFINE F == FatOf(fat1)
             s == ch[f]
             K == Elems(ch[f]) \cup Unowned
             found == Empty({})
             D1 == [dirent EXCEPT ![f] = new]
  <1>1. /\ F \in [Near -> Entries \cup {EOC}] /\ dirent \in [Names -> DirEntries]
        /\ ch \in [Names -> Seq(Clus)] /\ freeCount \in Int /\ fsinfo = freeCount
        /\ Linked(F, dirent[f], s) /\ Good(F, dirent, leaked, ch, freeCount)
        BY SteadyIs DEF Steady
  <1>2. /\ dirent[f].live /\ ~dirent[f].dir
        /\ new \in DirEntries /\ new.live /\ ~new.dir /\ new.first = dirent[f].first
        /\ n \in Int /\ Clusters(new.size) \in Nat
        /\ Clusters(new.size) = Clusters(dirent[f].size) + n /\ Clusters(new.size) > 0
        BY DEF Grows
  <1>3. /\ firstFileCluster(f) = dirent[f].first /\ dirent[f].first \in Near
        /\ dirent[f].first = 0 => s = <<>>
        /\ dirent[f].first # 0 => /\ s # <<>> /\ s[1] = dirent[f].first
                                  /\ Chain(dirent[f].first) = s
        /\ Len(s) = Clusters(dirent[f].size)
        /\ Distinct(s) /\ IsChain(F, s) /\ s \in Seq(Clus)
    <2>1. Len(s) = IF dirent[f].dir THEN 1 ELSE Clusters(dirent[f].size)
          BY <1>2, LiveChain
    <2> QED BY <2>1, <1>2, LiveChain
  <1> HIDE DEF F
  <1>4. leaked' = leaked
        BY DEF Extend
  <1>5. Len(s) \in Nat /\ (s = <<>> => Len(s) = 0)
        BY <1>3
  <1>6. n >= 0 /\ n \in Nat => dirent[f].first # 0
    <2> SUFFICES ASSUME n \in Nat, dirent[f].first = 0 PROVE FALSE
        OBVIOUS
    <2>1. n = 0
          BY <1>3
    <2>2. Len(s) = 0
          BY <1>3, <1>5
    <2> HIDE DEF s
    <2> QED BY <2>1, <2>2, <1>2, <1>3
  <1>7. CASE n = 0 /\ Start(f, FSInfoWrite(freeCount) \o DirentWrite(f, new), freeCount)
    <2> DEFINE W == FSInfoWrite(freeCount) \o DirentWrite(f, new)
               ch1 == [ch EXCEPT ![f] = s]
    <2>1. s # <<>> /\ s[1] = new.first /\ new.first # 0 /\ new.first \in Near
          BY <1>2, <1>3, <1>6, <1>7
    <2>2. Len(s) = Clusters(new.size)
          BY <1>2, <1>3, <1>5, <1>7
    <2>3. Linked(F, new, s)
      <3>1. new.live => Len(s) = IF new.dir THEN 1 ELSE Clusters(new.size)
            BY <2>2, <1>2
      <3> HIDE DEF s
      <3> QED BY <2>1, <3>1, <1>2, <1>3 DEF Linked
    <2>4. Replaces(F, ch[f], new, s, F)
      <3> HIDE DEF s
      <3>1. ch[f] = s
            BY DEF s
      <3> QED BY <2>1, <2>3, <3>1, <1>1, <1>2, <1>3 DEF Replaces
    <2>5. Good(F, D1, leaked, ch1, freeCount + Len(ch[f]) - Len(s))
          BY <2>4, <1>1, Replaced
    <2>6. freeCount + Len(ch[f]) - Len(s) = freeCount
          BY <1>1, <1>5
    <2>7. freeCount >= freeCount
          BY <1>1
    <2> HIDE DEF K, s, ch1
    <2>8. /\ Yields(FSInfoWrite(freeCount), F, dirent, fsinfo, F, dirent, freeCount)
          /\ Within(FSInfoWrite(freeCount), K, f, freeCount)
          BY <2>7, <1>1, FSInfoYields
    <2>9. /\ Yields(DirentWrite(f, new), F, dirent, freeCount, F, D1, freeCount)
          /\ Within(DirentWrite(f, new), K, f, freeCount)
          BY <1>1, <1>2, DirentBecomes
    <2> HIDE DEF D1
    <2>10. Yields(W, F, dirent, fsinfo, F, D1, freeCount) /\ Within(W, K, f, freeCount)
          BY <2>8, <2>9, BothConcat
    <2>11. Good(F, D1, leaked', ch1, freeCount) /\ Start(f, W, freeCount)
          BY <2>5, <2>6, <1>4, <1>7
    <2> HIDE DEF W
    <2> QED BY <2>10, <2>11, <1>1, <1>4 DEF Moves, F, K
  <1>8. CASE Start(f, <<>>, freeCount)
    <2>1. Yields(<<>>, F, dirent, fsinfo, F, dirent, freeCount) /\ Within(<<>>, K, f, freeCount)
          BY <1>1, NothingYields
    <2>2. Good(F, dirent, leaked', ch, freeCount)
          BY <1>1, <1>4
    <2> QED BY <2>1, <2>2, <1>1, <1>4, <1>8 DEF Moves, F
  <1>9. ASSUME NEW junk, n > 0, ~(Len(found) < n),
               Start(f, Link(Last(Chain(firstFileCluster(f))), Filled(found, n, junk))
                           \o FSInfoWrite(freeCount - n)
                           \o FSInfoWrite(freeCount - n)
                           \o DirentWrite(f, new),
                     freeCount - n)
        PROVE  Moves(f, ch)
    <2> DEFINE idx == Filled(found, n, junk)
               t == s \o idx
               F1 == Chained(F, t)
               ch1 == [ch EXCEPT ![f] = t]
               k == freeCount - n
               W == Link(Last(s), idx) \o FSInfoWrite(k) \o FSInfoWrite(k)
                      \o DirentWrite(f, new)
    <2>1. dirent[f].first # 0 /\ n \in Nat
          BY <1>2, <1>6, <1>9
    <2>2. /\ s # <<>> /\ s[1] = new.first /\ new.first # 0 /\ new.first \in Near
          /\ Chain(firstFileCluster(f)) = s
          BY <2>1, <1>2, <1>3
    <2>3. Start(f, W, k)
          BY <2>2, <1>9
    <2>4. found \in Seq(Clus) /\ Distinct(found) /\ Len(found) \in Nat
          /\ \A i \in 1..Len(found) : found[i] \in Unowned
          BY EmptyUnowned DEF Steady
    <2> HIDE DEF found
    <2>5. n <= Len(found)
          BY <2>1, <2>4, <1>9
    <2>6. /\ idx \in Seq(Clus) /\ Len(idx) = n /\ Distinct(idx)
          /\ \A i \in 1..Len(idx) : idx[i] \in Unowned
      <3>1. /\ idx \in Seq(Clus) /\ Len(idx) = n /\ Distinct(idx)
            /\ \A i \in 1..n : i \in 1..Len(found) /\ idx[i] = found[i]
            BY <2>1, <2>4, <2>5, FilledFound
      <3> QED BY <3>1, <2>4
    <2> HIDE DEF idx
    <2>7. /\ Len(t) = Len(s) + n /\ t # <<>> /\ t[1] = s[1]
      <3> HIDE DEF s
      <3>1. Len(t) = Len(s) + Len(idx) /\ \A i \in 1..Len(s) : t[i] = s[i]
        <4>1. s \in Seq(Clus) /\ idx \in Seq(Clus)
              BY <2>6, <1>3
        <4> QED BY <4>1, ConcatSeq
      <3>2. 1 \in 1..Len(s)
            BY <2>2, <1>3
      <3>3. Len(t) # 0
            BY <3>1, <3>2, <2>1, <2>6, <1>5
      <3> QED BY <3>1, <3>2, <3>3, <2>6
    <2>8. Len(t) = IF new.dir THEN 1 ELSE Clusters(new.size)
          BY <2>7, <1>2, <1>3
    <2>9. /\ Good(F1, D1, leaked, ch1, freeCount - Len(idx))
          /\ Distinct(t) /\ Elems(t) \subseteq K
          BY <2>2, <2>6, <2>7, <2>8, <1>2, Grown DEF F
    <2>10. Good(F1, D1, leaked', ch1, k)
          BY <2>6, <2>9, <1>4
    <2>11. k \in Int /\ k >= k
          BY <1>1, <1>2
    <2> HIDE DEF k, K, D1, ch1, s
    <2>12. /\ Yields(Link(Last(s), idx), F, dirent, fsinfo, F1, dirent, fsinfo)
           /\ Within(Link(Last(s), idx), K, f, k)
          BY <2>2, <2>6, <2>9, <1>1, <1>3, LinkGrown
    <2> HIDE DEF F1, t
    <2>13. /\ Yields(FSInfoWrite(k), F1, dirent, fsinfo, F1, dirent, k)
           /\ Yields(FSInfoWrite(k), F1, dirent, k, F1, dirent, k)
           /\ Within(FSInfoWrite(k), K, f, k)
          BY <2>11, FSInfoYields
    <2>14. /\ Yields(DirentWrite(f, new), F1, dirent, k, F1, D1, k)
           /\ Within(DirentWrite(f, new), K, f, k)
          BY <1>1, <1>2, DirentBecomes DEF D1
    <2>15. /\ Yields(Link(Last(s), idx) \o FSInfoWrite(k), F, dirent, fsinfo, F1, dirent, k)
           /\ Within(Link(Last(s), idx) \o FSInfoWrite(k), K, f, k)
          BY <2>12, <2>13, BothConcat
    <2>16. /\ Yields(Link(Last(s), idx) \o FSInfoWrite(k) \o FSInfoWrite(k),
                     F, dirent, fsinfo, F1, dirent, k)
           /\ Within(Link(Last(s), idx) \o FSInfoWrite(k) \o FSInfoWrite(k), K, f, k)
          BY <2>13, <2>15, BothConcat
    <2>17. Yields(W, F, dirent, fsinfo, F1, D1, k) /\ Within(W, K, f, k)
          BY <2>14, <2>16, BothConcat
    <2> HIDE DEF W
    <2> QED BY <2>3, <2>10, <2>11, <2>17, <1>4 DEF Moves, F, K
  <1>10. \/ n = 0 /\ Start(f, FSInfoWrite(freeCount) \o DirentWrite(f, new), freeCount)
         \/ Start(f, <<>>, freeCount)
         \/ \E junk :
              /\ n > 0 /\ ~(Len(found) < n)
              /\ Start(f, Link(Last(Chain(firstFileCluster(f))), Filled(found, n, junk))
                            \o FSInfoWrite(freeCount - n)
                            \o FSInfoWrite(freeCount - n)
                            \o DirentWrite(f, new),
                       freeCount - n)
        BY DEF Extend
  <1> QED BY <1>7, <1>8, <1>9, <1>10


LEMMA FirstSet ==
  ASSUME NEW d \in DirEntries, NEW c \in Near
  PROVE  LET e == [d EXCEPT !.first = c]
         IN /\ e \in DirEntries /\ e.live = d.live /\ e.dir = d.dir /\ e.first = c
            /\ e.size = d.size
  BY NearIn DEF DirEntries

LEMMA BeginMoves ==
  ASSUME NEW ch, Steady(ch), NEW f \in Names, NEW n, NEW new, Grows(f, n, new),
         n > 0, firstFileCluster(f) = 0, Begin(f, n, new)
  PROVE  wild' \/ Moves(f, ch)
  <1> SUFFICES ASSUME ~wild' PROVE Moves(f, ch)
      OBVIOUS
  <1> DEFINE F == FatOf(fat1)
             K == Elems(ch[f]) \cup Unowned
             first == Head(Empty({}))
             rest == Empty({first})
             entry == [new EXCEPT !.first = first]
             D1 == [dirent EXCEPT ![f] = entry]
             one == <<first>>
             Fm == Chained(F, one)
  <1>1. /\ F \in [Near -> Entries \cup {EOC}] /\ dirent \in [Names -> DirEntries]
        /\ ch \in [Names -> Seq(Clus)] /\ freeCount \in Int /\ fsinfo = freeCount
        /\ Good(F, dirent, leaked, ch, freeCount)
        BY SteadyIs DEF Steady
  <1>2. /\ dirent[f].live /\ ~dirent[f].dir
        /\ new \in DirEntries /\ new.live /\ ~new.dir /\ new.first = dirent[f].first
        /\ n \in Int /\ Clusters(new.size) \in Nat
        /\ Clusters(new.size) = Clusters(dirent[f].size) + n /\ Clusters(new.size) > 0
        BY DEF Grows
  <1>3. ch[f] = <<>> /\ Clusters(new.size) = n /\ n \in Nat
    <2>1. ch[f] = <<>> /\ Len(ch[f]) = Clusters(dirent[f].size)
      <3>1. Len(ch[f]) = IF dirent[f].dir THEN 1 ELSE Clusters(dirent[f].size)
            BY <1>2, LiveChain
      <3> QED BY <3>1, <1>2, LiveChain
    <2>2. Clusters(dirent[f].size) = 0
          BY <2>1
    <2>3. Clusters(new.size) = n
          BY <2>2, <1>2
    <2> QED BY <2>1, <2>3, <1>2
  <1>4. Empty({}) # <<>>
        BY DEF Begin
  <1>5. first \in Unowned /\ first \in Near /\ first \in Clus /\ first # 0 /\ F[first] = 0
        BY <1>4, EmptyUnowned, ClusIn DEF Steady, Unowned
  <1> HIDE DEF F
  <1>6. \/ /\ n = 1
           /\ Start(f, FatWrite(first, EOC) \o FSInfoWrite(freeCount - 1)
                         \o DirentWrite(f, entry),
                    freeCount - 1)
           /\ leaked' = leaked
        \/ /\ Start(f, FatWrite(first, EOC), freeCount)
           /\ leaked' = leaked \cup {first}
        \/ /\ n > 1 /\ leaked' = leaked
           /\ \E junk : /\ ~(Len(rest) < n - 1)
                        /\ Start(f, FatWrite(first, EOC)
                                      \o Link(first, Filled(rest, n - 1, junk))
                                      \o FSInfoWrite(freeCount - (n - 1))
                                      \o FSInfoWrite(freeCount - n)
                                      \o DirentWrite(f, entry),
                                 freeCount - n)
        BY <1>4 DEF Begin
  <1> HIDE DEF first
  <1>7. /\ entry \in DirEntries /\ entry.live /\ ~entry.dir /\ entry.first = first
        /\ entry.size = new.size
        BY <1>2, <1>5, FirstSet
  <1> HIDE DEF entry
  <1>8. /\ Fm[first] = EOC /\ \A d \in Near \ {first} : Fm[d] = F[d]
        /\ one \in Seq(Clus) /\ Len(one) = 1 /\ one[1] = first /\ one # <<>>
        /\ Distinct(one) /\ Elems(one) = {first} /\ <<>> \o one = one /\ Last(one) = first
        BY <1>1, <1>5, OneChained
  <1>81. Fm \in [Near -> Entries \cup {EOC}] /\ IsChain(Fm, one)
        BY <1>1, <1>8, ChainedIs
  <1> HIDE DEF one, Fm
  <1>9. first \in K
        BY <1>5
  <1>10. ASSUME NEW k
         PROVE  /\ Yields(FatWrite(first, EOC), F, dirent, fsinfo, Fm, dirent, fsinfo)
                /\ Within(FatWrite(first, EOC), K, f, k)
        BY <1>5, <1>8, <1>9, FatWriteYields
  <1>11. ASSUME n = 1,
                Start(f, FatWrite(first, EOC) \o FSInfoWrite(freeCount - 1)
                           \o DirentWrite(f, entry),
                      freeCount - 1),
                leaked' = leaked
         PROVE  Moves(f, ch)
    <2> DEFINE k == freeCount - 1
               t == ch[f] \o one
               ch1 == [ch EXCEPT ![f] = t]
               W == FatWrite(first, EOC) \o FSInfoWrite(k) \o DirentWrite(f, entry)
    <2>1. t = one
          BY <1>3, <1>8
    <2>2. /\ t # <<>> /\ t[1] = entry.first /\ entry.first # 0 /\ entry.first \in Near
          /\ Len(t) = IF entry.dir THEN 1 ELSE Clusters(entry.size)
          BY <2>1, <1>3, <1>5, <1>7, <1>8, <1>11
    <2>3. \A i \in 1..Len(one) : one[i] \in Unowned
          BY <1>5, <1>8
    <2>4. Good(Chained(F, t), D1, leaked, ch1, freeCount - Len(one))
          BY <2>2, <2>3, <1>7, <1>8, Grown DEF F
    <2>5. k \in Int /\ k >= k
          BY <1>1
    <2>6. Good(Fm, D1, leaked', ch1, k)
          BY <2>1, <2>4, <1>8, <1>11 DEF Fm
    <2> HIDE DEF k, K, D1, ch1, t
    <2>7. /\ Yields(FSInfoWrite(k), Fm, dirent, fsinfo, Fm, dirent, k)
          /\ Within(FSInfoWrite(k), K, f, k)
          BY <2>5, FSInfoYields
    <2>8. /\ Yields(DirentWrite(f, entry), Fm, dirent, k, Fm, D1, k)
          /\ Within(DirentWrite(f, entry), K, f, k)
          BY <1>1, <1>7, DirentBecomes DEF D1
    <2>9. /\ Yields(FatWrite(first, EOC) \o FSInfoWrite(k), F, dirent, fsinfo, Fm, dirent, k)
          /\ Within(FatWrite(first, EOC) \o FSInfoWrite(k), K, f, k)
          BY <1>10, <2>7, BothConcat
    <2>10. Yields(W, F, dirent, fsinfo, Fm, D1, k) /\ Within(W, K, f, k)
          BY <2>8, <2>9, BothConcat
    <2>11. Start(f, W, k)
          BY <1>11 DEF k
    <2> HIDE DEF W
    <2> QED BY <2>5, <2>6, <2>10, <2>11, <1>11 DEF Moves, F, K
  <1>12. ASSUME Start(f, FatWrite(first, EOC), freeCount), leaked' = leaked \cup {first}
         PROVE  Moves(f, ch)
    <2> DEFINE F1 == [F EXCEPT ![first] = EOC]
    <2>1. Good(F1, dirent, leaked \cup {first}, ch, freeCount)
          BY <1>1, <1>5, Leaked
    <2>2. F1 = Fm
      <3>1. /\ F1 \in [Near -> Entries \cup {EOC}] /\ F1[first] = EOC
            /\ \A d \in Near \ {first} : F1[d] = F[d]
            BY <1>1, <1>5
      <3>2. \A d \in Near : F1[d] = Fm[d]
            BY <3>1, <1>8
      <3> HIDE DEF F1
      <3> QED BY <3>1, <3>2, <1>81
    <2> HIDE DEF K
    <2>3. Good(Fm, dirent, leaked', ch, freeCount)
          BY <2>1, <2>2, <1>12
    <2>4. /\ Yields(FatWrite(first, EOC), F, dirent, fsinfo, Fm, dirent, freeCount)
          /\ Within(FatWrite(first, EOC), K, f, freeCount)
      <3>1. /\ Yields(FatWrite(first, EOC), F, dirent, fsinfo, Fm, dirent, fsinfo)
            /\ Within(FatWrite(first, EOC), K, f, freeCount)
            BY <1>10
      <3> QED BY <3>1, <1>1
    <2> QED BY <2>3, <2>4, <1>1, <1>5, <1>12 DEF Moves, F, K
  <1>13. ASSUME NEW junk, n > 1, leaked' = leaked, ~(Len(rest) < n - 1),
                Start(f, FatWrite(first, EOC)
                           \o Link(first, Filled(rest, n - 1, junk))
                           \o FSInfoWrite(freeCount - (n - 1))
                           \o FSInfoWrite(freeCount - n)
                           \o DirentWrite(f, entry),
                      freeCount - n)
         PROVE  Moves(f, ch)
    <2> DEFINE r == Filled(rest, n - 1, junk)
               idx == one \o r
               t == ch[f] \o idx
               F1 == Chained(F, idx)
               ch1 == [ch EXCEPT ![f] = t]
               j == freeCount - (n - 1)
               k == freeCount - n
               W == FatWrite(first, EOC) \o Link(first, r) \o FSInfoWrite(j)
                      \o FSInfoWrite(k) \o DirentWrite(f, entry)
    <2>1. Start(f, W, k)
          BY <1>13
    <2>2. /\ rest \in Seq(Clus) /\ Distinct(rest) /\ Len(rest) \in Nat
          /\ \A i \in 1..Len(rest) : rest[i] \in Unowned /\ rest[i] # first
      <3>1. \A i \in 1..Len(rest) : rest[i] \in Unowned /\ rest[i] \notin {first}
            BY EmptyUnowned DEF Steady
      <3> QED BY <3>1, EmptyUnowned DEF Steady
    <2> HIDE DEF rest
    <2>3. n - 1 \in Nat /\ n - 1 <= Len(rest)
          BY <2>2, <1>2, <1>13
    <2>4. /\ r \in Seq(Clus) /\ Len(r) = n - 1 /\ Distinct(r)
          /\ \A i \in 1..Len(r) : r[i] \in Unowned /\ r[i] # first
      <3> DEFINE m == n - 1
      <3> HIDE DEF m
      <3>1. /\ Filled(rest, m, junk) \in Seq(Clus) /\ Len(Filled(rest, m, junk)) = m
            /\ Distinct(Filled(rest, m, junk))
            /\ \A i \in 1..m : i \in 1..Len(rest) /\ Filled(rest, m, junk)[i] = rest[i]
            BY <2>2, <2>3, FilledFound DEF m
      <3>2. \A i \in 1..m : Filled(rest, m, junk)[i] \in Unowned
                            /\ Filled(rest, m, junk)[i] # first
            BY <3>1, <2>2
      <3> QED BY <3>1, <3>2 DEF m
    <2> HIDE DEF r
    <2>5. /\ idx \in Seq(Clus) /\ Len(idx) = n /\ idx[1] = first
          /\ Distinct(idx) /\ \A i \in 1..Len(idx) : idx[i] \in Unowned
      <3>1. /\ idx \in Seq(Clus) /\ Len(idx) = 1 + Len(r) /\ Len(r) \in Nat
            /\ \A i \in 1..1 : idx[i] = one[i]
            /\ \A i \in 1..Len(idx) : i \notin 1..1 => i - 1 \in 1..Len(r) /\ idx[i] = r[i - 1]
            BY <2>4, <1>8, ConcatSeq
      <3> HIDE DEF idx
      <3>2. idx[1] = first /\ 1 \in 1..1 /\ \A i \in 1..1 : i = 1
            BY <3>1, <1>8
      <3>3. ASSUME NEW a \in 1..Len(idx), a # 1
            PROVE  a - 1 \in 1..Len(r) /\ idx[a] = r[a - 1] /\ idx[a] # first
                   /\ idx[a] \in Unowned
        <4>1. a - 1 \in 1..Len(r) /\ idx[a] = r[a - 1]
              BY <3>1, <3>2, <3>3
        <4> QED BY <4>1, <2>4
      <3>4. Distinct(idx)
        <4> SUFFICES ASSUME NEW a \in 1..Len(idx), NEW b \in 1..Len(idx), a # b
                     PROVE  idx[a] # idx[b]
            BY DEF Distinct
        <4>1. CASE a = 1
              BY <4>1, <3>2, <3>3
        <4>2. CASE b = 1
              BY <4>2, <3>2, <3>3
        <4>3. CASE a # 1 /\ b # 1
          <5> DEFINE x == a - 1
                     y == b - 1
          <5>1. x \in 1..Len(r) /\ y \in 1..Len(r) /\ x # y /\ idx[a] = r[x] /\ idx[b] = r[y]
                BY <4>3, <3>3
          <5> HIDE DEF x, y
          <5> QED BY <5>1, <2>4 DEF Distinct
        <4> QED BY <4>1, <4>2, <4>3
      <3>5. \A i \in 1..Len(idx) : idx[i] \in Unowned
            BY <3>2, <3>3, <1>5
      <3>6. Len(idx) = n
            BY <3>1, <2>4, <1>2
      <3> QED BY <3>1, <3>2, <3>4, <3>5, <3>6
    <2>6. t = idx
      <3> HIDE DEF idx
      <3> QED BY <2>5, <1>3
    <2>7. /\ t # <<>> /\ t[1] = entry.first /\ entry.first # 0 /\ entry.first \in Near
          /\ Len(t) = IF entry.dir THEN 1 ELSE Clusters(entry.size)
      <3>1. Len(t) = n /\ t[1] = first
            BY <2>5, <2>6
      <3>2. t # <<>>
        <4> HIDE DEF t
        <4>1. Len(t) # 0
              BY <3>1, <1>13, <1>2
        <4> QED BY <4>1
      <3> QED BY <3>1, <3>2, <1>3, <1>5, <1>7
    <2> HIDE DEF idx
    <2>8. /\ Good(Chained(F, t), D1, leaked, ch1, freeCount - Len(idx))
          /\ Elems(t) \subseteq K
          BY <2>5, <2>7, <1>7, Grown DEF F
    <2>9. Good(F1, D1, leaked', ch1, k) /\ Elems(idx) \subseteq K
          BY <2>5, <2>6, <2>8, <1>13
    <2>10. k \in Int /\ j \in Int /\ j >= k /\ k >= k
          BY <1>1, <1>2
    <2> HIDE DEF k, j, K, D1, ch1, t
    <2>11. /\ Yields(Link(first, r), Fm, dirent, fsinfo, F1, dirent, fsinfo)
           /\ Within(Link(first, r), K, f, k)
      <3>1. Distinct(one \o r) /\ Elems(one \o r) \subseteq K
            BY <2>5, <2>9 DEF idx
      <3>2. \A d \in Near : d \notin Elems(one) => Fm[d] = F[d]
            BY <1>8
      <3>3. /\ Yields(Link(Last(one), r), Fm, dirent, fsinfo, Chained(F, one \o r), dirent, fsinfo)
            /\ Within(Link(Last(one), r), K, f, k)
            BY <3>1, <3>2, <2>4, <1>1, <1>8, <1>81, LinkGrown
      <3> QED BY <3>3, <1>8 DEF idx
    <2> HIDE DEF F1
    <2>12. /\ Yields(FSInfoWrite(j), F1, dirent, fsinfo, F1, dirent, j)
           /\ Within(FSInfoWrite(j), K, f, k)
           /\ Yields(FSInfoWrite(k), F1, dirent, j, F1, dirent, k)
           /\ Within(FSInfoWrite(k), K, f, k)
          BY <2>10, FSInfoYields
    <2>13. /\ Yields(DirentWrite(f, entry), F1, dirent, k, F1, D1, k)
           /\ Within(DirentWrite(f, entry), K, f, k)
          BY <1>1, <1>7, DirentBecomes DEF D1
    <2>14. /\ Yields(FatWrite(first, EOC) \o Link(first, r), F, dirent, fsinfo, F1, dirent, fsinfo)
           /\ Within(FatWrite(first, EOC) \o Link(first, r), K, f, k)
          BY <2>11, <1>10, BothConcat
    <2>15. /\ Yields(FatWrite(first, EOC) \o Link(first, r) \o FSInfoWrite(j),
                     F, dirent, fsinfo, F1, dirent, j)
           /\ Within(FatWrite(first, EOC) \o Link(first, r) \o FSInfoWrite(j), K, f, k)
          BY <2>12, <2>14, BothConcat
    <2>16. /\ Yields(FatWrite(first, EOC) \o Link(first, r) \o FSInfoWrite(j) \o FSInfoWrite(k),
                     F, dirent, fsinfo, F1, dirent, k)
           /\ Within(FatWrite(first, EOC) \o Link(first, r) \o FSInfoWrite(j) \o FSInfoWrite(k),
                     K, f, k)
          BY <2>12, <2>15, BothConcat
    <2>17. Yields(W, F, dirent, fsinfo, F1, D1, k) /\ Within(W, K, f, k)
          BY <2>13, <2>16, BothConcat
    <2> HIDE DEF W
    <2> QED BY <2>1, <2>9, <2>10, <2>17, <1>13 DEF Moves, F, K
  <1> QED BY <1>6, <1>11, <1>12, <1>13


(* A chain cut off behind its first clusters.                              *)
LEMMA TrimmedIs ==
  ASSUME NEW F \in [Near -> Entries \cup {EOC}], NEW s \in Seq(Clus), Distinct(s),
         IsChain(F, s), NEW keep \in Nat, keep <= Len(s)
  PROVE  /\ SubSeq(s, 1, keep) \in Seq(Clus) /\ Len(SubSeq(s, 1, keep)) = keep
         /\ \A i \in 1..keep : i \in 1..Len(s) /\ SubSeq(s, 1, keep)[i] = s[i]
         /\ Distinct(SubSeq(s, 1, keep)) /\ IsChain(Trimmed(F, s, keep), SubSeq(s, 1, keep))
         /\ Elems(SubSeq(s, 1, keep)) \subseteq Elems(s)
         /\ Trimmed(F, s, keep) \in [Near -> Entries \cup {EOC}]
         /\ \A c \in Near : c \notin Elems(s) => Trimmed(F, s, keep)[c] = F[c]
         /\ \A c \in Elems(s) \ Elems(SubSeq(s, 1, keep)) : Trimmed(F, s, keep)[c] = 0
  <1> DEFINE m == Len(s)
             u == SubSeq(s, 1, keep)
             F1 == Trimmed(F, s, keep)
  <1>1. m \in Nat /\ \A i \in 1..m : s[i] \in Clus /\ s[i] \in Near /\ s[i] \in Elems(s)
        BY ClusIn DEF Elems
  <1>2. u \in Seq(Clus) /\ Len(u) = keep /\ \A i \in 1..keep : i \in 1..m /\ u[i] = s[i]
        OBVIOUS
  <1>3. \A i, j \in 1..m : i # j => s[i] # s[j]
        BY DEF Distinct
  <1>4. \A i \in 1..m : F[s[i]] = IF i = m THEN EOC ELSE s[i + 1]
        BY DEF IsChain
  <1>5. \A c \in Near : F1[c] =
           IF \E i \in 1..m : i > keep /\ s[i] = c THEN 0
           ELSE IF keep > 0 /\ s[keep] = c THEN EOC ELSE F[c]
        BY DEF Trimmed
  <1>6. F1 \in [Near -> Entries \cup {EOC}]
        BY ClusIn DEF Trimmed
  <1> HIDE DEF m, u, F1
  <1>7. Distinct(u)
        BY <1>2, <1>3 DEF Distinct
  <1>8. IsChain(F1, u)
    <2> SUFFICES ASSUME NEW i \in 1..keep
                 PROVE  F1[u[i]] = IF i = keep THEN EOC ELSE u[i + 1]
        BY <1>2 DEF IsChain
    <2>1. i \in 1..m /\ u[i] = s[i] /\ s[i] \in Near
          BY <1>1, <1>2
    <2>2. ~ \E j \in 1..m : j > keep /\ s[j] = s[i]
          BY <2>1, <1>3
    <2>3. CASE i = keep
      <3>1. keep > 0
            BY <2>3
      <3> QED BY <2>1, <2>2, <2>3, <3>1, <1>5
    <2>4. CASE i # keep
      <3>1. keep \in 1..m /\ i + 1 \in 1..keep /\ i # m
            BY <2>1, <2>4, <1>2
      <3>2. s[keep] # s[i]
            BY <2>1, <2>4, <3>1, <1>3
      <3>3. F1[s[i]] = F[s[i]]
            BY <2>1, <2>2, <3>2, <1>5
      <3>4. F[s[i]] = s[i + 1]
            BY <2>1, <3>1, <1>4
      <3>5. u[i + 1] = s[i + 1]
            BY <3>1, <1>2
      <3> QED BY <2>1, <2>4, <3>3, <3>4, <3>5
    <2> QED BY <2>3, <2>4
  <1>9. Elems(u) \subseteq Elems(s)
        BY <1>2 DEF Elems, m
  <1>10. ASSUME NEW c \in Near, c \notin Elems(s) PROVE F1[c] = F[c]
    <2>1. \A i \in 1..m : s[i] # c
          BY <1>10 DEF Elems, m
    <2>2. keep > 0 => keep \in 1..m
          BY <1>1 DEF m
    <2> QED BY <2>1, <2>2, <1>5
  <1>11. ASSUME NEW c \in Elems(s), c \notin Elems(u) PROVE F1[c] = 0
    <2>1. PICK i \in 1..m : c = s[i]
          BY DEF Elems, m
    <2>2. i \notin 1..keep
      <3> SUFFICES ASSUME i \in 1..keep PROVE FALSE
          OBVIOUS
      <3>1. u[i] = c /\ i \in 1..Len(u)
            BY <2>1, <1>2
      <3> QED BY <3>1, <1>11 DEF Elems
    <2>3. i > keep
          BY <2>2, <1>1
    <2> QED BY <2>1, <2>3, <1>1, <1>5
  <1> QED BY <1>2, <1>6, <1>7, <1>8, <1>9, <1>10, <1>11 DEF m, u, F1

LEMMA ShrinkMoves ==
  ASSUME NEW ch, Steady(ch), NEW f \in Names, NEW n, NEW new, Grows(f, n, new),
         n < 0, Shrink(f, new)
  PROVE  wild' \/ Moves(f, ch)
  <1> SUFFICES ASSUME ~wild' PROVE Moves(f, ch)
      OBVIOUS
  <1> DEFINE F == FatOf(fat1)
             K == Elems(ch[f]) \cup Unowned
             s == ch[f]
             had == Clusters(dirent[f].size)
             keep == Clusters(new.size)
             u == SubSeq(s, 1, keep)
             F1 == Trimmed(F, s, keep)
             D1 == [dirent EXCEPT ![f] = new]
             ch1 == [ch EXCEPT ![f] = u]
             k == Returned(had - keep)
             W == Unlink(s, keep) \o FSInfoWrite(k) \o DirentWrite(f, new)
  <1>1. /\ F \in [Near -> Entries \cup {EOC}] /\ dirent \in [Names -> DirEntries]
        /\ ch \in [Names -> Seq(Clus)] /\ freeCount \in Int /\ fsinfo = freeCount
        /\ Good(F, dirent, leaked, ch, freeCount)
        BY SteadyIs DEF Steady
  <1>2. /\ dirent[f].live /\ ~dirent[f].dir
        /\ new \in DirEntries /\ new.live /\ ~new.dir /\ new.first = dirent[f].first
        /\ n \in Int /\ keep \in Nat /\ keep = had + n /\ keep > 0
        BY DEF Grows
  <1>3. /\ firstFileCluster(f) = dirent[f].first /\ dirent[f].first \in Near
        /\ dirent[f].first = 0 => s = <<>>
        /\ dirent[f].first # 0 => /\ s # <<>> /\ s[1] = dirent[f].first
                                  /\ Chain(dirent[f].first) = s
        /\ Len(s) = had
        /\ Distinct(s) /\ IsChain(F, s) /\ s \in Seq(Clus)
    <2>1. Len(s) = IF dirent[f].dir THEN 1 ELSE Clusters(dirent[f].size)
          BY <1>2, LiveChain
    <2> QED BY <2>1, <1>2, LiveChain
  <1> HIDE DEF F
  <1>4. had \in Nat /\ (s = <<>> => had = 0)
        BY <1>3
  <1>5. leaked' = leaked
        BY DEF Shrink
  <1>6. PICK junk :
             /\ ~(Len(Chain(firstFileCluster(f))) < had)
             /\ Start(f, Unlink(Filled(Chain(firstFileCluster(f)), had, junk), keep)
                           \o FSInfoWrite(k) \o DirentWrite(f, new), k)
        BY DEF Shrink
  <1> HIDE DEF had, keep
  <1>7. keep < had /\ dirent[f].first # 0
    <2>1. keep < had
          BY <1>2, <1>4
    <2> HIDE DEF s
    <2> QED BY <2>1, <1>2, <1>3, <1>4
  <1>8. Chain(firstFileCluster(f)) = s
        BY <1>3, <1>7
  <1>9. Filled(s, had, junk) = s
        BY <1>3, <1>4, FilledFound
  <1>10. Start(f, W, k)
        BY <1>6, <1>8, <1>9
  <1>11. /\ u \in Seq(Clus) /\ Len(u) = keep
         /\ \A i \in 1..keep : i \in 1..Len(s) /\ u[i] = s[i]
         /\ Distinct(u) /\ IsChain(F1, u) /\ Elems(u) \subseteq Elems(s)
         /\ F1 \in [Near -> Entries \cup {EOC}]
         /\ \A c \in Near : c \notin Elems(s) => F1[c] = F[c]
         /\ \A c \in Elems(s) \ Elems(u) : F1[c] = 0
    <2>1. keep <= Len(s)
          BY <1>2, <1>3, <1>4, <1>7
    <2> HIDE DEF s
    <2> QED BY <2>1, <1>1, <1>2, <1>3, TrimmedIs
  <1> HIDE DEF u, F1
  <1>12. Linked(F1, new, u)
    <2>1. 1 \in 1..keep
          BY <1>2
    <2>2. u[1] = s[1] /\ s[1] = new.first /\ new.first # 0
          BY <2>1, <1>2, <1>3, <1>7, <1>11
    <2>3. u # <<>>
          BY <2>1, <1>11
    <2>4. new.live => Len(u) = IF new.dir THEN 1 ELSE Clusters(new.size)
          BY <1>2, <1>11 DEF keep
    <2> HIDE DEF s
    <2>5. IF new.live /\ new.first # 0 THEN u # <<>> /\ u[1] = new.first ELSE u = <<>>
          BY <2>2, <2>3, <1>2
    <2>6. Distinct(u) /\ IsChain(F1, u)
          BY <1>11
    <2> QED BY <2>4, <2>5, <2>6, Zenon DEF Linked
  <1>13. Replaces(F, s, new, u, F1)
    <2>1. \A c \in Near : c \notin Elems(s) \cup Elems(u) => F1[c] = F[c]
          BY <1>11
    <2>2. new.first \in Near
          BY <1>2, <1>3
    <2> HIDE DEF s
    <2> QED BY <2>1, <2>2, <1>2, <1>11, <1>12 DEF Replaces
  <1>14. Good(F1, D1, leaked, ch1, freeCount + Len(ch[f]) - Len(u))
        BY <1>1, <1>13, Replaced
  <1>15. freeCount + Len(ch[f]) - Len(u) = k /\ k \in Int /\ k >= k
    <2>1. Len(ch[f]) = had /\ Len(u) = keep
          BY <1>3, <1>11
    <2> QED BY <2>1, <1>1, <1>2, <1>4 DEF Returned
  <1> HIDE DEF D1, ch1, k
  <1>16. Good(F1, D1, leaked', ch1, k)
        BY <1>5, <1>14, <1>15
  <1>17. /\ Yields(Unlink(s, keep), F, dirent, fsinfo, F1, dirent, fsinfo)
         /\ Within(Unlink(s, keep), K, f, k)
    <2>1. s \in Seq(Near) /\ Elems(s) \subseteq K /\ keep <= Len(s)
          BY <1>2, <1>3, <1>4, <1>7, ClusIn
    <2> HIDE DEF s, K
    <2> QED BY <2>1, <1>2, <1>3, UnlinkYields DEF F1
  <1> HIDE DEF s, K
  <1>18. /\ Yields(FSInfoWrite(k), F1, dirent, fsinfo, F1, dirent, k)
         /\ Within(FSInfoWrite(k), K, f, k)
        BY <1>15, FSInfoYields
  <1>19. /\ Yields(DirentWrite(f, new), F1, dirent, k, F1, D1, k)
         /\ Within(DirentWrite(f, new), K, f, k)
        BY <1>1, <1>2, DirentBecomes DEF D1
  <1>20. /\ Yields(Unlink(s, keep) \o FSInfoWrite(k), F, dirent, fsinfo, F1, dirent, k)
         /\ Within(Unlink(s, keep) \o FSInfoWrite(k), K, f, k)
        BY <1>17, <1>18, BothConcat
  <1>21. Yields(W, F, dirent, fsinfo, F1, D1, k) /\ Within(W, K, f, k)
        BY <1>19, <1>20, BothConcat
  <1> HIDE DEF W
  <1> QED BY <1>5, <1>10, <1>15, <1>16, <1>21 DEF Moves, F, K, s


LEMMA SizeSet ==
  ASSUME NEW d \in DirEntries, NEW size \in 0..MaxSize
  PROVE  LET e == [d EXCEPT !.size = size]
         IN /\ e \in DirEntries /\ e.live = d.live /\ e.dir = d.dir /\ e.first = d.first
            /\ e.size = size
  BY DEF DirEntries

LEMMA WriteFileMoves ==
  ASSUME NEW ch, Steady(ch), NEW f \in Names, NEW size \in Nat, size > 0, WriteFile(f, size)
  PROVE  wild' \/ Moves(f, ch)
  <1> DEFINE new == [dirent[f] EXCEPT !.size = size]
             n == Clusters(size) - Clusters(dirent[f].size)
  <1>1. dirent[f] \in DirEntries /\ dirent[f].size \in Nat
    <2>1. dirent[f] \in DirEntries
          BY SteadyIs
    <2> QED BY <2>1, FatAssumption DEF DirEntries
  <1>2. /\ dirent[f].live /\ ~dirent[f].dir /\ size <= MaxSize
        /\ \/ n > 0 /\ firstFileCluster(f) = 0 /\ Begin(f, n, new)
           \/ n >= 0 /\ ~(n > 0 /\ firstFileCluster(f) = 0) /\ Extend(f, n, new)
           \/ n < 0 /\ Shrink(f, new)
        BY DEF WriteFile
  <1>3. /\ new \in DirEntries /\ new.live = dirent[f].live /\ new.dir = dirent[f].dir
        /\ new.first = dirent[f].first /\ new.size = size
    <2>1. size \in 0..MaxSize
          BY <1>2, FatAssumption
    <2> QED BY <2>1, <1>1, SizeSet
  <1> HIDE DEF new
  <1>4. Clusters(size) \in Nat /\ Clusters(size) > 0 /\ Clusters(dirent[f].size) \in Nat
    <2>1. Clusters(size) \in Nat /\ Clusters(size) # 0
          BY ClustersTyped
    <2> QED BY <2>1, <1>1, ClustersTyped
  <1>5. Grows(f, n, new)
    <2>1. n \in Int /\ Clusters(size) = Clusters(dirent[f].size) + n
          BY <1>4
    <2> HIDE DEF n
    <2> QED BY <2>1, <1>2, <1>3, <1>4 DEF Grows
  <1> HIDE DEF n
  <1> QED BY <1>2, <1>5, BeginMoves, ExtendMoves, ShrinkMoves

(* All of a chain is given back.                                           *)
LEMMA FreeAllYields ==
  ASSUME NEW ch, Steady(ch), NEW f \in Names, dirent[f].live
  PROVE  LET F    == FatOf(fat1)
             F1   == Trimmed(F, ch[f], 0)
             last == dirent[f].first
             k    == CountAfter(last)
         IN /\ k \in Int
            /\ Good(F1, [dirent EXCEPT ![f] = NoEntry], leaked, [ch EXCEPT ![f] = <<>>], k)
            /\ \A D, K : Elems(ch[f]) \subseteq K =>
                 /\ Yields(FreeAll(last), F, D, fsinfo, F1, D, k)
                 /\ Within(FreeAll(last), K, f, k)
  <1> DEFINE F == FatOf(fat1)
             s == ch[f]
             F1 == Trimmed(F, s, 0)
             last == dirent[f].first
             k == CountAfter(last)
             D1 == [dirent EXCEPT ![f] = NoEntry]
             ch1 == [ch EXCEPT ![f] = <<>>]
  <1>1. /\ F \in [Near -> Entries \cup {EOC}] /\ dirent \in [Names -> DirEntries]
        /\ ch \in [Names -> Seq(Clus)] /\ freeCount \in Int /\ fsinfo = freeCount
        /\ Good(F, dirent, leaked, ch, freeCount)
        BY SteadyIs DEF Steady
  <1>2. /\ last = 0 => s = <<>>
        /\ last # 0 => s # <<>> /\ Chain(last) = s
        /\ Distinct(s) /\ IsChain(F, s) /\ s \in Seq(Clus) /\ Len(s) \in Nat
        BY LiveChain
  <1> HIDE DEF F, last
  <1>3. /\ F1 \in [Near -> Entries \cup {EOC}]
        /\ \A c \in Near : c \notin Elems(s) => F1[c] = F[c]
        /\ \A c \in Elems(s) : F1[c] = 0
        /\ IsChain(F1, <<>>) /\ Distinct(<<>>) /\ <<>> \in Seq(Clus) /\ Elems(<<>>) = {}
    <2> DEFINE u == SubSeq(s, 1, 0)
    <2>1. 0 \in Nat /\ 0 <= Len(s)
          BY <1>2
    <2> HIDE DEF s
    <2>2. /\ F1 \in [Near -> Entries \cup {EOC}]
          /\ \A c \in Near : c \notin Elems(s) => F1[c] = F[c]
          /\ \A c \in Elems(s) \ Elems(u) : F1[c] = 0
          /\ IsChain(F1, u) /\ Distinct(u) /\ u \in Seq(Clus) /\ Len(u) = 0
          BY <2>1, <1>1, <1>2, TrimmedIs
    <2>3. u = <<>>
          BY <2>2
    <2>4. Elems(<<>>) = {}
          BY DEF Elems
    <2> HIDE DEF u, F1
    <2> QED BY <2>2, <2>3, <2>4
  <1>4. k = freeCount + Len(s) /\ k \in Int
    <2>1. CASE last = 0
      <3>1. k = freeCount
            BY <2>1 DEF CountAfter
      <3>2. Len(s) = 0
            BY <2>1, <1>2
      <3> HIDE DEF k, s
      <3> QED BY <3>1, <3>2, <1>1
    <2>2. CASE last # 0
      <3>1. k = freeCount + Len(Chain(last))
            BY <2>2 DEF CountAfter, Returned
      <3>2. Chain(last) = s
            BY <2>2, <1>2
      <3> HIDE DEF k, s
      <3> QED BY <3>1, <3>2, <1>1, <1>2
    <2> QED BY <2>1, <2>2
  <1> HIDE DEF k, F1
  <1>5. NoEntry \in DirEntries /\ NoEntry.first = 0 /\ 0 \in Near /\ ~NoEntry.live
    <2>1. NoEntry.live = FALSE
          BY DEF NoEntry
    <2> QED BY <2>1, NoEntryTyped, ClusIn
  <1>6. Linked(F1, NoEntry, <<>>)
        BY <1>3, <1>5 DEF Linked
  <1>7. Replaces(F, s, NoEntry, <<>>, F1)
    <2> HIDE DEF s
    <2> QED BY <1>3, <1>5, <1>6 DEF Replaces
  <1>8. Good(F1, D1, leaked, ch1, freeCount + Len(ch[f]) - Len(<<>>))
        BY <1>1, <1>7, Replaced
  <1>9. Good(F1, D1, leaked, ch1, k)
    <2>1. Len(<<>>) = 0
          OBVIOUS
    <2>2. freeCount + Len(ch[f]) - Len(<<>>) = k
          BY <2>1, <1>1, <1>2, <1>4
    <2> HIDE DEF D1, ch1
    <2> QED BY <2>2, <1>8
  <1>10. ASSUME NEW D, NEW K, Elems(s) \subseteq K
         PROVE  Yields(FreeAll(last), F, D, fsinfo, F1, D, k) /\ Within(FreeAll(last), K, f, k)
    <2>1. CASE last = 0
      <3>1. FreeAll(last) = <<>>
            BY <2>1 DEF FreeAll
      <3>2. s = <<>> /\ Elems(s) = {}
            BY <2>1, <1>2, <1>3
      <3>3. F1 = F
        <4>1. \A c \in Near : F1[c] = F[c]
              BY <3>2, <1>3
        <4> QED BY <4>1, <1>1, <1>3
      <3>4. k = fsinfo
        <4>1. Len(s) = 0
              BY <3>2
        <4> HIDE DEF s
        <4> QED BY <4>1, <1>1, <1>4
      <3>5. Yields(<<>>, F, D, fsinfo, F, D, fsinfo) /\ Within(<<>>, K, f, k)
            BY NothingYields
      <3> HIDE DEF s
      <3> QED BY <3>1, <3>3, <3>4, <3>5
    <2>2. CASE last # 0
      <3>1. FreeAll(last) = Unlink(s, 0) \o FSInfoWrite(k)
        <4>1. Chain(last) = s /\ k = Returned(Len(s))
              BY <2>2, <1>2, <1>4 DEF Returned
        <4>2. FreeAll(last) = Unlink(Chain(last), 0) \o FSInfoWrite(Returned(Len(Chain(last))))
              BY <2>2 DEF FreeAll
        <4> HIDE DEF s
        <4> QED BY <4>1, <4>2
      <3>2. s \in Seq(Near) /\ 0 \in Nat /\ 0 <= Len(s)
            BY <1>2, ClusIn
      <3> HIDE DEF s
      <3>3. /\ Yields(Unlink(s, 0), F, D, fsinfo, F1, D, fsinfo)
            /\ Within(Unlink(s, 0), K, f, k)
            BY <3>2, <1>2, <1>10, UnlinkYields DEF F1
      <3>4. k >= k
            BY <1>4
      <3>5. /\ Yields(FSInfoWrite(k), F1, D, fsinfo, F1, D, k)
            /\ Within(FSInfoWrite(k), K, f, k)
            BY <3>4, <1>4, FSInfoYields
      <3>6. /\ Yields(Unlink(s, 0) \o FSInfoWrite(k), F, D, fsinfo, F1, D, k)
            /\ Within(Unlink(s, 0) \o FSInfoWrite(k), K, f, k)
            BY <3>3, <3>5, BothConcat
      <3> QED BY <3>1, <3>6
    <2> QED BY <2>1, <2>2
  <1> QED BY <1>4, <1>9, <1>10 DEF F, s, F1, k, last

LEMMA DeleteMoves ==
  ASSUME NEW ch, Steady(ch), NEW f \in Names, DeleteFile(f) \/ DeleteDir(f)
  PROVE  Moves(f, ch)
  <1> DEFINE F == FatOf(fat1)
             K == Elems(ch[f]) \cup Unowned
             F1 == Trimmed(F, ch[f], 0)
             last == dirent[f].first
             k == CountAfter(last)
             D1 == [dirent EXCEPT ![f] = NoEntry]
             ch1 == [ch EXCEPT ![f] = <<>>]
             A == FreeAll(last)
             B == DirentWrite(f, NoEntry)
  <1>1. dirent[f].live /\ leaked' = leaked /\ dirent \in [Names -> DirEntries]
    <2>1. dirent[f].live /\ leaked' = leaked
          BY DEF DeleteFile, DeleteDir
    <2> QED BY <2>1, SteadyIs
  <1>2. Start(f, A \o B, k) \/ Start(f, B \o A, k)
    <2>1. firstFileCluster(f) = last
          BY <1>1, LiveChain
    <2> QED BY <2>1 DEF DeleteFile, DeleteDir
  <1>3. /\ k \in Int /\ Good(F1, D1, leaked, ch1, k)
        /\ \A D : /\ Yields(A, F, D, fsinfo, F1, D, k)
                  /\ Within(A, K, f, k)
    <2>1. Elems(ch[f]) \subseteq K
          OBVIOUS
    <2> HIDE DEF K
    <2> QED BY <2>1, <1>1, FreeAllYields
  <1> HIDE DEF F, F1, A, k, K
  <1>4. ASSUME NEW G, NEW I
        PROVE  Yields(B, G, dirent, I, G, D1, I) /\ Within(B, K, f, k)
        BY <1>1, NoEntryTyped, DirentBecomes
  <1> HIDE DEF B, D1, ch1
  <1>5. Yields(A \o B, F, dirent, fsinfo, F1, D1, k) /\ Within(A \o B, K, f, k)
    <2>1. Yields(A, F, dirent, fsinfo, F1, dirent, k) /\ Within(A, K, f, k)
          BY <1>3
    <2>2. Yields(B, F1, dirent, k, F1, D1, k) /\ Within(B, K, f, k)
          BY <1>4
    <2> QED BY <2>1, <2>2, BothConcat
  <1>6. Yields(B \o A, F, dirent, fsinfo, F1, D1, k) /\ Within(B \o A, K, f, k)
    <2>1. Yields(A, F, D1, fsinfo, F1, D1, k) /\ Within(A, K, f, k)
          BY <1>3
    <2>2. Yields(B, F, dirent, fsinfo, F, D1, fsinfo) /\ Within(B, K, f, k)
          BY <1>4
    <2> QED BY <2>1, <2>2, BothConcat
  <1> QED BY <1>1, <1>2, <1>3, <1>5, <1>6 DEF Moves, F, K


LEMMA NextMoves ==
  ASSUME NEW ch, Steady(ch), Next
  PROVE  wild' \/ (\E f \in Names : Moves(f, ch)) \/ DiskWrite \/ Crash
  <1> SUFFICES ASSUME ~wild', ~DiskWrite, ~Crash PROVE \E f \in Names : Moves(f, ch)
      OBVIOUS
  <1>1. PICK f \in Names : \/ CreateFile(f) \/ CreateDir(f)
                           \/ DeleteFile(f) \/ DeleteDir(f)
                           \/ \E size \in Sizes : RewriteFile(f, size) \/ AppendFile(f, size)
        BY DEF Next
  <1>2. CASE CreateFile(f)
        BY <1>2, CreateFileMoves
  <1>3. CASE CreateDir(f)
        BY <1>3, CreateDirMoves
  <1>4. CASE DeleteFile(f) \/ DeleteDir(f)
        BY <1>4, DeleteMoves
  <1>5. ASSUME NEW size \in Sizes, RewriteFile(f, size) PROVE Moves(f, ch)
    <2>1. size \in Nat /\ size > 0
          BY FatAssumption
    <2> QED BY <2>1, <1>5, WriteFileMoves DEF RewriteFile
  <1>6. ASSUME NEW size \in Sizes, AppendFile(f, size) PROVE Moves(f, ch)
    <2> DEFINE total == dirent[f].size + size
    <2>1. size \in Nat /\ size > 0 /\ dirent[f].size \in Nat
      <3>1. dirent[f] \in DirEntries
            BY SteadyIs
      <3> QED BY <3>1, FatAssumption DEF DirEntries
    <2>2. total \in Nat /\ total > 0
          BY <2>1
    <2>3. WriteFile(f, total)
          BY <1>6 DEF AppendFile
    <2> HIDE DEF total
    <2> QED BY <2>2, <2>3, WriteFileMoves
  <1> QED BY <1>1, <1>2, <1>3, <1>4, <1>5, <1>6

-----------------------------------------------------------------------------
(* The files other than f, in the FAT F: nothing that is under way reaches *)
(* their clusters or their entries.                                        *)
Apart(F, D, L, ch, f) ==
  /\ ch \in [Names -> Seq(Clus)] /\ F[0] = EOC
  /\ \A g \in Names \ {f} : /\ Linked(F, D[g], ch[g])
                            /\ Elems(ch[g]) \cap (Foreign \cup L) = {}
                            /\ \A h \in Names \ {f, g} : Elems(ch[g]) \cap Elems(ch[h]) = {}

Spared(ch, f) == {c \in Clus : \A g \in Names \ {f} : c \notin Elems(ch[g])}

Untouched(fat, D, L, W, f, n) ==
  \E ch : Apart(FatOf(fat), D, L, ch, f) /\ Within(W, Spared(ch, f), f, n)

(* The writes still to come complete the operation: they lead to a FAT and *)
(* to entries that are as between two operations, and to the free count    *)
(* the driver holds in memory.                                             *)
Completes(fat, D, I, L, W, n) ==
  \E F1, D1, ch : Good(F1, D1, L, ch, n) /\ Yields(W, FatOf(fat), D, I, F1, D1, n)

AllocInv ==
  /\ TypeInv
  /\ crashes = 0 => ~reused
  /\ crashes > 0 /\ ~reused => todo = <<>>
  /\ ~wild /\ ~reused => Untouched(fat1, dirent, leaked, todo, target, freeCount)
  /\ ~wild /\ crashes = 0 => Completes(fat1, dirent, fsinfo, leaked, todo, freeCount)

(* The operations have their effect once all of their writes are done.     *)
LEMMA NothingLeft ==
  ASSUME NEW F \in [Near -> Entries \cup {EOC}], NEW D \in [Names -> DirEntries], NEW I,
         NEW F1 \in [Near -> Entries \cup {EOC}], NEW D1 \in [Names -> DirEntries], NEW I1,
         Yields(<<>>, F, D, I, F1, D1, I1)
  PROVE  F1 = F /\ D1 = D /\ I1 = I
  <1>1. \A c \in Near : F1[c] = F[c]
        BY LandsNothing DEF Yields
  <1>2. \A g \in Names : D1[g] = D[g]
        BY LandsNothing DEF Yields
  <1>3. I1 = I
        BY LandsNothing DEF Yields
  <1> QED BY <1>1, <1>2, <1>3

LEMMA FatOfTyped ==
  ASSUME FatsTyped
  PROVE  FatOf(fat1) \in [Near -> Entries \cup {EOC}]
  BY PlaceInPlaces, NearIn DEF FatsTyped, FatOf

LEMMA SteadyExists ==
  ASSUME AllocInv, FewClusters, Idle, crashes = 0
  PROVE  \E ch : Steady(ch)
  <1>1. TypeInv /\ todo = <<>> /\ ~wild
        BY DEF AllocInv, Idle
  <1>2. PICK F1, D1, ch : /\ Good(F1, D1, leaked, ch, freeCount)
                          /\ Yields(<<>>, FatOf(fat1), dirent, fsinfo, F1, D1, freeCount)
        BY <1>1 DEF AllocInv, Completes
  <1>3. F1 = FatOf(fat1) /\ D1 = dirent /\ freeCount = fsinfo
    <2>1. F1 \in [Near -> Entries \cup {EOC}] /\ D1 \in [Names -> DirEntries]
          BY <1>2 DEF Good
    <2>2. FatOf(fat1) \in [Near -> Entries \cup {EOC}] /\ dirent \in [Names -> DirEntries]
          BY <1>1, FatOfTyped DEF TypeInv
    <2> QED BY <2>1, <2>2, <1>2, NothingLeft
  <1>4. Good(FatOf(fat1), dirent, leaked, ch, freeCount)
        BY <1>2, <1>3
  <1> QED BY <1>1, <1>3, <1>4 DEF Steady

LEMMA SteadyApart ==
  ASSUME NEW ch, Steady(ch), NEW f \in Names, NEW L, L \subseteq leaked \cup Unowned,
         NEW W, NEW n, Within(W, Elems(ch[f]) \cup Unowned, f, n)
  PROVE  Untouched(fat1, dirent, L, W, f, n)
  <1> DEFINE F == FatOf(fat1)
  <1>1. Good(F, dirent, leaked, ch, freeCount)
        BY DEF Steady
  <1>2. /\ F[0] = EOC /\ ch \in [Names -> Seq(Clus)]
        /\ \A g \in Names : Linked(F, dirent[g], ch[g])
        /\ \A g \in Names : Elems(ch[g]) \cap (Foreign \cup leaked) = {}
        /\ \A g, h \in Names : g # h => Elems(ch[g]) \cap Elems(ch[h]) = {}
        /\ \A c \in Clus : F[c] # 0 <=> c \in Foreign \cup leaked \cup AllOwned(ch)
        BY <1>1 DEF Good
  <1>3. \A g \in Names : Elems(ch[g]) \cap Unowned = {} /\ Elems(ch[g]) \subseteq Clus
    <2> SUFFICES ASSUME NEW g \in Names
                 PROVE  Elems(ch[g]) \cap Unowned = {} /\ Elems(ch[g]) \subseteq Clus
        OBVIOUS
    <2>1. Elems(ch[g]) \subseteq Clus
          BY <1>2, ElemsIn
    <2>2. \A c \in Elems(ch[g]) : F[c] # 0
          BY <2>1, <1>2 DEF AllOwned
    <2> QED BY <2>1, <2>2 DEF Unowned
  <1>4. ASSUME NEW g \in Names \ {f}
        PROVE  /\ Linked(F, dirent[g], ch[g])
               /\ Elems(ch[g]) \cap (Foreign \cup L) = {}
               /\ \A h \in Names \ {f, g} : Elems(ch[g]) \cap Elems(ch[h]) = {}
        BY <1>2, <1>3
  <1>5. Apart(F, dirent, L, ch, f)
    <2> HIDE DEF F
    <2> QED BY <1>2, <1>4 DEF Apart
  <1>6. Elems(ch[f]) \cup Unowned \subseteq Spared(ch, f)
    <2>1. Unowned \subseteq Clus
          BY DEF Unowned
    <2>2. \A g \in Names \ {f} : Elems(ch[g]) \cap (Elems(ch[f]) \cup Unowned) = {}
          BY <1>2, <1>3
    <2> QED BY <2>1, <2>2, <1>3 DEF Spared
  <1>7. Within(W, Spared(ch, f), f, n)
        BY <1>6 DEF Within
  <1> QED BY <1>5, <1>7 DEF Untouched


LEMMA LinkedSame ==
  ASSUME NEW F, NEW F1, NEW e, NEW s, Linked(F, e, s), \A c \in Elems(s) : F1[c] = F[c]
  PROVE  Linked(F1, e, s)
  <1>1. \A i \in 1..Len(s) : F1[s[i]] = F[s[i]]
        BY DEF Elems
  <1>2. IsChain(F, s) => IsChain(F1, s)
        BY <1>1 DEF IsChain
  <1> QED BY <1>2 DEF Linked

LEMMA InitAllocInv ==
  ASSUME FewClusters, Init
  PROVE  AllocInv
  <1> DEFINE F == FatOf(fat1)
             ch == [f \in Names |-> <<>>]
  <1>1. /\ TypeInv /\ crashes = 0 /\ ~reused /\ todo = <<>> /\ leaked = {}
        /\ fsinfo = InitFree /\ freeCount = InitFree
        BY InitTypeInv DEF Init
  <1>2. dirent = [f \in Names |-> NoEntry]
        BY DEF Init
  <1>3. ASSUME NEW c \in Near
        PROVE  F[c] = IF c \in {0, 1} \cup Foreign THEN EOC ELSE 0
    <2>1. F[c] = fat1[Place(c)] /\ Place(c) \in Places
          BY PlaceInPlaces, NearIn DEF FatOf
    <2>2. fat1[Place(c)] = IF \E d \in {0, 1} \cup Foreign : Place(c) = Place(d) THEN EOC ELSE 0
          BY <2>1 DEF Init
    <2>3. \A d \in {0, 1} \cup Foreign : d \in Near
          BY ClusIn, FatAssumption DEF FewClusters, Clus
    <2>4. (\E d \in {0, 1} \cup Foreign : Place(c) = Place(d)) <=> c \in {0, 1} \cup Foreign
          BY <2>3, PlaceInjective
    <2> QED BY <2>1, <2>2, <2>4
  <1>4. F \in [Near -> Entries \cup {EOC}]
        BY <1>1, FatOfTyped DEF TypeInv
  <1>5. Good(F, dirent, leaked, ch, freeCount)
    <2>1. ch \in [Names -> Seq(Clus)] /\ \A f \in Names : ch[f] = <<>>
          OBVIOUS
    <2>2. F[0] = EOC /\ F[1] = EOC
          BY <1>3, ClusIn
    <2>3. /\ NoEntry \in DirEntries /\ NoEntry.first = 0 /\ 0 \in Near /\ ~NoEntry.live
      <3>1. NoEntry.live = FALSE
            BY DEF NoEntry
      <3> QED BY <3>1, NoEntryTyped, ClusIn
    <2>4. dirent \in [Names -> DirEntries] /\ \A f \in Names : dirent[f] = NoEntry
          BY <2>3, <1>2
    <2>5. Distinct(<<>>) /\ IsChain(F, <<>>) /\ Elems(<<>>) = {}
          BY DEF Distinct, IsChain, Elems
    <2>6. Linked(F, NoEntry, <<>>)
          BY <2>3, <2>5 DEF Linked
    <2> HIDE DEF ch, F
    <2>7. AllOwned(ch) = {}
          BY <2>1, <2>5 DEF AllOwned
    <2>8. \A c \in Clus : F[c] # 0 <=> c \in Foreign \cup leaked \cup AllOwned(ch)
          BY <2>7, <1>1, <1>3, ClusIn
    <2>9. freeCount = InitFree - Cardinality(AllOwned(ch))
      <3>1. Cardinality(AllOwned(ch)) = 0
            BY <2>7, FS_EmptySet
      <3> QED BY <3>1, <1>1, FatAssumption
    <2>10. /\ \A f \in Names : Linked(F, dirent[f], ch[f]) /\ dirent[f].first \in Near
           /\ \A f \in Names : Elems(ch[f]) \cap (Foreign \cup leaked) = {}
           /\ \A f, g \in Names : f # g => Elems(ch[f]) \cap Elems(ch[g]) = {}
          BY <2>1, <2>3, <2>4, <2>5, <2>6
    <2> QED BY <2>1, <2>2, <2>4, <2>8, <2>9, <2>10, <1>1, <1>4 DEF Good
  <1>6. Completes(fat1, dirent, fsinfo, leaked, todo, freeCount)
    <2>1. Yields(<<>>, F, dirent, fsinfo, F, dirent, fsinfo)
          BY NothingYields
    <2>2. fsinfo = freeCount
          BY <1>1
    <2> HIDE DEF F, ch
    <2> QED BY <2>1, <2>2, <1>1, <1>5 DEF Completes, F
  <1>7. Untouched(fat1, dirent, leaked, todo, target, freeCount)
    <2>1. Apart(F, dirent, leaked, ch, target)
      <3> HIDE DEF F, ch
      <3>1. /\ F[0] = EOC /\ ch \in [Names -> Seq(Clus)]
            /\ \A g \in Names : Linked(F, dirent[g], ch[g])
            /\ \A g \in Names : Elems(ch[g]) \cap (Foreign \cup leaked) = {}
            /\ \A g, h \in Names : g # h => Elems(ch[g]) \cap Elems(ch[h]) = {}
            BY <1>5 DEF Good
      <3> QED BY <3>1 DEF Apart
    <2>2. Within(<<>>, Spared(ch, target), target, freeCount)
          BY NothingYields
    <2> HIDE DEF F, ch
    <2> QED BY <2>1, <2>2, <1>1 DEF Untouched, F
  <1> QED BY <1>1, <1>6, <1>7 DEF AllocInv

LEMMA OperationAllocInv ==
  ASSUME AllocInv, FewClusters, Next, ~DiskWrite, ~Crash, TypeInv'
  PROVE  AllocInv'
  <1>1. Idle /\ Begins /\ TypeInv /\ crashes \in Nat
    <2>1. TypeInv /\ crashes \in 0..MaxCrashes
          BY DEF AllocInv, TypeInv
    <2> QED BY <2>1, NextCases, FatAssumption
  <1>2. reused' = (crashes > 0) /\ crashes' = crashes /\ UNCHANGED disk
        BY <1>1 DEF Begins, Start
  <1>21. /\ crashes > 0 => reused'
         /\ ~(crashes > 0) => ~reused'
    <2> DEFINE late == crashes > 0
    <2>1. reused' = late
          BY <1>2
    <2> HIDE DEF late
    <2>2. (late => reused') /\ (~late => ~reused')
          BY <2>1, Zenon
    <2> QED BY <2>2 DEF late
  <1>3. CASE crashes # 0
    <2>1. crashes > 0
          BY <1>1, <1>3
    <2>2. crashes' # 0 /\ reused'
          BY <2>1, <1>2, <1>3, <1>21
    <2> QED BY <2>2 DEF AllocInv
  <1>4. CASE crashes = 0 /\ wild'
    <2>1. crashes' = 0 /\ ~reused'
          BY <1>1, <1>2, <1>4, <1>21
    <2> QED BY <2>1, <1>4 DEF AllocInv
  <1>5. CASE crashes = 0 /\ ~wild'
    <2>1. crashes' = 0 /\ ~reused'
          BY <1>1, <1>2, <1>5, <1>21
    <2>2. PICK ch : Steady(ch)
          BY <1>1, <1>5, SteadyExists
    <2>3. PICK f \in Names : Moves(f, ch)
          BY <2>2, <1>5, NextMoves
    <2>4. PICK W, n, F1, D1, ch1 :
            /\ n \in Int /\ Start(f, W, n)
            /\ Yields(W, FatOf(fat1), dirent, fsinfo, F1, D1, n)
            /\ Within(W, Elems(ch[f]) \cup Unowned, f, n)
            /\ Good(F1, D1, leaked', ch1, n)
            /\ leaked' \subseteq leaked \cup Unowned
          BY <2>3 DEF Moves
    <2>5. /\ todo' = W /\ freeCount' = n /\ target' = f
          /\ fat1' = fat1 /\ dirent' = dirent /\ fsinfo' = fsinfo
          BY <2>4 DEF Start, disk
    <2>6. Untouched(fat1, dirent, leaked', W, f, n)
          BY <2>2, <2>4, SteadyApart
    <2>7. Completes(fat1, dirent, fsinfo, leaked', W, n)
          BY <2>4 DEF Completes
    <2>8. /\ Untouched(fat1, dirent, leaked, todo, target, freeCount)'
          /\ Completes(fat1, dirent, fsinfo, leaked, todo, freeCount)'
          BY <2>5, <2>6, <2>7
    <2> QED BY <2>1, <2>8 DEF AllocInv
  <1> QED BY <1>3, <1>4, <1>5

LEMMA CrashAllocInv ==
  ASSUME AllocInv, Crash, TypeInv'
  PROVE  AllocInv'
  <1>1. /\ crashes' = crashes + 1 /\ todo' = <<>> /\ UNCHANGED <<disk, target, wild, leaked, reused>>
        /\ crashes \in Nat
    <2>1. crashes \in 0..MaxCrashes
          BY DEF AllocInv, TypeInv
    <2> QED BY <2>1, FatAssumption DEF Crash
  <1>2. crashes' # 0
        BY <1>1
  <1>3. ASSUME ~wild, ~reused
        PROVE  Untouched(fat1, dirent, leaked, todo, target, freeCount)'
    <2>1. PICK ch : Apart(FatOf(fat1), dirent, leaked, ch, target)
          BY <1>3 DEF AllocInv, Untouched
    <2>2. ASSUME NEW n PROVE Within(<<>>, Spared(ch, target), target, n)
          BY NothingYields
    <2>3. ASSUME NEW n PROVE Untouched(fat1, dirent, leaked, <<>>, target, n)
          BY <2>1, <2>2 DEF Untouched
    <2>4. Untouched(fat1, dirent, leaked, <<>>, target, freeCount')
          BY <2>3
    <2>5. fat1' = fat1 /\ dirent' = dirent /\ leaked' = leaked /\ target' = target
          BY <1>1 DEF disk
    <2> QED BY <2>4, <2>5, <1>1
  <1>4. wild' = wild /\ reused' = reused
        BY <1>1
  <1> QED BY <1>1, <1>2, <1>3, <1>4 DEF AllocInv


LEMMA DiskWriteAllocInv ==
  ASSUME AllocInv, DiskWrite, TypeInv'
  PROVE  AllocInv'
  <1> DEFINE w == todo[1]
             rest == Tail(todo)
             F == FatOf(fat1)
             G == FatOf(fat1')
  <1>1. /\ TypeInv /\ todo # <<>> /\ todo \in Seq(Writes) /\ FatsTyped
        /\ dirent \in [Names -> DirEntries]
        BY DEF AllocInv, DiskWrite, TypeInv
  <1>2. /\ Head(todo) = w /\ w \in Writes /\ rest \in Seq(Writes)
        /\ Len(todo) \in Nat /\ Len(todo) > 0
        /\ Len(rest) = Len(todo) - 1
        /\ \A i \in 1..Len(rest) : i + 1 \in 1..Len(todo) /\ rest[i] = todo[i + 1]
        BY <1>1, HeadTail
  <1>3. /\ fat1' = Effect(fat1, "fat1", w)
        /\ fsinfo' = (IF w.dst = "fsinfo" THEN w.val ELSE fsinfo)
        /\ dirent' = (IF w.dst = "dirent" THEN [dirent EXCEPT ![w.key] = w.val] ELSE dirent)
        /\ todo' = rest
        /\ UNCHANGED <<freeCount, target, wild, leaked, crashes, reused>>
        BY <1>2 DEF DiskWrite
  <1> HIDE DEF w, rest
  <1>40. ASSUME ~wild, ~reused, w.dst = "fat1"
         PROVE  w.key \in Near
    <2>1. PICK ch : Within(todo, Spared(ch, target), target, freeCount)
          BY <1>40 DEF AllocInv, Untouched
    <2>2. w.key \in Spared(ch, target)
          BY <2>1, <1>2, <1>40 DEF Within, w
    <2> QED BY <2>2, ClusIn DEF Spared
  <1>4. ASSUME ~wild, ~reused, NEW c \in Near
        PROVE  G[c] = IF Hits(w, "fat1", c) THEN w.val ELSE F[c]
    <2>0. w.dst = "fat1" => w.key \in Near
          BY <1>4, <1>40
    <2>1. FatOf(Effect(fat1, "fat1", w))[c] = IF Hits(w, "fat1", c) THEN w.val ELSE FatOf(fat1)[c]
          BY <2>0, <1>1, <1>2, FatOfEffect
    <2> QED BY <2>1, <1>3
  <1>5. ASSUME NEW g \in Names
        PROVE  dirent'[g] = IF Hits(w, "dirent", g) THEN w.val ELSE dirent[g]
    <2>1. CASE w.dst = "dirent"
          BY <2>1, <1>1, <1>3 DEF Hits
    <2>2. CASE w.dst # "dirent"
          BY <2>2, <1>3 DEF Hits
    <2> QED BY <2>1, <2>2
  <1>6. fsinfo' = IF Hits(w, "fsinfo", 0) THEN w.val ELSE fsinfo
    <2>1. w.dst = "fsinfo" => w.key = 0
          BY <1>2 DEF Writes
    <2> QED BY <2>1, <1>3 DEF Hits
  <1> HIDE DEF F, G
  <1>7. ASSUME ~wild, ~reused
        PROVE  Untouched(fat1', dirent', leaked, rest, target, freeCount)
    <2>1. PICK ch : /\ Apart(F, dirent, leaked, ch, target)
                    /\ Within(todo, Spared(ch, target), target, freeCount)
          BY <1>7 DEF AllocInv, Untouched, F
    <2>2. /\ w.dst = "fat1" => w.key \in Spared(ch, target)
          /\ w.dst = "dirent" => w.key = target
      <3>1. 1 \in 1..Len(todo)
            BY <1>2
      <3> QED BY <3>1, <2>1 DEF Within, w
    <2>3. Within(rest, Spared(ch, target), target, freeCount)
          BY <2>1, <1>2 DEF Within
    <2>4. /\ ch \in [Names -> Seq(Clus)] /\ F[0] = EOC
          /\ \A g \in Names \ {target} :
               /\ Linked(F, dirent[g], ch[g])
               /\ Elems(ch[g]) \cap (Foreign \cup leaked) = {}
               /\ \A h \in Names \ {target, g} : Elems(ch[g]) \cap Elems(ch[h]) = {}
          BY <2>1 DEF Apart
    <2>5. G[0] = EOC
      <3>1. ~Hits(w, "fat1", 0)
            BY <2>2, ClusIn DEF Hits, Spared
      <3> QED BY <3>1, <2>4, <1>4, <1>7, ClusIn
    <2>6. ASSUME NEW g \in Names \ {target} PROVE Linked(G, dirent'[g], ch[g])
      <3>1. dirent'[g] = dirent[g]
            BY <2>2, <1>5 DEF Hits
      <3>2. Elems(ch[g]) \subseteq Clus
            BY <2>4, ElemsIn
      <3>3. ASSUME NEW c \in Elems(ch[g]) PROVE G[c] = F[c]
        <4>1. c \in Near /\ c \notin Spared(ch, target)
              BY <3>2, ClusIn DEF Spared
        <4>2. ~Hits(w, "fat1", c)
              BY <4>1, <2>2 DEF Hits
        <4> QED BY <4>1, <4>2, <1>4, <1>7
      <3>4. Linked(F, dirent[g], ch[g])
            BY <2>4
      <3>5. Linked(G, dirent[g], ch[g])
            BY <3>3, <3>4, LinkedSame
      <3> QED BY <3>1, <3>5
    <2>7. Apart(G, dirent', leaked, ch, target)
          BY <2>4, <2>5, <2>6 DEF Apart
    <2> QED BY <2>3, <2>7 DEF Untouched, G
  <1>8. ASSUME ~wild, crashes = 0
        PROVE  Completes(fat1', dirent', fsinfo', leaked, rest, freeCount)
    <2>1. PICK F1, D1, ch : /\ Good(F1, D1, leaked, ch, freeCount)
                            /\ Yields(todo, F, dirent, fsinfo, F1, D1, freeCount)
          BY <1>8 DEF AllocInv, Completes, F
    <2>2. ASSUME NEW c \in Near PROVE Lands(G[c], "fat1", c, rest, F1[c])
      <3>1. Lands(F[c], "fat1", c, todo, F1[c])
            BY <2>1 DEF Yields
      <3>2. Lands(IF Hits(w, "fat1", c) THEN w.val ELSE F[c], "fat1", c, rest, F1[c])
            BY <3>1, <1>1, LandsNext DEF w, rest
      <3>3. ~reused
            BY <1>8 DEF AllocInv
      <3> QED BY <3>2, <3>3, <1>4, <1>8
    <2>3. ASSUME NEW g \in Names PROVE Lands(dirent'[g], "dirent", g, rest, D1[g])
      <3>1. Lands(dirent[g], "dirent", g, todo, D1[g])
            BY <2>1 DEF Yields
      <3>2. Lands(IF Hits(w, "dirent", g) THEN w.val ELSE dirent[g], "dirent", g, rest, D1[g])
            BY <3>1, <1>1, LandsNext DEF w, rest
      <3> QED BY <3>2, <1>5
    <2>4. Lands(fsinfo', "fsinfo", 0, rest, freeCount)
      <3>1. Lands(fsinfo, "fsinfo", 0, todo, freeCount)
            BY <2>1 DEF Yields
      <3>2. Lands(IF Hits(w, "fsinfo", 0) THEN w.val ELSE fsinfo, "fsinfo", 0, rest, freeCount)
            BY <3>1, <1>1, LandsNext DEF w, rest
      <3> QED BY <3>2, <1>6
    <2>5. Yields(rest, G, dirent', fsinfo', F1, D1, freeCount)
          BY <2>2, <2>3, <2>4, <1>2 DEF Yields
    <2> QED BY <2>1, <2>5 DEF Completes, G
  <1>9. /\ ~wild /\ ~reused => Untouched(fat1, dirent, leaked, todo, target, freeCount)'
        /\ ~wild /\ crashes = 0 => Completes(fat1, dirent, fsinfo, leaked, todo, freeCount)'
        BY <1>3, <1>7, <1>8
  <1>10. /\ wild' = wild /\ reused' = reused /\ crashes' = crashes
         /\ crashes = 0 => ~reused
         /\ ~(crashes > 0 /\ ~reused)
        BY <1>1, <1>3 DEF AllocInv
  <1> QED BY <1>9, <1>10 DEF AllocInv

LEMMA AllocInvStep ==
  ASSUME FewClusters
  PROVE  AllocInv /\ [Next]_vars => AllocInv'
  <1> SUFFICES ASSUME AllocInv, [Next]_vars PROVE AllocInv'
      OBVIOUS
  <1>1. TypeInv'
        BY TypeInvStep DEF AllocInv
  <1>2. CASE DiskWrite
        BY <1>1, <1>2, DiskWriteAllocInv
  <1>3. CASE Crash
        BY <1>1, <1>3, CrashAllocInv
  <1>4. CASE Next /\ ~DiskWrite /\ ~Crash
        BY <1>1, <1>4, OperationAllocInv
  <1>5. CASE UNCHANGED vars
    <2>1. /\ fat1' = fat1 /\ dirent' = dirent /\ fsinfo' = fsinfo /\ leaked' = leaked
          /\ todo' = todo /\ freeCount' = freeCount /\ target' = target
          /\ wild' = wild /\ reused' = reused /\ crashes' = crashes
          BY <1>5 DEF vars, disk
    <2>2. /\ Untouched(fat1, dirent, leaked, todo, target, freeCount)' =
               Untouched(fat1, dirent, leaked, todo, target, freeCount)
          /\ Completes(fat1, dirent, fsinfo, leaked, todo, freeCount)' =
               Completes(fat1, dirent, fsinfo, leaked, todo, freeCount)
          BY <2>1
    <2> QED BY <1>1, <2>1, <2>2 DEF AllocInv
  <1> QED BY <1>2, <1>3, <1>4, <1>5

LEMMA AllocInvHolds ==
  ASSUME FewClusters
  PROVE  Spec => []AllocInv
  <1>1. Init => AllocInv
        BY InitAllocInv
  <1>2. AllocInv /\ [Next]_vars => AllocInv'
        BY AllocInvStep
  <1> QED BY <1>1, <1>2, PTL DEF Spec


-----------------------------------------------------------------------------
(* The properties in the terms they are stated in: by walking the FAT.     *)
LEMMA OwnedIs ==
  ASSUME FatsTyped, NEW f \in Names, NEW s \in Seq(Clus),
         Linked(FatOf(fat1), dirent[f], s)
  PROVE  Owned(f) = Elems(s)
  <1> DEFINE first == dirent[f].first
  <1>1. CASE dirent[f].live /\ first # 0
    <2>1. /\ s # <<>> /\ s[1] = first /\ Distinct(s) /\ IsChain(FatOf(fat1), s)
          /\ s \in Seq(Near)
          BY <1>1, ClusIn DEF Linked
    <2>2. Chain(first) = s
          BY <2>1, ChainIs
    <2>3. Owned(f) = {Chain(first)[i] : i \in 1..Len(Chain(first))}
          BY <1>1 DEF Owned
    <2> HIDE DEF first
    <2> QED BY <2>2, <2>3 DEF Elems
  <1>2. CASE ~(dirent[f].live /\ first # 0)
    <2>1. s = <<>>
          BY <1>2 DEF Linked
    <2>2. Elems(<<>>) = {}
          BY DEF Elems
    <2>3. Owned(f) = {}
          BY <1>2 DEF Owned
    <2> QED BY <2>1, <2>2, <2>3
  <1> QED BY <1>1, <1>2

LEMMA IntactIs ==
  ASSUME FatsTyped, NEW f \in Names, NEW s \in Seq(Clus),
         Linked(FatOf(fat1), dirent[f], s), FatOf(fat1)[0] = EOC
  PROVE  Intact(f)
  <1> SUFFICES ASSUME dirent[f].live
               PROVE  /\ Returns(dirent[f].first)
                      /\ Cardinality(Owned(f)) =
                           IF dirent[f].dir THEN 1 ELSE Clusters(dirent[f].size)
      BY DEF Intact
  <1> DEFINE first == dirent[f].first
  <1>1. Distinct(s) /\ IsChain(FatOf(fat1), s)
        /\ Len(s) = IF dirent[f].dir THEN 1 ELSE Clusters(dirent[f].size)
        BY DEF Linked
  <1>2. Cardinality(Owned(f)) = Len(s)
    <2>1. Owned(f) = Elems(s)
          BY OwnedIs
    <2>2. Cardinality(Elems(s)) = Len(s)
          BY <1>1, ElemsIn
    <2> QED BY <2>1, <2>2
  <1>3. Returns(first)
    <2>1. CASE first # 0
      <3>1. s # <<>> /\ s[1] = first /\ s \in Seq(Near)
            BY <2>1, ClusIn DEF Linked
      <3>2. Returns(s[1])
            BY <3>1, <1>1, ChainIs
      <3> QED BY <3>1, <3>2
    <2>2. CASE first = 0
      <3> DEFINE walk == Walk(0)
      <3>1. /\ walk[0] = 0 /\ DOMAIN walk = 0..MaxCluster + 1
            /\ \A i \in 0..MaxCluster : walk[i + 1] = Follow(walk[i])
            BY ClusIn, NearIn, WalkTyped
      <3> HIDE DEF walk
      <3>2. MaxCluster \in Nat /\ EOC \in Nat
            BY FatEntryAssumption, FatAssumption
      <3>3. 0 \in 0..MaxCluster /\ 1 \in 0..MaxCluster + 1 /\ 0 + 1 = 1
            BY <3>2
      <3>4. walk[1] = Follow(0)
            BY <3>1, <3>3
      <3>5. Follow(0) = EOC
        <4>1. fatEntry(0) = FatOf(fat1)[0]
              BY ClusIn DEF fatEntry, read_fat_entry, FatOf
        <4> QED BY <4>1, ClusIn DEF Follow
      <3>6. 1 \in DOMAIN walk /\ walk[1] >= EOC
            BY <3>1, <3>2, <3>3, <3>4, <3>5
      <3>7. Returns(0)
            BY <3>6 DEF Returns, walk
      <3> QED BY <2>2, <3>7
    <2> QED BY <2>1, <2>2
  <1> QED BY <1>1, <1>2, <1>3

LEMMA SettledGood ==
  ASSUME AllocInv, Settled
  PROVE  /\ FatsTyped /\ fsinfo = freeCount
         /\ \E ch : /\ Good(FatOf(fat1), dirent, leaked, ch, freeCount)
                    /\ ch \in [Names -> Seq(Clus)]
                    /\ \A f \in Names : Owned(f) = Elems(ch[f]) /\ Intact(f)
                    /\ UNION {Owned(f) : f \in Names} = AllOwned(ch)
  <1>1. TypeInv /\ todo = <<>> /\ ~wild /\ crashes = 0
        BY DEF AllocInv, Settled, Idle
  <1>2. PICK F1, D1, ch : /\ Good(F1, D1, leaked, ch, freeCount)
                          /\ Yields(<<>>, FatOf(fat1), dirent, fsinfo, F1, D1, freeCount)
        BY <1>1 DEF AllocInv, Completes
  <1>3. F1 = FatOf(fat1) /\ D1 = dirent /\ freeCount = fsinfo
    <2>1. F1 \in [Near -> Entries \cup {EOC}] /\ D1 \in [Names -> DirEntries]
          BY <1>2 DEF Good
    <2>2. FatOf(fat1) \in [Near -> Entries \cup {EOC}] /\ dirent \in [Names -> DirEntries]
          BY <1>1, FatOfTyped DEF TypeInv
    <2> QED BY <2>1, <2>2, <1>2, NothingLeft
  <1>4. Good(FatOf(fat1), dirent, leaked, ch, freeCount)
        BY <1>2, <1>3
  <1>5. /\ ch \in [Names -> Seq(Clus)] /\ FatOf(fat1)[0] = EOC
        /\ \A f \in Names : Linked(FatOf(fat1), dirent[f], ch[f])
        BY <1>4 DEF Good
  <1>6. FatsTyped
        BY <1>1 DEF TypeInv
  <1>7. ASSUME NEW f \in Names PROVE Owned(f) = Elems(ch[f]) /\ Intact(f)
    <2>1. ch[f] \in Seq(Clus)
          BY <1>5
    <2> QED BY <2>1, <1>5, <1>6, OwnedIs, IntactIs
  <1>8. UNION {Owned(f) : f \in Names} = AllOwned(ch)
    <2>1. {Owned(f) : f \in Names} = {Elems(ch[f]) : f \in Names}
          BY <1>7
    <2> QED BY <2>1 DEF AllOwned
  <1> QED BY <1>3, <1>4, <1>5, <1>6, <1>7, <1>8

LEMMA AllocImplies ==
  ASSUME AllocInv, FewClusters
  PROVE  NoCrossLink /\ ChainMatchesSize /\ NothingLost /\ FreeCountTracks
  <1> SUFFICES ASSUME Settled
               PROVE  NoCrossLink /\ ChainMatchesSize /\ NothingLost /\ FreeCountTracks
      BY DEF NoCrossLink, ChainMatchesSize, NothingLost, FreeCountTracks
  <1>1. PICK ch : /\ Good(FatOf(fat1), dirent, leaked, ch, freeCount)
                  /\ ch \in [Names -> Seq(Clus)]
                  /\ \A f \in Names : Owned(f) = Elems(ch[f]) /\ Intact(f)
                  /\ UNION {Owned(f) : f \in Names} = AllOwned(ch)
        BY SettledGood
  <1>2. /\ \A f \in Names : Elems(ch[f]) \cap (Foreign \cup leaked) = {}
        /\ \A f, g \in Names : f # g => Elems(ch[f]) \cap Elems(ch[g]) = {}
        /\ \A c \in Clus : FatOf(fat1)[c] # 0 <=> c \in Foreign \cup leaked \cup AllOwned(ch)
        /\ freeCount = InitFree - Cardinality(AllOwned(ch))
        /\ leaked \subseteq Clus
        BY <1>1 DEF Good
  <1>3. NoCrossLink
    <2> SUFFICES ASSUME NEW f \in Names
                 PROVE  /\ Owned(f) \cap (Foreign \cup leaked \cup {0, 1}) = {}
                        /\ \A g \in Names \ {f} : Owned(f) \cap Owned(g) = {}
        BY DEF NoCrossLink
    <2>1. Elems(ch[f]) \subseteq Clus
          BY <1>1, ElemsIn
    <2> QED BY <2>1, <1>1, <1>2, ClusIn
  <1>4. ChainMatchesSize
        BY <1>1 DEF ChainMatchesSize
  <1>5. NothingLost
    <2>1. \A c \in Clus : fatEntry(c) = FatOf(fat1)[c]
          BY ClusIn DEF fatEntry, read_fat_entry, FatOf
    <2>2. Foreign \subseteq Clus /\ AllOwned(ch) \subseteq Clus
          BY <1>1, OwnedIn, FatAssumption DEF FewClusters, Clus
    <2>3. {c \in Clus : fatEntry(c) # 0} = Foreign \cup leaked \cup AllOwned(ch)
          BY <2>1, <2>2, <1>2
    <2>4. {c \in 2..MaxCluster : c < PerSector /\ fatEntry(c) # 0} = Foreign \cup leaked \cup AllOwned(ch)
          BY <2>3 DEF Clus
    <2> QED BY <2>4, <1>1 DEF NothingLost
  <1>6. FreeCountTracks
    <2>1. fsinfo = freeCount
          BY SettledGood
    <2> QED BY <2>1, <1>1, <1>2 DEF FreeCountTracks
  <1> QED BY <1>3, <1>4, <1>5, <1>6

LEMMA AllocImpliesIntact ==
  ASSUME AllocInv
  PROVE  OthersIntact
  <1> SUFFICES ASSUME ~wild, ~reused, NEW f \in Names \ {target}
               PROVE  /\ Intact(f)
                      /\ Owned(f) \cap (Foreign \cup leaked \cup {0, 1}) = {}
                      /\ \A g \in Names \ {target, f} : Owned(f) \cap Owned(g) = {}
      BY DEF OthersIntact
  <1>1. PICK ch : Apart(FatOf(fat1), dirent, leaked, ch, target)
        BY DEF AllocInv, Untouched
  <1>2. /\ ch \in [Names -> Seq(Clus)] /\ FatOf(fat1)[0] = EOC
        /\ \A g \in Names \ {target} :
             /\ Linked(FatOf(fat1), dirent[g], ch[g])
             /\ Elems(ch[g]) \cap (Foreign \cup leaked) = {}
             /\ \A h \in Names \ {target, g} : Elems(ch[g]) \cap Elems(ch[h]) = {}
        BY <1>1 DEF Apart
  <1>3. FatsTyped
        BY DEF AllocInv, TypeInv
  <1>4. ASSUME NEW g \in Names \ {target}
        PROVE  Owned(g) = Elems(ch[g]) /\ Intact(g) /\ Elems(ch[g]) \subseteq Clus
    <2>1. ch[g] \in Seq(Clus)
          BY <1>2
    <2> QED BY <2>1, <1>2, <1>3, OwnedIs, IntactIs, ElemsIn
  <1>5. \A g \in Names \ {target, f} : Owned(f) \cap Owned(g) = {}
        BY <1>2, <1>4
  <1> QED BY <1>2, <1>4, <1>5, ClusIn


-----------------------------------------------------------------------------
(* The free count the volume was formatted with counts every cluster that  *)
(* is not in use.                                                          *)
CountCovers == Cardinality(Clus \ Foreign) <= InitFree

CountInv ==
  /\ AllocInv
  /\ ~wild /\ ~reused => fsinfo \in Nat /\ freeCount \in Nat

LEMMA GoodCount ==
  ASSUME CountCovers, NEW F, NEW D, NEW L, NEW ch, NEW n, Good(F, D, L, ch, n)
  PROVE  n \in Nat
  <1>1. /\ ch \in [Names -> Seq(Clus)] /\ n = InitFree - Cardinality(AllOwned(ch))
        /\ \A f \in Names : Elems(ch[f]) \cap (Foreign \cup L) = {}
        BY DEF Good
  <1> DEFINE A == AllOwned(ch)
             B == Clus \ Foreign
  <1>2. A \subseteq B
    <2>1. \A c \in A : c \notin Foreign
          BY <1>1 DEF AllOwned
    <2> QED BY <2>1, <1>1, OwnedIn
  <1>3. IsFiniteSet(B)
        BY ClusIn, FS_Subset
  <1> HIDE DEF A, B
  <1>4. Cardinality(A) <= Cardinality(B) /\ Cardinality(A) \in Nat /\ Cardinality(B) \in Nat
        BY <1>2, <1>3, FS_Subset, FS_CardinalityType
  <1>5. Cardinality(B) <= InitFree
        BY DEF CountCovers, B
  <1> QED BY <1>1, <1>4, <1>5, FatAssumption DEF A

LEMMA CountInvStep ==
  ASSUME FewClusters, CountCovers
  PROVE  CountInv /\ [Next]_vars => CountInv'
  <1> SUFFICES ASSUME CountInv, [Next]_vars, ~wild', ~reused'
               PROVE  fsinfo' \in Nat /\ freeCount' \in Nat
      BY AllocInvStep DEF CountInv
  <1>1. AllocInv /\ AllocInv' /\ TypeInv
        BY AllocInvStep DEF CountInv, AllocInv
  <1>2. CASE DiskWrite
    <2>1. /\ freeCount' = freeCount /\ wild' = wild /\ reused' = reused
          /\ fsinfo' = (IF Head(todo).dst = "fsinfo" THEN Head(todo).val ELSE fsinfo)
          /\ todo # <<>>
          BY <1>2 DEF DiskWrite
    <2>2. fsinfo \in Nat /\ freeCount \in Nat
          BY <2>1 DEF CountInv
    <2>3. PICK ch : Within(todo, Spared(ch, target), target, freeCount)
          BY <2>1, <1>1 DEF AllocInv, Untouched
    <2>4. Head(todo) = todo[1] /\ 1 \in 1..Len(todo) /\ Head(todo) \in Writes
      <3>1. Len(todo) \in Nat /\ Len(todo) > 0 /\ Head(todo) = todo[1] /\ Head(todo) \in Writes
            BY <2>1, <1>1, HeadTail
      <3> QED BY <3>1
    <2>5. Head(todo).dst = "fsinfo" => Head(todo).val >= freeCount /\ Head(todo).val \in Int
      <3>1. Head(todo).dst = "fsinfo" => Head(todo).val >= freeCount
            BY <2>3, <2>4 DEF Within
      <3>2. Head(todo).dst = "fsinfo" => Head(todo).val \in Int
            BY <2>4 DEF Writes
      <3> QED BY <3>1, <3>2
    <2> QED BY <2>1, <2>2, <2>5
  <1>3. CASE Crash
    <2>1. freeCount' = fsinfo /\ fsinfo' = fsinfo /\ wild' = wild /\ reused' = reused
          BY <1>3 DEF Crash, disk
    <2> QED BY <2>1 DEF CountInv
  <1>4. CASE UNCHANGED vars
        BY <1>4 DEF CountInv, vars, disk
  <1>5. CASE Next /\ ~DiskWrite /\ ~Crash
    <2>1. Idle /\ Begins
          BY <1>1, <1>5, NextCases
    <2>2. /\ ~wild /\ fsinfo' = fsinfo /\ reused' = (crashes > 0) /\ crashes' = crashes
          BY <2>1 DEF Idle, Begins, Start, disk
    <2>3. crashes \in Nat
      <3>1. crashes \in 0..MaxCrashes
            BY <1>1 DEF TypeInv
      <3> QED BY <3>1, FatAssumption
    <2>4. ~(crashes > 0)
      <3> DEFINE late == crashes > 0
      <3>1. reused' = late
            BY <2>2
      <3> HIDE DEF late
      <3>2. ~late
            BY <3>1, Zenon
      <3> QED BY <3>2 DEF late
    <2>5. crashes' = 0 /\ crashes = 0 /\ ~reused
          BY <2>2, <2>3, <2>4, <1>1 DEF AllocInv
    <2>6. fsinfo' \in Nat
          BY <2>2, <2>5 DEF CountInv
    <2>7. Completes(fat1', dirent', fsinfo', leaked', todo', freeCount')
          BY <2>5, <1>1 DEF AllocInv
    <2>8. PICK F1, D1, ch : Good(F1, D1, leaked', ch, freeCount')
          BY <2>7 DEF Completes
    <2> QED BY <2>6, <2>8, GoodCount
  <1> QED BY <1>2, <1>3, <1>4, <1>5

LEMMA CountImpliesTypeOK == CountInv => TypeOK
  <1> SUFFICES ASSUME CountInv PROVE TypeOK
      OBVIOUS
  <1>1. /\ FatsTyped /\ fsinfo \in Int /\ freeCount \in Int
        /\ dirent \in [Names -> DirEntries]
        /\ target \in Names /\ wild \in BOOLEAN /\ leaked \subseteq Entries
        /\ crashes \in 0..MaxCrashes /\ reused \in BOOLEAN
        BY DEF CountInv, AllocInv, TypeInv
  <1>2. ~wild /\ ~reused => fsinfo \in Nat /\ freeCount \in Nat
        BY DEF CountInv
  <1> QED BY <1>1, <1>2 DEF TypeOK, FatsTyped, DirEntries

-----------------------------------------------------------------------------
(* Why the theorems below speak of the clusters of the first sector only:  *)
(* on every volume whose FAT is longer, read_fat_entry and write_fat_entry *)
(* take the first entry beyond that sector to the place of entry 0.        *)
THEOREM FatPlacesCollide ==
  ~(MaxCluster < PerSector) => \E c, d \in Entries : c # d /\ Place(c) = Place(d)
  <1> SUFFICES ASSUME ~(MaxCluster < PerSector)
               PROVE  \E c, d \in Entries : c # d /\ Place(c) = Place(d)
      OBVIOUS
  <1> DEFINE p == PerSector
             S == SECTOR_SIZE
  <1>1. S \in Nat /\ S >= 4 /\ MaxCluster \in Nat
        BY FatEntryAssumption
  <1>2. p \in Nat /\ p > 0 /\ p < S
    <2>1. p = S \div 4
          BY DEF PerSector
    <2> HIDE DEF p, S
    <2> QED BY <2>1, <1>1
  <1> HIDE DEF p, S
  <1>3. p <= MaxCluster
        BY <1>1, <1>2 DEF p
  <1>4. 0 \in Entries /\ p \in Entries /\ p # 0
        BY <1>1, <1>2, <1>3 DEF Entries
  <1>5. p \div S = 0 /\ 0 \div S = 0
        BY <1>1, <1>2, Z3
  <1>6. p % p = 0 /\ 0 % p = 0
        BY <1>2, Z3
  <1>7. Place(p) = Place(0)
    <2>1. entrySector(p) = entrySector(0)
          BY <1>5 DEF entrySector, S
    <2>2. entryOffInSect(p) = entryOffInSect(0)
          BY <1>6 DEF entryOffInSect, p
    <2> QED BY <2>1, <2>2 DEF Place
  <1> QED BY <1>4, <1>7

(* The disk and the driver's copy of the free count stay well-formed; in   *)
(* particular the unsigned counter never wraps, neither by allocating nor  *)
(* by giving clusters back.                                                *)
THEOREM FatTypeCorrect ==
  ASSUME FewClusters, CountCovers
  PROVE  Spec => []TypeOK
  <1>1. Init => CountInv
    <2> SUFFICES ASSUME Init PROVE CountInv
        OBVIOUS
    <2>1. fsinfo = InitFree /\ freeCount = InitFree
          BY DEF Init
    <2> QED BY <2>1, InitAllocInv, FatAssumption DEF CountInv
  <1>2. CountInv /\ [Next]_vars => CountInv'
        BY CountInvStep
  <1> QED BY <1>1, <1>2, CountImpliesTypeOK, PTL DEF Spec

(* No cluster gets into the chains of two files: find_empty_Cluster and    *)
(* find_free_clusters pick only what nobody owns, and what deleting and    *)
(* shrinking give back nobody owns any more.                               *)
THEOREM FatNoCrossLink ==
  ASSUME FewClusters
  PROVE  Spec => []NoCrossLink
  <1>1. AllocInv => NoCrossLink
        BY AllocImplies
  <1> QED BY <1>1, AllocInvHolds, PTL

(* allocate_new_clusters and remove_clusters_from_chain leave every chain  *)
(* ended and as long as the size in the directory entry says.              *)
THEOREM FatChainMatchesSize ==
  ASSUME FewClusters
  PROVE  Spec => []ChainMatchesSize
  <1>1. AllocInv => ChainMatchesSize
        BY AllocImplies
  <1> QED BY <1>1, AllocInvHolds, PTL

(* A cluster is marked in the FAT exactly when a file, the volume as it    *)
(* was mounted, or a failed write owns it.                                 *)
THEOREM FatNothingLost ==
  ASSUME FewClusters
  PROVE  Spec => []NothingLost
  <1>1. AllocInv => NothingLost
        BY AllocImplies
  <1> QED BY <1>1, AllocInvHolds, PTL

(* The free count, in memory and in the FSInfo sector, follows every       *)
(* allocation and every release.                                           *)
THEOREM FatFreeCountTracks ==
  ASSUME FewClusters
  PROVE  Spec => []FreeCountTracks
  <1>1. AllocInv => FreeCountTracks
        BY AllocImplies
  <1> QED BY <1>1, AllocInvHolds, PTL

(* In the middle of an operation, and if the machine stops there, the      *)
(* files the operation is not about are whole.                             *)
THEOREM FatOthersIntact ==
  ASSUME FewClusters
  PROVE  Spec => []OthersIntact
  <1>1. AllocInv => OthersIntact
        BY AllocImpliesIntact
  <1> QED BY <1>1, AllocInvHolds, PTL
=============================================================================
