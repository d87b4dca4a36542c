---------------------------- MODULE FatTreeProofs ----------------------------
(***************************************************************************)
(* The proofs about the directory tree: for every set of clusters, names   *)
(* and paths, and wherever the machine stops, what paths lead to is in use *)
(* and has one entry only, no cluster is lost but those known to be, the   *)
(* string of the working directory leads to the working directory, and     *)
(* FatTree implements PathTree.                                            *)
(***************************************************************************)
EXTENDS FatTree, FiniteSetTheorems, SequenceTheorems, WellFoundedInduction, TLAPS

(* A set of numbers that has 0 and, with a number, the next one, has all.  *)
LEMMA Counting ==
  ASSUME NEW S, 0 \in S, \A n \in Nat : n \in S => n + 1 \in S
  PROVE  Nat \subseteq S
  <1> DEFINE Bad == Nat \ S
  <1> SUFFICES ASSUME Bad # {} PROVE FALSE
      OBVIOUS
  <1>1. IsWellFoundedOn(OpToRel(<, Nat), Nat)
        BY NatLessThanWellFounded
  <1>2. \E x \in Bad : \A y \in Bad : ~(<<y, x>> \in OpToRel(<, Nat))
        BY <1>1, WFMin, Zenon
  <1>3. PICK x \in Bad : \A y \in Bad : ~(<<y, x>> \in OpToRel(<, Nat))
        BY <1>2
  <1>4. \A y \in Bad : ~(y < x)
        BY <1>3 DEF OpToRel
  <1>5. x # 0
        OBVIOUS
  <1>6. x - 1 \in Nat /\ x - 1 < x /\ (x - 1) + 1 = x
        BY <1>5
  <1>7. x - 1 \notin S
        BY <1>6
  <1> QED BY <1>4, <1>6, <1>7

(* A function defined by recursion over 0..n exists: g gives the next      *)
(* value.                                                                  *)
Recurses(V, b, n, g) ==
  \E w \in [0..n -> V] : w[0] = b /\ \A i \in 1..n : w[i] = g[i][w[i - 1]]

LEMMA Recursion ==
  ASSUME NEW V, NEW b \in V, NEW n \in Nat, NEW g \in [1..n -> [V -> V]]
  PROVE  Recurses(V, b, n, g)
  <1> DEFINE Upto(k) == \E w \in [0..k -> V] :
                          w[0] = b /\ \A i \in 1..k : w[i] = g[i][w[i - 1]]
             S == {k \in Nat : k <= n => Upto(k)}
  <1>1. 0 \in S
    <2> DEFINE w == [i \in 0..0 |-> b]
    <2>1. w \in [0..0 -> V] /\ w[0] = b /\ \A i \in 1..0 : w[i] = g[i][w[i - 1]]
          OBVIOUS
    <2>2. Upto(0)
          BY <2>1
    <2> QED BY <2>2
  <1>2. ASSUME NEW k \in Nat, k \in S PROVE k + 1 \in S
    <2> SUFFICES ASSUME k + 1 <= n PROVE Upto(k + 1)
        OBVIOUS
    <2>1. PICK w \in [0..k -> V] : w[0] = b /\ \A i \in 1..k : w[i] = g[i][w[i - 1]]
          BY <1>2
    <2> DEFINE v == [i \in 0..k + 1 |-> IF i = k + 1 THEN g[k + 1][w[k]] ELSE w[i]]
    <2>2. k + 1 \in 1..n /\ w[k] \in V
          OBVIOUS
    <2>3. g[k + 1][w[k]] \in V
          BY <2>2
    <2>4. v \in [0..k + 1 -> V] /\ v[0] = b
          BY <2>1, <2>3
    <2>5. ASSUME NEW i \in 1..k + 1 PROVE v[i] = g[i][v[i - 1]]
      <3>1. CASE i = k + 1
            BY <3>1
      <3>2. CASE i # k + 1
        <4>1. i \in 1..k /\ i - 1 \in 0..k /\ i \in 0..k + 1 /\ i - 1 \in 0..k + 1 /\ i - 1 # k + 1
              BY <3>2
        <4>2. v[i] = w[i] /\ v[i - 1] = w[i - 1]
              BY <4>1, <3>2
        <4> QED BY <2>1, <4>1, <4>2
      <3> QED BY <3>1, <3>2
    <2> QED BY <2>4, <2>5
  <1> HIDE DEF Upto
  <1>3. Nat \subseteq S
        BY <1>1, <1>2, Counting
  <1> QED BY <1>3 DEF Upto, Recurses

-----------------------------------------------------------------------------
(* The directories below one: the least set that has it and, with each     *)
(* directory, those in it.                                                 *)
EntriesTyped == entries \in [Clusters -> [Names -> Entries]]

DirsLeast(d) ==
  /\ d \in DirsFrom(d)
  /\ DirsFrom(d) \subseteq Clusters
  /\ \A x \in DirsFrom(d) : Subdirs(x) \subseteq DirsFrom(d)
  /\ \A S \in SUBSET Clusters :
       d \in S /\ (\A x \in S : Subdirs(x) \subseteq S) => DirsFrom(d) \subseteq S

Spread(ds) == ds \cup UNION {Subdirs(c) : c \in ds}

LEMMA EntryKinds ==
  ASSUME EntriesTyped, NEW d \in Clusters, NEW n \in Names
  PROVE  /\ Entry(d, n) \in Entries
         /\ Entry(d, n).kind \in {"absent", "file", "dir"}
         /\ Entry(d, n).kind = "dir" => /\ Entry(d, n).first \in Clusters
                                        /\ Entry(d, n).first # 0
                                        /\ Entry(d, n) = Dir(Entry(d, n).first)
         /\ Entry(d, n).kind = "file" => /\ Entry(d, n).first \in Clusters \cup {0}
                                         /\ Entry(d, n) = File(Entry(d, n).first)
         /\ Entry(d, n).kind = "absent" <=> Entry(d, n) = Absent
         /\ Entry(d, n) = Absent => Entry(d, n).first = 0
  <1> DEFINE e == Entry(d, n)
  <1>1. e \in Entries
        BY DEF EntriesTyped, Entry
  <1>2. 0 \notin Clusters
        BY TreeAssumption
  <1> HIDE DEF e
  <1>3. \/ e = Absent
        \/ \E c \in Clusters \cup {0} : e = File(c)
        \/ \E c \in Clusters : e = Dir(c)
        BY <1>1 DEF Entries
  <1>4. CASE e = Absent
        BY <1>1, <1>4 DEF Absent, File, Dir, e
  <1>5. ASSUME NEW c \in Clusters \cup {0}, e = File(c) PROVE e.first = c /\ e.kind = "file" /\ e # Absent
        BY <1>5 DEF File, Absent
  <1>6. ASSUME NEW c \in Clusters, e = Dir(c) PROVE e.first = c /\ e.kind = "dir" /\ e # Absent
        BY <1>6 DEF Dir, Absent
  <1>7. e = Absent => e.kind = "absent" /\ e.first = 0
        BY DEF Absent
  <1> QED BY <1>1, <1>2, <1>3, <1>5, <1>6, <1>7 DEF e

LEMMA SubdirsTyped ==
  ASSUME EntriesTyped, NEW d \in Clusters
  PROVE  Subdirs(d) \subseteq Clusters
  BY EntryKinds DEF Subdirs

LEMMA DirsAre ==
  ASSUME EntriesTyped, NEW d \in Clusters
  PROVE  LET n == Cardinality(Clusters)
         IN  /\ n \in Nat
             /\ \E f \in [0..n -> SUBSET Clusters] :
                  /\ f[0] = {d} /\ \A i \in 1..n : f[i] = Spread(f[i - 1])
                  /\ DirsFrom(d) = f[n - 1]
  <1> DEFINE n == Cardinality(Clusters)
             V == SUBSET Clusters
             g == [i \in 1..n |-> [X \in V |-> Spread(X)]]
             Again(f) == [i \in 0..n |-> IF i = 0 THEN {d}
                            ELSE f[i - 1] \cup UNION {Subdirs(c) : c \in f[i - 1]}]
             f0 == CHOOSE f : f = Again(f)
  <1>1. n \in Nat
        BY TreeAssumption, FS_CardinalityType
  <1>2. \A X \in V : Spread(X) \in V
        BY SubdirsTyped DEF Spread
  <1>3. g \in [1..n -> [V -> V]]
        BY <1>2
  <1>4. {d} \in V
        OBVIOUS
  <1>5. DirsFrom(d) = f0[n - 1]
        BY DEF DirsFrom
  <1>6. \A i \in 1..n : \A X \in V : g[i][X] = Spread(X)
        OBVIOUS
  <1> HIDE DEF n, V, g
  <1>7. PICK w \in [0..n -> V] : w[0] = {d} /\ \A i \in 1..n : w[i] = g[i][w[i - 1]]
    <2>1. Recurses(V, {d}, n, g)
          BY <1>1, <1>3, <1>4, Recursion
    <2> QED BY <2>1 DEF Recurses
  <1>8. \A i \in 1..n : i - 1 \in 0..n /\ w[i - 1] \in V /\ w[i] = Spread(w[i - 1])
    <2> SUFFICES ASSUME NEW i \in 1..n
                 PROVE  i - 1 \in 0..n /\ w[i - 1] \in V /\ w[i] = Spread(w[i - 1])
        OBVIOUS
    <2>1. i - 1 \in 0..n /\ w[i - 1] \in V
          BY <1>1
    <2>2. w[i] = g[i][w[i - 1]]
          BY <1>7
    <2> QED BY <1>6, <2>1, <2>2
  <1>9. w = Again(w)
    <2>1. \A i \in 0..n : i # 0 => i \in 1..n
          BY <1>1
    <2>2. \A i \in 0..n : w[i] = IF i = 0 THEN {d}
                            ELSE w[i - 1] \cup UNION {Subdirs(c) : c \in w[i - 1]}
          BY <1>7, <1>8, <2>1 DEF Spread
    <2> QED BY <2>2
  <1>10. f0 = Again(f0)
         BY <1>9
  <1> HIDE DEF f0
  <1>11. /\ f0 = [i \in 0..n |-> f0[i]] /\ f0[0] = {d}
         /\ \A i \in 1..n : f0[i] = Spread(f0[i - 1])
    <2>1. DOMAIN f0 = 0..n /\ \A i \in 0..n : f0[i] = IF i = 0 THEN {d}
                            ELSE f0[i - 1] \cup UNION {Subdirs(c) : c \in f0[i - 1]}
          BY <1>10
    <2>2. \A i \in 1..n : i \in 0..n /\ i # 0
          BY <1>1
    <2>3. 0 \in 0..n
          BY <1>1
    <2>4. f0 = [i \in 0..n |-> f0[i]]
          BY <1>10, <2>1
    <2> QED BY <2>1, <2>2, <2>3, <2>4 DEF Spread
  <1>12. \A i \in 0..n : f0[i] \in V
    <2> DEFINE S == {k \in Nat : k <= n => f0[k] \in V}
    <2>1. 0 \in S
          BY <1>4, <1>11
    <2>2. ASSUME NEW k \in Nat, k \in S PROVE k + 1 \in S
      <3> SUFFICES ASSUME k + 1 <= n PROVE f0[k + 1] \in V
          OBVIOUS
      <3>1. k + 1 \in 1..n /\ (k + 1) - 1 = k /\ f0[k] \in V
            BY <1>1, <2>2
      <3> QED BY <1>2, <1>11, <3>1
    <2>3. Nat \subseteq S
          BY <2>1, <2>2, Counting
    <2> QED BY <1>1, <2>3
  <1>13. f0 \in [0..n -> V]
         BY <1>11, <1>12
  <1> QED BY <1>1, <1>5, <1>11, <1>13 DEF n, V

LEMMA DirsFromLeast == EntriesTyped => \A d \in Clusters : DirsLeast(d)
  <1> SUFFICES ASSUME EntriesTyped, NEW d \in Clusters PROVE DirsLeast(d)
      OBVIOUS
  <1> DEFINE n == Cardinality(Clusters)
  <1>1. n \in Nat
        BY DirsAre
  <1>2. PICK f \in [0..n -> SUBSET Clusters] :
          /\ f[0] = {d} /\ \A i \in 1..n : f[i] = Spread(f[i - 1])
          /\ DirsFrom(d) = f[n - 1]
        BY DirsAre
  <1>3. n >= 1
    <2>1. IsFiniteSet(Clusters) /\ Root \in Clusters
          BY TreeAssumption
    <2>2. n # 0
          BY <2>1, FS_EmptySet
    <2> QED BY <1>1, <2>2
  <1>4. n - 1 \in 0..n
        BY <1>1, <1>3
  <1>5. d \in f[n - 1]
    <2> DEFINE S == {k \in Nat : k <= n => d \in f[k]}
    <2>1. 0 \in S
          BY <1>2
    <2>2. ASSUME NEW k \in Nat, k \in S PROVE k + 1 \in S
      <3> SUFFICES ASSUME k + 1 <= n PROVE d \in f[k + 1]
          OBVIOUS
      <3>1. k + 1 \in 1..n /\ (k + 1) - 1 = k /\ d \in f[k]
            BY <1>1, <2>2
      <3> QED BY <1>2, <3>1 DEF Spread
    <2>3. Nat \subseteq S
          BY <2>1, <2>2, Counting
    <2> QED BY <1>1, <1>4, <2>3
  <1>6. ASSUME NEW T \in SUBSET Clusters, d \in T, \A x \in T : Subdirs(x) \subseteq T
        PROVE  f[n - 1] \subseteq T
    <2> DEFINE S == {k \in Nat : k <= n => f[k] \subseteq T}
    <2>1. 0 \in S
          BY <1>2, <1>6
    <2>2. ASSUME NEW k \in Nat, k \in S PROVE k + 1 \in S
      <3> SUFFICES ASSUME k + 1 <= n PROVE f[k + 1] \subseteq T
          OBVIOUS
      <3>1. k + 1 \in 1..n /\ (k + 1) - 1 = k /\ f[k] \subseteq T
            BY <1>1, <2>2
      <3>2. f[k + 1] = Spread(f[k])
            BY <1>2, <3>1
      <3> QED BY <1>6, <3>1, <3>2 DEF Spread
    <2>3. Nat \subseteq S
          BY <2>1, <2>2, Counting
    <2> QED BY <1>1, <1>4, <2>3
  <1>7. Spread(f[n - 1]) \subseteq f[n - 1]
    <2> DEFINE Closed(k) == Spread(f[k]) \subseteq f[k]
               S == {k \in Nat : k <= n - 1 => Closed(k) \/ Cardinality(f[k]) >= k + 1}
    <2>0. \A k \in 0..n : f[k] \subseteq Clusters /\ IsFiniteSet(f[k]) /\ Cardinality(f[k]) \in Nat
          BY TreeAssumption, FS_Subset, FS_CardinalityType
    <2>1. 0 \in S
      <3>1. Cardinality(f[0]) = 1
            BY <1>2, FS_Singleton
      <3> QED BY <3>1
    <2>2. ASSUME NEW k \in Nat, k \in S PROVE k + 1 \in S
      <3> SUFFICES ASSUME k + 1 <= n - 1, ~Closed(k + 1)
                   PROVE  Cardinality(f[k + 1]) >= (k + 1) + 1
          OBVIOUS
      <3>1. k + 1 \in 1..n /\ (k + 1) - 1 = k /\ k <= n - 1 /\ k \in 0..n /\ k + 1 \in 0..n
            BY <1>1
      <3>2. f[k + 1] = Spread(f[k])
            BY <1>2, <3>1
      <3>3. ~Closed(k)
        <4> SUFFICES ASSUME Spread(f[k]) \subseteq f[k] PROVE FALSE
            OBVIOUS
        <4>1. f[k + 1] = f[k]
              BY <3>2 DEF Spread
        <4> QED BY <4>1
      <3>4. Cardinality(f[k]) >= k + 1
            BY <2>2, <3>1, <3>3
      <3>5. f[k] \in SUBSET f[k + 1] /\ f[k] # f[k + 1]
            BY <3>2, <3>3 DEF Spread
      <3> DEFINE a == Cardinality(f[k])
                 b == Cardinality(f[k + 1])
      <3>6. a <= b /\ a # b
            BY <2>0, <3>1, <3>5, FS_Subset
      <3>7. a \in Nat /\ b \in Nat /\ a >= k + 1
            BY <2>0, <3>1, <3>4
      <3> HIDE DEF a, b
      <3>8. b >= (k + 1) + 1
            BY <3>6, <3>7
      <3> QED BY <3>8 DEF b
    <2> HIDE DEF Closed
    <2>3. Nat \subseteq S
          BY <2>1, <2>2, Counting
    <2>4. Closed(n - 1) \/ Cardinality(f[n - 1]) >= n
      <3>1. n - 1 \in Nat /\ n - 1 <= n - 1 /\ (n - 1) + 1 = n
            BY <1>1, <1>3
      <3>2. n - 1 \in S
            BY <2>3, <3>1
      <3> QED BY <3>1, <3>2
    <2>5. CASE Cardinality(f[n - 1]) >= n
      <3>1. f[n - 1] \in SUBSET Clusters /\ Cardinality(f[n - 1]) \in Nat
            BY <1>4, <2>0
      <3>2. Cardinality(f[n - 1]) <= n /\ (n = Cardinality(f[n - 1]) => Clusters = f[n - 1])
            BY <3>1, TreeAssumption, FS_Subset
      <3>3. Clusters = f[n - 1]
            BY <1>1, <2>5, <3>1, <3>2
      <3> QED BY <3>3, SubdirsTyped DEF Spread
    <2> QED BY <2>4, <2>5 DEF Closed
  <1>8. \A x \in f[n - 1] : Subdirs(x) \subseteq f[n - 1]
        BY <1>7 DEF Spread
  <1> HIDE DEF n
  <1> QED BY <1>2, <1>4, <1>5, <1>6, <1>8 DEF DirsLeast

-----------------------------------------------------------------------------
(* The entries are a tree: no cluster has two entries, none has the root,  *)
(* what no path leads to is empty, and directories are nested.             *)
AllFirsts == UNION {Firsts(d) : d \in Clusters}
InTree == {Root} \cup AllFirsts

Apart ==
  \A d, e \in Clusters : \A n, m \in Names :
    Entry(d, n).first # 0 /\ Entry(d, n).first = Entry(e, m).first => d = e /\ n = m
BelowRoot == \A d \in Clusters : \A n \in Names : Entry(d, n).first # Root
OnlyReached == \A d \in Clusters \ DirsFrom(Root) : entries[d] = EmptyDir
RankedBy(rank) ==
  \A d \in Clusters : \A n \in Names :
    Entry(d, n).kind = "dir" => rank[d] < rank[Entry(d, n).first]
Forest ==
  /\ EntriesTyped /\ Apart /\ BelowRoot /\ OnlyReached
  /\ \E rank \in [Clusters -> Nat] : RankedBy(rank)

(* What a removal takes away: the entry's cluster and all below it.        *)
Inside(d, n) == IF Entry(d, n).kind = "dir" THEN Below(Entry(d, n).first) ELSE {}
Gone(d, n) == Inside(d, n) \cup {Entry(d, n).first}

LEMMA InFirsts ==
  ASSUME EntriesTyped, NEW d \in Clusters, NEW c
  PROVE  c \in Firsts(d) <=> c # 0 /\ \E n \in Names : Entry(d, n).first = c
  <1>1. \A n \in Names : Entry(d, n).kind = "absent" => Entry(d, n).first = 0
        BY EntryKinds
  <1> QED BY <1>1 DEF Firsts

LEMMA InSubdirs ==
  ASSUME EntriesTyped, NEW d \in Clusters, NEW c
  PROVE  c \in Subdirs(d) <=> \E n \in Names : Entry(d, n).kind = "dir" /\ Entry(d, n).first = c
  BY DEF Subdirs

LEMMA SubdirsInFirsts ==
  ASSUME EntriesTyped, NEW d \in Clusters
  PROVE  Subdirs(d) \subseteq Firsts(d)
  BY InSubdirs, InFirsts, EntryKinds

LEMMA FirstsTyped ==
  ASSUME EntriesTyped, NEW d \in Clusters
  PROVE  Firsts(d) \subseteq Clusters
  <1> SUFFICES ASSUME NEW n \in Names, Entry(d, n).first # 0 PROVE Entry(d, n).first \in Clusters
      BY InFirsts
  <1>1. Entry(d, n).kind \in {"file", "dir"}
        BY EntryKinds
  <1> QED BY <1>1, EntryKinds

LEMMA RootIsReached ==
  ASSUME EntriesTyped
  PROVE  Root \in Clusters /\ Root # 0 /\ Root \in DirsFrom(Root) /\ DirsFrom(Root) \subseteq Clusters
  BY TreeAssumption, DirsFromLeast DEF DirsLeast

LEMMA HasParent ==
  ASSUME EntriesTyped, NEW d \in Clusters, NEW x \in DirsFrom(d), x # d
  PROVE  \E y \in DirsFrom(d) : x \in Subdirs(y)
  <1> DEFINE S == {z \in DirsFrom(d) : z = d \/ \E y \in DirsFrom(d) : z \in Subdirs(y)}
  <1>1. DirsLeast(d)
        BY DirsFromLeast
  <1>2. S \in SUBSET Clusters /\ d \in S
        BY <1>1 DEF DirsLeast
  <1>3. \A z \in S : Subdirs(z) \subseteq S
        BY <1>1 DEF DirsLeast
  <1>4. DirsFrom(d) \subseteq S
        BY <1>1, <1>2, <1>3 DEF DirsLeast
  <1> QED BY <1>4

LEMMA BelowInAll ==
  ASSUME EntriesTyped, NEW d \in Clusters
  PROVE  Below(d) \subseteq AllFirsts /\ Below(d) \subseteq Clusters
  <1>1. DirsFrom(d) \subseteq Clusters
        BY DirsFromLeast DEF DirsLeast
  <1> QED BY <1>1, FirstsTyped DEF Below, AllFirsts

LEMMA BelowRootIsAll ==
  ASSUME Forest
  PROVE  Below(Root) = AllFirsts
  <1>1. EntriesTyped /\ Root \in Clusters
        BY TreeAssumption DEF Forest
  <1>2. ASSUME NEW c \in Clusters, NEW x \in Firsts(c) PROVE x \in Below(Root)
    <2>1. PICK n \in Names : Entry(c, n).first = x /\ x # 0
          BY <1>1, <1>2, InFirsts
    <2>2. c \in DirsFrom(Root)
      <3> SUFFICES ASSUME c \notin DirsFrom(Root) PROVE FALSE
          OBVIOUS
      <3>1. entries[c] = EmptyDir
            BY <1>2 DEF Forest, OnlyReached
      <3> QED BY <2>1, <3>1 DEF Entry, EmptyDir, Absent
    <2> QED BY <1>2, <2>2 DEF Below
  <1>3. AllFirsts \subseteq Below(Root)
        BY <1>2 DEF AllFirsts
  <1> QED BY <1>1, <1>3, BelowInAll

LEMMA BelowHasFirst ==
  ASSUME EntriesTyped, NEW d \in Clusters
  PROVE  DirsFrom(d) \subseteq {d} \cup Below(d)
  <1> SUFFICES ASSUME NEW x \in DirsFrom(d), x # d PROVE x \in Below(d)
      OBVIOUS
  <1>1. PICK y \in DirsFrom(d) : x \in Subdirs(y)
        BY HasParent
  <1>2. y \in Clusters
        BY DirsFromLeast DEF DirsLeast
  <1>3. x \in Firsts(y)
        BY <1>1, <1>2, SubdirsInFirsts
  <1> QED BY <1>1, <1>3 DEF Below

LEMMA FileHasNoEntries ==
  ASSUME Forest, NEW d \in Clusters, NEW n \in Names, Entry(d, n).kind = "file",
         Entry(d, n).first \in Clusters
  PROVE  Entry(d, n).first \notin DirsFrom(Root) /\ entries[Entry(d, n).first] = EmptyDir
  <1> DEFINE c == Entry(d, n).first
  <1>1. EntriesTyped /\ Root \in Clusters /\ c # Root /\ c # 0
        BY TreeAssumption DEF Forest, BelowRoot
  <1>2. c \notin DirsFrom(Root)
    <2> SUFFICES ASSUME c \in DirsFrom(Root) PROVE FALSE
        OBVIOUS
    <2>1. PICK y \in DirsFrom(Root) : c \in Subdirs(y)
          BY <1>1, HasParent
    <2>2. y \in Clusters
          BY <1>1, RootIsReached
    <2>3. PICK m \in Names : Entry(y, m).kind = "dir" /\ Entry(y, m).first = c
          BY <1>1, <2>1, <2>2, InSubdirs
    <2>4. d = y /\ n = m
          BY <1>1, <2>2, <2>3 DEF Forest, Apart
    <2> QED BY <2>3, <2>4
  <1> QED BY <1>2 DEF Forest, OnlyReached

LEMMA RankGrows ==
  ASSUME EntriesTyped, NEW rank \in [Clusters -> Nat], RankedBy(rank), NEW d \in Clusters
  PROVE  \A x \in DirsFrom(d) : rank[d] <= rank[x]
  <1> DEFINE S == {x \in DirsFrom(d) : rank[d] <= rank[x]}
  <1>1. DirsLeast(d)
        BY DirsFromLeast
  <1>2. S \in SUBSET Clusters /\ d \in S
        BY <1>1 DEF DirsLeast
  <1>3. ASSUME NEW z \in S, NEW c \in Subdirs(z) PROVE c \in S
    <2>1. z \in Clusters /\ c \in DirsFrom(d) /\ c \in Clusters
          BY <1>1, <1>2 DEF DirsLeast
    <2>2. rank[z] < rank[c]
          BY <2>1, InSubdirs DEF RankedBy
    <2>3. rank[z] \in Nat /\ rank[c] \in Nat /\ rank[d] \in Nat /\ rank[d] <= rank[z]
          BY <2>1
    <2> QED BY <2>1, <2>2, <2>3
  <1>4. DirsFrom(d) \subseteq S
        BY <1>1, <1>2, <1>3 DEF DirsLeast
  <1> QED BY <1>4

-----------------------------------------------------------------------------
(* The same facts about the state a step leads to.                         *)
TreeFacts ==
  /\ \A d \in Clusters : DirsLeast(d)
  /\ \A d \in Clusters : \A c : c \in Firsts(d) <=> c # 0 /\ \E n \in Names : Entry(d, n).first = c
  /\ \A d \in Clusters : \A c :
       c \in Subdirs(d) <=> \E n \in Names : Entry(d, n).kind = "dir" /\ Entry(d, n).first = c
  /\ \A d \in Clusters : Firsts(d) \subseteq Clusters /\ Subdirs(d) \subseteq Firsts(d)

LEMMA TreeFactsHold == EntriesTyped => TreeFacts
  BY DirsFromLeast, InFirsts, InSubdirs, FirstsTyped, SubdirsInFirsts DEF TreeFacts

LEMMA TreeFactsNext == EntriesTyped' => TreeFacts'
  BY TreeFactsHold, PTL

Slot(d, n, e) ==   \* the step writes that entry, nothing else
  /\ EntriesTyped'
  /\ \A x \in Clusters : \A m \in Names : Entry(x, m)' = IF x = d /\ m = n THEN e ELSE Entry(x, m)
  /\ \A x \in Clusters : x # d => entries'[x] = entries[x]

LEMMA AddsEntry ==
  ASSUME Forest, NEW d \in DirsFrom(Root), NEW n \in Names, NEW e \in Entries,
         Entry(d, n).kind # "dir", Entry(d, n).first = 0,
         e.first = 0 \/ e.first \notin InTree, Slot(d, n, e)
  PROVE  /\ Forest'
         /\ AllFirsts' = AllFirsts \cup ({e.first} \ {0})
         /\ DirsFrom(Root) \subseteq DirsFrom(Root)'
  <1> DEFINE c == e.first
             R == DirsFrom(Root)
             Q == DirsFrom(Root)'
  <1>1. /\ EntriesTyped /\ EntriesTyped' /\ TreeFacts /\ TreeFacts'
        /\ Root \in Clusters /\ d \in Clusters /\ R \subseteq Clusters
        BY TreeFactsHold, TreeFactsNext, RootIsReached DEF Forest, Slot
  <1>2. \A x \in Clusters : \A m \in Names :
          Entry(x, m)' = IF x = d /\ m = n THEN e ELSE Entry(x, m)
        BY DEF Slot
  <1>3. \A x \in Clusters : \A m \in Names : Entry(x, m).first # 0 => Entry(x, m).first \in AllFirsts
        BY <1>1 DEF AllFirsts, TreeFacts
  <1>4. c # 0 => c \notin AllFirsts /\ c # Root
        BY DEF InTree
  <1>5. e.kind = "dir" => c \in Clusters /\ c # 0
    <2>1. e.kind = "dir" => \E b \in Clusters : e = Dir(b)
          BY DEF Entries, Absent, File
    <2> QED BY <2>1, TreeAssumption DEF Dir
  <1>6. Apart'
    <2> SUFFICES ASSUME NEW x \in Clusters, NEW y \in Clusters, NEW m \in Names, NEW k \in Names,
                        Entry(x, m)'.first # 0, Entry(x, m)'.first = Entry(y, k)'.first
                 PROVE  x = y /\ m = k
        BY DEF Apart
    <2>1. CASE x = d /\ m = n
      <3>1. Entry(x, m)' = e /\ c # 0
            BY <1>2, <2>1
      <3>2. y = d /\ k = n
            BY <1>2, <1>3, <1>4, <3>1
      <3> QED BY <2>1, <3>2
    <2>2. CASE ~(x = d /\ m = n)
      <3>1. Entry(x, m)' = Entry(x, m)
            BY <1>2, <2>2
      <3>2. ~(y = d /\ k = n)
            BY <1>2, <1>3, <1>4, <3>1
      <3>3. Entry(y, k)' = Entry(y, k)
            BY <1>2, <3>2
      <3> QED BY <3>1, <3>3 DEF Forest, Apart
    <2> QED BY <2>1, <2>2
  <1>7. BelowRoot'
    <2> SUFFICES ASSUME NEW x \in Clusters, NEW m \in Names PROVE Entry(x, m)'.first # Root
        BY DEF BelowRoot
    <2>1. Root # 0
          BY TreeAssumption
    <2> QED BY <1>2, <1>4, <2>1 DEF Forest, BelowRoot
  <1>8. R \subseteq Q
    <2>1. Root \in Q /\ Q \subseteq Clusters /\ \A x \in Q : Subdirs(x)' \subseteq Q
          BY <1>1 DEF TreeFacts, DirsLeast
    <2>2. \A x \in Clusters : Subdirs(x) \subseteq Subdirs(x)'
          BY <1>1, <1>2 DEF TreeFacts
    <2>3. \A x \in Q : Subdirs(x) \subseteq Q
          BY <2>1, <2>2
    <2> HIDE DEF Q
    <2> QED BY <1>1, <2>1, <2>3 DEF TreeFacts, DirsLeast
  <1>9. OnlyReached'
    <2> SUFFICES ASSUME NEW x \in Clusters, x \notin Q PROVE entries'[x] = EmptyDir
        BY DEF OnlyReached, EmptyDir, Absent
    <2>1. x \notin R /\ x # d
          BY <1>8
    <2> QED BY <2>1 DEF Forest, OnlyReached, Slot
  <1>10. \E rank \in [Clusters -> Nat] : RankedBy(rank)'
    <2>1. PICK rank \in [Clusters -> Nat] : RankedBy(rank)
          BY DEF Forest
    <2>2. CASE e.kind # "dir"
      <3>1. RankedBy(rank)'
            BY <1>2, <2>1, <2>2 DEF RankedBy
      <3> QED BY <3>1
    <2>3. CASE e.kind = "dir"
      <3>1. c \in Clusters /\ c # 0 /\ c # Root /\ c \notin AllFirsts
            BY <1>4, <1>5, <2>3
      <3>2. c \notin R
        <4> SUFFICES ASSUME c \in R PROVE FALSE
            OBVIOUS
        <4>1. PICK y \in R : c \in Subdirs(y)
              BY <1>1, <3>1, HasParent
        <4>2. c \in AllFirsts
              BY <1>1, <4>1 DEF TreeFacts, AllFirsts
        <4> QED BY <3>1, <4>2
      <3>3. \A m \in Names : Entry(c, m).kind # "dir"
            BY <3>1, <3>2 DEF Forest, OnlyReached, Entry, EmptyDir, Absent
      <3> DEFINE rank2 == [rank EXCEPT ![c] = rank[d] + 1]
      <3>4. rank2 \in [Clusters -> Nat]
        <4>1. rank[d] + 1 \in Nat
              BY <1>1
        <4> QED BY <4>1
      <3>5. ASSUME NEW x \in Clusters, NEW m \in Names, Entry(x, m)'.kind = "dir"
            PROVE  rank2[x] < rank2[Entry(x, m)'.first]
        <4>1. CASE x = d /\ m = n
          <5>1. d # c /\ Entry(x, m)' = e
                BY <1>2, <3>2, <4>1
          <5>2. rank2[d] = rank[d] /\ rank2[c] = rank[d] + 1 /\ rank[d] \in Nat
                BY <1>1, <3>1, <5>1
          <5> QED BY <4>1, <5>1, <5>2
        <4>2. CASE ~(x = d /\ m = n)
          <5>1. Entry(x, m)' = Entry(x, m)
                BY <1>2, <4>2
          <5> DEFINE b == Entry(x, m).first
          <5>2. b \in Clusters /\ b \in AllFirsts
                BY <1>1, <1>3, <3>5, <5>1, EntryKinds
          <5>3. x # c /\ b # c
                BY <3>1, <3>3, <3>5, <5>1, <5>2
          <5>4. rank[x] < rank[b]
                BY <2>1, <3>5, <5>1 DEF RankedBy
          <5> HIDE DEF b
          <5>5. rank2[x] = rank[x] /\ rank2[b] = rank[b]
                BY <5>2, <5>3
          <5> QED BY <5>1, <5>4, <5>5 DEF b
        <4> QED BY <4>1, <4>2
      <3> HIDE DEF rank2
      <3>6. RankedBy(rank2)'
            BY <3>5 DEF RankedBy
      <3> QED BY <3>4, <3>6
    <2> QED BY <2>2, <2>3
  <1>11. AllFirsts' = AllFirsts \cup ({c} \ {0})
    <2>1. ASSUME NEW x, x \in AllFirsts' PROVE x \in AllFirsts \cup ({c} \ {0})
      <3>1. PICK y \in Clusters : x \in Firsts(y)'
            BY <2>1 DEF AllFirsts
      <3>2. PICK m \in Names : Entry(y, m)'.first = x /\ x # 0
            BY <1>1, <3>1 DEF TreeFacts
      <3> QED BY <1>2, <1>3, <3>2
    <2>2. ASSUME NEW x, x \in AllFirsts PROVE x \in AllFirsts'
      <3>1. PICK y \in Clusters : x \in Firsts(y)
            BY <2>2 DEF AllFirsts
      <3>2. PICK m \in Names : Entry(y, m).first = x /\ x # 0
            BY <1>1, <3>1 DEF TreeFacts
      <3>3. Entry(y, m)'.first = x
            BY <1>2, <3>2
      <3>4. x \in Firsts(y)'
            BY <1>1, <3>2, <3>3 DEF TreeFacts
      <3> QED BY <3>4 DEF AllFirsts
    <2>3. c # 0 => c \in AllFirsts'
      <3> SUFFICES ASSUME c # 0 PROVE c \in AllFirsts'
          OBVIOUS
      <3>1. Entry(d, n)'.first = c
            BY <1>1, <1>2
      <3>2. c \in Firsts(d)'
            BY <1>1, <3>1 DEF TreeFacts
      <3> QED BY <1>1, <3>2 DEF AllFirsts
    <2> QED BY <2>1, <2>2, <2>3
  <1>12. Forest'
         BY <1>1, <1>6, <1>7, <1>9, <1>10 DEF Forest
  <1> QED BY <1>8, <1>11, <1>12

LEMMA GoneFacts ==
  ASSUME Forest, NEW d \in DirsFrom(Root), NEW n \in Names, Entry(d, n) # Absent
  PROVE  /\ Gone(d, n) \subseteq Clusters \cup {0} /\ Root \notin Gone(d, n) /\ d \notin Gone(d, n)
         /\ \A x \in Clusters : x \in Gone(d, n) => Firsts(x) \subseteq Gone(d, n)
         /\ \A x \in Clusters : \A m \in Names :
              Entry(x, m).first # 0 /\ Entry(x, m).first \in Gone(d, n)
              => x \in Gone(d, n) \/ (x = d /\ m = n)
         /\ Inside(d, n) \subseteq AllFirsts /\ Inside(d, n) \subseteq Clusters
         /\ Entry(d, n).first \notin Inside(d, n)
  <1> DEFINE f == Entry(d, n).first
             R == DirsFrom(Root)
  <1>1. /\ EntriesTyped /\ TreeFacts /\ Root \in Clusters /\ Root # 0 /\ 0 \notin Clusters
        /\ R \subseteq Clusters /\ d \in Clusters
        BY TreeFactsHold, RootIsReached, TreeAssumption DEF Forest
  <1>2. /\ f \in Clusters \cup {0} /\ f # Root
        /\ Entry(d, n).kind \in {"file", "dir"} /\ (Entry(d, n).kind = "dir" => f \in Clusters)
        BY <1>1, EntryKinds DEF Forest, BelowRoot
  <1>3. CASE Entry(d, n).kind = "file"
    <2>1. Gone(d, n) = {f} /\ Inside(d, n) = {}
          BY <1>3 DEF Gone, Inside
    <2>2. f \in Clusters => f \notin R /\ entries[f] = EmptyDir
          BY <1>1, <1>3, FileHasNoEntries
    <2>3. f \in Clusters => Firsts(f) = {}
      <3>1. f \in Clusters => \A m \in Names : Entry(f, m).first = 0
            BY <2>2 DEF Entry, EmptyDir, Absent
      <3> QED BY <1>1, <3>1 DEF TreeFacts
    <2>4. d # f
          BY <1>1, <2>2
    <2>5. \A x \in Clusters : \A m \in Names :
            Entry(x, m).first # 0 /\ Entry(x, m).first = f => x = d /\ m = n
          BY <1>1 DEF Forest, Apart
    <2> QED BY <1>1, <1>2, <2>1, <2>3, <2>4, <2>5
  <1>4. CASE Entry(d, n).kind = "dir"
    <2> DEFINE D == DirsFrom(f)
    <2>1. /\ Inside(d, n) = Below(f) /\ Gone(d, n) = Below(f) \cup {f} /\ f \in Clusters /\ f # 0
          BY <1>1, <1>2, <1>4 DEF Gone, Inside
    <2>2. D \subseteq Clusters /\ f \in D /\ \A x \in D : Subdirs(x) \subseteq D
          BY <1>1, <2>1 DEF TreeFacts, DirsLeast
    <2>3. D \subseteq Gone(d, n)
          BY <1>1, <2>1, BelowHasFirst
    <2>4. \A x : x \in Below(f) <=> \E y \in D : x \in Firsts(y)
          BY DEF Below
    <2>5. Below(f) \subseteq Clusters /\ Below(f) \subseteq AllFirsts
          BY <1>1, <2>1, BelowInAll
    <2>6. d \notin D
      <3>1. PICK rank \in [Clusters -> Nat] : RankedBy(rank)
            BY DEF Forest
      <3>2. rank[d] < rank[f] /\ rank[d] \in Nat /\ rank[f] \in Nat
            BY <1>1, <1>4, <2>1, <3>1 DEF RankedBy
      <3>3. d \in D => rank[f] <= rank[d]
            BY <1>1, <2>1, <3>1, RankGrows
      <3> QED BY <3>2, <3>3
    <2>7. ASSUME NEW x \in Clusters, NEW m \in Names, Entry(x, m).first \in Below(f)
          PROVE  x \in D
      <3>1. PICK y \in D : Entry(x, m).first \in Firsts(y)
            BY <2>4, <2>7
      <3>2. PICK k \in Names : Entry(y, k).first = Entry(x, m).first /\ Entry(x, m).first # 0
            BY <1>1, <2>2, <3>1 DEF TreeFacts
      <3>3. x = y
            BY <2>2, <3>2 DEF Forest, Apart
      <3> QED BY <3>3
    <2>8. f \notin Below(f)
          BY <1>1, <2>6, <2>7
    <2>9. d \notin Gone(d, n)
      <3> SUFFICES ASSUME d \in Gone(d, n) PROVE FALSE
          OBVIOUS
      <3>1. d \in Below(f) /\ d # Root
        <4>1. d # f
              BY <2>2, <2>6
        <4>2. d \in Below(f)
              BY <2>1, <4>1
        <4>3. Root \notin Below(f)
              BY <1>1, <2>2, <2>4 DEF Forest, BelowRoot, TreeFacts
        <4> QED BY <4>2, <4>3
      <3>2. PICK y \in R : d \in Subdirs(y)
            BY <1>1, <3>1, HasParent
      <3>3. PICK m \in Names : Entry(y, m).kind = "dir" /\ Entry(y, m).first = d
            BY <1>1, <3>2 DEF TreeFacts
      <3>4. y \in D
            BY <1>1, <2>7, <3>1, <3>3
      <3> QED BY <2>2, <2>6, <3>2, <3>4
    <2>10. Root \notin Gone(d, n)
      <3>1. Root \notin Below(f)
            BY <1>1, <2>2, <2>4 DEF Forest, BelowRoot, TreeFacts
      <3> QED BY <1>2, <2>1, <3>1
    <2>11. ASSUME NEW x \in Clusters, x \in Gone(d, n) PROVE Firsts(x) \subseteq Gone(d, n)
      <3>1. CASE x \in D
            BY <2>1, <2>4, <3>1
      <3>2. CASE x \notin D
        <4>1. x \in Below(f)
              BY <2>1, <2>2, <2>11, <3>2
        <4>2. PICK y \in D : x \in Firsts(y)
              BY <2>4, <4>1
        <4>3. PICK k \in Names : Entry(y, k).first = x
              BY <1>1, <2>2, <4>2 DEF TreeFacts
        <4>4. Entry(y, k).kind # "dir"
              BY <1>1, <2>2, <3>2, <4>3 DEF TreeFacts
        <4>5. Entry(y, k).kind = "file"
          <5>1. Entry(y, k).first # 0 /\ y \in Clusters
                BY <1>1, <2>2, <4>3
          <5>2. Entry(y, k).kind # "absent"
                BY <1>1, <5>1, EntryKinds
          <5> QED BY <1>1, <4>4, <5>1, <5>2, EntryKinds
        <4>6. entries[x] = EmptyDir
              BY <2>2, <4>3, <4>5, FileHasNoEntries
        <4>7. \A m \in Names : Entry(x, m).first = 0
              BY <4>6 DEF Entry, EmptyDir, Absent
        <4> QED BY <1>1, <4>7 DEF TreeFacts
      <3> QED BY <3>1, <3>2
    <2>12. ASSUME NEW x \in Clusters, NEW m \in Names, Entry(x, m).first # 0,
                  Entry(x, m).first \in Gone(d, n)
           PROVE  x \in Gone(d, n) \/ (x = d /\ m = n)
      <3>1. CASE Entry(x, m).first \in Below(f)
            BY <2>3, <2>7, <3>1
      <3>2. CASE Entry(x, m).first = f
            BY <1>1, <2>1, <3>2 DEF Forest, Apart
      <3> QED BY <2>1, <2>12, <3>1, <3>2
    <2> QED BY <2>1, <2>5, <2>8, <2>9, <2>10, <2>11, <2>12
  <1> QED BY <1>2, <1>3, <1>4

(* The step deletes an entry, and forgets what is in the clusters of G.    *)
Cut(d, n, G) ==
  /\ EntriesTyped'
  /\ \A x \in Clusters : x \in G => entries'[x] = EmptyDir
  /\ \A x \in Clusters : x \notin G /\ x # d => entries'[x] = entries[x]
  /\ \A x \in Clusters : \A m \in Names :
       x \notin G => Entry(x, m)' = IF x = d /\ m = n THEN Absent ELSE Entry(x, m)

LEMMA DropsEntry ==
  ASSUME Forest, NEW d \in DirsFrom(Root), NEW n \in Names, Entry(d, n) # Absent,
         Cut(d, n, Gone(d, n))
  PROVE  /\ Forest'
         /\ AllFirsts' = AllFirsts \ Gone(d, n)
         /\ DirsFrom(Root) \ Gone(d, n) \subseteq DirsFrom(Root)'
  <1> DEFINE G == Gone(d, n)
             f == Entry(d, n).first
             R == DirsFrom(Root)
             Q == DirsFrom(Root)'
  <1>1. /\ EntriesTyped /\ EntriesTyped' /\ TreeFacts /\ TreeFacts'
        /\ Root \in Clusters /\ Root # 0 /\ d \in Clusters /\ R \subseteq Clusters
        BY TreeFactsHold, TreeFactsNext, RootIsReached DEF Forest, Cut
  <1>2. /\ G \subseteq Clusters \cup {0} /\ Root \notin G /\ d \notin G /\ f \in G
        /\ \A x \in Clusters : x \in G => Firsts(x) \subseteq G
        /\ \A x \in Clusters : \A m \in Names :
             Entry(x, m).first # 0 /\ Entry(x, m).first \in G => x \in G \/ (x = d /\ m = n)
        BY GoneFacts DEF Gone
  <1>3. /\ \A x \in Clusters : x \in G => entries'[x] = EmptyDir
        /\ \A x \in Clusters : x \notin G /\ x # d => entries'[x] = entries[x]
        /\ \A x \in Clusters : \A m \in Names :
             x \notin G => Entry(x, m)' = IF x = d /\ m = n THEN Absent ELSE Entry(x, m)
        BY DEF Cut
  <1> HIDE DEF G, Q
  <1>4. \A x \in Clusters : \A m \in Names : x \in G => Entry(x, m)' = Absent
        BY <1>3 DEF Entry, EmptyDir
  <1>5. \A x \in Clusters : \A m \in Names :
          \/ Entry(x, m)' = Absent
          \/ Entry(x, m)' = Entry(x, m) /\ x \notin G /\ ~(x = d /\ m = n)
        BY <1>3, <1>4
  <1>6. Absent.first = 0 /\ Absent.kind = "absent"
        BY DEF Absent
  <1>7. Apart'
    <2> SUFFICES ASSUME NEW x \in Clusters, NEW y \in Clusters, NEW m \in Names, NEW k \in Names,
                        Entry(x, m)'.first # 0, Entry(x, m)'.first = Entry(y, k)'.first
                 PROVE  x = y /\ m = k
        BY DEF Apart
    <2>1. Entry(x, m)' = Entry(x, m) /\ Entry(y, k)' = Entry(y, k)
          BY <1>5, <1>6
    <2> QED BY <2>1 DEF Forest, Apart
  <1>8. BelowRoot'
    <2> SUFFICES ASSUME NEW x \in Clusters, NEW m \in Names PROVE Entry(x, m)'.first # Root
        BY DEF BelowRoot
    <2> QED BY <1>1, <1>5, <1>6 DEF Forest, BelowRoot
  <1>9. R \ G \subseteq Q
    <2>1. Root \in Q /\ Q \subseteq Clusters /\ \A x \in Q : Subdirs(x)' \subseteq Q
          BY <1>1 DEF TreeFacts, DirsLeast, Q
    <2> DEFINE S == Q \cup (G \cap Clusters)
    <2>2. ASSUME NEW x \in S, NEW b \in Subdirs(x) PROVE b \in S
      <3>1. x \in Clusters
            BY <2>1
      <3>2. PICK m \in Names : Entry(x, m).kind = "dir" /\ Entry(x, m).first = b
            BY <1>1, <2>2, <3>1 DEF TreeFacts
      <3>3. b \in Clusters /\ b \in Firsts(x)
            BY <1>1, <2>2, <3>1 DEF TreeFacts
      <3>4. CASE x \in G
            BY <1>2, <3>1, <3>3, <3>4
      <3>5. CASE x \notin G /\ x = d /\ m = n
            BY <1>2, <3>2, <3>3, <3>5
      <3>6. CASE x \notin G /\ ~(x = d /\ m = n)
        <4>1. Entry(x, m)' = Entry(x, m) /\ x \in Q
              BY <1>3, <3>1, <3>6
        <4>2. b \in Subdirs(x)'
              BY <1>1, <3>1, <3>2, <4>1 DEF TreeFacts
        <4> QED BY <2>1, <4>1, <4>2
      <3> QED BY <3>4, <3>5, <3>6
    <2>3. S \in SUBSET Clusters /\ Root \in S
          BY <2>1
    <2> HIDE DEF S
    <2>4. R \subseteq S
          BY <1>1, <2>2, <2>3 DEF TreeFacts, DirsLeast
    <2> QED BY <2>4 DEF S
  <1>10. OnlyReached'
    <2> SUFFICES ASSUME NEW x \in Clusters, x \notin Q PROVE entries'[x] = EmptyDir
        BY DEF OnlyReached, EmptyDir, Absent, Q
    <2>1. CASE x \in G
          BY <1>3, <2>1
    <2>2. CASE x \notin G
      <3>1. x \notin R /\ x # d
            BY <1>2, <1>9, <2>2
      <3> QED BY <1>3, <2>2, <3>1 DEF Forest, OnlyReached
    <2> QED BY <2>1, <2>2
  <1>11. \E rank \in [Clusters -> Nat] : RankedBy(rank)'
    <2>1. PICK rank \in [Clusters -> Nat] : RankedBy(rank)
          BY DEF Forest
    <2>2. RankedBy(rank)'
          BY <1>5, <1>6, <2>1 DEF RankedBy
    <2> QED BY <2>2
  <1>12. AllFirsts' = AllFirsts \ G
    <2>1. ASSUME NEW x, x \in AllFirsts' PROVE x \in AllFirsts \ G
      <3>1. PICK y \in Clusters : x \in Firsts(y)'
            BY <2>1 DEF AllFirsts
      <3>2. PICK m \in Names : Entry(y, m)'.first = x /\ x # 0
            BY <1>1, <3>1 DEF TreeFacts
      <3>3. Entry(y, m) = Entry(y, m)' /\ y \notin G /\ ~(y = d /\ m = n)
            BY <1>5, <1>6, <3>2
      <3>4. x \notin G
            BY <1>2, <3>2, <3>3
      <3>5. x \in Firsts(y)
            BY <1>1, <3>2, <3>3 DEF TreeFacts
      <3> QED BY <3>4, <3>5 DEF AllFirsts
    <2>2. ASSUME NEW x, x \in AllFirsts, x \notin G PROVE x \in AllFirsts'
      <3>1. PICK y \in Clusters : x \in Firsts(y)
            BY <2>2 DEF AllFirsts
      <3>2. PICK m \in Names : Entry(y, m).first = x /\ x # 0
            BY <1>1, <3>1 DEF TreeFacts
      <3>3. y \notin G
            BY <1>2, <2>2, <3>1
      <3>4. ~(y = d /\ m = n)
            BY <1>2, <2>2, <3>2
      <3>5. Entry(y, m)' = Entry(y, m)
            BY <1>3, <3>3, <3>4
      <3>6. x \in Firsts(y)'
            BY <1>1, <3>2, <3>5 DEF TreeFacts
      <3> QED BY <3>6 DEF AllFirsts
    <2> QED BY <2>1, <2>2
  <1>13. Forest'
         BY <1>1, <1>7, <1>8, <1>10, <1>11 DEF Forest
  <1> QED BY <1>9, <1>12, <1>13 DEF G, Q

-----------------------------------------------------------------------------
(* Paths: what resolving and normalizing compute, name by name.            *)
Part == Names \cup {".", ".."}

Walks(at, absolute, parts) ==
  /\ at[0] = (IF absolute THEN Root ELSE cwd)
  /\ \A i \in 1..Len(parts) : at[i] = Enter(at[i - 1], parts[i])
  /\ Resolve(absolute, parts) = at[Len(parts)]
ResolvesIn(V, absolute, parts) ==
  \E at \in [0..Len(parts) -> V] : Walks(at, absolute, parts)

LEMMA ResolveWalks ==
  ASSUME NEW V, NEW P, NEW absolute \in BOOLEAN, NEW parts \in Seq(P),
         (IF absolute THEN Root ELSE cwd) \in V,
         \A x \in V : \A p \in P : Enter(x, p) \in V
  PROVE  ResolvesIn(V, absolute, parts)
  <1> DEFINE n == Len(parts)
             b == IF absolute THEN Root ELSE cwd
             g == [i \in 1..n |-> [x \in V |-> Enter(x, parts[i])]]
             Again(f) == [i \in 0..n |-> IF i = 0 THEN b ELSE Enter(f[i - 1], parts[i])]
             f0 == CHOOSE f : f = Again(f)
  <1>1. n \in Nat /\ b \in V /\ \A i \in 1..n : parts[i] \in P
        OBVIOUS
  <1>2. g \in [1..n -> [V -> V]]
        BY <1>1
  <1>3. Resolve(absolute, parts) = f0[n]
        BY DEF Resolve
  <1>4. \A i \in 1..n : \A x \in V : g[i][x] = Enter(x, parts[i])
        OBVIOUS
  <1> HIDE DEF n, b, g
  <1>5. PICK w \in [0..n -> V] : w[0] = b /\ \A i \in 1..n : w[i] = g[i][w[i - 1]]
    <2>1. Recurses(V, b, n, g)
          BY <1>1, <1>2, Recursion
    <2> QED BY <2>1 DEF Recurses
  <1>6. \A i \in 1..n : w[i] = Enter(w[i - 1], parts[i])
    <2> SUFFICES ASSUME NEW i \in 1..n PROVE w[i] = Enter(w[i - 1], parts[i])
        OBVIOUS
    <2>1. i - 1 \in 0..n
          BY <1>1
    <2> QED BY <1>4, <1>5, <2>1
  <1>7. w = Again(w)
    <2>1. \A i \in 0..n : i # 0 => i \in 1..n
          BY <1>1
    <2>2. \A i \in 0..n : w[i] = IF i = 0 THEN b ELSE Enter(w[i - 1], parts[i])
          BY <1>5, <1>6, <2>1
    <2> QED BY <2>2
  <1>8. f0 = Again(f0)
        BY <1>7
  <1> HIDE DEF f0
  <1>9. /\ f0 = [i \in 0..n |-> f0[i]] /\ f0[0] = b
        /\ \A i \in 1..n : f0[i] = Enter(f0[i - 1], parts[i])
    <2>1. DOMAIN f0 = 0..n
          /\ \A i \in 0..n : f0[i] = IF i = 0 THEN b ELSE Enter(f0[i - 1], parts[i])
          BY <1>8
    <2>2. 0 \in 0..n /\ \A i \in 1..n : i \in 0..n /\ i # 0
          BY <1>1
    <2>3. f0 = [i \in 0..n |-> f0[i]]
          BY <1>8, <2>1
    <2> QED BY <2>1, <2>2, <2>3
  <1>10. \A i \in 0..n : f0[i] \in V
    <2> DEFINE S == {k \in Nat : k <= n => f0[k] \in V}
    <2>1. 0 \in S
          BY <1>1, <1>9
    <2>2. ASSUME NEW k \in Nat, k \in S PROVE k + 1 \in S
      <3> SUFFICES ASSUME k + 1 <= n PROVE f0[k + 1] \in V
          OBVIOUS
      <3>1. k + 1 \in 1..n /\ (k + 1) - 1 = k /\ f0[k] \in V
            BY <1>1, <2>2
      <3> QED BY <1>1, <1>9, <3>1
    <2>3. Nat \subseteq S
          BY <2>1, <2>2, Counting
    <2> QED BY <1>1, <2>3
  <1>11. f0 \in [0..n -> V]
         BY <1>9, <1>10
  <1>12. Walks(f0, absolute, parts)
         BY <1>3, <1>9 DEF Walks, b, n
  <1> QED BY <1>11, <1>12 DEF ResolvesIn, n

NormalizesBy(t, parts) ==
  /\ t[0] = <<>>
  /\ \A i \in 1..Len(parts) : t[i] = With(t[i - 1], parts[i])
  /\ Normalized(parts) = t[Len(parts)]

LEMMA WithTyped ==
  ASSUME NEW s \in Seq(Names), NEW p \in Part
  PROVE  With(s, p) \in Seq(Names)
  <1>1. s # <<>> => Front(s) \in Seq(Names)
    <2> SUFFICES ASSUME s # <<>> PROVE SubSeq(s, 1, Len(s) - 1) \in Seq(Names)
        BY DEF Front
    <2>1. Len(s) \in Nat /\ Len(s) # 0
          BY EmptySeq
    <2> QED BY <2>1
  <1>2. CASE p = "."
        BY <1>2 DEF With
  <1>3. CASE p = ".."
        BY <1>1, <1>3 DEF With
  <1>4. CASE p # "." /\ p # ".."
    <2>1. p \in Names /\ With(s, p) = Append(s, p)
          BY <1>4 DEF With, Part
    <2> QED BY <2>1
  <1> QED BY <1>2, <1>3, <1>4

LEMMA NormalizedBy ==
  ASSUME NEW parts \in Seq(Part)
  PROVE  \E t \in [0..Len(parts) -> Seq(Names)] : NormalizesBy(t, parts)
  <1> DEFINE n == Len(parts)
             V == Seq(Names)
             g == [i \in 1..n |-> [s \in V |-> With(s, parts[i])]]
             Again(f) == [i \in 0..n |-> IF i = 0 THEN <<>> ELSE With(f[i - 1], parts[i])]
             f0 == CHOOSE f : f = Again(f)
  <1>1. n \in Nat /\ <<>> \in V /\ \A i \in 1..n : parts[i] \in Part
        OBVIOUS
  <1>2. \A s \in V : \A p \in Part : With(s, p) \in V
        BY WithTyped
  <1>3. Normalized(parts) = f0[n]
        BY DEF Normalized
  <1> HIDE DEF n, V
  <1>4. g \in [1..n -> [V -> V]] /\ \A i \in 1..n : \A s \in V : g[i][s] = With(s, parts[i])
        BY <1>1, <1>2
  <1> HIDE DEF g
  <1>5. PICK w \in [0..n -> V] : w[0] = <<>> /\ \A i \in 1..n : w[i] = g[i][w[i - 1]]
    <2>1. Recurses(V, <<>>, n, g)
          BY <1>1, <1>4, Recursion
    <2> QED BY <2>1 DEF Recurses
  <1>6. \A i \in 1..n : w[i] = With(w[i - 1], parts[i])
    <2> SUFFICES ASSUME NEW i \in 1..n PROVE w[i] = With(w[i - 1], parts[i])
        OBVIOUS
    <2>1. i - 1 \in 0..n
          BY <1>1
    <2> QED BY <1>4, <1>5, <2>1
  <1>7. w = Again(w)
    <2>1. \A i \in 0..n : i # 0 => i \in 1..n
          BY <1>1
    <2>2. \A i \in 0..n : w[i] = IF i = 0 THEN <<>> ELSE With(w[i - 1], parts[i])
          BY <1>5, <1>6, <2>1
    <2> QED BY <2>2
  <1>8. f0 = Again(f0)
        BY <1>7
  <1> HIDE DEF f0
  <1>9. /\ f0 = [i \in 0..n |-> f0[i]] /\ f0[0] = <<>>
        /\ \A i \in 1..n : f0[i] = With(f0[i - 1], parts[i])
    <2>1. DOMAIN f0 = 0..n
          /\ \A i \in 0..n : f0[i] = IF i = 0 THEN <<>> ELSE With(f0[i - 1], parts[i])
          BY <1>8
    <2>2. 0 \in 0..n /\ \A i \in 1..n : i \in 0..n /\ i # 0
          BY <1>1
    <2>3. f0 = [i \in 0..n |-> f0[i]]
          BY <1>8, <2>1
    <2> QED BY <2>1, <2>2, <2>3
  <1>10. \A i \in 0..n : f0[i] \in V
    <2> DEFINE S == {k \in Nat : k <= n => f0[k] \in V}
    <2>1. 0 \in S
          BY <1>1, <1>9
    <2>2. ASSUME NEW k \in Nat, k \in S PROVE k + 1 \in S
      <3> SUFFICES ASSUME k + 1 <= n PROVE f0[k + 1] \in V
          OBVIOUS
      <3>1. k + 1 \in 1..n /\ (k + 1) - 1 = k /\ f0[k] \in V
            BY <1>1, <2>2
      <3> QED BY <1>1, <1>2, <1>9, <3>1
    <2>3. Nat \subseteq S
          BY <2>1, <2>2, Counting
    <2> QED BY <1>1, <2>3
  <1>11. f0 \in [0..n -> V]
         BY <1>9, <1>10
  <1>12. NormalizesBy(f0, parts)
         BY <1>3, <1>9 DEF NormalizesBy, n
  <1> QED BY <1>11, <1>12 DEF n, V

LEMMA NormalizedTyped ==
  ASSUME NEW parts \in Seq(Part)
  PROVE  Normalized(parts) \in Seq(Names)
  <1>1. PICK t \in [0..Len(parts) -> Seq(Names)] : NormalizesBy(t, parts)
        BY NormalizedBy
  <1>2. Len(parts) \in 0..Len(parts)
        OBVIOUS
  <1> QED BY <1>1, <1>2 DEF NormalizesBy

-----------------------------------------------------------------------------
(* Where paths lead to: to a directory of the tree, or nowhere.            *)
Linked ==   \* every ".." names the directory the entry is in
  \A d \in Clusters : \A n \in Names :
    Entry(d, n).kind = "dir" => dotdot[Entry(d, n).first] = d

LEMMA EnterStays ==
  ASSUME Forest, Linked, NEW x \in DirsFrom(Root) \cup {Invalid}, NEW p \in Part
  PROVE  Enter(x, p) \in DirsFrom(Root) \cup {Invalid}
  <1> DEFINE R == DirsFrom(Root)
  <1>1. /\ EntriesTyped /\ TreeFacts /\ Root \in R /\ Root \in Clusters
        /\ R \subseteq Clusters /\ Invalid \notin Clusters
        BY TreeFactsHold, RootIsReached, TreeAssumption DEF Forest, Invalid
  <1>2. CASE x = Invalid
        BY <1>2 DEF Enter
  <1>3. CASE x \in R /\ p = "."
        BY <1>1, <1>3 DEF Enter
  <1>4. CASE x \in R /\ p = ".."
    <2>1. Enter(x, p) = Parent(x)
          BY <1>1, <1>4 DEF Enter
    <2>2. CASE x = Root
          BY <2>1, <2>2, <1>1 DEF Parent
    <2>3. CASE x # Root
      <3>1. PICK y \in R : x \in Subdirs(y)
            BY <1>1, <1>4, <2>3, HasParent
      <3>2. PICK n \in Names : Entry(y, n).kind = "dir" /\ Entry(y, n).first = x
            BY <1>1, <3>1 DEF TreeFacts
      <3>3. dotdot[x] = y
            BY <1>1, <3>1, <3>2 DEF Linked
      <3> QED BY <2>1, <2>3, <3>3 DEF Parent
    <2> QED BY <2>2, <2>3
  <1>5. CASE x \in R /\ p \notin {".", ".."}
    <2>1. /\ p \in Names
          /\ Enter(x, p) = IF Entry(x, p).kind = "dir" THEN Entry(x, p).first ELSE Invalid
          BY <1>1, <1>5 DEF Enter, Part
    <2>2. Entry(x, p).kind = "dir" => Entry(x, p).first \in Subdirs(x)
          BY <1>1, <1>5, <2>1 DEF TreeFacts
    <2>3. Subdirs(x) \subseteq R
          BY <1>1, <1>5 DEF TreeFacts, DirsLeast
    <2> QED BY <2>1, <2>2, <2>3
  <1> QED BY <1>2, <1>3, <1>4, <1>5

LEMMA ResolveStays ==
  ASSUME Forest, Linked, cwd \in DirsFrom(Root),
         NEW absolute \in BOOLEAN, NEW parts \in Seq(Part)
  PROVE  Resolve(absolute, parts) \in DirsFrom(Root) \cup {Invalid}
  <1> DEFINE V == DirsFrom(Root) \cup {Invalid}
  <1>1. (IF absolute THEN Root ELSE cwd) \in V
        BY RootIsReached DEF Forest
  <1>2. \A x \in V : \A p \in Part : Enter(x, p) \in V
        BY EnterStays
  <1> HIDE DEF V
  <1>3. ResolvesIn(V, absolute, parts)
        BY <1>1, <1>2, ResolveWalks
  <1>4. PICK at \in [0..Len(parts) -> V] : Walks(at, absolute, parts)
        BY <1>3 DEF ResolvesIn
  <1>5. Len(parts) \in 0..Len(parts)
        OBVIOUS
  <1>6. at[Len(parts)] \in V
        BY <1>4, <1>5
  <1> QED BY <1>4, <1>6 DEF Walks, V

LEMMA TargetStays ==
  ASSUME Forest, Linked, cwd \in DirsFrom(Root),
         NEW absolute \in BOOLEAN, NEW parts \in Parts, NEW n \in Names
  PROVE  Target(absolute, parts, n) \in DirsFrom(Root) \cup {Invalid}
  <1>1. parts \in Seq(Part)
        BY TreeAssumption DEF Part
  <1>2. Resolve(absolute, parts) \in DirsFrom(Root) \cup {Invalid}
        BY <1>1, ResolveStays
  <1> QED BY <1>2 DEF Target

LEMMA NewStringTyped ==
  ASSUME cwdString \in Seq(Names), NEW absolute \in BOOLEAN, NEW parts \in Parts
  PROVE  Normalized((IF absolute THEN <<>> ELSE cwdString) \o parts) \in Seq(Names)
  <1> DEFINE s == IF absolute THEN <<>> ELSE cwdString
  <1>1. parts \in Seq(Part)
        BY TreeAssumption DEF Part
  <1>2. s \in Seq(Part)
        BY DEF Part
  <1> HIDE DEF s
  <1>3. s \o parts \in Seq(Part)
        BY <1>1, <1>2
  <1>4. Normalized(s \o parts) \in Seq(Names)
        BY <1>3, NormalizedTyped
  <1> QED BY <1>4 DEF s

LEMMA NamedTyped ==
  ASSUME cwdString \in Seq(Names),
         NEW absolute \in BOOLEAN, NEW parts \in Parts, NEW n \in Names
  PROVE  Named(absolute, parts, n) \in Seq(Names)
  <1>1. Normalized((IF absolute THEN <<>> ELSE cwdString) \o parts) \in Seq(Names)
        BY NewStringTyped
  <1> DEFINE p == IF OnlyName(absolute, parts, n) THEN cwdString
                  ELSE Normalized((IF absolute THEN <<>> ELSE cwdString) \o parts)
  <1>2. p \in Seq(Names)
        BY <1>1
  <1>3. Named(absolute, parts, n) = Append(p, n)
        BY DEF Named
  <1> HIDE DEF p
  <1> QED BY <1>2, <1>3

LEMMA FindEmptyIsFree == FreeClusters # {} => FindEmpty \in Clusters \ used
  <1> SUFFICES ASSUME FreeClusters # {} PROVE FindEmpty \in FreeClusters
      BY DEF FreeClusters
  <1>1. FreeClusters \subseteq Nat
        BY TreeAssumption DEF FreeClusters
  <1>2. IsWellFoundedOn(OpToRel(<, Nat), Nat)
        BY NatLessThanWellFounded
  <1>3. \E x \in FreeClusters : \A y \in FreeClusters : ~(<<y, x>> \in OpToRel(<, Nat))
        BY <1>1, <1>2, WFMin, Zenon
  <1>4. PICK x \in FreeClusters : \A y \in FreeClusters : ~(<<y, x>> \in OpToRel(<, Nat))
        BY <1>3
  <1>5. \A y \in FreeClusters : x \in Nat /\ y \in Nat
        BY <1>1
  <1>6. \A y \in FreeClusters : ~(y < x)
        BY <1>4, <1>5 DEF OpToRel
  <1>7. \A y \in FreeClusters : x <= y
        BY <1>5, <1>6
  <1> QED BY <1>7 DEF FindEmpty

-----------------------------------------------------------------------------
(* Types.                                                                  *)
LEMMA WriteKinds ==
  ASSUME NEW w \in Writes
  PROVE  /\ w.op = "mark" => w.c \in Clusters
         /\ w.op = "free" => w.cs \in SUBSET Clusters
         /\ w.op = "put" => /\ w.d \in Clusters /\ w.n \in Names /\ w.e \in Entries
                            /\ w.gone \in SUBSET (Clusters \cup {0})
         /\ w.op = "init" => w.c \in Clusters /\ w.parent \in Clusters
  <1> USE DEF Writes
  <1>1. w.op = "mark" => w.c \in Clusters
        OBVIOUS
  <1>2. w.op = "free" => w.cs \in SUBSET Clusters
        OBVIOUS
  <1>3. w.op = "put" => /\ w.d \in Clusters /\ w.n \in Names /\ w.e \in Entries
                        /\ w.gone \in SUBSET (Clusters \cup {0})
        OBVIOUS
  <1>4. w.op = "init" => w.c \in Clusters /\ w.parent \in Clusters
        OBVIOUS
  <1> QED BY <1>1, <1>2, <1>3, <1>4

LEMMA MarkTyped ==
  ASSUME NEW c \in Clusters PROVE Mark(c) \in Writes
  BY DEF Mark, Writes

LEMMA PutTyped ==
  ASSUME NEW d \in Clusters, NEW n \in Names, NEW e \in Entries,
         NEW gone \in SUBSET (Clusters \cup {0})
  PROVE  Put(d, n, e, gone) \in Writes
  BY DEF Put, Writes

LEMMA InitDirTyped ==
  ASSUME NEW c \in Clusters, NEW parent \in Clusters PROVE InitDir(c, parent) \in Writes
  BY DEF InitDir, Writes

LEMMA FreeTyped ==
  ASSUME NEW cs \in SUBSET Clusters PROVE Free(cs) \in Seq(Writes)
  <1>1. [op |-> "free", cs |-> cs] \in Writes
        BY DEF Writes
  <1> QED BY <1>1 DEF Free

LEMMA EntriesMade ==
  /\ Absent \in Entries /\ File(0) \in Entries
  /\ \A c \in Clusters : File(c) \in Entries /\ Dir(c) \in Entries
  BY DEF Entries

LEMMA EmptyDirTyped == EmptyDir \in [Names -> Entries]
  BY EntriesMade DEF EmptyDir

LEMMA WrittenTyped ==
  ASSUME TypeOK, NEW w \in Writes, w.op = "put"
  PROVE  [c \in Clusters |-> IF c \in w.gone THEN EmptyDir
                             ELSE IF c = w.d THEN [entries[c] EXCEPT ![w.n] = w.e]
                             ELSE entries[c]] \in [Clusters -> [Names -> Entries]]
  <1>1. w.n \in Names /\ w.e \in Entries
        BY WriteKinds
  <1>2. ASSUME NEW c \in Clusters
        PROVE  entries[c] \in [Names -> Entries] /\ [entries[c] EXCEPT ![w.n] = w.e] \in [Names -> Entries]
        BY <1>1 DEF TypeOK
  <1> QED BY <1>2, EmptyDirTyped

Settled ==   \* between operations the tree is sound
  Forest /\ Linked /\ cwd \in DirsFrom(Root)

LEMMA InsideTyped ==
  ASSUME TypeOK, NEW d \in Clusters, NEW n \in Names
  PROVE  /\ Inside(d, n) \in SUBSET Clusters
         /\ Entry(d, n).first \in Clusters \cup {0} /\ Entry(d, n) \in Entries
         /\ Inside(d, n) \cup {Entry(d, n).first} \in SUBSET (Clusters \cup {0})
         /\ {Entry(d, n).first} \ {0} \in SUBSET Clusters
  <1>1. EntriesTyped
        BY DEF TypeOK, EntriesTyped
  <1>2. Entry(d, n).kind = "dir" => Below(Entry(d, n).first) \in SUBSET Clusters
        BY <1>1, EntryKinds, BelowInAll
  <1>3. Inside(d, n) \in SUBSET Clusters
        BY <1>2 DEF Inside
  <1>4. Entry(d, n).first \in Clusters \cup {0}
    <2>1. Entry(d, n).kind \in {"absent", "file", "dir"}
          BY <1>1, EntryKinds
    <2> QED BY <1>1, <2>1, EntryKinds
  <1> QED BY <1>1, <1>3, <1>4, EntryKinds

LEMMA FillsTyped ==
  ASSUME NEW d PROVE Fills(d) \in BOOLEAN
  BY DEF Fills

(* How often the names in front are bitten into is a number.               *)
LEMMA LeftoverTyped ==
  ASSUME TypeOK, NEW absolute \in BOOLEAN, NEW parts \in Seq(Part)
  PROVE  LeftoverAfter(absolute, parts) \in 0..MaxLeftover
  <1> DEFINE climbs == {i \in DOMAIN parts :
                          parts[i] = ".." /\ Normalized(cwdString \o SubSeq(parts, 1, i - 1)) = <<>>}
  <1>1. climbs \in SUBSET (1..Len(parts))
        BY DEF Part
  <1>2. IsFiniteSet(1..Len(parts))
        BY FS_Interval
  <1>3. Cardinality(climbs) \in Nat
        BY <1>1, <1>2, FS_Subset, FS_CardinalityType
  <1>4. leftover \in 0..MaxLeftover /\ MaxLeftover \in Nat
        BY TreeAssumption DEF TypeOK
  <1>5. LeftoverAfter(absolute, parts) =
          IF absolute \/ Cardinality(climbs) >= leftover THEN 0 ELSE leftover - Cardinality(climbs)
        BY DEF LeftoverAfter
  <1> HIDE DEF climbs
  <1> QED BY <1>3, <1>4, <1>5

LEMMA CommandTyped ==
  ASSUME TypeOK, NEW d \in Clusters, NEW n \in Names, Command(d, n), UNCHANGED session,
         named' \in Seq(Names)
  PROVE  TypeOK'
  <1>1. FreeClusters # {} => FindEmpty \in Clusters
        BY FindEmptyIsFree
  <1>2. /\ Inside(d, n) \in SUBSET Clusters
        /\ Entry(d, n).first \in Clusters \cup {0} /\ Entry(d, n) \in Entries
        /\ Inside(d, n) \cup {Entry(d, n).first} \in SUBSET (Clusters \cup {0})
        /\ {Entry(d, n).first} \ {0} \in SUBSET Clusters
        BY InsideTyped
  <1>3. ASSUME NEW ws \in Seq(Writes), NEW c \in Clusters \cup {0}, Issue(ws, c),
               lost' \subseteq Clusters, stale' \in BOOLEAN, wild' \in BOOLEAN
        PROVE  TypeOK'
        BY <1>3 DEF TypeOK, Issue, disk, session
  <1>4. lost \subseteq Clusters /\ stale \in BOOLEAN /\ wild \in BOOLEAN
        BY DEF TypeOK
  <1>5. CASE CreateFile(d, n)
    <2>1. <<Put(d, n, File(0), {})>> \in Seq(Writes)
      <3>1. Put(d, n, File(0), {}) \in Writes
            BY EntriesMade, PutTyped
      <3> QED BY <3>1
    <2> QED BY <1>3, <1>4, <1>5, <2>1, FillsTyped DEF CreateFile
  <1>10. <<>> \in Seq(Writes)
        OBVIOUS
  <1>6. CASE WriteFile(d, n)
    <2>0. CASE Issue(<<>>, 0)
      <3>1. wild' \in BOOLEAN
            BY <1>4, <1>6 DEF WriteFile
      <3> QED BY <1>3, <1>4, <1>6, <1>10, <2>0, <3>1 DEF WriteFile
    <2> SUFFICES ASSUME ~Issue(<<>>, 0) PROVE TypeOK'
        BY <2>0
    <2>1. FindEmpty \in Clusters
          BY <1>1, <1>6 DEF WriteFile
    <2>2. <<Mark(FindEmpty), Put(d, n, File(FindEmpty), {})>> \in Seq(Writes)
      <3>1. Put(d, n, File(FindEmpty), {}) \in Writes /\ Mark(FindEmpty) \in Writes
            BY <2>1, EntriesMade, PutTyped, MarkTyped
      <3> QED BY <3>1
    <2> QED BY <1>3, <1>4, <1>6, <2>1, <2>2 DEF WriteFile
  <1>7. CASE CreateDir(d, n)
    <2>0. CASE Issue(<<>>, 0)
      <3>1. wild' \in BOOLEAN
            BY <1>7, FillsTyped DEF CreateDir
      <3> QED BY <1>3, <1>4, <1>7, <1>10, <2>0, <3>1 DEF CreateDir
    <2> SUFFICES ASSUME ~Issue(<<>>, 0) PROVE TypeOK'
        BY <2>0
    <2>1. FindEmpty \in Clusters
          BY <1>1, <1>7 DEF CreateDir
    <2>2. <<Mark(FindEmpty), Put(d, n, Dir(FindEmpty), {}),
            InitDir(FindEmpty, DotDotOfNew(d))>> \in Seq(Writes)
      <3>1. /\ Put(d, n, Dir(FindEmpty), {}) \in Writes /\ Mark(FindEmpty) \in Writes
            /\ InitDir(FindEmpty, DotDotOfNew(d)) \in Writes
            BY <2>1, EntriesMade, PutTyped, MarkTyped, InitDirTyped DEF DotDotOfNew
      <3> QED BY <3>1
    <2> QED BY <1>3, <1>4, <1>7, <2>1, <2>2, FillsTyped DEF CreateDir
  <1>8. CASE DeleteFile(d, n)
    <2> DEFINE e == Entry(d, n)
               gone == Inside(d, n) \cup {e.first}
               ws == Free({e.first} \ {0}) \o <<Put(d, n, Absent, gone)>>
    <2>1. /\ Issue(ws, e.first)
          /\ lost' = lost \cup Inside(d, n)
          /\ stale' = (e.kind = "dir" /\ cwd \in gone) /\ wild' = wild
          BY <1>8 DEF DeleteFile, Inside
    <2>2. ws \in Seq(Writes)
      <3>1. Put(d, n, Absent, gone) \in Writes
            BY <1>2, EntriesMade, PutTyped
      <3>2. Free({e.first} \ {0}) \in Seq(Writes)
            BY <1>2, FreeTyped
      <3> QED BY <3>1, <3>2
    <2>3. stale' \in BOOLEAN
          BY <2>1
    <2>4. lost' \subseteq Clusters
          BY <1>2, <1>4, <2>1
    <2>5. wild' \in BOOLEAN
          BY <1>4, <2>1
    <2> HIDE DEF ws
    <2> QED BY <1>2, <1>3, <2>1, <2>2, <2>3, <2>4, <2>5
  <1>9. CASE DeleteDir(d, n)
    <2> DEFINE e == Entry(d, n)
               gone == Inside(d, n) \cup {e.first}
               ws == Removal(d, n, e, Inside(d, n))
    <2>1. /\ Issue(ws, 0) /\ lost' = lost
          /\ wild' = (e.kind = "file" /\ e.first # 0)
          /\ stale' = (cwd \in gone)
          BY <1>9 DEF DeleteDir, Inside, Cleared
    <2>2. ws \in Seq(Writes)
      <3>1. Put(d, n, Absent, gone) \in Writes
            BY <1>2, EntriesMade, PutTyped
      <3>2. Free({e.first} \ {0}) \in Seq(Writes) /\ Free(Inside(d, n)) \in Seq(Writes)
            BY <1>2, FreeTyped
      <3>3. ws = <<Put(d, n, Absent, gone)>> \o Free(Inside(d, n)) \o Free({e.first} \ {0})
            BY DEF Removal
      <3> HIDE DEF ws
      <3> QED BY <3>1, <3>2, <3>3
    <2>3. stale' \in BOOLEAN
          BY <2>1
    <2>4. wild' \in BOOLEAN
          BY <2>1
    <2>5. lost' \subseteq Clusters
          BY <1>4, <2>1
    <2> HIDE DEF ws
    <2> QED BY <1>3, <2>1, <2>2, <2>3, <2>4, <2>5
  <1> QED BY <1>5, <1>6, <1>7, <1>8, <1>9 DEF Command

LEMMA TodoTyped ==
  ASSUME TypeOK, todo # <<>>
  PROVE  Head(todo) \in Writes /\ Tail(todo) \in Seq(Writes)
  BY DEF TypeOK

LEMMA WroteTyped ==
  ASSUME TypeOK, NEW left \in Seq(Writes), Wrote(left)
  PROVE  /\ cwd' \in Clusters /\ cwdString' \in Seq(Names) /\ leftover' \in 0..MaxLeftover
         /\ todo' \in Seq(Writes) /\ target' \in Clusters \cup {0} /\ named' \in Seq(Names)
         /\ lost' \subseteq Clusters /\ {stale, wild, damaged}' \subseteq BOOLEAN
  BY DEF TypeOK, Wrote, session

LEMMA CrashTyped == TypeOK /\ Crash => TypeOK'
  <1> SUFFICES ASSUME TypeOK, Crash PROVE TypeOK'
      OBVIOUS
  <1> DEFINE broken == TargetThere /\ ~(EntryPending /\ target \in used)
  <1>1. /\ todo' = <<>> /\ target' = (IF broken THEN target ELSE 0) /\ named' = <<>>
        /\ cwd' = Root /\ cwdString' = <<>> /\ leftover' \in 0..MaxLeftover /\ stale' = FALSE
        /\ damaged' = broken /\ disk' = disk /\ wild' = wild
        /\ lost' = IF ~EntryPending THEN lost \cup Unfreed
                   ELSE (lost \cup {target}) \cap (used \ Below(Root))
        BY DEF Crash
  <1>2. damaged' \in BOOLEAN
        BY <1>1
  <1> HIDE DEF broken
  <1>3. Unfreed \subseteq Clusters
    <2>1. \A x \in ToSet(todo) : x \in Writes
          BY DEF TypeOK, ToSet
    <2>2. \A x \in ToSet(todo) : x.op = "free" => x.cs \in SUBSET Clusters
          BY <2>1, WriteKinds
    <2> QED BY <2>2 DEF Unfreed
  <1>4. lost' \subseteq Clusters
        BY <1>1, <1>3 DEF TypeOK
  <1>5. target' \in Clusters \cup {0} /\ stale' \in BOOLEAN /\ wild' \in BOOLEAN
        BY <1>1 DEF TypeOK
  <1>6. todo' \in Seq(Writes) /\ named' \in Seq(Names) /\ cwdString' \in Seq(Names)
        BY <1>1
  <1>7. cwd' \in Clusters
        BY <1>1, TreeAssumption
  <1> QED BY <1>1, <1>2, <1>4, <1>5, <1>6, <1>7 DEF TypeOK, disk

LEMMA TypeStep ==
  ASSUME TypeOK, Ready => Settled, [Next]_vars
  PROVE  TypeOK'
  <1>0. Invalid \notin Clusters /\ Invalid # 0
        BY TreeAssumption DEF Invalid
  <1>1. ASSUME NEW absolute \in BOOLEAN, NEW parts \in Parts, Cd(absolute, parts)
        PROVE  TypeOK'
    <2>1. Settled
          BY <1>1 DEF Cd
    <2>2. parts \in Seq(Part)
          BY TreeAssumption DEF Part
    <2>3. Resolve(absolute, parts) \in Clusters \cup {Invalid}
          BY <2>1, <2>2, ResolveStays, RootIsReached DEF Settled, Forest
    <2>4. cwd' \in Clusters
          BY <1>1, <2>3 DEF Cd
    <2>5. cwdString' \in Seq(Names)
      <3>1. cwdString \in Seq(Names)
            BY DEF TypeOK
      <3>2. Normalized((IF absolute THEN <<>> ELSE cwdString) \o parts) \in Seq(Names)
            BY <3>1, NewStringTyped
      <3> QED BY <1>1, <3>2 DEF Cd
    <2>6. leftover' \in 0..MaxLeftover
          BY <1>1, <2>2, LeftoverTyped DEF Cd
    <2> QED BY <1>1, <2>4, <2>5, <2>6 DEF Cd, TypeOK, disk
  <1>2. ASSUME Ready, NEW r \in Requests, Operation(r)
        PROVE  TypeOK'
    <2>1. Settled
          BY <1>2
    <2>2. PICK absolute \in BOOLEAN, parts \in Parts, n \in Names :
            r = [dir |-> Target(absolute, parts, n), path |-> Named(absolute, parts, n), name |-> n]
          BY DEF Requests
    <2>3. r.dir \in Clusters
      <3>1. Target(absolute, parts, n) \in DirsFrom(Root) \cup {Invalid}
            BY <2>1, TargetStays DEF Settled
      <3> QED BY <1>2, <2>1, <2>2, <3>1, RootIsReached DEF Operation, Settled, Forest
    <2>4. named' \in Seq(Names)
      <3>1. cwdString \in Seq(Names)
            BY DEF TypeOK
      <3>2. Named(absolute, parts, n) \in Seq(Names)
            BY <3>1, NamedTyped
      <3> QED BY <1>2, <2>2, <3>2 DEF Operation
    <2>5. r.name \in Names
          BY <2>2
    <2> QED BY <1>2, <2>3, <2>4, <2>5, CommandTyped DEF Operation
  <1>3. CASE WriteMark
    <2>1. Head(todo) \in Writes /\ Tail(todo) \in Seq(Writes)
          BY <1>3, TodoTyped DEF WriteMark
    <2>2. Head(todo).c \in Clusters
          BY <1>3, <2>1, WriteKinds DEF WriteMark
    <2>3. /\ cwd' \in Clusters /\ cwdString' \in Seq(Names) /\ leftover' \in 0..MaxLeftover
          /\ todo' \in Seq(Writes) /\ target' \in Clusters \cup {0} /\ named' \in Seq(Names)
          /\ lost' \subseteq Clusters /\ {stale, wild, damaged}' \subseteq BOOLEAN
          BY <1>3, <2>1, WroteTyped DEF WriteMark
    <2> QED BY <1>3, <2>2, <2>3 DEF WriteMark, TypeOK
  <1>4. CASE WriteFree
    <2>1. Head(todo) \in Writes /\ Tail(todo) \in Seq(Writes)
          BY <1>4, TodoTyped DEF WriteFree
    <2>2. Head(todo).cs \in SUBSET Clusters
          BY <1>4, <2>1, WriteKinds DEF WriteFree
    <2>3. PICK c \in Head(todo).cs : /\ used' = used \ {c}
                                     /\ Wrote(Free(Head(todo).cs \ {c}) \o Tail(todo))
          BY <1>4 DEF WriteFree
    <2>4. Free(Head(todo).cs \ {c}) \in Seq(Writes)
          BY <2>2, FreeTyped
    <2>5. Free(Head(todo).cs \ {c}) \o Tail(todo) \in Seq(Writes)
          BY <2>1, <2>4
    <2>6. /\ cwd' \in Clusters /\ cwdString' \in Seq(Names) /\ leftover' \in 0..MaxLeftover
          /\ todo' \in Seq(Writes) /\ target' \in Clusters \cup {0} /\ named' \in Seq(Names)
          /\ lost' \subseteq Clusters /\ {stale, wild, damaged}' \subseteq BOOLEAN
          BY <2>3, <2>5, WroteTyped
    <2> QED BY <1>4, <2>3, <2>6 DEF WriteFree, TypeOK
  <1>5. CASE WritePut
    <2>1. Head(todo) \in Writes /\ Tail(todo) \in Seq(Writes)
          BY <1>5, TodoTyped DEF WritePut
    <2>2. entries' \in [Clusters -> [Names -> Entries]]
          BY <1>5, <2>1, WrittenTyped DEF WritePut
    <2>3. dotdot' \in [Clusters -> Clusters \cup {0}]
          BY <1>5 DEF WritePut, TypeOK
    <2>4. /\ cwd' \in Clusters /\ cwdString' \in Seq(Names) /\ leftover' \in 0..MaxLeftover
          /\ todo' \in Seq(Writes) /\ target' \in Clusters \cup {0} /\ named' \in Seq(Names)
          /\ lost' \subseteq Clusters /\ {stale, wild, damaged}' \subseteq BOOLEAN
          BY <1>5, <2>1, WroteTyped DEF WritePut
    <2> QED BY <1>5, <2>2, <2>3, <2>4 DEF WritePut, TypeOK
  <1>6. CASE WriteInit
    <2>1. Head(todo) \in Writes /\ Tail(todo) \in Seq(Writes)
          BY <1>6, TodoTyped DEF WriteInit
    <2>2. Head(todo).c \in Clusters /\ Head(todo).parent \in Clusters
          BY <1>6, <2>1, WriteKinds DEF WriteInit
    <2>3. entries' \in [Clusters -> [Names -> Entries]]
          BY <1>6, <2>2, EmptyDirTyped DEF WriteInit, TypeOK
    <2>4. dotdot' \in [Clusters -> Clusters \cup {0}]
          BY <1>6, <2>2 DEF WriteInit, TypeOK
    <2>5. /\ cwd' \in Clusters /\ cwdString' \in Seq(Names) /\ leftover' \in 0..MaxLeftover
          /\ todo' \in Seq(Writes) /\ target' \in Clusters \cup {0} /\ named' \in Seq(Names)
          /\ lost' \subseteq Clusters /\ {stale, wild, damaged}' \subseteq BOOLEAN
          BY <1>6, <2>1, WroteTyped DEF WriteInit
    <2> QED BY <1>6, <2>3, <2>4, <2>5 DEF WriteInit, TypeOK
  <1>7. CASE Crash
        BY <1>7, CrashTyped
  <1>8. CASE UNCHANGED vars
        BY <1>8 DEF vars, disk, session, TypeOK
  <1> QED BY <1>1, <1>2, <1>3, <1>4, <1>5, <1>6, <1>7, <1>8 DEF Next

-----------------------------------------------------------------------------
(* The inductive invariant.  Between operations the tree, what is known to *)
(* be lost and the clusters in use agree; in the middle of one the writes  *)
(* still to make say by what they differ.                                  *)
LinkedBut(c) ==
  \A d \in Clusters : \A n \in Names :
    Entry(d, n).kind = "dir" /\ Entry(d, n).first # c => dotdot[Entry(d, n).first] = d

CwdThere == ~stale => cwd \in DirsFrom(Root)
Even == used = InTree \cup lost /\ lost \cap InTree = {}
After(d, e) == IF e.kind = "dir" THEN <<InitDir(e.first, d)>> ELSE <<>>
Takes(d, n, e) == <<Put(d, n, e, {})>> \o After(d, e)
Drops(d, n) == <<Put(d, n, Absent, Gone(d, n))>>

Broken ==   \* stopped between an entry and its mark or contents
  /\ damaged /\ todo = <<>>
  /\ target \in AllFirsts /\ InTree \ {target} \subseteq used

Freeing(us, vs) ==   \* or between operations, nothing left to free
  /\ ~damaged /\ Linked /\ target = 0
  /\ todo = Free(us) \o Free(vs)
  /\ us \cap vs = {} /\ (us \cup vs) \cap (InTree \cup lost) = {}
  /\ used = InTree \cup lost \cup us \cup vs /\ lost \cap InTree = {}

Marking(d, n, e) ==
  todo = <<Mark(target)>> \o Takes(d, n, e) /\ used = InTree \cup lost
Putting(d, n, e) ==
  todo = Takes(d, n, e) /\ used = InTree \cup lost \cup ({target} \ {0})
Adding(d, n, e) ==
  /\ ~damaged /\ Linked /\ e.first = target
  /\ Entry(d, n).kind # "dir" /\ Entry(d, n).first = 0
  /\ lost \cap InTree = {} /\ target \notin InTree \cup lost
  /\ \/ e = File(0) /\ Putting(d, n, e)
     \/ /\ e \in {File(target), Dir(target)} /\ target \in Clusters
        /\ Marking(d, n, e) \/ Putting(d, n, e)

Starting(d, n) ==
  /\ ~damaged /\ LinkedBut(target) /\ todo = <<InitDir(target, d)>>
  /\ Entry(d, n) = Dir(target) /\ target \in Clusters /\ entries[target] = EmptyDir
  /\ Even

Deleting(d, n) ==
  /\ ~damaged /\ Linked /\ Entry(d, n) # Absent /\ target = Entry(d, n).first
  /\ ~stale => cwd \notin Gone(d, n)
  /\ Inside(d, n) \subseteq lost /\ lost \cap InTree \subseteq Inside(d, n)
  /\ \/ /\ target # 0 /\ used = InTree \cup lost
        /\ todo = Free({target}) \o Drops(d, n)
     \/ used = (InTree \cup lost) \ {target} /\ todo = Drops(d, n)

Removing(d, n) ==
  /\ ~damaged /\ Linked /\ Entry(d, n) # Absent /\ target = 0 /\ Even
  /\ ~stale => cwd \notin Gone(d, n)
  /\ todo = Drops(d, n) \o (Free(Inside(d, n)) \o Free({Entry(d, n).first} \ {0}))

Phase ==
  \/ Broken
  \/ \E us, vs \in SUBSET Clusters : Freeing(us, vs)
  \/ \E d \in DirsFrom(Root), n \in Names :
       \/ \E e \in Entries : Adding(d, n, e)
       \/ Starting(d, n) \/ Deleting(d, n) \/ Removing(d, n)

Inv == TypeOK /\ Forest /\ CwdThere /\ Phase

-----------------------------------------------------------------------------
(* Sequences of writes.                                                    *)
LEMMA Prefixed ==
  ASSUME NEW S, NEW a \in S, NEW s \in Seq(S)
  PROVE  /\ <<a>> \o s \in Seq(S) /\ <<a>> \o s # <<>>
         /\ Head(<<a>> \o s) = a /\ Tail(<<a>> \o s) = s
         /\ ToSet(<<a>> \o s) = {a} \cup ToSet(s)
  <1> DEFINE t == <<a>> \o s
  <1>1. /\ t \in Seq(S) /\ Len(t) = Len(s) + 1 /\ Len(s) \in Nat
        /\ t[1] = a /\ \A i \in 1..Len(s) : t[i + 1] = s[i]
        OBVIOUS
  <1> HIDE DEF t
  <1>2. t # <<>> /\ Head(t) = a
        BY <1>1
  <1>3. Tail(t) = s
    <2>1. Tail(t) \in Seq(S) /\ Len(Tail(t)) = Len(s) /\ \A i \in 1..Len(s) : Tail(t)[i] = t[i + 1]
          BY <1>1, <1>2
    <2> QED BY <1>1, <2>1, SeqEqual
  <1>4. ToSet(t) = {a} \cup ToSet(s)
    <2>1. DOMAIN t = 1..Len(s) + 1 /\ DOMAIN s = 1..Len(s)
          BY <1>1
    <2>2. ASSUME NEW x \in ToSet(t) PROVE x \in {a} \cup ToSet(s)
      <3>1. PICK i \in 1..Len(s) + 1 : t[i] = x
            BY <2>1, <2>2 DEF ToSet
      <3>2. CASE i = 1
            BY <1>1, <3>1, <3>2
      <3>3. CASE i # 1
        <4>1. i - 1 \in 1..Len(s) /\ (i - 1) + 1 = i
              BY <1>1, <3>1, <3>3
        <4>2. s[i - 1] = x
              BY <1>1, <3>1, <4>1
        <4> QED BY <2>1, <4>1, <4>2 DEF ToSet
      <3> QED BY <3>2, <3>3
    <2>3. a \in ToSet(t)
      <3>1. 1 \in 1..Len(s) + 1
            BY <1>1
      <3> QED BY <1>1, <2>1, <3>1 DEF ToSet
    <2>4. ASSUME NEW x \in ToSet(s) PROVE x \in ToSet(t)
      <3>1. PICK i \in 1..Len(s) : s[i] = x
            BY <2>1, <2>4 DEF ToSet
      <3>2. i + 1 \in 1..Len(s) + 1 /\ t[i + 1] = x
            BY <1>1, <3>1
      <3> QED BY <2>1, <3>2 DEF ToSet
    <2> QED BY <2>2, <2>3, <2>4
  <1> QED BY <1>1, <1>2, <1>3, <1>4 DEF t

FreeWrite(cs) == [op |-> "free", cs |-> cs]

LEMMA FreeIs ==
  ASSUME NEW cs \in SUBSET Clusters
  PROVE  /\ cs = {} => Free(cs) = <<>>
         /\ cs # {} => Free(cs) = <<FreeWrite(cs)>> /\ FreeWrite(cs) \in Writes
  BY DEF Free, FreeWrite, Writes

LEMMA NoWrites ==
  ASSUME NEW s \in Seq(Writes)
  PROVE  <<>> \o s = s /\ s \o <<>> = s /\ ToSet(<<>>) = {}
  BY DEF ToSet

LEMMA FreeThen ==
  ASSUME NEW cs \in SUBSET Clusters, NEW s \in Seq(Writes)
  PROVE  /\ Free(cs) \o s \in Seq(Writes)
         /\ cs = {} => Free(cs) \o s = s
         /\ cs # {} => /\ Free(cs) \o s # <<>>
                       /\ Head(Free(cs) \o s) = FreeWrite(cs)
                       /\ Tail(Free(cs) \o s) = s
         /\ ToSet(Free(cs) \o s) = (IF cs = {} THEN {} ELSE {FreeWrite(cs)}) \cup ToSet(s)
  <1>1. CASE cs = {}
    <2>1. Free(cs) \o s = s
          BY <1>1, FreeIs, NoWrites
    <2> QED BY <1>1, <2>1
  <1>2. CASE cs # {}
    <2> DEFINE w == FreeWrite(cs)
    <2>1. Free(cs) = <<w>> /\ w \in Writes
          BY <1>2, FreeIs
    <2> HIDE DEF w
    <2>2. /\ <<w>> \o s \in Seq(Writes) /\ <<w>> \o s # <<>>
          /\ Head(<<w>> \o s) = w /\ Tail(<<w>> \o s) = s
          /\ ToSet(<<w>> \o s) = {w} \cup ToSet(s)
          BY <2>1, Prefixed
    <2> QED BY <1>2, <2>1, <2>2 DEF w
  <1> QED BY <1>1, <1>2

LEMMA PutThen ==
  ASSUME NEW d \in Clusters, NEW n \in Names, NEW e \in Entries,
         NEW gone \in SUBSET (Clusters \cup {0}), NEW s \in Seq(Writes)
  PROVE  LET t == <<Put(d, n, e, gone)>> \o s
         IN  /\ t \in Seq(Writes) /\ t # <<>> /\ Head(t) = Put(d, n, e, gone) /\ Tail(t) = s
             /\ ToSet(t) = {Put(d, n, e, gone)} \cup ToSet(s)
  BY PutTyped, Prefixed

LEMMA OneWrite ==
  ASSUME NEW w \in Writes
  PROVE  /\ <<w>> \in Seq(Writes) /\ <<w>> # <<>> /\ Head(<<w>>) = w /\ Tail(<<w>>) = <<>>
         /\ ToSet(<<w>>) = {w} /\ <<w>> = <<w>> \o <<>>
  <1>1. /\ <<w>> \in Seq(Writes) /\ <<w>> # <<>> /\ Head(<<w>>) = w /\ Tail(<<w>>) = <<>>
        OBVIOUS
  <1>2. ToSet(<<w>>) = {w}
        BY DEF ToSet
  <1>3. <<w>> = <<w>> \o <<>>
        BY <1>1, NoWrites
  <1> QED BY <1>1, <1>2, <1>3

LEMMA PendingBy == EntryPending <=> \E w \in ToSet(todo) : w.op = "put"
  BY DEF EntryPending, ToSet

-----------------------------------------------------------------------------
(* A step that leaves the entries alone leaves the tree alone.             *)
SameTree ==
  /\ \A d \in Clusters : \A n \in Names :
       /\ Entry(d, n)' = Entry(d, n)
       /\ Inside(d, n)' = Inside(d, n) /\ Gone(d, n)' = Gone(d, n)
  /\ \A d \in Clusters : DirsFrom(d)' = DirsFrom(d) /\ Below(d)' = Below(d)
  /\ AllFirsts' = AllFirsts /\ InTree' = InTree
  /\ (Forest => Forest')

InsideFacts ==
  \A d \in Clusters : \A n \in Names :
    /\ Entry(d, n).kind # "dir" => Inside(d, n) = {}
    /\ \A f \in Clusters :
         Entry(d, n).kind = "dir" /\ Entry(d, n).first = f => Inside(d, n) = Below(f)

LEMMA InsideFactsHold == InsideFacts
  BY DEF InsideFacts, Inside

LEMMA InsideFactsNext == InsideFacts'
  BY InsideFactsHold, PTL

LEMMA TreeStays ==
  ASSUME EntriesTyped, entries' = entries
  PROVE  SameTree
  <1>1. EntriesTyped' /\ TreeFacts /\ TreeFacts'
    <2>1. EntriesTyped'
          BY DEF EntriesTyped
    <2> QED BY <2>1, TreeFactsHold, TreeFactsNext
  <1>2. \A d, n : Entry(d, n)' = Entry(d, n)
        BY DEF Entry
  <1>3. \A d \in Clusters : Firsts(d)' = Firsts(d) /\ Subdirs(d)' = Subdirs(d)
    <2> SUFFICES ASSUME NEW d \in Clusters PROVE Firsts(d)' = Firsts(d) /\ Subdirs(d)' = Subdirs(d)
        OBVIOUS
    <2>1. \A c : c \in Firsts(d)' <=> c \in Firsts(d)
          BY <1>1, <1>2 DEF TreeFacts
    <2>2. \A c : c \in Subdirs(d)' <=> c \in Subdirs(d)
          BY <1>1, <1>2 DEF TreeFacts
    <2> QED BY <2>1, <2>2
  <1>4. \A d \in Clusters : DirsFrom(d)' = DirsFrom(d)
    <2> SUFFICES ASSUME NEW d \in Clusters PROVE DirsFrom(d)' = DirsFrom(d)
        OBVIOUS
    <2> DEFINE R == DirsFrom(d)
               Q == DirsFrom(d)'
    <2>1. /\ d \in R /\ R \subseteq Clusters /\ \A x \in R : Subdirs(x) \subseteq R
          /\ \A S \in SUBSET Clusters : d \in S /\ (\A x \in S : Subdirs(x) \subseteq S) => R \subseteq S
          BY <1>1 DEF TreeFacts, DirsLeast
    <2>2. /\ d \in Q /\ Q \subseteq Clusters /\ \A x \in Q : Subdirs(x)' \subseteq Q
          /\ \A S \in SUBSET Clusters : d \in S /\ (\A x \in S : Subdirs(x)' \subseteq S) => Q \subseteq S
          BY <1>1 DEF TreeFacts, DirsLeast
    <2> HIDE DEF R, Q
    <2>3. (\A x \in Q : Subdirs(x) \subseteq Q) /\ (\A x \in R : Subdirs(x)' \subseteq R)
          BY <1>3, <2>1, <2>2
    <2>4. R \subseteq Q /\ Q \subseteq R
          BY <2>1, <2>2, <2>3
    <2> QED BY <2>4 DEF R, Q
  <1>5. \A d \in Clusters : Below(d)' = Below(d)
    <2> SUFFICES ASSUME NEW d \in Clusters PROVE Below(d)' = Below(d)
        OBVIOUS
    <2>1. DirsFrom(d) \subseteq Clusters
          BY <1>1 DEF TreeFacts, DirsLeast
    <2>2. \A x : x \in Below(d)' <=> \E c \in DirsFrom(d)' : x \in Firsts(c)'
          BY DEF Below
    <2>3. \A x : x \in Below(d) <=> \E c \in DirsFrom(d) : x \in Firsts(c)
          BY DEF Below
    <2>4. \A x : x \in Below(d)' <=> x \in Below(d)
          BY <1>3, <1>4, <2>1, <2>2, <2>3
    <2> QED BY <2>4
  <1>6. AllFirsts' = AllFirsts
    <2>1. \A x : x \in AllFirsts' <=> \E c \in Clusters : x \in Firsts(c)'
          BY DEF AllFirsts
    <2>2. \A x : x \in AllFirsts <=> \E c \in Clusters : x \in Firsts(c)
          BY DEF AllFirsts
    <2>3. \A x : x \in AllFirsts' <=> x \in AllFirsts
          BY <1>3, <2>1, <2>2
    <2> QED BY <2>3
  <1>7. InTree' = InTree
        BY <1>6 DEF InTree
  <1>8. ASSUME NEW d \in Clusters, NEW n \in Names
        PROVE  Inside(d, n)' = Inside(d, n) /\ Gone(d, n)' = Gone(d, n)
    <2>1. Entry(d, n).kind = "dir" => Entry(d, n).first \in Clusters
          BY <1>1, EntryKinds
    <2>2. Inside(d, n)' = Inside(d, n)
      <3>1. CASE Entry(d, n).kind = "dir"
        <4>1. PICK f \in Clusters : f = Entry(d, n).first
              BY <2>1, <3>1
        <4>2. Inside(d, n) = Below(f) /\ Inside(d, n)' = Below(f)'
              BY <1>2, <3>1, <4>1, InsideFactsHold, InsideFactsNext DEF InsideFacts
        <4> QED BY <1>5, <4>2
      <3>2. CASE Entry(d, n).kind # "dir"
            BY <1>2, <3>2, InsideFactsHold, InsideFactsNext DEF InsideFacts
      <3> QED BY <3>1, <3>2
    <2> QED BY <1>2, <2>2 DEF Gone
  <1>9. Forest => Forest'
    <2> SUFFICES ASSUME Forest PROVE Forest'
        OBVIOUS
    <2>1. Apart'
          BY <1>2 DEF Forest, Apart
    <2>2. BelowRoot'
          BY <1>2 DEF Forest, BelowRoot
    <2>3. OnlyReached'
      <3>1. DirsFrom(Root)' = DirsFrom(Root)
            BY <1>4, TreeAssumption
      <3> QED BY <3>1 DEF Forest, OnlyReached, EmptyDir, Absent
    <2>4. PICK rank \in [Clusters -> Nat] : RankedBy(rank)
          BY DEF Forest
    <2>5. RankedBy(rank)'
          BY <1>2, <2>4 DEF RankedBy
    <2> QED BY <1>1, <2>1, <2>2, <2>3, <2>5 DEF Forest
  <1> QED BY <1>2, <1>4, <1>5, <1>6, <1>7, <1>8, <1>9 DEF SameTree

-----------------------------------------------------------------------------
(* What is left to write in each phase.                                    *)
LEMMA TakesIs ==
  ASSUME NEW d \in Clusters, NEW n \in Names, NEW e \in Entries
  PROVE  /\ After(d, e) \in Seq(Writes) /\ Put(d, n, e, {}) \in Writes
         /\ e.kind # "dir" => After(d, e) = <<>>
         /\ e.kind = "dir" => After(d, e) = <<InitDir(e.first, d)>> /\ e.first \in Clusters
         /\ Takes(d, n, e) \in Seq(Writes) /\ Takes(d, n, e) # <<>>
         /\ Head(Takes(d, n, e)) = Put(d, n, e, {}) /\ Tail(Takes(d, n, e)) = After(d, e)
         /\ Put(d, n, e, {}) \in ToSet(Takes(d, n, e))
  <1>1. e.kind = "dir" => e.first \in Clusters
        BY DEF Entries, Absent, File, Dir
  <1>2. After(d, e) \in Seq(Writes)
    <2>1. e.kind = "dir" => <<InitDir(e.first, d)>> \in Seq(Writes)
          BY <1>1, InitDirTyped, OneWrite
    <2> QED BY <2>1 DEF After
  <1>3. /\ <<Put(d, n, e, {})>> \o After(d, e) \in Seq(Writes)
        /\ <<Put(d, n, e, {})>> \o After(d, e) # <<>>
        /\ Head(<<Put(d, n, e, {})>> \o After(d, e)) = Put(d, n, e, {})
        /\ Tail(<<Put(d, n, e, {})>> \o After(d, e)) = After(d, e)
        /\ Put(d, n, e, {}) \in ToSet(<<Put(d, n, e, {})>> \o After(d, e))
        BY <1>2, PutThen
  <1> QED BY <1>1, <1>2, <1>3, PutTyped DEF After, Takes

LEMMA DropsIs ==
  ASSUME TypeOK, NEW d \in Clusters, NEW n \in Names
  PROVE  /\ Gone(d, n) \in SUBSET (Clusters \cup {0})
         /\ Put(d, n, Absent, Gone(d, n)) \in Writes
         /\ Drops(d, n) = <<Put(d, n, Absent, Gone(d, n))>>
         /\ Drops(d, n) \in Seq(Writes) /\ Drops(d, n) # <<>>
         /\ Head(Drops(d, n)) = Put(d, n, Absent, Gone(d, n)) /\ Tail(Drops(d, n)) = <<>>
         /\ Put(d, n, Absent, Gone(d, n)) \in ToSet(Drops(d, n))
  <1>1. Gone(d, n) \in SUBSET (Clusters \cup {0})
        BY InsideTyped DEF Gone
  <1>2. Put(d, n, Absent, Gone(d, n)) \in Writes
        BY <1>1, PutTyped, EntriesMade
  <1> QED BY <1>1, <1>2, OneWrite DEF Drops

AddingHas(d, n, e) ==
  /\ todo # <<>> /\ EntryPending
  /\ Marking(d, n, e) => Head(todo) = Mark(target) /\ Tail(todo) = Takes(d, n, e)
  /\ Putting(d, n, e) => Head(todo) = Put(d, n, e, {}) /\ Tail(todo) = After(d, e)

LEMMA AddingTodo ==
  ASSUME NEW d \in Clusters, NEW n \in Names, NEW e \in Entries, Adding(d, n, e)
  PROVE  AddingHas(d, n, e)
  <1>1. Put(d, n, e, {}).op = "put"
        BY DEF Put
  <1>2. Putting(d, n, e) => /\ todo # <<>> /\ EntryPending
                            /\ Head(todo) = Put(d, n, e, {}) /\ Tail(todo) = After(d, e)
        BY <1>1, TakesIs, PendingBy DEF Putting
  <1>3. ASSUME Marking(d, n, e)
        PROVE  /\ todo # <<>> /\ EntryPending
               /\ Head(todo) = Mark(target) /\ Tail(todo) = Takes(d, n, e)
    <2>1. e = File(0) => target = 0
          BY DEF Adding, File
    <2>2. target \in Clusters \/ Putting(d, n, e)
          BY DEF Adding
    <2>3. CASE target \in Clusters
      <3>1. Mark(target) \in Writes
            BY <2>3, MarkTyped
      <3>2. /\ <<Mark(target)>> \o Takes(d, n, e) # <<>>
            /\ Head(<<Mark(target)>> \o Takes(d, n, e)) = Mark(target)
            /\ Tail(<<Mark(target)>> \o Takes(d, n, e)) = Takes(d, n, e)
            /\ Put(d, n, e, {}) \in ToSet(<<Mark(target)>> \o Takes(d, n, e))
            BY <3>1, TakesIs, Prefixed
      <3>3. todo = <<Mark(target)>> \o Takes(d, n, e)
            BY <1>3 DEF Marking
      <3> QED BY <1>1, <3>2, <3>3, PendingBy
    <2>4. CASE target \notin Clusters
      <3>1. e = File(0)
            BY <2>4 DEF Adding
      <3>2. FALSE
        <4>1. todo = Takes(d, n, e) /\ todo \in Seq(Writes)
              BY <2>2, <2>4, TakesIs DEF Putting
        <4>2. todo = <<Mark(target)>> \o todo
              BY <1>3, <4>1 DEF Marking
        <4>3. Len(<<Mark(target)>> \o todo) = Len(todo) + 1 /\ Len(todo) \in Nat
              BY <4>1
        <4> QED BY <4>2, <4>3
      <3> QED BY <3>2
    <2> QED BY <2>3, <2>4
  <1>4. Marking(d, n, e) \/ Putting(d, n, e)
        BY DEF Adding
  <1> QED BY <1>2, <1>3, <1>4 DEF AddingHas

DeletingHas(d, n) ==
  /\ todo # <<>> /\ EntryPending
  /\ todo = Free({target}) \o Drops(d, n) => Head(todo) = FreeWrite({target}) /\ Tail(todo) = Drops(d, n)
  /\ todo = Drops(d, n) => /\ Head(todo) = Put(d, n, Absent, Gone(d, n)) /\ Tail(todo) = <<>>

LEMMA DeletingTodo ==
  ASSUME TypeOK, NEW d \in Clusters, NEW n \in Names, Deleting(d, n)
  PROVE  DeletingHas(d, n)
  <1>1. Put(d, n, Absent, Gone(d, n)).op = "put"
        BY DEF Put
  <1>2. todo = Drops(d, n) => /\ todo # <<>> /\ EntryPending
                              /\ Head(todo) = Put(d, n, Absent, Gone(d, n)) /\ Tail(todo) = <<>>
        BY <1>1, DropsIs, PendingBy
  <1>3. ASSUME todo = Free({target}) \o Drops(d, n)
        PROVE  /\ todo # <<>> /\ EntryPending
               /\ Head(todo) = FreeWrite({target}) /\ Tail(todo) = Drops(d, n)
    <2>1. CASE target \in Clusters
      <3>1. {target} \in SUBSET Clusters /\ {target} # {} /\ Drops(d, n) \in Seq(Writes)
            BY <2>1, DropsIs
      <3>2. /\ todo # <<>> /\ Head(todo) = FreeWrite({target}) /\ Tail(todo) = Drops(d, n)
            /\ ToSet(todo) = {FreeWrite({target})} \cup ToSet(Drops(d, n))
            BY <1>3, <3>1, FreeThen
      <3> QED BY <1>1, <3>2, DropsIs, PendingBy
    <2>2. CASE target \notin Clusters
      <3>1. target = 0
            BY <2>2 DEF TypeOK
      <3>2. todo = Drops(d, n) /\ Drops(d, n) \in Seq(Writes)
            BY <3>1, DropsIs DEF Deleting
      <3>3. Free({target}) = <<FreeWrite({target})>>
            BY DEF Free, FreeWrite
      <3>4. todo = <<FreeWrite({target})>> \o todo
            BY <1>3, <3>2, <3>3
      <3> DEFINE w == FreeWrite({target})
      <3> HIDE DEF w
      <3>5. Len(<<w>> \o todo) = Len(todo) + 1 /\ Len(todo) \in Nat
            BY <3>2
      <3>6. FALSE
            BY <3>4, <3>5 DEF w
      <3> QED BY <3>6
    <2> QED BY <2>1, <2>2
  <1> QED BY <1>2, <1>3 DEF DeletingHas, Deleting

RemovingHas(d, n) ==
  /\ todo # <<>> /\ EntryPending
  /\ Head(todo) = Put(d, n, Absent, Gone(d, n))
  /\ Tail(todo) = Free(Inside(d, n)) \o Free({Entry(d, n).first} \ {0})

LEMMA RemovingTodo ==
  ASSUME TypeOK, NEW d \in Clusters, NEW n \in Names, Removing(d, n)
  PROVE  RemovingHas(d, n)
  <1> DEFINE s == Free(Inside(d, n)) \o Free({Entry(d, n).first} \ {0})
             w == Put(d, n, Absent, Gone(d, n))
  <1>1. w.op = "put"
        BY DEF Put
  <1>2. w \in Writes /\ Drops(d, n) = <<w>>
        BY DropsIs
  <1>3. s \in Seq(Writes)
        BY InsideTyped, FreeTyped, FreeThen
  <1>4. todo = <<w>> \o s
        BY <1>2 DEF Removing
  <1> HIDE DEF s, w
  <1>5. todo # <<>> /\ Head(todo) = w /\ Tail(todo) = s /\ w \in ToSet(todo)
        BY <1>2, <1>3, <1>4, Prefixed
  <1>6. EntryPending
        BY <1>1, <1>5, PendingBy
  <1> QED BY <1>5, <1>6 DEF RemovingHas, s, w

FreeingHas(us, vs) ==
  /\ ~EntryPending /\ Unfreed = us \cup vs
  /\ todo = <<>> => us = {} /\ vs = {}
  /\ us # {} => Head(todo) = FreeWrite(us) /\ Tail(todo) = Free(vs)
  /\ us = {} /\ vs # {} => Head(todo) = FreeWrite(vs) /\ Tail(todo) = <<>>

LEMMA FreeingTodo ==
  ASSUME NEW us \in SUBSET Clusters, NEW vs \in SUBSET Clusters, Freeing(us, vs)
  PROVE  FreeingHas(us, vs)
  <1>0. todo = Free(us) \o Free(vs) /\ Free(vs) \in Seq(Writes)
        BY FreeTyped DEF Freeing
  <1>1. Free(vs) = Free(vs) \o <<>> /\ <<>> \in Seq(Writes) /\ ToSet(<<>>) = {}
        BY <1>0, NoWrites
  <1>2. /\ vs = {} => Free(vs) = <<>>
        /\ vs # {} => Free(vs) # <<>> /\ Head(Free(vs)) = FreeWrite(vs) /\ Tail(Free(vs)) = <<>>
        /\ ToSet(Free(vs)) = IF vs = {} THEN {} ELSE {FreeWrite(vs)}
    <2>1. PICK s \in Seq(Writes) : s = <<>>
          BY <1>1
    <2>2. Free(vs) = Free(vs) \o s /\ ToSet(s) = {}
          BY <1>1, <2>1
    <2>3. vs = {} => Free(vs) = s
          BY <2>2, FreeThen
    <2>4. vs # {} => Free(vs) # <<>> /\ Head(Free(vs)) = FreeWrite(vs) /\ Tail(Free(vs)) = s
          BY <2>2, FreeThen
    <2>5. ToSet(Free(vs)) = (IF vs = {} THEN {} ELSE {FreeWrite(vs)}) \cup ToSet(s)
      <3>1. ToSet(Free(vs) \o s) = (IF vs = {} THEN {} ELSE {FreeWrite(vs)}) \cup ToSet(s)
            BY FreeThen, Zenon
      <3> QED BY <2>2, <3>1, Zenon
    <2> QED BY <2>1, <2>2, <2>3, <2>4, <2>5
  <1>3. ToSet(todo) = (IF us = {} THEN {} ELSE {FreeWrite(us)}) \cup (IF vs = {} THEN {} ELSE {FreeWrite(vs)})
        BY <1>0, <1>2, FreeThen
  <1>4. \A cs : FreeWrite(cs).op = "free" /\ FreeWrite(cs).cs = cs
        BY DEF FreeWrite
  <1>5. ~EntryPending
        BY <1>3, <1>4, PendingBy
  <1>6. Unfreed = us \cup vs
    <2>1. {x \in ToSet(todo) : x.op = "free"} = ToSet(todo)
          BY <1>3, <1>4
    <2>2. \A y : y \in Unfreed <=> \E x \in ToSet(todo) : y \in x.cs
          BY <2>1 DEF Unfreed
    <2> QED BY <1>3, <1>4, <2>2
  <1>7. todo = <<>> => us = {} /\ vs = {}
        BY <1>0, <1>2, FreeThen
  <1>8. us # {} => Head(todo) = FreeWrite(us) /\ Tail(todo) = Free(vs)
        BY <1>0, FreeThen
  <1>9. us = {} /\ vs # {} => Head(todo) = FreeWrite(vs) /\ Tail(todo) = <<>>
        BY <1>0, <1>2, FreeThen
  <1> QED BY <1>5, <1>6, <1>7, <1>8, <1>9 DEF FreeingHas

-----------------------------------------------------------------------------
(* Between operations.                                                     *)
Quiet == ~damaged /\ Linked /\ target = 0 /\ todo = <<>> /\ Even

LEMMA QuietIsPhase == Quiet => Phase
  <1> SUFFICES ASSUME Quiet PROVE Freeing({}, {})
      BY DEF Phase
  <1>1. Free({}) \o Free({}) = <<>>
    <2>1. Free({}) = <<>> /\ Free({}) \in Seq(Writes)
          BY FreeIs, FreeTyped
    <2> QED BY <2>1, NoWrites
  <1> QED BY <1>1 DEF Quiet, Freeing, Even

LEMMA QuietNext == Quiet' => Phase'
  BY QuietIsPhase, PTL

LEMMA IdleIsQuiet ==
  ASSUME TypeOK, Forest, Phase, todo = <<>>, ~damaged
  PROVE  Quiet
  <1>1. DirsFrom(Root) \subseteq Clusters
        BY RootIsReached DEF Forest
  <1>2. ASSUME NEW us \in SUBSET Clusters, NEW vs \in SUBSET Clusters, Freeing(us, vs)
        PROVE  Quiet
    <2>1. us = {} /\ vs = {}
          BY <1>2, FreeingTodo DEF FreeingHas
    <2> QED BY <1>2, <2>1 DEF Freeing, Quiet, Even
  <1>3. ASSUME NEW d \in DirsFrom(Root), NEW n \in Names, NEW e \in Entries, Adding(d, n, e)
        PROVE  FALSE
        BY <1>1, <1>3, AddingTodo DEF AddingHas
  <1>4. ASSUME NEW d \in DirsFrom(Root), NEW n \in Names, Starting(d, n)
        PROVE  FALSE
        BY <1>4 DEF Starting
  <1>5. ASSUME NEW d \in DirsFrom(Root), NEW n \in Names, Deleting(d, n)
        PROVE  FALSE
        BY <1>1, <1>5, DeletingTodo DEF DeletingHas
  <1>6. ASSUME NEW d \in DirsFrom(Root), NEW n \in Names, Removing(d, n)
        PROVE  FALSE
        BY <1>1, <1>6, RemovingTodo DEF RemovingHas
  <1> QED BY <1>2, <1>3, <1>4, <1>5, <1>6 DEF Phase, Broken

-----------------------------------------------------------------------------
(* An operation starts.                                                    *)
Good == Forest /\ CwdThere /\ Phase

LEMMA AddingIsPhase ==
  (\E d \in DirsFrom(Root), n \in Names, e \in Entries : Adding(d, n, e)) => Phase
  BY DEF Phase
LEMMA AddingNext ==
  (\E d \in DirsFrom(Root), n \in Names, e \in Entries : Adding(d, n, e))' => Phase'
  BY AddingIsPhase, PTL
LEMMA OthersArePhases ==
  (\E d \in DirsFrom(Root), n \in Names :
     Starting(d, n) \/ Deleting(d, n) \/ Removing(d, n)) => Phase
  BY DEF Phase
LEMMA OthersNext ==
  (\E d \in DirsFrom(Root), n \in Names :
     Starting(d, n) \/ Deleting(d, n) \/ Removing(d, n))' => Phase'
  BY OthersArePhases, PTL

LEMMA CommandStarts ==
  ASSUME TypeOK, Forest, CwdThere, Quiet, ~stale,
         NEW d \in DirsFrom(Root), NEW n \in Names, Command(d, n), UNCHANGED session
  PROVE  Good'
  <1> DEFINE f == Entry(d, n).first
             R == DirsFrom(Root)
  <1>1. /\ EntriesTyped /\ d \in Clusters /\ R \subseteq Clusters /\ Root \in Clusters
        /\ cwd \in R /\ cwd' = cwd /\ 0 \notin Clusters
        BY RootIsReached, TreeAssumption DEF Forest, CwdThere, session
  <1>2. /\ entries' = entries /\ used' = used /\ dotdot' = dotdot /\ damaged' = damaged
        /\ SameTree
    <2>1. entries' = entries /\ used' = used /\ dotdot' = dotdot /\ damaged' = damaged
          BY DEF Command, CreateFile, WriteFile, CreateDir, DeleteFile, DeleteDir, Issue, disk
    <2> QED BY <1>1, <2>1, TreeStays
  <1>3. /\ \A x \in Clusters : \A m \in Names : Entry(x, m)' = Entry(x, m)
        /\ R' = R /\ InTree' = InTree /\ Inside(d, n)' = Inside(d, n) /\ Gone(d, n)' = Gone(d, n)
        /\ Forest' /\ Linked' /\ CwdThere' /\ ~damaged'
    <2>1. /\ \A x \in Clusters : \A m \in Names : Entry(x, m)' = Entry(x, m)
          /\ R' = R /\ InTree' = InTree /\ Inside(d, n)' = Inside(d, n) /\ Gone(d, n)' = Gone(d, n)
          /\ Forest'
          BY <1>1, <1>2 DEF SameTree
    <2>2. Linked'
          BY <1>2, <2>1 DEF Quiet, Linked
    <2>3. CwdThere'
          BY <1>1, <2>1 DEF CwdThere
    <2> QED BY <1>2, <2>1, <2>2, <2>3 DEF Quiet
  <1>4. /\ Linked /\ ~damaged /\ used = InTree \cup lost /\ lost \cap InTree = {}
        /\ InTree \subseteq Clusters /\ lost \subseteq Clusters
    <2>1. used \subseteq Clusters
          BY DEF TypeOK
    <2> QED BY <2>1 DEF Quiet, Even
  <1>5. ASSUME NEW e \in Entries, Entry(d, n).kind # "dir", f = 0, lost' = lost,
               target' \notin InTree \cup lost, e.first = target',
               \/ e = File(0) /\ todo' = Takes(d, n, e) /\ target' = 0
               \/ /\ e \in {File(target'), Dir(target')} /\ target' \in Clusters
                  /\ todo' = <<Mark(target')>> \o Takes(d, n, e)
        PROVE  Good'
    <2>1. Adding(d, n, e)'
      <3>1. /\ ~damaged' /\ Linked' /\ e.first = target'
            /\ Entry(d, n)'.kind # "dir" /\ Entry(d, n)'.first = 0
            /\ lost' \cap InTree' = {} /\ target' \notin InTree' \cup lost'
            /\ used' = InTree' \cup lost'
            BY <1>1, <1>2, <1>3, <1>4, <1>5
      <3>2. Takes(d, n, e)' = Takes(d, n, e)
            BY DEF Takes, After, Put, InitDir
      <3>3. CASE e = File(0) /\ todo' = Takes(d, n, e) /\ target' = 0
        <4>1. Putting(d, n, e)'
              BY <3>1, <3>2, <3>3 DEF Putting
        <4> QED BY <3>1, <3>3, <4>1 DEF Adding, File
      <3>4. CASE /\ e \in {File(target'), Dir(target')} /\ target' \in Clusters
                 /\ todo' = <<Mark(target')>> \o Takes(d, n, e)
        <4>1. Marking(d, n, e)'
              BY <3>1, <3>2, <3>4 DEF Marking, Mark
        <4> QED BY <3>1, <3>4, <4>1 DEF Adding, File, Dir
      <3> QED BY <1>5, <3>3, <3>4
    <2>2. Phase'
          BY <1>3, <2>1, AddingNext
    <2> QED BY <1>3, <2>2 DEF Good
  <1>6. FreeClusters # {} => FindEmpty \in Clusters /\ FindEmpty \notin InTree \cup lost
        BY <1>4, FindEmptyIsFree
  <1>7. Entry(d, n) = Absent \/ Entry(d, n) = File(0) => Entry(d, n).kind # "dir" /\ f = 0
        BY DEF Absent, File
  <1>13. ASSUME Issue(<<>>, 0), lost' = lost   \* nothing is written
         PROVE  Good'
    <2>1. todo' = <<>> /\ target' = 0
          BY <1>13 DEF Issue
    <2>2. Even'
          BY <1>2, <1>3, <1>4, <1>13 DEF Even
    <2>3. Phase'
          BY <1>3, <2>1, <2>2, QuietNext DEF Quiet
    <2> QED BY <1>3, <2>3 DEF Good
  <1>8. CASE CreateFile(d, n)
    <2>1. todo' = <<Put(d, n, File(0), {})>> /\ target' = 0 /\ lost' = lost /\ Entry(d, n) = Absent
          BY <1>8 DEF CreateFile, Issue
    <2>2. Takes(d, n, File(0)) = <<Put(d, n, File(0), {})>>
      <3>1. File(0).kind # "dir"
            BY DEF File
      <3>2. Put(d, n, File(0), {}) \in Writes /\ After(d, File(0)) = <<>>
            BY <1>1, <3>1, EntriesMade, TakesIs
      <3> QED BY <3>2, OneWrite DEF Takes
    <2>3. File(0) \in Entries /\ File(0).first = 0
          BY EntriesMade DEF File
    <2>4. 0 \notin InTree \cup lost
          BY <1>1, <1>4
    <2> QED BY <1>5, <1>7, <2>1, <2>2, <2>3, <2>4
  <1>9. CASE WriteFile(d, n)
    <2> SUFFICES ASSUME ~Issue(<<>>, 0) PROVE Good'
        BY <1>9, <1>13 DEF WriteFile
    <2> DEFINE c == FindEmpty
    <2>1. /\ todo' = <<Mark(c), Put(d, n, File(c), {})>> /\ target' = c /\ lost' = lost
          /\ Entry(d, n) = File(0) /\ FreeClusters # {}
          BY <1>9 DEF WriteFile, Issue
    <2>2. c \in Clusters /\ c \notin InTree \cup lost
          BY <1>6, <2>1
    <2> HIDE DEF c
    <2>3. File(c) \in Entries /\ File(c).first = c /\ File(c).kind # "dir"
          BY <2>2, EntriesMade DEF File
    <2>4. todo' = <<Mark(c)>> \o Takes(d, n, File(c))
      <3>1. Put(d, n, File(c), {}) \in Writes /\ After(d, File(c)) = <<>>
            BY <1>1, <2>3, TakesIs
      <3>2. Takes(d, n, File(c)) = <<Put(d, n, File(c), {})>>
            BY <3>1, OneWrite DEF Takes
      <3> QED BY <2>1, <3>2
    <2> QED BY <1>5, <1>7, <2>1, <2>2, <2>3, <2>4
  <1>10. CASE CreateDir(d, n)
    <2> SUFFICES ASSUME ~Issue(<<>>, 0) PROVE Good'
        BY <1>10, <1>13 DEF CreateDir
    <2> DEFINE c == FindEmpty
    <2>1. /\ todo' = <<Mark(c), Put(d, n, Dir(c), {}), InitDir(c, d)>> /\ target' = c /\ lost' = lost
          /\ Entry(d, n) = Absent /\ FreeClusters # {}
          BY <1>10 DEF CreateDir, Issue, DotDotOfNew
    <2>2. c \in Clusters /\ c \notin InTree \cup lost
          BY <1>6, <2>1
    <2> HIDE DEF c
    <2>3. Dir(c) \in Entries /\ Dir(c).first = c /\ Dir(c).kind = "dir"
          BY <2>2, EntriesMade DEF Dir
    <2>4. todo' = <<Mark(c)>> \o Takes(d, n, Dir(c))
      <3>1. After(d, Dir(c)) = <<InitDir(c, d)>>
            BY <1>1, <2>3, TakesIs
      <3>2. Takes(d, n, Dir(c)) = <<Put(d, n, Dir(c), {})>> \o <<InitDir(c, d)>>
            BY <3>1 DEF Takes
      <3> QED BY <2>1, <3>2
    <2> QED BY <1>5, <1>7, <2>1, <2>2, <2>3, <2>4
  <1>11. CASE DeleteFile(d, n)
    <2>1. /\ Entry(d, n) # Absent /\ target' = f /\ lost' = lost \cup Inside(d, n)
          /\ todo' = Free({f} \ {0}) \o <<Put(d, n, Absent, Gone(d, n))>>
          /\ stale' = (Entry(d, n).kind = "dir" /\ cwd \in Gone(d, n))
          BY <1>11 DEF DeleteFile, Issue, Inside, Gone
    <2>2. Inside(d, n) \subseteq AllFirsts
          BY <2>1, GoneFacts
    <2>3. todo' = Free({f} \ {0}) \o Drops(d, n)
          BY <2>1 DEF Drops
    <2>4. \/ f # 0 /\ todo' = Free({f}) \o Drops(d, n)
          \/ f = 0 /\ todo' = Drops(d, n)
      <3>1. f # 0 => {f} \ {0} = {f}
            OBVIOUS
      <3>2. f = 0 => Free({f} \ {0}) = <<>>
            BY FreeIs
      <3>3. <<>> \o Drops(d, n) = Drops(d, n)
            BY <1>1, DropsIs, NoWrites
      <3> QED BY <2>3, <3>1, <3>2, <3>3
    <2>5. ~stale' => cwd \notin Gone(d, n)
      <3> SUFFICES ASSUME Entry(d, n).kind # "dir", cwd = f PROVE FALSE
          BY <2>1 DEF Gone, Inside
      <3>1. Entry(d, n).kind = "file"
            BY <1>1, <2>1, EntryKinds
      <3> QED BY <1>1, <3>1, FileHasNoEntries
    <2>6. InTree \cup lost' = InTree \cup lost /\ lost' \cap InTree \subseteq Inside(d, n)
          BY <1>4, <2>1, <2>2 DEF InTree
    <2>7. f = 0 => (InTree \cup lost) \ {f} = InTree \cup lost
          BY <1>1, <1>4
    <2>8. Drops(d, n)' = Drops(d, n)
          BY <1>3 DEF Drops, Put, Absent
    <2>9. Deleting(d, n)'
      <3>1. Entry(d, n)' = Entry(d, n) /\ Inside(d, n) \subseteq lost'
            BY <1>1, <1>3, <2>1
      <3>3. \/ /\ target' # 0 /\ used' = InTree' \cup lost'
               /\ todo' = Free({target'}) \o Drops(d, n)'
            \/ used' = (InTree' \cup lost') \ {target'} /\ todo' = Drops(d, n)'
            BY <1>2, <1>3, <1>4, <2>1, <2>4, <2>6, <2>7, <2>8
      <3>4. ~stale' => cwd' \notin Gone(d, n)'
            BY <1>1, <1>3, <2>5
      <3>5. target' = Entry(d, n)'.first /\ Entry(d, n)' # Absent
            BY <2>1, <3>1
      <3>6. Inside(d, n)' \subseteq lost' /\ lost' \cap InTree' \subseteq Inside(d, n)'
            BY <1>3, <2>6, <3>1
      <3> QED BY <1>3, <3>3, <3>4, <3>5, <3>6 DEF Deleting, Free, Absent
    <2>10. Phase'
           BY <1>3, <2>9, OthersNext
    <2> QED BY <1>3, <2>10 DEF Good
  <1>12. CASE DeleteDir(d, n)
    <2>1. /\ Entry(d, n) # Absent /\ target' = 0 /\ lost' = lost
          /\ todo' = <<Put(d, n, Absent, Gone(d, n))>> \o Free(Inside(d, n)) \o Free({f} \ {0})
          /\ stale' = (cwd \in Gone(d, n))
          BY <1>12 DEF DeleteDir, Issue, Inside, Cleared, Gone, Removal
    <2>2. todo' = Drops(d, n) \o (Free(Inside(d, n)) \o Free({f} \ {0}))
      <3> DEFINE a == <<Put(d, n, Absent, Gone(d, n))>>
                 b == Free(Inside(d, n))
                 c == Free({f} \ {0})
      <3>1. a \in Seq(Writes) /\ b \in Seq(Writes) /\ c \in Seq(Writes) /\ a = Drops(d, n)
            BY <1>1, DropsIs, InsideTyped, FreeTyped
      <3>2. todo' = (a \o b) \o c
            BY <2>1
      <3> HIDE DEF a, b, c
      <3>3. (a \o b) \o c = a \o (b \o c)
            BY <3>1, ConcatAssociative
      <3> QED BY <3>1, <3>2, <3>3 DEF a, b, c
    <2>3. Removing(d, n)'
      <3>1. Drops(d, n)' = Drops(d, n)
            BY <1>3 DEF Drops, Put, Absent
      <3>2. Entry(d, n)' = Entry(d, n) /\ Even'
            BY <1>1, <1>2, <1>3, <1>4, <2>1 DEF Even
      <3>3. todo' = Drops(d, n)' \o (Free(Inside(d, n)') \o Free({Entry(d, n)'.first} \ {0}))
            BY <1>3, <2>2, <3>1, <3>2
      <3> QED BY <1>1, <1>3, <2>1, <3>2, <3>3 DEF Removing, Free, Absent
    <2>4. Phase'
          BY <1>3, <2>3, OthersNext
    <2> QED BY <1>3, <2>4 DEF Good
  <1> QED BY <1>8, <1>9, <1>10, <1>11, <1>12 DEF Command

-----------------------------------------------------------------------------
(* The disk writes.                                                        *)
Write == WriteMark \/ WriteFree \/ WritePut \/ WriteInit

LEMMA PutSlot ==
  ASSUME TypeOK, NEW d \in Clusters, NEW n \in Names, NEW e \in Entries,
         Head(todo) = Put(d, n, e, {}), WritePut
  PROVE  Slot(d, n, e) /\ dotdot' = dotdot /\ used' = used
  <1> DEFINE w == Head(todo)
  <1>1. w.op = "put" /\ w.d = d /\ w.n = n /\ w.e = e /\ w.gone = {}
        BY DEF Put
  <1>2. /\ entries' = [c \in Clusters |-> IF c \in w.gone THEN EmptyDir
                                      ELSE IF c = w.d THEN [entries[c] EXCEPT ![w.n] = w.e]
                                      ELSE entries[c]]
        /\ dotdot' = [c \in Clusters |-> IF c \in w.gone THEN 0 ELSE dotdot[c]]
        /\ used' = used
        BY DEF WritePut
  <1>3. w \in Writes
        BY <1>1, PutTyped
  <1>4. EntriesTyped'
        BY <1>1, <1>2, <1>3, WrittenTyped DEF EntriesTyped
  <1> HIDE DEF w
  <1>5. \A c \in Clusters : entries'[c] = IF c = d THEN [entries[c] EXCEPT ![n] = e] ELSE entries[c]
        BY <1>1, <1>2
  <1>6. \A c \in Clusters : entries[c] \in [Names -> Entries]
        BY DEF TypeOK
  <1>7. \A x \in Clusters : \A m \in Names : Entry(x, m)' = IF x = d /\ m = n THEN e ELSE Entry(x, m)
        BY <1>5, <1>6 DEF Entry
  <1>8. dotdot' = dotdot
    <2>1. dotdot = [c \in Clusters |-> dotdot[c]]
          BY DEF TypeOK
    <2> QED BY <1>1, <1>2, <2>1
  <1> QED BY <1>2, <1>4, <1>5, <1>7, <1>8 DEF Slot

LEMMA PutCut ==
  ASSUME TypeOK, NEW d \in Clusters, NEW n \in Names, NEW G \in SUBSET (Clusters \cup {0}),
         Head(todo) = Put(d, n, Absent, G), d \notin G, WritePut
  PROVE  /\ Cut(d, n, G) /\ used' = used
         /\ \A c \in Clusters : c \notin G => dotdot'[c] = dotdot[c]
  <1> DEFINE w == Head(todo)
  <1>1. w.op = "put" /\ w.d = d /\ w.n = n /\ w.e = Absent /\ w.gone = G
        BY DEF Put
  <1>2. /\ entries' = [c \in Clusters |-> IF c \in w.gone THEN EmptyDir
                                      ELSE IF c = w.d THEN [entries[c] EXCEPT ![w.n] = w.e]
                                      ELSE entries[c]]
        /\ dotdot' = [c \in Clusters |-> IF c \in w.gone THEN 0 ELSE dotdot[c]]
        /\ used' = used
        BY DEF WritePut
  <1>3. w \in Writes
        BY <1>1, PutTyped, EntriesMade
  <1>4. EntriesTyped'
        BY <1>1, <1>2, <1>3, WrittenTyped DEF EntriesTyped
  <1> HIDE DEF w
  <1>5. \A c \in Clusters : entries'[c] = IF c \in G THEN EmptyDir
                                          ELSE IF c = d THEN [entries[c] EXCEPT ![n] = Absent]
                                          ELSE entries[c]
        BY <1>1, <1>2
  <1>6. \A c \in Clusters : entries[c] \in [Names -> Entries]
        BY DEF TypeOK
  <1>7. \A x \in Clusters : \A m \in Names :
          x \notin G => Entry(x, m)' = IF x = d /\ m = n THEN Absent ELSE Entry(x, m)
        BY <1>5, <1>6 DEF Entry
  <1>8. \A c \in Clusters : c \notin G => dotdot'[c] = dotdot[c]
        BY <1>1, <1>2
  <1> QED BY <1>2, <1>4, <1>5, <1>7, <1>8 DEF Cut

LEMMA WriteOps ==
  ASSUME Write
  PROVE  /\ Head(todo).op = "mark" => WriteMark
         /\ Head(todo).op = "free" => WriteFree
         /\ Head(todo).op = "put" => WritePut
         /\ Head(todo).op = "init" => WriteInit
  BY DEF Write, WriteMark, WriteFree, WritePut, WriteInit

LEMMA MarkedSteps ==
  ASSUME TypeOK, Forest, CwdThere, NEW d \in DirsFrom(Root), NEW n \in Names, NEW e \in Entries,
         Adding(d, n, e), e \in {File(target), Dir(target)}, target \in Clusters,
         Marking(d, n, e), Write
  PROVE  Good'
  <1> DEFINE R == DirsFrom(Root)
  <1>1. EntriesTyped /\ d \in Clusters /\ R \subseteq Clusters /\ Root \in Clusters
        BY RootIsReached DEF Forest
  <1>2. Head(todo) = Mark(target) /\ Tail(todo) = Takes(d, n, e)
        BY <1>1, AddingTodo DEF AddingHas
  <1>3. WriteMark
        BY <1>2, WriteOps DEF Mark
  <1>4. /\ used' = used \cup {target} /\ entries' = entries /\ dotdot' = dotdot
        /\ Wrote(Takes(d, n, e))
    <2>1. Mark(target).c = target
          BY DEF Mark
    <2> QED BY <1>2, <1>3, <2>1 DEF WriteMark
  <1>5. /\ todo' = Takes(d, n, e) /\ target' = target /\ cwd' = cwd /\ stale' = stale
        /\ lost' = lost /\ damaged' = damaged
        BY <1>1, <1>4, TakesIs DEF Wrote, session
  <1>6. /\ Entry(d, n)' = Entry(d, n) /\ R' = R /\ InTree' = InTree /\ Forest'
        /\ \A x \in Clusters : \A m \in Names : Entry(x, m)' = Entry(x, m)
        BY <1>1, <1>4, TreeStays DEF SameTree
  <1>7. Linked' /\ CwdThere'
    <2>1. Linked'
          BY <1>4, <1>6 DEF Adding, Linked
    <2> QED BY <1>5, <1>6, <2>1 DEF CwdThere
  <1>8. Adding(d, n, e)'
    <2>1. /\ ~damaged' /\ Linked' /\ e.first = target'
          /\ Entry(d, n)'.kind # "dir" /\ Entry(d, n)'.first = 0
          /\ lost' \cap InTree' = {} /\ target' \notin InTree' \cup lost'
          BY <1>5, <1>6, <1>7 DEF Adding
    <2>2. used' = InTree' \cup lost' \cup ({target'} \ {0})
      <3>1. 0 \notin Clusters
            BY TreeAssumption
      <3> QED BY <1>4, <1>5, <1>6, <3>1 DEF Marking
    <2>3. Takes(d, n, e)' = Takes(d, n, e)
          BY DEF Takes, After, Put, InitDir
    <2>4. Putting(d, n, e)'
          BY <1>5, <2>2, <2>3 DEF Putting
    <2> QED BY <1>5, <2>1, <2>4 DEF Adding, File, Dir
  <1>9. Phase'
        BY <1>6, <1>8, AddingNext
  <1> QED BY <1>6, <1>7, <1>9 DEF Good

LEMMA PutSteps ==
  ASSUME TypeOK, Forest, CwdThere, NEW d \in DirsFrom(Root), NEW n \in Names, NEW e \in Entries,
         Adding(d, n, e), Putting(d, n, e), Write
  PROVE  Good'
  <1> DEFINE R == DirsFrom(Root)
  <1>1. /\ EntriesTyped /\ d \in Clusters /\ R \subseteq Clusters /\ Root \in Clusters
        /\ 0 \notin Clusters /\ R \subseteq InTree
    <2>1. EntriesTyped /\ d \in Clusters /\ R \subseteq Clusters /\ Root \in Clusters
          BY RootIsReached DEF Forest
    <2>2. R \subseteq InTree
          BY <2>1, BelowHasFirst, BelowRootIsAll DEF InTree
    <2> QED BY <2>1, <2>2, TreeAssumption
  <1>2. Head(todo) = Put(d, n, e, {}) /\ Tail(todo) = After(d, e)
        BY <1>1, AddingTodo DEF AddingHas
  <1>3. WritePut
        BY <1>2, WriteOps DEF Put
  <1>4. Slot(d, n, e) /\ dotdot' = dotdot /\ used' = used /\ Wrote(After(d, e))
    <2>1. Wrote(After(d, e))
          BY <1>2, <1>3 DEF WritePut
    <2> QED BY <1>1, <1>2, <1>3, <2>1, PutSlot
  <1>5. /\ todo' = After(d, e) /\ target' = (IF After(d, e) = <<>> THEN 0 ELSE target)
        /\ cwd' = cwd /\ stale' = stale /\ lost' = lost /\ damaged' = damaged
        BY <1>4 DEF Wrote, session
  <1>6. /\ ~damaged /\ Linked /\ e.first = target /\ lost \cap InTree = {}
        /\ target \notin InTree \cup lost
        /\ Entry(d, n).kind # "dir" /\ Entry(d, n).first = 0
        /\ used = InTree \cup lost \cup ({target} \ {0})
        BY DEF Adding, Putting
  <1>7. Forest' /\ AllFirsts' = AllFirsts \cup ({target} \ {0}) /\ R \subseteq R'
        BY <1>4, <1>6, AddsEntry
  <1>8. InTree' = InTree \cup ({target} \ {0})
        BY <1>7 DEF InTree
  <1>9. CwdThere'
        BY <1>5, <1>7 DEF CwdThere
  <1>10. Even'
    <2>1. used' = InTree' \cup lost'
          BY <1>4, <1>5, <1>6, <1>8
    <2>2. lost' \cap InTree' = {}
          BY <1>5, <1>6, <1>8
    <2> QED BY <2>1, <2>2 DEF Even
  <1>11. \A x \in Clusters : \A m \in Names :
           Entry(x, m)' = IF x = d /\ m = n THEN e ELSE Entry(x, m)
         BY <1>4 DEF Slot
  <1>12. CASE e.kind # "dir"
    <2>1. todo' = <<>> /\ target' = 0
          BY <1>1, <1>5, <1>12, TakesIs
    <2>2. Linked'
          BY <1>4, <1>6, <1>11, <1>12 DEF Linked
    <2>3. Phase'
          BY <1>5, <1>6, <1>10, <2>1, <2>2, QuietNext DEF Quiet
    <2> QED BY <1>7, <1>9, <2>3 DEF Good
  <1>13. CASE e.kind = "dir"
    <2>1. /\ todo' = <<InitDir(target, d)>> /\ target' = target /\ target \in Clusters
          BY <1>1, <1>5, <1>6, <1>13, TakesIs
    <2>2. e = Dir(target)
          BY <1>6, <1>13 DEF Entries, Absent, File, Dir
    <2>3. LinkedBut(target)'
      <3> SUFFICES ASSUME NEW x \in Clusters, NEW m \in Names,
                          Entry(x, m)'.kind = "dir", Entry(x, m)'.first # target
                   PROVE  dotdot'[Entry(x, m)'.first] = x
          BY <2>1 DEF LinkedBut
      <3>1. Entry(x, m)' = Entry(x, m)
            BY <1>6, <1>11
      <3> QED BY <1>4, <1>6, <3>1 DEF Linked
    <2>4. entries'[target] = EmptyDir
      <3>1. target \notin R /\ target # d
            BY <1>1, <1>6
      <3> QED BY <1>4, <2>1, <3>1 DEF Slot, Forest, OnlyReached
    <2>5. Entry(d, n)' = Dir(target)
          BY <1>1, <1>11, <2>2
    <2>6. Starting(d, n)'
          BY <1>5, <1>6, <1>10, <2>1, <2>3, <2>4, <2>5 DEF Starting, InitDir, Dir, EmptyDir, Absent
    <2>7. Phase'
          BY <1>7, <2>6, OthersNext
    <2> QED BY <1>7, <1>9, <2>7 DEF Good
  <1> QED BY <1>12, <1>13

LEMMA StartingSteps ==
  ASSUME TypeOK, Forest, CwdThere, NEW d \in DirsFrom(Root), NEW n \in Names,
         Starting(d, n), Write
  PROVE  Good'
  <1> DEFINE R == DirsFrom(Root)
             w == Head(todo)
  <1>1. EntriesTyped /\ d \in Clusters /\ R \subseteq Clusters /\ Root \in Clusters
        BY RootIsReached DEF Forest
  <1>2. /\ target \in Clusters /\ entries[target] = EmptyDir /\ Entry(d, n) = Dir(target) /\ Even
        /\ ~damaged /\ LinkedBut(target) /\ w = InitDir(target, d) /\ Tail(todo) = <<>>
    <2>1. todo = <<InitDir(target, d)>>
          BY DEF Starting
    <2>2. w = InitDir(target, d) /\ Tail(todo) = <<>>
          BY <2>1
    <2> QED BY <2>2 DEF Starting
  <1>3. WriteInit
        BY <1>2, WriteOps DEF InitDir
  <1>4. /\ entries' = [entries EXCEPT ![target] = EmptyDir]
        /\ dotdot' = [dotdot EXCEPT ![target] = d] /\ used' = used /\ Wrote(<<>>)
    <2>1. InitDir(target, d).c = target /\ InitDir(target, d).parent = d
          BY DEF InitDir
    <2> QED BY <1>2, <1>3, <2>1 DEF WriteInit
  <1>5. entries' = entries
    <2>1. entries \in [Clusters -> [Names -> Entries]]
          BY DEF TypeOK
    <2> QED BY <1>2, <1>4, <2>1
  <1>6. /\ todo' = <<>> /\ target' = 0 /\ cwd' = cwd /\ stale' = stale
        /\ lost' = lost /\ damaged' = damaged
        BY <1>4 DEF Wrote, session
  <1>7. /\ R' = R /\ InTree' = InTree /\ Forest'
        /\ \A x \in Clusters : \A m \in Names : Entry(x, m)' = Entry(x, m)
        BY <1>1, <1>5, TreeStays DEF SameTree
  <1>8. Linked'
    <2> SUFFICES ASSUME NEW x \in Clusters, NEW m \in Names, Entry(x, m).kind = "dir"
                 PROVE  dotdot'[Entry(x, m).first] = x
        BY <1>7 DEF Linked
    <2> DEFINE f == Entry(x, m).first
    <2>1. f \in Clusters /\ f # 0
          BY <1>1, EntryKinds
    <2>2. dotdot \in [Clusters -> Clusters \cup {0}]
          BY DEF TypeOK
    <2>3. CASE f = target
      <3>1. Entry(d, n).first = target
            BY <1>2 DEF Dir
      <3>2. x = d
            BY <1>1, <2>1, <2>3, <3>1 DEF Forest, Apart
      <3>3. dotdot'[target] = d
            BY <1>2, <1>4, <2>2
      <3> QED BY <2>3, <3>2, <3>3
    <2>4. CASE f # target
      <3>1. dotdot[f] = x
            BY <1>2, <2>4 DEF LinkedBut
      <3> HIDE DEF f
      <3>2. dotdot'[f] = dotdot[f]
            BY <1>4, <2>1, <2>2, <2>4
      <3> QED BY <3>1, <3>2 DEF f
    <2> QED BY <2>3, <2>4
  <1>9. CwdThere' /\ Even'
        BY <1>2, <1>4, <1>6, <1>7 DEF CwdThere, Even
  <1>10. Phase'
         BY <1>2, <1>6, <1>8, <1>9, QuietNext DEF Quiet
  <1> QED BY <1>7, <1>9, <1>10 DEF Good

(* What a put that deletes an entry does.                                  *)
LEMMA DroppedFacts ==
  ASSUME TypeOK, Forest, Linked, CwdThere, NEW d \in DirsFrom(Root), NEW n \in Names,
         Entry(d, n) # Absent, ~stale => cwd \notin Gone(d, n),
         Head(todo) = Put(d, n, Absent, Gone(d, n)), WritePut,
         cwd' = cwd, stale' = stale
  PROVE  /\ Forest' /\ Linked' /\ CwdThere' /\ used' = used
         /\ AllFirsts' = AllFirsts \ Gone(d, n) /\ InTree' = InTree \ Gone(d, n)
  <1> DEFINE G == Gone(d, n)
             R == DirsFrom(Root)
  <1>1. EntriesTyped /\ d \in Clusters /\ R \subseteq Clusters /\ Root \in Clusters
        BY RootIsReached DEF Forest
  <1>2. /\ G \in SUBSET (Clusters \cup {0}) /\ Root \notin G /\ d \notin G
        /\ \A x \in Clusters : \A m \in Names :
             Entry(x, m).first # 0 /\ Entry(x, m).first \in G => x \in G \/ (x = d /\ m = n)
        BY GoneFacts DEF Gone
  <1>3. /\ Cut(d, n, G) /\ used' = used
        /\ \A c \in Clusters : c \notin G => dotdot'[c] = dotdot[c]
        BY <1>1, <1>2, PutCut
  <1>4. Forest' /\ AllFirsts' = AllFirsts \ G /\ R \ G \subseteq R'
        BY <1>3, DropsEntry
  <1>5. InTree' = InTree \ G
        BY <1>2, <1>4 DEF InTree
  <1>6. CwdThere'
        BY <1>4 DEF CwdThere
  <1>7. Linked'
    <2> SUFFICES ASSUME NEW x \in Clusters, NEW m \in Names, Entry(x, m)'.kind = "dir"
                 PROVE  dotdot'[Entry(x, m)'.first] = x
        BY DEF Linked
    <2>1. Entry(x, m)' = Entry(x, m) /\ x \notin G /\ ~(x = d /\ m = n)
      <3>1. x \in G => Entry(x, m)' = Absent
            BY <1>3 DEF Cut, Entry, EmptyDir
      <3>2. x \notin G => Entry(x, m)' = IF x = d /\ m = n THEN Absent ELSE Entry(x, m)
            BY <1>3 DEF Cut
      <3>3. Absent.kind # "dir"
            BY DEF Absent
      <3> QED BY <3>1, <3>2, <3>3
    <2>2. Entry(x, m).first \in Clusters /\ Entry(x, m).first # 0
          BY <1>1, <2>1, EntryKinds
    <2>3. Entry(x, m).first \notin G
          BY <1>2, <2>1, <2>2
    <2>4. dotdot[Entry(x, m).first] = x
          BY <2>1 DEF Linked
    <2> QED BY <1>3, <2>1, <2>2, <2>3, <2>4
  <1> QED BY <1>3, <1>4, <1>5, <1>6, <1>7

LEMMA DeletingSteps ==
  ASSUME TypeOK, Forest, CwdThere, NEW d \in DirsFrom(Root), NEW n \in Names,
         Deleting(d, n), Write
  PROVE  Good'
  <1> DEFINE R == DirsFrom(Root)
  <1>1. /\ EntriesTyped /\ d \in Clusters /\ R \subseteq Clusters /\ Root \in Clusters
        /\ 0 \notin Clusters
        BY RootIsReached, TreeAssumption DEF Forest
  <1>2. DeletingHas(d, n)
        BY <1>1, DeletingTodo
  <1>3. /\ ~damaged /\ Linked /\ Entry(d, n) # Absent /\ target = Entry(d, n).first
        /\ ~stale => cwd \notin Gone(d, n)
        /\ Inside(d, n) \subseteq lost /\ lost \cap InTree \subseteq Inside(d, n)
        BY DEF Deleting
  <1>4. CASE target # 0 /\ used = InTree \cup lost /\ todo = Free({target}) \o Drops(d, n)
    <2>1. Head(todo) = FreeWrite({target}) /\ Tail(todo) = Drops(d, n)
          BY <1>2, <1>4 DEF DeletingHas
    <2>2. WriteFree
          BY <2>1, WriteOps DEF FreeWrite
    <2>3. PICK c \in {target} : used' = used \ {c} /\ Wrote(Free({target} \ {c}) \o Drops(d, n))
      <3>1. FreeWrite({target}).cs = {target}
            BY DEF FreeWrite
      <3> QED BY <2>1, <2>2, <3>1 DEF WriteFree
    <2>4. used' = used \ {target} /\ Wrote(Drops(d, n))
      <3>1. Free({}) \o Drops(d, n) = Drops(d, n)
            BY <1>1, DropsIs, FreeIs, NoWrites
      <3>2. {target} \ {c} = {} /\ c = target
            BY <2>3
      <3> QED BY <2>3, <3>1, <3>2
    <2>5. /\ todo' = Drops(d, n) /\ target' = target /\ cwd' = cwd /\ stale' = stale
          /\ lost' = lost /\ damaged' = damaged
          BY <1>1, <2>4, DropsIs DEF Wrote, session
    <2>6. entries' = entries /\ dotdot' = dotdot
          BY <2>2 DEF WriteFree
    <2>7. /\ R' = R /\ InTree' = InTree /\ Forest'
          /\ \A x \in Clusters : \A m \in Names : Entry(x, m)' = Entry(x, m)
          /\ Inside(d, n)' = Inside(d, n) /\ Gone(d, n)' = Gone(d, n)
          BY <1>1, <2>6, TreeStays DEF SameTree
    <2>8. Linked' /\ CwdThere'
          BY <1>3, <2>5, <2>6, <2>7 DEF Linked, CwdThere
    <2>9. Deleting(d, n)'
      <3>1. Drops(d, n)' = Drops(d, n)
            BY <2>7 DEF Drops, Put, Absent
      <3>2. Entry(d, n)' = Entry(d, n)
            BY <1>1, <2>7
      <3>3. used' = (InTree' \cup lost') \ {target'} /\ todo' = Drops(d, n)'
            BY <1>4, <2>4, <2>5, <2>7, <3>1
      <3>4. /\ ~damaged' /\ Linked' /\ Entry(d, n)' # Absent /\ target' = Entry(d, n)'.first
            /\ ~stale' => cwd' \notin Gone(d, n)'
            /\ Inside(d, n)' \subseteq lost' /\ lost' \cap InTree' \subseteq Inside(d, n)'
            BY <1>3, <2>5, <2>7, <2>8, <3>2
      <3> QED BY <3>3, <3>4 DEF Deleting, Absent
    <2>10. Phase'
           BY <2>7, <2>9, OthersNext
    <2> QED BY <2>7, <2>8, <2>10 DEF Good
  <1>5. CASE used = (InTree \cup lost) \ {target} /\ todo = Drops(d, n)
    <2>1. Head(todo) = Put(d, n, Absent, Gone(d, n)) /\ Tail(todo) = <<>>
          BY <1>2, <1>5 DEF DeletingHas
    <2>2. WritePut
          BY <2>1, WriteOps DEF Put
    <2>3. Wrote(<<>>)
          BY <2>1, <2>2 DEF WritePut
    <2>4. /\ todo' = <<>> /\ target' = 0 /\ cwd' = cwd /\ stale' = stale
          /\ lost' = lost /\ damaged' = damaged
          BY <2>3 DEF Wrote, session
    <2>5. /\ Forest' /\ Linked' /\ CwdThere' /\ used' = used
          /\ InTree' = InTree \ Gone(d, n)
          BY <1>3, <2>1, <2>2, <2>4, DroppedFacts
    <2>6. Even'
      <3>1. target \notin Inside(d, n) /\ Gone(d, n) = Inside(d, n) \cup {target}
            BY <1>3, GoneFacts DEF Gone
      <3>2. target # 0 => target \in InTree
        <4>1. target # 0 => target \in Firsts(d)
              BY <1>1, <1>3, InFirsts
        <4> QED BY <1>1, <4>1 DEF InTree, AllFirsts
      <3>3. 0 \notin lost
            BY <1>1 DEF TypeOK
      <3>4. target \notin lost
            BY <1>3, <3>1, <3>2, <3>3
      <3>5. used' = InTree' \cup lost'
            BY <1>3, <1>5, <2>4, <2>5, <3>1, <3>4
      <3>6. lost' \cap InTree' = {}
            BY <1>3, <2>4, <2>5, <3>1
      <3> QED BY <3>5, <3>6 DEF Even
    <2>7. Phase'
          BY <1>3, <2>4, <2>5, <2>6, QuietNext DEF Quiet
    <2> QED BY <2>5, <2>7 DEF Good
  <1> QED BY <1>4, <1>5 DEF Deleting

LEMMA FreeingIsPhase == (\E us, vs \in SUBSET Clusters : Freeing(us, vs)) => Phase
  BY DEF Phase
LEMMA FreeingNext == (\E us, vs \in SUBSET Clusters : Freeing(us, vs))' => Phase'
  BY FreeingIsPhase, PTL

LEMMA RemovingSteps ==
  ASSUME TypeOK, Forest, CwdThere, NEW d \in DirsFrom(Root), NEW n \in Names,
         Removing(d, n), Write
  PROVE  Good'
  <1> DEFINE f == Entry(d, n).first
  <1>1. /\ EntriesTyped /\ d \in Clusters /\ Root \in Clusters /\ 0 \notin Clusters
        BY RootIsReached, TreeAssumption DEF Forest
  <1>0. PICK us \in SUBSET Clusters, vs \in SUBSET Clusters : us = Inside(d, n) /\ vs = {f} \ {0}
        BY <1>1, InsideTyped
  <1>2. /\ ~damaged /\ Linked /\ Entry(d, n) # Absent /\ target = 0
        /\ used = InTree \cup lost /\ lost \cap InTree = {}
        /\ ~stale => cwd \notin Gone(d, n)
        BY DEF Removing, Even
  <1>3. Head(todo) = Put(d, n, Absent, Gone(d, n)) /\ Tail(todo) = Free(us) \o Free(vs)
        BY <1>0, <1>1, RemovingTodo DEF RemovingHas
  <1>4. WritePut
        BY <1>3, WriteOps DEF Put
  <1>5. Wrote(Free(us) \o Free(vs))
        BY <1>3, <1>4 DEF WritePut
  <1>6. /\ us \subseteq AllFirsts /\ vs \subseteq AllFirsts /\ us \cap vs = {}
        /\ Gone(d, n) = us \cup {f} /\ Root \notin Gone(d, n)
    <2>2. us \subseteq AllFirsts /\ f \notin us /\ Root \notin Gone(d, n)
          BY <1>0, <1>2, GoneFacts
    <2>3. f # 0 => f \in AllFirsts
      <3>1. f # 0 => f \in Firsts(d)
            BY <1>1, InFirsts
      <3> QED BY <1>1, <3>1 DEF AllFirsts
    <2> QED BY <1>0, <2>2, <2>3 DEF Gone
  <1>7. /\ todo' = Free(us) \o Free(vs) /\ target' = 0 /\ cwd' = cwd /\ stale' = stale
        /\ lost' = lost /\ damaged' = damaged
        BY <1>2, <1>5 DEF Wrote, session
  <1>8. /\ Forest' /\ Linked' /\ CwdThere' /\ used' = used
        /\ AllFirsts' = AllFirsts \ Gone(d, n) /\ InTree' = InTree \ Gone(d, n)
        BY <1>2, <1>3, <1>4, <1>7, DroppedFacts
  <1>9. 0 \notin AllFirsts
        BY <1>1, FirstsTyped DEF AllFirsts
  <1>10. used' = InTree' \cup lost' \cup us \cup vs
    <2>1. InTree = (InTree \ Gone(d, n)) \cup us \cup vs
      <3>1. vs = {f} \ {0}
            BY <1>0
      <3>2. \A x \in InTree : x \in Gone(d, n) => x \in us \cup vs
        <4>1. \A x \in InTree : x = f => x # 0
              BY <1>1, <1>9 DEF InTree
        <4> QED BY <1>6, <3>1, <4>1
      <3> QED BY <1>6, <3>2 DEF InTree
    <2> QED BY <1>2, <1>7, <1>8, <2>1
  <1>11. us \cup vs \subseteq Gone(d, n)
    <2>1. vs \subseteq {f}
          BY <1>0
    <2> QED BY <1>6, <2>1
  <1>12. (us \cup vs) \cap (InTree' \cup lost') = {} /\ lost' \cap InTree' = {}
    <2>1. us \cup vs \subseteq InTree
          BY <1>6 DEF InTree
    <2> QED BY <1>2, <1>7, <1>8, <1>11, <2>1
  <1>13. Freeing(us, vs)'
         BY <1>2, <1>6, <1>7, <1>8, <1>10, <1>12 DEF Freeing, Free
  <1>14. Phase'
         BY <1>13, FreeingNext
  <1> QED BY <1>8, <1>14 DEF Good

LEMMA FreeingSteps ==
  ASSUME TypeOK, Forest, CwdThere, NEW us \in SUBSET Clusters, NEW vs \in SUBSET Clusters,
         Freeing(us, vs), todo # <<>>, Write
  PROVE  Good'
  <1>1. EntriesTyped /\ Root \in Clusters
        BY RootIsReached DEF Forest
  <1>2. /\ ~damaged /\ Linked /\ target = 0
        /\ us \cap vs = {} /\ (us \cup vs) \cap (InTree \cup lost) = {}
        /\ used = InTree \cup lost \cup us \cup vs /\ lost \cap InTree = {}
        BY DEF Freeing
  <1>3. \E as, bs \in SUBSET Clusters :
          /\ as \cap bs = {} /\ as \cup bs \subseteq us \cup vs
          /\ used' = used \ ((us \cup vs) \ (as \cup bs)) /\ WriteFree
          /\ Wrote(Free(as) \o Free(bs))
    <2>1. CASE us # {}
      <3>1. Head(todo) = FreeWrite(us) /\ Tail(todo) = Free(vs)
            BY <2>1, FreeingTodo DEF FreeingHas
      <3>2. WriteFree
            BY <3>1, WriteOps DEF FreeWrite
      <3>3. PICK c \in us : used' = used \ {c} /\ Wrote(Free(us \ {c}) \o Free(vs))
        <4>1. FreeWrite(us).cs = us
              BY DEF FreeWrite
        <4> QED BY <3>1, <3>2, <4>1 DEF WriteFree
      <3>4. (us \cup vs) \ ((us \ {c}) \cup vs) = {c}
            BY <1>2, <3>3
      <3>5. us \ {c} \in SUBSET Clusters /\ (us \ {c}) \cap vs = {} /\ (us \ {c}) \cup vs \subseteq us \cup vs
            BY <1>2
      <3> QED BY <3>2, <3>3, <3>4, <3>5
    <2>2. CASE us = {}
      <3>1. vs # {}
            BY <2>2, FreeIs, NoWrites, FreeTyped DEF Freeing
      <3>2. Head(todo) = FreeWrite(vs) /\ Tail(todo) = <<>>
            BY <2>2, <3>1, FreeingTodo DEF FreeingHas
      <3>3. WriteFree
            BY <3>2, WriteOps DEF FreeWrite
      <3>4. PICK c \in vs : used' = used \ {c} /\ Wrote(Free(vs \ {c}) \o <<>>)
        <4>1. FreeWrite(vs).cs = vs
              BY DEF FreeWrite
        <4> QED BY <3>2, <3>3, <4>1 DEF WriteFree
      <3>5. Free(vs \ {c}) \o <<>> = Free({}) \o Free(vs \ {c})
        <4>1. Free({}) = <<>> /\ Free(vs \ {c}) \in Seq(Writes)
              BY FreeIs, FreeTyped
        <4> QED BY <4>1, NoWrites
      <3>6. (us \cup vs) \ ({} \cup (vs \ {c})) = {c}
            BY <2>2, <3>4
      <3>7. /\ {} \in SUBSET Clusters /\ vs \ {c} \in SUBSET Clusters
            /\ {} \cap (vs \ {c}) = {} /\ {} \cup (vs \ {c}) \subseteq us \cup vs
            OBVIOUS
      <3> DEFINE a == Free({}) \o Free(vs \ {c})
      <3>8. Wrote(a)
            BY <3>4, <3>5
      <3> QED BY <3>3, <3>4, <3>6, <3>7, <3>8
    <2> QED BY <2>1, <2>2
  <1>4. PICK as \in SUBSET Clusters, bs \in SUBSET Clusters :
          /\ as \cap bs = {} /\ as \cup bs \subseteq us \cup vs
          /\ used' = used \ ((us \cup vs) \ (as \cup bs)) /\ WriteFree
          /\ Wrote(Free(as) \o Free(bs))
        BY <1>3
  <1>5. /\ todo' = Free(as) \o Free(bs) /\ target' = 0 /\ cwd' = cwd /\ stale' = stale
        /\ lost' = lost /\ damaged' = damaged
        BY <1>2, <1>4 DEF Wrote, session
  <1>6. entries' = entries /\ dotdot' = dotdot
        BY <1>4 DEF WriteFree
  <1>7. /\ DirsFrom(Root)' = DirsFrom(Root) /\ InTree' = InTree /\ Forest'
        /\ \A x \in Clusters : \A m \in Names : Entry(x, m)' = Entry(x, m)
        BY <1>1, <1>6, TreeStays DEF SameTree
  <1>8. Linked' /\ CwdThere'
        BY <1>2, <1>5, <1>6, <1>7 DEF Linked, CwdThere
  <1>9. Freeing(as, bs)'
    <2>1. (as \cup bs) \cap (InTree' \cup lost') = {} /\ used' = InTree' \cup lost' \cup as \cup bs
          BY <1>2, <1>4, <1>5, <1>7
    <2> QED BY <1>2, <1>4, <1>5, <1>7, <1>8, <2>1 DEF Freeing, Free
  <1>10. Phase'
         BY <1>9, FreeingNext
  <1> QED BY <1>7, <1>8, <1>10 DEF Good

LEMMA WriteSteps ==
  ASSUME TypeOK, Good, Write
  PROVE  Good'
  <1>1. TypeOK /\ Forest /\ CwdThere /\ Phase /\ todo # <<>>
        BY DEF Good, Write, WriteMark, WriteFree, WritePut, WriteInit
  <1>2. ASSUME NEW d \in DirsFrom(Root), NEW n \in Names, NEW e \in Entries, Adding(d, n, e)
        PROVE  Good'
    <2>1. CASE Putting(d, n, e)
          BY <1>1, <1>2, <2>1, PutSteps
    <2>2. CASE ~Putting(d, n, e)
      <3>1. e \in {File(target), Dir(target)} /\ target \in Clusters /\ Marking(d, n, e)
            BY <1>2, <2>2 DEF Adding
      <3> QED BY <1>1, <1>2, <3>1, MarkedSteps
    <2> QED BY <2>1, <2>2
  <1>3. ASSUME NEW d \in DirsFrom(Root), NEW n \in Names, Starting(d, n) PROVE Good'
        BY <1>1, <1>3, StartingSteps
  <1>4. ASSUME NEW d \in DirsFrom(Root), NEW n \in Names, Deleting(d, n) PROVE Good'
        BY <1>1, <1>4, DeletingSteps
  <1>5. ASSUME NEW d \in DirsFrom(Root), NEW n \in Names, Removing(d, n) PROVE Good'
        BY <1>1, <1>5, RemovingSteps
  <1>6. ASSUME NEW us \in SUBSET Clusters, NEW vs \in SUBSET Clusters, Freeing(us, vs)
        PROVE  Good'
        BY <1>1, <1>6, FreeingSteps
  <1> QED BY <1>1, <1>2, <1>3, <1>4, <1>5, <1>6 DEF Phase, Broken

-----------------------------------------------------------------------------
(* The machine stops.                                                      *)
CrashedTo(broken, l) ==   \* what a crash does, by what it leaves
  /\ todo' = <<>> /\ target' = (IF broken THEN target ELSE 0)
  /\ cwd' = Root /\ damaged' = broken /\ lost' = l
  /\ entries' = entries /\ dotdot' = dotdot /\ used' = used

LEMMA CrashIs ==
  ASSUME Crash
  PROVE  CrashedTo(TargetThere /\ ~(EntryPending /\ target \in used),
                   IF ~EntryPending THEN lost \cup Unfreed
                   ELSE (lost \cup {target}) \cap (used \ Below(Root)))
  BY DEF Crash, CrashedTo, disk

LEMMA CrashEvens ==
  ASSUME TypeOK, Forest, Linked, CrashedTo(FALSE, lost'), used = InTree \cup lost',
         lost' \cap InTree = {}
  PROVE  Good'
  <1>1. EntriesTyped /\ Root \in Clusters /\ Root \in DirsFrom(Root)
        BY RootIsReached DEF Forest
  <1>2. /\ DirsFrom(Root)' = DirsFrom(Root) /\ InTree' = InTree /\ Forest'
        /\ \A x \in Clusters : \A m \in Names : Entry(x, m)' = Entry(x, m)
        BY <1>1, TreeStays DEF SameTree, CrashedTo
  <1>3. Linked' /\ CwdThere'
        BY <1>1, <1>2 DEF Linked, CwdThere, CrashedTo
  <1>4. Quiet'
        BY <1>2, <1>3 DEF Quiet, Even, CrashedTo
  <1> QED BY <1>2, <1>3, <1>4, QuietNext DEF Good

LEMMA BrokenIsPhase == Broken => Phase
  BY DEF Phase
LEMMA BrokenNext == Broken' => Phase'
  BY BrokenIsPhase, PTL

LEMMA CrashBreaks ==
  ASSUME TypeOK, Forest, CrashedTo(TRUE, lost'), target \in AllFirsts, InTree \ {target} \subseteq used
  PROVE  Good'
  <1>1. EntriesTyped /\ Root \in Clusters /\ Root \in DirsFrom(Root)
        BY RootIsReached DEF Forest
  <1>2. DirsFrom(Root)' = DirsFrom(Root) /\ InTree' = InTree /\ AllFirsts' = AllFirsts /\ Forest'
        BY <1>1, TreeStays DEF SameTree, CrashedTo
  <1>3. CwdThere'
        BY <1>1, <1>2 DEF CwdThere, CrashedTo
  <1>4. Broken'
        BY <1>2 DEF Broken, CrashedTo
  <1> QED BY <1>2, <1>3, <1>4, BrokenNext DEF Good

LEMMA CrashSteps ==
  ASSUME TypeOK, Good, Crash
  PROVE  Good'
  <1> DEFINE l == IF ~EntryPending THEN lost \cup Unfreed
                  ELSE (lost \cup {target}) \cap (used \ AllFirsts)
             broken == TargetThere /\ ~(EntryPending /\ target \in used)
             R == DirsFrom(Root)
  <1>1. /\ Forest /\ EntriesTyped /\ R \subseteq Clusters /\ Root \in Clusters /\ 0 \notin Clusters
        /\ Below(Root) = AllFirsts /\ 0 \notin AllFirsts /\ Root \notin AllFirsts
        /\ used \subseteq Clusters /\ lost \subseteq Clusters
    <2>1. Forest /\ EntriesTyped /\ R \subseteq Clusters /\ Root \in Clusters /\ 0 \notin Clusters
          BY RootIsReached, TreeAssumption DEF Good, Forest
    <2>2. 0 \notin AllFirsts
          BY <2>1, FirstsTyped DEF AllFirsts
    <2>3. Root \notin AllFirsts
          BY <2>1, InFirsts DEF AllFirsts, Forest, BelowRoot
    <2> QED BY <2>1, <2>2, <2>3, BelowRootIsAll DEF TypeOK
  <1>2. CrashedTo(broken, l)
        BY <1>1, CrashIs
  <1>3. TargetThere <=> target # 0 /\ target \in AllFirsts
        BY <1>1 DEF TargetThere
  <1>4. lost' = l
        BY <1>2 DEF CrashedTo
  <1>5. \A d \in R : \A n \in Names : Entry(d, n).first # 0 => Entry(d, n).first \in AllFirsts
        BY <1>1, InFirsts DEF AllFirsts
  <1>6. CASE Broken
    <2>1. ~EntryPending
          BY <1>6, PendingBy, NoWrites DEF Broken, ToSet
    <2>2. TargetThere /\ target \in AllFirsts /\ InTree \ {target} \subseteq used
          BY <1>1, <1>3, <1>6 DEF Broken
    <2>3. CrashedTo(TRUE, lost')
          BY <1>2, <1>4, <2>1, <2>2
    <2> QED BY <1>1, <2>2, <2>3, CrashBreaks
  <1>7. ASSUME NEW us \in SUBSET Clusters, NEW vs \in SUBSET Clusters, Freeing(us, vs)
        PROVE  Good'
    <2>1. ~EntryPending /\ Unfreed = us \cup vs
          BY <1>7, FreeingTodo DEF FreeingHas
    <2>2. ~TargetThere
          BY <1>3, <1>7 DEF Freeing
    <2>3. CrashedTo(FALSE, lost')
          BY <1>2, <1>4, <2>2
    <2>4. lost' = lost \cup us \cup vs
          BY <1>4, <2>1
    <2>5. used = InTree \cup lost' /\ lost' \cap InTree = {} /\ Linked
          BY <1>7, <2>4 DEF Freeing
    <2> QED BY <1>1, <2>3, <2>5, CrashEvens
  <1>8. ASSUME NEW d \in R, NEW n \in Names, NEW e \in Entries, Adding(d, n, e)
        PROVE  Good'
    <2>1. EntryPending
          BY <1>1, <1>8, AddingTodo DEF AddingHas
    <2>2. /\ Linked /\ lost \cap InTree = {} /\ target \notin InTree \cup lost
          /\ used = InTree \cup lost \/ used = InTree \cup lost \cup ({target} \ {0})
          BY <1>8 DEF Adding, Marking, Putting
    <2>3. ~TargetThere
          BY <1>3, <2>2 DEF InTree
    <2>4. CrashedTo(FALSE, lost')
          BY <1>2, <1>4, <2>3
    <2>5. lost' = (lost \cup {target}) \cap (used \ AllFirsts)
          BY <1>4, <2>1
    <2>6. CASE used = InTree \cup lost
      <3>1. lost' = lost
            BY <2>2, <2>5, <2>6 DEF InTree
      <3> QED BY <1>1, <2>2, <2>4, <2>6, <3>1, CrashEvens
    <2>7. CASE used = InTree \cup lost \cup ({target} \ {0}) /\ target # 0
      <3>1. lost' = lost \cup {target}
            BY <2>2, <2>5, <2>7 DEF InTree
      <3>2. used = InTree \cup lost' /\ lost' \cap InTree = {}
            BY <2>2, <2>7, <3>1
      <3> QED BY <1>1, <2>2, <2>4, <3>2, CrashEvens
    <2>8. target = 0 => {target} \ {0} = {}
          OBVIOUS
    <2> QED BY <2>2, <2>6, <2>7, <2>8
  <1>9. ASSUME NEW d \in R, NEW n \in Names, Starting(d, n)
        PROVE  Good'
    <2>1. ~EntryPending
      <3>1. InitDir(target, d) \in Writes /\ InitDir(target, d).op # "put"
            BY <1>1, <1>9, InitDirTyped DEF Starting, InitDir
      <3>2. ToSet(todo) = {InitDir(target, d)}
            BY <1>9, <3>1, OneWrite DEF Starting
      <3> QED BY <3>1, <3>2, PendingBy
    <2>2. target \in AllFirsts /\ target # 0
      <3>1. Entry(d, n).first = target /\ target # 0
            BY <1>1, <1>9 DEF Starting, Dir
      <3> QED BY <1>5, <3>1
    <2>3. InTree \ {target} \subseteq used
          BY <1>9 DEF Starting, Even
    <2>4. CrashedTo(TRUE, lost')
          BY <1>2, <1>3, <1>4, <2>1, <2>2
    <2> QED BY <1>1, <2>2, <2>3, <2>4, CrashBreaks
  <1>10. ASSUME NEW d \in R, NEW n \in Names, Deleting(d, n)
         PROVE  Good'
    <2>1. EntryPending
          BY <1>1, <1>10, DeletingTodo DEF DeletingHas
    <2>2. /\ Linked /\ lost \cap InTree \subseteq Inside(d, n)
          /\ target = Entry(d, n).first /\ Entry(d, n) # Absent /\ target \in Clusters \cup {0}
          BY <1>10 DEF Deleting, TypeOK
    <2>3. Inside(d, n) \subseteq AllFirsts /\ target \notin Inside(d, n)
          BY <1>1, <2>2, GoneFacts
    <2>4. lost' = (lost \cup {target}) \cap (used \ AllFirsts)
          BY <1>4, <2>1
    <2>5. target # 0 => target \in AllFirsts
          BY <1>5, <2>2
    <2>6. CASE target # 0 /\ used = (InTree \cup lost) \ {target}
      <3>1. TargetThere /\ target \notin used
            BY <1>3, <2>5, <2>6
      <3>2. CrashedTo(TRUE, lost')
            BY <1>2, <1>4, <3>1
      <3>3. InTree \ {target} \subseteq used
            BY <2>6
      <3> QED BY <1>1, <2>5, <2>6, <3>2, <3>3, CrashBreaks
    <2>7. CASE used = InTree \cup lost
      <3>1. ~(TargetThere /\ ~(EntryPending /\ target \in used))
            BY <1>3, <2>1, <2>7 DEF InTree
      <3>2. CrashedTo(FALSE, lost')
            BY <1>2, <1>4, <3>1
      <3>3. lost' = lost \ AllFirsts
        <4>1. target \notin used \ AllFirsts
              BY <1>1, <2>5
        <4> QED BY <2>4, <2>7, <4>1
      <3>4. Root \notin lost
            BY <1>1, <2>2, <2>3 DEF InTree
      <3>5. used = InTree \cup lost' /\ lost' \cap InTree = {}
            BY <2>7, <3>3, <3>4 DEF InTree
      <3> QED BY <1>1, <2>2, <3>2, <3>5, CrashEvens
    <2>8. target = 0 => (InTree \cup lost) \ {target} = InTree \cup lost
          BY <1>1 DEF InTree
    <2> QED BY <1>10, <2>6, <2>7, <2>8 DEF Deleting
  <1>11. ASSUME NEW d \in R, NEW n \in Names, Removing(d, n)
         PROVE  Good'
    <2>1. EntryPending
          BY <1>1, <1>11, RemovingTodo DEF RemovingHas
    <2>2. /\ Linked /\ target = 0 /\ used = InTree \cup lost /\ lost \cap InTree = {}
          BY <1>11 DEF Removing, Even
    <2>3. ~TargetThere
          BY <1>3, <2>2
    <2>4. CrashedTo(FALSE, lost')
          BY <1>2, <1>4, <2>3
    <2>5. lost' = lost
      <3>1. lost' = (lost \cup {target}) \cap (used \ AllFirsts)
            BY <1>4, <2>1
      <3> QED BY <1>1, <2>2, <3>1 DEF InTree
    <2> QED BY <1>1, <2>2, <2>4, <2>5, CrashEvens
  <1> QED BY <1>6, <1>7, <1>8, <1>9, <1>10, <1>11 DEF Good, Phase

-----------------------------------------------------------------------------
(* The invariant holds.                                                    *)
LEMMA SameGood ==
  ASSUME TypeOK, Good, UNCHANGED vars
  PROVE  Good'
  <1> DEFINE R == DirsFrom(Root)
  <1>1. /\ used' = used /\ entries' = entries /\ dotdot' = dotdot /\ cwd' = cwd /\ todo' = todo
        /\ target' = target /\ lost' = lost /\ stale' = stale /\ damaged' = damaged
        BY DEF vars, disk, session
  <1>2. EntriesTyped /\ R \subseteq Clusters /\ Root \in Clusters
        BY RootIsReached DEF Good, Forest
  <1>3. SameTree
        BY <1>1, <1>2, TreeStays
  <1>4. /\ R' = R /\ AllFirsts' = AllFirsts /\ InTree' = InTree /\ Forest'
        /\ \A d \in Clusters : \A n \in Names :
             /\ Entry(d, n)' = Entry(d, n)
             /\ Inside(d, n)' = Inside(d, n) /\ Gone(d, n)' = Gone(d, n)
        BY <1>2, <1>3 DEF SameTree, Good
  <1>5. CwdThere'
        BY <1>1, <1>4 DEF Good, CwdThere
  <1>6. (Linked => Linked') /\ (Even => Even')
        BY <1>1, <1>4 DEF Linked, Even
  <1>7. ASSUME Broken PROVE Phase'
    <2>1. Broken'
          BY <1>1, <1>4, <1>7 DEF Broken
    <2> QED BY <2>1, BrokenNext
  <1>8. ASSUME NEW us \in SUBSET Clusters, NEW vs \in SUBSET Clusters, Freeing(us, vs) PROVE Phase'
    <2>1. Freeing(us, vs)'
          BY <1>1, <1>4, <1>6, <1>8 DEF Freeing, Free
    <2> QED BY <2>1, FreeingNext
  <1>9. ASSUME NEW d \in R, NEW n \in Names, NEW e \in Entries, Adding(d, n, e) PROVE Phase'
    <2>1. Putting(d, n, e) => Putting(d, n, e)'
          BY <1>1, <1>4 DEF Putting, Takes, After, Put, InitDir
    <2>2. Marking(d, n, e) => Marking(d, n, e)'
          BY <1>1, <1>4 DEF Marking, Mark, Takes, After, Put, InitDir
    <2>3. Entry(d, n)' = Entry(d, n)
          BY <1>2, <1>4
    <2>4. Adding(d, n, e)'
          BY <1>1, <1>4, <1>6, <1>9, <2>1, <2>2, <2>3 DEF Adding, File, Dir
    <2> QED BY <1>4, <2>4, AddingNext
  <1>10. ASSUME NEW d \in R, NEW n \in Names, Starting(d, n) PROVE Phase'
    <2>1. LinkedBut(target)'
          BY <1>1, <1>4, <1>10 DEF Starting, LinkedBut
    <2>2. Entry(d, n)' = Entry(d, n)
          BY <1>2, <1>4
    <2>3. Starting(d, n)'
          BY <1>1, <1>4, <1>6, <1>10, <2>1, <2>2 DEF Starting, InitDir, Dir, EmptyDir, Absent
    <2> QED BY <1>4, <2>3, OthersNext
  <1>11. ASSUME NEW d \in R, NEW n \in Names, Deleting(d, n) PROVE Phase'
    <2>1. /\ Entry(d, n)' = Entry(d, n)
          /\ Inside(d, n)' = Inside(d, n) /\ Gone(d, n)' = Gone(d, n)
          BY <1>2, <1>4
    <2>2. Drops(d, n)' = Drops(d, n)
          BY <2>1 DEF Drops, Put, Absent
    <2>3. Deleting(d, n)'
          BY <1>1, <1>4, <1>6, <1>11, <2>1, <2>2 DEF Deleting, Free, Absent
    <2> QED BY <1>4, <2>3, OthersNext
  <1>12. ASSUME NEW d \in R, NEW n \in Names, Removing(d, n) PROVE Phase'
    <2>1. /\ Entry(d, n)' = Entry(d, n)
          /\ Inside(d, n)' = Inside(d, n) /\ Gone(d, n)' = Gone(d, n)
          BY <1>2, <1>4
    <2>2. Drops(d, n)' = Drops(d, n)
          BY <2>1 DEF Drops, Put, Absent
    <2>3. Removing(d, n)'
          BY <1>1, <1>4, <1>6, <1>12, <2>1, <2>2 DEF Removing, Free, Absent
    <2> QED BY <1>4, <2>3, OthersNext
  <1>13. Phase'
         BY <1>7, <1>8, <1>9, <1>10, <1>11, <1>12 DEF Good, Phase
  <1> QED BY <1>4, <1>5, <1>13 DEF Good

LEMMA ReadyIsSettled ==
  ASSUME Inv, Ready
  PROVE  Settled /\ Quiet /\ Good /\ TypeOK /\ ~stale
  <1>1. /\ TypeOK /\ ~stale /\ ~damaged /\ todo = <<>> /\ Forest /\ CwdThere /\ Phase
        BY DEF Inv, Ready, Sound
  <1>2. Quiet
        BY <1>1, IdleIsQuiet
  <1> QED BY <1>1, <1>2 DEF Settled, Quiet, CwdThere, Good

LEMMA CdSteps ==
  ASSUME Inv, NEW absolute \in BOOLEAN, NEW parts \in Parts, Cd(absolute, parts)
  PROVE  Good'
  <1>1. Settled /\ Quiet /\ Good /\ TypeOK /\ Forest /\ EntriesTyped
        BY ReadyIsSettled DEF Cd, Settled, Forest
  <1>2. parts \in Seq(Part)
        BY TreeAssumption DEF Part
  <1>3. cwd' \in DirsFrom(Root)
    <2>1. Resolve(absolute, parts) \in DirsFrom(Root) \cup {Invalid}
          BY <1>1, <1>2, ResolveStays DEF Settled
    <2> QED BY <2>1 DEF Cd
  <1>4. /\ entries' = entries /\ used' = used /\ dotdot' = dotdot /\ todo' = todo
        /\ target' = target /\ lost' = lost /\ damaged' = damaged
        BY DEF Cd, disk
  <1>5. /\ DirsFrom(Root)' = DirsFrom(Root) /\ InTree' = InTree /\ Forest'
        /\ \A x \in Clusters : \A m \in Names : Entry(x, m)' = Entry(x, m)
        BY <1>1, <1>4, TreeStays, TreeAssumption DEF SameTree
  <1>6. CwdThere'
        BY <1>3, <1>5 DEF CwdThere
  <1>7. Quiet'
    <2>1. Linked'
          BY <1>1, <1>4, <1>5 DEF Quiet, Linked
    <2>2. Even'
          BY <1>1, <1>4, <1>5 DEF Quiet, Even
    <2> QED BY <1>1, <1>4, <2>1, <2>2 DEF Quiet
  <1> QED BY <1>5, <1>6, <1>7, QuietNext DEF Good

LEMMA InvInit == Init => Inv
  <1> SUFFICES ASSUME Init PROVE Inv
      OBVIOUS
  <1>1. /\ used = {Root} /\ entries = [d \in Clusters |-> EmptyDir]
        /\ dotdot = [d \in Clusters |-> 0] /\ cwd = Root /\ cwdString = <<>>
        /\ leftover \in 0..MaxLeftover /\ todo = <<>> /\ target = 0 /\ named = <<>>
        /\ lost = {} /\ stale = FALSE /\ wild = FALSE /\ damaged = FALSE
        BY DEF Init
  <1>2. EntriesTyped /\ Root \in Clusters
        BY <1>1, EmptyDirTyped, TreeAssumption DEF EntriesTyped
  <1>3. TypeOK
    <2>1. used \subseteq Clusters /\ cwd \in Clusters /\ target \in Clusters \cup {0} /\ lost \subseteq Clusters
          BY <1>1, <1>2
    <2>2. cwdString \in Seq(Names) /\ todo \in Seq(Writes) /\ named \in Seq(Names)
          BY <1>1
    <2>3. dotdot \in [Clusters -> Clusters \cup {0}]
          BY <1>1
    <2>4. {stale, wild, damaged} \subseteq BOOLEAN
          BY <1>1
    <2> QED BY <1>1, <1>2, <2>1, <2>2, <2>3, <2>4 DEF TypeOK, EntriesTyped
  <1>4. \A d \in Clusters : \A n \in Names : Entry(d, n) = Absent
        BY <1>1 DEF Entry, EmptyDir
  <1>5. Absent.kind # "dir" /\ Absent.first = 0
        BY DEF Absent
  <1>6. Root # 0
        BY TreeAssumption
  <1>7. Forest
    <2>1. Apart /\ BelowRoot
          BY <1>4, <1>5, <1>6 DEF Apart, BelowRoot
    <2>2. OnlyReached
          BY <1>1 DEF OnlyReached
    <2>3. \E rank \in [Clusters -> Nat] : RankedBy(rank)
      <3>1. [c \in Clusters |-> 0] \in [Clusters -> Nat]
            OBVIOUS
      <3>2. RankedBy([c \in Clusters |-> 0])
            BY <1>4, <1>5 DEF RankedBy
      <3> QED BY <3>1, <3>2
    <2> QED BY <1>2, <2>1, <2>2, <2>3 DEF Forest
  <1>8. InTree = {Root}
    <2>1. \A d \in Clusters : Firsts(d) = {}
          BY <1>2, <1>4, <1>5, InFirsts
    <2> QED BY <2>1 DEF InTree, AllFirsts
  <1>9. Quiet
    <2>1. Linked
          BY <1>4, <1>5 DEF Linked
    <2>2. Even
          BY <1>1, <1>8 DEF Even
    <2> QED BY <1>1, <2>1, <2>2 DEF Quiet
  <1>10. CwdThere
         BY <1>1, <1>2, RootIsReached DEF CwdThere
  <1> QED BY <1>3, <1>7, <1>9, <1>10, QuietIsPhase DEF Inv

LEMMA InvStep == Inv /\ [Next]_vars => Inv'
  <1> SUFFICES ASSUME Inv, [Next]_vars PROVE Inv'
      OBVIOUS
  <1>1. TypeOK /\ TypeOK'
    <2>1. TypeOK
          BY DEF Inv
    <2>2. Ready => Settled
          BY ReadyIsSettled
    <2> QED BY <2>1, <2>2, TypeStep
  <1>2. SUFFICES Good'
        BY <1>1 DEF Inv, Good
  <1>3. Good
        BY DEF Inv, Good
  <1>4. ASSUME NEW absolute \in BOOLEAN, NEW parts \in Parts, Cd(absolute, parts) PROVE Good'
        BY <1>4, CdSteps
  <1>5. ASSUME Ready, NEW r \in Requests, Operation(r) PROVE Good'
    <2>1. Settled /\ Quiet /\ Good /\ ~stale
          BY <1>5, ReadyIsSettled
    <2>2. PICK absolute \in BOOLEAN, parts \in Parts, n \in Names :
            r = [dir |-> Target(absolute, parts, n), path |-> Named(absolute, parts, n), name |-> n]
          BY DEF Requests
    <2>3. r.dir \in DirsFrom(Root) /\ r.name \in Names
      <3>1. Target(absolute, parts, n) \in DirsFrom(Root) \cup {Invalid}
            BY <2>1, TargetStays DEF Settled
      <3> QED BY <1>5, <2>2, <3>1 DEF Operation
    <2> QED BY <1>1, <1>5, <2>1, <2>3, CommandStarts DEF Operation, Good
  <1>6. CASE Write
        BY <1>1, <1>3, <1>6, WriteSteps
  <1>7. CASE Crash
        BY <1>1, <1>3, <1>7, CrashSteps
  <1>8. CASE UNCHANGED vars
        BY <1>1, <1>3, <1>8, SameGood
  <1> QED BY <1>4, <1>5, <1>6, <1>7, <1>8 DEF Next, Write

LEMMA InvAlways == Spec => []Inv
  BY InvInit, InvStep, PTL DEF Spec

(* Every variable of the directory tree keeps its type: paths lead to      *)
(* clusters of the partition or nowhere.                                   *)
THEOREM FatTreeTypeCorrect == Spec => []TypeOK
  <1>1. Inv => TypeOK
        BY DEF Inv
  <1> QED BY <1>1, InvAlways, PTL

(* Between operations the clusters marked in the FAT are those of the tree *)
(* and those known to be lost, whatever was made and removed before and    *)
(* wherever the machine stopped.                                           *)
THEOREM FatTreeMatchesFat == Spec => []TreeMatchesFat
  <1>1. Inv => TreeMatchesFat
    <2> SUFFICES ASSUME Inv, todo = <<>>, ~wild, ~damaged
                 PROVE  used = {Root} \cup Below(Root) \cup lost
        BY DEF TreeMatchesFat
    <2>1. Quiet
          BY IdleIsQuiet DEF Inv
    <2>2. Below(Root) = AllFirsts
          BY BelowRootIsAll DEF Inv
    <2> QED BY <2>1, <2>2 DEF Quiet, Even, InTree
  <1> QED BY <1>1, InvAlways, PTL

LEMMA OneEntryEach ==
  ASSUME Forest
  PROVE  LET slots == DirsFrom(Root) \X Names
             first == [x \in slots |-> Entry(x[1], x[2]).first]
             held == {x \in slots : first[x] # 0}
         IN  Cardinality({first[x] : x \in held}) = Cardinality(held)
  <1> DEFINE slots == DirsFrom(Root) \X Names
             first == [x \in slots |-> Entry(x[1], x[2]).first]
             held == {x \in slots : first[x] # 0}
             image == {first[x] : x \in held}
             g == [x \in held |-> first[x]]
  <1>1. EntriesTyped /\ Root \in Clusters /\ DirsFrom(Root) \subseteq Clusters
        BY RootIsReached DEF Forest
  <1>2. \A x \in slots : x[1] \in Clusters /\ x[2] \in Names /\ first[x] = Entry(x[1], x[2]).first
        BY <1>1
  <1>3. \A x, y \in held : first[x] = first[y] => x = y
    <2> SUFFICES ASSUME NEW x \in held, NEW y \in held, first[x] = first[y] PROVE x = y
        OBVIOUS
    <2>1. x[1] = y[1] /\ x[2] = y[2]
          BY <1>2 DEF Forest, Apart
    <2> QED BY <2>1
  <1>4. image \subseteq Clusters
    <2> SUFFICES ASSUME NEW x \in held PROVE first[x] \in Clusters
        OBVIOUS
    <2>1. first[x] \in Firsts(x[1])
          BY <1>1, <1>2, InFirsts
    <2> QED BY <1>1, <1>2, <2>1, FirstsTyped
  <1> HIDE DEF first, slots
  <1>5. IsFiniteSet(image)
        BY <1>4, TreeAssumption, FS_Subset
  <1>6. g \in [held -> image] /\ (\A x, y \in held : g[x] = g[y] => x = y)
        /\ \A t \in image : \E x \in held : g[x] = t
        BY <1>3
  <1> HIDE DEF held, image, g
  <1>7. g \in Injection(held, image) /\ g \in Surjection(held, image)
        BY <1>6 DEF Injection, Surjection, IsInjective
  <1>8. Cardinality(held) = Cardinality(image)
        BY <1>5, <1>7, FS_Injection
  <1> QED BY <1>8 DEF held, image, first, slots

(* At every instant, in the middle of operations and after a restart, what *)
(* a path leads to is marked in the FAT and has one entry only, but for    *)
(* the cluster whose entry and mark are being written.                     *)
THEOREM FatTreeReachableInUse == Spec => []ReachableInUse
  <1>1. Inv => ReachableInUse
    <2> SUFFICES ASSUME Inv, ~wild PROVE ReachableInUse
        BY DEF ReachableInUse
    <2>1. Forest /\ EntriesTyped /\ DirsFrom(Root) \subseteq Clusters /\ Phase
          BY RootIsReached DEF Inv, Forest
    <2>2. InTree \ {target} \subseteq used
      <3>1. CASE Broken
            BY <3>1 DEF Broken
      <3>2. ASSUME NEW us \in SUBSET Clusters, NEW vs \in SUBSET Clusters, Freeing(us, vs)
            PROVE  InTree \ {target} \subseteq used
            BY <3>2 DEF Freeing
      <3>3. ASSUME NEW d \in DirsFrom(Root), NEW n \in Names, NEW e \in Entries, Adding(d, n, e)
            PROVE  InTree \ {target} \subseteq used
            BY <3>3 DEF Adding, Marking, Putting
      <3>4. ASSUME NEW d \in DirsFrom(Root), NEW n \in Names, Starting(d, n)
            PROVE  InTree \ {target} \subseteq used
            BY <3>4 DEF Starting, Even
      <3>5. ASSUME NEW d \in DirsFrom(Root), NEW n \in Names, Deleting(d, n)
            PROVE  InTree \ {target} \subseteq used
            BY <3>5 DEF Deleting
      <3>6. ASSUME NEW d \in DirsFrom(Root), NEW n \in Names, Removing(d, n)
            PROVE  InTree \ {target} \subseteq used
            BY <3>6 DEF Removing, Even
      <3> QED BY <2>1, <3>1, <3>2, <3>3, <3>4, <3>5, <3>6 DEF Phase
    <2>3. ASSUME NEW x \in DirsFrom(Root) \X Names, Entry(x[1], x[2]).first # 0
          PROVE  Entry(x[1], x[2]).first = target \/ Entry(x[1], x[2]).first \in used
      <3>1. Entry(x[1], x[2]).first \in AllFirsts
            BY <2>1, <2>3, InFirsts DEF AllFirsts
      <3> QED BY <2>2, <3>1 DEF InTree
    <2> QED BY <2>1, <2>3, OneEntryEach DEF ReachableInUse
  <1> QED BY <1>1, InvAlways, PTL

-----------------------------------------------------------------------------
(* The string of the working directory.                                    *)
Down(x, nm) == IF x # Invalid /\ Entry(x, nm).kind = "dir" THEN Entry(x, nm).first ELSE Invalid

WalkFacts ==   \* resolving a path from the root, name by name
  /\ Resolve(TRUE, <<>>) = Root
  /\ \A s \in Seq(Names) : Resolve(TRUE, s) \in DirsFrom(Root) \cup {Invalid}
  /\ \A s \in Seq(Names) : \A nm \in Names : \A x \in Clusters \cup {Invalid} :
       Resolve(TRUE, s) = x => Resolve(TRUE, Append(s, nm)) = Down(x, nm)

LEMMA EnterIsDown ==
  ASSUME Forest, NEW x \in DirsFrom(Root) \cup {Invalid}, NEW nm \in Names
  PROVE  Enter(x, nm) = Down(x, nm) /\ Down(x, nm) \in DirsFrom(Root) \cup {Invalid}
  <1> DEFINE R == DirsFrom(Root)
  <1>1. TreeFacts /\ R \subseteq Clusters /\ Root \in Clusters /\ Invalid \notin Clusters
        BY TreeFactsHold, RootIsReached, TreeAssumption DEF Forest, Invalid
  <1>2. nm # "." /\ nm # ".."
        BY TreeAssumption
  <1>3. Enter(x, nm) = Down(x, nm)
        BY <1>2 DEF Enter, Down
  <1>4. CASE x # Invalid /\ Entry(x, nm).kind = "dir"
    <2>1. Entry(x, nm).first \in Subdirs(x) /\ Subdirs(x) \subseteq R
          BY <1>1, <1>4 DEF TreeFacts, DirsLeast
    <2> QED BY <1>3, <1>4, <2>1 DEF Down
  <1>5. CASE ~(x # Invalid /\ Entry(x, nm).kind = "dir")
        BY <1>3, <1>5 DEF Down
  <1> QED BY <1>4, <1>5

LEMMA RootWalks ==
  ASSUME Forest, NEW s \in Seq(Names)
  PROVE  ResolvesIn(DirsFrom(Root) \cup {Invalid}, TRUE, s)
  <1> DEFINE V == DirsFrom(Root) \cup {Invalid}
  <1>1. (IF TRUE THEN Root ELSE cwd) \in V
        BY RootIsReached DEF Forest
  <1>2. \A x \in V : \A p \in Names : Enter(x, p) \in V
        BY EnterIsDown
  <1> HIDE DEF V
  <1>3. ResolvesIn(V, TRUE, s)
        BY <1>1, <1>2, ResolveWalks
  <1> QED BY <1>3 DEF V

LEMMA WalkFactsHold == Forest => WalkFacts
  <1> SUFFICES ASSUME Forest PROVE WalkFacts
      OBVIOUS
  <1> DEFINE V == DirsFrom(Root) \cup {Invalid}
  <1>1. Resolve(TRUE, <<>>) = Root
    <2>1. <<>> \in Seq(Names) /\ Len(<<>>) = 0
          OBVIOUS
    <2>2. ResolvesIn(V, TRUE, <<>>)
          BY <2>1, RootWalks
    <2>3. PICK at : Walks(at, TRUE, <<>>)
          BY <2>2 DEF ResolvesIn
    <2> QED BY <2>1, <2>3 DEF Walks
  <1>2. ASSUME NEW s \in Seq(Names) PROVE Resolve(TRUE, s) \in V
    <2>1. PICK at \in [0..Len(s) -> V] : Walks(at, TRUE, s)
      <3>1. ResolvesIn(V, TRUE, s)
            BY RootWalks
      <3> HIDE DEF V
      <3> QED BY <3>1 DEF ResolvesIn
    <2>2. Len(s) \in 0..Len(s)
          OBVIOUS
    <2> HIDE DEF V
    <2> QED BY <2>1, <2>2 DEF Walks
  <1>3. ASSUME NEW s \in Seq(Names), NEW nm \in Names
        PROVE  Resolve(TRUE, Append(s, nm)) = Enter(Resolve(TRUE, s), nm)
    <2> DEFINE t == Append(s, nm)
               n == Len(s)
    <2>1. t \in Seq(Names) /\ n \in Nat /\ Len(t) = n + 1 /\ t[n + 1] = nm /\ \A i \in 1..n : t[i] = s[i]
          OBVIOUS
    <2> HIDE DEF t
    <2>2. PICK a \in [0..n -> V] : Walks(a, TRUE, s)
      <3>1. ResolvesIn(V, TRUE, s)
            BY RootWalks
      <3> QED BY <3>1 DEF ResolvesIn
    <2>3. PICK b \in [0..n + 1 -> V] : Walks(b, TRUE, t)
      <3>1. ResolvesIn(V, TRUE, t)
            BY <2>1, RootWalks
      <3> QED BY <2>1, <3>1 DEF ResolvesIn
    <2> HIDE DEF V
    <2> HIDE DEF n
    <2>4. /\ a[0] = Root /\ \A i \in 1..n : a[i] = Enter(a[i - 1], s[i])
          /\ Resolve(TRUE, s) = a[n]
          BY <2>2 DEF Walks, n
    <2>5. /\ b[0] = Root /\ \A i \in 1..n + 1 : b[i] = Enter(b[i - 1], t[i])
          /\ Resolve(TRUE, t) = b[n + 1]
          BY <2>1, <2>3 DEF Walks
    <2> DEFINE S == {k \in Nat : k <= n => a[k] = b[k]}
    <2>6. 0 \in S
          BY <2>4, <2>5
    <2>7. ASSUME NEW k \in Nat, k \in S PROVE k + 1 \in S
      <3> SUFFICES ASSUME k + 1 <= n PROVE a[k + 1] = b[k + 1]
          OBVIOUS
      <3>1. k + 1 \in 1..n /\ k + 1 \in 1..n + 1 /\ (k + 1) - 1 = k /\ a[k] = b[k]
            BY <2>1, <2>7
      <3> QED BY <2>1, <2>4, <2>5, <3>1
    <2>8. Nat \subseteq S
          BY <2>6, <2>7, Counting
    <2>9. a[n] = b[n] /\ n + 1 \in 1..n + 1 /\ (n + 1) - 1 = n
          BY <2>1, <2>8
    <2>10. b[n + 1] = Enter(a[n], nm)
           BY <2>1, <2>5, <2>9
    <2> QED BY <2>4, <2>5, <2>10 DEF t
  <1>4. ASSUME NEW s \in Seq(Names), NEW nm \in Names
        PROVE  Resolve(TRUE, Append(s, nm)) = Down(Resolve(TRUE, s), nm)
    <2>1. Resolve(TRUE, s) \in V
          BY <1>2
    <2> QED BY <1>3, <2>1, EnterIsDown
  <1> QED BY <1>1, <1>2, <1>4 DEF WalkFacts

LEMMA WalkFactsNext == Forest' => WalkFacts'
  BY WalkFactsHold, PTL

(* A step that keeps the directory entries outside G keeps the paths that  *)
(* do not end in G.                                                        *)
Keeps(G) ==
  \A x \in Clusters : \A m \in Names :
    Entry(x, m).kind = "dir" /\ Entry(x, m).first \notin G
    => x \notin G /\ Entry(x, m)' = Entry(x, m)

LEMMA KeepsPaths ==
  ASSUME Forest, Forest', NEW G, Keeps(G), NEW s \in Seq(Names),
         Resolve(TRUE, s) # Invalid, Resolve(TRUE, s) \notin G
  PROVE  Resolve(TRUE, s)' = Resolve(TRUE, s)
  <1>1. WalkFacts /\ WalkFacts'
        BY WalkFactsHold, WalkFactsNext
  <1>2. EntriesTyped /\ DirsFrom(Root) \subseteq Clusters /\ Root \in Clusters /\ Invalid \notin Clusters
        BY RootIsReached, TreeAssumption DEF Forest, Invalid
  <1> DEFINE Kept(u) == Resolve(TRUE, u) # Invalid /\ Resolve(TRUE, u) \notin G
                        => Resolve(TRUE, u)' = Resolve(TRUE, u)
             S == {k \in Nat : \A u \in Seq(Names) : Len(u) = k => Kept(u)}
  <1>3. 0 \in S
    <2>1. \A u \in Seq(Names) : Len(u) = 0 => u = <<>>
          OBVIOUS
    <2>2. Kept(<<>>)
          BY <1>1 DEF WalkFacts
    <2> QED BY <2>1, <2>2
  <1>4. ASSUME NEW k \in Nat, \A v \in Seq(Names) : Len(v) = k => Kept(v),
               NEW u \in Seq(Names), Len(u) = k + 1,
               Resolve(TRUE, u) # Invalid, Resolve(TRUE, u) \notin G
        PROVE  Resolve(TRUE, u)' = Resolve(TRUE, u)
    <2>1. PICK v \in Seq(Names), nm \in Names : u = Append(v, nm) /\ Len(v) = k
      <3> DEFINE v == SubSeq(u, 1, k)
      <3>1. v \in Seq(Names) /\ Len(v) = k /\ u[k + 1] \in Names
            BY <1>4
      <3>2. u = Append(v, u[k + 1])
            BY <1>4
      <3> QED BY <3>1, <3>2
    <2>2. PICK x \in Clusters \cup {Invalid} : Resolve(TRUE, v) = x
          BY <1>1, <1>2 DEF WalkFacts
    <2>3. Resolve(TRUE, u) = Down(x, nm)
          BY <1>1, <2>1, <2>2 DEF WalkFacts
    <2>4. x # Invalid /\ Entry(x, nm).kind = "dir" /\ Resolve(TRUE, u) = Entry(x, nm).first
          BY <1>4, <2>3 DEF Down
    <2>5. x \in Clusters /\ x \notin G /\ Entry(x, nm)' = Entry(x, nm)
      <3>1. x \in Clusters /\ Entry(x, nm).kind = "dir" /\ Entry(x, nm).first \notin G
            BY <1>4, <2>4
      <3> QED BY <3>1 DEF Keeps
    <2>6. Kept(v)
          BY <1>4, <2>1
    <2>7. Resolve(TRUE, v)' = x
          BY <2>2, <2>4, <2>5, <2>6
    <2>8. Resolve(TRUE, Append(v, nm))' = Down(x, nm)'
          BY <1>1, <2>5, <2>7 DEF WalkFacts
    <2>9. Down(x, nm)' = Down(x, nm)
          BY <2>5 DEF Down, Invalid
    <2> QED BY <2>1, <2>3, <2>8, <2>9
  <1>5. ASSUME NEW k \in Nat, k \in S PROVE k + 1 \in S
    <2>1. \A v \in Seq(Names) : Len(v) = k => Kept(v)
          BY <1>5
    <2>2. ASSUME NEW u \in Seq(Names), Len(u) = k + 1 PROVE Kept(u)
          BY <1>4, <2>1, <2>2
    <2> HIDE DEF Kept
    <2> QED BY <2>2
  <1> HIDE DEF Kept
  <1>6. Nat \subseteq S
        BY <1>3, <1>5, Counting
  <1>7. Kept(s)
        BY <1>6
  <1> QED BY <1>7 DEF Kept

LEMMA UpAgain ==   \* ".." leads to where the path without its last name leads
  ASSUME Forest, Linked, NEW s \in Seq(Names), s # <<>>,
         NEW x \in DirsFrom(Root), Resolve(TRUE, s) = x
  PROVE  Front(s) \in Seq(Names) /\ Resolve(TRUE, Front(s)) = Parent(x)
  <1> DEFINE n == Len(s)
             v == SubSeq(s, 1, n - 1)
             nm == s[n]
  <1>1. n \in Nat /\ n >= 1
    <2>1. n \in Nat /\ n # 0
          BY EmptySeq
    <2> QED BY <2>1
  <1>2. v \in Seq(Names) /\ nm \in Names /\ s = Append(v, nm) /\ Front(s) = v
    <2>1. v \in Seq(Names) /\ Len(v) = n - 1
          BY <1>1
    <2>2. nm \in Names
          BY <1>1
    <2>3. s = Append(v, nm)
          BY <1>1, <2>1, <2>2
    <2> QED BY <2>1, <2>2, <2>3 DEF Front
  <1> HIDE DEF v, nm
  <1>3. WalkFacts
        BY WalkFactsHold
  <1>4. EntriesTyped /\ DirsFrom(Root) \subseteq Clusters /\ Root \in Clusters /\ Invalid \notin Clusters
        BY RootIsReached, TreeAssumption DEF Forest, Invalid
  <1>5. PICK y \in Clusters \cup {Invalid} : Resolve(TRUE, v) = y
        BY <1>2, <1>3, <1>4 DEF WalkFacts
  <1>6. x = Down(y, nm)
        BY <1>2, <1>3, <1>5 DEF WalkFacts
  <1>7. y # Invalid /\ Entry(y, nm).kind = "dir" /\ Entry(y, nm).first = x
        BY <1>4, <1>6 DEF Down
  <1>8. y \in Clusters /\ x # Root /\ dotdot[x] = y
        BY <1>2, <1>7 DEF Forest, BelowRoot, Linked
  <1> QED BY <1>2, <1>5, <1>8 DEF Parent

LEMMA WithFollows ==
  ASSUME Forest, Linked, NEW s \in Seq(Names), NEW p \in Part,
         NEW x \in DirsFrom(Root), Resolve(TRUE, s) = x
  PROVE  Enter(x, p) # Invalid => Resolve(TRUE, With(s, p)) = Enter(x, p)
  <1>1. /\ WalkFacts /\ x # Invalid /\ x \in Clusters /\ "." # ".."
        BY WalkFactsHold, RootIsReached, TreeAssumption DEF Forest, Invalid
  <1>2. CASE p = "."
    <2>1. Enter(x, p) = x /\ With(s, p) = s
          BY <1>1, <1>2 DEF Enter, With
    <2> QED BY <2>1
  <1>3. CASE p = ".."
    <2>1. Enter(x, p) = Parent(x) /\ With(s, p) = IF s = <<>> THEN s ELSE Front(s)
          BY <1>1, <1>3 DEF Enter, With
    <2>2. CASE s = <<>>
      <3>1. x = Root
            BY <1>1, <2>2 DEF WalkFacts
      <3> QED BY <2>1, <2>2, <3>1 DEF Parent
    <2>3. CASE s # <<>>
      <3>1. Resolve(TRUE, Front(s)) = Parent(x)
            BY <2>3, UpAgain
      <3> QED BY <2>1, <2>3, <3>1
    <2> QED BY <2>2, <2>3
  <1>4. CASE p # "." /\ p # ".."
    <2>1. p \in Names /\ With(s, p) = Append(s, p)
          BY <1>4 DEF With, Part
    <2>2. Enter(x, p) = Down(x, p)
          BY <2>1, EnterIsDown
    <2>3. Resolve(TRUE, Append(s, p)) = Down(x, p)
          BY <1>1, <2>1 DEF WalkFacts
    <2> QED BY <2>1, <2>2, <2>3
  <1> QED BY <1>2, <1>3, <1>4

(* A path that is normalized with names in front: the names stay.          *)
NormalizesFrom(t, s, parts) ==
  /\ t[0] = s
  /\ \A i \in 1..Len(parts) : t[i] = With(t[i - 1], parts[i])
  /\ Normalized(s \o parts) = t[Len(parts)]

LEMMA NormalizedFrom ==
  ASSUME NEW s \in Seq(Names), NEW parts \in Seq(Part)
  PROVE  \E t \in [0..Len(parts) -> Seq(Names)] : NormalizesFrom(t, s, parts)
  <1> DEFINE q == s \o parts
             m == Len(s)
             k == Len(parts)
  <1>1. /\ q \in Seq(Part) /\ m \in Nat /\ k \in Nat /\ Len(q) = m + k
        /\ \A i \in 1..m : q[i] = s[i]
        /\ \A i \in 1..k : q[m + i] = parts[i]
    <2>1. s \in Seq(Part)
          BY DEF Part
    <2> QED BY <2>1
  <1>2. PICK u \in [0..m + k -> Seq(Names)] : NormalizesBy(u, q)
        BY <1>1, NormalizedBy
  <1> HIDE DEF q
  <1>3. /\ u[0] = <<>> /\ Normalized(q) = u[m + k]
        /\ \A i \in 1..m + k : u[i] = With(u[i - 1], q[i])
        BY <1>1, <1>2 DEF NormalizesBy
  <1>4. \A i \in 0..m : SubSeq(s, 1, i) \in Seq(Names) /\ Len(SubSeq(s, 1, i)) = i
        OBVIOUS
  <1> DEFINE S == {i \in Nat : i <= m => u[i] = SubSeq(s, 1, i)}
  <1>5. 0 \in S
    <2>1. SubSeq(s, 1, 0) = <<>>
          OBVIOUS
    <2> QED BY <1>3, <2>1
  <1>6. ASSUME NEW i \in Nat, i \in S PROVE i + 1 \in S
    <2> SUFFICES ASSUME i + 1 <= m PROVE u[i + 1] = SubSeq(s, 1, i + 1)
        OBVIOUS
    <2>1. i + 1 \in 1..m + k /\ (i + 1) - 1 = i /\ u[i] = SubSeq(s, 1, i) /\ q[i + 1] = s[i + 1]
          BY <1>1, <1>6
    <2>2. u[i + 1] = With(SubSeq(s, 1, i), s[i + 1])
          BY <1>3, <2>1
    <2>3. s[i + 1] \in Names /\ s[i + 1] # "." /\ s[i + 1] # ".."
          BY <1>1, TreeAssumption
    <2>4. u[i + 1] = Append(SubSeq(s, 1, i), s[i + 1])
          BY <2>2, <2>3 DEF With
    <2>5. SubSeq(s, 1, i + 1) = Append(SubSeq(s, 1, i), s[i + 1])
          BY <1>1
    <2> QED BY <2>4, <2>5
  <1>7. Nat \subseteq S
        BY <1>5, <1>6, Counting
  <1>8. u[m] = s
    <2>1. u[m] = SubSeq(s, 1, m)
          BY <1>1, <1>7
    <2>2. SubSeq(s, 1, m) = s
          OBVIOUS
    <2> QED BY <2>1, <2>2
  <1> DEFINE t == [i \in 0..k |-> u[m + i]]
  <1>9. t \in [0..k -> Seq(Names)] /\ t[0] = s /\ t[k] = u[m + k]
    <2>1. \A i \in 0..k : m + i \in 0..m + k
          BY <1>1
    <2> QED BY <1>1, <1>2, <1>8, <2>1
  <1>10. ASSUME NEW i \in 1..k PROVE t[i] = With(t[i - 1], parts[i])
    <2>1. /\ i \in 0..k /\ i - 1 \in 0..k /\ m + i \in 1..m + k
          /\ (m + i) - 1 = m + (i - 1) /\ q[m + i] = parts[i]
          BY <1>1
    <2>2. u[m + i] = With(u[m + (i - 1)], parts[i])
          BY <1>3, <2>1
    <2>3. t[i] = u[m + i] /\ t[i - 1] = u[m + (i - 1)]
          BY <2>1
    <2> QED BY <2>2, <2>3
  <1> HIDE DEF t
  <1>11. NormalizesFrom(t, s, parts)
         BY <1>3, <1>9, <1>10 DEF NormalizesFrom, q
  <1> QED BY <1>9, <1>11

(* Where a path from the directory a string names leads to, its            *)
(* normalization names.                                                    *)
LEMMA NormalizedLeads ==
  ASSUME Forest, Linked, cwd \in DirsFrom(Root),
         NEW absolute \in BOOLEAN, NEW parts \in Seq(Part), NEW s \in Seq(Names),
         Resolve(TRUE, s) = IF absolute THEN Root ELSE cwd,
         Resolve(absolute, parts) # Invalid
  PROVE  Resolve(TRUE, Normalized(s \o parts)) = Resolve(absolute, parts)
  <1> DEFINE R == DirsFrom(Root)
             V == R \cup {Invalid}
             k == Len(parts)
             b == IF absolute THEN Root ELSE cwd
  <1>1. b \in R /\ Invalid \notin R
        BY RootIsReached, TreeAssumption DEF Forest, Invalid
  <1>2. \A x \in V : \A p \in Part : Enter(x, p) \in V
        BY EnterStays
  <1>3. PICK at \in [0..k -> V] : Walks(at, absolute, parts)
    <2>1. b \in V
          BY <1>1
    <2> HIDE DEF V
    <2>2. ResolvesIn(V, absolute, parts)
          BY <1>2, <2>1, ResolveWalks
    <2> QED BY <2>2 DEF ResolvesIn
  <1>4. /\ at[0] = b /\ \A i \in 1..k : at[i] = Enter(at[i - 1], parts[i])
        /\ Resolve(absolute, parts) = at[k]
        BY <1>3 DEF Walks
  <1>5. PICK t \in [0..k -> Seq(Names)] : NormalizesFrom(t, s, parts)
        BY NormalizedFrom
  <1>6. /\ t[0] = s /\ \A i \in 1..k : t[i] = With(t[i - 1], parts[i])
        /\ Normalized(s \o parts) = t[k]
        BY <1>5 DEF NormalizesFrom
  <1>7. k \in Nat /\ \A i \in 1..k : parts[i] \in Part
        OBVIOUS
  <1> HIDE DEF k, b
  <1> DEFINE Follows(i) == at[i] = Invalid \/ Resolve(TRUE, t[i]) = at[i]
             S == {i \in Nat : i <= k => Follows(i)}
  <1>8. 0 \in S
        BY <1>4, <1>6 DEF b
  <1>9. ASSUME NEW i \in Nat, i + 1 <= k, Follows(i) PROVE Follows(i + 1)
    <2> SUFFICES ASSUME at[i + 1] # Invalid
                 PROVE  Resolve(TRUE, t[i + 1]) = at[i + 1]
        OBVIOUS
    <2>0. at[i] = Invalid \/ Resolve(TRUE, t[i]) = at[i]
          BY <1>9
    <2>1. i \in 0..k /\ i + 1 \in 1..k /\ (i + 1) - 1 = i
      <3> HIDE DEF Follows
      <3> QED BY <1>7, <1>9
    <2>2. at[i + 1] = Enter(at[i], parts[i + 1]) /\ t[i + 1] = With(t[i], parts[i + 1])
          BY <1>4, <1>6, <2>1
    <2>3. at[i] # Invalid
          BY <2>2 DEF Enter
    <2>4. at[i] \in R /\ t[i] \in Seq(Names) /\ parts[i + 1] \in Part /\ Resolve(TRUE, t[i]) = at[i]
          BY <1>3, <1>5, <1>7, <2>0, <2>1, <2>3
    <2> HIDE DEF V
    <2> QED BY <2>2, <2>4, WithFollows
  <1> HIDE DEF Follows
  <1>10. Nat \subseteq S
    <2>1. ASSUME NEW i \in Nat, i \in S PROVE i + 1 \in S
      <3> SUFFICES ASSUME i + 1 <= k PROVE Follows(i + 1)
          OBVIOUS
      <3>1. Follows(i)
            BY <1>7, <2>1
      <3> QED BY <1>9, <3>1
    <2> HIDE DEF S
    <2> QED BY <1>8, <2>1, Counting
  <1>11. Follows(k)
    <2>1. k \in S /\ k <= k
          BY <1>7, <1>10
    <2> QED BY <2>1
  <1> QED BY <1>4, <1>6, <1>11 DEF Follows

Kept(G) == Keeps(G) /\ (~stale => cwd \notin G)

LEMMA SameKeeps ==
  ASSUME entries' = entries
  PROVE  Kept({})
  BY DEF Kept, Keeps, Entry

LEMMA CutKeeps ==
  ASSUME TypeOK, Forest, NEW d \in DirsFrom(Root), NEW n \in Names, Entry(d, n) # Absent,
         ~stale => cwd \notin Gone(d, n),
         Head(todo) = Put(d, n, Absent, Gone(d, n)), WritePut
  PROVE  Kept(Gone(d, n))
  <1> DEFINE G == Gone(d, n)
  <1>1. /\ EntriesTyped /\ TreeFacts /\ d \in Clusters
        BY TreeFactsHold, RootIsReached DEF Forest
  <1>2. /\ G \in SUBSET (Clusters \cup {0}) /\ d \notin G /\ Entry(d, n).first \in G
        /\ \A x \in Clusters : x \in G => Firsts(x) \subseteq G
        BY GoneFacts DEF Gone
  <1>3. Cut(d, n, G)
        BY <1>1, <1>2, PutCut
  <1>4. ASSUME NEW x \in Clusters, NEW m \in Names, Entry(x, m).kind = "dir", Entry(x, m).first \notin G
        PROVE  x \notin G /\ Entry(x, m)' = Entry(x, m)
    <2>1. Entry(x, m).first \in Firsts(x)
          BY <1>1, <1>4, EntryKinds DEF TreeFacts
    <2>2. x \notin G /\ ~(x = d /\ m = n)
          BY <1>2, <1>4, <2>1
    <2> QED BY <1>3, <2>2 DEF Cut
  <1> QED BY <1>4 DEF Kept, Keeps

LEMMA WriteKeeps ==
  ASSUME TypeOK, Good, Write
  PROVE  \E G : Kept(G)
  <1> DEFINE R == DirsFrom(Root)
  <1>1. /\ Forest /\ EntriesTyped /\ R \subseteq Clusters /\ Phase /\ todo # <<>>
        BY RootIsReached DEF Good, Forest, Write, WriteMark, WriteFree, WritePut, WriteInit
  <1>2. CASE WriteMark \/ WriteFree
        BY <1>2, SameKeeps DEF WriteMark, WriteFree
  <1>3. CASE WritePut \/ WriteInit
    <2>1. Head(todo).op \in {"put", "init"}
          BY <1>3 DEF WritePut, WriteInit
    <2>2. ASSUME NEW us \in SUBSET Clusters, NEW vs \in SUBSET Clusters, Freeing(us, vs)
          PROVE  \E G : Kept(G)
      <3>1. todo # <<>> => \E cs : Head(todo) = FreeWrite(cs)
            BY <1>1, <2>2, FreeingTodo, FreeIs, NoWrites, FreeTyped DEF FreeingHas, Freeing
      <3> QED BY <1>1, <2>1, <3>1 DEF FreeWrite
    <2>3. ASSUME NEW d \in R, NEW n \in Names, NEW e \in Entries, Adding(d, n, e)
          PROVE  \E G : Kept(G)
      <3>1. AddingHas(d, n, e) /\ d \in Clusters
            BY <1>1, <2>3, AddingTodo
      <3>2. Putting(d, n, e)
            BY <2>1, <2>3, <3>1 DEF AddingHas, Adding, Mark
      <3>3. Head(todo) = Put(d, n, e, {}) /\ WritePut
            BY <1>3, <3>1, <3>2, WriteOps DEF AddingHas, Put, Write
      <3>4. Slot(d, n, e)
            BY <3>1, <3>3, PutSlot
      <3>5. Kept({})
            BY <2>3, <3>4 DEF Kept, Keeps, Slot, Adding
      <3> QED BY <3>5
    <2>4. ASSUME NEW d \in R, NEW n \in Names, Starting(d, n)
          PROVE  \E G : Kept(G)
      <3>1. todo = <<InitDir(target, d)>> /\ target \in Clusters /\ entries[target] = EmptyDir
            BY <2>4 DEF Starting
      <3>2. Head(todo) = InitDir(target, d) /\ Head(todo).op = "init" /\ Head(todo).c = target
            BY <3>1 DEF InitDir
      <3>3. entries' = [entries EXCEPT ![target] = EmptyDir]
            BY <1>3, <3>2 DEF WritePut, WriteInit
      <3>4. entries' = entries
            BY <3>1, <3>3 DEF TypeOK
      <3> QED BY <3>4, SameKeeps
    <2>5. ASSUME NEW d \in R, NEW n \in Names, Deleting(d, n)
          PROVE  \E G : Kept(G)
      <3>1. DeletingHas(d, n)
            BY <1>1, <2>5, DeletingTodo
      <3>2. todo = Drops(d, n)
        <4>1. FreeWrite({target}).op \notin {"put", "init"}
              BY DEF FreeWrite
        <4>2. todo # Free({target}) \o Drops(d, n)
              BY <2>1, <3>1, <4>1 DEF DeletingHas
        <4> QED BY <2>5, <4>2 DEF Deleting
      <3>3. Head(todo) = Put(d, n, Absent, Gone(d, n))
            BY <3>1, <3>2 DEF DeletingHas
      <3>4. WritePut
            BY <1>3, <3>3, WriteOps DEF Put, Write
      <3> QED BY <1>1, <2>5, <3>3, <3>4, CutKeeps DEF Deleting
    <2>6. ASSUME NEW d \in R, NEW n \in Names, Removing(d, n)
          PROVE  \E G : Kept(G)
      <3>1. Head(todo) = Put(d, n, Absent, Gone(d, n))
            BY <1>1, <2>6, RemovingTodo DEF RemovingHas
      <3>2. WritePut
            BY <1>3, <3>1, WriteOps DEF Put, Write
      <3> QED BY <1>1, <2>6, <3>1, <3>2, CutKeeps DEF Removing
    <2>7. ~Broken
          BY <1>1 DEF Broken
    <2> QED BY <1>1, <2>2, <2>3, <2>4, <2>5, <2>6, <2>7 DEF Phase
  <1> QED BY <1>2, <1>3 DEF Write

(* The names that have been put behind CWDString's "/" lead to the working *)
(* directory, whatever is in front of them.                                *)
StringLeads == ~stale => Resolve(TRUE, cwdString) = cwd

LEMMA StringKept ==
  ASSUME Inv, Inv', StringLeads, NEW G, Kept(G), UNCHANGED session, ~stale
  PROVE  StringLeads'
  <1>1. Forest /\ Forest' /\ Resolve(TRUE, cwdString) = cwd /\ cwd' = cwd /\ cwd # Invalid
    <2>1. cwd # Invalid
          BY TreeAssumption DEF Inv, TypeOK, Invalid
    <2> QED BY <2>1 DEF Inv, StringLeads, session
  <1>2. PICK s \in Seq(Names) : s = cwdString
        BY DEF Inv, TypeOK
  <1>3. Resolve(TRUE, s)' = cwd
        BY <1>1, <1>2, KeepsPaths DEF Kept
  <1>4. cwdString' = s
        BY <1>2 DEF session
  <1> QED BY <1>1, <1>3, <1>4 DEF StringLeads

LEMMA StringStep == Inv /\ Inv' /\ StringLeads /\ [Next]_vars => StringLeads'
  <1> SUFFICES ASSUME Inv, Inv', StringLeads, [Next]_vars PROVE StringLeads'
      OBVIOUS
  <1>1. TypeOK /\ Good /\ Forest /\ Forest' /\ WalkFacts'
        BY WalkFactsNext DEF Inv, Good
  <1>2. ASSUME NEW absolute \in BOOLEAN, NEW parts \in Parts, Cd(absolute, parts)
        PROVE  StringLeads'
    <2>1. Settled /\ Linked /\ Resolve(TRUE, cwdString) = cwd /\ cwd \in DirsFrom(Root)
          BY <1>2, ReadyIsSettled DEF Cd, StringLeads, Settled
    <2>2. PICK s \in Seq(Names) : s = IF absolute THEN <<>> ELSE cwdString
      <3>1. cwdString \in Seq(Names)
            BY DEF Inv, TypeOK
      <3>2. <<>> \in Seq(Names)
            OBVIOUS
      <3> QED BY <3>1, <3>2
    <2>3. parts \in Seq(Part)
          BY TreeAssumption DEF Part
    <2>4. Resolve(TRUE, s) = IF absolute THEN Root ELSE cwd
          BY <1>1, <2>1, <2>2, WalkFactsHold DEF WalkFacts
    <2>5. Resolve(absolute, parts) # Invalid /\ cwd' = Resolve(absolute, parts)
          /\ cwdString' = Normalized(s \o parts) /\ entries' = entries
          BY <1>2, <2>2 DEF Cd, disk
    <2>6. Resolve(TRUE, Normalized(s \o parts)) = cwd'
          BY <1>1, <2>1, <2>3, <2>4, <2>5, NormalizedLeads
    <2>7. PICK u \in Seq(Names) : u = Normalized(s \o parts)
      <3>1. s \o parts \in Seq(Part)
        <4>1. s \in Seq(Part)
              BY <2>2 DEF Part
        <4> QED BY <2>3, <4>1
      <3> QED BY <3>1, NormalizedTyped
    <2>8. Resolve(TRUE, u)' = Resolve(TRUE, u)
      <3>0. PICK G : G = {}
            OBVIOUS
      <3>1. Keeps(G)
            BY <2>5, <3>0, SameKeeps DEF Kept
      <3>2. Resolve(TRUE, u) = cwd' /\ cwd' # Invalid
            BY <2>5, <2>6, <2>7
      <3>3. Resolve(TRUE, u) # Invalid /\ Resolve(TRUE, u) \notin G
            BY <3>0, <3>2
      <3>4. Forest /\ Forest'
            BY <1>1
      <3> QED BY <2>7, <3>1, <3>3, <3>4, KeepsPaths
    <2> QED BY <2>5, <2>6, <2>7, <2>8 DEF StringLeads
  <1>3. ASSUME Ready, NEW r \in Requests, Operation(r) PROVE StringLeads'
    <2>1. ~stale
          BY <1>3 DEF Ready, Sound
    <2>2. UNCHANGED session /\ entries' = entries
          BY <1>3 DEF Operation, Command, CreateFile, WriteFile, CreateDir, DeleteFile, DeleteDir,
                      Issue, disk
    <2> QED BY <2>1, <2>2, SameKeeps, StringKept
  <1>4. CASE Write
    <2>1. UNCHANGED session /\ stale' = stale
          BY <1>4 DEF Write, WriteMark, WriteFree, WritePut, WriteInit, Wrote
    <2>2. CASE stale
          BY <2>1, <2>2 DEF StringLeads
    <2>3. CASE ~stale
          BY <1>1, <1>4, <2>1, <2>3, WriteKeeps, StringKept
    <2> QED BY <2>2, <2>3
  <1>5. CASE Crash
        BY <1>1, <1>5 DEF Crash, WalkFacts, StringLeads
  <1>6. CASE UNCHANGED vars
    <2>1. UNCHANGED session /\ stale' = stale /\ entries' = entries
          BY <1>6 DEF vars, disk
    <2>2. CASE stale
          BY <2>1, <2>2 DEF StringLeads
    <2>3. CASE ~stale
          BY <2>1, <2>3, SameKeeps, StringKept
    <2> QED BY <2>2, <2>3
  <1> QED BY <1>2, <1>3, <1>4, <1>5, <1>6 DEF Next, Write

LEMMA StringAlways == Spec => []StringLeads
  <1>1. Init => StringLeads
    <2> SUFFICES ASSUME Init PROVE StringLeads
        OBVIOUS
    <2>1. WalkFacts
          BY InvInit, WalkFactsHold DEF Inv
    <2>2. cwd = Root /\ cwdString = <<>>
          BY DEF Init
    <2> QED BY <2>1, <2>2 DEF WalkFacts, StringLeads
  <1>2. Spec => []Inv
        BY InvAlways
  <1> QED BY <1>1, <1>2, StringStep, PTL DEF Spec

(* The prompt tells the truth once nothing is left in front of it: the     *)
(* string of the working directory, taken as a path from the root, leads   *)
(* to the working directory's cluster, however often cd went up and down,  *)
(* whatever else was removed, and after a restart.                         *)
THEOREM FatTreeCwdStringNamesCwd == Spec => []CwdStringNamesCwd
  <1>1. StringLeads => CwdStringNamesCwd
        BY DEF StringLeads, CwdStringNamesCwd
  <1> QED BY <1>1, StringAlways, PTL

-----------------------------------------------------------------------------
(* The tree by its paths: Places are the paths that lead to a directory,   *)
(* each with where it leads.                                               *)
Leading == {s \in Seq(Names) : Resolve(TRUE, s) # Invalid}
ToFile == {t \in Seq(Names) : \E s \in Leading, n \in Names :
             t = Append(s, n) /\ Entry(Resolve(TRUE, s), n).kind = "file"}

InThem(X) == X \cup UNION {{<<Append(x[1], n), Entry(x[2], n).first>> :
                            n \in {m \in Names : Entry(x[2], m).kind = "dir"}} : x \in X}

PlacesBy(V, n, f) ==
  /\ f[0] = {<<<<>>, Root>>} /\ \A i \in 1..n : f[i] = InThem(f[i - 1])
  /\ Places = f[n - 1]

LEMMA InThemTyped ==
  ASSUME EntriesTyped, NEW X \in SUBSET (Seq(Names) \X Clusters)
  PROVE  InThem(X) \in SUBSET (Seq(Names) \X Clusters)
  <1> SUFFICES ASSUME NEW x \in X, NEW n \in Names, Entry(x[2], n).kind = "dir"
               PROVE  <<Append(x[1], n), Entry(x[2], n).first>> \in Seq(Names) \X Clusters
      BY DEF InThem
  <1>1. x[1] \in Seq(Names) /\ x[2] \in Clusters
        OBVIOUS
  <1>2. Append(x[1], n) \in Seq(Names)
        BY <1>1
  <1>3. Entry(x[2], n).first \in Clusters
        BY <1>1, EntryKinds
  <1> QED BY <1>2, <1>3

LEMMA PlacesStepwise ==
  ASSUME EntriesTyped
  PROVE  LET n == Cardinality(Clusters)
             V == SUBSET (Seq(Names) \X Clusters)
         IN  n \in Nat /\ \E f \in [0..n -> V] : PlacesBy(V, n, f)
  <1> DEFINE n == Cardinality(Clusters)
             V == SUBSET (Seq(Names) \X Clusters)
             b == {<<<<>>, Root>>}
             g == [i \in 1..n |-> [X \in V |-> InThem(X)]]
             More(X) == X \cup UNION {{<<Append(x[1], m), Entry(x[2], m).first>> :
                                       m \in {k \in Names : Entry(x[2], k).kind = "dir"}} : x \in X}
             Again(f) == [i \in 0..n |-> IF i = 0 THEN b
                            ELSE LET above == f[i - 1]
                                 IN above \cup UNION {{<<Append(x[1], m), Entry(x[2], m).first>> :
                                      m \in {k \in Names : Entry(x[2], k).kind = "dir"}} : x \in above}]
             f0 == CHOOSE f : f = Again(f)
  <1>1. n \in Nat
        BY TreeAssumption, FS_CardinalityType
  <1>2. \A X \in V : InThem(X) \in V
        BY InThemTyped
  <1>3. g \in [1..n -> [V -> V]]
        BY <1>2
  <1>4. b \in V
    <2>1. <<>> \in Seq(Names) /\ Root \in Clusters
          BY TreeAssumption
    <2>2. <<<<>>, Root>> \in Seq(Names) \X Clusters
          BY <2>1
    <2> QED BY <2>2
  <1>5. Places = f0[n - 1]
        BY DEF Places
  <1>6. \A i \in 1..n : \A X \in V : g[i][X] = InThem(X)
        OBVIOUS
  <1>7. \A f : Again(f) = [i \in 0..n |-> IF i = 0 THEN b ELSE InThem(f[i - 1])]
        BY DEF InThem
  <1> HIDE DEF n, V, g, b
  <1>8. PICK w \in [0..n -> V] : w[0] = b /\ \A i \in 1..n : w[i] = g[i][w[i - 1]]
    <2>1. Recurses(V, b, n, g)
          BY <1>1, <1>3, <1>4, Recursion
    <2> QED BY <2>1 DEF Recurses
  <1>9. \A i \in 1..n : w[i] = InThem(w[i - 1])
    <2> SUFFICES ASSUME NEW i \in 1..n PROVE w[i] = InThem(w[i - 1])
        OBVIOUS
    <2>1. i - 1 \in 0..n /\ w[i - 1] \in V
          BY <1>1
    <2> QED BY <1>6, <1>8, <2>1
  <1> HIDE DEF Again
  <1>10. w = Again(w)
    <2>1. \A i \in 0..n : i # 0 => i \in 1..n
          BY <1>1
    <2>2. \A i \in 0..n : w[i] = IF i = 0 THEN b ELSE InThem(w[i - 1])
          BY <1>8, <1>9, <2>1
    <2>3. w = [i \in 0..n |-> IF i = 0 THEN b ELSE InThem(w[i - 1])]
          BY <2>2
    <2> QED BY <1>7, <2>3
  <1>11. f0 = Again(f0)
         BY <1>10
  <1> HIDE DEF f0
  <1>12. /\ f0 = [i \in 0..n |-> f0[i]] /\ f0[0] = b
         /\ \A i \in 1..n : f0[i] = InThem(f0[i - 1])
    <2>1. f0 = [i \in 0..n |-> IF i = 0 THEN b ELSE InThem(f0[i - 1])]
          BY <1>7, <1>11
    <2>2. DOMAIN f0 = 0..n
          /\ \A i \in 0..n : f0[i] = IF i = 0 THEN b ELSE InThem(f0[i - 1])
          BY <2>1
    <2>3. 0 \in 0..n /\ \A i \in 1..n : i \in 0..n /\ i # 0
          BY <1>1
    <2>4. f0 = [i \in 0..n |-> f0[i]]
          BY <2>1, <2>2
    <2> QED BY <2>2, <2>3, <2>4
  <1>13. \A i \in 0..n : f0[i] \in V
    <2> DEFINE S == {k \in Nat : k <= n => f0[k] \in V}
    <2>1. 0 \in S
          BY <1>4, <1>12
    <2>2. ASSUME NEW k \in Nat, k \in S PROVE k + 1 \in S
      <3> SUFFICES ASSUME k + 1 <= n PROVE f0[k + 1] \in V
          OBVIOUS
      <3>1. k + 1 \in 1..n /\ (k + 1) - 1 = k /\ f0[k] \in V
            BY <1>1, <2>2
      <3> QED BY <1>2, <1>12, <3>1
    <2>3. Nat \subseteq S
          BY <2>1, <2>2, Counting
    <2> QED BY <1>1, <2>3
  <1>14. f0 \in [0..n -> V]
         BY <1>12, <1>13
  <1>15. PlacesBy(V, n, f0)
         BY <1>5, <1>12 DEF PlacesBy, b
  <1> QED BY <1>1, <1>14, <1>15 DEF n, V

(* A path that is not empty is a path and a name.                          *)
LEMMA LastStep ==
  ASSUME NEW s \in Seq(Names), s # <<>>
  PROVE  /\ Front(s) \in Seq(Names) /\ Last(s) \in Names /\ s = Append(Front(s), Last(s))
         /\ Len(s) = Len(Front(s)) + 1
  <1> DEFINE n == Len(s)
             v == SubSeq(s, 1, n - 1)
             nm == s[n]
  <1>1. n \in Nat /\ n >= 1
    <2>1. n \in Nat /\ n # 0
          BY EmptySeq
    <2> QED BY <2>1
  <1>2. v \in Seq(Names) /\ Len(v) = n - 1
    <2>1. 1 \in 1..Len(s) + 1 /\ n - 1 \in 1 - 1..Len(s)
          BY <1>1
    <2>2. v \in Seq(Names)
          BY <2>1, SubSeqProperties
    <2>3. Len(v) = IF 1 <= n - 1 THEN (n - 1) - 1 + 1 ELSE 0
          BY <2>1, SubSeqProperties
    <2> HIDE DEF n, v
    <2>4. Len(v) = n - 1
          BY <1>1, <2>3
    <2> QED BY <2>2, <2>4
  <1>3. nm \in Names
        BY <1>1
  <1>4. s = Append(v, nm)
        BY <1>1, <1>2, <1>3
  <1> QED BY <1>1, <1>2, <1>3, <1>4 DEF Front, Last

LEMMA OneMore ==
  ASSUME NEW v \in Seq(Names), NEW nm \in Names
  PROVE  /\ Append(v, nm) \in Seq(Names) /\ Append(v, nm) # <<>>
         /\ Len(Append(v, nm)) = Len(v) + 1
         /\ Front(Append(v, nm)) = v /\ Last(Append(v, nm)) = nm
  <1> DEFINE t == Append(v, nm)
  <1>1. t \in Seq(Names) /\ Len(t) = Len(v) + 1 /\ Len(v) \in Nat /\ t[Len(v) + 1] = nm
        OBVIOUS
  <1>2. t # <<>>
        BY <1>1
  <1>3. SubSeq(t, 1, Len(v)) = v
    <2>1. SubSeq(t, 1, Len(v)) \in Seq(Names) /\ Len(SubSeq(t, 1, Len(v))) = Len(v)
          BY <1>1
    <2>2. \A i \in 1..Len(v) : SubSeq(t, 1, Len(v))[i] = v[i]
          OBVIOUS
    <2> QED BY <2>1, <2>2, SeqEqual
  <1>4. Len(t) - 1 = Len(v)
        BY <1>1
  <1> QED BY <1>1, <1>2, <1>3, <1>4 DEF Front, Last

LEMMA SameStep ==
  ASSUME NEW u \in Seq(Names), NEW v \in Seq(Names), NEW a \in Names, NEW c \in Names,
         Append(u, a) = Append(v, c)
  PROVE  u = v /\ a = c
  BY OneMore

(* What leads somewhere.                                                   *)
LEMMA LeadsThere ==
  ASSUME Forest, NEW s \in Leading
  PROVE  /\ s \in Seq(Names) /\ Resolve(TRUE, s) \in Clusters
         /\ Resolve(TRUE, s) \in DirsFrom(Root) /\ Resolve(TRUE, s) # Invalid
  <1>1. WalkFacts /\ DirsFrom(Root) \subseteq Clusters
        BY WalkFactsHold, RootIsReached DEF Forest
  <1> QED BY <1>1 DEF WalkFacts, Leading

LEMMA LeadsOn ==
  ASSUME Forest, NEW v \in Seq(Names), NEW nm \in Names
  PROVE  /\ Append(v, nm) \in Leading
            <=> v \in Leading /\ Entry(Resolve(TRUE, v), nm).kind = "dir"
         /\ Append(v, nm) \in Leading
            => Resolve(TRUE, Append(v, nm)) = Entry(Resolve(TRUE, v), nm).first
  <1>1. /\ WalkFacts /\ EntriesTyped /\ DirsFrom(Root) \subseteq Clusters /\ Invalid \notin Clusters
        BY WalkFactsHold, RootIsReached, TreeAssumption DEF Forest, Invalid
  <1>2. PICK x \in Clusters \cup {Invalid} : Resolve(TRUE, v) = x
        BY <1>1 DEF WalkFacts
  <1>3. Resolve(TRUE, Append(v, nm)) = Down(x, nm)
        BY <1>1, <1>2 DEF WalkFacts
  <1>4. x \in Clusters /\ Entry(x, nm).kind = "dir" => Entry(x, nm).first # Invalid
        BY <1>1, EntryKinds
  <1>5. Append(v, nm) \in Seq(Names)
        BY OneMore
  <1> QED BY <1>1, <1>2, <1>3, <1>4, <1>5 DEF Leading, Down

LEMMA RootLeads == Forest => <<>> \in Leading /\ Resolve(TRUE, <<>>) = Root
  <1> SUFFICES ASSUME Forest PROVE <<>> \in Leading /\ Resolve(TRUE, <<>>) = Root
      OBVIOUS
  <1>1. Resolve(TRUE, <<>>) = Root
        BY WalkFactsHold DEF WalkFacts
  <1>2. Root # Invalid /\ <<>> \in Seq(Names)
        BY TreeAssumption DEF Invalid
  <1> QED BY <1>1, <1>2 DEF Leading

(* Going through the paths by their length.                                *)
LEMMA ByLength ==
  ASSUME NEW S, <<>> \in S,
         \A v \in Seq(Names) : \A nm \in Names : v \in S => Append(v, nm) \in S
  PROVE  Seq(Names) \subseteq S
  <1> DEFINE N == {k \in Nat : \A s \in Seq(Names) : Len(s) = k => s \in S}
  <1>1. 0 \in N
    <2>1. \A s \in Seq(Names) : Len(s) = 0 => s = <<>>
          OBVIOUS
    <2> QED BY <2>1
  <1>2. ASSUME NEW k \in Nat, k \in N PROVE k + 1 \in N
    <2> SUFFICES ASSUME NEW s \in Seq(Names), Len(s) = k + 1 PROVE s \in S
        OBVIOUS
    <2>1. s # <<>>
          OBVIOUS
    <2>2. PICK v \in Seq(Names), nm \in Names : s = Append(v, nm) /\ Len(s) = Len(v) + 1
          BY <2>1, LastStep
    <2>3. Len(v) = k
      <3>1. Len(v) \in Nat /\ Len(v) + 1 = k + 1
            BY <2>2
      <3> QED BY <3>1
    <2>4. v \in S
          BY <1>2, <2>3
    <2> QED BY <2>2, <2>4
  <1>3. Nat \subseteq N
        BY <1>1, <1>2, Counting
  <1> QED BY <1>3

(* A path that leads somewhere passes one cluster more than it has names,  *)
(* and none twice: there are no longer ones than Places goes through.      *)
LEMMA PathsAreShort ==
  ASSUME Forest, NEW s \in Leading
  PROVE  Len(s) <= Cardinality(Clusters) - 1
  <1> DEFINE n == Cardinality(Clusters)
  <1>1. PICK rank \in [Clusters -> Nat] : RankedBy(rank)
        BY DEF Forest
  <1> DEFINE Passed(u, C) == /\ IsFiniteSet(C) /\ Cardinality(C) = Len(u) + 1
                             /\ \A c \in C : rank[c] <= rank[Resolve(TRUE, u)]
             S == {u \in Seq(Names) : u \in Leading => \E C \in SUBSET Clusters : Passed(u, C)}
  <1>2. EntriesTyped /\ Root \in Clusters /\ IsFiniteSet(Clusters)
        BY TreeAssumption DEF Forest
  <1>3. <<>> \in S
    <2>1. /\ {Root} \in SUBSET Clusters /\ IsFiniteSet({Root}) /\ Cardinality({Root}) = 1
          BY <1>2, FS_Singleton
    <2>2. PICK u \in Seq(Names) : u = <<>>
      <3>1. <<>> \in Seq(Names)
            OBVIOUS
      <3> QED BY <3>1
    <2>3. Resolve(TRUE, u) = Root
          BY <2>2, RootLeads
    <2>4. Passed(u, {Root})
      <3>1. Len(u) = 0
            BY <2>2
      <3>2. rank[Root] \in Nat
            BY <1>2
      <3>3. Cardinality({Root}) = Len(u) + 1
            BY <2>1, <3>1
      <3>4. \A c \in {Root} : rank[c] <= rank[Resolve(TRUE, u)]
        <4>1. rank[Resolve(TRUE, u)] = rank[Root]
              BY <2>3
        <4> SUFFICES ASSUME NEW c \in {Root} PROVE rank[c] <= rank[Resolve(TRUE, u)]
            OBVIOUS
        <4>2. rank[c] = rank[Root] /\ rank[Root] <= rank[Root]
              BY <3>2
        <4> QED BY <4>1, <4>2
      <3> QED BY <2>1, <3>3, <3>4
    <2> QED BY <2>1, <2>2, <2>4
  <1>4. ASSUME NEW v \in Seq(Names), NEW nm \in Names, v \in S PROVE Append(v, nm) \in S
    <2> DEFINE t == Append(v, nm)
               x == Resolve(TRUE, v)
               y == Resolve(TRUE, t)
    <2>1. t \in Seq(Names) /\ Len(t) = Len(v) + 1 /\ Len(v) \in Nat
          BY OneMore
    <2> SUFFICES ASSUME t \in Leading PROVE \E C \in SUBSET Clusters : Passed(t, C)
        BY <2>1
    <2>2. v \in Leading /\ Entry(x, nm).kind = "dir" /\ y = Entry(x, nm).first
          BY LeadsOn
    <2>3. x \in Clusters /\ y \in Clusters
          BY <2>2, LeadsThere
    <2>4. rank[x] < rank[y] /\ rank[x] \in Nat /\ rank[y] \in Nat
          BY <1>1, <2>2, <2>3 DEF RankedBy
    <2>5. PICK C \in SUBSET Clusters : Passed(v, C)
          BY <1>4, <2>2
    <2> DEFINE D == C \cup {y}
    <2> HIDE DEF t, x, y
    <2>6. \A c \in C : rank[c] \in Nat /\ rank[c] <= rank[x]
          BY <2>5 DEF x
    <2>7. y \notin C
          BY <2>4, <2>6
    <2>8. IsFiniteSet(D) /\ Cardinality(D) = Cardinality(C) + 1
          BY <2>5, <2>7, FS_AddElement
    <2>9. Cardinality(D) = Len(t) + 1
          BY <2>1, <2>5, <2>8
    <2>10. \A c \in D : rank[c] <= rank[y]
      <3>1. \A c \in C : rank[c] <= rank[y]
            BY <2>4, <2>6
      <3> QED BY <2>4, <3>1
    <2>11. D \in SUBSET Clusters
           BY <2>3
    <2>12. Passed(t, D)
           BY <2>8, <2>9, <2>10 DEF y
    <2> QED BY <2>11, <2>12
  <1> HIDE DEF S
  <1>5. Seq(Names) \subseteq S
        BY <1>3, <1>4, ByLength
  <1>6. s \in Seq(Names) /\ s \in Leading
        BY LeadsThere
  <1>7. PICK C \in SUBSET Clusters : Passed(s, C)
        BY <1>5, <1>6 DEF S
  <1>8. Cardinality(C) <= n /\ n \in Nat
        BY <1>2, FS_Subset, FS_CardinalityType
  <1>9. Cardinality(C) = Len(s) + 1 /\ Len(s) \in Nat
        BY <1>6, <1>7
  <1> HIDE DEF n
  <1>10. Len(s) <= n - 1
         BY <1>8, <1>9
  <1> QED BY <1>10 DEF n

PlacesLead ==   \* what Places are
  /\ \A x \in Places : x[1] \in Leading /\ x[2] = Resolve(TRUE, x[1])
  /\ \A s \in Leading : \E x \in Places : x[1] = s /\ x[2] = Resolve(TRUE, s)

LEMMA PlacesLeadHolds ==
  ASSUME Forest
  PROVE  PlacesLead
  <1> DEFINE n == Cardinality(Clusters)
             V == SUBSET (Seq(Names) \X Clusters)
             At(k) == {q \in Seq(Names) \X Clusters :
                         q[1] \in Leading /\ Len(q[1]) <= k /\ Resolve(TRUE, q[1]) = q[2]}
  <1>1. EntriesTyped /\ Root \in Clusters
        BY TreeAssumption DEF Forest
  <1>2. PICK f \in [0..n -> V] : PlacesBy(V, n, f)
        BY <1>1, PlacesStepwise
  <1>3. n \in Nat /\ 0 <= n - 1
    <2>1. n \in Nat
          BY <1>1, PlacesStepwise
    <2>2. PICK u : u = <<>> /\ u \in Leading
          BY RootLeads
    <2>3. Len(u) <= n - 1 /\ Len(u) = 0
          BY <2>2, PathsAreShort
    <2> QED BY <2>1, <2>3
  <1>4. f[0] = {<<<<>>, Root>>} /\ Places = f[n - 1] /\ \A i \in 1..n : f[i] = InThem(f[i - 1])
        BY <1>2 DEF PlacesBy
  <1> DEFINE S == {k \in Nat : k <= n => f[k] = At(k)}
  <1>5. 0 \in S
    <2>1. \A q \in Seq(Names) \X Clusters : Len(q[1]) <= 0 => q[1] = <<>>
      <3> SUFFICES ASSUME NEW q \in Seq(Names) \X Clusters, Len(q[1]) <= 0 PROVE q[1] = <<>>
          OBVIOUS
      <3>1. q[1] \in Seq(Names) /\ Len(q[1]) \in Nat
            OBVIOUS
      <3> QED BY <3>1
    <2>2. PICK u \in Seq(Names) : u = <<>>
      <3>1. <<>> \in Seq(Names)
            OBVIOUS
      <3> QED BY <3>1
    <2>3. u \in Leading /\ Resolve(TRUE, u) = Root /\ Len(u) <= 0
      <3>1. Len(u) <= 0
        <4>1. Len(u) = 0
              BY <2>2
        <4> QED BY <4>1
      <3>2. u \in Leading /\ Resolve(TRUE, u) = Root
            BY <2>2, RootLeads
      <3> QED BY <3>1, <3>2
    <2>4. <<u, Root>> \in At(0)
          BY <1>1, <2>3
    <2>5. \A q \in At(0) : q = <<u, Root>>
      <3> SUFFICES ASSUME NEW q \in At(0) PROVE q = <<u, Root>>
          OBVIOUS
      <3>1. q[1] = u
            BY <2>1, <2>2
      <3>2. q[2] = Root
            BY <2>3, <3>1
      <3> QED BY <3>1, <3>2
    <2>6. f[0] = {<<u, Root>>}
          BY <1>4, <2>2
    <2> HIDE DEF At
    <2>7. f[0] = At(0)
          BY <2>4, <2>5, <2>6
    <2> QED BY <2>7
  <1>6. ASSUME NEW k \in Nat, k \in S PROVE k + 1 \in S
    <2> HIDE DEF At, n
    <2> SUFFICES ASSUME k + 1 <= n PROVE f[k + 1] = At(k + 1)
        OBVIOUS
    <2>1. k + 1 \in 1..n /\ (k + 1) - 1 = k /\ f[k] = At(k)
          BY <1>3, <1>6
    <2>2. f[k + 1] = InThem(At(k))
          BY <1>4, <2>1
    <2> USE DEF At
    <2>3. ASSUME NEW q \in At(k) PROVE q \in At(k + 1)
      <3>1. q \in Seq(Names) \X Clusters /\ q[1] \in Leading /\ Resolve(TRUE, q[1]) = q[2]
            OBVIOUS
      <3>2. Len(q[1]) <= k + 1
        <4>1. Len(q[1]) \in Nat /\ Len(q[1]) <= k
              BY <3>1
        <4> QED BY <4>1
      <3> QED BY <3>1, <3>2
    <2>4. ASSUME NEW q \in At(k), NEW m \in Names, Entry(q[2], m).kind = "dir"
          PROVE  <<Append(q[1], m), Entry(q[2], m).first>> \in At(k + 1)
      <3> DEFINE v == q[1]
                 t == Append(v, m)
      <3>1. v \in Seq(Names) /\ v \in Leading /\ Len(v) <= k /\ Resolve(TRUE, v) = q[2] /\ q[2] \in Clusters
            OBVIOUS
      <3>2. t \in Seq(Names) /\ Len(t) = Len(v) + 1
            BY <3>1, OneMore
      <3>3. t \in Leading /\ Resolve(TRUE, t) = Entry(q[2], m).first
            BY <2>4, <3>1, LeadsOn
      <3>4. Entry(q[2], m).first \in Clusters
            BY <1>1, <2>4, <3>1, EntryKinds
      <3>5. Len(t) <= k + 1
        <4>1. Len(v) \in Nat
              BY <3>1
        <4> HIDE DEF v, t
        <4> QED BY <3>1, <3>2, <4>1
      <3> HIDE DEF t
      <3>6. <<t, Entry(q[2], m).first>> \in At(k + 1)
            BY <3>2, <3>3, <3>4, <3>5
      <3> QED BY <3>6 DEF t
    <2>5. ASSUME NEW q \in At(k + 1) PROVE q \in InThem(At(k))
      <3>1. q[1] \in Seq(Names) /\ q[1] \in Leading /\ q[2] \in Clusters /\ Len(q[1]) <= k + 1
            /\ Resolve(TRUE, q[1]) = q[2] /\ q = <<q[1], q[2]>>
        <4>1. q \in Seq(Names) \X Clusters /\ q[1] \in Leading /\ Len(q[1]) <= k + 1
              /\ Resolve(TRUE, q[1]) = q[2]
              OBVIOUS
        <4> HIDE DEF At
        <4>2. q[1] \in Seq(Names) /\ q[2] \in Clusters /\ q = <<q[1], q[2]>>
              BY <4>1
        <4> QED BY <4>1, <4>2
      <3>2. CASE q[1] = <<>>
        <4>1. Len(q[1]) <= k
          <5>1. Len(q[1]) = 0
                BY <3>2
          <5> QED BY <5>1
        <4>2. q \in At(k)
              BY <3>1, <4>1
        <4> QED BY <4>2 DEF InThem
      <3>3. CASE q[1] # <<>>
        <4>1. PICK v \in Seq(Names), m \in Names : q[1] = Append(v, m) /\ Len(q[1]) = Len(v) + 1
              BY <3>1, <3>3, LastStep
        <4>2. v \in Leading /\ Entry(Resolve(TRUE, v), m).kind = "dir"
              /\ q[2] = Entry(Resolve(TRUE, v), m).first
              BY <3>1, <4>1, LeadsOn
        <4>3. PICK x \in Clusters : x = Resolve(TRUE, v)
              BY <4>2, LeadsThere
        <4>4. Len(v) <= k
          <5>1. Len(v) \in Nat /\ Len(v) + 1 <= k + 1
                BY <3>1, <4>1
          <5> QED BY <5>1
        <4> DEFINE p == <<v, x>>
        <4>5. p \in At(k)
              BY <4>2, <4>3, <4>4
        <4>6. p[1] = v /\ p[2] = x
              OBVIOUS
        <4> HIDE DEF p, At
        <4>7. q = <<Append(p[1], m), Entry(p[2], m).first>> /\ Entry(p[2], m).kind = "dir"
              BY <3>1, <4>1, <4>2, <4>3, <4>6
        <4> DEFINE here == {<<Append(p[1], j), Entry(p[2], j).first>> :
                              j \in {i \in Names : Entry(p[2], i).kind = "dir"}}
        <4>8. q \in here
              BY <4>7
        <4>9. here \subseteq InThem(At(k))
              BY <4>5 DEF InThem
        <4> QED BY <4>8, <4>9
      <3> QED BY <3>2, <3>3
    <2> HIDE DEF At
    <2>6. InThem(At(k)) \subseteq At(k + 1)
          BY <2>3, <2>4 DEF InThem
    <2> QED BY <2>2, <2>5, <2>6
  <1>7. Places = At(n - 1)
    <2> HIDE DEF At, n
    <2>1. Nat \subseteq S
          BY <1>5, <1>6, Counting
    <2>2. n - 1 \in Nat /\ n - 1 <= n
          BY <1>3
    <2> QED BY <1>4, <2>1, <2>2
  <1>8. ASSUME NEW s \in Leading PROVE <<s, Resolve(TRUE, s)>> \in Places
        BY <1>7, LeadsThere, PathsAreShort
  <1>9. ASSUME NEW x \in Places PROVE x[1] \in Leading /\ x[2] = Resolve(TRUE, x[1])
        BY <1>7
  <1> QED BY <1>8, <1>9 DEF PlacesLead

LEMMA PathsAre == Forest => DirPaths = Leading /\ FilePaths = ToFile
  <1> SUFFICES ASSUME Forest PROVE DirPaths = Leading /\ FilePaths = ToFile
      OBVIOUS
  <1>1. /\ \A x \in Places : x[1] \in Leading /\ x[2] = Resolve(TRUE, x[1])
        /\ \A s \in Leading : \E x \in Places : x[1] = s /\ x[2] = Resolve(TRUE, s)
        BY PlacesLeadHolds DEF PlacesLead
  <1>2. DirPaths = Leading
        BY <1>1 DEF DirPaths
  <1>3. ASSUME NEW t \in FilePaths PROVE t \in ToFile
    <2>1. PICK x \in Places, n \in Names : t = Append(x[1], n) /\ Entry(x[2], n).kind = "file"
          BY <1>3 DEF FilePaths
    <2>2. x[1] \in Leading /\ x[2] = Resolve(TRUE, x[1])
          BY <1>1
    <2>3. t \in Seq(Names)
          BY <2>1, <2>2, LeadsThere, OneMore
    <2> QED BY <2>1, <2>2, <2>3 DEF ToFile
  <1>4. ASSUME NEW t \in ToFile PROVE t \in FilePaths
    <2>1. PICK s \in Leading, n \in Names : t = Append(s, n) /\ Entry(Resolve(TRUE, s), n).kind = "file"
          BY <1>4 DEF ToFile
    <2>2. PICK x \in Places : x[1] = s /\ x[2] = Resolve(TRUE, s)
          BY <1>1
    <2> DEFINE here == {Append(x[1], m) : m \in {k \in Names : Entry(x[2], k).kind = "file"}}
    <2>3. n \in {k \in Names : Entry(x[2], k).kind = "file"}
          BY <2>1, <2>2
    <2>4. t \in here
          BY <2>1, <2>2, <2>3
    <2>5. here \subseteq FilePaths
          BY DEF FilePaths
    <2> QED BY <2>4, <2>5
  <1> QED BY <1>2, <1>3, <1>4

LEMMA PathsNext == Forest' => (DirPaths = Leading)' /\ (FilePaths = ToFile)'
  BY PathsAre, PTL

-----------------------------------------------------------------------------
(* Where paths lead, as a relation: what follows needs no more of them.    *)
Leads(s, x) == s \in Seq(Names) /\ x \in Clusters /\ Resolve(TRUE, s) = x
LeadFacts ==
  /\ Leads(<<>>, Root)
  /\ \A s : \A x, y : Leads(s, x) /\ Leads(s, y) => x = y
  /\ \A v \in Seq(Names) : \A nm \in Names : \A y \in Clusters :
       Leads(Append(v, nm), y) <=> \E x \in Clusters : Leads(v, x) /\ Entry(x, nm) = Dir(y)
  /\ \A s : s \in DirPaths <=> \E x \in Clusters : Leads(s, x)
  /\ \A t : t \in FilePaths <=> \E v \in Seq(Names), nm \in Names, x \in Clusters :
                                  t = Append(v, nm) /\ Leads(v, x) /\ Entry(x, nm).kind = "file"

LEMMA LeadFactsHold == Forest => LeadFacts
  <1> SUFFICES ASSUME Forest PROVE LeadFacts
      OBVIOUS
  <1>1. EntriesTyped /\ Root \in Clusters /\ Invalid \notin Clusters
        BY TreeAssumption DEF Forest, Invalid
  <1>2. Leads(<<>>, Root)
    <2>1. <<>> \in Seq(Names)
          OBVIOUS
    <2> QED BY <1>1, <2>1, RootLeads DEF Leads
  <1>3. \A s : \A x, y : Leads(s, x) /\ Leads(s, y) => x = y
        BY DEF Leads
  <1>4. \A s : s \in Leading <=> \E x \in Clusters : Leads(s, x)
        BY <1>1, LeadsThere DEF Leads, Leading
  <1>5. ASSUME NEW v \in Seq(Names), NEW nm \in Names, NEW y \in Clusters
        PROVE  Leads(Append(v, nm), y) <=> \E x \in Clusters : Leads(v, x) /\ Entry(x, nm) = Dir(y)
    <2> DEFINE t == Append(v, nm)
    <2>1. t \in Seq(Names)
          BY OneMore
    <2>2. /\ t \in Leading <=> v \in Leading /\ Entry(Resolve(TRUE, v), nm).kind = "dir"
          /\ t \in Leading => Resolve(TRUE, t) = Entry(Resolve(TRUE, v), nm).first
          BY LeadsOn
    <2> HIDE DEF t
    <2>3. ASSUME Leads(t, y)
          PROVE  \E x \in Clusters : Leads(v, x) /\ Entry(x, nm) = Dir(y)
      <3>1. t \in Leading
            BY <1>4, <2>3
      <3>2. PICK x \in Clusters : Leads(v, x)
            BY <1>4, <2>2, <3>1
      <3>3. Entry(x, nm).kind = "dir" /\ Entry(x, nm).first = y
            BY <2>2, <2>3, <3>1, <3>2 DEF Leads
      <3>4. Entry(x, nm) = Dir(y)
            BY <1>1, <3>3, EntryKinds
      <3> QED BY <3>2, <3>4
    <2>4. ASSUME NEW x \in Clusters, Leads(v, x), Entry(x, nm) = Dir(y)
          PROVE  Leads(t, y)
      <3>1. v \in Leading /\ Resolve(TRUE, v) = x
            BY <1>4, <2>4 DEF Leads
      <3>2. Entry(x, nm).kind = "dir" /\ Entry(x, nm).first = y
            BY <2>4 DEF Dir
      <3>3. Resolve(TRUE, t) = y
            BY <2>2, <3>1, <3>2
      <3> QED BY <2>1, <3>3 DEF Leads
    <2> QED BY <2>3, <2>4 DEF t
  <1>6. ASSUME NEW t
        PROVE  t \in FilePaths <=> \E v \in Seq(Names), nm \in Names, x \in Clusters :
                                  t = Append(v, nm) /\ Leads(v, x) /\ Entry(x, nm).kind = "file"
    <2>1. t \in FilePaths <=> t \in ToFile
          BY PathsAre
    <2>2. ASSUME t \in ToFile
          PROVE  \E v \in Seq(Names), nm \in Names, x \in Clusters :
                    t = Append(v, nm) /\ Leads(v, x) /\ Entry(x, nm).kind = "file"
      <3>1. PICK v \in Leading, nm \in Names : t = Append(v, nm) /\ Entry(Resolve(TRUE, v), nm).kind = "file"
            BY <2>2 DEF ToFile
      <3>2. PICK x \in Clusters : Leads(v, x)
            BY <1>4
      <3>3. v \in Seq(Names) /\ Resolve(TRUE, v) = x
            BY <3>2 DEF Leads
      <3> QED BY <3>1, <3>2, <3>3
    <2>3. ASSUME NEW v \in Seq(Names), NEW nm \in Names, NEW x \in Clusters,
                 t = Append(v, nm), Leads(v, x), Entry(x, nm).kind = "file"
          PROVE  t \in ToFile
      <3>1. v \in Leading /\ Resolve(TRUE, v) = x
            BY <1>4, <2>3 DEF Leads
      <3>2. t \in Seq(Names)
            BY <2>3, OneMore
      <3> QED BY <2>3, <3>1, <3>2 DEF ToFile
    <2> QED BY <2>1, <2>2, <2>3
  <1>7. \A s : s \in DirPaths <=> \E x \in Clusters : Leads(s, x)
        BY <1>4, PathsAre
  <1> QED BY <1>2, <1>3, <1>5, <1>6, <1>7 DEF LeadFacts

LEMMA LeadFactsNext == Forest' => LeadFacts'
  BY LeadFactsHold, PTL

(* Each cluster has one path.                                              *)
LEMMA OnePath ==
  ASSUME Forest, NEW s, NEW t, NEW x, Leads(s, x), Leads(t, x)
  PROVE  s = t
  <1> DEFINE S == {u \in Seq(Names) : \A y : Leads(u, y) => \A v : Leads(v, y) => v = u}
  <1>1. LeadFacts /\ EntriesTyped
        BY LeadFactsHold DEF Forest
  <1>2. ASSUME NEW u \in Seq(Names), NEW m \in Names, NEW y, Leads(Append(u, m), y)
        PROVE  y \in Clusters /\ y # Root
               /\ \E z \in Clusters : Leads(u, z) /\ Entry(z, m) = Dir(y) /\ Entry(z, m).first = y
    <2>1. y \in Clusters
          BY <1>2 DEF Leads
    <2>2. PICK z \in Clusters : Leads(u, z) /\ Entry(z, m) = Dir(y)
          BY <1>1, <1>2, <2>1 DEF LeadFacts
    <2>3. Entry(z, m).first = y
          BY <2>2 DEF Dir
    <2> QED BY <2>1, <2>2, <2>3 DEF Forest, BelowRoot
  <1>3. <<>> \in S
    <2>1. <<>> \in Seq(Names)
          OBVIOUS
    <2> SUFFICES ASSUME NEW y, Leads(<<>>, y), NEW v, Leads(v, y), v # <<>> PROVE FALSE
        BY <2>1
    <2>2. y = Root
          BY <1>1 DEF LeadFacts
    <2>3. v \in Seq(Names)
          BY DEF Leads
    <2>4. PICK u \in Seq(Names), m \in Names : v = Append(u, m)
          BY <2>3, LastStep
    <2> QED BY <1>2, <2>2, <2>4
  <1>4. ASSUME NEW u \in Seq(Names), NEW m \in Names, u \in S PROVE Append(u, m) \in S
    <2>1. Append(u, m) \in Seq(Names)
          BY OneMore
    <2> SUFFICES ASSUME NEW y, Leads(Append(u, m), y), NEW v, Leads(v, y)
                 PROVE  v = Append(u, m)
        BY <2>1
    <2>2. PICK z \in Clusters : Leads(u, z) /\ Entry(z, m) = Dir(y) /\ Entry(z, m).first = y
          BY <1>2
    <2>3. y # Root /\ y \in Clusters /\ y # 0 /\ v \in Seq(Names)
          BY <1>2, TreeAssumption DEF Leads
    <2>4. v # <<>>
          BY <1>1, <2>3 DEF LeadFacts
    <2>5. PICK w \in Seq(Names), k \in Names : v = Append(w, k)
          BY <2>3, <2>4, LastStep
    <2>6. PICK b \in Clusters : Leads(w, b) /\ Entry(b, k) = Dir(y) /\ Entry(b, k).first = y
          BY <1>2, <2>5
    <2>7. b = z /\ k = m
          BY <2>2, <2>3, <2>6 DEF Forest, Apart
    <2>8. w = u
          BY <1>4, <2>2, <2>6, <2>7
    <2> QED BY <2>5, <2>7, <2>8
  <1> HIDE DEF S
  <1>5. Seq(Names) \subseteq S
        BY <1>3, <1>4, ByLength
  <1> QED BY <1>5 DEF S, Leads

(* The paths through one.                                                  *)
LEMMA Through ==
  ASSUME NEW q \in Seq(Names), q # <<>>
  PROVE  /\ ~IsPrefix(q, <<>>) /\ IsPrefix(q, q)
         /\ \A v \in Seq(Names) : \A m \in Names :
              IsPrefix(q, Append(v, m)) <=> q = Append(v, m) \/ IsPrefix(q, v)
  <1>1. Len(q) \in Nat /\ Len(q) # 0
        BY EmptySeq
  <1>2. ~IsPrefix(q, <<>>)
    <2>1. Len(<<>>) = 0
          OBVIOUS
    <2> QED BY <1>1, <2>1 DEF IsPrefix
  <1>3. IsPrefix(q, q)
        BY <1>1 DEF IsPrefix
  <1>4. ASSUME NEW v \in Seq(Names), NEW m \in Names
        PROVE  IsPrefix(q, Append(v, m)) <=> q = Append(v, m) \/ IsPrefix(q, v)
    <2> DEFINE t == Append(v, m)
               k == Len(q)
    <2>1. t \in Seq(Names) /\ Len(t) = Len(v) + 1 /\ Len(v) \in Nat
          BY OneMore
    <2>2. CASE k > Len(v)
      <3>1. ~IsPrefix(q, v)
            BY <1>1, <2>1, <2>2 DEF IsPrefix
      <3>2. k <= Len(t) => k = Len(t)
            BY <1>1, <2>1, <2>2
      <3>3. SubSeq(q, 1, k) = q /\ SubSeq(t, 1, Len(t)) = t
            BY <2>1, SubSeqFull
      <3>4. IsPrefix(q, t) => q = t
            BY <3>2, <3>3 DEF IsPrefix
      <3> QED BY <1>3, <3>1, <3>4
    <2>3. CASE k <= Len(v)
      <3>1. q # t /\ k <= Len(t)
            BY <1>1, <2>1, <2>3
      <3>2. SubSeq(t, 1, k) = SubSeq(v, 1, k)
        <4>1. \A i \in 1..k : t[i] = v[i] /\ v[i] \in Names /\ i \in 1..Len(v)
              BY <1>1, <2>1, <2>3
        <4>2. 1 \in Int /\ k \in Int
              BY <1>1
        <4> HIDE DEF t, k
        <4>3. /\ SubSeq(v, 1, k) \in Seq(Names)
              /\ Len(SubSeq(v, 1, k)) = (IF 1 <= k THEN k - 1 + 1 ELSE 0)
              /\ \A i \in 1 .. k - 1 + 1 : SubSeq(v, 1, k)[i] = v[1 + i - 1]
              BY <4>1, <4>2, SubSeqProperties
        <4>4. \A i \in 1..k : t[i] \in Names
              BY <4>1
        <4>5. /\ SubSeq(t, 1, k) \in Seq(Names)
              /\ Len(SubSeq(t, 1, k)) = (IF 1 <= k THEN k - 1 + 1 ELSE 0)
              /\ \A i \in 1 .. k - 1 + 1 : SubSeq(t, 1, k)[i] = t[1 + i - 1]
              BY <4>2, <4>4, SubSeqProperties
        <4>6. \A i \in 1..k : i \in 1..k - 1 + 1 /\ 1 + i - 1 = i
              BY <4>2
        <4>7. \A i \in 1..k : SubSeq(t, 1, k)[i] = SubSeq(v, 1, k)[i]
              BY <4>1, <4>3, <4>5, <4>6
        <4>8. Len(SubSeq(t, 1, k)) = k /\ Len(SubSeq(v, 1, k)) = k
              BY <1>1, <4>2, <4>3, <4>5 DEF k
        <4> QED BY <4>3, <4>5, <4>7, <4>8, SeqEqual
      <3> QED BY <2>3, <3>1, <3>2 DEF IsPrefix
    <2> QED BY <1>1, <2>1, <2>2, <2>3
  <1> QED BY <1>2, <1>3, <1>4

-----------------------------------------------------------------------------
(* A write to the entry n of d changes the paths through it only.          *)
Changes(d, n, e, G) ==
  \A x \in Clusters : x \notin G =>
    \A m \in Names : Entry(x, m)' = IF x = d /\ m = n THEN e ELSE Entry(x, m)

PathsAside(q) ==
  \A s \in Seq(Names) : ~IsPrefix(q, s) => \A y \in Clusters : Leads(s, y)' <=> Leads(s, y)
TreeAside(q) ==
  \A s \in Seq(Names) : ~IsPrefix(q, s) => /\ s \in DirPaths' <=> s \in DirPaths
                                           /\ s \in FilePaths' <=> s \in FilePaths

LEMMA PathsStayAside ==
  ASSUME Forest, Forest', NEW p \in Seq(Names), NEW d \in Clusters, NEW n \in Names, Leads(p, d),
         NEW e, NEW G, Changes(d, n, e, G),
         \A v \in Seq(Names) : \A x \in G : Leads(v, x) => IsPrefix(Append(p, n), v)
  PROVE  PathsAside(Append(p, n))
  <1> DEFINE q == Append(p, n)
             Same(s) == ~IsPrefix(q, s) => \A y \in Clusters : Leads(s, y)' <=> Leads(s, y)
             S == {s \in Seq(Names) : Same(s)}
  <1>1. q \in Seq(Names) /\ q # <<>>
        BY OneMore
  <1>2. LeadFacts /\ LeadFacts'
        BY LeadFactsHold, LeadFactsNext
  <1>3. <<>> \in S
    <2>1. <<>> \in Seq(Names)
          OBVIOUS
    <2>2. \A y : Leads(<<>>, y) <=> y = Root
          BY <1>2 DEF LeadFacts
    <2>3. \A y : Leads(<<>>, y)' <=> y = Root
          BY <1>2 DEF LeadFacts
    <2> QED BY <2>1, <2>2, <2>3
  <1>4. ASSUME NEW v \in Seq(Names), NEW m \in Names, v \in S PROVE Append(v, m) \in S
    <2> DEFINE t == Append(v, m)
    <2>1. t \in Seq(Names)
          BY OneMore
    <2> SUFFICES ASSUME ~IsPrefix(q, t), NEW y \in Clusters PROVE Leads(t, y)' <=> Leads(t, y)
        BY <2>1
    <2>2. q # t /\ ~IsPrefix(q, v)
          BY <1>1, Through
    <2>3. \A x \in Clusters : Leads(v, x)' <=> Leads(v, x)
          BY <1>4, <2>2
    <2>4. ASSUME NEW x \in Clusters, Leads(v, x) PROVE Entry(x, m)' = Entry(x, m)
      <3>1. x \notin G
            BY <2>2, <2>4
      <3>2. ~(x = d /\ m = n)
        <4> SUFFICES ASSUME x = d, m = n PROVE FALSE
            OBVIOUS
        <4>1. v = p
              BY <2>4, OnePath
        <4> QED BY <2>2, <4>1
      <3> QED BY <3>1, <3>2 DEF Changes
    <2>5. Leads(t, y) <=> \E x \in Clusters : Leads(v, x) /\ Entry(x, m) = Dir(y)
          BY <1>2 DEF LeadFacts
    <2>6. Leads(t, y)' <=> \E x \in Clusters : Leads(v, x)' /\ Entry(x, m)' = Dir(y)
      <3>1. (Leads(Append(v, m), y) <=> \E x \in Clusters : Leads(v, x) /\ Entry(x, m) = Dir(y))'
            BY <1>2 DEF LeadFacts
      <3> QED BY <3>1 DEF Dir
    <2> QED BY <2>3, <2>4, <2>5, <2>6
  <1> HIDE DEF S
  <1>5. Seq(Names) \subseteq S
        BY <1>3, <1>4, ByLength
  <1> QED BY <1>5 DEF S, PathsAside

LEMMA TreeStaysAside ==
  ASSUME Forest, Forest', NEW p \in Seq(Names), NEW d \in Clusters, NEW n \in Names, Leads(p, d),
         NEW e, NEW G, Changes(d, n, e, G),
         \A v \in Seq(Names) : \A x \in G : Leads(v, x) => IsPrefix(Append(p, n), v)
  PROVE  TreeAside(Append(p, n))
  <1> DEFINE q == Append(p, n)
  <1>1. q \in Seq(Names) /\ q # <<>>
        BY OneMore
  <1>2. LeadFacts /\ LeadFacts'
        BY LeadFactsHold, LeadFactsNext
  <1>3. PathsAside(q)
        BY PathsStayAside
  <1>4. ASSUME NEW s \in Seq(Names), ~IsPrefix(q, s)
        PROVE  s \in DirPaths' <=> s \in DirPaths
    <2>1. \A y \in Clusters : Leads(s, y)' <=> Leads(s, y)
          BY <1>3, <1>4 DEF PathsAside
    <2>2. s \in DirPaths <=> \E x \in Clusters : Leads(s, x)
          BY <1>2 DEF LeadFacts
    <2>3. s \in DirPaths' <=> \E x \in Clusters : Leads(s, x)'
          BY <1>2 DEF LeadFacts
    <2> QED BY <2>1, <2>2, <2>3
  <1>5. ASSUME NEW s \in Seq(Names), ~IsPrefix(q, s)
        PROVE  s \in FilePaths' <=> s \in FilePaths
    <2>1. s \in FilePaths <=> \E v \in Seq(Names), nm \in Names, x \in Clusters :
                                  s = Append(v, nm) /\ Leads(v, x) /\ Entry(x, nm).kind = "file"
          BY <1>2 DEF LeadFacts
    <2>2. s \in FilePaths' <=> \E v \in Seq(Names), nm \in Names, x \in Clusters :
                                  s = Append(v, nm) /\ Leads(v, x)' /\ Entry(x, nm)'.kind = "file"
          BY <1>2 DEF LeadFacts
    <2>3. ASSUME NEW v \in Seq(Names), NEW nm \in Names, NEW x \in Clusters, s = Append(v, nm)
          PROVE  /\ Leads(v, x)' <=> Leads(v, x)
                 /\ Leads(v, x) => Entry(x, nm)' = Entry(x, nm)
      <3>1. q # s /\ ~IsPrefix(q, v)
            BY <1>1, <1>5, <2>3, Through
      <3>2. Leads(v, x)' <=> Leads(v, x)
            BY <1>3, <3>1 DEF PathsAside
      <3>3. ASSUME Leads(v, x) PROVE Entry(x, nm)' = Entry(x, nm)
        <4>1. x \notin G
              BY <3>1, <3>3
        <4>2. ~(x = d /\ nm = n)
          <5> SUFFICES ASSUME x = d, nm = n PROVE FALSE
              OBVIOUS
          <5>1. v = p
                BY <3>3, OnePath
          <5> QED BY <2>3, <3>1, <5>1
        <4> QED BY <4>1, <4>2 DEF Changes
      <3> QED BY <3>2, <3>3
    <2> QED BY <2>1, <2>2, <2>3
  <1> QED BY <1>4, <1>5 DEF TreeAside

(* Where paths end.                                                        *)
Ends ==
  \A p \in Seq(Names) : \A d \in Clusters : \A n \in Names : \A s \in Seq(Names) :
    Leads(p, d) /\ IsPrefix(Append(p, n), s) =>
      /\ Entry(d, n).kind # "dir" =>
           /\ s \notin DirPaths
           /\ s \in FilePaths <=> s = Append(p, n) /\ Entry(d, n).kind = "file"
      /\ \A c \in Clusters : Entry(d, n) = Dir(c) /\ entries[c] = EmptyDir =>
           /\ s \in DirPaths <=> s = Append(p, n)
           /\ s \notin FilePaths

LEMMA EndsHold == Forest => Ends
  <1> SUFFICES ASSUME Forest, NEW p \in Seq(Names), NEW d \in Clusters, NEW n \in Names, Leads(p, d)
               PROVE  \A s \in Seq(Names) : IsPrefix(Append(p, n), s) =>
                        /\ Entry(d, n).kind # "dir" =>
                             /\ s \notin DirPaths
                             /\ s \in FilePaths <=> s = Append(p, n) /\ Entry(d, n).kind = "file"
                        /\ \A c \in Clusters : Entry(d, n) = Dir(c) /\ entries[c] = EmptyDir =>
                             /\ s \in DirPaths <=> s = Append(p, n)
                             /\ s \notin FilePaths
      BY DEF Ends
  <1> DEFINE q == Append(p, n)
  <1>1. q \in Seq(Names) /\ q # <<>> /\ LeadFacts
        BY OneMore, LeadFactsHold
  <1>2. \A y \in Clusters : Leads(q, y) <=> Entry(d, n) = Dir(y)
    <2>1. \A y \in Clusters : Leads(q, y) <=> \E x \in Clusters : Leads(p, x) /\ Entry(x, n) = Dir(y)
          BY <1>1 DEF LeadFacts
    <2>2. \A x \in Clusters : Leads(p, x) => x = d
          BY <1>1 DEF LeadFacts
    <2> QED BY <2>1, <2>2
  <1>3. ASSUME NEW t \in Seq(Names), NEW m \in Names, Append(t, m) = q PROVE t = p /\ m = n
        BY <1>3, SameStep
  <1>4. q \in FilePaths <=> Entry(d, n).kind = "file"
    <2>1. q \in FilePaths <=> \E v \in Seq(Names), nm \in Names, x \in Clusters :
                                  q = Append(v, nm) /\ Leads(v, x) /\ Entry(x, nm).kind = "file"
          BY <1>1 DEF LeadFacts
    <2>2. \A x \in Clusters : Leads(p, x) => x = d
          BY <1>1 DEF LeadFacts
    <2> QED BY <1>3, <2>1, <2>2
  <1>5. CASE Entry(d, n).kind # "dir"
    <2> DEFINE S == {s \in Seq(Names) : IsPrefix(q, s) => \A y \in Clusters : ~Leads(s, y)}
    <2>1. \A y \in Clusters : ~Leads(q, y)
          BY <1>2, <1>5 DEF Dir
    <2>2. <<>> \in S
      <3>1. <<>> \in Seq(Names) /\ ~IsPrefix(q, <<>>)
            BY <1>1, Through, EmptySeq
      <3> QED BY <3>1
    <2>3. ASSUME NEW v \in Seq(Names), NEW m \in Names, v \in S PROVE Append(v, m) \in S
      <3> DEFINE t == Append(v, m)
      <3>1. t \in Seq(Names)
            BY OneMore
      <3> SUFFICES ASSUME IsPrefix(q, t), NEW y \in Clusters PROVE ~Leads(t, y)
          BY <3>1
      <3>2. q = t \/ IsPrefix(q, v)
            BY <1>1, Through
      <3>3. CASE q = t
            BY <2>1, <3>3
      <3>4. CASE IsPrefix(q, v)
        <4>1. \A x \in Clusters : ~Leads(v, x)
              BY <2>3, <3>4
        <4> QED BY <1>1, <4>1 DEF LeadFacts
      <3> QED BY <3>2, <3>3, <3>4
    <2> HIDE DEF S
    <2>4. Seq(Names) \subseteq S
          BY <2>2, <2>3, ByLength
    <2>5. \A s \in Seq(Names) : IsPrefix(q, s) => \A y \in Clusters : ~Leads(s, y)
          BY <2>4 DEF S
    <2>6. ASSUME NEW s \in Seq(Names), IsPrefix(q, s)
          PROVE  s \notin DirPaths /\ (s \in FilePaths <=> s = q /\ Entry(d, n).kind = "file")
      <3>1. s \notin DirPaths
            BY <1>1, <2>5, <2>6 DEF LeadFacts
      <3>2. ASSUME s \in FilePaths PROVE s = q
        <4>1. PICK v \in Seq(Names), nm \in Names, x \in Clusters : s = Append(v, nm) /\ Leads(v, x)
              BY <1>1, <3>2 DEF LeadFacts
        <4>2. ~IsPrefix(q, v)
              BY <2>5, <4>1
        <4>3. IsPrefix(q, Append(v, nm))
              BY <2>6, <4>1
        <4>4. q = Append(v, nm) \/ IsPrefix(q, v)
              BY <1>1, <4>3, Through
        <4> QED BY <4>1, <4>2, <4>4
      <3> QED BY <1>4, <3>1, <3>2
    <2>7. \A c \in Clusters : Entry(d, n) # Dir(c)
          BY <1>5 DEF Dir
    <2> QED BY <2>6, <2>7
  <1>6. CASE Entry(d, n).kind = "dir"
    <2> SUFFICES ASSUME NEW c \in Clusters, Entry(d, n) = Dir(c), entries[c] = EmptyDir,
                        NEW s0 \in Seq(Names), IsPrefix(q, s0)
                 PROVE  (s0 \in DirPaths <=> s0 = q) /\ s0 \notin FilePaths
        BY <1>6
    <2> DEFINE S == {s \in Seq(Names) : IsPrefix(q, s) => \A y \in Clusters : Leads(s, y) => s = q /\ y = c}
    <2>1. \A y \in Clusters : Leads(q, y) <=> y = c
      <3>1. \A y : Dir(y).first = y
            BY DEF Dir
      <3>2. \A y : Dir(c) = Dir(y) <=> y = c
            BY <3>1
      <3> QED BY <1>2, <3>2
    <2>2. \A m \in Names : Entry(c, m).kind = "absent"
          BY DEF Entry, EmptyDir, Absent
    <2>3. <<>> \in S
      <3>1. <<>> \in Seq(Names) /\ ~IsPrefix(q, <<>>)
            BY <1>1, Through, EmptySeq
      <3> QED BY <3>1
    <2>4. ASSUME NEW v \in Seq(Names), NEW m \in Names, v \in S PROVE Append(v, m) \in S
      <3> DEFINE t == Append(v, m)
      <3>1. t \in Seq(Names)
            BY OneMore
      <3> SUFFICES ASSUME IsPrefix(q, t), NEW y \in Clusters, Leads(t, y) PROVE t = q /\ y = c
          BY <3>1
      <3>2. q = t \/ IsPrefix(q, v)
            BY <1>1, Through
      <3>3. CASE q = t
            BY <2>1, <3>3
      <3>4. CASE IsPrefix(q, v)
        <4>1. PICK x \in Clusters : Leads(v, x) /\ Entry(x, m) = Dir(y)
              BY <1>1 DEF LeadFacts
        <4>2. x = c
              BY <2>4, <3>4, <4>1
        <4> QED BY <2>2, <4>1, <4>2 DEF Dir
      <3> QED BY <3>2, <3>3, <3>4
    <2> HIDE DEF S
    <2>5. Seq(Names) \subseteq S
          BY <2>3, <2>4, ByLength
    <2>6. \A s \in Seq(Names) : IsPrefix(q, s) => \A y \in Clusters : Leads(s, y) => s = q /\ y = c
          BY <2>5 DEF S
    <2>7. s0 \in DirPaths <=> s0 = q
      <3>1. s0 \in DirPaths <=> \E x \in Clusters : Leads(s0, x)
            BY <1>1 DEF LeadFacts
      <3> QED BY <2>1, <2>6, <3>1
    <2>8. ASSUME s0 \in FilePaths PROVE FALSE
      <3>1. PICK v \in Seq(Names), nm \in Names, x \in Clusters :
              s0 = Append(v, nm) /\ Leads(v, x) /\ Entry(x, nm).kind = "file"
            BY <1>1, <2>8 DEF LeadFacts
      <3>2. q = s0 \/ IsPrefix(q, v)
            BY <1>1, <3>1, Through
      <3>3. CASE q = s0
            BY <1>4, <1>6, <2>8, <3>3
      <3>4. CASE IsPrefix(q, v)
            BY <2>2, <2>6, <3>1, <3>4
      <3> QED BY <3>2, <3>3, <3>4
    <2> QED BY <2>7, <2>8
  <1> QED BY <1>5, <1>6

LEMMA EndsNext == Forest' => Ends'
  BY EndsHold, PTL

-----------------------------------------------------------------------------
(* What the writes of entries do to the tree.                              *)
PathsTyped == DirPaths \subseteq Seq(Names) /\ FilePaths \subseteq Seq(Names)

LEMMA PathsTypedHolds == Forest => PathsTyped
  <1> SUFFICES ASSUME Forest PROVE PathsTyped
      OBVIOUS
  <1>1. DirPaths = Leading /\ FilePaths = ToFile
        BY PathsAre
  <1> QED BY <1>1 DEF PathsTyped, Leading, ToFile

LEMMA PathsTypedNext == Forest' => PathsTyped'
  BY PathsTypedHolds, PTL

LEMMA FileAppears ==
  ASSUME Forest, Forest', NEW p \in Seq(Names), NEW d \in Clusters, NEW n \in Names, Leads(p, d),
         NEW e, Changes(d, n, e, {}), Entry(d, n).kind # "dir", e.kind = "file"
  PROVE  /\ DirPaths' = DirPaths /\ FilePaths' = FilePaths \cup {Append(p, n)}
         /\ Append(p, n) \notin DirPaths /\ p \in DirPaths
  <1> DEFINE q == Append(p, n)
  <1>1. q \in Seq(Names) /\ IsPrefix(q, q)
        BY OneMore, Through
  <1>2. TreeAside(q) /\ Ends /\ Ends' /\ PathsTyped /\ PathsTyped' /\ LeadFacts
        BY TreeStaysAside, EndsHold, EndsNext, PathsTypedHolds, PathsTypedNext, LeadFactsHold
  <1>3. Entry(d, n)' = e
        BY DEF Changes
  <1>4. Leads(p, d)'
    <2>1. PathsAside(q)
          BY PathsStayAside
    <2>2. ~IsPrefix(q, p)
      <3>1. Len(q) = Len(p) + 1 /\ Len(p) \in Nat
            BY OneMore
      <3> QED BY <3>1 DEF IsPrefix
    <2> QED BY <2>1, <2>2 DEF PathsAside
  <1>5. \A s \in Seq(Names) : IsPrefix(q, s) => s \notin DirPaths /\ (s \in FilePaths => s = q)
        BY <1>2 DEF Ends
  <1>6. ASSUME NEW s \in Seq(Names), IsPrefix(q, s)
        PROVE  s \notin DirPaths' /\ (s \in FilePaths' <=> s = q)
    <2>1. Entry(d, n)'.kind = "file"
          BY <1>3
    <2>2. /\ Entry(d, n)'.kind # "dir" =>
             /\ s \notin DirPaths'
             /\ s \in FilePaths' <=> s = Append(p, n) /\ Entry(d, n)'.kind = "file"
          BY <1>2, <1>4, <1>6 DEF Ends
    <2> QED BY <2>1, <2>2
  <1>7. DirPaths' = DirPaths
        BY <1>2, <1>5, <1>6 DEF TreeAside, PathsTyped
  <1>8. FilePaths' = FilePaths \cup {q}
        BY <1>1, <1>2, <1>5, <1>6 DEF TreeAside, PathsTyped
  <1>9. p \in DirPaths
        BY <1>2 DEF LeadFacts
  <1> QED BY <1>1, <1>5, <1>7, <1>8, <1>9

LEMMA DirAppears ==
  ASSUME Forest, Forest', NEW p \in Seq(Names), NEW d \in Clusters, NEW n \in Names, Leads(p, d),
         NEW c \in Clusters, Changes(d, n, Dir(c), {}), Entry(d, n) = Absent, entries'[c] = EmptyDir
  PROVE  /\ DirPaths' = DirPaths \cup {Append(p, n)} /\ FilePaths' = FilePaths
         /\ Append(p, n) \notin DirPaths \cup FilePaths /\ p \in DirPaths
  <1> DEFINE q == Append(p, n)
             e == Dir(c)
  <1>1. q \in Seq(Names) /\ IsPrefix(q, q)
        BY OneMore, Through
  <1>2. TreeAside(q) /\ PathsAside(q)
    <2> HIDE DEF e
    <2> QED BY TreeStaysAside, PathsStayAside
  <1>3. Ends /\ Ends' /\ PathsTyped /\ PathsTyped' /\ LeadFacts
        BY EndsHold, EndsNext, PathsTypedHolds, PathsTypedNext, LeadFactsHold
  <1>4. Entry(d, n)' = Dir(c)
        BY DEF Changes
  <1>5. Leads(p, d)'
    <2>1. ~IsPrefix(q, p)
      <3>1. Len(q) = Len(p) + 1 /\ Len(p) \in Nat
            BY OneMore
      <3> QED BY <3>1 DEF IsPrefix
    <2> QED BY <1>2, <2>1 DEF PathsAside
  <1>6. \A s \in Seq(Names) : IsPrefix(q, s) => s \notin DirPaths /\ s \notin FilePaths
    <2>1. Entry(d, n).kind = "absent"
          BY DEF Absent
    <2> QED BY <1>3, <2>1 DEF Ends
  <1>7. ASSUME NEW s \in Seq(Names), IsPrefix(q, s)
        PROVE  (s \in DirPaths' <=> s = q) /\ s \notin FilePaths'
    <2>1. /\ \A x \in Clusters : (Entry(d, n) = Dir(x))' /\ entries'[x] = EmptyDir =>
               /\ s \in DirPaths' <=> s = Append(p, n)
               /\ s \notin FilePaths'
          BY <1>3, <1>5, <1>7 DEF Ends, Dir, EmptyDir, Absent
    <2>2. (Entry(d, n) = Dir(c))'
          BY <1>4 DEF Dir
    <2> QED BY <2>1, <2>2
  <1>8. DirPaths' = DirPaths \cup {q}
        BY <1>1, <1>2, <1>3, <1>6, <1>7 DEF TreeAside, PathsTyped
  <1>9. FilePaths' = FilePaths
        BY <1>2, <1>3, <1>6, <1>7 DEF TreeAside, PathsTyped
  <1>10. p \in DirPaths
         BY <1>3 DEF LeadFacts
  <1> QED BY <1>1, <1>6, <1>8, <1>9, <1>10

LEMMA GoneIsBelow ==   \* what is removed with an entry is what lies below it
  ASSUME Forest, NEW p \in Seq(Names), NEW d \in DirsFrom(Root), NEW n \in Names, Leads(p, d),
         Entry(d, n) # Absent
  PROVE  \A v \in Seq(Names) : \A x \in Gone(d, n) : Leads(v, x) => IsPrefix(Append(p, n), v)
  <1> DEFINE q == Append(p, n)
             G == Gone(d, n)
             S == {v \in Seq(Names) : \A x \in G : Leads(v, x) => IsPrefix(q, v)}
  <1>1. q \in Seq(Names) /\ q # <<>> /\ LeadFacts /\ Root \notin G
        BY OneMore, LeadFactsHold, GoneFacts
  <1>2. /\ \A x \in Clusters : \A m \in Names :
              Entry(x, m).first # 0 /\ Entry(x, m).first \in G
              => x \in G \/ (x = d /\ m = n)
        BY GoneFacts
  <1> HIDE DEF G
  <1>3. <<>> \in S
    <2>1. <<>> \in Seq(Names)
          BY EmptySeq
    <2>2. \A x : Leads(<<>>, x) => x = Root
          BY <1>1 DEF LeadFacts
    <2> QED BY <1>1, <2>1, <2>2
  <1>4. ASSUME NEW v \in Seq(Names), NEW m \in Names, v \in S PROVE Append(v, m) \in S
    <2> DEFINE t == Append(v, m)
    <2>1. t \in Seq(Names)
          BY OneMore
    <2> SUFFICES ASSUME NEW y \in G, Leads(t, y) PROVE IsPrefix(q, t)
        BY <2>1
    <2>2. y \in Clusters /\ y # 0
          BY TreeAssumption DEF Leads
    <2>3. PICK x \in Clusters : Leads(v, x) /\ Entry(x, m) = Dir(y)
          BY <1>1, <2>2 DEF LeadFacts
    <2>4. Entry(x, m).first = y
          BY <2>3 DEF Dir
    <2>5. CASE x \in G
      <3>1. IsPrefix(q, v)
            BY <1>4, <2>3, <2>5
      <3> QED BY <1>1, <3>1, Through
    <2>6. CASE x = d /\ m = n
      <3>1. v = p
            BY <2>3, <2>6, OnePath
      <3> QED BY <1>1, <2>6, <3>1, Through
    <2> QED BY <1>2, <2>2, <2>4, <2>5, <2>6
  <1> HIDE DEF S
  <1>5. Seq(Names) \subseteq S
        BY <1>3, <1>4, ByLength
  <1> QED BY <1>5 DEF S, G

LEMMA TreeIsCut ==
  ASSUME Forest, Forest', NEW p \in Seq(Names), NEW d \in DirsFrom(Root), NEW n \in Names, Leads(p, d),
         Entry(d, n) # Absent, Changes(d, n, Absent, Gone(d, n))
  PROVE  /\ DirPaths' = {s \in DirPaths : ~IsPrefix(Append(p, n), s)}
         /\ FilePaths' = {s \in FilePaths : ~IsPrefix(Append(p, n), s)}
         /\ Append(p, n) \in DirPaths \cup FilePaths
  <1> DEFINE q == Append(p, n)
             e == Absent
             G == Gone(d, n)
  <1>1. q \in Seq(Names) /\ IsPrefix(q, q) /\ d \in Clusters /\ EntriesTyped
        BY OneMore, Through, RootIsReached DEF Forest
  <1>2. \A v \in Seq(Names) : \A x \in G : Leads(v, x) => IsPrefix(Append(p, n), v)
        BY GoneIsBelow
  <1>3. TreeAside(q) /\ PathsAside(q)
    <2> HIDE DEF e, G
    <2> QED BY <1>1, <1>2, TreeStaysAside, PathsStayAside DEF e, G
  <1>4. Ends' /\ PathsTyped /\ PathsTyped' /\ LeadFacts
        BY EndsNext, PathsTypedHolds, PathsTypedNext, LeadFactsHold
  <1>5. Entry(d, n)' = Absent
    <2>1. d \notin G
          BY GoneFacts
    <2> QED BY <1>1, <2>1 DEF Changes
  <1>6. Leads(p, d)'
    <2>1. ~IsPrefix(q, p)
      <3>1. Len(q) = Len(p) + 1 /\ Len(p) \in Nat
            BY OneMore
      <3> QED BY <3>1 DEF IsPrefix
    <2> QED BY <1>1, <1>3, <2>1 DEF PathsAside
  <1>7. ASSUME NEW s \in Seq(Names), IsPrefix(q, s)
        PROVE  s \notin DirPaths' /\ s \notin FilePaths'
    <2>1. Entry(d, n)'.kind = "absent"
          BY <1>5 DEF Absent
    <2>2. /\ Entry(d, n)'.kind # "dir" =>
             /\ s \notin DirPaths'
             /\ s \in FilePaths' <=> s = Append(p, n) /\ Entry(d, n)'.kind = "file"
          BY <1>1, <1>4, <1>6, <1>7 DEF Ends
    <2> QED BY <2>1, <2>2
  <1>8. DirPaths' = {s \in DirPaths : ~IsPrefix(q, s)}
        BY <1>3, <1>4, <1>7 DEF TreeAside, PathsTyped
  <1>9. FilePaths' = {s \in FilePaths : ~IsPrefix(q, s)}
        BY <1>3, <1>4, <1>7 DEF TreeAside, PathsTyped
  <1>10. q \in DirPaths \cup FilePaths
    <2>1. CASE Entry(d, n).kind = "file"
          BY <1>1, <1>4, <2>1 DEF LeadFacts
    <2>2. CASE Entry(d, n).kind = "dir"
      <3>1. Entry(d, n) = Dir(Entry(d, n).first) /\ Entry(d, n).first \in Clusters
            BY <1>1, <2>2, EntryKinds
      <3>2. Leads(q, Entry(d, n).first)
            BY <1>1, <1>4, <3>1 DEF LeadFacts
      <3> QED BY <1>4, <3>1, <3>2 DEF LeadFacts
    <2> QED BY <1>1, <2>1, <2>2, EntryKinds
  <1> QED BY <1>8, <1>9, <1>10

-----------------------------------------------------------------------------
(* The path the operation in progress was given leads to the directory it  *)
(* writes to; a new directory takes no entry's place.                      *)
Aimed(w) ==
  \E p \in Seq(Names) : /\ named = Append(p, w.n) /\ Leads(p, w.d)
                        /\ w.e.kind = "dir" => Entry(w.d, w.n) = Absent
Aims == \A w \in Writes : w \in ToSet(todo) /\ w.op = "put" => Aimed(w)

LEMMA NoneToAim ==
  ASSUME todo' = <<>>
  PROVE  Aims'
  <1>1. ToSet(<<>>) = {}
        BY DEF ToSet
  <1> QED BY <1>1 DEF Aims

SamePaths ==
  /\ \A s \in Seq(Names) : \A y \in Clusters : Leads(s, y)' <=> Leads(s, y)
  /\ DirPaths' = DirPaths /\ FilePaths' = FilePaths

LEMMA PathsStay ==
  ASSUME Forest, Forest', entries' = entries
  PROVE  SamePaths
  <1> DEFINE S == {s \in Seq(Names) : \A y \in Clusters : Leads(s, y)' <=> Leads(s, y)}
  <1>1. LeadFacts /\ LeadFacts' /\ PathsTyped /\ PathsTyped'
        BY LeadFactsHold, LeadFactsNext, PathsTypedHolds, PathsTypedNext
  <1>2. <<>> \in S
    <2>1. <<>> \in Seq(Names)
          OBVIOUS
    <2>2. \A y : Leads(<<>>, y) <=> y = Root
          BY <1>1 DEF LeadFacts
    <2>3. \A y : Leads(<<>>, y)' <=> y = Root
          BY <1>1 DEF LeadFacts
    <2> QED BY <2>1, <2>2, <2>3
  <1>3. \A x \in Clusters : \A m \in Names : Entry(x, m)' = Entry(x, m)
        BY DEF Entry
  <1>4. ASSUME NEW v \in Seq(Names), NEW m \in Names, v \in S PROVE Append(v, m) \in S
    <2>1. Append(v, m) \in Seq(Names)
          BY OneMore
    <2> SUFFICES ASSUME NEW y \in Clusters PROVE Leads(Append(v, m), y)' <=> Leads(Append(v, m), y)
        BY <2>1
    <2>2. Leads(Append(v, m), y) <=> \E x \in Clusters : Leads(v, x) /\ Entry(x, m) = Dir(y)
          BY <1>1 DEF LeadFacts
    <2>3. Leads(Append(v, m), y)' <=> \E x \in Clusters : Leads(v, x)' /\ Entry(x, m)' = Dir(y)
      <3>1. (Leads(Append(v, m), y) <=> \E x \in Clusters : Leads(v, x) /\ Entry(x, m) = Dir(y))'
            BY <1>1 DEF LeadFacts
      <3> QED BY <3>1 DEF Dir
    <2> QED BY <1>3, <1>4, <2>2, <2>3
  <1> HIDE DEF S
  <1>5. Seq(Names) \subseteq S
        BY <1>2, <1>4, ByLength
  <1>6. \A s \in Seq(Names) : \A y \in Clusters : Leads(s, y)' <=> Leads(s, y)
        BY <1>5 DEF S
  <1>7. DirPaths' = DirPaths
    <2>1. \A s : s \in DirPaths <=> s \in Seq(Names) /\ \E x \in Clusters : Leads(s, x)
          BY <1>1 DEF LeadFacts, PathsTyped
    <2>2. \A s : s \in DirPaths' <=> s \in Seq(Names) /\ \E x \in Clusters : Leads(s, x)'
          BY <1>1 DEF LeadFacts, PathsTyped
    <2> QED BY <1>6, <2>1, <2>2
  <1>8. FilePaths' = FilePaths
    <2>1. \A s : s \in FilePaths <=> \E v \in Seq(Names), nm \in Names, x \in Clusters :
                                  s = Append(v, nm) /\ Leads(v, x) /\ Entry(x, nm).kind = "file"
          BY <1>1 DEF LeadFacts
    <2>2. \A s : s \in FilePaths' <=> \E v \in Seq(Names), nm \in Names, x \in Clusters :
                                  s = Append(v, nm) /\ Leads(v, x)' /\ Entry(x, nm)'.kind = "file"
          BY <1>1 DEF LeadFacts
    <2>3. \A s : s \in FilePaths' <=> s \in FilePaths
          BY <1>3, <1>6, <2>1, <2>2
    <2> QED BY <2>3
  <1> QED BY <1>6, <1>7, <1>8 DEF SamePaths

(* A request's path leads to its directory.                                *)
LEMMA RequestsAim ==
  ASSUME Inv, Ready, StringLeads, NEW absolute \in BOOLEAN, NEW parts \in Parts, NEW n \in Names,
         Target(absolute, parts, n) # Invalid
  PROVE  \E p \in Seq(Names) : /\ Named(absolute, parts, n) = Append(p, n)
                               /\ Leads(p, Target(absolute, parts, n))
  <1> DEFINE d == Target(absolute, parts, n)
  <1>1. Settled /\ Forest /\ Linked /\ Resolve(TRUE, cwdString) = cwd /\ cwd \in DirsFrom(Root)
        /\ EntriesTyped /\ DirsFrom(Root) \subseteq Clusters /\ ~stale
        BY ReadyIsSettled, RootIsReached DEF StringLeads, Settled, Ready, Sound, Forest
  <1>2. d \in Clusters
        BY <1>1, TargetStays
  <1>3. PICK s \in Seq(Names) : s = IF absolute THEN <<>> ELSE cwdString
    <2>1. cwdString \in Seq(Names)
          BY DEF Inv, TypeOK
    <2>2. <<>> \in Seq(Names)
          OBVIOUS
    <2> QED BY <2>1, <2>2
  <1>4. PICK c \in Seq(Names) : c = cwdString
        BY DEF Inv, TypeOK
  <1>5. PICK u \in Seq(Names) : u = Normalized(s \o parts)
    <2>1. parts \in Seq(Part) /\ s \in Seq(Part)
          BY TreeAssumption DEF Part
    <2>2. s \o parts \in Seq(Part)
          BY <2>1
    <2> QED BY <2>2, NormalizedTyped
  <1>6. CASE OnlyName(absolute, parts, n)
    <2>1. d = cwd /\ Named(absolute, parts, n) = Append(c, n)
          BY <1>4, <1>6 DEF Target, Named
    <2>2. Leads(c, d)
      <3>1. Resolve(TRUE, c) = d
            BY <1>1, <1>4, <2>1
      <3> QED BY <1>2, <3>1 DEF Leads
    <2> QED BY <2>1, <2>2
  <1>7. CASE ~OnlyName(absolute, parts, n)
    <2>1. d = Resolve(absolute, parts) /\ Named(absolute, parts, n) = Append(u, n)
          BY <1>3, <1>5, <1>7 DEF Target, Named
    <2>2. parts \in Seq(Part)
          BY TreeAssumption DEF Part
    <2>3. Resolve(TRUE, s) = IF absolute THEN Root ELSE cwd
          BY <1>1, <1>3, WalkFactsHold DEF WalkFacts
    <2>4. Resolve(TRUE, Normalized(s \o parts)) = Resolve(absolute, parts)
          BY <1>1, <2>1, <2>2, <2>3, NormalizedLeads
    <2>5. Leads(u, d)
          BY <1>2, <1>5, <2>1, <2>4 DEF Leads
    <2> QED BY <2>1, <2>5
  <1> QED BY <1>6, <1>7

LEMMA TailOf ==
  ASSUME NEW s \in Seq(Writes), s # <<>>
  PROVE  /\ Head(s) \in Writes /\ Tail(s) \in Seq(Writes) /\ Head(s) \in ToSet(s)
         /\ ToSet(Tail(s)) \subseteq ToSet(s)
  <1>1. /\ Len(s) \in Nat /\ Len(s) >= 1 /\ DOMAIN s = 1..Len(s) /\ Head(s) = s[1]
        /\ Tail(s) \in Seq(Writes) /\ Len(Tail(s)) = Len(s) - 1
        /\ \A i \in 1..Len(Tail(s)) : Tail(s)[i] = s[i + 1]
    <2>1. Len(s) \in Nat /\ Len(s) # 0
          BY EmptySeq
    <2> QED BY <2>1
  <1>2. Head(s) \in Writes /\ Head(s) \in ToSet(s)
    <2>1. 1 \in DOMAIN s
          BY <1>1
    <2> QED BY <1>1, <2>1 DEF ToSet
  <1>3. ASSUME NEW x \in ToSet(Tail(s)) PROVE x \in ToSet(s)
    <2>1. DOMAIN Tail(s) = 1..Len(Tail(s))
          BY <1>1
    <2>2. PICK i \in 1..Len(Tail(s)) : Tail(s)[i] = x
          BY <1>3, <2>1 DEF ToSet
    <2>3. i + 1 \in DOMAIN s /\ s[i + 1] = x
          BY <1>1, <2>2
    <2> QED BY <2>3 DEF ToSet
  <1> QED BY <1>1, <1>2, <1>3

(* Every write of an entry that a command issues is to its directory.      *)
Intended(w, d, n) ==
  w.op = "put" => /\ w.d = d /\ w.n = n
                  /\ w.e.kind = "dir" => Entry(d, n) = Absent

LEMMA CommandIntends ==
  ASSUME TypeOK, NEW d \in Clusters, NEW n \in Names, Command(d, n)
  PROVE  \A w \in ToSet(todo') : Intended(w, d, n)
  <1>1. \A e, G : (e.kind = "dir" => Entry(d, n) = Absent) => Intended(Put(d, n, e, G), d, n)
        BY DEF Intended, Put
  <1>2. /\ \A c : Intended(Mark(c), d, n)
        /\ \A c, p : Intended(InitDir(c, p), d, n)
        /\ \A cs : Intended(FreeWrite(cs), d, n)
        BY DEF Intended, Mark, InitDir, FreeWrite
  <1>3. /\ \A a : ToSet(<<a>>) = {a}
        /\ \A a, b : ToSet(<<a, b>>) = {a, b}
        /\ \A a, b, c : ToSet(<<a, b, c>>) = {a, b, c}
    <2>1. \A a : ToSet(<<a>>) = {a}
          BY DEF ToSet
    <2>2. \A a, b : ToSet(<<a, b>>) = {a, b}
          BY DEF ToSet
    <2>3. \A a, b, c : ToSet(<<a, b, c>>) = {a, b, c}
          BY DEF ToSet
    <2> QED BY <2>1, <2>2, <2>3
  <1>4. Absent.kind # "dir" /\ \A c : File(c).kind # "dir"
        BY DEF Absent, File
  <1>5. CASE CreateFile(d, n)
    <2>1. todo' = <<Put(d, n, File(0), {})>>
          BY <1>5 DEF CreateFile, Issue
    <2>2. Intended(Put(d, n, File(0), {}), d, n)
          BY <1>1, <1>4
    <2> QED BY <1>3, <2>1, <2>2
  <1>10. ASSUME Issue(<<>>, 0)
         PROVE  \A w \in ToSet(todo') : Intended(w, d, n)
         BY <1>10 DEF Issue, ToSet
  <1>6. CASE WriteFile(d, n)
    <2> SUFFICES ASSUME ~Issue(<<>>, 0) PROVE \A w \in ToSet(todo') : Intended(w, d, n)
        BY <1>10
    <2>1. todo' = <<Mark(FindEmpty), Put(d, n, File(FindEmpty), {})>>
          BY <1>6 DEF WriteFile, Issue
    <2>2. Intended(Put(d, n, File(FindEmpty), {}), d, n) /\ Intended(Mark(FindEmpty), d, n)
          BY <1>1, <1>2, <1>4
    <2> QED BY <1>3, <2>1, <2>2
  <1>7. CASE CreateDir(d, n)
    <2> SUFFICES ASSUME ~Issue(<<>>, 0) PROVE \A w \in ToSet(todo') : Intended(w, d, n)
        BY <1>10
    <2> DEFINE c == FindEmpty
    <2>1. todo' = <<Mark(c), Put(d, n, Dir(c), {}), InitDir(c, d)>> /\ Entry(d, n) = Absent
          BY <1>7 DEF CreateDir, Issue, DotDotOfNew
    <2>2. Intended(Put(d, n, Dir(c), {}), d, n) /\ Intended(Mark(c), d, n) /\ Intended(InitDir(c, d), d, n)
          BY <1>1, <1>2, <2>1
    <2> HIDE DEF c
    <2> QED BY <1>3, <2>1, <2>2
  <1>8. CASE DeleteFile(d, n)
    <2> DEFINE p == Put(d, n, Absent, Gone(d, n))
    <2>1. /\ todo' = Free({Entry(d, n).first} \ {0}) \o <<p>>
          BY <1>8 DEF DeleteFile, Issue, Inside, Gone
    <2>2. Intended(p, d, n)
          BY <1>1, <1>4
    <2>3. p \in Writes /\ <<p>> \in Seq(Writes) /\ ToSet(<<p>>) = {p}
          BY <1>3, DropsIs
    <2>4. PICK cs \in SUBSET Clusters : cs = {Entry(d, n).first} \ {0}
          BY InsideTyped
    <2> HIDE DEF p
    <2> DEFINE t == <<p>>
    <2>5. ToSet(todo') \subseteq {FreeWrite(cs)} \cup {p}
      <3>1. t \in Seq(Writes) /\ ToSet(t) = {p} /\ todo' = Free(cs) \o t
            BY <2>1, <2>3, <2>4
      <3> HIDE DEF t
      <3>2. ToSet(Free(cs) \o t) = (IF cs = {} THEN {} ELSE {FreeWrite(cs)}) \cup ToSet(t)
            BY <3>1, FreeThen
      <3> QED BY <3>1, <3>2
    <2> QED BY <1>2, <2>2, <2>5
  <1>9. CASE DeleteDir(d, n)
    <2> DEFINE p == Put(d, n, Absent, Gone(d, n))
               a == Free(Inside(d, n))
               b == Free({Entry(d, n).first} \ {0})
    <2>1. todo' = (<<p>> \o a) \o b
          BY <1>9 DEF DeleteDir, Issue, Inside, Cleared, Gone, Removal
    <2>2. Intended(p, d, n)
          BY <1>1, <1>4
    <2>3. p \in Writes /\ <<p>> \in Seq(Writes)
          BY DropsIs
    <2>4. PICK us \in SUBSET Clusters, vs \in SUBSET Clusters :
            us = Inside(d, n) /\ vs = {Entry(d, n).first} \ {0}
          BY InsideTyped
    <2>5. a = Free(us) /\ b = Free(vs) /\ a \in Seq(Writes) /\ b \in Seq(Writes)
          BY <2>4, FreeTyped
    <2> HIDE DEF p, a, b
    <2>6. todo' = <<p>> \o (a \o b)
          BY <2>1, <2>3, <2>5, ConcatAssociative
    <2>7. ToSet(b) \subseteq {FreeWrite(vs)}
      <3>1. b = b \o <<>> /\ ToSet(<<>>) = {} /\ <<>> \in Seq(Writes)
            BY <2>5, NoWrites
      <3>2. ToSet(Free(vs) \o <<>>) = (IF vs = {} THEN {} ELSE {FreeWrite(vs)}) \cup ToSet(<<>>)
            BY <3>1, FreeThen
      <3> QED BY <2>5, <3>1, <3>2
    <2>8. a \o b \in Seq(Writes) /\ ToSet(a \o b) \subseteq {FreeWrite(us)} \cup ToSet(b)
          BY <2>5, FreeThen
    <2>9. ToSet(todo') = {p} \cup ToSet(a \o b)
      <3> DEFINE s == a \o b
      <3>1. s \in Seq(Writes)
            BY <2>8
      <3>2. todo' = <<p>> \o s
            BY <2>6
      <3> HIDE DEF s
      <3>3. ToSet(<<p>> \o s) = {p} \cup ToSet(s)
            BY <2>3, <3>1, Prefixed
      <3> QED BY <3>2, <3>3 DEF s
    <2> QED BY <1>2, <2>2, <2>7, <2>8, <2>9
  <1> QED BY <1>5, <1>6, <1>7, <1>8, <1>9 DEF Command

LEMMA AimsStay ==   \* a step that writes no entry
  ASSUME Forest, Forest', entries' = entries, Aims,
         named' = named \/ todo' = <<>>,
         \A w \in ToSet(todo') : w.op = "put" => w \in ToSet(todo)
  PROVE  Aims'
  <1>1. CASE todo' = <<>>
        BY <1>1, NoneToAim
  <1>2. CASE named' = named
    <2> SUFFICES ASSUME NEW w \in Writes, w \in ToSet(todo'), w.op = "put"
                 PROVE  \E p \in Seq(Names) : /\ named' = Append(p, w.n) /\ Leads(p, w.d)'
                                              /\ w.e.kind = "dir" => Entry(w.d, w.n)' = Absent
        BY DEF Aims, Aimed, Absent
    <2>1. w.d \in Clusters /\ w.n \in Names
          BY WriteKinds
    <2>2. PICK p \in Seq(Names) : /\ named = Append(p, w.n) /\ Leads(p, w.d)
                                  /\ w.e.kind = "dir" => Entry(w.d, w.n) = Absent
          BY DEF Aims, Aimed
    <2>3. Leads(p, w.d)'
          BY <2>1, <2>2, PathsStay DEF SamePaths
    <2>4. Entry(w.d, w.n)' = Entry(w.d, w.n)
          BY DEF Entry
    <2> QED BY <1>2, <2>2, <2>3, <2>4
  <1> QED BY <1>1, <1>2

LEMMA OperationAims ==
  ASSUME Inv, Inv', Ready, StringLeads, NEW r \in Requests, Operation(r)
  PROVE  Aims'
  <1> SUFFICES ASSUME todo' # <<>> PROVE Aims'
      BY NoneToAim
  <1>1. PICK absolute \in BOOLEAN, parts \in Parts, n \in Names :
          r = [dir |-> Target(absolute, parts, n), path |-> Named(absolute, parts, n), name |-> n]
        BY DEF Requests
  <1>2. /\ Target(absolute, parts, n) = r.dir /\ r.dir # Invalid /\ r.name = n
        /\ named' = Named(absolute, parts, n) /\ Command(r.dir, n)
        BY <1>1 DEF Operation
  <1>3. PICK p \in Seq(Names) : Named(absolute, parts, n) = Append(p, n) /\ Leads(p, r.dir)
        BY <1>2, RequestsAim
  <1>4. PICK d \in Clusters : d = r.dir
        BY <1>3 DEF Leads
  <1>5. /\ TypeOK /\ Forest /\ Forest'
        BY DEF Inv
  <1>6. \A w \in ToSet(todo') : Intended(w, d, n)
        BY <1>2, <1>4, <1>5, CommandIntends
  <1>7. entries' = entries
        BY <1>2 DEF Command, CreateFile, WriteFile, CreateDir, DeleteFile, DeleteDir, Issue, disk
  <1>8. Leads(p, d)'
        BY <1>3, <1>4, <1>5, <1>7, PathsStay DEF SamePaths
  <1> SUFFICES ASSUME NEW w \in Writes, w \in ToSet(todo'), w.op = "put"
               PROVE  \E q \in Seq(Names) : /\ named' = Append(q, w.n) /\ Leads(q, w.d)'
                                            /\ w.e.kind = "dir" => Entry(w.d, w.n)' = Absent
      BY DEF Aims, Aimed, Absent
  <1>9. w.d = d /\ w.n = n /\ (w.e.kind = "dir" => Entry(d, n) = Absent)
        BY <1>6 DEF Intended
  <1>10. Entry(d, n)' = Entry(d, n)
         BY <1>7 DEF Entry
  <1> QED BY <1>2, <1>3, <1>8, <1>9, <1>10

(* Of the writes of an operation one at most is to an entry that leads     *)
(* somewhere.                                                              *)
LEMMA OneEntryOnly ==
  ASSUME TypeOK, Good, todo # <<>>, Head(todo).op \in {"put", "init"}
  PROVE  \A w \in ToSet(Tail(todo)) : w.op # "put"
  <1> DEFINE R == DirsFrom(Root)
  <1>1. /\ Forest /\ EntriesTyped /\ R \subseteq Clusters /\ Phase
        BY RootIsReached DEF Good, Forest
  <1>2. /\ ToSet(<<>>) = {} /\ \A cs : FreeWrite(cs).op = "free"
        /\ \A c, p : InitDir(c, p).op = "init"
        /\ \A c : Mark(c).op = "mark"
        BY DEF ToSet, FreeWrite, InitDir, Mark
  <1>3. ASSUME NEW us \in SUBSET Clusters, NEW vs \in SUBSET Clusters, Freeing(us, vs)
        PROVE  FALSE
    <2>1. todo # <<>> => \E cs : Head(todo) = FreeWrite(cs)
          BY <1>3, FreeingTodo, FreeIs, NoWrites, FreeTyped DEF FreeingHas, Freeing
    <2> QED BY <1>2, <2>1
  <1>4. ASSUME NEW d \in R, NEW n \in Names, NEW e \in Entries, Adding(d, n, e)
        PROVE  \A w \in ToSet(Tail(todo)) : w.op # "put"
    <2>1. AddingHas(d, n, e) /\ d \in Clusters
          BY <1>1, <1>4, AddingTodo
    <2>2. Putting(d, n, e)
      <3>1. ~Marking(d, n, e)
            BY <1>2, <2>1 DEF AddingHas
      <3> QED BY <1>4, <3>1 DEF Adding
    <2>3. Tail(todo) = After(d, e)
          BY <2>1, <2>2 DEF AddingHas
    <2>4. CASE e.kind = "dir"
      <3>1. After(d, e) = <<InitDir(e.first, d)>> /\ e.first \in Clusters
            BY <2>1, <2>4, TakesIs
      <3>2. InitDir(e.first, d) \in Writes
            BY <2>1, <3>1, InitDirTyped
      <3>3. ToSet(<<InitDir(e.first, d)>>) = {InitDir(e.first, d)}
            BY <3>2, OneWrite
      <3> QED BY <1>2, <2>3, <3>1, <3>3, Zenon
    <2>5. CASE e.kind # "dir"
      <3>1. After(d, e) = <<>>
            BY <2>1, <2>5, TakesIs
      <3> QED BY <1>2, <2>3, <3>1
    <2> QED BY <2>4, <2>5
  <1>5. ASSUME NEW d \in R, NEW n \in Names, Starting(d, n)
        PROVE  \A w \in ToSet(Tail(todo)) : w.op # "put"
    <2>1. todo = <<InitDir(target, d)>> /\ InitDir(target, d) \in Writes
          BY <1>1, <1>5, InitDirTyped DEF Starting
    <2>2. Tail(todo) = <<>>
          BY <2>1, OneWrite
    <2> QED BY <1>2, <2>2
  <1>6. ASSUME NEW d \in R, NEW n \in Names, Deleting(d, n)
        PROVE  \A w \in ToSet(Tail(todo)) : w.op # "put"
    <2>1. DeletingHas(d, n)
          BY <1>1, <1>6, DeletingTodo
    <2>2. todo = Drops(d, n)
      <3>1. todo # Free({target}) \o Drops(d, n)
            BY <1>2, <2>1 DEF DeletingHas
      <3> QED BY <1>6, <3>1 DEF Deleting
    <2>3. Tail(todo) = <<>>
          BY <2>1, <2>2 DEF DeletingHas
    <2> QED BY <1>2, <2>3
  <1>7. ASSUME NEW d \in R, NEW n \in Names, Removing(d, n)
        PROVE  \A w \in ToSet(Tail(todo)) : w.op # "put"
    <2> DEFINE us == Inside(d, n)
               vs == {Entry(d, n).first} \ {0}
    <2>1. Tail(todo) = Free(us) \o Free(vs)
          BY <1>1, <1>7, RemovingTodo DEF RemovingHas
    <2>2. us \in SUBSET Clusters /\ vs \in SUBSET Clusters
          BY <1>1, InsideTyped
    <2> HIDE DEF us, vs
    <2>3. Free(vs) \in Seq(Writes) /\ <<>> \in Seq(Writes)
          BY <2>2, FreeTyped
    <2>4. Free(vs) = Free(vs) \o <<>>
          BY <2>3, NoWrites
    <2>5. ToSet(Free(vs) \o <<>>) \subseteq {FreeWrite(vs)}
      <3>1. ToSet(Free(vs) \o <<>>) = (IF vs = {} THEN {} ELSE {FreeWrite(vs)}) \cup ToSet(<<>>)
            BY <2>2, <2>3, FreeThen
      <3> QED BY <1>2, <3>1
    <2>6. ToSet(Free(us) \o Free(vs)) \subseteq {FreeWrite(us)} \cup ToSet(Free(vs))
      <3>1. ToSet(Free(us) \o Free(vs)) = (IF us = {} THEN {} ELSE {FreeWrite(us)}) \cup ToSet(Free(vs))
            BY <2>2, <2>3, FreeThen
      <3> QED BY <3>1
    <2>7. ToSet(Tail(todo)) \subseteq {FreeWrite(us), FreeWrite(vs)}
          BY <2>1, <2>4, <2>5, <2>6
    <2> QED BY <1>2, <2>7
  <1> QED BY <1>1, <1>3, <1>4, <1>5, <1>6, <1>7 DEF Phase, Broken

LEMMA WriteAims ==
  ASSUME Inv, Inv', Aims, Write
  PROVE  Aims'
  <1>1. /\ TypeOK /\ Good /\ Forest /\ Forest' /\ todo \in Seq(Writes) /\ todo # <<>>
        BY DEF Inv, Good, TypeOK, Write, WriteMark, WriteFree, WritePut, WriteInit
  <1>2. /\ Head(todo) \in Writes /\ Tail(todo) \in Seq(Writes)
        /\ ToSet(Tail(todo)) \subseteq ToSet(todo)
        BY <1>1, TailOf
  <1>3. CASE WriteMark
    <2>1. entries' = entries /\ todo' = Tail(todo) /\ (named' = named \/ todo' = <<>>)
          BY <1>3 DEF WriteMark, Wrote
    <2> QED BY <1>1, <1>2, <2>1, AimsStay
  <1>4. CASE WriteFree
    <2> DEFINE w == Head(todo)
    <2>1. PICK c \in w.cs : Wrote(Free(w.cs \ {c}) \o Tail(todo))
          BY <1>4 DEF WriteFree
    <2>2. w.op = "free" /\ entries' = entries
          BY <1>4 DEF WriteFree
    <2>3. PICK cs \in SUBSET Clusters : cs = w.cs \ {c}
          BY <1>2, <2>2, WriteKinds
    <2>4. todo' = Free(cs) \o Tail(todo) /\ (named' = named \/ todo' = <<>>)
          BY <2>1, <2>3 DEF Wrote
    <2>5. ToSet(todo') = (IF cs = {} THEN {} ELSE {FreeWrite(cs)}) \cup ToSet(Tail(todo))
          BY <1>2, <2>4, FreeThen
    <2>6. FreeWrite(cs).op = "free"
          BY DEF FreeWrite
    <2>7. \A x \in ToSet(todo') : x.op = "put" => x \in ToSet(todo)
          BY <1>2, <2>5, <2>6
    <2> QED BY <1>1, <2>2, <2>4, <2>7, AimsStay
  <1>5. CASE WritePut \/ WriteInit
    <2>1. Head(todo).op \in {"put", "init"} /\ todo' = Tail(todo)
          BY <1>5 DEF WritePut, WriteInit, Wrote
    <2>2. \A w \in ToSet(todo') : w.op # "put"
          BY <1>1, <2>1, OneEntryOnly
    <2> QED BY <2>2 DEF Aims
  <1> QED BY <1>3, <1>4, <1>5 DEF Write

LEMMA AimsStep == Inv /\ Inv' /\ StringLeads /\ Aims /\ [Next]_vars => Aims'
  <1> SUFFICES ASSUME Inv, Inv', StringLeads, Aims, [Next]_vars PROVE Aims'
      OBVIOUS
  <1>1. ASSUME NEW absolute \in BOOLEAN, NEW parts \in Parts, Cd(absolute, parts) PROVE Aims'
    <2>1. todo' = <<>>
          BY <1>1 DEF Cd, Ready
    <2> QED BY <2>1, NoneToAim
  <1>2. ASSUME Ready, NEW r \in Requests, Operation(r) PROVE Aims'
        BY <1>2, OperationAims
  <1>3. CASE Write
        BY <1>3, WriteAims
  <1>4. CASE Crash
        BY <1>4, NoneToAim DEF Crash
  <1>5. CASE UNCHANGED vars
    <2>1. entries' = entries /\ named' = named /\ todo' = todo
          BY <1>5 DEF vars, disk
    <2>2. Forest /\ Forest'
          BY DEF Inv
    <2> QED BY <2>1, <2>2, AimsStay
  <1> QED BY <1>1, <1>2, <1>3, <1>4, <1>5 DEF Next, Write

-----------------------------------------------------------------------------
(* Each step is a step of the abstract tree, or leaves it alone.           *)
TreeMoves ==
  \/ DirPaths' = DirPaths /\ FilePaths' = FilePaths
  \/ Tree!MakeFile \/ Tree!MakeDir \/ Tree!RemoveTree

LEMMA PutMoves ==
  ASSUME Inv, Inv', Aims, WritePut
  PROVE  TreeMoves
  <1> DEFINE R == DirsFrom(Root)
             w == Head(todo)
  <1>1. /\ TypeOK /\ Forest /\ Forest' /\ EntriesTyped /\ R \subseteq Clusters /\ Phase /\ todo # <<>>
        /\ todo \in Seq(Writes) /\ w.op = "put" /\ Write
        BY RootIsReached DEF Inv, Forest, TypeOK, WritePut, Write
  <1>2. cwdString' = cwdString
        BY DEF WritePut, Wrote, session
  <1>3. ASSUME NEW d \in Clusters, NEW n \in Names, NEW e, NEW G, w = Put(d, n, e, G)
        PROVE  \E p \in Seq(Names) : /\ named = Append(p, n) /\ Leads(p, d)
                                     /\ e.kind = "dir" => Entry(d, n) = Absent
    <2>1. w \in Writes /\ w \in ToSet(todo)
          BY <1>1, TailOf
    <2>2. Aimed(w)
          BY <1>1, <2>1 DEF Aims
    <2>3. w.d = d /\ w.n = n /\ w.e = e
          BY <1>3 DEF Put
    <2> QED BY <2>2, <2>3 DEF Aimed
  <1> HIDE DEF w
  <1>4. ASSUME NEW d \in R, NEW n \in Names, NEW e \in Entries, Adding(d, n, e)
        PROVE  TreeMoves
    <2>1. AddingHas(d, n, e) /\ d \in Clusters
          BY <1>1, <1>4, AddingTodo
    <2>2. w = Put(d, n, e, {})
      <3>1. ~Marking(d, n, e)
            BY <1>1, <2>1 DEF AddingHas, Mark, w
      <3>2. Putting(d, n, e)
            BY <1>4, <3>1 DEF Adding
      <3> QED BY <2>1, <3>2 DEF AddingHas, w
    <2>3. PICK p \in Seq(Names) : /\ named = Append(p, n) /\ Leads(p, d)
                                  /\ e.kind = "dir" => Entry(d, n) = Absent
          BY <1>3, <2>1, <2>2
    <2>4. Slot(d, n, e)
          BY <1>1, <2>1, <2>2, PutSlot DEF w
    <2>5. Changes(d, n, e, {})
          BY <2>4 DEF Slot, Changes
    <2>6. named # <<>> /\ Front(named) = p
          BY <2>3, OneMore
    <2>7. CASE e.kind = "file"
      <3>1. Entry(d, n).kind # "dir"
            BY <1>4 DEF Adding
      <3>2. /\ DirPaths' = DirPaths /\ FilePaths' = FilePaths \cup {Append(p, n)}
            /\ Append(p, n) \notin DirPaths /\ p \in DirPaths
            BY <1>1, <2>1, <2>3, <2>5, <2>7, <3>1, FileAppears
      <3>3. CASE named \in FilePaths
        <4>1. FilePaths' = FilePaths
              BY <2>3, <3>2, <3>3
        <4> QED BY <3>2, <4>1 DEF TreeMoves
      <3>4. CASE named \notin FilePaths
        <4>1. Tree!New
              BY <2>3, <2>6, <3>2, <3>4 DEF Tree!New, Tree!Front, Front
        <4>2. Tree!MakeFile
              BY <1>2, <2>3, <3>2, <4>1 DEF Tree!MakeFile
        <4> QED BY <4>2 DEF TreeMoves
      <3> QED BY <3>3, <3>4
    <2>8. CASE e.kind = "dir"
      <3>1. e = Dir(target) /\ target \in Clusters /\ target \notin InTree
            BY <1>4, <2>8 DEF Adding, File
      <3>2. Entry(d, n) = Absent
            BY <2>3, <2>8
      <3>3. entries'[target] = EmptyDir
        <4>1. R \subseteq InTree
              BY <1>1, BelowHasFirst, BelowRootIsAll, RootIsReached DEF InTree
        <4>2. target \notin R /\ target # d
              BY <3>1, <4>1
        <4> QED BY <1>1, <2>4, <3>1, <4>2 DEF Slot, Forest, OnlyReached
      <3>4. PICK c \in Clusters : c = target
            BY <3>1
      <3>5. Changes(d, n, Dir(c), {}) /\ entries'[c] = EmptyDir
            BY <2>5, <3>1, <3>3, <3>4
      <3>6. /\ DirPaths' = DirPaths \cup {Append(p, n)} /\ FilePaths' = FilePaths
            /\ Append(p, n) \notin DirPaths \cup FilePaths /\ p \in DirPaths
            BY <1>1, <2>1, <2>3, <3>2, <3>5, DirAppears
      <3>7. Tree!New
            BY <2>3, <2>6, <3>6 DEF Tree!New, Tree!Front, Front
      <3>8. Tree!MakeDir
            BY <1>2, <2>3, <3>6, <3>7 DEF Tree!MakeDir
      <3> QED BY <3>8 DEF TreeMoves
    <2>9. e.kind \in {"file", "dir"}
          BY <1>4 DEF Adding, File, Dir
    <2> QED BY <2>7, <2>8, <2>9
  <1>5. ASSUME NEW d \in R, NEW n \in Names, Entry(d, n) # Absent, w = Put(d, n, Absent, Gone(d, n))
        PROVE  TreeMoves
    <2>1. d \in Clusters
          BY <1>1
    <2>2. PICK p \in Seq(Names) : named = Append(p, n) /\ Leads(p, d)
          BY <1>3, <1>5, <2>1
    <2>3. Gone(d, n) \in SUBSET (Clusters \cup {0}) /\ d \notin Gone(d, n)
          BY <1>1, <1>5, GoneFacts
    <2>4. Cut(d, n, Gone(d, n))
          BY <1>1, <1>5, <2>1, <2>3, PutCut DEF w
    <2>5. Changes(d, n, Absent, Gone(d, n))
          BY <2>4 DEF Cut, Changes
    <2>6. /\ DirPaths' = {s \in DirPaths : ~IsPrefix(Append(p, n), s)}
          /\ FilePaths' = {s \in FilePaths : ~IsPrefix(Append(p, n), s)}
          /\ Append(p, n) \in DirPaths \cup FilePaths
          BY <1>1, <1>5, <2>2, <2>5, TreeIsCut
    <2>7. named # <<>>
          BY <2>2, OneMore
    <2>8. Tree!RemoveTree
          BY <1>2, <2>2, <2>6, <2>7 DEF Tree!RemoveTree, Tree!Without, Tree!IsPrefix, IsPrefix
    <2> QED BY <2>8 DEF TreeMoves
  <1>6. ASSUME NEW d \in R, NEW n \in Names, Deleting(d, n)
        PROVE  TreeMoves
    <2>1. DeletingHas(d, n) /\ Entry(d, n) # Absent
          BY <1>1, <1>6, DeletingTodo DEF Deleting
    <2>2. todo = Drops(d, n)
      <3>1. todo # Free({target}) \o Drops(d, n)
        <4>1. FreeWrite({target}).op # "put"
              BY DEF FreeWrite
        <4> QED BY <1>1, <2>1, <4>1 DEF DeletingHas, w
      <3> QED BY <1>6, <3>1 DEF Deleting
    <2> QED BY <1>5, <2>1, <2>2 DEF DeletingHas, w
  <1>7. ASSUME NEW d \in R, NEW n \in Names, Removing(d, n)
        PROVE  TreeMoves
    <2>1. RemovingHas(d, n) /\ Entry(d, n) # Absent
          BY <1>1, <1>7, RemovingTodo DEF Removing
    <2> QED BY <1>5, <2>1 DEF RemovingHas, w
  <1>8. ASSUME NEW us \in SUBSET Clusters, NEW vs \in SUBSET Clusters, Freeing(us, vs)
        PROVE  FALSE
    <2>1. todo # <<>> => \E cs : Head(todo) = FreeWrite(cs)
          BY <1>8, FreeingTodo, FreeIs, NoWrites, FreeTyped DEF FreeingHas, Freeing
    <2> QED BY <1>1, <2>1 DEF FreeWrite, w
  <1>9. ASSUME NEW d \in R, NEW n \in Names, Starting(d, n)
        PROVE  FALSE
    <2>1. todo = <<InitDir(target, d)>>
          BY <1>9 DEF Starting
    <2> QED BY <1>1, <2>1 DEF InitDir, w
  <1> QED BY <1>1, <1>4, <1>6, <1>7, <1>8, <1>9 DEF Phase, Broken

LEMMA InitWritesNothing ==
  ASSUME Inv, WriteInit
  PROVE  entries' = entries
  <1> DEFINE R == DirsFrom(Root)
             w == Head(todo)
  <1>1. /\ TypeOK /\ Forest /\ EntriesTyped /\ R \subseteq Clusters /\ Phase /\ todo # <<>>
        /\ w.op = "init" /\ entries' = [entries EXCEPT ![w.c] = EmptyDir]
        BY RootIsReached DEF Inv, Forest, WriteInit
  <1> HIDE DEF w
  <1>2. ASSUME NEW d \in R, NEW n \in Names, Starting(d, n)
        PROVE  entries' = entries
    <2>1. w = InitDir(target, d) /\ target \in Clusters /\ entries[target] = EmptyDir
          BY <1>2 DEF Starting, w
    <2>2. w.c = target
          BY <2>1 DEF InitDir
    <2> QED BY <1>1, <2>1, <2>2 DEF TypeOK
  <1>3. ASSUME NEW d \in R, NEW n \in Names, NEW e \in Entries, Adding(d, n, e)
        PROVE  FALSE
    <2>1. AddingHas(d, n, e)
          BY <1>1, <1>3, AddingTodo
    <2>2. Marking(d, n, e) \/ Putting(d, n, e)
          BY <1>3 DEF Adding
    <2> QED BY <1>1, <2>1, <2>2 DEF AddingHas, Mark, Put, w
  <1>4. ASSUME NEW d \in R, NEW n \in Names, Deleting(d, n)
        PROVE  FALSE
    <2>1. DeletingHas(d, n) /\ (todo = Free({target}) \o Drops(d, n) \/ todo = Drops(d, n))
          BY <1>1, <1>4, DeletingTodo DEF Deleting
    <2>2. FreeWrite({target}).op # "init" /\ Put(d, n, Absent, Gone(d, n)).op # "init"
          BY DEF FreeWrite, Put
    <2> QED BY <1>1, <2>1, <2>2 DEF DeletingHas, w
  <1>5. ASSUME NEW d \in R, NEW n \in Names, Removing(d, n)
        PROVE  FALSE
    <2>1. RemovingHas(d, n)
          BY <1>1, <1>5, RemovingTodo
    <2> QED BY <1>1, <2>1 DEF RemovingHas, Put, w
  <1>6. ASSUME NEW us \in SUBSET Clusters, NEW vs \in SUBSET Clusters, Freeing(us, vs)
        PROVE  FALSE
    <2>1. todo # <<>> => \E cs : Head(todo) = FreeWrite(cs)
          BY <1>6, FreeingTodo, FreeIs, NoWrites, FreeTyped DEF FreeingHas, Freeing
    <2> QED BY <1>1, <2>1 DEF FreeWrite, w
  <1> QED BY <1>1, <1>2, <1>3, <1>4, <1>5, <1>6 DEF Phase, Broken

LEMMA CdMoves ==
  ASSUME Inv, Inv', StringLeads', NEW absolute \in BOOLEAN, NEW parts \in Parts,
         Cd(absolute, parts)
  PROVE  Tree!Cd
  <1>1. /\ Forest /\ Forest' /\ cwdString' \in Seq(Names) /\ cwd' \in Clusters
        /\ entries' = entries /\ stale' = FALSE
    <2>1. stale \in BOOLEAN /\ stale' = stale /\ ~stale /\ entries' = entries
          BY DEF Inv, TypeOK, Cd, Ready, Sound, disk
    <2> QED BY <2>1 DEF Inv, TypeOK
  <1>2. SamePaths
        BY <1>1, PathsStay
  <1>3. PICK u \in Seq(Names) : u = cwdString'
        BY <1>1
  <1>4. PICK y \in Clusters : y = cwd'
        BY <1>1
  <1>5. Resolve(TRUE, u)' = y
        BY <1>1, <1>3, <1>4 DEF StringLeads
  <1>6. Leads(u, y)'
        BY <1>5 DEF Leads
  <1>7. Leads(u, y)
        BY <1>2, <1>6 DEF SamePaths
  <1>8. u \in DirPaths
        BY <1>1, <1>7, LeadFactsHold DEF LeadFacts
  <1> QED BY <1>2, <1>3, <1>8 DEF SamePaths, Tree!Cd, Tree!tree

LEMMA TreeStep ==
  Inv /\ Inv' /\ StringLeads' /\ Aims /\ [Next]_vars
  => [Tree!Next]_<<Tree!tree, cwdString, named, wild>>
  <1> SUFFICES ASSUME Inv, Inv', StringLeads', Aims, [Next]_vars
               PROVE  [Tree!Next]_<<Tree!tree, cwdString, named, wild>>
      OBVIOUS
  <1>1. Forest /\ Forest' /\ named' \in Tree!Paths
        BY DEF Inv, TypeOK, Tree!Paths
  <1>0. CASE UNCHANGED vars
    <2>1. entries' = entries /\ cwdString' = cwdString /\ named' = named /\ wild' = wild
          BY <1>0 DEF vars, disk, session
    <2>2. DirPaths' = DirPaths /\ FilePaths' = FilePaths
          BY <1>1, <2>1, PathsStay DEF SamePaths
    <2> QED BY <2>1, <2>2 DEF Tree!tree
  <1> SUFFICES ASSUME Next PROVE Tree!Next
      BY <1>0
  <1>11. wild => wild'   \* no command is run once it has gone wild
    <2>1. CASE Ready
          BY <2>1 DEF Ready, Sound
    <2>2. CASE ~Ready
          BY <2>2 DEF Next, Cd, WriteMark, WriteFree, WritePut, WriteInit, Wrote, Crash
    <2> QED BY <2>1, <2>2
  <1>2. entries' = entries => DirPaths' = DirPaths /\ FilePaths' = FilePaths
        BY <1>1, PathsStay DEF SamePaths
  <1>3. ASSUME DirPaths' = DirPaths, FilePaths' = FilePaths, cwdString' = cwdString
        PROVE  Tree!Next
        BY <1>1, <1>3, <1>11 DEF Tree!Next, Tree!tree
  <1>4. ASSUME NEW absolute \in BOOLEAN, NEW parts \in Parts, Cd(absolute, parts) PROVE Tree!Next
    <2>1. Tree!Cd
          BY <1>4, CdMoves
    <2> QED BY <1>1, <1>11, <2>1 DEF Tree!Next
  <1>5. ASSUME NEW r \in Requests, Operation(r) PROVE Tree!Next
    <2>1. entries' = entries /\ cwdString' = cwdString
          BY <1>5 DEF Operation, session, Command, CreateFile, WriteFile, CreateDir, DeleteFile,
                      DeleteDir, Issue, disk
    <2> QED BY <1>2, <1>3, <2>1
  <1>6. CASE WriteMark \/ WriteFree
    <2>1. entries' = entries /\ cwdString' = cwdString
          BY <1>6 DEF WriteMark, WriteFree, Wrote, session
    <2> QED BY <1>2, <1>3, <2>1
  <1>7. CASE WritePut
    <2>1. TreeMoves /\ cwdString' = cwdString
          BY <1>7, PutMoves DEF WritePut, Wrote, session
    <2>2. CASE DirPaths' = DirPaths /\ FilePaths' = FilePaths
          BY <1>3, <2>1, <2>2
    <2>3. CASE Tree!MakeFile \/ Tree!MakeDir \/ Tree!RemoveTree
          BY <1>1, <1>11, <2>3 DEF Tree!Next
    <2> QED BY <2>1, <2>2, <2>3 DEF TreeMoves
  <1>8. CASE WriteInit
    <2>1. entries' = entries /\ cwdString' = cwdString
          BY <1>8, InitWritesNothing DEF WriteInit, Wrote, session
    <2> QED BY <1>2, <1>3, <2>1
  <1>9. CASE Crash
    <2>1. entries' = entries /\ cwdString' = <<>>
          BY <1>9 DEF Crash, disk
    <2>2. Tree!Restart
          BY <1>2, <2>1 DEF Tree!Restart, Tree!tree
    <2> QED BY <1>1, <1>11, <2>2 DEF Tree!Next
  <1> QED BY <1>4, <1>5, <1>6, <1>7, <1>8, <1>9 DEF Next

LEMMA TreeInit == Init => Tree!Init
  <1> SUFFICES ASSUME Init PROVE Tree!Init
      OBVIOUS
  <1>1. /\ entries = [d \in Clusters |-> EmptyDir] /\ cwdString = <<>> /\ named = <<>>
        /\ wild = FALSE
        BY DEF Init
  <1>2. \A x \in Clusters : \A m \in Names : Entry(x, m).kind = "absent"
        BY <1>1 DEF Entry, EmptyDir, Absent
  <1>3. LeadFacts /\ PathsTyped
        BY InvInit, LeadFactsHold, PathsTypedHolds DEF Inv
  <1>4. DirPaths = {<<>>}
    <2>1. <<>> \in DirPaths
      <3>1. Leads(<<>>, Root) /\ Root \in Clusters
            BY <1>3, TreeAssumption DEF LeadFacts
      <3> QED BY <1>3, <3>1 DEF LeadFacts
    <2>2. ASSUME NEW s \in DirPaths, s # <<>> PROVE FALSE
      <3>1. s \in Seq(Names)
            BY <1>3 DEF PathsTyped
      <3>2. PICK v \in Seq(Names), m \in Names : s = Append(v, m)
            BY <2>2, <3>1, LastStep
      <3>3. PICK y \in Clusters : Leads(s, y)
            BY <1>3 DEF LeadFacts
      <3>4. PICK x \in Clusters : Leads(v, x) /\ Entry(x, m) = Dir(y)
            BY <1>3, <3>2, <3>3 DEF LeadFacts
      <3> QED BY <1>2, <3>4 DEF Dir
    <2> QED BY <2>1, <2>2
  <1>5. FilePaths = {}
    <2> SUFFICES ASSUME NEW t \in FilePaths PROVE FALSE
        OBVIOUS
    <2>1. PICK v \in Seq(Names), nm \in Names, x \in Clusters :
            t = Append(v, nm) /\ Leads(v, x) /\ Entry(x, nm).kind = "file"
          BY <1>3 DEF LeadFacts
    <2> QED BY <1>2, <2>1
  <1> QED BY <1>1, <1>4, <1>5 DEF Tree!Init

(* The commands of the shell do to the tree of paths what their names say, *)
(* each at once and at the path the client named, or not at all: whatever  *)
(* the order of the disk writes, and wherever the machine stops, as long   *)
(* as no operation has gone wild.                                          *)
THEOREM FatTreeImplementsTree == Spec => ImplementsTree
  <1>1. Init => Aims
    <2>1. ToSet(<<>>) = {}
          BY DEF ToSet
    <2> QED BY <2>1 DEF Init, Aims
  <1>2. Spec => []Inv /\ []StringLeads
        BY InvAlways, StringAlways, PTL
  <1>3. Spec => []Aims
        BY <1>1, <1>2, AimsStep, PTL DEF Spec
  <1>4. Spec => Tree!Spec
        BY <1>2, <1>3, TreeInit, TreeStep, PTL DEF Spec, Tree!Spec
  <1> QED BY <1>4 DEF ImplementsTree
=============================================================================
