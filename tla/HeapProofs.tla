----------------------------- MODULE HeapProofs -----------------------------
(***************************************************************************)
(* Proofs about Heap, for every heap, header size and set of requests.     *)
(* First what malloc hands out: the list of chunks agrees with the memory, *)
(* every held block is an allocated chunk, and no two held blocks overlap, *)
(* until a free coalesces with a chunk in the middle of the list.  Then    *)
(* what malloc and free leave behind: free neighbours are always merged,   *)
(* the chunks cover the heap to its end, no block lies outside of it, and  *)
(* a call leaves the blocks of the other clients alone.                    *)
(***************************************************************************)
EXTENDS Heap, TLAPS

(* Two blocks never share an address: what keeps free from releasing the   *)
(* chunk of another block.                                                 *)
HeldDistinct == ~torn => \A b, c \in live : b.addr = c.addr => b = c

(* The inductive invariant: the types, the shape of the list, and what the  *)
(* blocks of the clients have to do with it.                               *)
HeapInv == TypeOK /\ ListMatchesMemory /\ HeldIsAllocated /\ HeldDistinct

(* Addresses and sizes below Word are not changed by the wrap of size_t.   *)
LEMMA NoWrap ==
  ASSUME NEW x \in Nat, x < Word
  PROVE  x % Word = x
  BY HeapAssumption

(* What the wrap yields is a size again.                                   *)
LEMMA WrapIsNat ==
  ASSUME NEW x \in Nat
  PROVE  x % Word \in Nat
  BY HeapAssumption

(* Rewriting the links or the size of a header gives a header again and    *)
(* leaves its other fields alone.                                          *)
LEMMA Relinked ==
  ASSUME NEW r \in MemoryChunck, NEW p \in Nat
  PROVE  /\ [r EXCEPT !.perv = p] \in MemoryChunck
         /\ [r EXCEPT !.perv = p].perv = p
         /\ [r EXCEPT !.perv = p].next = r.next
         /\ [r EXCEPT !.perv = p].size = r.size
         /\ [r EXCEPT !.perv = p].allocated = r.allocated
  BY DEF MemoryChunck

(* init_memory establishes the invariant: one free chunk, or none.         *)
LEMMA InitHeapInv == Init => HeapInv
  <1> SUFFICES ASSUME Init PROVE HeapInv
      OBVIOUS
  <1> USE HeapAssumption
  <1>1. DOMAIN hdr \subseteq {HeapStart} /\ (HeapStart \in DOMAIN hdr => ~(HeapSize < HDR))
        BY DEF Init
  <1>2. \A c \in DOMAIN hdr : hdr[c] = [next |-> 0, perv |-> 0, allocated |-> FALSE,
                                        size |-> HeapSize - HDR]
        BY DEF Init, NULL
  <1>3. TypeOK
    <2>1. \A c \in Chunks : c \in 1..(Word - 1)
          BY <1>1 DEF Chunks, NULL
    <2>2. ASSUME NEW c \in Chunks
          PROVE  hdr[c] \in MemoryChunck
      <3>1. HeapSize - HDR \in Nat
            BY <1>1 DEF Chunks
      <3>2. hdr[c] = [next |-> 0, perv |-> 0, allocated |-> FALSE,
                      size |-> HeapSize - HDR]
            BY <1>2 DEF Chunks
      <3> HIDE HeapAssumption
      <3> QED BY <3>1, <3>2 DEF MemoryChunck
    <2> QED BY <2>1, <2>2 DEF Init, TypeOK, NULL
  <1>4. ListMatchesMemory
        BY <1>1, <1>2 DEF ListMatchesMemory, Tiled, Chunks, NULL
  <1>5. HeldIsAllocated /\ HeldDistinct
        BY DEF Init, HeldIsAllocated, HeldDistinct
  <1> QED BY <1>3, <1>4, <1>5 DEF HeapInv

-----------------------------------------------------------------------------
(* malloc *)

(* What the search of malloc finds: a free chunk larger than the request.  *)
LEMMA FirstFitFits ==
  ASSUME NEW n, NEW res \in FirstFit(n)
  PROVE  res \in Chunks /\ hdr[res].size > n /\ ~hdr[res].allocated
  BY DEF FirstFit, Scanned, Fits

(* malloc keeps it when the chunk found is handed out as it is.            *)
LEMMA MallocWholeInv ==
  ASSUME HeapInv, NEW n \in Requests, NEW res \in FirstFit(n),
         hdr' = [hdr EXCEPT ![res].allocated = TRUE],
         live' = live \cup {[addr |-> res + HDR, size |-> n]},
         UNCHANGED <<first, tailLost, torn>>
  PROVE  HeapInv'
  <1> DEFINE blk == [addr |-> res + HDR, size |-> n]
  <1> USE HeapAssumption, FirstFitFits
  <1>0. n \in Nat /\ res \in Nat \ {0} /\ hdr[res].size \in Nat
        BY DEF HeapInv, TypeOK, NULL, MemoryChunck
  <1>1. /\ Chunks' = Chunks
        /\ \A c \in Chunks : /\ hdr'[c].next = hdr[c].next
                             /\ hdr'[c].perv = hdr[c].perv
                             /\ hdr'[c].size = hdr[c].size
                             /\ c # res => hdr'[c] = hdr[c]
        /\ hdr'[res].allocated = TRUE
        BY DEF HeapInv, TypeOK, Chunks, MemoryChunck
  <1>2. TypeOK'
    <2>1. \A c \in Chunks' : hdr'[c] \in MemoryChunck
          BY DEF HeapInv, TypeOK, Chunks, MemoryChunck
    <2>2. blk \in [addr : Nat, size : Nat]
          BY <1>0
    <2> QED BY <1>1, <2>1, <2>2 DEF HeapInv, TypeOK
  <1>3. ListMatchesMemory'
        BY <1>1 DEF HeapInv, ListMatchesMemory, Tiled, EndOf
  <1>4. \A b \in live' : b = blk \/ b \in live
        OBVIOUS
  <1>5. ~torn => \A b \in live : b.addr - HDR # res
        BY DEF HeapInv, HeldIsAllocated
  <1>6. blk.addr - HDR = res /\ blk.size = n /\ blk.addr = res + HDR
        BY <1>0
  <1>7. HeldIsAllocated'
        BY <1>0, <1>1, <1>4, <1>5, <1>6 DEF HeapInv, HeldIsAllocated
  <1>8. HeldDistinct'
        BY <1>4, <1>5, <1>6 DEF HeapInv, HeldDistinct
  <1> QED BY <1>2, <1>3, <1>7, <1>8 DEF HeapInv

(* malloc keeps it when the rest of the chunk becomes a chunk of its own.  *)
LEMMA MallocSplitInv ==
  ASSUME HeapInv, NEW n \in Requests, NEW res \in FirstFit(n),
         Splits(res, n), res + HDR + n < Word,
         hdr' = Split(res, n),
         live' = live \cup {[addr |-> res + HDR, size |-> n]},
         UNCHANGED <<first, tailLost, torn>>
  PROVE  HeapInv'
  <1> DEFINE blk == [addr |-> res + HDR, size |-> n]
             temp == res + HDR + n
             next == hdr[res].next
  <1>a. /\ n \in Nat /\ res \in Chunks /\ temp = res + HDR + n
        /\ hdr[res].size >= n + HDR + 1 /\ ~hdr[res].allocated
        /\ HDR \in Nat \ {0}
        BY FirstFitFits, HeapAssumption DEF Splits
  <1>b. \A c \in Chunks : /\ c \in Nat \ {0} /\ c \in 1..(Word - 1) /\ hdr[c] \in MemoryChunck
                          /\ hdr[c].next \in Nat /\ hdr[c].perv \in Nat
                          /\ hdr[c].size \in Nat /\ hdr[c].allocated \in BOOLEAN
        BY DEF HeapInv, TypeOK, NULL, MemoryChunck
  <1>0. /\ temp \in Nat \ {0} /\ temp # res
        /\ hdr[res].size - n - HDR \in Nat
        BY <1>a, <1>b
  <1>1. /\ Chunks' = Chunks \cup {temp}
        /\ hdr'[res] = [next |-> temp, perv |-> hdr[res].perv,
                        allocated |-> TRUE, size |-> n]
        /\ hdr'[temp] = [next |-> next, perv |-> res, allocated |-> FALSE,
                         size |-> hdr[res].size - n - HDR]
        /\ \A c \in Chunks \ {res, temp} :
             hdr'[c] = IF c = next THEN [hdr[c] EXCEPT !.perv = temp] ELSE hdr[c]
        BY <1>0, <1>a DEF Chunks, Split
  <1>c. ASSUME NEW c \in Chunks \ {res, temp}
        PROVE  /\ hdr'[c] \in MemoryChunck
               /\ hdr'[c].next = hdr[c].next
               /\ hdr'[c].size = hdr[c].size
               /\ hdr'[c].allocated = hdr[c].allocated
               /\ hdr'[c].perv = IF c = next THEN temp ELSE hdr[c].perv
    <2>1. CASE c = next
      <3>1. hdr[c] \in MemoryChunck /\ temp \in Nat
            BY <1>0, <1>b
      <3>2. hdr'[c] = [hdr[c] EXCEPT !.perv = temp]
            BY <1>1, <2>1
      <3> HIDE DEF temp
      <3> QED BY <2>1, <3>1, <3>2, Relinked
    <2>2. CASE c # next
          BY <1>1, <1>b, <2>2
    <2> QED BY <2>1, <2>2
  <1>d. /\ hdr'[res].next = temp /\ hdr'[res].perv = hdr[res].perv
        /\ hdr'[res].allocated = TRUE /\ hdr'[res].size = n
        /\ hdr'[temp].next = next /\ hdr'[temp].perv = res
        /\ hdr'[temp].allocated = FALSE
        /\ hdr'[temp].size = hdr[res].size - n - HDR
        BY <1>1
  <1> HIDE DEF temp, next
  <1>2. TypeOK'
    <2>1. \A c \in Chunks' : c \in 1..(Word - 1)
          BY <1>0, <1>1, <1>b, HeapAssumption DEF temp
    <2>2. hdr'[res] \in MemoryChunck
          BY <1>0, <1>1, <1>a, <1>b DEF MemoryChunck
    <2>3. hdr'[temp] \in MemoryChunck
      <3>1. next \in Nat /\ res \in Nat
            BY <1>a, <1>b DEF next
      <3> QED BY <1>0, <1>1, <3>1 DEF MemoryChunck
    <2>4. \A c \in Chunks' : hdr'[c] \in MemoryChunck
          BY <1>1, <1>c, <2>2, <2>3
    <2>5. blk \in [addr : Nat, size : Nat]
          BY <1>a, <1>b
    <2> QED BY <2>1, <2>4, <2>5 DEF HeapInv, TypeOK, NULL
  <1>3. ListMatchesMemory'
    <2> SUFFICES ASSUME ~torn, NEW c \in Chunks', NEW d \in Chunks'
                 PROVE  /\ hdr'[c].next # NULL =>
                            /\ hdr'[c].next \in Chunks'
                            /\ hdr'[c].next = EndOf(c)'
                            /\ hdr'[hdr'[c].next].perv = c
                        /\ hdr'[c].perv # NULL =>
                            hdr'[c].perv \in Chunks' /\ hdr'[hdr'[c].perv].next = c
                        /\ c < d => hdr'[c].next # NULL /\ EndOf(c)' <= d
        BY DEF ListMatchesMemory, Tiled
    <2>1. Tiled
          BY DEF HeapInv, ListMatchesMemory
    <2>3. temp \notin Chunks
          BY <1>0, <1>a, <1>b, <2>1 DEF Tiled, EndOf
    <2>4. CASE c = res
      <3>1. EndOf(c)' = temp
            BY <1>0, <1>a, <1>b, <1>d, <2>4 DEF EndOf, temp
      <3>2. c < d => temp <= d
        <4>1. CASE d = temp
              BY <1>0, <4>1
        <4>2. CASE d # temp
              BY <1>0, <1>1, <1>a, <1>b, <2>1, <2>4, <4>2 DEF Tiled, EndOf
        <4> QED BY <4>1, <4>2
      <3>3. hdr'[c].perv # NULL =>
              hdr'[c].perv \in Chunks \ {res, temp} /\ hdr[hdr'[c].perv].next = c
            BY <1>a, <1>b, <1>d, <2>1, <2>3, <2>4 DEF Tiled, EndOf, NULL
      <3>4. hdr'[c].perv # NULL =>
              hdr'[c].perv \in Chunks' /\ hdr'[hdr'[c].perv].next = c
            BY <1>1, <1>c, <3>3
      <3>5. hdr'[c].next = temp /\ temp \in Chunks' /\ hdr'[temp].perv = c
            BY <1>1, <1>d, <2>4
      <3>6. c < d => hdr'[c].next # NULL /\ temp <= d
            BY <1>0, <3>2, <3>5 DEF NULL
      <3>7. /\ hdr'[c].next = EndOf(c)' /\ hdr'[c].next \in Chunks'
            /\ hdr'[hdr'[c].next].perv = c
            BY <3>1, <3>5
      <3>8. c < d => hdr'[c].next # NULL /\ EndOf(c)' <= d
            BY <3>1, <3>6
      <3> QED BY <3>4, <3>7, <3>8
    <2>5. CASE c = temp
      <3>1. EndOf(c)' = EndOf(res)
            BY <1>0, <1>a, <1>b, <1>d, <2>5 DEF EndOf, temp
      <3>2. next # NULL => next \in Chunks \ {res, temp} /\ next = EndOf(res)
            BY <1>a, <1>b, <2>1, <2>3 DEF Tiled, EndOf, NULL, next
      <3>3. temp < d => next # NULL /\ EndOf(res) <= d
            BY <1>0, <1>1, <1>a, <1>b, <2>1 DEF Tiled, next
      <3>4. hdr'[c].next = next /\ hdr'[c].perv = res /\ hdr'[res].next = c
            BY <1>d, <2>5
      <3>5. next # NULL => next \in Chunks' /\ hdr'[next].perv = c
            BY <1>1, <1>c, <2>5, <3>2
      <3>6. c < d => next # NULL /\ EndOf(c)' <= d
            BY <2>5, <3>1, <3>3
      <3> QED BY <1>1, <1>a, <3>1, <3>2, <3>4, <3>5, <3>6
    <2>6. CASE c \in Chunks \ {res, temp}
      <3>1. EndOf(c)' = EndOf(c)
            BY <1>c, <2>6 DEF EndOf
      <3>2. hdr'[c].next # NULL =>
              hdr'[c].next \in Chunks /\ hdr'[c].next = EndOf(c) /\ hdr'[c].next # temp
            BY <1>c, <2>1, <2>3, <2>6 DEF Tiled
      <3>3. hdr'[c].next # NULL => hdr'[hdr'[c].next].perv = c
        <4> SUFFICES ASSUME hdr[c].next # NULL
                     PROVE  hdr'[hdr[c].next].perv = c
            BY <1>c, <2>6
        <4>1. hdr[c].next \in Chunks /\ hdr[hdr[c].next].perv = c /\ hdr[c].next # temp
              BY <1>c, <2>1, <2>6, <3>2 DEF Tiled
        <4>2. next # NULL => hdr[next].perv = res
              BY <1>a, <2>1 DEF Tiled, next
        <4> QED BY <1>c, <1>d, <2>6, <4>1, <4>2
      <3>4. hdr'[c].perv # NULL => hdr'[c].perv \in Chunks' /\ hdr'[hdr'[c].perv].next = c
        <4>1. CASE c = next
              BY <1>1, <1>c, <1>d, <2>6, <4>1
        <4>2. CASE c # next
          <5>1. hdr'[c].perv = hdr[c].perv
                BY <1>c, <2>6, <4>2
          <5>2. hdr[c].perv # NULL => /\ hdr[c].perv \in Chunks \ {res, temp}
                                      /\ hdr[hdr[c].perv].next = c
                BY <2>1, <2>3, <2>6, <4>2 DEF Tiled, next
          <5> QED BY <1>1, <1>c, <5>1, <5>2
        <4> QED BY <4>1, <4>2
      <3>5. c < d => hdr'[c].next # NULL /\ EndOf(c) <= d
        <4>1. CASE d = temp
          <5>1. c < temp => c < res
                BY <1>0, <1>a, <1>b, <2>1, <2>6 DEF Tiled, EndOf, temp
          <5> QED BY <1>0, <1>a, <1>b, <1>c, <2>1, <2>6, <4>1, <5>1 DEF Tiled, EndOf, temp
        <4>2. CASE d # temp
              BY <1>1, <1>c, <2>1, <2>6, <4>2 DEF Tiled
        <4> QED BY <4>1, <4>2
      <3> QED BY <1>1, <3>1, <3>2, <3>3, <3>4, <3>5
    <2> QED BY <1>1, <2>4, <2>5, <2>6
  <1>4. \A b \in live' : b = blk \/ b \in live
        OBVIOUS
  <1>5. ~torn => \A b \in live : b.addr - HDR \in Chunks \ {res}
        BY <1>a DEF HeapInv, HeldIsAllocated
  <1>6. blk.addr - HDR = res /\ blk.size = n /\ blk.addr = res + HDR
        BY <1>a, <1>b
  <1>7. ~torn => temp \notin Chunks
        BY <1>0, <1>a, <1>b DEF HeapInv, ListMatchesMemory, Tiled, EndOf, temp
  <1>8. HeldIsAllocated'
        BY <1>1, <1>a, <1>c, <1>d, <1>4, <1>5, <1>6, <1>7 DEF HeapInv, HeldIsAllocated
  <1>9. HeldDistinct'
        BY <1>4, <1>5, <1>6 DEF HeapInv, HeldDistinct
  <1> QED BY <1>2, <1>3, <1>8, <1>9 DEF HeapInv

-----------------------------------------------------------------------------
(* free *)

(* The two parts of the invariant that speak of one list of headers.       *)
Headers(h) == \A c \in DOMAIN h : c \in 1..(Word - 1) /\ h[c] \in MemoryChunck

Linked(h) ==
  \A c, d \in DOMAIN h :
    /\ h[c].next # NULL => /\ h[c].next \in DOMAIN h
                           /\ h[c].next = c + HDR + h[c].size
                           /\ h[h[c].next].perv = c
    /\ h[c].perv # NULL => h[c].perv \in DOMAIN h /\ h[h[c].perv].next = c
    /\ c < d => h[c].next # NULL /\ c + HDR + h[c].size <= d

(* Clearing a mark moves nothing.                                          *)
LEMMA FreedLinked ==
  ASSUME Headers(hdr), Linked(hdr), NEW chunk \in Chunks
  PROVE  /\ DOMAIN Freed(chunk) = Chunks
         /\ Headers(Freed(chunk)) /\ Linked(Freed(chunk))
         /\ \A c \in Chunks : /\ c # chunk => Freed(chunk)[c] = hdr[c]
                              /\ Freed(chunk)[c].next = hdr[c].next
                              /\ Freed(chunk)[c].perv = hdr[c].perv
                              /\ Freed(chunk)[c].size = hdr[c].size
  <1> DEFINE h == Freed(chunk)
  <1>1. DOMAIN h = Chunks
        BY DEF Freed, Chunks
  <1>2. \A c \in Chunks : h[c] \in MemoryChunck
        BY DEF Freed, Chunks, Headers, MemoryChunck
  <1>3. \A c \in Chunks : /\ c # chunk => h[c] = hdr[c]
                          /\ h[c].next = hdr[c].next
                          /\ h[c].perv = hdr[c].perv
                          /\ h[c].size = hdr[c].size
        BY DEF Freed, Chunks, Headers, MemoryChunck
  <1> HIDE DEF h
  <1>4. Headers(h)
        BY <1>1, <1>2 DEF Headers, Chunks
  <1>5. Linked(h)
        BY <1>1, <1>3 DEF Linked, Chunks
  <1> QED BY <1>1, <1>3, <1>4, <1>5 DEF h

(* m is the list h with the chunk absorbed by its neighbour kept, which    *)
(* gets the link of the chunk; the others keep their marks, sizes, links.  *)
Absorbed(h, chunk, kept, m) ==
  /\ DOMAIN m = DOMAIN h \ {chunk}
  /\ kept \in DOMAIN m
  /\ Headers(m)
  /\ m[kept].next = h[chunk].next
  /\ \A c \in DOMAIN m :
       /\ m[c].allocated = h[c].allocated
       /\ c # kept => m[c].size = h[c].size /\ m[c].next = h[c].next

(* Merging a chunk into its predecessor keeps the list in step with the    *)
(* memory, whatever the wrap of size_t does to the size of the last chunk. *)
LEMMA MergeBackLinked ==
  ASSUME NEW h, Headers(h), Linked(h), NEW chunk \in DOMAIN h,
         h[chunk].perv # NULL
  PROVE  /\ Absorbed(h, chunk, h[chunk].perv, MergeBack(h, chunk))
         /\ Linked(MergeBack(h, chunk))
         /\ MergeBack(h, chunk)[h[chunk].perv].size =
              (h[h[chunk].perv].size + h[chunk].size + HDR) % Word
  <1> DEFINE m == MergeBack(h, chunk)
             perv == h[chunk].perv
             next == h[chunk].next
             size == (h[perv].size + h[chunk].size + HDR) % Word
  <1>a. HDR \in Nat \ {0} /\ Word \in Nat
        BY HeapAssumption
  <1>b. \A c \in DOMAIN h : /\ c \in Nat \ {0} /\ c < Word
                            /\ c \in 1..(Word - 1) /\ h[c] \in MemoryChunck
                            /\ h[c].next \in Nat /\ h[c].perv \in Nat
                            /\ h[c].size \in Nat /\ h[c].allocated \in BOOLEAN
        BY <1>a DEF Headers, MemoryChunck
  <1>c. /\ perv \in DOMAIN h /\ h[perv].next = chunk
        /\ chunk = perv + HDR + h[perv].size
        BY <1>b DEF Linked, NULL
  <1>d. perv # chunk /\ perv < chunk
        BY <1>a, <1>b, <1>c
  <1>e. next # NULL => /\ next \in DOMAIN h \ {chunk, perv} /\ h[next].perv = chunk
                       /\ next = chunk + HDR + h[chunk].size
        BY <1>a, <1>b, <1>c, <1>d DEF Linked
  <1>f. size \in Nat /\ (next # NULL => size = h[perv].size + h[chunk].size + HDR)
    <2>1. h[perv].size + h[chunk].size + HDR \in Nat
          BY <1>a, <1>b, <1>c
    <2>2. next # NULL => h[perv].size + h[chunk].size + HDR < Word
          BY <1>a, <1>b, <1>c, <1>e
    <2> QED BY <2>1, <2>2, NoWrap, WrapIsNat
  <1>1. DOMAIN m = DOMAIN h \ {chunk}
        BY DEF MergeBack
  <1>2. m[perv] = [h[perv] EXCEPT !.next = next, !.size = size]
        BY <1>b, <1>c, <1>d DEF MergeBack
  <1> HIDE DEF size
  <1>3. /\ m[perv] \in MemoryChunck /\ m[perv].next = next /\ m[perv].size = size
        /\ m[perv].perv = h[perv].perv /\ m[perv].allocated = h[perv].allocated
    <2>1. h[perv] \in MemoryChunck /\ next \in Nat /\ size \in Nat
          BY <1>b, <1>c, <1>f
    <2> HIDE DEF m, perv, next
    <2> QED BY <1>2, <2>1 DEF MemoryChunck
  <1>4. ASSUME NEW c \in DOMAIN h \ {chunk, perv}
        PROVE  /\ m[c] \in MemoryChunck /\ m[c].next = h[c].next
               /\ m[c].size = h[c].size /\ m[c].allocated = h[c].allocated
               /\ m[c].perv = IF c = next THEN perv ELSE h[c].perv
    <2>1. CASE c = next
      <3>1. m[c] = [h[c] EXCEPT !.perv = perv]
            BY <2>1 DEF MergeBack
      <3>2. h[c] \in MemoryChunck /\ perv \in Nat
            BY <1>b
      <3> HIDE DEF m, perv, next
      <3> QED BY <2>1, <3>1, <3>2, Relinked
    <2>2. CASE c # next
      <3>1. m[c] = h[c]
            BY <2>2 DEF MergeBack
      <3> HIDE DEF m, perv, next
      <3> QED BY <1>b, <2>2, <3>1
    <2> QED BY <2>1, <2>2
  <1> HIDE DEF m
  <1>5. Headers(m)
        BY <1>1, <1>3, <1>4, <1>b DEF Headers
  <1>6. \A c \in DOMAIN m :
          /\ m[c].allocated = h[c].allocated
          /\ c # perv => m[c].size = h[c].size /\ m[c].next = h[c].next
        BY <1>1, <1>3, <1>4
  <1>7. Linked(m)
    <2> SUFFICES ASSUME NEW c \in DOMAIN m, NEW d \in DOMAIN m
                 PROVE  /\ m[c].next # NULL => /\ m[c].next \in DOMAIN m
                                               /\ m[c].next = c + HDR + m[c].size
                                               /\ m[m[c].next].perv = c
                        /\ m[c].perv # NULL => m[c].perv \in DOMAIN m /\ m[m[c].perv].next = c
                        /\ c < d => m[c].next # NULL /\ c + HDR + m[c].size <= d
        BY DEF Linked
    <2>1. CASE c = perv
      <3>1. next # NULL => /\ next \in DOMAIN m /\ next = c + HDR + size /\ m[next].perv = c
            BY <1>1, <1>4, <1>a, <1>b, <1>c, <1>e, <1>f, <2>1
      <3>2. h[perv].perv # NULL => /\ h[perv].perv \in DOMAIN h \ {chunk, perv}
                                   /\ h[h[perv].perv].next = perv
            BY <1>a, <1>b, <1>c, <1>d DEF Linked
      <3>3. m[c].perv # NULL => m[c].perv \in DOMAIN m /\ m[m[c].perv].next = c
            BY <1>1, <1>3, <1>4, <2>1, <3>2
      <3>4. c < d => chunk < d
            BY <1>1, <1>a, <1>b, <1>c, <2>1 DEF Linked
      <3>5. c < d => next # NULL /\ c + HDR + size <= d
            BY <1>1, <1>a, <1>b, <1>c, <1>e, <1>f, <2>1, <3>4 DEF Linked
      <3> QED BY <1>3, <2>1, <3>1, <3>3, <3>5
    <2>2. CASE c # perv
      <3>1. c \in DOMAIN h \ {chunk, perv}
            BY <1>1, <2>2
      <3>2. m[c].next # NULL => /\ m[c].next \in DOMAIN m
                                /\ m[c].next = c + HDR + m[c].size
                                /\ m[m[c].next].perv = c
        <4> SUFFICES ASSUME h[c].next # NULL
                     PROVE  /\ h[c].next \in DOMAIN m
                            /\ h[c].next = c + HDR + h[c].size
                            /\ m[h[c].next].perv = c
            BY <1>4, <3>1
        <4>1. /\ h[c].next \in DOMAIN h /\ h[c].next = c + HDR + h[c].size
              /\ h[h[c].next].perv = c
              BY <3>1 DEF Linked
        <4>2. h[c].next # chunk /\ h[c].next # next
              BY <1>e, <3>1, <4>1
        <4> QED BY <1>1, <1>3, <1>4, <4>1, <4>2
      <3>3. m[c].perv # NULL => m[c].perv \in DOMAIN m /\ m[m[c].perv].next = c
        <4>1. CASE c = next
              BY <1>1, <1>3, <1>4, <1>c, <1>d, <3>1, <4>1
        <4>2. CASE c # next
          <5>1. m[c].perv = h[c].perv
                BY <1>4, <3>1, <4>2
          <5>2. h[c].perv # NULL => /\ h[c].perv \in DOMAIN h \ {chunk, perv}
                                    /\ h[h[c].perv].next = c
                BY <1>c, <3>1, <4>2 DEF Linked
          <5> QED BY <1>1, <1>4, <5>1, <5>2
        <4> QED BY <4>1, <4>2
      <3>4. c < d => m[c].next # NULL /\ c + HDR + m[c].size <= d
            BY <1>1, <1>4, <3>1 DEF Linked
      <3> QED BY <3>2, <3>3, <3>4
    <2> QED BY <2>1, <2>2
  <1>8. perv \in DOMAIN m
        BY <1>1, <1>c, <1>d
  <1> QED BY <1>1, <1>3, <1>5, <1>6, <1>7, <1>8 DEF m, size, Absorbed

(* Merging a chunk with its successor yields a list of headers; if the     *)
(* successor was the last chunk, the list stays in step with the memory.   *)
LEMMA MergeForwardLinked ==
  ASSUME NEW h, Headers(h), Linked(h), NEW chunk \in DOMAIN h,
         h[chunk].next # NULL, NEW nullSize \in NullSizes
  PROVE  /\ Absorbed(h, h[chunk].next, chunk, MergeForward(h, chunk, nullSize))
         /\ h[h[chunk].next].next = NULL => Linked(MergeForward(h, chunk, nullSize))
  <1> DEFINE m == MergeForward(h, chunk, nullSize)
             next == h[chunk].next
             beyond == h[next].next
             added == IF beyond = NULL THEN nullSize ELSE h[beyond].size
             size == (h[chunk].size + added + HDR) % Word
  <1>a. HDR \in Nat \ {0} /\ Word \in Nat /\ nullSize \in Nat
        BY HeapAssumption
  <1>b. \A c \in DOMAIN h : /\ c \in Nat \ {0} /\ c < Word
                            /\ c \in 1..(Word - 1) /\ h[c] \in MemoryChunck
                            /\ h[c].next \in Nat /\ h[c].perv \in Nat
                            /\ h[c].size \in Nat /\ h[c].allocated \in BOOLEAN
        BY <1>a DEF Headers, MemoryChunck
  <1>c. /\ next \in DOMAIN h /\ h[next].perv = chunk
        /\ next = chunk + HDR + h[chunk].size
        BY DEF Linked, NULL
  <1>d. next # chunk /\ chunk < next
        BY <1>a, <1>b, <1>c
  <1>e. beyond # NULL => beyond \in DOMAIN h \ {chunk, next}
        BY <1>a, <1>b, <1>c, <1>d DEF Linked
  <1>f. size \in Nat
    <2>1. added \in Nat
          BY <1>a, <1>b, <1>e
    <2>2. h[chunk].size + added + HDR \in Nat
          BY <1>a, <1>b, <2>1
    <2> HIDE DEF added
    <2> QED BY <2>2, WrapIsNat
  <1>1. DOMAIN m = DOMAIN h \ {next}
        BY DEF MergeForward
  <1>2. m[chunk] = [h[chunk] EXCEPT !.next = beyond, !.size = size]
        BY <1>b, <1>d DEF MergeForward
  <1> HIDE DEF size, added
  <1>3. /\ m[chunk] \in MemoryChunck /\ m[chunk].next = beyond
        /\ m[chunk].perv = h[chunk].perv /\ m[chunk].allocated = h[chunk].allocated
    <2>1. h[chunk] \in MemoryChunck /\ beyond \in Nat /\ size \in Nat
          BY <1>b, <1>c, <1>f
    <2> HIDE DEF m, beyond
    <2> QED BY <1>2, <2>1 DEF MemoryChunck
  <1>4. ASSUME NEW c \in DOMAIN h \ {chunk, next}
        PROVE  /\ m[c] \in MemoryChunck /\ m[c].next = h[c].next
               /\ m[c].size = h[c].size /\ m[c].allocated = h[c].allocated
               /\ m[c].perv = IF c = beyond THEN chunk ELSE h[c].perv
    <2>1. CASE c = beyond
      <3>1. m[c] = [h[c] EXCEPT !.perv = chunk]
            BY <2>1 DEF MergeForward
      <3>2. h[c] \in MemoryChunck /\ chunk \in Nat
            BY <1>b
      <3> HIDE DEF m, beyond
      <3> QED BY <2>1, <3>1, <3>2, Relinked
    <2>2. CASE c # beyond
      <3>1. m[c] = h[c]
            BY <2>2 DEF MergeForward
      <3> HIDE DEF m, beyond
      <3> QED BY <1>b, <2>2, <3>1
    <2> QED BY <2>1, <2>2
  <1> HIDE DEF m
  <1>5. Headers(m)
        BY <1>1, <1>3, <1>4, <1>b DEF Headers
  <1>6. \A c \in DOMAIN m :
          /\ m[c].allocated = h[c].allocated
          /\ c # chunk => m[c].size = h[c].size /\ m[c].next = h[c].next
        BY <1>1, <1>3, <1>4
  <1>7. ASSUME beyond = NULL PROVE Linked(m)
    <2> SUFFICES ASSUME NEW c \in DOMAIN m, NEW d \in DOMAIN m
                 PROVE  /\ m[c].next # NULL => /\ m[c].next \in DOMAIN m
                                               /\ m[c].next = c + HDR + m[c].size
                                               /\ m[m[c].next].perv = c
                        /\ m[c].perv # NULL => m[c].perv \in DOMAIN m /\ m[m[c].perv].next = c
                        /\ c < d => m[c].next # NULL /\ c + HDR + m[c].size <= d
        BY DEF Linked
    <2>0. \A x \in DOMAIN h : x <= next
          BY <1>7, <1>b, <1>c DEF Linked
    <2>1. CASE c = chunk
      <3>1. m[c].next = NULL
            BY <1>3, <1>7, <2>1
      <3>2. ~(c < d)
            BY <1>1, <1>a, <1>b, <1>c, <1>d, <2>0, <2>1 DEF Linked
      <3>3. h[chunk].perv # NULL => /\ h[chunk].perv \in DOMAIN h \ {chunk, next}
                                    /\ h[h[chunk].perv].next = chunk
        <4> SUFFICES ASSUME h[chunk].perv # NULL
                     PROVE  /\ h[chunk].perv \in DOMAIN h \ {chunk, next}
                            /\ h[h[chunk].perv].next = chunk
            OBVIOUS
        <4>1. h[chunk].perv \in DOMAIN h /\ h[h[chunk].perv].next = chunk
              BY DEF Linked
        <4>2. h[chunk].perv # chunk
              BY <1>d, <4>1
        <4>3. h[chunk].perv # next
              BY <1>7, <1>b, <4>1 DEF NULL
        <4> QED BY <4>1, <4>2, <4>3
      <3>4. m[c].perv # NULL => m[c].perv \in DOMAIN m /\ m[m[c].perv].next = c
            BY <1>1, <1>3, <1>4, <2>1, <3>3
      <3> QED BY <3>1, <3>2, <3>4
    <2>2. CASE c # chunk
      <3>1. c \in DOMAIN h \ {chunk, next} /\ c # beyond
            BY <1>1, <1>7, <1>b, <2>2 DEF NULL
      <3>2. m[c].next # NULL => /\ m[c].next \in DOMAIN m
                                /\ m[c].next = c + HDR + m[c].size
                                /\ m[m[c].next].perv = c
        <4> SUFFICES ASSUME h[c].next # NULL
                     PROVE  /\ h[c].next \in DOMAIN m
                            /\ h[c].next = c + HDR + h[c].size
                            /\ m[h[c].next].perv = c
            BY <1>4, <3>1
        <4>1. /\ h[c].next \in DOMAIN h /\ h[c].next = c + HDR + h[c].size
              /\ h[h[c].next].perv = c
              BY <3>1 DEF Linked
        <4>2. h[c].next # next
              BY <1>c, <3>1, <4>1
        <4>3. h[c].next # beyond
              BY <1>7
        <4> QED BY <1>1, <1>3, <1>4, <4>1, <4>2, <4>3
      <3>3. m[c].perv # NULL => m[c].perv \in DOMAIN m /\ m[m[c].perv].next = c
        <4>1. m[c].perv = h[c].perv
              BY <1>4, <3>1
        <4>2. h[c].perv # NULL => /\ h[c].perv \in DOMAIN h \ {chunk, next}
                                  /\ h[h[c].perv].next = c
              BY <1>7, <1>b, <1>c, <3>1 DEF Linked, NULL
        <4> QED BY <1>1, <1>4, <4>1, <4>2
      <3>4. c < d => m[c].next # NULL /\ c + HDR + m[c].size <= d
            BY <1>1, <1>4, <3>1 DEF Linked
      <3> QED BY <3>2, <3>3, <3>4
    <2> QED BY <2>1, <2>2
  <1>8. chunk \in DOMAIN m
        BY <1>1, <1>d
  <1> QED BY <1>1, <1>3, <1>5, <1>6, <1>7, <1>8 DEF m, Absorbed

-----------------------------------------------------------------------------
(* The list free works on after its backward merge, and the chunk in it    *)
(* that the freed block has become part of.                                *)
LEMMA AfterBackLinked ==
  ASSUME HeapInv, ~torn, NEW b \in live
  PROVE  LET chunk == b.addr - HDR
             left == AfterBack(chunk)
             kept == Kept(chunk)
         IN /\ Headers(left) /\ Linked(left)
            /\ kept \in DOMAIN left /\ ~left[kept].allocated
            /\ \A x \in live \ {b} : /\ x.addr - HDR \in DOMAIN left
                                     /\ left[x.addr - HDR].allocated
                                     /\ left[x.addr - HDR].size = hdr[x.addr - HDR].size
  <1> DEFINE chunk == b.addr - HDR
             h == Freed(chunk)
             perv == hdr[chunk].perv
             left == AfterBack(chunk)
             kept == Kept(chunk)
  <1>1. Headers(hdr) /\ Linked(hdr)
        BY DEF HeapInv, TypeOK, ListMatchesMemory, Tiled, Headers, Linked, Chunks, EndOf
  <1>2. /\ chunk \in Chunks
        /\ \A x \in live : /\ x.addr - HDR \in Chunks /\ hdr[x.addr - HDR].allocated
                           /\ x.addr \in Nat
        BY DEF HeapInv, HeldIsAllocated, TypeOK
  <1>3. \A x \in live \ {b} : x.addr - HDR # chunk
        BY <1>2, HeapAssumption DEF HeapInv, HeldDistinct
  <1>4. ~h[chunk].allocated
        BY <1>1, <1>2 DEF Freed, Chunks, Headers, MemoryChunck
  <1>5. /\ DOMAIN h = Chunks /\ Headers(h) /\ Linked(h)
        /\ \A c \in Chunks : /\ c # chunk => h[c] = hdr[c]
                             /\ h[c].size = hdr[c].size
        /\ h[chunk].perv = perv
        BY <1>1, <1>2, FreedLinked
  <1>6. CASE IsFree(h, perv)
    <2>1. perv # NULL /\ ~h[perv].allocated
          BY <1>6 DEF IsFree
    <2>2. left = MergeBack(h, chunk) /\ kept = perv
          BY <1>5, <1>6 DEF AfterBack, Kept
    <2>3. /\ DOMAIN left = Chunks \ {chunk} /\ perv \in DOMAIN left
          /\ Headers(left) /\ Linked(left)
          /\ \A c \in DOMAIN left : /\ left[c].allocated = h[c].allocated
                                    /\ c # perv => left[c].size = h[c].size
      <3>1. h[chunk].perv # NULL /\ chunk \in DOMAIN h
            BY <1>2, <1>5, <2>1
      <3> HIDE DEF h, left, perv, chunk
      <3>2. /\ Absorbed(h, chunk, h[chunk].perv, MergeBack(h, chunk))
            /\ Linked(MergeBack(h, chunk))
            BY <1>5, <3>1, MergeBackLinked
      <3> QED BY <1>5, <2>2, <3>2 DEF Absorbed
    <2> HIDE DEF h, perv, left, kept, chunk
    <2>4. \A x \in live \ {b} : x.addr - HDR # perv
          BY <1>2, <1>3, <1>5, <2>1
    <2> QED BY <1>2, <1>3, <1>5, <2>1, <2>2, <2>3, <2>4 DEF h, left, kept, chunk
  <1>7. CASE ~IsFree(h, perv)
    <2>1. left = h /\ kept = chunk
          BY <1>5, <1>7 DEF AfterBack, Kept
    <2> HIDE DEF h, perv, left, kept, chunk
    <2> QED BY <1>2, <1>3, <1>4, <1>5, <2>1 DEF left, kept, chunk
  <1> QED BY <1>6, <1>7

(* free keeps the invariant, with either merge, with both, or with none.    *)
LEMMA FreeInv ==
  ASSUME HeapInv, NEW b \in live, Free(b)
  PROVE  HeapInv'
  <1> DEFINE chunk == b.addr - HDR
             left == AfterBack(chunk)
             kept == Kept(chunk)
             next == left[kept].next
  <1>1. ~torn /\ live' = live \ {b} /\ first' = first
        BY DEF Free
  <1>2. /\ Headers(left) /\ Linked(left)
        /\ kept \in DOMAIN left /\ ~left[kept].allocated
        /\ \A x \in live \ {b} : /\ x.addr - HDR \in DOMAIN left
                                 /\ left[x.addr - HDR].allocated
                                 /\ left[x.addr - HDR].size = hdr[x.addr - HDR].size
        BY <1>1, AfterBackLinked
  <1>3. \A x \in live : hdr[x.addr - HDR].size >= x.size
        BY <1>1 DEF HeapInv, HeldIsAllocated
  <1>4. /\ first \in Nat /\ live \in SUBSET [addr : Nat, size : Nat]
        /\ tailLost \in BOOLEAN
        BY DEF HeapInv, TypeOK
  <1>5. HeldDistinct'
        BY <1>1 DEF HeapInv, HeldDistinct
  <1>6. Headers(hdr') /\ torn' \in BOOLEAN /\ tailLost' \in BOOLEAN => TypeOK'
        BY <1>1, <1>4 DEF TypeOK, Headers, Chunks
  <1>7. Linked(hdr') => ListMatchesMemory'
        BY DEF Linked, ListMatchesMemory, Tiled, Chunks, EndOf
  <1>8. CASE /\ IsFree(left, next)
             /\ \E nullSize \in NullSizes : hdr' = MergeForward(left, kept, nullSize)
             /\ tailLost' = (tailLost \/ left[next].next = NULL)
             /\ torn' = (left[next].next # NULL)
    <2>1. PICK nullSize \in NullSizes : hdr' = MergeForward(left, kept, nullSize)
          BY <1>8
    <2>2. next # NULL /\ ~left[next].allocated
          BY <1>8 DEF IsFree
    <2>0. left[kept].next # NULL
          BY <2>2
    <2> HIDE DEF left, kept
    <2>3. /\ DOMAIN hdr' = DOMAIN left \ {next}
          /\ Headers(hdr')
          /\ left[next].next = NULL => Linked(hdr')
          /\ \A c \in DOMAIN hdr' : /\ hdr'[c].allocated = left[c].allocated
                                    /\ c # kept => hdr'[c].size = left[c].size
      <3>1. /\ Absorbed(left, next, kept, MergeForward(left, kept, nullSize))
            /\ left[next].next = NULL => Linked(MergeForward(left, kept, nullSize))
            BY <1>2, <2>0, MergeForwardLinked
      <3> QED BY <2>1, <3>1 DEF Absorbed
    <2>4. TypeOK'
          BY <1>4, <1>6, <1>8, <2>3
    <2>5. ListMatchesMemory'
          BY <1>7, <1>8, <2>3 DEF ListMatchesMemory
    <2>6. HeldIsAllocated'
          BY <1>1, <1>2, <1>3, <2>2, <2>3 DEF HeldIsAllocated, Chunks
    <2> QED BY <1>5, <2>4, <2>5, <2>6 DEF HeapInv
  <1>9. CASE hdr' = left /\ UNCHANGED <<tailLost, torn>>
    <2>0. torn \in BOOLEAN
          BY DEF HeapInv, TypeOK
    <2> HIDE DEF left
    <2>1. TypeOK' /\ ListMatchesMemory'
          BY <1>2, <1>4, <1>6, <1>7, <1>9, <2>0
    <2>2. HeldIsAllocated'
          BY <1>1, <1>2, <1>3, <1>9 DEF HeldIsAllocated, Chunks
    <2> QED BY <1>5, <2>1, <2>2 DEF HeapInv
  <1> QED BY <1>8, <1>9 DEF Free

-----------------------------------------------------------------------------
(* The invariant is preserved by every step.                               *)
LEMMA HeapInvStep == HeapInv /\ [Next]_vars => HeapInv'
  <1> SUFFICES ASSUME HeapInv, [Next]_vars PROVE HeapInv'
      OBVIOUS
  <1>1. ASSUME NEW n \in Requests, Malloc(n) PROVE HeapInv'
    <2>1. PICK res \in FirstFit(n) :
            /\ res + HDR + n < Word
            /\ hdr' = IF Splits(res, n) THEN Split(res, n)
                      ELSE [hdr EXCEPT ![res].allocated = TRUE]
            /\ live' = live \cup {[addr |-> res + HDR, size |-> n]}
          BY <1>1 DEF Malloc
    <2>2. UNCHANGED <<first, tailLost, torn>>
          BY <1>1 DEF Malloc
    <2>3. CASE Splits(res, n)
          BY <2>1, <2>2, <2>3, MallocSplitInv
    <2>4. CASE ~Splits(res, n)
          BY <2>1, <2>2, <2>4, MallocWholeInv
    <2> QED BY <2>3, <2>4
  <1>2. ASSUME NEW b \in live, Free(b) PROVE HeapInv'
        BY <1>2, FreeInv
  <1>3. CASE UNCHANGED vars
        BY <1>3 DEF vars, HeapInv, TypeOK, ListMatchesMemory, Tiled, HeldIsAllocated,
                    HeldDistinct, Chunks, EndOf
  <1> QED BY <1>1, <1>2, <1>3 DEF Next

(* As long as no free has coalesced with a chunk in the middle of the      *)
(* list, two blocks that malloc has handed out never overlap.              *)
LEMMA InvImpliesDisjoint == HeapInv => LiveDisjointUntorn
  <1> SUFFICES ASSUME HeapInv, ~torn, NEW b \in live, NEW c \in live, b # c
               PROVE  ~Overlap(b, c)
      BY DEF LiveDisjointUntorn, LiveDisjoint
  <1> DEFINE p == b.addr - HDR
             q == c.addr - HDR
  <1>1. /\ b.addr \in Nat /\ c.addr \in Nat /\ b.size \in Nat /\ c.size \in Nat
        /\ HDR \in Nat
        BY HeapAssumption DEF HeapInv, TypeOK
  <1>2. /\ p \in Chunks /\ hdr[p].size >= b.size
        /\ q \in Chunks /\ hdr[q].size >= c.size
        BY DEF HeapInv, HeldIsAllocated
  <1>3. /\ p \in Nat /\ hdr[p].size \in Nat /\ q \in Nat /\ hdr[q].size \in Nat
        BY <1>2, HeapAssumption DEF HeapInv, TypeOK, MemoryChunck
  <1>4. p # q
        BY <1>1 DEF HeapInv, HeldDistinct
  <1>5. /\ p < q => p + HDR + hdr[p].size <= q
        /\ q < p => q + HDR + hdr[q].size <= p
        BY <1>2 DEF HeapInv, ListMatchesMemory, Tiled, EndOf
  <1> QED BY <1>1, <1>2, <1>3, <1>4, <1>5 DEF Overlap

(* The values of the heap's variables are those of their C types, on every *)
(* run of every heap.                                                      *)
THEOREM HeapTypeCorrect == Spec => []TypeOK
  <1>1. HeapInv => TypeOK
        BY DEF HeapInv
  <1> QED BY <1>1, InitHeapInv, HeapInvStep, PTL DEF Spec

(* The list and the memory agree, on every run of every heap.              *)
THEOREM HeapListMatchesMemory == Spec => []ListMatchesMemory
  <1>1. HeapInv => ListMatchesMemory
        BY DEF HeapInv
  <1> QED BY <1>1, InitHeapInv, HeapInvStep, PTL DEF Spec

(* Every held block is an allocated chunk of at least the size asked for.  *)
THEOREM HeapHeldIsAllocated == Spec => []HeldIsAllocated
  <1>1. HeapInv => HeldIsAllocated
        BY DEF HeapInv
  <1> QED BY <1>1, InitHeapInv, HeapInvStep, PTL DEF Spec

(* malloc hands out no memory that is held, in every heap and for every    *)
(* mix of request sizes, until a free coalesces in the middle of the list. *)
THEOREM HeapLiveDisjoint == Spec => []LiveDisjointUntorn
  BY InvImpliesDisjoint, InitHeapInv, HeapInvStep, PTL DEF Spec

(* The chunks lie in the memory init_memory was given.                     *)
AboveStart == ~torn => \A c \in Chunks : HeapStart <= c
WithinEnd == ~torn /\ ~tailLost => \A c \in Chunks : EndOf(c) <= HeapEnd

(* The inductive invariant: CoversHeap speaks of the last chunk only, and  *)
(* a merge makes the last chunk out of two, so every chunk's end counts.   *)
CoverInv ==
  HeapInv /\ NoAdjacentFree /\ CoversHeap /\ AboveStart /\ WithinEnd

(* What the invariant says of the header at an address.                    *)
LEMMA HeaderTypes ==
  ASSUME HeapInv
  PROVE  /\ HDR \in Nat \ {0} /\ HeapEnd \in Nat /\ HeapEnd < Word
         /\ \A c \in Chunks : /\ c \in Nat \ {0}
                              /\ hdr[c].next \in Nat /\ hdr[c].perv \in Nat
                              /\ hdr[c].size \in Nat /\ hdr[c].allocated \in BOOLEAN
         /\ ~torn => Headers(hdr) /\ Linked(hdr)
  BY HeapAssumption DEF HeapInv, TypeOK, ListMatchesMemory, Tiled, Headers, Linked, Chunks,
     EndOf, MemoryChunck, HeapEnd

(* init_memory establishes it: one free chunk covers the heap.             *)
LEMMA InitCoverInv == Init => CoverInv
  <1> SUFFICES ASSUME Init PROVE CoverInv
      OBVIOUS
  <1>1. \A c \in Chunks : /\ c = HeapStart /\ HDR <= HeapSize
                          /\ hdr[c].next = NULL /\ hdr[c].size = HeapSize - HDR
        BY HeapAssumption DEF Init, Chunks
  <1>2. NoAdjacentFree /\ AboveStart
        BY <1>1, HeapAssumption DEF NoAdjacentFree, AboveStart
  <1>3. \A c \in Chunks : EndOf(c) = HeapEnd /\ EndOf(c) <= HeapEnd
        BY <1>1, HeapAssumption DEF EndOf, HeapEnd
  <1>4. CoversHeap /\ WithinEnd
        BY <1>3 DEF CoversHeap, WithinEnd
  <1> QED BY <1>2, <1>4, InitHeapInv DEF CoverInv

-----------------------------------------------------------------------------
(* malloc *)

(* What a split leaves: the block and the rest of its chunk take the       *)
(* chunk's place, the others are as they were but for a link back.         *)
SplitOff(res, n, temp) ==
  /\ temp = res + HDR + n /\ temp \in Nat \ {0} /\ temp \notin Chunks
  /\ Chunks' = Chunks \cup {temp}
  /\ hdr'[res].next = temp /\ hdr'[res].size = n /\ hdr'[res].allocated = TRUE
  /\ hdr'[temp].next = hdr[res].next /\ hdr'[temp].allocated = FALSE
  /\ hdr'[temp].size = hdr[res].size - n - HDR
  /\ \A c \in Chunks \ {res} : /\ hdr'[c].next = hdr[c].next
                               /\ hdr'[c].size = hdr[c].size
                               /\ hdr'[c].allocated = hdr[c].allocated

(* It is what Split computes.                                              *)
LEMMA SplitFields ==
  ASSUME HeapInv, ~torn, NEW n \in Nat, NEW res \in Chunks, Splits(res, n),
         hdr' = Split(res, n)
  PROVE  SplitOff(res, n, res + HDR + n)
  <1> DEFINE temp == res + HDR + n
  <1>1. /\ HDR \in Nat \ {0} /\ res \in Nat \ {0} /\ hdr[res].size \in Nat
        /\ hdr[res].size >= n + HDR + 1 /\ Linked(hdr)
        BY HeaderTypes DEF Splits
  <1>2. temp \in Nat \ {0} /\ temp # res
        BY <1>1
  <1>3. temp \notin Chunks
        BY <1>1 DEF Linked, Chunks
  <1>4. /\ Chunks' = Chunks \cup {temp}
        /\ hdr'[res] = [next |-> temp, perv |-> hdr[res].perv, allocated |-> TRUE, size |-> n]
        /\ hdr'[temp] = [next |-> hdr[res].next, perv |-> res, allocated |-> FALSE,
                      size |-> hdr[res].size - n - HDR]
        BY <1>2 DEF Split, Chunks
  <1>5. ASSUME NEW c \in Chunks \ {res}
        PROVE  /\ hdr'[c].next = hdr[c].next
               /\ hdr'[c].size = hdr[c].size
               /\ hdr'[c].allocated = hdr[c].allocated
    <2>1. hdr'[c] = IF c = hdr[res].next THEN [hdr[c] EXCEPT !.perv = temp] ELSE hdr[c]
          BY <1>3 DEF Split
    <2>2. hdr[c] \in MemoryChunck
          BY DEF HeapInv, TypeOK
    <2> HIDE DEF temp
    <2> QED BY <1>2, <2>1, <2>2, Relinked
  <1> QED BY <1>2, <1>3, <1>4, <1>5 DEF SplitOff

(* malloc merges nothing and loses nothing: the block it hands out was the *)
(* only free chunk between its neighbours.                                 *)
LEMMA MallocCoverInv ==
  ASSUME CoverInv, NEW n \in Requests, Malloc(n)
  PROVE  CoverInv'
  <1>1. PICK res \in FirstFit(n) :
          hdr' = IF Splits(res, n) THEN Split(res, n)
                 ELSE [hdr EXCEPT ![res].allocated = TRUE]
        BY DEF Malloc
  <1>2. HeapInv' /\ torn' = torn /\ tailLost' = tailLost
        BY HeapInvStep DEF Malloc, CoverInv, Next
  <1>3. n \in Nat /\ res \in Chunks /\ ~hdr[res].allocated /\ HeapInv
        BY FirstFitFits, HeapAssumption DEF CoverInv
  <1>4. CASE torn
        BY <1>2, <1>4 DEF CoverInv, NoAdjacentFree, CoversHeap, AboveStart, WithinEnd
  <1>5. CASE ~torn /\ ~Splits(res, n)
    <2>1. /\ Chunks' = Chunks
          /\ \A c \in Chunks : /\ hdr'[c].next = hdr[c].next
                               /\ hdr'[c].size = hdr[c].size
                               /\ hdr[c].allocated => hdr'[c].allocated
          BY <1>1, <1>3, <1>5 DEF HeapInv, TypeOK, Chunks, MemoryChunck
    <2>2. \A c \in Chunks : hdr[c].next # NULL => hdr[c].next \in Chunks
          BY <1>3, <1>5, HeaderTypes DEF Linked, Chunks
    <2>3. NoAdjacentFree'
      <3> SUFFICES ASSUME NEW c \in Chunks, hdr'[c].next # NULL
                   PROVE  hdr'[c].allocated \/ hdr'[hdr'[c].next].allocated
          BY <2>1 DEF NoAdjacentFree
      <3>1. hdr[c].next \in Chunks /\ (hdr[c].allocated \/ hdr[hdr[c].next].allocated)
          BY <1>5, <2>1, <2>2 DEF CoverInv, NoAdjacentFree
      <3> QED BY <2>1, <3>1
    <2>4. CoversHeap' /\ AboveStart' /\ WithinEnd'
          BY <1>2, <2>1 DEF CoverInv, CoversHeap, AboveStart, WithinEnd, EndOf, HeapEnd
    <2> QED BY <1>2, <2>3, <2>4 DEF CoverInv
  <1>6. CASE ~torn /\ Splits(res, n)
    <2> DEFINE temp == res + HDR + n
    <2>1. /\ temp \in Nat \ {0} /\ temp \notin Chunks
          /\ Chunks' = Chunks \cup {temp}
          /\ hdr'[res].next = temp /\ hdr'[res].size = n /\ hdr'[res].allocated = TRUE
          /\ hdr'[temp].next = hdr[res].next /\ hdr'[temp].allocated = FALSE
          /\ hdr'[temp].size = hdr[res].size - n - HDR
          /\ \A c \in Chunks \ {res} : /\ hdr'[c].next = hdr[c].next
                                       /\ hdr'[c].size = hdr[c].size
                                       /\ hdr'[c].allocated = hdr[c].allocated
      <3>1. SplitOff(res, n, temp)
            BY <1>1, <1>3, <1>6, SplitFields
      <3> QED BY <3>1 DEF SplitOff
    <2>2. /\ HDR \in Nat \ {0} /\ res \in Nat \ {0} /\ hdr[res].size \in Nat
          /\ hdr[res].size >= n + HDR + 1 /\ Linked(hdr)
          /\ HeapEnd \in Nat /\ HeapStart \in Nat
          BY <1>3, <1>6, HeaderTypes, HeapAssumption DEF Splits
    <2>3. \A c \in Chunks : hdr[c].next # NULL => /\ hdr[c].next \in Chunks
                                                  /\ hdr[hdr[c].next].perv = c
                                                  /\ hdr[c].next # temp
          BY <2>1, <2>2 DEF Linked, Chunks
    <2>4. /\ EndOf(res)' = temp /\ EndOf(temp)' = EndOf(res)
          /\ temp <= EndOf(res) /\ res <= temp
          /\ \A c \in Chunks \ {res} : EndOf(c)' = EndOf(c)
          BY <1>3, <2>1, <2>2 DEF EndOf
    <2>5. NoAdjacentFree'
      <3> SUFFICES ASSUME NEW c \in Chunks', hdr'[c].next # NULL
                   PROVE  hdr'[c].allocated \/ hdr'[hdr'[c].next].allocated
          BY DEF NoAdjacentFree
      <3>1. CASE c = res
            BY <2>1, <3>1
      <3>2. CASE c = temp
        <4>1. hdr[res].next # NULL /\ hdr[hdr[res].next].allocated
              BY <1>3, <1>6, <2>1, <3>2 DEF CoverInv, NoAdjacentFree
        <4>2. hdr[res].next \in Chunks \ {res}
              BY <1>3, <2>3, <4>1
        <4> QED BY <2>1, <3>2, <4>1, <4>2
      <3>3. CASE c \in Chunks \ {res}
        <4>1. hdr[c].next \in Chunks /\ (hdr[c].allocated \/ hdr[hdr[c].next].allocated)
              BY <1>6, <2>1, <2>3, <3>3 DEF CoverInv, NoAdjacentFree
        <4> QED BY <1>3, <2>1, <3>3, <4>1
      <3> QED BY <2>1, <3>1, <3>2, <3>3
    <2>6. AboveStart'
      <3>1. \A x \in Chunks : HeapStart <= x
            BY <1>6 DEF CoverInv, AboveStart
      <3> HIDE DEF temp
      <3>2. HeapStart <= temp
        <4>1. HeapStart <= res /\ res <= temp
              BY <1>3, <2>4, <3>1
        <4> QED BY <2>1, <2>2, <4>1
      <3> QED BY <2>1, <3>1, <3>2 DEF AboveStart
    <2>7. WithinEnd'
      <3> SUFFICES ASSUME ~tailLost, NEW c \in Chunks' PROVE EndOf(c)' <= HeapEnd
          BY <1>2 DEF WithinEnd, HeapEnd
      <3>1. \A x \in Chunks : EndOf(x) <= HeapEnd
            BY <1>6 DEF CoverInv, WithinEnd
      <3>2. EndOf(res) \in Nat
            BY <2>2 DEF EndOf
      <3>3. temp <= HeapEnd
            BY <1>3, <2>1, <2>2, <2>4, <3>1, <3>2
      <3> HIDE DEF temp
      <3> QED BY <1>3, <2>1, <2>4, <3>1, <3>3
    <2>8. CoversHeap'
      <3> SUFFICES ASSUME ~tailLost, NEW c \in Chunks', hdr'[c].next = NULL
                   PROVE  EndOf(c)' = HeapEnd
          BY <1>2 DEF CoversHeap, HeapEnd
      <3>1. \A x \in Chunks : hdr[x].next = NULL => EndOf(x) = HeapEnd
            BY <1>6 DEF CoverInv, CoversHeap
      <3>2. c # res
            BY <2>1 DEF NULL
      <3> HIDE DEF temp
      <3> QED BY <1>3, <2>1, <2>4, <3>1, <3>2
    <2> QED BY <1>2, <2>5, <2>6, <2>7, <2>8 DEF CoverInv
  <1> QED BY <1>4, <1>5, <1>6

-----------------------------------------------------------------------------
(* free *)

(* The parts of the invariant that speak of one list of headers: all free  *)
(* neighbours but those of one chunk are merged, and nothing is lost.      *)
MergedBut(h, kept) ==
  \A c \in DOMAIN h \ {kept} :
    h[c].next # NULL => h[c].allocated \/ h[h[c].next].allocated

Covered(h) ==
  \A c \in DOMAIN h : /\ c + HDR + h[c].size <= HeapEnd
                      /\ h[c].next = NULL => c + HDR + h[c].size = HeapEnd

(* After the backward merge of free only the chunk that has taken the      *)
(* freed block in can have a free neighbour, the one behind it.            *)
LEMMA AfterBackCovers ==
  ASSUME CoverInv, ~torn, NEW b \in live
  PROVE  LET left == AfterBack(b.addr - HDR)
             kept == Kept(b.addr - HDR)
         IN /\ MergedBut(left, kept)
            /\ \A c \in DOMAIN left : HeapStart <= c
            /\ ~tailLost => Covered(left)
  <1> DEFINE chunk == b.addr - HDR
             h == Freed(chunk)
             perv == hdr[chunk].perv
             left == AfterBack(chunk)
             kept == Kept(chunk)
  <1>1. /\ HDR \in Nat \ {0} /\ HeapEnd \in Nat /\ HeapEnd < Word
        /\ \A c \in Chunks : /\ c \in Nat \ {0}
                             /\ hdr[c].next \in Nat /\ hdr[c].perv \in Nat
                             /\ hdr[c].size \in Nat /\ hdr[c].allocated \in BOOLEAN
        /\ Headers(hdr) /\ Linked(hdr) /\ HeapInv
        BY HeaderTypes DEF CoverInv
  <1>2. chunk \in Chunks /\ hdr[chunk].allocated
        BY <1>1 DEF HeapInv, HeldIsAllocated
  <1>3. /\ \A c \in Chunks : HeapStart <= c
        /\ \A c \in Chunks : hdr[c].next # NULL =>
                               hdr[c].allocated \/ hdr[hdr[c].next].allocated
        /\ ~tailLost => Covered(hdr)
        BY DEF CoverInv, AboveStart, NoAdjacentFree, CoversHeap, WithinEnd, Covered, Chunks,
               EndOf
  <1>4. /\ DOMAIN h = Chunks /\ Headers(h) /\ Linked(h)
        /\ \A c \in Chunks : /\ c # chunk => h[c] = hdr[c]
                             /\ h[c].next = hdr[c].next
                             /\ h[c].perv = hdr[c].perv
                             /\ h[c].size = hdr[c].size
        BY <1>1, <1>2, FreedLinked
  <1>5. \A c \in Chunks : hdr[c].next # NULL => /\ hdr[c].next \in Chunks
                                                /\ hdr[hdr[c].next].perv = c
        BY <1>1 DEF Linked, Chunks
  <1>6. CASE ~IsFree(h, perv)
    <2>1. left = h /\ kept = chunk
          BY <1>2, <1>4, <1>6 DEF AfterBack, Kept
    <2>2. MergedBut(h, chunk)
      <3> SUFFICES ASSUME NEW c \in Chunks \ {chunk}, h[c].next # NULL
                   PROVE  h[c].allocated \/ h[h[c].next].allocated
          BY <1>4 DEF MergedBut
      <3> HIDE DEF h, perv
      <3>1. /\ hdr[c].next \in Chunks /\ hdr[hdr[c].next].perv = c
            /\ hdr[c].allocated \/ hdr[hdr[c].next].allocated
            BY <1>3, <1>4, <1>5
      <3>2. CASE hdr[c].next = chunk
        <4>1. perv = c /\ c # NULL
              BY <1>1, <3>1, <3>2 DEF perv, NULL
        <4> QED BY <1>6, <4>1 DEF IsFree
      <3>3. CASE hdr[c].next # chunk
            BY <1>4, <3>1, <3>3
      <3> QED BY <3>2, <3>3
    <2> HIDE DEF h
    <2>3. ~tailLost => Covered(h)
          BY <1>3, <1>4 DEF Covered, Chunks
    <2> QED BY <1>3, <1>4, <2>1, <2>2, <2>3
  <1>7. CASE IsFree(h, perv)
    <2>1. perv # NULL /\ ~h[perv].allocated
          BY <1>7 DEF IsFree
    <2>2. left = MergeBack(h, chunk) /\ kept = perv
          BY <1>2, <1>4, <1>7 DEF AfterBack, Kept
    <2>3. /\ Absorbed(h, chunk, perv, left)
          /\ left[perv].size = (h[perv].size + h[chunk].size + HDR) % Word
      <3>1. h[chunk].perv = perv /\ chunk \in DOMAIN h /\ h[chunk].perv # NULL
            BY <1>2, <1>4, <2>1
      <3> HIDE DEF h, left, perv, chunk
      <3> QED BY <1>4, <2>2, <3>1, MergeBackLinked
    <2> HIDE DEF h, left, kept
    <2>4. perv \in Chunks /\ hdr[perv].next = chunk /\ chunk = perv + HDR + hdr[perv].size
          BY <1>1, <1>2, <2>1 DEF Linked, Chunks, NULL
    <2>5. perv # chunk
          BY <1>1, <1>2, <2>4
    <2>6. /\ DOMAIN left = Chunks \ {chunk} /\ left[perv].next = hdr[chunk].next
          /\ \A c \in Chunks \ {chunk} : left[c].allocated = hdr[c].allocated
          /\ \A c \in Chunks \ {chunk, perv} : /\ left[c].size = hdr[c].size
                                               /\ left[c].next = hdr[c].next
      <3> HIDE DEF chunk, perv
      <3>1. DOMAIN left = Chunks \ {chunk} /\ left[perv].next = hdr[chunk].next
            BY <1>2, <1>4, <2>3 DEF Absorbed
      <3>2. ASSUME NEW c \in Chunks \ {chunk} PROVE left[c].allocated = hdr[c].allocated
        <4>1. left[c].allocated = h[c].allocated
              BY <2>3, <3>1 DEF Absorbed
        <4> QED BY <1>4, <4>1
      <3>3. ASSUME NEW c \in Chunks \ {chunk, perv}
            PROVE  left[c].size = hdr[c].size /\ left[c].next = hdr[c].next
        <4>1. left[c].size = h[c].size /\ left[c].next = h[c].next
              BY <2>3, <3>1 DEF Absorbed
        <4> QED BY <1>4, <4>1
      <3> QED BY <3>1, <3>2, <3>3
    <2>7. MergedBut(left, perv)
      <3> HIDE DEF chunk, perv
      <3> SUFFICES ASSUME NEW c \in Chunks \ {chunk, perv}, hdr[c].next # NULL
                   PROVE  left[c].allocated \/ left[left[c].next].allocated
          BY <2>6 DEF MergedBut
      <3>1. /\ hdr[c].next \in Chunks /\ hdr[hdr[c].next].perv = c
            /\ hdr[c].allocated \/ hdr[hdr[c].next].allocated
            BY <1>3, <1>5
      <3>2. hdr[c].next # chunk
            BY <3>1 DEF perv
      <3> QED BY <2>6, <3>1, <3>2
    <2>8. ASSUME ~tailLost PROVE Covered(left)
      <3> HIDE DEF chunk, perv
      <3>1. Covered(hdr)
            BY <1>3, <2>8
      <3>2. /\ chunk + HDR + hdr[chunk].size <= HeapEnd
            /\ hdr[chunk].next = NULL => chunk + HDR + hdr[chunk].size = HeapEnd
            BY <1>2, <3>1 DEF Covered, Chunks
      <3>3. left[perv].size = hdr[perv].size + hdr[chunk].size + HDR
        <4>0. perv \in Nat /\ hdr[perv].size \in Nat /\ hdr[chunk].size \in Nat /\ Word \in Nat
              BY <1>1, <1>2, <2>4, HeapAssumption
        <4>1. /\ hdr[perv].size + hdr[chunk].size + HDR \in Nat
              /\ hdr[perv].size + hdr[chunk].size + HDR < Word
              BY <1>1, <2>4, <3>2, <4>0
        <4>2. h[perv].size = hdr[perv].size /\ h[chunk].size = hdr[chunk].size
              BY <1>2, <1>4, <2>4
        <4> QED BY <2>3, <4>1, <4>2, NoWrap
      <3>4. perv + HDR + left[perv].size = chunk + HDR + hdr[chunk].size
            BY <1>1, <1>2, <2>4, <3>3
      <3> SUFFICES ASSUME NEW c \in Chunks \ {chunk}
                   PROVE  /\ c + HDR + left[c].size <= HeapEnd
                          /\ left[c].next = NULL => c + HDR + left[c].size = HeapEnd
          BY <2>6 DEF Covered
      <3>5. CASE c = perv
            BY <2>6, <3>2, <3>4, <3>5
      <3>6. CASE c # perv
            BY <2>6, <3>1, <3>6 DEF Covered, Chunks
      <3> QED BY <3>5, <3>6
    <2> QED BY <1>3, <2>2, <2>6, <2>7, <2>8 DEF left, kept
  <1> QED BY <1>6, <1>7

(* free keeps the invariant: what the backward merge leaves is finished by *)
(* the forward merge, and only that one gives up the end of the heap.      *)
LEMMA FreeCoverInv ==
  ASSUME CoverInv, NEW b \in live, Free(b)
  PROVE  CoverInv'
  <1> DEFINE left == AfterBack(b.addr - HDR)
             kept == Kept(b.addr - HDR)
             next == left[kept].next
  <1>1. HeapInv /\ HeapInv' /\ ~torn
        BY HeapInvStep DEF CoverInv, Next, Free
  <1>2. /\ MergedBut(left, kept)
        /\ \A c \in DOMAIN left : HeapStart <= c
        /\ ~tailLost => Covered(left)
        BY <1>1, AfterBackCovers
  <1>3. Headers(left) /\ Linked(left) /\ kept \in DOMAIN left
        BY <1>1, AfterBackLinked
  <1>4. CASE /\ IsFree(left, next)
             /\ \E nullSize \in NullSizes : hdr' = MergeForward(left, kept, nullSize)
             /\ tailLost' = (tailLost \/ left[next].next = NULL)
             /\ torn' = (left[next].next # NULL)
    <2> SUFFICES ASSUME ~torn' PROVE CoverInv'
        BY <1>1 DEF CoverInv, NoAdjacentFree, CoversHeap, AboveStart, WithinEnd
    <2>1. PICK nullSize \in NullSizes : hdr' = MergeForward(left, kept, nullSize)
          BY <1>4
    <2>2. tailLost' /\ left[next].next = NULL /\ next # NULL
          BY <1>4 DEF IsFree
    <2> HIDE DEF left, kept
    <2>3. Absorbed(left, next, kept, hdr')
          BY <1>3, <2>1, <2>2, MergeForwardLinked
    <2>4. NoAdjacentFree'
      <3> SUFFICES ASSUME NEW c \in DOMAIN hdr', hdr'[c].next # NULL
                   PROVE  hdr'[c].allocated \/ hdr'[hdr'[c].next].allocated
          BY DEF NoAdjacentFree, Chunks
      <3>1. c # kept /\ c \in DOMAIN left /\ hdr'[c].next = left[c].next
            BY <2>2, <2>3 DEF Absorbed
      <3>2. left[c].next \in DOMAIN left /\ left[left[c].next].perv = c
            BY <1>3, <3>1 DEF Linked
      <3>3. left[next].perv = kept
            BY <1>3, <2>2 DEF Linked
      <3>4. left[c].next # next
            BY <3>1, <3>2, <3>3
      <3>5. left[c].allocated \/ left[left[c].next].allocated
            BY <1>2, <3>1 DEF MergedBut
      <3> QED BY <2>3, <3>1, <3>2, <3>4, <3>5 DEF Absorbed
    <2>5. AboveStart'
          BY <1>2, <2>3 DEF AboveStart, Absorbed, Chunks
    <2> QED BY <1>1, <2>2, <2>4, <2>5 DEF CoverInv, CoversHeap, WithinEnd
  <1>5. CASE ~IsFree(left, next) /\ hdr' = left /\ UNCHANGED <<tailLost, torn>>
    <2> HIDE DEF left, kept
    <2>1. NoAdjacentFree'
      <3> SUFFICES ASSUME NEW c \in DOMAIN left, left[c].next # NULL
                   PROVE  left[c].allocated \/ left[left[c].next].allocated
          BY <1>5 DEF NoAdjacentFree, Chunks
      <3>1. CASE c = kept
            BY <1>5, <3>1 DEF IsFree
      <3>2. CASE c # kept
            BY <1>2, <3>2 DEF MergedBut
      <3> QED BY <3>1, <3>2
    <2>2. AboveStart' /\ CoversHeap' /\ WithinEnd'
          BY <1>2, <1>5 DEF AboveStart, CoversHeap, WithinEnd, Covered, Chunks, EndOf, HeapEnd
    <2> QED BY <1>1, <2>1, <2>2 DEF CoverInv
  <1> QED BY <1>4, <1>5 DEF Free

(* Every step preserves it.                                                *)
LEMMA CoverInvStep == CoverInv /\ [Next]_vars => CoverInv'
  <1> SUFFICES ASSUME CoverInv, [Next]_vars PROVE CoverInv'
      OBVIOUS
  <1>1. ASSUME NEW n \in Requests, Malloc(n) PROVE CoverInv'
        BY <1>1, MallocCoverInv
  <1>2. ASSUME NEW b \in live, Free(b) PROVE CoverInv'
        BY <1>2, FreeCoverInv
  <1>3. CASE UNCHANGED vars
    <2>1. HeapInv'
          BY <1>3, HeapInvStep DEF CoverInv
    <2> QED BY <1>3, <2>1 DEF vars, CoverInv, NoAdjacentFree, CoversHeap, AboveStart, WithinEnd,
                    Chunks, EndOf, HeapEnd
  <1> QED BY <1>1, <1>2, <1>3 DEF Next

(* A held block lies between the ends of its chunk, and so of the heap.    *)
LEMMA CoverImpliesInHeap == CoverInv => LiveInHeap
  <1> SUFFICES ASSUME CoverInv, ~torn, ~tailLost, NEW b \in live
               PROVE  HeapStart + HDR <= b.addr /\ b.addr + b.size <= HeapEnd
      BY DEF LiveInHeap
  <1> DEFINE c == b.addr - HDR
  <1>1. /\ HeapInv /\ b.addr \in Nat /\ b.size \in Nat /\ HDR \in Nat /\ HeapStart \in Nat
        /\ HeapEnd \in Nat
        BY HeapAssumption DEF CoverInv, HeapInv, TypeOK, HeapEnd
  <1>2. c \in Chunks /\ hdr[c].size >= b.size
        BY <1>1 DEF HeapInv, HeldIsAllocated
  <1>3. hdr[c].size \in Nat
        BY <1>1, <1>2, HeaderTypes
  <1>4. HeapStart <= c /\ c + HDR + hdr[c].size <= HeapEnd
        BY <1>2 DEF CoverInv, AboveStart, WithinEnd, EndOf
  <1> QED BY <1>1, <1>2, <1>3, <1>4

-----------------------------------------------------------------------------
(* Free neighbours are always merged: every call of free coalesces fully,  *)
(* in both directions, and malloc never makes two free neighbours.         *)
THEOREM HeapNoAdjacentFree == Spec => []NoAdjacentFree
  <1>1. CoverInv => NoAdjacentFree
        BY DEF CoverInv
  <1> QED BY <1>1, InitCoverInv, CoverInvStep, PTL DEF Spec

(* No memory is lost from the list, whatever is split and merged, until a  *)
(* free coalesces with the last chunk and takes the wrong size for it.     *)
THEOREM HeapCoversHeap == Spec => []CoversHeap
  <1>1. CoverInv => CoversHeap
        BY DEF CoverInv
  <1> QED BY <1>1, InitCoverInv, CoverInvStep, PTL DEF Spec

(* As long as that has not happened, no client is handed memory outside of *)
(* the heap.                                                               *)
THEOREM HeapLiveInHeap == Spec => []LiveInHeap
  BY CoverImpliesInHeap, InitCoverInv, CoverInvStep, PTL DEF Spec

(* The chunk of a held block is changed by no call but its owner's, for    *)
(* every heap: malloc splits free chunks only, and free merges free ones.  *)
THEOREM HeapHeldUntouched == Spec => HeldUntouched
  <1> DEFINE Untouched(b) == /\ b.addr - HDR \in DOMAIN hdr'
                             /\ hdr'[b.addr - HDR].size = hdr[b.addr - HDR].size
                             /\ hdr'[b.addr - HDR].allocated
  <1>1. ASSUME HeapInv, [Next]_vars
        PROVE  [\A b \in live \cap live' :
                  ~torn => /\ b.addr - HDR \in DOMAIN hdr'
                           /\ hdr'[b.addr - HDR].size = hdr[b.addr - HDR].size
                           /\ hdr'[b.addr - HDR].allocated]_vars
    <2> SUFFICES ASSUME Next, ~torn, NEW x \in live \cap live' PROVE Untouched(x)
        BY <1>1
    <2>1. x.addr - HDR \in Chunks /\ hdr[x.addr - HDR].allocated
          BY <1>1 DEF HeapInv, HeldIsAllocated
    <2>2. ASSUME NEW n \in Requests, Malloc(n) PROVE Untouched(x)
      <3>1. PICK res \in FirstFit(n) :
              hdr' = IF Splits(res, n) THEN Split(res, n)
                     ELSE [hdr EXCEPT ![res].allocated = TRUE]
            BY <2>2 DEF Malloc
      <3>2. n \in Nat /\ res \in Chunks /\ ~hdr[res].allocated /\ res # x.addr - HDR
            BY <2>1, FirstFitFits, HeapAssumption
      <3> DEFINE p == x.addr - HDR
      <3>3. CASE Splits(res, n)
        <4>1. SplitOff(res, n, res + HDR + n)
              BY <1>1, <3>1, <3>2, <3>3, SplitFields
        <4> HIDE DEF p
        <4> QED BY <2>1, <3>2, <4>1 DEF SplitOff, Chunks, p
      <3>4. CASE ~Splits(res, n)
            BY <2>1, <3>1, <3>2, <3>4 DEF Chunks
      <3> QED BY <3>3, <3>4
    <2>3. ASSUME NEW b \in live, Free(b) PROVE Untouched(x)
      <3> DEFINE left == AfterBack(b.addr - HDR)
                 kept == Kept(b.addr - HDR)
                 next == left[kept].next
      <3>1. /\ Headers(left) /\ Linked(left)
            /\ kept \in DOMAIN left /\ ~left[kept].allocated
            /\ \A y \in live \ {b} : /\ y.addr - HDR \in DOMAIN left
                                     /\ left[y.addr - HDR].allocated
                                     /\ left[y.addr - HDR].size = hdr[y.addr - HDR].size
            BY <1>1, AfterBackLinked
      <3>2. x \in live \ {b}
            BY <2>3 DEF Free
      <3>3. CASE /\ IsFree(left, next)
                 /\ \E nullSize \in NullSizes : hdr' = MergeForward(left, kept, nullSize)
        <4>1. PICK nullSize \in NullSizes : hdr' = MergeForward(left, kept, nullSize)
              BY <3>3
        <4>2. next # NULL /\ ~left[next].allocated
              BY <3>3 DEF IsFree
        <4> HIDE DEF left, kept
        <4>3. Absorbed(left, next, kept, hdr')
              BY <3>1, <4>1, <4>2, MergeForwardLinked
        <4> QED BY <3>1, <3>2, <4>2, <4>3 DEF Absorbed
      <3>4. CASE hdr' = left
            BY <3>1, <3>2, <3>4
      <3> QED BY <2>3, <3>3, <3>4 DEF Free
    <2> QED BY <2>2, <2>3 DEF Next
  <1> QED BY <1>1, InitHeapInv, HeapInvStep, PTL DEF Spec, HeldUntouched

=============================================================================
