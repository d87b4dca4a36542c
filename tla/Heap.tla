-------------------------------- MODULE Heap --------------------------------
(***************************************************************************)
(* The kernel heap of WavOS (src/src/memorymanagement.c): a doubly linked  *)
(* list of chunk headers laid out in one region of memory, first-fit       *)
(* allocation with splitting, and coalescing on free.                      *)
(*                                                                         *)
(* A chunk is named by the address of its header; its block starts HDR     *)
(* (sizeof(MemoryChunck)) further on.  Addresses and sizes are naturals in *)
(* one abstract unit; size arithmetic wraps at Word (size_t).  What the    *)
(* clients store in their blocks is not modelled.                          *)
(***************************************************************************)
EXTENDS Integers, FiniteSets

CONSTANTS
  HDR,        \* sizeof(MemoryChunck)
  Word,       \* 2^32: size_t arithmetic is modulo Word
  HeapStart,  \* first argument of init_memory
  HeapSize,   \* second argument of init_memory
  Requests,   \* the sizes clients ask for
  NullSizes,  \* what a read of ((MemoryChunck*)0)->size can yield: the
              \* machine's low memory, so any word, chosen at each read
  MaxLive     \* bound: number of blocks the clients hold at the same time

NULL == 0

ASSUME HeapAssumption ==
  /\ HDR \in Nat \ {0}
  /\ Word \in Nat
  /\ HeapStart \in Nat \ {0}
  /\ HeapSize \in Nat
  /\ HeapStart + HeapSize < Word
  /\ Requests \subseteq Nat
  /\ NullSizes \subseteq Nat
  /\ MaxLive \in Nat

VARIABLES
  first,    \* MemoryChunck* first
  hdr,      \* header address -> [next, perv, allocated, size]
  live,     \* history: the blocks the clients hold, [addr, size asked for]
  tailLost, \* history: a free has coalesced with the last chunk of the list
  torn      \* history: a free has coalesced with a chunk that was not last

vars == <<first, hdr, live, tailLost, torn>>

MemoryChunck == [next : Nat, perv : Nat, allocated : BOOLEAN, size : Nat]
Chunks == DOMAIN hdr
HeapEnd == HeapStart + HeapSize
EndOf(c) == c + HDR + hdr[c].size

-----------------------------------------------------------------------------
(* init_memory *)
Init ==
  /\ first = IF HeapSize < HDR THEN NULL ELSE HeapStart
  /\ hdr = [c \in IF HeapSize < HDR THEN {} ELSE {HeapStart} |->
              [next |-> NULL, perv |-> NULL, allocated |-> FALSE,
               size |-> HeapSize - HDR]]
  /\ live = {}
  /\ tailLost = FALSE
  /\ torn = FALSE

-----------------------------------------------------------------------------
(* malloc *)
FitsAllocated(c, n) == hdr[c].size > n                   \* mutant
FitsTooSmall(c, n) == hdr[c].size + HDR > n /\ ~hdr[c].allocated \* mutant

Fits(c, n) == hdr[c].size > n /\ ~hdr[c].allocated

(* The chunks the search loop of malloc visits: it starts at first and     *)
(* follows next until a chunk fits.                                        *)
Scanned(n) ==
  LET ClosedUnderScan(S) ==
        /\ first \in S
        /\ \A c \in S : ~Fits(c, n) /\ hdr[c].next # NULL => hdr[c].next \in S
  IN {c \in Chunks : \A S \in SUBSET Chunks : ClosedUnderScan(S) => c \in S}

FirstFit(n) == {c \in Scanned(n) : Fits(c, n)}

SplitsTooSmall(res, n) == hdr[res].size >= n             \* mutant

Splits(res, n) == hdr[res].size >= n + HDR + 1

SplitNoHeader(res, n) ==  \* mutant: the new header is not paid for
  LET temp == res + HDR + n
      next == hdr[res].next
  IN [c \in Chunks \cup {temp} |->
        IF c = res THEN [next |-> temp, perv |-> hdr[res].perv,
                         allocated |-> TRUE, size |-> n]
        ELSE IF c = temp THEN [next |-> next, perv |-> res, allocated |-> FALSE,
                               size |-> hdr[res].size - n]
        ELSE IF c = next THEN [hdr[c] EXCEPT !.perv = temp]
        ELSE hdr[c]]

(* The headers after chunk res has been cut to n, the rest becoming a free *)
(* chunk of its own.                                                       *)
Split(res, n) ==
  LET temp == res + HDR + n
      next == hdr[res].next
  IN [c \in Chunks \cup {temp} |->
        IF c = res THEN [next |-> temp, perv |-> hdr[res].perv,
                         allocated |-> TRUE, size |-> n]
        ELSE IF c = temp THEN [next |-> next, perv |-> res, allocated |-> FALSE,
                               size |-> hdr[res].size - n - HDR]
        ELSE IF c = next THEN [hdr[c] EXCEPT !.perv = temp]
        ELSE hdr[c]]

Malloc(n) ==
  /\ Cardinality(live) < MaxLive
  /\ \E res \in FirstFit(n) :
       /\ res + HDR + n < Word  \* bound: no block wraps round the address space
       /\ hdr' = IF Splits(res, n)
                 THEN Split(res, n)
                 ELSE [hdr EXCEPT ![res].allocated = TRUE]
       /\ live' = live \cup {[addr |-> res + HDR, size |-> n]}
  /\ UNCHANGED <<first, tailLost, torn>>

-----------------------------------------------------------------------------
(* free, on a list of headers h *)
IsFreeUnchecked(h, c) == c # NULL                        \* mutant

IsFree(h, c) == c # NULL /\ ~h[c].allocated

MergeBackOneWay(h, chunk) ==  \* mutant: the successor's perv is left stale
  LET perv == h[chunk].perv
  IN [c \in DOMAIN h \ {chunk} |->
        IF c = perv THEN [h[c] EXCEPT !.next = h[chunk].next,
                                      !.size = (@ + h[chunk].size + HDR) % Word]
        ELSE h[c]]

(* Merging the freed chunk into its free predecessor.                      *)
MergeBack(h, chunk) ==
  LET perv == h[chunk].perv
      next == h[chunk].next
  IN [c \in DOMAIN h \ {chunk} |->
        IF c = perv THEN [h[c] EXCEPT !.next = next,
                                      !.size = (@ + h[chunk].size + HDR) % Word]
        ELSE IF c = next THEN [h[c] EXCEPT !.perv = perv]
        ELSE h[c]]

MergeForwardSkipped(h, chunk, nullSize) == h             \* mutant

(* Merging a chunk with its free successor.  chunk->next is advanced       *)
(* before chunk->next->size is read, so the size added is that of the      *)
(* chunk beyond the one absorbed, or whatever lies at address 0 when there *)
(* is none.                                                                *)
MergeForward(h, chunk, nullSize) ==
  LET next   == h[chunk].next
      beyond == h[next].next
      added  == IF beyond = NULL THEN nullSize ELSE h[beyond].size
  IN [c \in DOMAIN h \ {next} |->
        IF c = chunk THEN [h[c] EXCEPT !.next = beyond,
                                       !.size = (@ + added + HDR) % Word]
        ELSE IF c = beyond THEN [h[c] EXCEPT !.perv = chunk]
        ELSE h[c]]

Freed(chunk) == [hdr EXCEPT ![chunk].allocated = FALSE]

(* The list and the chunk that stand for the freed one after the backward  *)
(* merge, if there was one.                                                *)
AfterBack(chunk) ==
  LET h == Freed(chunk)
  IN IF IsFree(h, h[chunk].perv) THEN MergeBack(h, chunk) ELSE h

Kept(chunk) ==
  IF IsFree(Freed(chunk), hdr[chunk].perv) THEN hdr[chunk].perv ELSE chunk

Free(b) ==
  LET chunk == b.addr - HDR
      left  == AfterBack(chunk)
      kept  == Kept(chunk)
      next  == left[kept].next
  IN /\ ~torn   \* bound: after a torn merge chunks overlap; stop there
     /\ \/ /\ IsFree(left, next)
           /\ \E nullSize \in NullSizes : hdr' = MergeForward(left, kept, nullSize)
           /\ tailLost' = (tailLost \/ left[next].next = NULL)
           /\ torn' = (left[next].next # NULL)
        \/ /\ ~IsFree(left, next)
           /\ hdr' = left
           /\ UNCHANGED <<tailLost, torn>>
     /\ live' = live \ {b}
     /\ UNCHANGED first

-----------------------------------------------------------------------------
Next ==
  \/ \E n \in Requests : Malloc(n)
  \/ \E b \in live : Free(b)

Spec == Init /\ [][Next]_vars

-----------------------------------------------------------------------------
(* The values of the variables are the ones the C types allow.             *)
TypeOK ==
  /\ first \in Nat
  /\ \A c \in Chunks : c \in 1..(Word - 1) /\ hdr[c] \in MemoryChunck
  /\ live \in SUBSET [addr : Nat, size : Nat]
  /\ tailLost \in BOOLEAN /\ torn \in BOOLEAN

(* The list and the memory agree.  As long as no free has coalesced with a *)
(* chunk in the middle, following next visits the chunks in the order they *)
(* lie in memory, each ending exactly where its successor starts, perv is  *)
(* the inverse of next, and the last chunk is the highest.  malloc's split *)
(* and free's two merges each rewrite up to four of these fields.          *)
Tiled ==
  \A c, d \in Chunks :
    /\ hdr[c].next # NULL =>
         /\ hdr[c].next \in Chunks
         /\ hdr[c].next = EndOf(c)
         /\ hdr[hdr[c].next].perv = c
    /\ hdr[c].perv # NULL => hdr[c].perv \in Chunks /\ hdr[hdr[c].perv].next = c
    /\ c < d => hdr[c].next # NULL /\ EndOf(c) <= d
ListMatchesMemory == ~torn => Tiled

(* Coalescing is complete: no two neighbours are both free, so the heap    *)
(* does not fragment into chunks that could be one.                        *)
NoAdjacentFree ==
  ~torn => \A c \in Chunks :
             hdr[c].next # NULL => hdr[c].allocated \/ hdr[hdr[c].next].allocated

(* No memory leaks out of the list: until a free coalesces with the last   *)
(* chunk, the chunks cover the heap to its very end.                       *)
CoversHeap ==
  ~torn /\ ~tailLost => \A c \in Chunks : hdr[c].next = NULL => EndOf(c) = HeapEnd

(* Every block a client holds is an allocated chunk at least as large as   *)
(* was asked for.                                                          *)
HeldIsAllocated ==
  ~torn => \A b \in live :
             /\ b.addr - HDR \in Chunks
             /\ hdr[b.addr - HDR].allocated
             /\ hdr[b.addr - HDR].size >= b.size

Overlap(b, c) == b.addr < c.addr + c.size /\ c.addr < b.addr + b.size

(* malloc never hands out memory that another client holds.                *)
LiveDisjoint == \A b, c \in live : b # c => ~Overlap(b, c)

(* LiveDisjoint, as far as free has not coalesced in the middle of the list.   *)
LiveDisjointUntorn == ~torn => LiveDisjoint

(* Nor does malloc hand out memory outside of the heap init_memory was     *)
(* given, as far as free has not coalesced at all with a chunk after.      *)
LiveInHeap ==
  ~torn /\ ~tailLost =>
    \A b \in live : HeapStart + HDR <= b.addr /\ b.addr + b.size <= HeapEnd

(* A block is resized or released by its owner only: the chunk of a block  *)
(* that stays held keeps its size and its mark over every call.            *)
HeldUntouched ==
  [][\A b \in live \cap live' :
       ~torn => /\ b.addr - HDR \in DOMAIN hdr'
                /\ hdr'[b.addr - HDR].size = hdr[b.addr - HDR].size
                /\ hdr'[b.addr - HDR].allocated]_vars
=============================================================================
