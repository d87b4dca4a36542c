------------------------------- MODULE FatDir -------------------------------
(***************************************************************************)
(* The slots of one FAT32 directory (src/src/filesystem/fat.c): how an     *)
(* entry of several slots is placed, looked up and deleted.                *)
(*                                                                         *)
(* A directory is one cluster of SectorPerCluster sectors with             *)
(* EntriesPerSector slots each; the driver never makes it longer.  Every   *)
(* loop over the sectors of a cluster runs to dirSectorOffset <=           *)
(* sectorPerCluster, so it visits one sector more, the first of the        *)
(* cluster that follows on the disk, which is modelled as well.  That      *)
(* cluster belongs to a file or to another directory, and whoever owns it  *)
(* may write it at any time.                                               *)
(*                                                                         *)
(* An entry is Lfn[name] long-name slots, the last part of the name first, *)
(* and then the short entry.  Only long names are compared, so the         *)
(* contents of the short entry are left out, and so is what tells a file   *)
(* from a directory.                                                       *)
(***************************************************************************)
EXTENDS Integers, Sequences, FiniteSets, Volume

CONSTANTS
  Names,             \* names clients use
  Lfn,               \* name -> long-name slots it takes: (strlen + 12) / 13
  EntriesPerSector,  \* 16
  Dots,              \* 2 in a subdirectory, for "." and "..", 0 in the root
  Beyond,            \* what others may put into the sector after the
                     \* directory: a set of sequences of slots
  StackClean         \* whether the stack below name_utf16 holds zeros

Sectors == 0..SectorPerCluster  \* the last is the one beyond the directory
Slots == 1..EntriesPerSector    \* dirent[0] is slot 1

Slot(kind, name, part) == [kind |-> kind, name |-> name, part |-> part]
NoName == "none"
End == Slot("end", NoName, 0)        \* name[0] = 0x00
UnusedForever == Slot("deleted", NoName, 0)   \* mutant
Unused == Slot("unused", NoName, 0)  \* name[0] = 0xE5
Dot == Slot("dot", NoName, 0)        \* "." or "..", without a long name
Data == Slot("data", NoName, 0)      \* bytes of some file, taken for a slot

Slotted == [kind : {"end", "unused", "dot", "data", "long", "short"},
            name : Names \cup {NoName}, part : Nat]

ASSUME FatDirAssumption ==
  /\ Lfn \in [Names -> Nat \ {0}]
  /\ EntriesPerSector \in Nat \ {0}
  /\ Dots \in 0..EntriesPerSector
  /\ Beyond # {} /\ Beyond \subseteq [Slots -> Slotted]
  /\ StackClean \in BOOLEAN

VARIABLES
  slots,   \* sector -> slot -> contents
  placed   \* history: the names created and not deleted since

dirVars == <<slots, placed>>

-----------------------------------------------------------------------------
(* The loop that all look-ups share: slots are visited sector by sector up *)
(* to the first one marked as the end.                                     *)
Place == Sectors \X Slots
Before(p, q) == p[1] < q[1] \/ (p[1] = q[1] /\ p[2] < q[2])
At(p) == slots[p[1]][p[2]]

Visited == {p \in Place : \A q \in Place : Before(q, p) \/ q = p => At(q) # End}

IsShort(s) == s.kind \in {"dot", "short", "data"}

(* The long-name slots collected in lfnEnt when the loop comes to the      *)
(* short entry p: those since the short entry before, whatever lies        *)
(* between them.                                                           *)
Since(p) ==
  {q \in Visited : /\ Before(q, p) /\ At(q).kind = "long"
                   /\ \A r \in Visited :
                        Before(q, r) /\ Before(r, p) => ~IsShort(At(r))}

Collected(p) ==
  LET since == Since(p)
      earlier(q) == {r \in since : Before(r, q)}
  IN [i \in 1..Cardinality(since) |->
        At(CHOOSE q \in since : Cardinality(earlier(q)) = i - 1)]

(* read_long_filename reads the slots backwards, so the name is in the     *)
(* last ones, and the end of its last part hides whatever comes before.    *)
Spells(long, n) ==
  /\ Len(long) >= Lfn[n]
  /\ \A i \in 1..Lfn[n] : long[Len(long) + 1 - i] = Slot("long", n, i)

Matches(n) == {p \in Visited : IsShort(At(p)) /\ Spells(Collected(p), n)}

(* is_file_in_dir *)
IsFileInDir(n) == Matches(n) # {}

(* The entry find_file_dir_entry and the deletions stop at.                *)
FirstMatch(n) == CHOOSE p \in Matches(n) : \A q \in Matches(n) : ~Before(q, p)

-----------------------------------------------------------------------------
(* The search of a sector for an empty sequence.  An unused slot counts    *)
(* one wherever it lies, an end slot counts for all that follow it, each   *)
(* time one is met, until the count exceeds n.                             *)
Counted(sector) ==
  LET count[i \in 0..EntriesPerSector] ==
        IF i = 0 THEN 0
        ELSE count[i-1] + (CASE slots[sector][i] = End -> EntriesPerSector + 1 - i
                             [] slots[sector][i] = Unused -> 1
                             [] OTHER -> 0)
  IN count[EntriesPerSector]

IsEmpty(s) == s \in {End, Unused}

HasRoomToSpare(sector, n) == Counted(sector) > Lfn[n] + 1  \* mutant
HasRoom(sector, n) == Counted(sector) > Lfn[n]

FirstEmptyAnySlot(sector) == 1                            \* mutant
FirstEmpty(sector) ==
  CHOOSE i \in Slots : /\ IsEmpty(slots[sector][i])
                       /\ \A j \in 1..(i-1) : ~IsEmpty(slots[sector][j])

(* The slots of an entry.  The part of the name that is not full is padded *)
(* with what the stack holds; unless that is zero the name stored is       *)
(* another one.                                                            *)
LongSlots(n) ==
  LET exact == [i \in 1..Lfn[n] |-> Slot("long", n, Lfn[n] + 1 - i)]
  IN {exact} \cup IF StackClean THEN {}
                  ELSE {[exact EXCEPT ![1] = Slot("long", NoName, Lfn[n])]}

(* The entry written over the slots from the first empty one on; what does *)
(* not fit the sector lands on the stack behind it.                        *)
Filled(sector, from, entry) ==
  [i \in Slots |-> IF i \in from..(from + Len(entry) - 1)
                   THEN entry[i - from + 1] ELSE slots[sector][i]]

(* Creating an entry: the first sector that seems to have room takes it.   *)
(* When none has, "directory full".                                        *)
PutEntry(n) ==
  /\ ~IsFileInDir(n)  \* "flie exists", "dir already exists"
  /\ \E sector \in Sectors :
       /\ HasRoom(sector, n)
       /\ \A s \in 0..(sector - 1) : ~HasRoom(s, n)
       /\ \E long \in LongSlots(n) :
            slots' = [slots EXCEPT ![sector] =
                        Filled(sector, FirstEmpty(sector),
                               long \o <<Slot("short", n, 0)>>)]
  /\ placed' = placed \cup {n}

(* create_file with create_file_by_dir_cluster *)
CreateFile(n) == PutEntry(n)

(* create_dir with create_dir_by_parent_cluster *)
CreateDir(n) == PutEntry(n)

-----------------------------------------------------------------------------
(* Deleting an entry marks the short entry and as many slots before it as  *)
(* long names were collected.                                              *)
MarkedShortOnly(p) == {p[2]}                              \* mutant
Marked(p) == (p[2] - Len(Collected(p)))..p[2]

DropEntry(n) ==
  /\ IsFileInDir(n)   \* "file not found", "dir not found"
  /\ LET p == FirstMatch(n)
     IN slots' = [slots EXCEPT ![p[1]] =
                    [i \in Slots |-> IF i \in Marked(p) THEN Unused ELSE @[i]]]
  /\ placed' = placed \ {n}

(* delete_file with delete_file_by_dir_cluster *)
DeleteFile(n) == DropEntry(n)

(* delete_dir with delete_dir_by_parent_cluster *)
DeleteDir(n) == DropEntry(n)

-----------------------------------------------------------------------------
(* The owner of the next cluster, a file or another directory, writes its  *)
(* first sector: text, an entry, or the marks of a deletion.               *)
Elsewhere ==
  /\ \E b \in Beyond : slots' = [slots EXCEPT ![SectorPerCluster] = b]
  /\ UNCHANGED placed

-----------------------------------------------------------------------------
(* A directory as init_dir leaves it.                                      *)
DirInit ==
  /\ \E b \in Beyond :
       slots = [s \in Sectors |->
                  IF s = SectorPerCluster THEN b
                  ELSE [i \in Slots |-> IF s = 0 /\ i <= Dots THEN Dot ELSE End]]
  /\ placed = {}

DirNext == \/ \E n \in Names : \/ CreateFile(n) \/ CreateDir(n)
                            \/ DeleteFile(n) \/ DeleteDir(n)
           \/ Elsewhere

DirSpec == DirInit /\ [][DirNext]_dirVars

-----------------------------------------------------------------------------
DirTypeOK ==
  /\ slots \in [Sectors -> [Slots -> Slotted]]
  /\ placed \subseteq Names

(* The slots of the directory itself, and its end mark.  A directory that  *)
(* has been full once has none any more, deleted entries being marked as   *)
(* unused: from then on what lies behind it is read as part of it.         *)
Own == {p \in Place : p[1] < SectorPerCluster}
EndMarked == \E p \in Own : At(p) = End
Full == \A p \in Own : ~IsEmpty(At(p))

(* While the directory has an end mark a name is found if and only if it   *)
(* was created and not deleted since, whatever lies behind the directory:  *)
(* creating or deleting one name neither hides nor revives another.        *)
FoundIffPlaced == EndMarked => \A n \in Names : IsFileInDir(n) <=> n \in placed

(* Creating an entry does not make another one disappear.                  *)
CreateKeepsOthers ==
  [][\A n \in placed \cap placed' : IsFileInDir(n) => IsFileInDir(n)']_dirVars

(* While the directory has an end mark its slots are those of the names in *)
(* it: deleting leaves no part of an entry behind, so the space comes back *)
(* in full.                                                                *)
NoOrphans ==
  EndMarked =>
    Cardinality({p \in Own : At(p).kind \in {"long", "short"}}) =
      Cardinality(UNION {{n} \X (0..Lfn[n]) : n \in placed})

(* When the sector behind the directory changes its owner has written it,  *)
(* or an entry was created while none of the directory's own slots was     *)
(* free, or one deleted after its end mark was gone: whatever the order of *)
(* creating and deleting, the directory's own slots are used up first.     *)
OutsideUntouched ==
  [][\/ slots'[SectorPerCluster] = slots[SectorPerCluster]
     \/ Elsewhere
     \/ Full /\ \E n \in Names : CreateFile(n) \/ CreateDir(n)
     \/ ~EndMarked /\ \E n \in Names : DeleteFile(n) \/ DeleteDir(n)]_dirVars

(* The end mark goes only with the last free slot.                         *)
MarkedUntilFull == [][EndMarked /\ ~EndMarked' => Full']_dirVars
=============================================================================
