------------------------------ MODULE FatEntry ------------------------------
(***************************************************************************)
(* The FAT as read_fat_entry and write_fat_entry address it                *)
(* (src/src/filesystem/fat.c): which sector, and which place in it, holds  *)
(* the entry of a cluster.  Both copies are addressed alike.               *)
(*                                                                         *)
(* SECTOR_TO_BYTE is the text SECTOR_SIZE / 4, without parentheses:        *)
(* dividing by it divides by SECTOR_SIZE and then by 4, while the          *)
(* remainder is written with parentheses and is taken modulo a quarter of  *)
(* SECTOR_SIZE.                                                            *)
(***************************************************************************)
EXTENDS Integers

CONSTANTS
  SECTOR_SIZE, \* 512, scaled
  MaxCluster   \* the highest cluster of the partition

ASSUME FatEntryAssumption ==
  /\ SECTOR_SIZE \in Nat /\ SECTOR_SIZE >= 8
  /\ MaxCluster \in Nat

Entries == 0..MaxCluster   \* indexes into the FAT; clusters start at 2
PerSector == SECTOR_SIZE \div 4

entrySector(c) == (c \div SECTOR_SIZE) \div 4
entryOffInSect(c) == c % PerSector

Place(c) == <<entrySector(c), entryOffInSect(c)>>
Places == (0..entrySector(MaxCluster)) \X (0..PerSector - 1)

(* A copy of the FAT, fat, with the value v of entry c.                    *)
read_fat_entry(fat, c) == fat[Place(c)]
write_fat_entry(fat, c, v) == [fat EXCEPT ![Place(c)] = v]
=============================================================================
