------------------------------- MODULE Volume -------------------------------
(* What the boot sector says of the volume (bpb, src/include/filesystem/   *)
(* fat.h) and both FileData and FatDir go by.                              *)
EXTENDS Naturals

CONSTANT SectorPerCluster  \* bpb.sectorPerCluster

ASSUME VolumeAssumption == SectorPerCluster \in Nat \ {0}
=============================================================================
