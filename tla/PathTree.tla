------------------------------ MODULE PathTree ------------------------------
(***************************************************************************)
(* What the directory tree of WavOS promises to its clients: a set of      *)
(* directories and files, each known by its path from the root, and a      *)
(* working directory.  An operation takes effect at once, at the path the  *)
(* client named, or, if the machine stops, not at all; that is promised    *)
(* until the implementation goes wild.  FatTree implements it with         *)
(* clusters, entries and several disk writes for one operation.            *)
(***************************************************************************)
EXTENDS Sequences, SequencesExt

CONSTANT Names   \* names of files and directories

VARIABLES
  dirs,  \* paths of directories
  files, \* paths of files
  cwd,   \* path of the working directory
  named, \* the path the operation in progress is about
  wild   \* nothing is promised any more

Paths == Seq(Names)
tree == <<dirs, files>>

Init == dirs = {<<>>} /\ files = {} /\ cwd = <<>> /\ named = <<>> /\ wild = FALSE

New == /\ named # <<>> /\ Front(named) \in dirs
       /\ named \notin dirs \cup files

MakeFile == New /\ files' = files \cup {named} /\ UNCHANGED <<dirs, cwd>>

MakeDir == New /\ dirs' = dirs \cup {named} /\ UNCHANGED <<files, cwd>>

(* What is removed, and everything below it.                               *)
Without(paths) == {p \in paths : ~IsPrefix(named, p)}

RemoveTree ==
  /\ named # <<>> /\ named \in dirs \cup files
  /\ dirs' = Without(dirs) /\ files' = Without(files)
  /\ UNCHANGED cwd

Cd == cwd' \in dirs /\ UNCHANGED tree

Restart == cwd' = <<>> /\ UNCHANGED tree

(* What is named next is up to the client.                                 *)
Next ==
  /\ named' \in Paths /\ (wild => wild')
  /\ \/ UNCHANGED <<tree, cwd>>
     \/ MakeFile \/ MakeDir \/ RemoveTree \/ Cd \/ Restart
     \/ wild'

Spec == Init /\ [][Next]_<<tree, cwd, named, wild>>
=============================================================================
