-------------------------------- MODULE MCFiles --------------------------------
EXTENDS WorkspaceFiles, TLC

(* Inode numbers and writers are interchangeable, and no property tells    *)
(* them apart.                                                             *)
Interchangeable == Permutations(Inodes) \cup Permutations(Writers)
=============================================================================
