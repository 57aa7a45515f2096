------------------------------ MODULE MCDiskFs ------------------------------
(***************************************************************************)
(* Small instances of DiskFs.  Neither names nor inode numbers matter but  *)
(* for being different.                                                    *)
(***************************************************************************)
EXTENDS DiskFs, TLC

Symmetry == Permutations(Names) \cup Permutations(Inodes)

=============================================================================
