------------------------------- MODULE MCFuse -------------------------------
(***************************************************************************)
(* A small instance of Fuse: a directory with a file in it.                *)
(***************************************************************************)
EXTENDS Fuse, TLC

CONSTANTS n1, n2, i1, i2

SmallTree ==
    <<>>       :> [ino |-> ROOT_INODE, is_dir |-> TRUE] @@
    <<n1>>     :> [ino |-> i1, is_dir |-> TRUE] @@
    <<n1, n2>> :> [ino |-> i2, is_dir |-> FALSE]

=============================================================================
