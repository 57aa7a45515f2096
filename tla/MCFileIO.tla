------------------------------- MODULE MCFileIO -------------------------------
(***************************************************************************)
(* Half a second before the epoch, and three and a half after it.          *)
(***************************************************************************)
EXTENDS FileIO

SomeTimes == {-1, 7}

===============================================================================
