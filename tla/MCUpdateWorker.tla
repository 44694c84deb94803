--------------------------- MODULE MCUpdateWorker ---------------------------
(***************************************************************************)
(* Instances of UpdateWorker for TLC: one zip that lies in one directory,  *)
(* and a payload of a .deb file, a binary and a file no stage applies.     *)
(***************************************************************************)
EXTENDS UpdateWorker

CONSTANTS deb, bin, stray

PayloadFiles == {deb, bin, stray}

KindOfFile == [f \in PayloadFiles |->
                 CASE f = deb -> "deb" [] f = bin -> "bin" [] f = stray -> "other"]

ZipInDir == [z \in 1 .. 1 |-> 2]
=============================================================================
