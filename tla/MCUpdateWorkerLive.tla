------------------------- MODULE MCUpdateWorkerLive -------------------------
(***************************************************************************)
(* Instances of UpdateWorker with two zips, one of them in the update      *)
(* directory, for the liveness properties.                                 *)
(***************************************************************************)
EXTENDS UpdateWorker

CONSTANTS deb, note

LiveFiles == {deb, note}

LiveKind == [f \in LiveFiles |-> IF f = deb THEN "deb" ELSE "ignored"]

SecondZipInDir == [z \in 1 .. 2 |-> IF z = 2 THEN 3 ELSE 0]
=============================================================================
