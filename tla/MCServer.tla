------------------------------ MODULE MCServer ------------------------------
(* Two clients, lines shorter and longer than the server takes, for TLC. *)
EXTENDS Server

MCScripts == { <<Tell(5), Ask(1)>>, <<Ask(2), Tell(3)>> }
=============================================================================
