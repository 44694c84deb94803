----------------------------- MODULE MCSettings -----------------------------
(* The settings of both kinds of boards, for TLC. *)
EXTENDS Settings
=============================================================================
