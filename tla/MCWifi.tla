------------------------------- MODULE MCWifi -------------------------------
(* The Artosyn runtime alone, and the overrides with a little of it, for TLC. *)
EXTENDS Wifi

MCTxChanges == { {"mw"}, {"level"}, {"auto"} }
MCCandidates == <<"tuntap_bb", "openhd_artosyn_tuntap">>
MCNoCandidates == <<>>
=============================================================================
