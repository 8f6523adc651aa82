-------------------------------- MODULE RadioMC --------------------------------
(* A small instance of Radio. *)
EXTENDS Radio

MCSequences == {TestSignal}
=============================================================================
