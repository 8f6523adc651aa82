--------------------------------- MODULE CobsMC ---------------------------------
(* A small instance of Cobs. *)
EXTENDS Cobs, SequencesExt

MCPackets == BoundedSeq({0, 1, 3}, 6)
MCDamaged == BoundedSeq({1, 2, Run}, 3)
=============================================================================
