---------------------------- MODULE MCSequencer ----------------------------
(***************************************************************************)
(* Sequencer with a few writer threads of a few calls each.                *)
(***************************************************************************)
EXTENDS Sequencer

CONSTANTS w1, w2, w3

=============================================================================
