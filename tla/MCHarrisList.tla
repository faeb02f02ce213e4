---------------------------- MODULE MCHarrisList ----------------------------
(* Values for the constants of HarrisList that a configuration file cannot   *)
(* write.                                                                     *)
EXTENDS HarrisList, TLC

Symmetric == Permutations(Threads)

OneTwo == <<1, 2>>
=============================================================================
