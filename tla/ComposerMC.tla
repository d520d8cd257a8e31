----------------------------- MODULE ComposerMC -----------------------------
(* Two accounts, of which the first has the thread that is read.           *)
EXTENDS Composer, TLC
CONSTANTS a1, a2
=============================================================================
