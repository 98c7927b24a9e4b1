----------------------------- MODULE MCScripts -----------------------------
(* Stages of up to two scripts that end at once, in time or too late.    *)
EXTENDS Scripts, SequencesExt
MCPlans == SeqOf({0, 1, 2, 9}, 2)
=============================================================================
