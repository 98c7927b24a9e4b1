---------------------------- MODULE MCBootStages ----------------------------
(* Instances of BootStages for TLC. *)
EXTENDS BootStages

CONSTANTS m1, m2

MCScene(ms, n, fail, torn) == [modules |-> ms, boots |-> n, dbMayFail |-> fail, torn |-> torn]

\* One module and three boots: one to change it, one to crash in, one to see the
\* result.  One zygisk module and four boots: two tries, safe mode and the boot
\* after it.  Both modules and two boots.
MCScenes ==
    { MCScene({m2}, 3, TRUE, FALSE), MCScene({m1}, 4, FALSE, TRUE),
      MCScene({m1, m2}, 2, FALSE, FALSE) }
=============================================================================
