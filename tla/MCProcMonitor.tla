--------------------------- MODULE MCProcMonitor ---------------------------
(* Instances of ProcMonitor for TLC. *)
EXTENDS ProcMonitor

MCScene(c, l, k, z, f, s, e) ==
    [count |-> c, modes |-> l, kinds |-> k, zygotes |-> z, forks |-> f, signals |-> s, events |-> e]

\* Two zygotes of which one is restarted; a process of each kind and a signal; two
\* processes one after the other or together; one with the id of a dead zygote.
MCScenes ==
    { MCScene(2, {FALSE}, {}, 3, 0, 0, 1), MCScene(1, BOOLEAN, Kinds, 1, 1, 1, 0),
      MCScene(1, {FALSE}, {"target", "other"}, 1, 2, 0, 0),
      MCScene(1, {TRUE}, {"target"}, 2, 1, 1, 1) }

\* One zygote.
MCZygote == { MCScene(1, BOOLEAN, {}, 1, 0, 0, 1) }
=============================================================================
