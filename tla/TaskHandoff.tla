---------------------------- MODULE TaskHandoff ----------------------------
(***************************************************************************)
(* What exec_task promises its callers (native/src/core/thread.cpp), with  *)
(* no threads, no counters and no conditions: a task is handed over, taken *)
(* once and finished once.  There is room for one task that has not been   *)
(* taken; only once the submitter may have stopped waiting too early       *)
(* (lossy) can a second one push it out.                                   *)
(***************************************************************************)
CONSTANT Tasks

VARIABLES stage, lossy

handoffVars == <<stage, lossy>>

HandoffInit == stage = [t \in Tasks |-> "new"] /\ lossy = FALSE

HandOver(t) ==
    /\ stage[t] = "new"
    /\ lossy \/ \A u \in Tasks : stage[u] # "queued"
    /\ stage' = [u \in Tasks |-> IF u = t THEN "queued"
                                 ELSE IF stage[u] = "queued" THEN "dropped" ELSE stage[u]]
    /\ UNCHANGED lossy

Take(t) == stage[t] = "queued" /\ stage' = [stage EXCEPT ![t] = "running"] /\ UNCHANGED lossy
Finish(t) == stage[t] = "running" /\ stage' = [stage EXCEPT ![t] = "done"] /\ UNCHANGED lossy
StopWaiting == lossy' = TRUE /\ UNCHANGED stage

HandoffNext == StopWaiting \/ \E t \in Tasks : HandOver(t) \/ Take(t) \/ Finish(t)

HandoffSpec == HandoffInit /\ [][HandoffNext]_handoffVars
=============================================================================
