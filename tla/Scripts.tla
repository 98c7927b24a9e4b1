------------------------------ MODULE Scripts ------------------------------
(***************************************************************************)
(* The scripts of the post-fs-data stage: native/src/core/scripting.cpp,   *)
(* exec_common_scripts and then exec_module_scripts.  For each of the two  *)
(* the daemon forks a runner and waits for it; the runner forks a timer,   *)
(* then starts the scripts one by one and waits, after each, for any child *)
(* of its own.                                                             *)
(*                                                                         *)
(* Time is a number; it passes while the runner sleeps in waitpid, and     *)
(* what is not sleep takes none.                                           *)
(***************************************************************************)
EXTENDS Integers, Sequences

CONSTANTS MaxTime,       \* POST_FS_DATA_SCRIPT_MAX_TIME
          Plans,         \* the scripts of a stage: sequences of durations
          Lag            \* bound on the time between the two stages

ASSUME ScriptConstants ==
  MaxTime \in Nat /\ Lag \in Nat /\ \A p \in Plans : p \in Seq(Nat)

VARIABLES clock, pfs_timeout, scripts, stage, runner, started, blocked, noFork

scriptVars == <<clock, pfs_timeout, scripts, stage, runner, started, blocked, noFork>>

ScriptStages == {"common", "module"}
\* The runner: when its timer ends (-1: none to wait for), the next script.
Runner(pc, timer, next) == [pc |-> pc, timer |-> timer, next |-> next]
Plan == scripts[stage]
AfterStage == IF stage = "common" THEN "between" ELSE "done"

\* A started script is [stage, n, begins, ends].
Ended(s) == s.ends <= clock

----------------------------------------------------------------------------
\* PFS_SETUP with the deadline t: without a runner the stage is over at once,
\* without a timer nothing is waited for.
Setup(t) ==
  \/ /\ runner' = Runner("exec", t, 1)
     /\ UNCHANGED <<stage, noFork>>
  \/ /\ runner' = Runner("exec", -1, 1)
     /\ noFork' = TRUE /\ UNCHANGED stage
  \/ stage' = AfterStage /\ noFork' = TRUE /\ UNCHANGED runner

\* exec_common_scripts up to PFS_SETUP: no directory, or the one deadline.
StartCommon ==
  /\ stage = "common" /\ runner.pc = "idle"
  /\ \/ /\ scripts["common"] = <<>>
        /\ stage' = AfterStage /\ UNCHANGED <<pfs_timeout, runner, noFork>>
     \/ pfs_timeout' = clock + MaxTime /\ Setup(clock + MaxTime)
  /\ UNCHANGED <<clock, scripts, started, blocked>>

\* Mutant: the modules' scripts get a deadline of their own.
StartModuleAnew ==
  /\ stage = "module" /\ runner.pc = "idle"
  /\ Setup(clock + MaxTime)
  /\ UNCHANGED <<clock, pfs_timeout, scripts, started, blocked>>

\* exec_module_scripts up to PFS_SETUP: past the deadline nothing blocks.
StartModule ==
  /\ stage = "module" /\ runner.pc = "idle"
  /\ IF clock <= pfs_timeout THEN Setup(pfs_timeout)
     ELSE /\ runner' = Runner("exec", -1, 1)
          /\ UNCHANGED <<stage, noFork>>
  /\ UNCHANGED <<clock, pfs_timeout, scripts, started, blocked>>

\* exec_command, whose fork may fail, then PFS_WAIT: no wait when the time
\* has run out.
RunScript ==
  /\ runner.pc = "exec" /\ runner.next <= Len(Plan)
  /\ \/ /\ started' = started \cup {[stage |-> stage, n |-> runner.next, begins |-> clock,
                                     ends |-> clock + Plan[runner.next]]}
        /\ noFork' = noFork
     \/ started' = started /\ noFork' = TRUE
  /\ runner' = Runner(IF runner.timer >= 0 THEN "wait" ELSE "exec", runner.timer, runner.next + 1)
  /\ UNCHANGED <<clock, pfs_timeout, scripts, stage, blocked>>

\* The script the runner has as a child besides the timer, if its fork succeeded.
Waited == {s \in started : s.stage = stage /\ s.n = runner.next - 1}

\* waitpid(-1): the script or the timer, whichever is over; either if both.
WaitScript ==
  /\ runner.pc = "wait" /\ \E s \in Waited : Ended(s)
  /\ runner' = Runner("exec", runner.timer, runner.next)
  /\ UNCHANGED <<clock, pfs_timeout, scripts, stage, started, blocked, noFork>>

WaitTimer ==
  /\ runner.pc = "wait" /\ clock >= runner.timer
  /\ runner' = Runner("exec", -1, runner.next)
  /\ UNCHANGED <<clock, pfs_timeout, scripts, stage, started, blocked, noFork>>

\* PFS_DONE: the timer is killed and the daemon goes on.
RunnerDone ==
  /\ runner.pc = "exec" /\ runner.next > Len(Plan)
  /\ runner' = Runner("idle", -1, 1) /\ stage' = AfterStage
  /\ UNCHANGED <<clock, pfs_timeout, scripts, started, blocked, noFork>>

\* What the daemon does between the two takes some time.
GoOn ==
  /\ stage = "between"
  /\ stage' = "module"
  /\ \E d \in 0..Lag : clock' = clock + d
  /\ UNCHANGED <<pfs_timeout, scripts, runner, started, blocked, noFork>>

\* The timer counts down while the runner, and with it the boot, waits.
SleepOn ==
  /\ runner.pc = "wait" /\ clock < runner.timer
  /\ \A s \in Waited : ~Ended(s)
  /\ clock' = clock + 1 /\ blocked' = blocked + 1
  /\ UNCHANGED <<pfs_timeout, scripts, stage, runner, started, noFork>>

ScriptInit ==
  /\ clock = 1 /\ pfs_timeout = 0 /\ blocked = 0 /\ started = {} /\ noFork = FALSE
  /\ scripts \in [ScriptStages -> Plans]
  /\ stage = "common" /\ runner = Runner("idle", -1, 1)

ScriptNext ==
  \/ StartCommon \/ StartModule \/ RunScript \/ WaitScript \/ WaitTimer \/ RunnerDone
  \/ GoOn \/ SleepOn

ScriptSpec == ScriptInit /\ [][ScriptNext]_scriptVars

----------------------------------------------------------------------------
(* The scripts of both stages together block the boot for no longer than   *)
(* the one deadline allows, whatever fork fails.  If none does: until the  *)
(* deadline has passed a script begins only when the one before it is      *)
(* over, and when the stage ends every script of the two has been started. *)
BlockedBounded ==
  /\ blocked <= MaxTime
  /\ ~noFork =>
       /\ \A s, t \in started :
            s.stage = t.stage /\ t.n = s.n + 1 /\ t.begins < pfs_timeout => s.ends <= t.begins
       /\ stage = "done" => \A g \in ScriptStages : \A n \in 1..Len(scripts[g]) :
                              \E s \in started : s.stage = g /\ s.n = n
=============================================================================
