----------------------------- MODULE ThreadPool -----------------------------
(***************************************************************************)
(* The cached thread pool of magiskd and zygiskd (native/src/core/         *)
(* thread.cpp).  One submitting thread (the poll loop, or the accept loop  *)
(* of zygiskd) hands tasks to worker threads through one pending_task slot *)
(* guarded by a mutex and two condition variables:                         *)
(*   send_task  the submitter tells an idle worker that a task is pending; *)
(*   recv_task  the worker tells the submitter that it took the task.      *)
(*                                                                         *)
(* Every access to the shared state is made with the mutex held, so the    *)
(* code between taking the mutex and releasing it (by unlocking or by      *)
(* waiting on a condition) is one action.  A thread inside                 *)
(* pthread_cond_wait is in a wait set until it is signalled, times out or  *)
(* wakes for no reason; only then does it compete for the mutex again.     *)
(***************************************************************************)
EXTENDS Integers, FiniteSets

CONSTANTS Tasks,            \* the closures handed to exec_task
          NoTask,           \* an empty function object
          Workers,          \* identities for worker threads
          CORE_POOL_SIZE    \* threads up to this number never retire

ASSUME PoolAssumption ==
    /\ NoTask \notin Tasks
    /\ IsFiniteSet(Workers)
    /\ CORE_POOL_SIZE \in Nat

VARIABLES
    main,       \* the submitter: "poll", "recv" (waiting), "woken"
    pc,         \* pc[w]: where worker w is in thread_pool_loop
    core,       \* core[w]: the is_core_pool argument of w
    local,      \* local[w]: local_task of w
    idle,       \* idle_threads
    total,      \* total_threads
    pending,    \* pending_task
    submitted,  \* tasks exec_task has been called with
    runs,       \* runs[t]: how often t has been completed
    child,      \* child[w]: the process forked by the task w is running
    early       \* has the wait on recv_task ever woken without a signal?

vars == <<main, pc, core, local, idle, total, pending, submitted, runs, child, early>>

\* "none" no such thread; "top" about to lock at the head of the loop; "wait"
\* in the wait set of send_task; "woken" or "timedout" out of it and not yet
\* holding the mutex again; "run" executing local_task.
WorkerStates == {"none", "top", "wait", "woken", "timedout", "run"}

ChildStates == {"none", "task", "loop", "exited"}

Idle == {w \in Workers : pc[w] \in {"wait", "woken", "timedout"}}
Alive == {w \in Workers : pc[w] # "none"}
Waiting == {w \in Workers : pc[w] = "wait"}

Init ==
    /\ main = "poll"
    /\ pc = [w \in Workers |-> "none"]
    /\ core = [w \in Workers |-> FALSE]
    /\ local = [w \in Workers |-> NoTask]
    /\ idle = 0
    /\ total = 0
    /\ pending = NoTask
    /\ submitted = {}
    /\ runs = [t \in Tasks |-> 0]
    /\ child = [w \in Workers |-> "none"]
    /\ early = FALSE

-----------------------------------------------------------------------------
(* The submitter. *)

\* new_daemon_thread(thread_pool_loop, is_core_pool) with idle_threads == 0.
SpawnWorker ==
    \E w \in Workers \ Alive :
        /\ total' = total + 1
        /\ pc' = [pc EXCEPT ![w] = "top"]
        /\ core' = [core EXCEPT ![w] = total' <= CORE_POOL_SIZE]
        /\ local' = [local EXCEPT ![w] = NoTask]

\* pthread_cond_signal(&send_task): one waiter leaves the wait set, if any.
SignalWorker ==
    /\ \/ \E w \in Waiting : pc' = [pc EXCEPT ![w] = "woken"]
       \/ Waiting = {} /\ UNCHANGED pc
    /\ UNCHANGED <<core, local, total>>

\* Variant: exec_task does not wait for the task to be taken.
ExecTaskNoWait(t) ==
    /\ main = "poll"
    /\ t \notin submitted
    /\ submitted' = submitted \cup {t}
    /\ pending' = t
    /\ \/ idle = 0 /\ SpawnWorker
       \/ idle # 0 /\ SignalWorker
    /\ UNCHANGED <<main, idle, runs, child, early>>

\* exec_task up to the wait on recv_task.  The swap drops whatever task was
\* still in the slot.
ExecTask(t) ==
    /\ main = "poll"
    /\ t \notin submitted
    /\ submitted' = submitted \cup {t}
    /\ pending' = t
    /\ \/ idle = 0 /\ SpawnWorker
       \/ idle # 0 /\ SignalWorker
    /\ main' = "recv"
    /\ UNCHANGED <<idle, runs, child, early>>

\* The wait on recv_task is not in a loop: once awake, exec_task returns.
ExecTaskReturns ==
    /\ main = "woken"
    /\ main' = "poll"
    /\ UNCHANGED <<pc, core, local, idle, total, pending, submitted, runs, child, early>>

RecvSpuriousWakeup ==
    /\ main = "recv"
    /\ main' = "woken"
    /\ early' = TRUE
    /\ UNCHANGED <<pc, core, local, idle, total, pending, submitted, runs, child>>

-----------------------------------------------------------------------------
(* A worker. *)

\* Variant: the task is copied, not swapped out of the slot.
TakeTaskByCopy(w) ==
    /\ pending # NoTask
    /\ local' = [local EXCEPT ![w] = pending]
    /\ main' = IF main = "recv" THEN "woken" ELSE main
    /\ pc' = [pc EXCEPT ![w] = "run"]
    /\ UNCHANGED pending

\* Variant: the submitter is not told that the task was taken.
TakeTaskSilently(w) ==
    /\ pending # NoTask
    /\ local' = [local EXCEPT ![w] = pending]
    /\ pending' = NoTask
    /\ pc' = [pc EXCEPT ![w] = "run"]
    /\ UNCHANGED main

\* local_task.swap(pending_task); pthread_cond_signal(&recv_task)
TakeTask(w) ==
    /\ pending # NoTask
    /\ local' = [local EXCEPT ![w] = pending]
    /\ pending' = NoTask
    /\ main' = IF main = "recv" THEN "woken" ELSE main
    /\ pc' = [pc EXCEPT ![w] = "run"]

\* The head of the loop: idle_threads is raised, and lowered again at once
\* when a task is already pending.
LoopTop(w) ==
    /\ pc[w] = "top"
    /\ \/ TakeTask(w) /\ UNCHANGED idle
       \/ /\ pending = NoTask
          /\ idle' = idle + 1
          /\ pc' = [pc EXCEPT ![w] = "wait"]
          /\ UNCHANGED <<main, local, pending>>
    /\ UNCHANGED <<core, total, submitted, runs, child, early>>

\* Back from the wait without ETIMEDOUT.  With nothing pending the thread
\* goes round the loop again.
LoopWoken(w) ==
    /\ pc[w] = "woken"
    /\ idle' = idle - 1
    /\ \/ TakeTask(w)
       \/ /\ pending = NoTask
          /\ pc' = [pc EXCEPT ![w] = "top"]
          /\ UNCHANGED <<main, local, pending>>
    /\ UNCHANGED <<core, total, submitted, runs, child, early>>

SpuriousWakeup(w) ==
    /\ pc[w] = "wait"
    /\ pc' = [pc EXCEPT ![w] = "woken"]
    /\ UNCHANGED <<main, core, local, idle, total, pending, submitted, runs, child, early>>

\* THREAD_IDLE_MAX_SEC have passed: the thread leaves the wait set, but has
\* to take the mutex before timedwait can return ETIMEDOUT.
IdleTimeout(w) ==
    /\ pc[w] = "wait"
    /\ ~core[w]
    /\ pc' = [pc EXCEPT ![w] = "timedout"]
    /\ UNCHANGED <<main, core, local, idle, total, pending, submitted, runs, child, early>>

Retire(w) ==
    /\ pc[w] = "timedout"
    /\ idle' = idle - 1
    /\ total' = total - 1
    /\ pc' = [pc EXCEPT ![w] = "none"]
    /\ UNCHANGED <<main, core, local, pending, submitted, runs, child, early>>

TaskEnds(w) ==
    /\ pc[w] = "run"
    /\ runs' = [runs EXCEPT ![local[w]] = @ + 1]
    /\ local' = [local EXCEPT ![w] = NoTask]
    /\ pc' = [pc EXCEPT ![w] = "top"]
    /\ UNCHANGED <<main, core, idle, total, pending, submitted, child, early>>

-----------------------------------------------------------------------------
(* A task may fork.  In the child only the forking thread exists; it has    *)
(* become the main thread of a process whose pool was emptied by            *)
(* reset_pool, and it must not enter the pool loop when its task returns.   *)

TaskForks(w) ==
    /\ pc[w] = "run"
    /\ child[w] = "none"
    /\ child' = [child EXCEPT ![w] = "task"]
    /\ UNCHANGED <<main, pc, core, local, idle, total, pending, submitted, runs, early>>

\* getpid() == gettid() holds in the child, so it exits.
ChildTaskEnds(w) ==
    /\ child[w] = "task"
    /\ child' = [child EXCEPT ![w] = "exited"]
    /\ UNCHANGED <<main, pc, core, local, idle, total, pending, submitted, runs, early>>

-----------------------------------------------------------------------------
Submitter == ExecTaskReturns \/ RecvSpuriousWakeup \/ \E t \in Tasks : ExecTask(t)

\* What a worker does on its own, tasks aside.
PoolStep(w) == LoopTop(w) \/ LoopWoken(w) \/ Retire(w)

Worker(w) ==
    \/ PoolStep(w)
    \/ SpuriousWakeup(w)
    \/ IdleTimeout(w)
    \/ TaskEnds(w)
    \/ TaskForks(w)
    \/ ChildTaskEnds(w)

Next == Submitter \/ \E w \in Workers : Worker(w)

Spec == Init /\ [][Next]_vars

\* A thread that can take the mutex eventually does, and a thread that was
\* created eventually reaches its loop.  Nothing is assumed of the tasks: a
\* task may run for ever (a root shell does, for as long as it is open).
Fairness ==
    /\ WF_vars(ExecTaskReturns)
    /\ \A w \in Workers : WF_vars(PoolStep(w))

FairSpec == Spec /\ Fairness

-----------------------------------------------------------------------------
(* Properties. *)

TypeOK ==
    /\ main \in {"poll", "recv", "woken"}
    /\ pc \in [Workers -> WorkerStates]
    /\ core \in [Workers -> BOOLEAN]
    /\ local \in [Workers -> Tasks \cup {NoTask}]
    /\ idle \in Nat
    /\ total \in Nat
    /\ pending \in Tasks \cup {NoTask}
    /\ submitted \in SUBSET Tasks
    /\ runs \in [Tasks -> Nat]
    /\ child \in [Workers -> ChildStates]
    /\ early \in BOOLEAN

\* Where the tasks handed to exec_task are.
Held == {w \in Workers : local[w] # NoTask}
Completed == {t \in Tasks : runs[t] > 0}

\* Every task handed to exec_task is still in the slot, held by a worker, or
\* finished: as long as exec_task wakes only when it is signalled, its swap
\* never overwrites a task nobody has taken.
NoTaskDropped ==
    ~early => submitted = ({pending} \ {NoTask}) \cup {local[w] : w \in Held} \cup Completed

\* No task is run twice, by two workers or by one worker again: it leaves the
\* slot when it is taken, also when exec_task had returned too early.
RunOnce ==
    /\ \A w \in Held : local[w] # pending /\ runs[local[w]] = 0
    /\ \A v, w \in Held : local[v] = local[w] => v = w
    /\ pending # NoTask => runs[pending] = 0
    /\ \A t \in Tasks : runs[t] <= 1

\* idle_threads and total_threads agree with the threads there are, whatever
\* way each thread left its wait (signal, time-out, spurious wake-up).
CountsMatch ==
    /\ idle = Cardinality(Idle)
    /\ total = Cardinality(Alive)

\* The task in the slot was signalled to a thread that had already timed out:
\* every thread is retiring, or busy with a task that may never end.
Stranded == pending # NoTask /\ \A w \in Workers : pc[w] \in {"none", "timedout", "run"}

\* exec_task returns, and the poll loop goes on serving clients, even when no
\* task that is running ever ends.  The one way to block it is a thread that
\* retires over the task it was meant to take.
ExecReturns == main = "recv" ~> main = "poll" \/ Stranded

\* The refinement mapping: how far a task has come.
StageOf(t) ==
    IF runs[t] > 0 THEN "done"
    ELSE IF \E w \in Workers : local[w] = t THEN "running"
    ELSE IF pending = t THEN "queued"
    ELSE IF t \in submitted THEN "dropped" ELSE "new"

Handoff == INSTANCE TaskHandoff WITH stage <- [t \in Tasks |-> StageOf(t)], lossy <- early

\* The pool implements the hand-off it promises: each step of its threads
\* hands over, takes or finishes one task, or is not seen by the callers.
HandsOff == Handoff!HandoffSpec
=============================================================================
