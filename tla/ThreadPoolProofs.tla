-------------------------- MODULE ThreadPoolProofs --------------------------
(***************************************************************************)
(* Proofs about ThreadPool, for any number of tasks and worker threads and *)
(* any CORE_POOL_SIZE.                                                     *)
(***************************************************************************)
EXTENDS ThreadPool, FiniteSetTheorems, TLAPS

\* Most leaves are first-order; the others cite SMT.
USE Zenon

\* The types without the sign of the counters, which only the counts give.
Types ==
    /\ main \in {"poll", "recv", "woken"}
    /\ pc \in [Workers -> WorkerStates]
    /\ core \in [Workers -> BOOLEAN]
    /\ local \in [Workers -> Tasks \cup {NoTask}]
    /\ idle \in Int
    /\ total \in Int
    /\ pending \in Tasks \cup {NoTask}
    /\ submitted \in SUBSET Tasks
    /\ runs \in [Tasks -> Nat]
    /\ child \in [Workers -> ChildStates]
    /\ early \in BOOLEAN

\* A worker holds a task exactly while it is executing it.
HoldsWhileRunning == \A w \in Workers : local[w] # NoTask <=> pc[w] = "run"

Structure == Types /\ HoldsWhileRunning

-----------------------------------------------------------------------------
\* The variables of the pool keep their types, and local_task is set exactly
\* while thread_pool_loop is running it.
LEMMA StructureInit == Init => Structure
<1>1. Init => early \in BOOLEAN
    BY Zenon DEF Init
<1> QED BY SMT, <1>1, PoolAssumption DEF Init, Structure, Types, HoldsWhileRunning, WorkerStates, ChildStates

\* Every step of the submitter and of a worker keeps the structure.
LEMMA StructureStep == Structure /\ [Next]_vars => Structure'
<1> SUFFICES ASSUME Structure, [Next]_vars
             PROVE  Structure'
    OBVIOUS
<1> USE PoolAssumption DEF Structure, Types, HoldsWhileRunning, WorkerStates, ChildStates
<1>1. ASSUME NEW t \in Tasks, ExecTask(t) PROVE Structure'
    <2>1. CASE idle = 0 /\ SpawnWorker
        BY SMT, <1>1, <2>1 DEF ExecTask, SpawnWorker, Alive
    <2>2. CASE idle # 0 /\ SignalWorker
        BY <1>1, <2>2 DEF ExecTask, SignalWorker, Waiting
    <2> QED BY <1>1, <2>1, <2>2 DEF ExecTask
<1>2. CASE ExecTaskReturns
    BY <1>2 DEF ExecTaskReturns
<1>3. CASE RecvSpuriousWakeup
    BY <1>3 DEF RecvSpuriousWakeup
<1>4. ASSUME NEW w \in Workers, LoopTop(w) PROVE Structure'
    BY SMT, <1>4 DEF LoopTop, TakeTask
<1>5. ASSUME NEW w \in Workers, LoopWoken(w) PROVE Structure'
    BY SMT, <1>5 DEF LoopWoken, TakeTask
<1>6. ASSUME NEW w \in Workers, Retire(w) PROVE Structure'
    BY SMT, <1>6 DEF Retire
<1>7. ASSUME NEW w \in Workers, SpuriousWakeup(w) PROVE Structure'
    BY <1>7 DEF SpuriousWakeup
<1>8. ASSUME NEW w \in Workers, IdleTimeout(w) PROVE Structure'
    BY <1>8 DEF IdleTimeout
<1>9. ASSUME NEW w \in Workers, TaskEnds(w) PROVE Structure'
    BY SMT, <1>9 DEF TaskEnds
<1>10. ASSUME NEW w \in Workers, TaskForks(w) PROVE Structure'
    BY <1>10 DEF TaskForks
<1>11. ASSUME NEW w \in Workers, ChildTaskEnds(w) PROVE Structure'
    BY <1>11 DEF ChildTaskEnds
<1>12. CASE UNCHANGED vars
    BY <1>12 DEF vars
<1> QED
    BY <1>1, <1>2, <1>3, <1>4, <1>5, <1>6, <1>7, <1>8, <1>9, <1>10, <1>11, <1>12
    DEF Next, Submitter, Worker, PoolStep

THEOREM StructureInvariant == Spec => []Structure
BY StructureInit, StructureStep, PTL DEF Spec

-----------------------------------------------------------------------------
(* The counters. *)

\* Subsets of the workers are finite, and so have a cardinality.
LEMMA WorkerSets ==
    ASSUME NEW S \in SUBSET Workers
    PROVE  IsFiniteSet(S) /\ Cardinality(S) \in Nat
BY PoolAssumption, FS_Subset, FS_CardinalityType

\* idle_threads and total_threads start at zero with no thread.
LEMMA CountsInit == Init => CountsMatch
BY FS_EmptySet DEF Init, CountsMatch, Idle, Alive

\* Every step moves a thread into or out of the idle or the live threads
\* together with the counter.
LEMMA CountsStep == Structure /\ CountsMatch /\ [Next]_vars => CountsMatch'
<1> SUFFICES ASSUME Structure, CountsMatch, [Next]_vars
             PROVE  CountsMatch'
    OBVIOUS
<1> USE DEF Structure, Types, WorkerStates, CountsMatch
<1>0. /\ IsFiniteSet(Idle) /\ Cardinality(Idle) \in Nat
      /\ IsFiniteSet(Alive) /\ Cardinality(Alive) \in Nat
    BY WorkerSets DEF Idle, Alive
<1>1. ASSUME NEW t \in Tasks, ExecTask(t) PROVE CountsMatch'
    <2>1. CASE idle = 0 /\ SpawnWorker
        <3>1. PICK w \in Workers \ Alive : pc' = [pc EXCEPT ![w] = "top"] /\ total' = total + 1
            BY <2>1 DEF SpawnWorker
        <3>2. Idle' = Idle /\ Alive' = Alive \cup {w}
            BY <3>1 DEF Idle, Alive
        <3> QED BY <1>0, <1>1, <3>1, <3>2, FS_AddElement DEF ExecTask
    <2>2. CASE idle # 0 /\ SignalWorker
        <3>1. Idle' = Idle /\ Alive' = Alive
            BY <2>2 DEF SignalWorker, Idle, Alive, Waiting
        <3> QED BY <1>1, <2>2, <3>1 DEF ExecTask, SignalWorker
    <2> QED BY <1>1, <2>1, <2>2 DEF ExecTask
<1>2. CASE ExecTaskReturns
    BY <1>2 DEF ExecTaskReturns, Idle, Alive
<1>3. CASE RecvSpuriousWakeup
    BY <1>3 DEF RecvSpuriousWakeup, Idle, Alive
<1>4. ASSUME NEW w \in Workers, LoopTop(w) PROVE CountsMatch'
    <2>1. CASE TakeTask(w) /\ UNCHANGED idle
        <3>1. Idle' = Idle /\ Alive' = Alive
            BY <1>4, <2>1 DEF LoopTop, TakeTask, Idle, Alive
        <3> QED BY <1>4, <2>1, <3>1 DEF LoopTop
    <2>2. CASE pc' = [pc EXCEPT ![w] = "wait"] /\ idle' = idle + 1
        <3>1. Idle' = Idle \cup {w} /\ w \notin Idle /\ Alive' = Alive
            BY <1>4, <2>2 DEF LoopTop, Idle, Alive
        <3> QED BY <1>0, <1>4, <2>2, <3>1, FS_AddElement DEF LoopTop
    <2> QED BY <1>4, <2>1, <2>2 DEF LoopTop
<1>5. ASSUME NEW w \in Workers, LoopWoken(w) PROVE CountsMatch'
    <2>1. Idle' = Idle \ {w} /\ w \in Idle /\ Alive' = Alive
        BY <1>5 DEF LoopWoken, TakeTask, Idle, Alive
    <2> QED BY <1>0, <1>5, <2>1, FS_RemoveElement DEF LoopWoken
<1>6. ASSUME NEW w \in Workers, Retire(w) PROVE CountsMatch'
    <2>1. /\ Idle' = Idle \ {w} /\ w \in Idle
          /\ Alive' = Alive \ {w} /\ w \in Alive
        BY <1>6 DEF Retire, Idle, Alive
    <2> QED BY <1>0, <1>6, <2>1, FS_RemoveElement DEF Retire
<1>7. ASSUME NEW w \in Workers, SpuriousWakeup(w) \/ IdleTimeout(w) PROVE CountsMatch'
    <2>1. Idle' = Idle /\ Alive' = Alive
        BY <1>7 DEF SpuriousWakeup, IdleTimeout, Idle, Alive
    <2> QED BY <1>7, <2>1 DEF SpuriousWakeup, IdleTimeout
<1>8. ASSUME NEW w \in Workers, TaskEnds(w) PROVE CountsMatch'
    <2>1. Idle' = Idle /\ Alive' = Alive
        BY <1>8 DEF TaskEnds, Idle, Alive
    <2> QED BY <1>8, <2>1 DEF TaskEnds
<1>9. ASSUME NEW w \in Workers, TaskForks(w) \/ ChildTaskEnds(w) PROVE CountsMatch'
    BY <1>9 DEF TaskForks, ChildTaskEnds, Idle, Alive
<1>10. CASE UNCHANGED vars
    BY <1>10 DEF vars, Idle, Alive
<1> QED
    BY <1>1, <1>2, <1>3, <1>4, <1>5, <1>6, <1>7, <1>8, <1>9, <1>10
    DEF Next, Submitter, Worker, PoolStep

\* idle_threads and total_threads always agree with the threads there are,
\* for any pool, whichever way each thread leaves its wait.
THEOREM CountsCorrect == Spec => []CountsMatch
<1>1. Init => Structure /\ CountsMatch
    BY StructureInit, CountsInit
<1>2. (Structure /\ CountsMatch) /\ [Next]_vars => (Structure /\ CountsMatch)'
    BY StructureStep, CountsStep
<1> QED BY <1>1, <1>2, PTL DEF Spec

\* The type invariant: with the counts, neither counter is ever negative.
THEOREM TypeCorrect == Spec => []TypeOK
<1>1. Structure /\ CountsMatch => TypeOK
    <2> SUFFICES ASSUME Structure, CountsMatch PROVE TypeOK
        OBVIOUS
    <2>1. Cardinality(Idle) \in Nat /\ Cardinality(Alive) \in Nat
        BY WorkerSets DEF Idle, Alive
    <2> QED BY <2>1 DEF Structure, Types, CountsMatch, TypeOK
<1> QED BY <1>1, StructureInvariant, CountsCorrect, PTL

-----------------------------------------------------------------------------
(* Tasks. *)

\* What keeps a task from being run twice: a task the submitter has not
\* handed over is nowhere in the pool.
FreshTasks ==
    /\ pending \in submitted \cup {NoTask}
    /\ \A w \in Workers : local[w] \in submitted \cup {NoTask}
    /\ \A t \in Tasks : runs[t] > 0 => t \in submitted

OnceInv == Structure /\ FreshTasks /\ RunOnce

\* Every step keeps each task in at most one place.
LEMMA OnceStep == OnceInv /\ [Next]_vars => OnceInv'
<1> SUFFICES ASSUME OnceInv, [Next]_vars
             PROVE  (FreshTasks /\ RunOnce)'
    BY StructureStep DEF OnceInv
<1> USE PoolAssumption
    DEF OnceInv, Structure, Types, HoldsWhileRunning, FreshTasks, RunOnce, Held
<1>1. ASSUME NEW t \in Tasks, ExecTask(t) PROVE (FreshTasks /\ RunOnce)'
    <2>1. CASE idle = 0 /\ SpawnWorker
        BY SMT, <1>1, <2>1 DEF ExecTask, SpawnWorker, Alive
    <2>2. CASE idle # 0 /\ SignalWorker
        BY SMT, <1>1, <2>2 DEF ExecTask, SignalWorker, Waiting
    <2> QED BY <1>1, <2>1, <2>2 DEF ExecTask
<1>2. CASE ExecTaskReturns
    BY <1>2 DEF ExecTaskReturns
<1>3. CASE RecvSpuriousWakeup
    BY <1>3 DEF RecvSpuriousWakeup
<1>4. ASSUME NEW w \in Workers, LoopTop(w) PROVE (FreshTasks /\ RunOnce)'
    BY SMT, <1>4 DEF LoopTop, TakeTask
<1>5. ASSUME NEW w \in Workers, LoopWoken(w) PROVE (FreshTasks /\ RunOnce)'
    BY SMT, <1>5 DEF LoopWoken, TakeTask
<1>6. ASSUME NEW w \in Workers, Retire(w) PROVE (FreshTasks /\ RunOnce)'
    BY <1>6 DEF Retire
<1>7. ASSUME NEW w \in Workers, SpuriousWakeup(w) \/ IdleTimeout(w)
      PROVE (FreshTasks /\ RunOnce)'
    BY <1>7 DEF SpuriousWakeup, IdleTimeout
<1>8. ASSUME NEW w \in Workers, TaskEnds(w) PROVE (FreshTasks /\ RunOnce)'
    BY SMT, <1>8 DEF TaskEnds
<1>9. ASSUME NEW w \in Workers, TaskForks(w) \/ ChildTaskEnds(w)
      PROVE (FreshTasks /\ RunOnce)'
    BY <1>9 DEF TaskForks, ChildTaskEnds
<1>10. CASE UNCHANGED vars
    BY <1>10 DEF vars
<1> QED
    BY <1>1, <1>2, <1>3, <1>4, <1>5, <1>6, <1>7, <1>8, <1>9, <1>10
    DEF Next, Submitter, Worker, PoolStep

\* No task handed to exec_task is run twice, even when the wait on recv_task
\* wakes spuriously and exec_task returns too early.
THEOREM TasksRunOnce == Spec => []RunOnce
<1>1. Init => OnceInv
    BY SMT, StructureInit DEF Init, OnceInv, FreshTasks, RunOnce, Held
<1>2. OnceInv => RunOnce
    BY DEF OnceInv
<1> QED BY <1>1, <1>2, OnceStep, PTL DEF Spec
-----------------------------------------------------------------------------
(* No task is dropped. *)

\* Where a task can be, one task at a time.
Somewhere(t) ==
    \/ t = pending
    \/ \E w \in Workers : local[w] = t
    \/ runs[t] > 0

\* As long as exec_task wakes only when signalled, it is still waiting while
\* its task is in the slot, so the slot is empty when the next task comes.
HandOff ==
    ~early => /\ pending # NoTask => main = "recv"
              /\ pending \in submitted \cup {NoTask}
              /\ \A t \in Tasks : t \in submitted <=> Somewhere(t)

\* HandOff says what NoTaskDropped says, element by element.
LEMMA HandOffSuffices == Structure /\ HandOff => NoTaskDropped
<1> SUFFICES ASSUME Structure, HandOff, ~early
             PROVE  submitted = ({pending} \ {NoTask}) \cup {local[w] : w \in Held} \cup Completed
    BY DEF NoTaskDropped
<1> DEFINE Places == ({pending} \ {NoTask}) \cup {local[w] : w \in Held} \cup Completed
<1>1. Places \subseteq Tasks /\ submitted \subseteq Tasks
    BY DEF Structure, Types, Held, Completed
<1>2. ASSUME NEW t \in Tasks PROVE t \in Places <=> Somewhere(t)
    BY PoolAssumption, <1>2 DEF Structure, Types, Held, Completed, Somewhere
<1>3. \A t \in Tasks : t \in submitted <=> t \in Places
    BY <1>2 DEF HandOff
<1> QED BY <1>1, <1>3

\* Every step of the pool keeps a task that was handed over in sight.
LEMMA HandOffStep == Structure /\ HandOff /\ [Next]_vars => HandOff'
<1> SUFFICES ASSUME Structure, HandOff, [Next]_vars, ~early'
             PROVE  HandOff'
    BY DEF HandOff
<1>0. ~early
    BY DEF Next, Submitter, Worker, PoolStep, ExecTask, ExecTaskReturns, RecvSpuriousWakeup,
           LoopTop, LoopWoken, Retire, SpuriousWakeup, IdleTimeout, TaskEnds, TaskForks,
           ChildTaskEnds, vars, Structure, Types
<1> USE <1>0, PoolAssumption DEF Structure, Types, HoldsWhileRunning, HandOff, Somewhere
<1>1. ASSUME NEW t \in Tasks, ExecTask(t) PROVE HandOff'
    <2>0. pending = NoTask
        BY <1>1 DEF ExecTask
    <2>1. CASE idle = 0 /\ SpawnWorker
        BY <1>1, <2>0, <2>1 DEF ExecTask, SpawnWorker, Alive, WorkerStates
    <2>2. CASE idle # 0 /\ SignalWorker
        BY <1>1, <2>0, <2>2 DEF ExecTask, SignalWorker
    <2> QED BY <1>1, <2>1, <2>2 DEF ExecTask
<1>2. CASE ExecTaskReturns
    BY <1>2 DEF ExecTaskReturns
<1>3. ASSUME NEW w \in Workers, TakeTask(w), local[w] = NoTask,
             UNCHANGED <<submitted, runs, early>>
      PROVE  HandOff'
    BY <1>3 DEF TakeTask
<1>4. ASSUME NEW w \in Workers, LoopTop(w) PROVE HandOff'
    BY <1>3, <1>4 DEF LoopTop
<1>5. ASSUME NEW w \in Workers, LoopWoken(w) PROVE HandOff'
    BY <1>3, <1>5 DEF LoopWoken
<1>6. ASSUME NEW w \in Workers, Retire(w) PROVE HandOff'
    BY <1>6 DEF Retire
<1>7. ASSUME NEW w \in Workers, SpuriousWakeup(w) \/ IdleTimeout(w) PROVE HandOff'
    BY <1>7 DEF SpuriousWakeup, IdleTimeout
<1>8. ASSUME NEW w \in Workers, TaskEnds(w) PROVE HandOff'
    BY SMT, <1>8 DEF TaskEnds
<1>9. ASSUME NEW w \in Workers, TaskForks(w) \/ ChildTaskEnds(w) PROVE HandOff'
    BY <1>9 DEF TaskForks, ChildTaskEnds
<1>10. CASE UNCHANGED vars
    BY <1>10 DEF vars
<1>11. CASE RecvSpuriousWakeup
    BY <1>11 DEF RecvSpuriousWakeup
<1> QED
    BY <1>1, <1>2, <1>4, <1>5, <1>6, <1>7, <1>8, <1>9, <1>10, <1>11
    DEF Next, Submitter, Worker, PoolStep

\* No task handed to exec_task is lost from the slot as long as the wait on
\* recv_task wakes only when a worker signals it.
THEOREM NoTaskLost == Spec => []NoTaskDropped
<1>1. Init => HandOff
    BY SMT, PoolAssumption DEF Init, HandOff, Somewhere
<1>2. Structure /\ HandOff => NoTaskDropped
    BY HandOffSuffices
<1> QED BY <1>1, <1>2, StructureInit, StructureStep, HandOffStep, PTL DEF Spec

-----------------------------------------------------------------------------
(* The thread pool implements TaskHandoff: every step of the pool is a step  *)
(* of the hand-off, or leaves all that the hand-off speaks of unchanged.     *)

\* What the steps rest on: each task in one place, and an empty slot when
\* exec_task is called, as long as no wait ended early.
PoolInv == OnceInv /\ HandOff

\* It holds of the pool as thread.cpp sets it up.
LEMMA PoolInvInit == Init => PoolInv
BY SMT, StructureInit, PoolAssumption
DEF Init, PoolInv, OnceInv, FreshTasks, RunOnce, Held, HandOff, Somewhere

\* Every step of exec_task and of the workers keeps it.
LEMMA PoolInvStep == PoolInv /\ [Next]_vars => PoolInv'
BY OnceStep, HandOffStep DEF PoolInv, OnceInv

\* A step that moves no task is a step no caller sees.
LEMMA StageUnchanged ==
    ASSUME UNCHANGED <<runs, local, pending, submitted, early>>
    PROVE  UNCHANGED Handoff!handoffVars
<1>1. \A t \in Tasks : StageOf(t)' = StageOf(t)
    BY DEF StageOf
<1> QED BY <1>1 DEF Handoff!handoffVars

\* exec_task hands over the task, and pushes out another only when lossy.
LEMMA ExecHandsOver ==
    ASSUME PoolInv, NEW t \in Tasks, ExecTask(t)
    PROVE  Handoff!HandOver(t)
<1> USE PoolAssumption DEF PoolInv, OnceInv, Structure, Types
<1>1. /\ pending' = t /\ submitted' = submitted \cup {t} /\ t \notin submitted
      /\ UNCHANGED <<runs, early>>
    BY DEF ExecTask
<1>2. \A u \in Tasks : (\E w \in Workers : local'[w] = u) <=> (\E w \in Workers : local[w] = u)
    <2>1. CASE idle = 0 /\ SpawnWorker
        BY <2>1 DEF SpawnWorker, Alive, HoldsWhileRunning
    <2>2. CASE idle # 0 /\ SignalWorker
        BY <2>2 DEF SignalWorker
    <2> QED BY <2>1, <2>2 DEF ExecTask
<1>3. StageOf(t) = "new"
    BY <1>1 DEF StageOf, FreshTasks
<1>4. early \/ \A u \in Tasks : StageOf(u) # "queued"
    BY DEF ExecTask, HandOff, StageOf
<1>5. StageOf(t)' = "queued"
    BY <1>1, <1>2, <1>3 DEF StageOf, FreshTasks
<1>6. ASSUME NEW u \in Tasks, u # t
      PROVE  StageOf(u)' = IF StageOf(u) = "queued" THEN "dropped" ELSE StageOf(u)
    BY SMT, <1>1, <1>2, <1>6 DEF StageOf, FreshTasks
<1> QED BY <1>1, <1>3, <1>4, <1>5, <1>6 DEF Handoff!HandOver

\* The worker that takes the task out of the slot takes it for all.
LEMMA WorkerTakes ==
    ASSUME PoolInv, NEW w \in Workers, TakeTask(w), local[w] = NoTask,
           UNCHANGED <<submitted, runs, early>>
    PROVE  pending \in Tasks /\ Handoff!Take(pending)
<1> USE PoolAssumption DEF PoolInv, OnceInv, Structure, Types
<1>1. pending \in Tasks /\ pending' = NoTask /\ local' = [local EXCEPT ![w] = pending]
    BY DEF TakeTask
<1>2. StageOf(pending) = "queued"
    BY SMT, <1>1 DEF StageOf, RunOnce, Held
<1>3. \A u \in Tasks : StageOf(u)' = IF u = pending THEN "running" ELSE StageOf(u)
    BY <1>1, <1>2 DEF StageOf
<1> QED BY <1>1, <1>2, <1>3 DEF Handoff!Take

\* A task that returns is finished.
LEMMA WorkerFinishes ==
    ASSUME PoolInv, NEW w \in Workers, TaskEnds(w)
    PROVE  local[w] \in Tasks /\ Handoff!Finish(local[w])
<1> USE PoolAssumption DEF PoolInv, OnceInv, Structure, Types, HoldsWhileRunning
<1>1. /\ local[w] \in Tasks /\ w \in Held
      /\ runs' = [runs EXCEPT ![local[w]] = @ + 1]
      /\ local' = [local EXCEPT ![w] = NoTask]
      /\ UNCHANGED <<pending, submitted, early>>
    BY DEF TaskEnds, Held
<1>2. StageOf(local[w]) = "running"
    BY SMT, <1>1 DEF StageOf, RunOnce
<1>3. \A u \in Tasks : StageOf(u)' = IF u = local[w] THEN "done" ELSE StageOf(u)
    BY SMT, <1>1 DEF StageOf
<1> QED BY <1>1, <1>2, <1>3 DEF Handoff!Finish

\* Every step of the pool is a step of the hand-off or is not seen.
LEMMA PoolStepHandsOff ==
    PoolInv /\ [Next]_vars => [Handoff!HandoffNext]_(Handoff!handoffVars)
<1> SUFFICES ASSUME PoolInv, [Next]_vars
             PROVE  Handoff!HandoffNext \/ UNCHANGED Handoff!handoffVars
    OBVIOUS
<1>1. ASSUME NEW t \in Tasks, ExecTask(t) PROVE Handoff!HandoffNext
    BY <1>1, ExecHandsOver DEF Handoff!HandoffNext
<1>2. CASE ExecTaskReturns
    BY <1>2, StageUnchanged DEF ExecTaskReturns
<1>3. CASE RecvSpuriousWakeup
    <2>1. \A t \in Tasks : StageOf(t)' = StageOf(t)
        BY <1>3 DEF RecvSpuriousWakeup, StageOf
    <2>2. early' = TRUE
        BY <1>3, Zenon DEF RecvSpuriousWakeup
    <2> QED BY <2>1, <2>2 DEF Handoff!HandoffNext, Handoff!StopWaiting
<1>4. ASSUME NEW w \in Workers, LoopTop(w) \/ LoopWoken(w)
      PROVE  Handoff!HandoffNext \/ UNCHANGED Handoff!handoffVars
    <2>1. CASE TakeTask(w)
        <3>1. local[w] = NoTask
            BY <1>4 DEF LoopTop, LoopWoken, PoolInv, OnceInv, Structure, HoldsWhileRunning
        <3>2. UNCHANGED <<submitted, runs, early>>
            BY <1>4 DEF LoopTop, LoopWoken
        <3> QED BY <2>1, <3>1, <3>2, WorkerTakes DEF Handoff!HandoffNext
    <2>2. CASE UNCHANGED <<local, pending>>
        BY <1>4, <2>2, StageUnchanged DEF LoopTop, LoopWoken
    <2> QED BY <1>4, <2>1, <2>2 DEF LoopTop, LoopWoken
<1>5. ASSUME NEW w \in Workers, TaskEnds(w) PROVE Handoff!HandoffNext
    BY <1>5, WorkerFinishes DEF Handoff!HandoffNext
<1>6. ASSUME NEW w \in Workers,
             Retire(w) \/ SpuriousWakeup(w) \/ IdleTimeout(w) \/ TaskForks(w) \/ ChildTaskEnds(w)
      PROVE  UNCHANGED Handoff!handoffVars
    BY <1>6, StageUnchanged DEF Retire, SpuriousWakeup, IdleTimeout, TaskForks, ChildTaskEnds
<1>7. CASE UNCHANGED vars
    BY <1>7, StageUnchanged DEF vars
<1> QED
    BY <1>1, <1>2, <1>3, <1>4, <1>5, <1>6, <1>7 DEF Next, Submitter, Worker, PoolStep

\* The pool of thread.cpp implements the hand-off that exec_task promises.
THEOREM PoolHandsOff == Spec => HandsOff
<1>1. Init => Handoff!HandoffInit
    <2>1. ASSUME Init PROVE \A t \in Tasks : StageOf(t) = "new"
        BY SMT, <2>1, PoolAssumption DEF Init, StageOf
    <2>2. Init => early = FALSE
        BY Zenon DEF Init
    <2> QED BY <2>1, <2>2 DEF Handoff!HandoffInit
<1> QED BY <1>1, PoolInvInit, PoolInvStep, PoolStepHandsOff, PTL
        DEF Spec, HandsOff, Handoff!HandoffSpec
=============================================================================
