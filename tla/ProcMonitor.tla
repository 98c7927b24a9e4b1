---------------------------- MODULE ProcMonitor ----------------------------
(***************************************************************************)
(* The process monitor of MagiskHide and SuList                            *)
(* (native/src/core/deny/ptrace.cpp, with revert_daemon and                *)
(* mount_magisk_to_pid of deny/revert.cpp): a thread of magiskd traces     *)
(* zygote, follows every process that it forks from system call to system  *)
(* call until it has a name, and then leaves it alone, or stops it while a *)
(* helper process changes its mounts.                                      *)
(*                                                                         *)
(* A forked process passes through "root" (uid 0), "uid" (its uid is set,  *)
(* it is still named like zygote), "pre" (it is named "<pre-initialized>"),*)
(* "named" and "run" (the code of the app).  A process id is used again    *)
(* after its process is gone.                                              *)
(*                                                                         *)
(* The monitor looks for zygotes only while su_bin_fd is open.  What opens *)
(* it is enable_mount_su of module_kitsune.cpp, which is not built; the    *)
(* definition that is (deny_wrappers.cpp) stays -1.                        *)
(***************************************************************************)
EXTENDS Naturals, FiniteSets

CONSTANTS Pids,         \* process ids
          None,         \* no process
          SuBinOpen,    \* su_bin_fd >= 0
          Scenes        \* how many zygotes a device has (count), whether SuList may be on,
                        \* and bounds: the kinds of processes, how many zygotes start,
                        \* forks, signals, file events

\* What a forked process may be: not on the list, a target, another process of a
\* listed app, a target without a mount namespace of its own, an isolated process
\* that is a target, an app zygote that is a target.
Kinds == {"other", "target", "sibling", "shared", "isolated", "appzygote"}

ASSUME MonitorAssumption ==
    /\ None \notin Pids /\ SuBinOpen \in BOOLEAN
    /\ Scenes \subseteq [count : {1, 2}, modes : SUBSET BOOLEAN, kinds : SUBSET Kinds,
                         zygotes : Nat, forks : Nat, signals : Nat, events : Nat]

VARIABLES
    sulist,     \* sulist_enabled
    life,       \* life[p]: "none", "zygote" or how far a forked process is
    kind,       \* kind[p]: what p is going to be
    ready,      \* zygotes with a mount namespace of their own and a system_server
    trace,      \* trace[p]: "no", "cont" (PTRACE_CONT) or "syscall" (PTRACE_SYSCALL)
    stop,       \* stop[p]: what waitpid is going to report about p
    child,      \* child[p]: the event message of a fork
    zygote_map, attaches, checked, allowed,     \* sets of process ids
    mon,        \* the monitor: [at |-> "wait" | "stop" | "fork" | "ended", pid]
    timer,      \* the interval timer runs
    events,     \* inotify events that are pending
    frozen,     \* stopped by SIGSTOP
    helper,     \* processes that a helper process is about to change
    changed,    \* processes whose mounts were changed
    followed,   \* ghost: processes whose zygote was traced when it forked them
    lost,       \* ghost: a zygote has died
    failed,     \* ghost: a helper process could not be forked
    scene,      \* one of Scenes
    used        \* how many zygotes, forks, signals and events there were

tables == <<zygote_map, attaches, checked, allowed>>
procs == <<life, kind, ready, followed, lost>>
tracing == <<trace, stop, child>>
mounts == <<frozen, helper, changed, failed>>
signals == <<timer, events>>
vars == <<scene, sulist, procs, tracing, tables, mon, signals, mounts, used>>

\* is_uid_on_list, is_deny_target, and whether the namespace is the process's own.
Listed(k) == k \in {"target", "sibling", "shared", "appzygote"}
DenyTarget(k) == k \in {"target", "shared", "isolated", "appzygote"}
OwnNs(k) == k # "shared"

\* The processes that are to be changed.  With SuList, isolated ones are not.
Wanted(p) == DenyTarget(kind[p]) /\ OwnNs(kind[p]) /\ (sulist => kind[p] # "isolated")

\* A process id that may be used for a new process.  Ids are used in turn, so not
\* the one of a process that the monitor or a helper is just at work on.
Free(p) == life[p] = "none" /\ stop[p] = "none" /\ p \notin helper \cup {mon.pid}

Traced(p) == trace[p] # "no"
Running(p) == stop[p] = "none" /\ p \notin frozen
Waiting == mon.at = "wait"

Init ==
    /\ scene \in Scenes /\ sulist \in scene.modes
    /\ life = [p \in Pids |-> "none"] /\ kind = [p \in Pids |-> None] /\ ready = {}
    /\ trace = [p \in Pids |-> "no"] /\ stop = [p \in Pids |-> "none"]
    /\ child = [p \in Pids |-> None]
    /\ zygote_map = {} /\ attaches = {} /\ checked = {} /\ allowed = {}
    /\ mon = [at |-> "wait", pid |-> None] /\ timer = TRUE /\ events = 0
    /\ frozen = {} /\ helper = {} /\ changed = {}
    /\ followed = {} /\ lost = FALSE /\ failed = FALSE
    /\ used = [zygotes |-> 0, forks |-> 0, signals |-> 0, events |-> 0]
-----------------------------------------------------------------------------
(* Android: zygotes and the processes that they fork. *)

ZygoteStarts(p) ==
    /\ Free(p) /\ Cardinality({z \in Pids : life[z] = "zygote"}) < scene.count
    /\ used.zygotes < scene.zygotes /\ used' = [used EXCEPT !.zygotes = @ + 1]
    /\ life' = [life EXCEPT ![p] = "zygote"]
    /\ UNCHANGED <<scene, sulist, kind, ready, followed, lost, tracing, tables, mon, signals, mounts>>

ZygoteIsReady(z) ==
    /\ life[z] = "zygote" /\ Running(z) /\ ready' = ready \cup {z} /\ ready' # ready
    /\ UNCHANGED <<scene, sulist, life, kind, followed, lost, tracing, tables, mon, signals, mounts, used>>

\* A traced zygote stops at the fork, and the new process before its first step.
Fork(z, p, k) ==
    /\ life[z] = "zygote" /\ z \in ready /\ Running(z) /\ Free(p)
    /\ used.forks < scene.forks /\ used' = [used EXCEPT !.forks = @ + 1]
    /\ life' = [life EXCEPT ![p] = "root"] /\ kind' = [kind EXCEPT ![p] = k]
    /\ changed' = changed \ {p}
    /\ IF Traced(z)
       THEN /\ \E e \in {"fork", "vfork"} : stop' = [stop EXCEPT ![z] = e, ![p] = "sigstop"]
            /\ trace' = [trace EXCEPT ![p] = "cont"] /\ child' = [child EXCEPT ![z] = p]
            /\ followed' = followed \cup {p}
       ELSE UNCHANGED tracing /\ followed' = followed \ {p}
    /\ UNCHANGED <<scene, sulist, ready, lost, tables, mon, signals, frozen, helper, failed>>

\* A process goes on; every step of a traced one ends in a system call.
Advance(p) ==
    /\ life[p] \in {"root", "uid", "pre", "named"} /\ Running(p)
    /\ life' = [life EXCEPT ![p] = CASE @ = "root" -> "uid"
                                     [] @ = "uid" -> IF kind[p] = "appzygote" THEN "named" ELSE "pre"
                                     [] @ = "pre" -> "named"
                                     [] OTHER -> "run"]
    /\ stop' = IF trace[p] = "syscall" THEN [stop EXCEPT ![p] = "syscall"] ELSE stop
    /\ UNCHANGED <<scene, sulist, kind, ready, followed, lost, trace, child, tables, mon, signals,
                   mounts, used>>

\* A signal other than SIGSTOP.
Signal(p) ==
    /\ Traced(p) /\ stop[p] = "none" /\ used.signals < scene.signals
    /\ used' = [used EXCEPT !.signals = @ + 1]
    /\ stop' = [stop EXCEPT ![p] = "signal"]
    /\ UNCHANGED <<scene, sulist, procs, trace, child, tables, mon, signals, mounts>>

\* A traced zygote stops once more before it ends.
ExitEvent(z) ==
    /\ life[z] = "zygote" /\ Traced(z) /\ stop[z] = "none"
    /\ stop' = [stop EXCEPT ![z] = "exit"]
    /\ UNCHANGED <<scene, sulist, procs, trace, child, tables, mon, signals, mounts, used>>

\* A process ends, perhaps because it is killed.
Exit(p) ==
    /\ life[p] # "none" /\ (life[p] = "zygote" => ~Traced(p) \/ stop[p] = "exiting")
    /\ life' = [life EXCEPT ![p] = "none"] /\ kind' = [kind EXCEPT ![p] = None]
    /\ ready' = ready \ {p} /\ lost' = (lost \/ life[p] = "zygote")
    /\ stop' = [stop EXCEPT ![p] = IF Traced(p) THEN "gone" ELSE "none"]
    /\ frozen' = frozen \ {p} /\ changed' = changed \ {p} /\ followed' = followed \ {p}
    /\ UNCHANGED <<scene, sulist, trace, child, tables, mon, signals, helper, failed, used>>

\* packages.xml is written, an app or a user is added, or app_process is started.
FileEvent ==
    /\ used.events < scene.events /\ used' = [used EXCEPT !.events = @ + 1]
    /\ events' = 1
    /\ UNCHANGED <<scene, sulist, procs, tracing, tables, mon, timer, mounts>>
-----------------------------------------------------------------------------
(* The monitor's signal handlers: they run while it waits. *)

\* new_zygote: attach to the zygotes that are not in the map.
NewZygotes ==
    /\ zygote_map' = zygote_map \cup ready
    /\ trace' = [p \in Pids |-> IF p \in ready \ zygote_map THEN "cont" ELSE trace[p]]

is_zygote_done == Cardinality(zygote_map') >= scene.count

CheckZygoteOnce == NewZygotes /\ timer' = (timer /\ zygote_map' = {})

\* Without su_bin_fd it returns at once.
CheckZygote ==
    IF SuBinOpen
    THEN NewZygotes /\ timer' = (timer /\ ~is_zygote_done)
    ELSE UNCHANGED <<zygote_map, trace, timer>>

\* SIGALRM.
Alarm ==
    /\ Waiting /\ timer /\ CheckZygote
    /\ UNCHANGED <<scene, sulist, procs, stop, child, attaches, checked, allowed, mon, events, mounts, used>>

\* SIGIO: inotify_event.  A directory that was created is only watched.
Inotify ==
    /\ Waiting /\ events > 0 /\ events' = 0
    /\ CheckZygote \/ UNCHANGED <<zygote_map, trace, timer>>
    /\ UNCHANGED <<scene, sulist, procs, stop, child, attaches, checked, allowed, mon, mounts, used>>

\* SIGTERMTHRD: term_thread.  The kernel lets go of everything that was traced.
Term ==
    /\ Waiting /\ mon' = [mon EXCEPT !.at = "ended"]
    /\ zygote_map' = {} /\ attaches' = {} /\ checked' = {} /\ allowed' = {}
    /\ trace' = [p \in Pids |-> "no"] /\ stop' = [p \in Pids |-> "none"]
    /\ child' = [p \in Pids |-> None] /\ timer' = FALSE /\ events' = 0
    /\ UNCHANGED <<scene, sulist, procs, mounts, used>>
-----------------------------------------------------------------------------
(* The loop of proc_monitor, by what waitpid reports. *)

Forgotten(p) ==
    attaches' = attaches \ {p} /\ checked' = checked \ {p} /\ allowed' = allowed \ {p}

Detach(p) ==
    /\ Forgotten(p)
    /\ trace' = [trace EXCEPT ![p] = "no"] /\ stop' = [stop EXCEPT ![p] = "none"]

Resume(p, how) ==
    /\ trace' = [trace EXCEPT ![p] = how] /\ stop' = [stop EXCEPT ![p] = "none"]

\* Not a ptrace-stop: the process is gone.
OnGone(p) ==
    /\ Waiting /\ stop[p] = "gone" /\ Detach(p)
    /\ UNCHANGED <<scene, sulist, procs, child, zygote_map, mon, signals, mounts, used>>

\* zygote forked.  The test "zygote_map.count(pid) & event" holds for
\* PTRACE_EVENT_FORK (1) only.
OnFork(z) ==
    /\ Waiting /\ stop[z] = "fork" /\ z \in zygote_map
    /\ attaches' = attaches \cup {child[z]} /\ child' = [child EXCEPT ![z] = None]
    /\ Resume(z, "cont")
    /\ UNCHANGED <<scene, sulist, procs, zygote_map, checked, allowed, mon, signals, mounts, used>>

\* "Not caused by us": signals, and PTRACE_EVENT_VFORK (2) and PTRACE_EVENT_EXIT
\* (6), which fail that test.  A dead zygote stays in zygote_map.
OnOther(p) ==
    /\ Waiting /\ stop[p] \in {"signal", "vfork", "exit"}
    /\ trace' = [trace EXCEPT ![p] = IF p \notin zygote_map /\ p \in attaches THEN "syscall" ELSE "cont"]
    /\ stop' = [stop EXCEPT ![p] = IF @ = "exit" THEN "exiting" ELSE "none"]
    /\ child' = [child EXCEPT ![p] = None]
    /\ UNCHANGED <<scene, sulist, procs, tables, mon, signals, mounts, used>>

\* The first stop of a new process.
OnSigstop(p) ==
    /\ Waiting /\ stop[p] = "sigstop" /\ attaches' = attaches \cup {p}
    /\ Resume(p, "syscall")
    /\ UNCHANGED <<scene, sulist, procs, child, zygote_map, checked, allowed, mon, signals, mounts, used>>

\* Has the process been let through to check_pid: is it an app zygote, or was it
\* seen before it had its name?
Let(p) == p \in allowed \/ kind[p] = "appzygote" \/ life[p] = "pre"

\* The first part of a system call stop: who need not be followed.
Ignored(p) ==
    /\ p \notin checked
    /\ IF kind[p] = "isolated" THEN sulist ELSE ~Listed(kind[p])

\* check_pid.
StillZygote(p) == life[p] \in {"uid", "pre"}
HitSharedNs(p) == DenyTarget(kind[p])

Hit(p) == DenyTarget(kind[p]) /\ OwnNs(kind[p])

\* A system call stop that the process goes on from: it is still root, it was not
\* let through, or it has no name yet.
OnSyscallGoesOn(p) ==
    /\ Waiting /\ stop[p] = "syscall"
    /\ \/ p \notin checked /\ life[p] = "root" /\ UNCHANGED <<checked, allowed>>
       \/ /\ life[p] # "root" /\ ~Ignored(p) /\ (Let(p) => StillZygote(p))
          /\ checked' = checked \cup {p}
          /\ allowed' = IF Let(p) THEN allowed \cup {p} ELSE allowed
    /\ Resume(p, "syscall")
    /\ UNCHANGED <<scene, sulist, procs, child, zygote_map, attaches, mon, signals, mounts, used>>

\* A system call stop after which the process is left alone.
OnSyscallLetGo(p) ==
    /\ Waiting /\ stop[p] = "syscall" /\ life[p] # "root"
    /\ Ignored(p) \/ (Let(p) /\ ~StillZygote(p) /\ ~Hit(p))
    /\ Detach(p)
    /\ UNCHANGED <<scene, sulist, procs, child, zygote_map, mon, signals, mounts, used>>

\* check_pid finds a target: it detaches, sends SIGSTOP, and forks a helper.
OnSyscallHit(p) ==
    /\ Waiting /\ stop[p] = "syscall" /\ life[p] # "root"
    /\ ~Ignored(p) /\ Let(p) /\ ~StillZygote(p) /\ Hit(p)
    /\ Detach(p) /\ mon' = [at |-> "stop", pid |-> p]
    /\ UNCHANGED <<scene, sulist, procs, child, zygote_map, signals, mounts, used>>

SendStop ==
    /\ mon.at = "stop" /\ mon' = [mon EXCEPT !.at = "fork"]
    /\ frozen' = IF life[mon.pid] # "none" THEN frozen \cup {mon.pid} ELSE frozen
    /\ UNCHANGED <<scene, sulist, procs, tracing, tables, signals, helper, changed, failed, used>>

\* revert_daemon or mount_magisk_to_pid, then detach_pid again, which has no effect.
ForkHelper ==
    /\ mon.at = "fork" /\ mon' = [at |-> "wait", pid |-> None]
    /\ \/ helper' = helper \cup {mon.pid} /\ UNCHANGED failed
       \/ failed' = TRUE /\ UNCHANGED helper
    /\ UNCHANGED <<scene, sulist, procs, tracing, tables, signals, frozen, changed, used>>

HelperRunsSilently(p) ==
    /\ p \in helper /\ helper' = helper \ {p}
    /\ changed' = IF life[p] # "none" THEN changed \cup {p} ELSE changed
    /\ UNCHANGED <<scene, sulist, procs, tracing, tables, mon, signals, frozen, failed, used>>

\* The helper changes the mounts of the process and sends SIGCONT.
HelperRuns(p) ==
    /\ p \in helper /\ helper' = helper \ {p} /\ frozen' = frozen \ {p}
    /\ changed' = IF life[p] # "none" THEN changed \cup {p} ELSE changed
    /\ UNCHANGED <<scene, sulist, procs, tracing, tables, mon, signals, failed, used>>
-----------------------------------------------------------------------------
Monitor ==
    \/ \E p \in Pids : \/ OnGone(p) \/ OnFork(p) \/ OnOther(p) \/ OnSigstop(p)
                       \/ OnSyscallGoesOn(p) \/ OnSyscallLetGo(p) \/ OnSyscallHit(p)
    \/ SendStop \/ ForkHelper \/ Alarm

Working == Monitor \/ \E p \in Pids : Advance(p) \/ HelperRuns(p)

Next ==
    \/ Working \/ FileEvent \/ Inotify \/ Term
    \/ \E p \in Pids : ZygoteStarts(p) \/ ZygoteIsReady(p) \/ Signal(p) \/ ExitEvent(p) \/ Exit(p)
    \/ \E z, p \in Pids, k \in scene.kinds : Fork(z, p, k)

Spec == Init /\ [][Next]_vars

\* The monitor, its timer, the helpers and the processes that can run do.
FairSpec == Spec /\ WF_vars(Working)
-----------------------------------------------------------------------------
\* Only targets are stopped and changed, under either mode, also when process ids
\* are used again (the tables are cleared by detach_pid).
OnlyTargets == \A p \in Pids : p \in frozen \cup changed => Wanted(p)

\* What the monitor remembers of a process is about one that it still traces (or
\* has just to be told is gone): a process id that is used again starts afresh.
TablesFresh == checked \cup allowed \subseteq {p \in Pids : Traced(p)}

\* Every target that a traced zygote forks has its mounts changed and runs on,
\* unless it dies, the monitor is stopped, or the helper cannot be forked.  (A
\* process with the id of a dead zygote is taken for that zygote.)
TargetsChanged ==
    \A p \in Pids :
        life[p] = "root" /\ p \in followed /\ Wanted(p)
            ~> \/ p \in changed \ frozen \/ life[p] = "none"
               \/ mon.at = "ended" \/ failed \/ p \in zygote_map

\* The periodic scan finds every zygote: it ends only when all are traced.  (Not
\* once a zygote has died: its entry stays in zygote_map and counts.)
ZygotesFound ==
    \A z \in Pids : z \in ready ~> Traced(z) \/ z \notin ready \/ lost \/ mon.at = "ended"
=============================================================================
