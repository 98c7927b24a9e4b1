------------------------------ MODULE DenyList ------------------------------
(***************************************************************************)
(* MagiskHide's list (native/src/core/deny/utils.cpp, with denylist_handler*)
(* of deny/cli.cpp): the packages and processes in memory, the map from    *)
(* app IDs to listed packages, the table they come from, and the switch    *)
(* that starts the process monitor.  Requests run on pool threads.  Most   *)
(* take data_lock for their work in memory and write to the database after *)
(* releasing it; rescans by the monitor and on a zygote restart take no    *)
(* lock at all.                                                            *)
(*                                                                         *)
(* An entry is a package and a process.  The package Isolated stands for   *)
(* ISOLATED_MAGIC, under which processes of any package may be listed.     *)
(* app_id_to_pkgs is the set of packages it leads to.                      *)
(***************************************************************************)
EXTENDS Naturals

CONSTANTS Threads,      \* pool threads that serve requests
          Boot,         \* the thread that runs initialize_denylist
          Monitors,     \* identities for threads that run proc_monitor
          None,         \* no thread
          Pkgs,         \* packages that may be installed
          Isolated,     \* ISOLATED_MAGIC
          Manager,      \* the manager's package
          Entries,      \* what may be asked to be listed: package and process
          Owner,        \* Owner[proc]: the package whose name proc starts with
          MaxRequests, MaxBoots, MaxInstalls    \* bounds

\* What SuList lists by itself, in memory only: the manager (it stands for the
\* system's own packages too).
SystemEntries == {<<Manager, Manager>>}

Tables == {"hidelist", "sulist"}
Threads_ == Threads \cup {Boot}

\* DenyRequest.  ADD and REMOVE have an entry; REMOVE may have a package only.
Requests ==
    {[op |-> op, arg |-> None] : op \in {"ENFORCE", "DISABLE", "LIST", "ENFORCE_SULIST",
                                         "DISABLE_SULIST"}}
    \cup {[op |-> op, arg |-> e] : op \in {"ADD", "REMOVE"}, e \in Entries}
    \cup {[op |-> "REMOVE_PKG", arg |-> e[1]] : e \in Entries}

\* What initialize_denylist does, as a request of the boot.
InitRequest == [op |-> "INIT", arg |-> None]

ASSUME DenyAssumption ==
    /\ None \notin Threads \cup Monitors \cup {Boot} /\ Boot \notin Threads
    /\ Isolated \notin Pkgs /\ Manager \in Pkgs
    /\ \A e \in Entries : e[1] \in Pkgs \cup {Isolated} /\ e[2] \in DOMAIN Owner
    /\ SystemEntries \cap Entries = {}
    /\ None \notin Requests \cup {InitRequest}
    /\ MaxRequests \in Nat /\ MaxBoots \in Nat /\ MaxInstalls \in Nat

VARIABLES
    req,        \* req[t]: the request t serves, or None
    pc,         \* pc[t]: how far it is
    val,        \* val[t]: the flag t is about to store
    lock,       \* holder of data_lock
    loaded,     \* pkg_to_procs_ is not null
    list,       \* pkg_to_procs
    apps,       \* app_id_to_pkgs
    skip,       \* skip_pkg_rescan
    enforced,   \* denylist_enforced
    sulist,     \* sulist_enabled
    table,      \* table_name
    tables,     \* database: the two tables
    config,     \* database: the settings denylist and sulist
    mon,        \* mon[m]: "none", "created", "running", "stopping" or "ended"
    monitor,    \* monitor_thread
    dirty,      \* SIGIO is pending for the monitor
    handlers,   \* the process has the monitor's signal handlers
    installed,  \* packages with a data directory
    hasNs,      \* the kernel has mount namespaces
    dead,       \* magiskd has crashed
    sent, boots, installs,  \* how many requests, boots and package changes
    crossed,    \* two requests of this boot overlapped
    failed,     \* a step of a request of this boot failed
    tangled,    \* a monitor was started or stopped before another one was ready
    changed     \* packages that came or went since the last rescan

memory == <<loaded, list, apps, skip>>
modes == <<enforced, sulist, table>>
db == <<tables, config>>
threads == <<mon, monitor, dirty, handlers>>
ghosts == <<crossed, failed, tangled, changed>>
bounds == <<sent, boots, installs>>
device == <<installed, hasNs>>
vars == <<req, pc, val, lock, memory, modes, db, threads, device, dead, bounds, ghosts>>

Keys(l) == {e[1] : e \in l}
Idle == \A t \in Threads_ : req[t] = None
Alive == {m \in Monitors : mon[m] \in {"created", "running"}}

\* rescan_apps: with SuList the manager is listed first.
Rescanned(l) == IF sulist THEN l \cup SystemEntries ELSE l
Mapped(l) == installed \cap Keys(l)

\* What ensure_data leaves in memory.
EnsuredList == IF loaded THEN list ELSE Rescanned(tables[table])
EnsuredApps == IF loaded THEN apps ELSE Mapped(EnsuredList)
EnsuredChanged == IF loaded THEN changed ELSE {}

Init ==
    /\ req = [t \in Threads_ |-> IF t = Boot THEN InitRequest ELSE None]
    /\ pc = [t \in Threads_ |-> IF t = Boot THEN "init" ELSE "none"]
    /\ val = [t \in Threads_ |-> FALSE]
    /\ lock = None
    /\ loaded = FALSE /\ list = {} /\ apps = {} /\ skip = FALSE
    /\ enforced = FALSE /\ sulist = FALSE /\ table = "hidelist"
    /\ tables = [t \in Tables |-> {}]
    /\ config = [denylist |-> FALSE, sulist |-> FALSE]
    /\ mon = [m \in Monitors |-> "none"] /\ monitor = None
    /\ dirty = FALSE /\ handlers = FALSE
    /\ installed = Pkgs /\ hasNs \in BOOLEAN
    /\ dead = FALSE
    /\ sent = 0 /\ boots = 1 /\ installs = 0
    /\ crossed = FALSE /\ failed = FALSE /\ tangled = FALSE /\ changed = {}

-----------------------------------------------------------------------------
(* Requests *)

\* Where each request begins: the check before the lock, the lock, the database.
Start(r) ==
    CASE r.op \in {"ENFORCE", "DISABLE"} -> "check"
      [] r.op \in {"ENFORCE_SULIST", "DISABLE_SULIST"} -> "write"
      [] OTHER -> "lock"

\* denylist_handler reads a request (ADD with a name that validate accepts).
Submit(t) ==
    /\ ~dead /\ req[t] = None /\ sent < MaxRequests
    /\ \E r \in Requests :
           /\ req' = [req EXCEPT ![t] = r]
           /\ pc' = [pc EXCEPT ![t] = Start(r)]
    /\ sent' = sent + 1
    /\ crossed' = (crossed \/ ~Idle)
    /\ UNCHANGED <<val, lock, memory, modes, db, threads, device, dead, boots, installs,
                   failed, tangled, changed>>

\* The reply is written and the client's fd closed.
Reply(t) ==
    /\ req' = [req EXCEPT ![t] = None]
    /\ pc' = [pc EXCEPT ![t] = "none"]
    /\ val' = [val EXCEPT ![t] = FALSE]

Goto(t, place) == pc' = [pc EXCEPT ![t] = place] /\ UNCHANGED <<req, val>>

Acquire(t) ==
    /\ ~dead /\ pc[t] = "lock" /\ lock = None
    /\ lock' = t
    /\ Goto(t, "locked")
    /\ UNCHANGED <<memory, modes, db, threads, device, dead, bounds, ghosts>>

\* t does its work in memory and unlocks.
Working(t, op) == ~dead /\ pc[t] = "locked" /\ req[t].op = op /\ lock' = None

\* ensure_data cannot read the table, or enable_deny cannot open /proc.
LoadFails(t) ==
    /\ ~dead /\ pc[t] = "locked"
    /\ IF req[t].op \in {"ENFORCE", "INIT"} THEN hasNs ELSE ~loaded
    /\ lock' = None
    /\ failed' = TRUE
    /\ Reply(t)
    /\ UNCHANGED <<memory, modes, db, threads, device, dead, bounds, crossed,
                   tangled, changed>>

\* The memory after the work: l, with a updated map of apps.
Leave(l, a) ==
    /\ loaded' = TRUE /\ list' = l /\ apps' = a
    /\ changed' = EnsuredChanged
    /\ UNCHANGED skip

\* add_list: add_hide_set (which kills the process if enforced), update_pkg_uid.
AddWork(t) ==
    LET e == req[t].arg IN
    /\ Working(t, "ADD")
    /\ \/ /\ e \in EnsuredList
          /\ Leave(EnsuredList, EnsuredApps)
          /\ Reply(t)
       \/ /\ e \notin EnsuredList
          /\ Leave(EnsuredList \cup {e}, EnsuredApps \cup ({e[1]} \cap installed))
          /\ Goto(t, "db")
    /\ UNCHANGED <<modes, db, threads, device, dead, bounds, crossed, failed, tangled>>

\* What REMOVE asks to remove.
Victims(r) ==
    IF r.op = "REMOVE" THEN EnsuredList \cap {r.arg} ELSE {e \in EnsuredList : e[1] = r.arg}

\* Variant: the map of apps is not touched.
UnmappedNever(l, a) == a

\* update_pkg_uid(pkg, true) finds the app ID by the package's data directory:
\* a package that is not installed stays in the map.
Unmapped(l, a) == {p \in a : p \in Keys(l) \/ p \notin installed}

RmWork(t) ==
    LET gone == Victims(req[t])
        rest == EnsuredList \ gone IN
    /\ ~dead /\ pc[t] = "locked" /\ req[t].op \in {"REMOVE", "REMOVE_PKG"}
    /\ lock' = None
    /\ \/ /\ gone = {}
          /\ Leave(EnsuredList, EnsuredApps)
          /\ Reply(t)
       \/ /\ gone # {}
          /\ Leave(rest, Unmapped(rest, EnsuredApps))
          /\ Goto(t, "db")
    /\ UNCHANGED <<modes, db, threads, device, dead, bounds, crossed, failed, tangled>>

\* ls_list drops what is not installed, and isolated processes of no mapped
\* package, from memory and from the database, before it writes the list.
LsWork(t) ==
    LET out == {e \in EnsuredList :
                   \/ e[1] \in Pkgs /\ e[1] \notin installed
                   \/ e[1] = Isolated /\ Owner[e[2]] \notin EnsuredApps}
        rest == EnsuredList \ out IN
    /\ Working(t, "LIST")
    /\ Leave(rest, Unmapped(rest, EnsuredApps))
    /\ \/ tables' = [tables EXCEPT ![table] = @ \ out] /\ UNCHANGED failed
       \/ out # {} /\ failed' = TRUE /\ UNCHANGED tables
    /\ Reply(t)
    /\ UNCHANGED <<modes, config, threads, device, dead, bounds, crossed, tangled>>

\* Variant: removing a process deletes the rows of its package.
DbWriteByPkg(t) ==
    LET r == req[t] IN
    /\ ~dead /\ pc[t] = "db"
    /\ tables' = [tables EXCEPT ![table] =
           CASE r.op = "ADD" -> @ \cup {r.arg}
             [] r.op = "REMOVE" -> {e \in @ : e[1] # r.arg[1]}
             [] r.op = "REMOVE_PKG" -> {e \in @ : e[1] # r.arg}]
    /\ Reply(t)
    /\ UNCHANGED <<lock, memory, modes, config, threads, device, dead, bounds, ghosts>>

\* The INSERT or DELETE, with the lock released.  An INSERT of a row that is
\* there violates the primary key.
DbWrite(t) ==
    LET r == req[t] IN
    /\ ~dead /\ pc[t] = "db"
    /\ \/ /\ r.op = "ADD" => r.arg \notin tables[table]
          /\ tables' = [tables EXCEPT ![table] =
                 CASE r.op = "ADD" -> @ \cup {r.arg}
                   [] r.op = "REMOVE" -> @ \ {r.arg}
                   [] r.op = "REMOVE_PKG" -> {e \in @ : e[1] # r.arg}]
          /\ UNCHANGED failed
       \/ failed' = TRUE /\ UNCHANGED tables
    /\ Reply(t)
    /\ UNCHANGED <<lock, memory, modes, config, threads, device, dead, bounds,
                   crossed, tangled, changed>>

-----------------------------------------------------------------------------
(* The switch *)

\* initialize_denylist: the mode comes from the database.
InitRead ==
    /\ ~dead /\ pc[Boot] = "init"
    /\ \/ /\ enforced \/ ~config.denylist
          /\ Reply(Boot)
          /\ UNCHANGED <<sulist, table>>
       \/ /\ ~enforced /\ config.denylist
          /\ sulist' = (sulist \/ config.sulist)
          /\ table' = IF config.sulist THEN "sulist" ELSE table
          /\ Goto(Boot, "check")
    /\ UNCHANGED <<lock, memory, enforced, db, threads, device, dead, bounds, ghosts>>

\* enable_deny, before the lock.
EnableCheck(t) ==
    /\ ~dead /\ pc[t] = "check" /\ req[t].op \in {"ENFORCE", "INIT"}
    /\ IF enforced THEN Reply(t) ELSE Goto(t, "lock")
    /\ UNCHANGED <<lock, memory, modes, db, threads, device, dead, bounds, ghosts>>

\* No mount namespaces: SuList is switched off for good.
EnableNoNs(t) ==
    /\ ~dead /\ pc[t] = "locked" /\ req[t].op \in {"ENFORCE", "INIT"} /\ ~hasNs
    /\ lock' = None
    /\ sulist' = FALSE /\ table' = "hidelist"
    /\ config' = [config EXCEPT !.sulist = FALSE]
    /\ failed' = TRUE
    /\ Reply(t)
    /\ UNCHANGED <<memory, enforced, tables, threads, device, dead, bounds,
                   crossed, tangled, changed>>

\* The monitor thread is created, or cannot be.
EnableWork(t) ==
    /\ ~dead /\ pc[t] = "locked" /\ req[t].op \in {"ENFORCE", "INIT"} /\ hasNs
    /\ lock' = None
    /\ \/ /\ enforced' = TRUE
          /\ \E m \in Monitors :
                 mon[m] = "none" /\ mon' = [mon EXCEPT ![m] = "created"]
          /\ tangled' = (tangled \/ \E m \in Monitors : mon[m] \notin {"none", "ended"})
          /\ Leave(Rescanned(EnsuredList), EnsuredApps)
          /\ Goto(t, "load")
          /\ UNCHANGED failed
       \/ /\ enforced' = FALSE
          /\ Leave(EnsuredList, EnsuredApps)
          /\ failed' = TRUE
          /\ Reply(t)
          /\ UNCHANGED <<mon, tangled>>
    /\ UNCHANGED <<sulist, table, db, monitor, dirty, handlers, device, dead, bounds,
                   crossed>>

\* disable_deny: "sulist mode cannot be turn off without reboot".
DisableCheck(t) ==
    /\ ~dead /\ pc[t] = "check" /\ req[t].op = "DISABLE"
    /\ IF sulist THEN Reply(t) ELSE Goto(t, "stop")
    /\ UNCHANGED <<lock, memory, modes, db, threads, device, dead, bounds, ghosts>>

\* Variant: the monitor is not told to stop.
DisableStopQuiet(t) ==
    /\ ~dead /\ pc[t] = "stop"
    /\ enforced' = FALSE
    /\ Goto(t, "load")
    /\ UNCHANGED <<lock, memory, sulist, table, db, threads, device, dead, bounds,
                   ghosts>>

\* The signal goes to the thread in monitor_thread.  If that is not set yet, or
\* not any more, it is lost, or pthread_kill aborts.
DisableStop(t) ==
    /\ ~dead /\ pc[t] = "stop"
    /\ enforced' = FALSE
    /\ \/ ~enforced /\ UNCHANGED <<mon, tangled, dead>>
       \/ /\ enforced /\ monitor # None
          /\ mon' = [mon EXCEPT ![monitor] = "stopping"]
          /\ UNCHANGED <<tangled, dead>>
       \/ /\ enforced /\ monitor = None
          /\ tangled' = TRUE /\ dead' \in BOOLEAN
          /\ UNCHANGED mon
    /\ Goto(t, "load")
    /\ UNCHANGED <<lock, memory, sulist, table, db, monitor, dirty, handlers, device, bounds,
                   crossed, failed, changed>>

\* update_deny_config and update_sulist_config: the value is read, then stored.
LoadFlag(t) ==
    /\ ~dead /\ pc[t] = "load"
    /\ val' = [val EXCEPT ![t] = enforced]
    /\ pc' = [pc EXCEPT ![t] = "write"]
    /\ UNCHANGED <<req, lock, memory, modes, db, threads, device, dead, bounds, ghosts>>

StoreFlag(t) ==
    LET r == req[t] IN
    /\ ~dead /\ pc[t] = "write"
    /\ \/ /\ config' = IF r.op \in {"ENFORCE_SULIST", "DISABLE_SULIST"}
                         THEN [config EXCEPT !.sulist = (r.op = "ENFORCE_SULIST")]
                         ELSE [config EXCEPT !.denylist = val[t]]
          /\ UNCHANGED failed
       \/ failed' = TRUE /\ UNCHANGED config
    /\ Reply(t)
    /\ UNCHANGED <<lock, memory, modes, tables, threads, device, dead, bounds,
                   crossed, tangled, changed>>

-----------------------------------------------------------------------------
(* Rescans without the lock, and the questions the monitor asks *)

\* A rescan that overlaps another use of the data is a data race: the outcomes
\* are a rescan like any other, or a crash.
Rescan ==
    /\ list' = Rescanned(list) /\ apps' = Mapped(list')
    /\ changed' = {}
    /\ dead' \in (IF lock # None THEN BOOLEAN ELSE {FALSE})

\* proc_monitor: the thread makes itself known and rescans.
MonitorStarts(m) ==
    /\ ~dead /\ mon[m] = "created"
    /\ mon' = [mon EXCEPT ![m] = "running"]
    /\ monitor' = m /\ dirty' = FALSE /\ handlers' = TRUE
    /\ Rescan
    /\ UNCHANGED <<req, pc, val, lock, loaded, skip, modes, db, device, bounds, crossed,
                   failed, tangled>>

\* inotify_event.
MonitorRescans ==
    /\ ~dead /\ monitor # None /\ dirty /\ handlers
    /\ dirty' = FALSE
    /\ Rescan
    /\ UNCHANGED <<req, pc, val, lock, loaded, skip, modes, db, mon, monitor, handlers, device,
                   bounds, crossed, failed, tangled>>

\* term_thread: what it clears and restores is shared by all monitors.
MonitorEnds(m) ==
    /\ ~dead /\ mon[m] = "stopping"
    /\ mon' = [mon EXCEPT ![m] = "ended"]
    /\ monitor' = None /\ dirty' = FALSE /\ handlers' = FALSE
    /\ UNCHANGED <<req, pc, val, lock, memory, modes, db, device, dead, bounds, ghosts>>

\* A signal reaches a monitor whose handlers another one has removed.
SignalKills ==
    /\ ~dead /\ ~handlers /\ \E m \in Monitors : mon[m] = "running"
    /\ dead' = TRUE
    /\ UNCHANGED <<req, pc, val, lock, memory, modes, db, threads, device, bounds, ghosts>>

\* scan_deny_apps dereferences null pointers if nothing was ever loaded.
ZygoteRestarts ==
    /\ ~dead
    /\ \/ ~loaded /\ dead' = TRUE /\ UNCHANGED <<list, apps, changed>>
       \/ loaded /\ Rescan
    /\ UNCHANGED <<req, pc, val, lock, loaded, skip, modes, db, threads, device, bounds,
                   crossed, failed, tangled>>

\* is_deny_target, for the monitor: the first call rescans.
Ask ==
    /\ ~dead /\ monitor # None /\ lock = None /\ ~skip
    /\ skip' = TRUE
    /\ list' = Rescanned(list) /\ apps' = Mapped(list')
    /\ changed' = {}
    /\ UNCHANGED <<req, pc, val, lock, loaded, modes, db, threads, device, dead, bounds,
                   crossed, failed, tangled>>

-----------------------------------------------------------------------------
(* The device *)

Installs(p) ==
    /\ installs < MaxInstalls
    /\ installs' = installs + 1
    /\ installed' = IF p \in installed THEN installed \ {p} ELSE installed \cup {p}
    /\ changed' = changed \cup {p}
    /\ dirty' = (monitor # None)
    /\ UNCHANGED <<req, pc, val, lock, memory, modes, db, mon, monitor, handlers, hasNs, dead, sent, boots,
                   crossed, failed, tangled>>

Reboots ==
    /\ boots < MaxBoots
    /\ boots' = boots + 1
    /\ req' = [t \in Threads_ |-> IF t = Boot THEN InitRequest ELSE None]
    /\ pc' = [t \in Threads_ |-> IF t = Boot THEN "init" ELSE "none"]
    /\ val' = [t \in Threads_ |-> FALSE]
    /\ lock' = None
    /\ loaded' = FALSE /\ list' = {} /\ apps' = {} /\ skip' = FALSE
    /\ enforced' = FALSE /\ sulist' = FALSE /\ table' = "hidelist"
    /\ mon' = [m \in Monitors |-> "none"] /\ monitor' = None
    /\ dirty' = FALSE /\ handlers' = FALSE
    /\ dead' = FALSE
    /\ crossed' = FALSE /\ failed' = FALSE /\ tangled' = FALSE /\ changed' = {}
    /\ UNCHANGED <<db, device, sent, installs>>

-----------------------------------------------------------------------------
Serve(t) ==
    \/ Acquire(t) \/ LoadFails(t) \/ AddWork(t) \/ RmWork(t) \/ LsWork(t) \/ DbWrite(t)
    \/ EnableCheck(t) \/ EnableNoNs(t) \/ EnableWork(t)
    \/ DisableCheck(t) \/ DisableStop(t) \/ LoadFlag(t) \/ StoreFlag(t)
    \/ t = Boot /\ InitRead

Next ==
    \/ \E t \in Threads : Submit(t)
    \/ \E t \in Threads_ : Serve(t)
    \/ \E m \in Monitors : MonitorStarts(m) \/ MonitorEnds(m)
    \/ MonitorRescans \/ SignalKills \/ ZygoteRestarts \/ Ask
    \/ \E p \in Pkgs : Installs(p)
    \/ Reboots

Spec == Init /\ [][Next]_vars

-----------------------------------------------------------------------------
(* Properties. *)

Places == {"none", "init", "check", "lock", "locked", "db", "stop", "load", "write"}

\* "string_view points to a pkg_to_procs key": no package of the map of app IDs
\* has been erased from the list.
ViewsPointToKeys == apps \subseteq Keys(list)

\* The map of app IDs follows the list, however requests, rescans and restarts
\* interleave: a view can dangle only for a package that was uninstalled since the
\* last rescan (it may be back by now), and a listed package is found unless it was
\* installed since then.
MapFollowsList ==
    /\ apps \subseteq Keys(list) \cup changed
    /\ loaded => \A e \in list \ SystemEntries : e[1] \in installed \ changed => e[1] \in apps

\* Requests that come one after the other, with no failure, leave the database
\* as the memory: the list and the switch that the replies told of survive a
\* reboot.
ListIsStored ==
    Idle /\ ~crossed /\ ~failed /\ ~dead =>
        /\ loaded => list \ SystemEntries = tables[table]
        /\ config.denylist = enforced

\* With the switch on there is one monitor, and none with it off, at every step of
\* a request, as long as each monitor was up before it was told to stop and gone
\* before the next.
OneMonitor ==
    ~crossed /\ ~tangled /\ ~dead =>
        /\ \A m, n \in Alive : m = n
        /\ enforced <=> Alive # {}

=============================================================================
