--------------------------- MODULE DenyListProofs ---------------------------
(***************************************************************************)
(* MagiskHide's list, for any packages, requests, threads and reboots: the *)
(* map of app IDs follows the list, the database follows the memory as     *)
(* long as requests come one after the other, and so does the monitor.     *)
(***************************************************************************)
EXTENDS DenyList, TLAPS

\* Most leaves are first-order; the others cite SMT.
USE Zenon

\* Which requests are at which place.
At(place, op) ==
    \/ place = "none" /\ op = "NONE"
    \/ place = "init" /\ op = "INIT"
    \/ place = "check" /\ op \in {"ENFORCE", "DISABLE", "INIT"}
    \/ place \in {"lock", "locked"} /\ op \in {"ADD", "REMOVE", "REMOVE_PKG", "LIST", "ENFORCE", "INIT"}
    \/ place = "db" /\ op \in {"ADD", "REMOVE", "REMOVE_PKG"}
    \/ place = "stop" /\ op = "DISABLE"
    \/ place = "load" /\ op \in {"ENFORCE", "DISABLE", "INIT"}
    \/ place = "write" /\ op \in {"ENFORCE", "DISABLE", "INIT", "ENFORCE_SULIST", "DISABLE_SULIST"}

\* A thread is idle, or its request is one that can be where it is.
ThreadOK(t) ==
    \/ req[t] = None /\ pc[t] = "none"
    \/ /\ req[t] \in Requests \cup {InitRequest} /\ At(pc[t], req[t].op)
       /\ pc[t] # "none"
       /\ req[t].op = "INIT" => t = Boot

ThreadTypes ==
    /\ req \in [Threads_ -> Requests \cup {InitRequest, None}]
    /\ pc \in [Threads_ -> Places]
    /\ \A t \in Threads_ : ThreadOK(t)
    /\ val \in [Threads_ -> BOOLEAN]

Types ==
    /\ ThreadTypes
    /\ loaded \in BOOLEAN /\ enforced \in BOOLEAN /\ sulist \in BOOLEAN
    /\ table \in Tables
    /\ tables \in [Tables -> SUBSET Entries]
    /\ config \in [denylist : BOOLEAN, sulist : BOOLEAN]
    /\ mon \in [Monitors -> {"none", "created", "running", "stopping", "ended"}]
    /\ monitor \in Monitors \cup {None}
    /\ crossed \in BOOLEAN /\ failed \in BOOLEAN /\ tangled \in BOOLEAN /\ dead \in BOOLEAN

\* The list is loaded before anything else uses it, and the map is made of
\* packages that were installed.
MapInv ==
    /\ ~loaded => list = {} /\ apps = {}
    /\ monitor # None => loaded
    /\ \A m \in Monitors : mon[m] # "none" => loaded
    /\ apps \subseteq installed \cup changed
    /\ MapFollowsList

\* Requests do not overlap.
Serial == ~crossed => \A t, u \in Threads_ : req[t] # None /\ req[u] # None => t = u

\* What DbWrite makes of a table.
Written(r, rows) ==
    CASE r.op = "ADD" -> rows \cup {r.arg}
      [] r.op = "REMOVE" -> rows \ {r.arg}
      [] r.op = "REMOVE_PKG" -> {e \in rows : e[1] # r.arg}

\* The list is what is in the table, or will be when the request has written.
TableInv ==
    ~crossed /\ ~failed /\ ~dead /\ loaded =>
        /\ (\A t \in Threads_ : pc[t] # "db") => list \ SystemEntries = tables[table]
        /\ \A t \in Threads_ : pc[t] = "db" =>
               /\ list \ SystemEntries = Written(req[t], tables[table])
               /\ req[t].op = "ADD" => req[t].arg \notin tables[table]

\* The thread is about to store the switch.
Switching(t) ==
    \/ pc[t] # "none" /\ req[t].op = "INIT"
    \/ pc[t] \in {"load", "write"} /\ req[t].op \in {"ENFORCE", "DISABLE"}

\* The thread has found the switch off.
FoundOff(t) ==
    \/ pc[t] \in {"lock", "locked"} /\ req[t].op = "ENFORCE"
    \/ pc[t] \in {"init", "check", "lock", "locked"} /\ req[t].op = "INIT"

\* The switch in the database is the one in memory, or will be.
SwitchInv ==
    ~crossed /\ ~dead =>
        /\ ~failed /\ (\A t \in Threads_ : ~Switching(t)) => config.denylist = enforced
        /\ \A t \in Threads_ :
               /\ pc[t] = "init" => ~loaded
               /\ FoundOff(t) => ~enforced
               /\ Switching(t) /\ pc[t] = "write" => val[t] = enforced

\* One monitor at most is neither new nor gone, and it is the one known.
MonitorInv ==
    ~crossed /\ ~tangled /\ ~dead =>
        /\ \A m, n \in Monitors :
               mon[m] \notin {"none", "ended"} /\ mon[n] \notin {"none", "ended"} => m = n
        /\ monitor # None => mon[monitor] \in {"running", "stopping"}
        /\ enforced <=> Alive # {}

IInv == Types /\ MapInv /\ Serial /\ TableInv /\ SwitchInv /\ MonitorInv

-----------------------------------------------------------------------------
\* What requests look like.
LEMMA RequestShape ==
    /\ None \notin Requests /\ InitRequest # None /\ InitRequest.op = "INIT"
    /\ \A r \in Requests :
           /\ r.op \in {"ENFORCE", "DISABLE", "LIST", "ENFORCE_SULIST", "DISABLE_SULIST", "ADD",
                        "REMOVE", "REMOVE_PKG"}
           /\ r.op \in {"ADD", "REMOVE"} => r.arg \in Entries
    /\ Boot \in Threads_ /\ None \notin Threads_ /\ None \notin Monitors
BY SMT, DenyAssumption DEF Requests, InitRequest, Threads_

\* Init satisfies the invariant.
LEMMA InitHolds == Init => IInv
<1> SUFFICES ASSUME Init PROVE IInv
    OBVIOUS
<1> USE RequestShape
<1>1. Types
    BY DEF Init, Types, ThreadTypes, ThreadOK, At, Places, Tables
<1>2. MapInv
    BY DEF Init, MapInv, MapFollowsList, Keys
<1>3. Serial
    BY DEF Init, Serial
<1>4. TableInv
    BY DEF Init, TableInv
<1>5. SwitchInv
    BY DEF Init, SwitchInv, Switching, FoundOff, Types, ThreadTypes, ThreadOK, At
<1>6. MonitorInv
    BY DEF Init, MonitorInv, Alive
<1> QED BY <1>1, <1>2, <1>3, <1>4, <1>5, <1>6 DEF IInv

\* A reboot starts again, from the database.
LEMMA RebootHolds == ASSUME IInv, Reboots PROVE IInv'
<1> USE RequestShape DEF IInv
<1>1. Types'
    BY DEF Reboots, Types, ThreadTypes, ThreadOK, At, Places, Tables, db
<1>2. MapInv'
    BY DEF Reboots, MapInv, MapFollowsList, Keys
<1>3. Serial'
    BY DEF Reboots, Serial
<1>4. TableInv'
    BY DEF Reboots, TableInv
<1>5. SwitchInv'
    BY <1>1 DEF Reboots, SwitchInv, Switching, FoundOff
<1>6. MonitorInv'
    BY DEF Reboots, MonitorInv, Alive
<1> QED BY <1>1, <1>2, <1>3, <1>4, <1>5, <1>6

\* A client sends a request.
LEMMA SubmitHolds == ASSUME IInv, NEW t \in Threads, Submit(t) PROVE IInv'
<1> USE RequestShape DEF IInv
<1>0. t \in Threads_ /\ t # Boot
    BY DenyAssumption DEF Threads_
<1>1. Types'
    BY SMT, <1>0 DEF Submit, Types, ThreadTypes, ThreadOK, At, Start, Places, Tables, memory, modes, db, threads, device
<1>2. MapInv'
    BY DEF Submit, MapInv, MapFollowsList, memory, threads, device
<1>a. ~crossed' => ~crossed /\ \A u \in Threads_ : req[u] = None /\ pc[u] = "none"
    BY DEF Submit, Idle, Types, ThreadTypes, ThreadOK
<1>3. Serial'
    BY SMT, <1>0, <1>a DEF Submit, Serial, Types, ThreadTypes
<1>4. TableInv'
    BY SMT, <1>0 DEF Submit, TableInv, Types, ThreadTypes, Start, ThreadOK, memory, modes, db
<1>5. SwitchInv'
    <2> SUFFICES ASSUME ~crossed', ~dead' PROVE SwitchInv'
        BY DEF SwitchInv
    <2>1. \A u \in Threads_ : u # t => pc'[u] = "none"
        BY <1>a DEF Submit, Types, ThreadTypes
    <2>2. PICK r \in Requests : req'[t] = r /\ pc'[t] = Start(r)
        BY <1>0 DEF Submit, Types, ThreadTypes
    <2> QED BY <1>0, <1>a, <2>1, <2>2
        DEF Submit, SwitchInv, Switching, FoundOff, Start, memory, modes, db
<1>6. MonitorInv'
    BY DEF Submit, MonitorInv, Alive, threads, modes
<1> QED BY <1>1, <1>2, <1>3, <1>4, <1>5, <1>6

\* Threads that take no step are as they were.
LEMMA ThreadsStay == ThreadTypes /\ UNCHANGED <<req, pc, val>> => ThreadTypes'
BY DEF ThreadTypes, ThreadOK

-----------------------------------------------------------------------------
(* The monitor and the device *)

\* A rescan keeps the map as it should be.
LEMMA RescanMaps ==
    ASSUME IInv, loaded, list' = Rescanned(list), apps' = Mapped(list'), changed' = {},
           loaded' = loaded, installed' = installed
    PROVE  /\ apps' \subseteq installed' \cup changed'
           /\ MapFollowsList'
           /\ list' \ SystemEntries = list \ SystemEntries
BY DEF MapFollowsList, Rescanned, Mapped, Keys

\* A monitor starts.
LEMMA MonitorStartsHolds == ASSUME IInv, NEW m \in Monitors, MonitorStarts(m) PROVE IInv'
<1> USE RequestShape DEF IInv
<1>0. /\ loaded /\ list' = Rescanned(list) /\ apps' = Mapped(list') /\ changed' = {}
      /\ loaded' = loaded /\ installed' = installed
    BY DEF MonitorStarts, MapInv, Rescan, device
<1>1. Types'
    BY ThreadsStay DEF MonitorStarts, Rescan, Types, modes, db
<1>2. MapInv'
    BY SMT, <1>0, RescanMaps DEF MonitorStarts, MapInv, Types, ThreadTypes
<1>3. Serial'
    BY DEF MonitorStarts, Serial
<1>4. TableInv'
    BY <1>0, RescanMaps DEF MonitorStarts, TableInv, modes, db
<1>5. SwitchInv'
    BY DEF MonitorStarts, SwitchInv, Switching, FoundOff, modes, db
<1>6. MonitorInv'
    BY DEF MonitorStarts, MonitorInv, Alive, Types, ThreadTypes, modes
<1> QED BY <1>1, <1>2, <1>3, <1>4, <1>5, <1>6

\* A monitor ends.
LEMMA MonitorEndsHolds == ASSUME IInv, NEW m \in Monitors, MonitorEnds(m) PROVE IInv'
<1> USE RequestShape DEF IInv
<1>1. Types'
    BY ThreadsStay DEF MonitorEnds, Types, memory, modes, db, ghosts
<1>2. MapInv'
    BY DEF MonitorEnds, MapInv, MapFollowsList, Types, ThreadTypes, memory, device, ghosts
<1>3. Serial'
    BY DEF MonitorEnds, Serial, ghosts
<1>4. TableInv' /\ SwitchInv'
    BY DEF MonitorEnds, TableInv, SwitchInv, Switching, FoundOff, memory, modes, db, ghosts
<1>5. MonitorInv'
    BY ZenonT(30) DEF MonitorEnds, MonitorInv, Alive, Types, ThreadTypes, modes, ghosts
<1> QED BY <1>1, <1>2, <1>3, <1>4, <1>5

\* The other rescans: for inotify, on a restart of zygote, and for is_deny_target.
LEMMA RescansHold ==
    ASSUME IInv, MonitorRescans \/ ZygoteRestarts \/ Ask
    PROVE  IInv'
<1> USE RequestShape DEF IInv
<1>0. CASE ~loaded
    <2>1. ZygoteRestarts
        BY <1>0 DEF MonitorRescans, Ask, MapInv
    <2> QED BY <1>0, <2>1
        DEF ZygoteRestarts, Types, ThreadTypes, ThreadOK, MapInv, MapFollowsList, Serial, TableInv, SwitchInv, MonitorInv,
            modes, db, threads, device
<1>1. CASE loaded
    <2>0. /\ list' = Rescanned(list) /\ apps' = Mapped(list') /\ changed' = {}
          /\ UNCHANGED <<req, pc, val, loaded, modes, db, mon, monitor, installed, crossed,
                         failed, tangled>>
          /\ dead' \in BOOLEAN /\ ~dead
        BY <1>1 DEF MonitorRescans, ZygoteRestarts, Ask, Rescan, device, threads, Types, ThreadTypes
    <2>1. Types'
        BY <2>0, ThreadsStay DEF Types, modes, db
    <2>2. MapInv'
        BY <1>1, <2>0, RescanMaps DEF MapInv
    <2>3. Serial' /\ SwitchInv' /\ MonitorInv'
        BY <2>0 DEF Serial, SwitchInv, Switching, FoundOff, MonitorInv, Alive, modes, db
    <2>4. TableInv'
        BY <1>1, <2>0, RescanMaps DEF TableInv, modes, db
    <2> QED BY <2>1, <2>2, <2>3, <2>4
<1> QED BY <1>0, <1>1 DEF Types, ThreadTypes

\* A package comes or goes, or a signal kills magiskd.
LEMMA DeviceHolds ==
    ASSUME IInv, SignalKills \/ \E p \in Pkgs : Installs(p)
    PROVE  IInv'
<1> USE RequestShape DEF IInv
<1>1. CASE SignalKills
    <2> USE <1>1 DEF SignalKills, memory, modes, db, threads, device, ghosts
    <2>1. Types'
        BY ThreadsStay DEF Types
    <2>2. MapInv' /\ Serial'
        BY DEF MapInv, MapFollowsList, Serial
    <2>3. TableInv' /\ SwitchInv' /\ MonitorInv'
        BY DEF TableInv, SwitchInv, MonitorInv
    <2> QED BY <2>1, <2>2, <2>3
<1>2. ASSUME NEW p \in Pkgs, Installs(p) PROVE IInv'
    <2> USE <1>2
    <2>0. UNCHANGED <<req, pc, val, memory, modes, db, mon, monitor, dead, crossed, failed, tangled>>
        BY DEF Installs
    <2>1. Types'
        BY <2>0, ThreadsStay DEF Types, memory, modes, db
    <2>2. MapInv'
        BY DEF Installs, MapInv, MapFollowsList, memory
    <2>3. Serial' /\ TableInv' /\ SwitchInv' /\ MonitorInv'
        BY DEF Installs, Serial, TableInv, SwitchInv, Switching, FoundOff, MonitorInv, Alive, memory, modes, db
    <2> QED BY <2>1, <2>2, <2>3
<1> QED BY <1>1, <1>2

-----------------------------------------------------------------------------
(* Requests *)

\* Who serves a request while none overlap is alone.
LEMMA Alone ==
    ASSUME IInv, NEW t \in Threads_, pc[t] # "none", ~crossed, NEW u \in Threads_, u # t
    PROVE  req[u] = None /\ pc[u] = "none"
BY SMT, RequestShape DEF IInv, Types, ThreadTypes, ThreadOK, Serial

\* A thread replies.
LEMMA Replied ==
    ASSUME IInv, NEW t \in Threads_, pc[t] # "none", Reply(t), crossed' = crossed
    PROVE  /\ ThreadTypes' /\ Serial'
           /\ pc'[t] = "none"
           /\ \A u \in Threads_ : u # t => pc'[u] = pc[u] /\ req'[u] = req[u] /\ val'[u] = val[u]
           /\ ~crossed => \A u \in Threads_ : pc'[u] = "none"
<1>1. \A u \in Threads_ : u # t => pc'[u] = pc[u] /\ req'[u] = req[u] /\ val'[u] = val[u]
    BY DEF Reply, IInv, Types, ThreadTypes
<1>2. pc'[t] = "none" /\ req'[t] = None
    BY DEF Reply, IInv, Types, ThreadTypes
<1>3. ThreadTypes'
    BY <1>1, <1>2 DEF Reply, IInv, Types, ThreadTypes, ThreadOK, Places
<1>4. Serial'
    BY <1>1, <1>2 DEF IInv, Serial
<1> QED BY <1>1, <1>2, <1>3, <1>4, Alone

\* A thread goes on.
LEMMA GoesOn ==
    ASSUME IInv, NEW t \in Threads_, pc[t] # "none", NEW place \in Places \ {"none"},
           Goto(t, place), At(place, req[t].op), crossed' = crossed
    PROVE  /\ ThreadTypes' /\ Serial'
           /\ pc'[t] = place /\ req' = req /\ val' = val
           /\ \A u \in Threads_ : u # t => pc'[u] = pc[u]
           /\ ~crossed => \A u \in Threads_ : u # t => pc'[u] = "none"
<1>1. \A u \in Threads_ : u # t => pc'[u] = pc[u]
    BY DEF Goto, IInv, Types, ThreadTypes
<1>2. pc'[t] = place /\ req' = req /\ val' = val
    BY DEF Goto, IInv, Types, ThreadTypes
<1>3. ThreadTypes'
    BY <1>1, <1>2 DEF Goto, IInv, Types, ThreadTypes, ThreadOK
<1>4. Serial'
    BY <1>2 DEF IInv, Serial
<1> QED BY <1>1, <1>2, <1>3, <1>4, Alone

\* ensure_data: the list in memory is as the map and the table need it.
LEMMA Ensured ==
    ASSUME IInv
    PROVE  /\ EnsuredApps \subseteq Keys(EnsuredList) \cup EnsuredChanged
           /\ EnsuredApps \subseteq installed \cup EnsuredChanged
           /\ \A e \in EnsuredList \ SystemEntries :
                  e[1] \in installed \ EnsuredChanged => e[1] \in EnsuredApps
           /\ ~crossed /\ ~failed /\ ~dead /\ (\A u \in Threads_ : pc[u] # "db") =>
                  EnsuredList \ SystemEntries = tables[table]
<1>1. CASE loaded
    BY <1>1 DEF IInv, MapInv, MapFollowsList, TableInv, EnsuredApps, EnsuredList, EnsuredChanged
<1>2. CASE ~loaded
    <2>1. tables[table] \cap SystemEntries = {}
        BY DenyAssumption DEF IInv, Types
    <2> QED BY <1>2, <2>1
        DEF EnsuredApps, EnsuredList, EnsuredChanged, Mapped, Rescanned, Keys
<1> QED BY <1>1, <1>2 DEF IInv, Types

\* What the work in memory leaves is a map that follows the list.
LEMMA LeaveMaps ==
    ASSUME IInv, NEW l, NEW a, Leave(l, a), installed' = installed,
           a \subseteq Keys(l) \cup EnsuredChanged,
           a \subseteq installed \cup EnsuredChanged,
           \A e \in l \ SystemEntries : e[1] \in installed \ EnsuredChanged => e[1] \in a
    PROVE  MapInv'
BY DEF Leave, MapInv, MapFollowsList, Keys

\* Steps that leave alone what a part of the invariant is about.
LEMMA Frames ==
    ASSUME IInv
    PROVE  /\ UNCHANGED <<memory, mon, monitor, installed, changed>> => MapInv'
           /\ UNCHANGED <<mon, monitor, enforced, crossed, tangled>> /\ ~dead => MonitorInv'
<1>1. UNCHANGED <<memory, mon, monitor, installed, changed>> => MapInv'
    BY SMT DEF IInv, MapInv, MapFollowsList, memory
<1>2. UNCHANGED <<mon, monitor, enforced, crossed, tangled>> /\ ~dead => MonitorInv'
    BY SMT DEF IInv, MonitorInv, Alive
<1> QED BY <1>1, <1>2

\* add_list in memory.
LEMMA AddWorkHolds == ASSUME IInv, NEW t \in Threads_, AddWork(t) PROVE IInv'
<1> DEFINE e == req[t].arg
<1> USE RequestShape DEF IInv
<1>0. /\ pc[t] = "locked" /\ req[t].op = "ADD" /\ ~dead /\ loaded' = TRUE
      /\ UNCHANGED <<modes, db, threads, device, dead, bounds, crossed, failed, tangled>>
    BY DEF AddWork, Working, Leave
<1>a. e \in Entries
    BY <1>0 DEF Types, ThreadTypes, ThreadOK
<1>1. CASE e \in EnsuredList
    <2>0. Reply(t) /\ Leave(EnsuredList, EnsuredApps)
        BY <1>1 DEF AddWork
    <2>1. /\ ThreadTypes' /\ Serial' /\ pc'[t] = "none"
          /\ ~crossed => \A u \in Threads_ : pc'[u] = "none"
        BY <1>0, <2>0, Replied
    <2>2. Types'
        BY <1>0, <2>1 DEF Types, modes, db, threads
    <2>3. MapInv'
        BY <1>0, <2>0, Ensured, LeaveMaps DEF device
    <2>4. TableInv'
        BY <1>0, <2>0, <2>1, Alone, Ensured DEF TableInv, Leave, modes, db
    <2>5. SwitchInv'
        BY <1>0, <2>1, Alone DEF SwitchInv, Switching, FoundOff, modes, db
    <2> QED BY <1>0, <2>1, <2>2, <2>3, <2>4, <2>5, Frames DEF modes, threads
<1>2. CASE e \notin EnsuredList
    <2>0. /\ Goto(t, "db")
          /\ Leave(EnsuredList \cup {e}, EnsuredApps \cup ({e[1]} \cap installed))
        BY <1>2 DEF AddWork
    <2>1. /\ ThreadTypes' /\ Serial' /\ pc'[t] = "db" /\ req' = req
          /\ ~crossed => \A u \in Threads_ : u # t => pc'[u] = "none"
        BY <1>0, <2>0, GoesOn DEF At, Places
    <2>2. Types'
        BY <1>0, <2>1 DEF Types, modes, db, threads
    <2>3. MapInv'
        <3>1. Keys(EnsuredList \cup {e}) = Keys(EnsuredList) \cup {e[1]}
            BY DEF Keys
        <3>2. EnsuredApps \cup ({e[1]} \cap installed) \subseteq
                  Keys(EnsuredList \cup {e}) \cup EnsuredChanged
            BY <3>1, Ensured
        <3>3. EnsuredApps \cup ({e[1]} \cap installed) \subseteq installed \cup EnsuredChanged
            BY Ensured
        <3>4. \A x \in (EnsuredList \cup {e}) \ SystemEntries :
                  x[1] \in installed \ EnsuredChanged =>
                      x[1] \in EnsuredApps \cup ({e[1]} \cap installed)
            BY Ensured
        <3> HIDE DEF e
        <3> QED BY <1>0, <2>0, <3>2, <3>3, <3>4, LeaveMaps DEF device
    <2>4. TableInv'
        <3> SUFFICES ASSUME ~crossed, ~failed, ~dead PROVE TableInv'
            BY <1>0 DEF TableInv
        <3>1. EnsuredList \ SystemEntries = tables[table]
            BY <1>0, Alone, Ensured
        <3>2. (EnsuredList \cup {e}) \ SystemEntries = tables[table] \cup {e}
            BY <1>a, <3>1, DenyAssumption
        <3>3. e \notin tables[table]
            BY <1>2, <3>1
        <3> QED BY <1>0, <2>0, <2>1, <3>2, <3>3 DEF TableInv, Leave, Written, modes, db
    <2>5. SwitchInv'
        BY <1>0, <2>1, Alone DEF SwitchInv, Switching, FoundOff, modes, db
    <2> QED BY <1>0, <2>1, <2>2, <2>3, <2>4, <2>5, Frames DEF modes, threads
<1> QED BY <1>1, <1>2

\* Entries that are gone take their package out of the map, if it has a data
\* directory.
LEMMA UnmappedMaps ==
    ASSUME IInv, NEW l, l \subseteq EnsuredList, Leave(l, Unmapped(l, EnsuredApps)),
           installed' = installed
    PROVE  MapInv'
<1>1. Unmapped(l, EnsuredApps) \subseteq Keys(l) \cup EnsuredChanged
    BY Ensured DEF Unmapped
<1>2. Unmapped(l, EnsuredApps) \subseteq installed \cup EnsuredChanged
    BY Ensured DEF Unmapped
<1>3. \A x \in l \ SystemEntries :
          x[1] \in installed \ EnsuredChanged => x[1] \in Unmapped(l, EnsuredApps)
    BY Ensured DEF Unmapped, Keys
<1> QED BY <1>1, <1>2, <1>3, LeaveMaps

\* rm_list in memory.
LEMMA RmWorkHolds == ASSUME IInv, NEW t \in Threads_, RmWork(t) PROVE IInv'
<1> DEFINE gone == Victims(req[t])
<1> USE RequestShape DEF IInv
<1>0. /\ pc[t] = "locked" /\ req[t].op \in {"REMOVE", "REMOVE_PKG"} /\ ~dead /\ loaded' = TRUE
      /\ UNCHANGED <<modes, db, threads, device, dead, bounds, crossed, failed, tangled>>
    BY DEF RmWork, Leave
<1>1. CASE gone = {}
    <2>0. Reply(t) /\ Leave(EnsuredList, EnsuredApps)
        BY <1>1 DEF RmWork
    <2>1. /\ ThreadTypes' /\ Serial' /\ pc'[t] = "none"
          /\ ~crossed => \A u \in Threads_ : pc'[u] = "none"
        BY <1>0, <2>0, Replied
    <2>2. Types'
        BY <1>0, <2>1 DEF Types, modes, db, threads
    <2>3. MapInv'
        BY <1>0, <2>0, Ensured, LeaveMaps DEF device
    <2>4. TableInv'
        BY <1>0, <2>0, <2>1, Alone, Ensured DEF TableInv, Leave, modes, db
    <2>5. SwitchInv'
        BY <1>0, <2>1, Alone DEF SwitchInv, Switching, FoundOff, modes, db
    <2> QED BY <1>0, <2>1, <2>2, <2>3, <2>4, <2>5, Frames DEF modes, threads
<1>2. CASE gone # {}
    <2>0. /\ Goto(t, "db")
          /\ Leave(EnsuredList \ gone, Unmapped(EnsuredList \ gone, EnsuredApps))
        BY <1>2 DEF RmWork
    <2>1. /\ ThreadTypes' /\ Serial' /\ pc'[t] = "db" /\ req' = req
          /\ ~crossed => \A u \in Threads_ : u # t => pc'[u] = "none"
        BY <1>0, <2>0, GoesOn DEF At, Places
    <2>2. Types'
        BY <1>0, <2>1 DEF Types, modes, db, threads
    <2>3. MapInv'
        BY SMT, <1>0, <2>0, UnmappedMaps DEF device
    <2>4. TableInv'
        <3> SUFFICES ASSUME ~crossed, ~failed, ~dead PROVE TableInv'
            BY <1>0 DEF TableInv
        <3>1. EnsuredList \ SystemEntries = tables[table]
            BY <1>0, Alone, Ensured
        <3>2. (EnsuredList \ gone) \ SystemEntries = Written(req[t], tables[table])
            BY <1>0, <3>1 DEF Victims, Written
        <3>3. req'[t].op # "ADD"
            BY <1>0, <2>1
        <3> QED BY <1>0, <2>0, <2>1, <3>2, <3>3 DEF TableInv, Leave, modes, db
    <2>5. SwitchInv'
        BY <1>0, <2>1, Alone DEF SwitchInv, Switching, FoundOff, modes, db
    <2> QED BY <1>0, <2>1, <2>2, <2>3, <2>4, <2>5, Frames DEF modes, threads
<1> QED BY <1>1, <1>2

\* ls_list.
LEMMA LsWorkHolds == ASSUME IInv, NEW t \in Threads_, LsWork(t) PROVE IInv'
<1> DEFINE out == {e \in EnsuredList :
                      \/ e[1] \in Pkgs /\ e[1] \notin installed
                      \/ e[1] = Isolated /\ Owner[e[2]] \notin EnsuredApps}
<1> USE RequestShape DEF IInv
<1>0. /\ pc[t] = "locked" /\ req[t].op = "LIST" /\ ~dead /\ loaded' = TRUE
      /\ Reply(t) /\ Leave(EnsuredList \ out, Unmapped(EnsuredList \ out, EnsuredApps))
      /\ \/ tables' = [tables EXCEPT ![table] = @ \ out] /\ UNCHANGED failed
         \/ failed' = TRUE /\ UNCHANGED tables
      /\ UNCHANGED <<modes, config, threads, device, dead, bounds, crossed, tangled>>
    BY DEF LsWork, Working, Leave
<1> HIDE DEF out
<1>1. /\ ThreadTypes' /\ Serial' /\ pc'[t] = "none"
      /\ ~crossed => \A u \in Threads_ : pc'[u] = "none"
    BY <1>0, Replied
<1>2. Types'
    <2>1. tables' \in [Tables -> SUBSET Entries]
        BY SMT, <1>0 DEF Types
    <2> QED BY <1>0, <1>1, <2>1 DEF Types, modes, threads
<1>3. MapInv'
    BY <1>0, UnmappedMaps DEF device
<1>4. TableInv'
    <2> SUFFICES ASSUME ~crossed', ~failed', ~dead' PROVE TableInv'
        BY DEF TableInv
    <2>1. tables' = [tables EXCEPT ![table] = @ \ out] /\ ~failed
        BY SMT, <1>0
    <2>2. EnsuredList \ SystemEntries = tables[table]
        BY <1>0, <2>1, Alone, Ensured
    <2>3. tables'[table] = tables[table] \ out
        BY <2>1 DEF Types
    <2> QED BY <1>0, <1>1, <2>2, <2>3 DEF TableInv, Leave, modes
<1>5. SwitchInv'
    BY SMT, <1>0, <1>1, Alone DEF SwitchInv, Switching, FoundOff, modes, Types
<1> QED BY <1>0, <1>1, <1>2, <1>3, <1>4, <1>5, Frames DEF modes, threads

\* The INSERT or DELETE.
LEMMA DbWriteHolds == ASSUME IInv, NEW t \in Threads_, DbWrite(t) PROVE IInv'
<1> USE RequestShape DEF IInv
<1>0. /\ pc[t] = "db" /\ req[t].op \in {"ADD", "REMOVE", "REMOVE_PKG"} /\ ~dead
      /\ Reply(t)
      /\ \/ tables' = [tables EXCEPT ![table] = Written(req[t], tables[table])] /\ UNCHANGED failed
         \/ failed' = TRUE /\ UNCHANGED tables
      /\ UNCHANGED <<memory, modes, config, threads, device, dead, crossed, tangled, changed>>
    BY DEF DbWrite, Written, Types, ThreadTypes, ThreadOK, At
<1>1. /\ ThreadTypes' /\ Serial' /\ pc'[t] = "none"
      /\ ~crossed => \A u \in Threads_ : pc'[u] = "none"
    BY <1>0, Replied
<1>2. Types'
    <2>1. req[t].op = "ADD" => req[t].arg \in Entries
        BY <1>0 DEF Types, ThreadTypes, ThreadOK
    <2>2. Written(req[t], tables[table]) \subseteq Entries
        BY <1>0, <2>1 DEF Written, Types
    <2>3. tables' \in [Tables -> SUBSET Entries]
        BY SMT, <1>0, <2>2 DEF Types
    <2> QED BY <1>0, <1>1, <2>3 DEF Types, memory, modes, threads
<1>3. TableInv'
    <2> SUFFICES ASSUME ~crossed', ~failed', ~dead', loaded' PROVE TableInv'
        BY DEF TableInv
    <2>1. tables' = [tables EXCEPT ![table] = Written(req[t], tables[table])] /\ ~failed
        BY SMT, <1>0
    <2>2. tables'[table] = Written(req[t], tables[table])
        BY <2>1 DEF Types
    <2> QED BY <1>0, <1>1, <2>1, <2>2 DEF TableInv, memory, modes
<1>4. SwitchInv'
    BY SMT, <1>0, <1>1, Alone DEF SwitchInv, Switching, FoundOff, memory, modes, Types
<1> QED BY <1>0, <1>1, <1>2, <1>3, <1>4, Frames DEF modes, threads, device

-----------------------------------------------------------------------------
(* The switch *)

\* The lock is taken, or a check before it passes or ends the request.
LEMMA PassHolds ==
    ASSUME IInv, NEW t \in Threads_, Acquire(t) \/ EnableCheck(t) \/ DisableCheck(t)
    PROVE  IInv'
<1> USE RequestShape DEF IInv
<1>0. /\ ~dead /\ pc[t] \in {"lock", "check"}
      /\ UNCHANGED <<memory, modes, db, threads, device, dead, bounds, ghosts>>
    BY DEF Acquire, EnableCheck, DisableCheck
<1>a. crossed' = crossed
    BY <1>0 DEF ghosts
<1>1. CASE Reply(t)
    <2>1. /\ ThreadTypes' /\ Serial' /\ pc'[t] = "none"
          /\ ~crossed => \A u \in Threads_ : pc'[u] = "none"
        BY <1>0, <1>a, <1>1, Replied
    <2>2. Types'
        BY <1>0, <2>1 DEF Types, memory, modes, db, threads, ghosts
    <2>3. TableInv'
        BY <1>0, <2>1, Alone DEF TableInv, memory, modes, db, ghosts
    <2>4. ~crossed => ~Switching(t)
        <3>1. CASE EnableCheck(t)
            <4>1. enforced
                BY <1>1, <3>1 DEF EnableCheck, Goto, Reply, Types, ThreadTypes
            <4> QED BY <1>0, <3>1, <4>1 DEF EnableCheck, Switching, SwitchInv, FoundOff
        <3>2. CASE ~EnableCheck(t)
            BY <1>1, <3>2 DEF Acquire, DisableCheck, Switching, Reply, Goto, Types, ThreadTypes
        <3> QED BY <3>1, <3>2
    <2>5. SwitchInv'
        BY <1>0, <2>1, <2>4, Alone DEF SwitchInv, Switching, FoundOff, memory, modes, db, ghosts
    <2> QED BY <1>0, <2>1, <2>2, <2>3, <2>5, Frames DEF modes, threads, device, ghosts
<1>2. ASSUME NEW place \in {"locked", "lock", "stop"}, Goto(t, place), At(place, req[t].op),
             /\ place = "stop" => req[t].op = "DISABLE"
             /\ place = "lock" => ~enforced
             /\ place = "locked" => pc[t] = "lock"
      PROVE  IInv'
    <2>1. /\ ThreadTypes' /\ Serial' /\ pc'[t] = place /\ req' = req /\ val' = val
          /\ ~crossed => \A u \in Threads_ : u # t => pc'[u] = "none"
        BY <1>0, <1>a, <1>2, GoesOn DEF Places
    <2>2. Types'
        BY <1>0, <2>1 DEF Types, memory, modes, db, threads, ghosts
    <2>3. TableInv'
        BY <1>0, <1>2, <2>1, Alone DEF TableInv, memory, modes, db, ghosts
    <2>4. ~crossed /\ (\A u \in Threads_ : ~Switching(u)') => \A u \in Threads_ : ~Switching(u)
        BY <1>0, <1>2, <2>1, Alone DEF Switching
    <2>5. ~crossed /\ ~dead => ~FoundOff(t)' \/ ~enforced
        BY <1>0, <1>2, <2>1 DEF SwitchInv, FoundOff
    <2>6. \A u \in Threads_ : ~crossed /\ u # t => ~Switching(u)' /\ ~FoundOff(u)'
        BY <2>1 DEF Switching, FoundOff
    <2>7. SwitchInv'
        BY <1>0, <1>2, <2>1, <2>4, <2>5, <2>6 DEF SwitchInv, modes, db, memory, ghosts
    <2> QED BY <1>0, <2>1, <2>2, <2>3, <2>7, Frames DEF modes, threads, device, ghosts
<1>3. At(pc[t], req[t].op)
    BY <1>0 DEF Types, ThreadTypes, ThreadOK
<1> QED BY <1>1, <1>2, <1>3 DEF Acquire, EnableCheck, DisableCheck, At

\* A request fails before it changes anything but the mode.
LEMMA FailHolds ==
    ASSUME IInv, NEW t \in Threads_, LoadFails(t) \/ EnableNoNs(t)
    PROVE  IInv'
<1> USE RequestShape DEF IInv
<1>0. /\ ~dead /\ pc[t] = "locked" /\ Reply(t) /\ failed' = TRUE
      /\ UNCHANGED <<memory, enforced, tables, threads, device, dead, crossed, tangled, changed>>
    BY DEF LoadFails, EnableNoNs, modes, db
<1>1. /\ ThreadTypes' /\ Serial' /\ pc'[t] = "none"
      /\ ~crossed => \A u \in Threads_ : pc'[u] = "none"
    BY <1>0, Replied
<1>2. Types'
    BY <1>0, <1>1 DEF LoadFails, EnableNoNs, Types, Tables, memory, modes, db, threads
<1>3. TableInv' /\ SwitchInv'
    BY <1>0, <1>1 DEF TableInv, SwitchInv, Switching, FoundOff
<1> QED BY <1>0, <1>1, <1>2, <1>3, Frames DEF threads, device

\* enable_deny under the lock.
LEMMA EnableWorkHolds == ASSUME IInv, NEW t \in Threads_, EnableWork(t) PROVE IInv'
<1> USE RequestShape DEF IInv
<1>0. /\ ~dead /\ pc[t] = "locked" /\ req[t].op \in {"ENFORCE", "INIT"} /\ loaded' = TRUE
      /\ UNCHANGED <<sulist, table, db, monitor, dirty, handlers, device, dead, crossed>>
    BY DEF EnableWork, Leave
<1>a. ~crossed => ~enforced
    BY <1>0 DEF SwitchInv, FoundOff
<1>1. ASSUME enforced' = TRUE, NEW m \in Monitors, mon[m] = "none",
             mon' = [mon EXCEPT ![m] = "created"],
             tangled' = (tangled \/ \E n \in Monitors : mon[n] \notin {"none", "ended"}),
             Leave(Rescanned(EnsuredList), EnsuredApps), Goto(t, "load"), UNCHANGED failed
      PROVE  IInv'
    <2>1. /\ ThreadTypes' /\ Serial' /\ pc'[t] = "load" /\ req' = req /\ val' = val
          /\ ~crossed => \A u \in Threads_ : u # t => pc'[u] = "none"
        BY <1>0, <1>1, GoesOn DEF At, Places
    <2>2. Types'
        BY <1>0, <1>1, <2>1 DEF Types, db
    <2>3. MapInv'
        <3>1. Keys(EnsuredList) \subseteq Keys(Rescanned(EnsuredList))
            BY DEF Keys, Rescanned
        <3>2. Rescanned(EnsuredList) \ SystemEntries = EnsuredList \ SystemEntries
            BY DEF Rescanned
        <3> QED BY <1>0, <1>1, <3>1, <3>2, Ensured, LeaveMaps DEF device
    <2>4. TableInv'
        <3>1. Rescanned(EnsuredList) \ SystemEntries = EnsuredList \ SystemEntries
            BY DEF Rescanned
        <3> QED BY <1>0, <1>1, <2>1, <3>1, Alone, Ensured DEF TableInv, Leave, db
    <2>5. SwitchInv'
        BY <1>0, <1>1, <2>1 DEF SwitchInv, Switching, FoundOff
    <2>6. MonitorInv'
        <3> SUFFICES ASSUME ~crossed', ~tangled', ~dead' PROVE MonitorInv'
            BY DEF MonitorInv
        <3>1. ~tangled /\ \A n \in Monitors : mon[n] \in {"none", "ended"}
            BY <1>1
        <3>2. monitor = None
            BY <1>0, <3>1 DEF MonitorInv, Types
        <3>3. mon'[m] = "created" /\ \A n \in Monitors : n # m => mon'[n] = mon[n]
            BY <1>1 DEF Types
        <3>4. \A n \in Monitors : n # m => mon'[n] \in {"none", "ended"}
            BY <3>1, <3>3
        <3>5. m \in Alive'
            BY <3>3 DEF Alive
        <3> QED BY <1>0, <1>1, <3>2, <3>3, <3>4, <3>5 DEF MonitorInv
    <2> QED BY <2>1, <2>2, <2>3, <2>4, <2>5, <2>6
<1>2. ASSUME enforced' = FALSE, Leave(EnsuredList, EnsuredApps), failed' = TRUE, Reply(t),
             UNCHANGED <<mon, tangled>>
      PROVE  IInv'
    <2>1. /\ ThreadTypes' /\ Serial' /\ pc'[t] = "none"
          /\ ~crossed => \A u \in Threads_ : pc'[u] = "none"
        BY <1>0, <1>2, Replied
    <2>2. Types'
        BY <1>0, <1>2, <2>1 DEF Types, db
    <2>3. MapInv'
        BY <1>0, <1>2, Ensured, LeaveMaps DEF device
    <2>4. TableInv' /\ SwitchInv'
        BY <1>0, <1>2, <2>1 DEF TableInv, SwitchInv, Switching, FoundOff
    <2>5. MonitorInv'
        BY <1>0, <1>a, <1>2 DEF MonitorInv, Alive
    <2> QED BY <2>1, <2>2, <2>3, <2>4, <2>5
<1> QED BY <1>1, <1>2 DEF EnableWork

\* disable_deny tells the monitor to stop.
LEMMA DisableStopHolds == ASSUME IInv, NEW t \in Threads_, DisableStop(t) PROVE IInv'
<1> USE RequestShape DEF IInv
<1>0. /\ ~dead /\ pc[t] = "stop" /\ req[t].op = "DISABLE" /\ enforced' = FALSE /\ Goto(t, "load")
      /\ UNCHANGED <<memory, sulist, table, db, monitor, device, crossed, failed, changed>>
    BY DEF DisableStop, Types, ThreadTypes, ThreadOK, At
<1>1. /\ ThreadTypes' /\ Serial' /\ pc'[t] = "load" /\ req' = req /\ val' = val
      /\ ~crossed => \A u \in Threads_ : u # t => pc'[u] = "none"
    BY <1>0, GoesOn DEF At, Places
<1>2. Types'
    BY <1>0, <1>1 DEF DisableStop, Types, memory, db
<1>3. MapInv'
    BY SMT, <1>0 DEF DisableStop, MapInv, MapFollowsList, Types, memory, device
<1>4. TableInv'
    BY <1>0, <1>1, Alone DEF TableInv, memory, db
<1>5. SwitchInv'
    BY <1>0, <1>1 DEF SwitchInv, Switching, FoundOff
<1>6. MonitorInv'
    <2> SUFFICES ASSUME ~crossed', ~tangled', ~dead' PROVE MonitorInv'
        BY DEF MonitorInv
    <2>1. CASE ~enforced
        <3>1. mon' = mon /\ tangled' = tangled /\ dead' = dead
            BY <2>1 DEF DisableStop
        <3>2. Alive' = Alive /\ monitor' = monitor /\ ~enforced'
            BY <1>0, <3>1 DEF Alive
        <3> QED BY <1>0, <2>1, <3>1, <3>2 DEF MonitorInv
    <2>2. CASE enforced
        <3>1. monitor # None /\ mon' = [mon EXCEPT ![monitor] = "stopping"] /\ tangled' = tangled
            BY <2>2 DEF DisableStop
        <3>2. mon'[monitor] = "stopping" /\ \A n \in Monitors : n # monitor => mon'[n] = mon[n]
            BY <3>1 DEF Types
        <3>3. mon[monitor] \in {"running", "stopping"}
            BY <1>0, <3>1 DEF MonitorInv
        <3> QED BY ZenonT(30), <1>0, <3>1, <3>2, <3>3 DEF MonitorInv, Alive, Types
    <2> QED BY <2>1, <2>2
<1> QED BY <1>1, <1>2, <1>3, <1>4, <1>5, <1>6

\* The flag is read, then stored.
LEMMA LoadFlagHolds == ASSUME IInv, NEW t \in Threads_, LoadFlag(t) PROVE IInv'
<1> USE RequestShape DEF IInv
<1>0. /\ ~dead /\ pc[t] = "load" /\ req[t].op \in {"ENFORCE", "DISABLE", "INIT"} /\ req' = req
      /\ val' = [val EXCEPT ![t] = enforced] /\ pc' = [pc EXCEPT ![t] = "write"]
      /\ UNCHANGED <<memory, modes, db, threads, device, dead, ghosts>>
    BY DEF LoadFlag, Types, ThreadTypes, ThreadOK, At
<1>1. pc'[t] = "write" /\ val'[t] = enforced /\ \A u \in Threads_ : u # t => pc'[u] = pc[u]
    BY <1>0 DEF Types, ThreadTypes
<1>2. Types'
    <2>1. ThreadTypes'
        BY SMT, <1>0, <1>1 DEF Types, ThreadTypes, ThreadOK, At, Places
    <2> QED BY <1>0, <2>1 DEF Types, memory, modes, db, threads, ghosts
<1>3. Serial'
    BY <1>0 DEF Serial, ghosts
<1>4. TableInv'
    BY <1>0, <1>1, Alone DEF TableInv, memory, modes, db, ghosts
<1>5. SwitchInv'
    BY <1>0, <1>1, Alone DEF SwitchInv, Switching, FoundOff, modes, ghosts
<1> QED BY <1>0, <1>2, <1>3, <1>4, <1>5, Frames DEF modes, threads, device, ghosts

\* update_deny_config and update_sulist_config.
LEMMA StoreFlagHolds == ASSUME IInv, NEW t \in Threads_, StoreFlag(t) PROVE IInv'
<1> USE RequestShape DEF IInv
<1>0. /\ ~dead /\ pc[t] = "write" /\ Reply(t)
      /\ UNCHANGED <<memory, modes, tables, threads, device, dead, crossed, tangled, changed>>
    BY DEF StoreFlag
<1>1. /\ ThreadTypes' /\ Serial' /\ pc'[t] = "none"
      /\ ~crossed => \A u \in Threads_ : pc'[u] = "none"
    BY <1>0, Replied
<1>2. Types'
    <2>1. config' \in [denylist : BOOLEAN, sulist : BOOLEAN] /\ failed' \in BOOLEAN
        BY DEF StoreFlag, Types, ThreadTypes
    <2> QED BY <1>0, <1>1, <2>1 DEF Types, memory, modes, threads
<1>3. TableInv'
    BY SMT, <1>0, <1>1, Alone DEF StoreFlag, TableInv, memory, modes
<1>4. SwitchInv'
    <2> SUFFICES ASSUME ~crossed', ~dead' PROVE SwitchInv'
        BY DEF SwitchInv
    <2>1. ASSUME ~failed' PROVE config'.denylist = enforced'
        <3>1. CASE req[t].op \in {"ENFORCE_SULIST", "DISABLE_SULIST"}
            <4>1. config'.denylist = config.denylist /\ ~failed
                BY SMT, <2>1, <3>1 DEF StoreFlag, Types
            <4>2. \A u \in Threads_ : ~Switching(u)
                BY <1>0, <3>1, Alone DEF Switching
            <4> QED BY <1>0, <4>1, <4>2 DEF SwitchInv, modes
        <3>2. CASE req[t].op \notin {"ENFORCE_SULIST", "DISABLE_SULIST"}
            <4>1. config'.denylist = val[t] /\ ~failed
                BY SMT, <2>1, <3>2 DEF StoreFlag, Types, ThreadTypes
            <4>2. Switching(t)
                BY <1>0, <3>2 DEF Switching, Types, ThreadTypes, ThreadOK, At
            <4> QED BY <1>0, <4>1, <4>2 DEF SwitchInv, modes
        <3> QED BY <3>1, <3>2
    <2> QED BY <1>0, <1>1, <2>1 DEF SwitchInv, Switching, FoundOff
<1> QED BY <1>0, <1>1, <1>2, <1>3, <1>4, Frames DEF modes, threads, device

\* initialize_denylist reads the mode.
LEMMA InitReadHolds == ASSUME IInv, InitRead PROVE IInv'
<1> USE RequestShape DEF IInv
<1>0. /\ ~dead /\ pc[Boot] = "init" /\ req[Boot].op = "INIT" /\ table' \in Tables /\ sulist' \in BOOLEAN
      /\ UNCHANGED <<memory, enforced, db, threads, device, dead, bounds, ghosts>>
    BY DEF InitRead, Types, ThreadTypes, ThreadOK, At, Tables
<1>a. crossed' = crossed
    BY <1>0 DEF ghosts
<1>b. ~crossed => ~loaded /\ ~enforced
    BY <1>0 DEF SwitchInv, FoundOff
<1>1. ASSUME enforced \/ ~config.denylist, Reply(Boot) PROVE IInv'
    <2>1. /\ ThreadTypes' /\ Serial' /\ pc'[Boot] = "none"
          /\ ~crossed => \A u \in Threads_ : pc'[u] = "none"
        BY <1>0, <1>a, <1>1, Replied
    <2>2. Types'
        BY <1>0, <2>1 DEF Types, memory, db, threads, ghosts
    <2>3. TableInv'
        BY <1>0, <1>b DEF TableInv, memory, ghosts
    <2>4. SwitchInv'
        BY <1>0, <1>b, <1>1, <2>1 DEF SwitchInv, Switching, FoundOff, db, ghosts, Types
    <2> QED BY <1>0, <2>1, <2>2, <2>3, <2>4, Frames DEF threads, device, ghosts
<1>2. ASSUME Goto(Boot, "check") PROVE IInv'
    <2>1. /\ ThreadTypes' /\ Serial' /\ pc'[Boot] = "check" /\ req' = req
          /\ ~crossed => \A u \in Threads_ : u # Boot => pc'[u] = "none"
        BY <1>0, <1>a, <1>2, GoesOn DEF At, Places
    <2>2. Types'
        BY <1>0, <2>1 DEF Types, memory, db, threads, ghosts
    <2>3. TableInv'
        BY <1>0, <1>b DEF TableInv, memory, ghosts
    <2>4. SwitchInv'
        BY <1>0, <1>b, <2>1 DEF SwitchInv, Switching, FoundOff, ghosts
    <2> QED BY <1>0, <2>1, <2>2, <2>3, <2>4, Frames DEF threads, device, ghosts
<1> QED BY <1>1, <1>2 DEF InitRead

-----------------------------------------------------------------------------
\* Every step keeps the invariant.
LEMMA NextHolds == IInv /\ [Next]_vars => IInv'
<1> SUFFICES ASSUME IInv, [Next]_vars PROVE IInv'
    OBVIOUS
<1>1. ASSUME NEW t \in Threads_, Serve(t) PROVE IInv'
    BY <1>1, PassHolds, FailHolds, AddWorkHolds, RmWorkHolds, LsWorkHolds, DbWriteHolds,
       EnableWorkHolds, DisableStopHolds, LoadFlagHolds, StoreFlagHolds, InitReadHolds
    DEF Serve
<1>2. CASE UNCHANGED vars
    <2> USE <1>2 DEF vars, memory, modes, db, threads, device, ghosts, IInv
    <2>1. Types'
        BY ZenonT(30), ThreadsStay DEF Types
    <2>2. MapInv' /\ Serial'
        BY DEF MapInv, MapFollowsList, Serial
    <2>3. TableInv'
        BY DEF TableInv
    <2>4. SwitchInv'
        BY DEF SwitchInv, Switching, FoundOff
    <2>5. MonitorInv'
        BY DEF MonitorInv, Alive
    <2> QED BY <2>1, <2>2, <2>3, <2>4, <2>5
<1> QED BY <1>1, <1>2, SubmitHolds, MonitorStartsHolds, MonitorEndsHolds, RescansHold, DeviceHolds,
           RebootHolds
    DEF Next

\* The invariant of the list, the table, the switch and the monitor.
THEOREM Inductive == Spec => []IInv
BY InitHolds, NextHolds, PTL DEF Spec

\* app_id_to_pkgs leads to keys of pkg_to_procs, but for packages that came or
\* went since the last rescan, and finds all the others that are listed and
\* installed.
THEOREM MapCorrect == Spec => []MapFollowsList
<1>1. IInv => MapFollowsList
    BY DEF IInv, MapInv
<1> QED BY <1>1, Inductive, PTL

\* add_list, rm_list and the switch leave the database as the memory when no two
\* requests overlap and none fails.
THEOREM StoredCorrect == Spec => []ListIsStored
<1>1. ASSUME IInv PROVE ListIsStored
    BY SMT, <1>1, RequestShape
    DEF IInv, Types, ThreadTypes, ThreadOK, TableInv, SwitchInv, Switching, Idle, ListIsStored, At
<1> QED BY <1>1, Inductive, PTL

\* enable_deny and disable_deny keep one monitor with the switch on and none with
\* it off.
THEOREM MonitorCorrect == Spec => []OneMonitor
<1>1. IInv => OneMonitor
    BY DEF IInv, MonitorInv, OneMonitor, Alive
<1> QED BY <1>1, Inductive, PTL
=============================================================================
