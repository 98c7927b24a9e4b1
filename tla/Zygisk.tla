------------------------------- MODULE Zygisk -------------------------------
(***************************************************************************)
(* Zygisk between magiskd and the processes of zygote                      *)
(* (native/src/core/zygisk/{daemon.rs,entry.cpp,module.cpp}).              *)
(*                                                                         *)
(* load_modules puts the loader into the native bridge property, so that   *)
(* the next zygote is injected.  A child of an injected zygote asks magiskd*)
(* which modules to load (GetInfo), and a module may ask for its companion,*)
(* which runs as root in zygiskd, one process per ABI that magiskd starts  *)
(* on demand (ConnectCompanion).  Every stop of zygote is reported to      *)
(* magiskd, which drops both zygiskd and counts: after too many stops in   *)
(* one boot it puts the property back.                                     *)
(***************************************************************************)
EXTENDS Naturals, Sequences, Functions

CONSTANTS Procs,        \* children of zygote
          Companions,   \* identities for zygiskd processes
          None,         \* no process, no module
          Role,         \* Role[p]: "app", "manager" or "server"
          Abi,          \* Abi[p]: "32" or "64"
          Lib,          \* Lib[i][abi]: "none", "bad" or "good", for module i of module_list
          ZygiskDir,    \* the modules that have a directory zygisk
          HasEntry,     \* the modules that export zygisk_companion_entry
          Scenes        \* bounds: which children are forked, and how often zygote stops

Abis == {"32", "64"}
Ids == DOMAIN Lib

ASSUME ZygiskAssumption ==
    /\ None \notin Procs \cup Companions \cup Ids
    /\ Role \in [Procs -> {"app", "manager", "server"}] /\ Abi \in [Procs -> Abis]
    /\ Lib \in Seq([Abis -> {"none", "bad", "good"}])
    /\ ZygiskDir \subseteq Ids /\ HasEntry \subseteq Ids
    /\ \A sc \in Scenes : sc.procs \subseteq Procs /\ sc.stops \in Nat

VARIABLES
    scene,      \* one of Scenes
    enabled,    \* zygisk_enabled
    stage,      \* post-fs-data: "scripts", "loaded" (load_modules ran) or "done"
    prop,       \* the native bridge property: "original" or "loader"
    zygote,     \* "down", "injected" or "plain"
    stops,      \* how often zygote stopped
    resets,     \* zygisk_reset(false) calls: resets.wait before the mutex,
                \* resets.count before fetch_add
    restoring,  \* zygisk_reset calls about to restore the property
    count,      \* zygote_start_count
    booted,     \* boot_complete called zygisk_reset(true)
    sockets,    \* zygiskd_sockets: the zygiskd that the stored socket leads to
    lock,       \* the request that holds zygiskd_sockets
    pc,         \* pc[p]: how far child p is
    fds,        \* fds[p]: p received the modules' fds
    id,         \* id[p]: the module of p that asks for its companion
    h,          \* h[p]: how far the thread is that serves p's request
    wire,       \* wire[p]: what was written to p's first connection
    comp,       \* comp[d]: "dead", "loading", "ready" or "reading"
    abi,        \* abi[d]: which zygiskd d is
    acked,      \* acked[d]: d has written its ack, and magiskd has not read it
    inbox,      \* inbox[d]: the clients sent to d that it has not received
    client,     \* client[d]: the client whose module ID d reads
    task,       \* task[p]: the companion that serves p, zygiskd and module
    unloaded,   \* modules with the marker file "unloaded"
    counted,    \* ghost: restarts counted since zygote_start_count was stored
    early       \* ghost: a zygote started before module_list was set

boot == <<scene, enabled, stage, early>>
bridge == <<prop, zygote, stops, resets, restoring, count, booted, counted>>
children == <<pc, fds, id>>
threads == <<h, wire, lock, sockets>>
companions == <<comp, abi, acked, inbox, client, task>>
vars == <<boot, bridge, children, threads, companions, unloaded>>

\* zygisk_should_load_module: no module in the manager.  (Nothing sets the
\* flags of the deny list, update_deny_flags is empty.)
ShouldLoad(p) == Role[p] # "manager"

\* run_modules_pre: the modules that p loads, and the ones that it reports.
Loaded(p) == {i \in Ids : Lib[i][Abi[p]] = "good"}

Failed(p) == {i \in Ids : Lib[i][Abi[p]] = "none" \/ Lib[i][Abi[p]] = "bad"}

EntriesPacked(a) ==
    SelectSeq([i \in Ids |-> IF Lib[i][a] = "good" THEN i ELSE None], LAMBDA m : m # None)

\* zygiskd: its vector of companion entries, one element per fd received.
Entries(a) ==
    [i \in Ids |-> IF Lib[i][a] = "good" /\ i \in HasEntry THEN i ELSE None]

Alive(d) == comp[d] # "dead"

\* The other end of the socket to d is open: in d, and in magiskd itself while
\* connect_zygiskd waits for the ack, because "remote" lives to the end of the
\* block that creates the pair.
RemoteOpen(d) == Alive(d) \/ \E p \in Procs : h[p] = "ack" /\ sockets[Abi[p]] = d

\* There is a stored socket, and poll reports nothing about it.
Connected(a) == \E d \in Companions : sockets[a] = d /\ RemoteOpen(d)

\* Somebody holds the other end of p's connection.
Held(p) ==
    \/ h[p] # "done"
    \/ \E d \in Companions : Alive(d) /\ (p \in Range(inbox[d]) \/ client[d] = p)
    \/ task[p] # None

Init ==
    /\ scene \in Scenes /\ enabled \in BOOLEAN /\ stage = "scripts" /\ early = FALSE
    /\ prop = "original" /\ zygote = "down" /\ stops = 0
    /\ resets = [wait |-> 0, count |-> 0] /\ restoring = 0
    /\ count = 1 /\ booted = FALSE /\ counted = 0
    /\ sockets = [a \in Abis |-> None] /\ lock = None
    /\ pc = [p \in Procs |-> "unborn"] /\ fds = [p \in Procs |-> FALSE]
    /\ id = [p \in Procs |-> None]
    /\ h = [p \in Procs |-> "done"] /\ wire = [p \in Procs |-> {}]
    /\ comp = [d \in Companions |-> "dead"] /\ abi = [d \in Companions |-> "32"]
    /\ acked = [d \in Companions |-> FALSE]
    /\ inbox = [d \in Companions |-> <<>>] /\ client = [d \in Companions |-> None]
    /\ task = [p \in Procs |-> None]
    /\ unloaded = {}
-----------------------------------------------------------------------------
(* The boot, zygote and the native bridge property. *)

\* load_modules sets the property, if Zygisk is on.
LoadModules ==
    /\ stage = "scripts" /\ stage' = "loaded"
    /\ prop' = IF enabled THEN "loader" ELSE prop
    /\ UNCHANGED <<scene, enabled, early, zygote, stops, resets, restoring, count, booted, counted,
                   children, threads, companions, unloaded>>

\* post_fs_data sets module_list and ends.
SetModuleList ==
    /\ stage = "loaded" /\ stage' = "done"
    /\ UNCHANGED <<scene, enabled, early, bridge, children, threads, companions, unloaded>>

\* init starts zygote after post-fs-data, or earlier when the client that waits
\* for it times out.  The property decides whether it is injected.
ZygoteStarts ==
    /\ zygote = "down" /\ zygote' = IF prop = "loader" THEN "injected" ELSE "plain"
    /\ early' = (early \/ stage # "done")
    /\ UNCHANGED <<scene, enabled, stage, prop, stops, resets, restoring, count, booted, counted,
                   children, threads, companions, unloaded>>

\* zygote stops; init runs magisk --zygote-restart.
ZygoteStops ==
    /\ zygote # "down" /\ stops < scene.stops
    /\ zygote' = "down" /\ stops' = stops + 1
    /\ resets' = IF enabled THEN [resets EXCEPT !.wait = @ + 1] ELSE resets
    /\ UNCHANGED <<boot, prop, restoring, count, booted, counted, children, threads,
                   companions, unloaded>>

\* zygisk_reset(false): both sockets are closed under the mutex.
ResetSockets ==
    /\ resets.wait > 0 /\ lock = None
    /\ resets' = [wait |-> resets.wait - 1, count |-> resets.count + 1]
    /\ sockets' = [a \in Abis |-> None]
    /\ UNCHANGED <<boot, prop, zygote, stops, restoring, count, booted, counted, children,
                   h, wire, lock, companions, unloaded>>

ResetCountMore ==
    /\ resets.count > 0 /\ resets' = [resets EXCEPT !.count = @ - 1]
    /\ count' = count + 1 /\ counted' = counted + 1
    /\ restoring' = IF count > 4 THEN restoring + 1 ELSE restoring
    /\ UNCHANGED <<boot, prop, zygote, stops, booted, children, threads, companions, unloaded>>

\* zygisk_reset(false): fetch_add, and whether to roll back.
ResetCount ==
    /\ resets.count > 0 /\ resets' = [resets EXCEPT !.count = @ - 1]
    /\ count' = count + 1 /\ counted' = counted + 1
    /\ restoring' = IF count > 3 THEN restoring + 1 ELSE restoring
    /\ UNCHANGED <<boot, prop, zygote, stops, booted, children, threads, companions, unloaded>>

\* zygisk_reset(true), from boot_complete, which runs after post-fs-data.
BootComplete ==
    /\ stage = "done" /\ zygote # "down" /\ enabled /\ ~booted
    /\ booted' = TRUE /\ count' = 1 /\ counted' = 0 /\ restoring' = restoring + 1
    /\ UNCHANGED <<boot, prop, zygote, stops, resets, children, threads, companions, unloaded>>

\* restore_zygisk_prop.
Restore ==
    /\ restoring > 0 /\ restoring' = restoring - 1 /\ prop' = "original"
    /\ UNCHANGED <<boot, zygote, stops, resets, count, booted, counted, children, threads,
                   companions, unloaded>>
-----------------------------------------------------------------------------
(* GetInfo: a child and get_process_info. *)

\* get_module_info: the child is forked and sends its request.
Ask(p) ==
    /\ p \in scene.procs /\ zygote = "injected" /\ pc[p] = "unborn"
    /\ pc' = [pc EXCEPT ![p] = "asked"] /\ h' = [h EXCEPT ![p] = "flags"]
    /\ UNCHANGED <<boot, bridge, fds, id, wire, lock, sockets, companions, unloaded>>

\* get_process_info writes the flags.
SendFlags(p) ==
    /\ h[p] = "flags" /\ h' = [h EXCEPT ![p] = "fds"]
    /\ wire' = [wire EXCEPT ![p] = {"flags"}]
    /\ UNCHANGED <<boot, bridge, children, lock, sockets, companions, unloaded>>

\* get_process_info sends the modules' fds if there is a module_list, and is
\* done unless this is system_server.
SendFds(p) ==
    /\ h[p] = "fds"
    /\ h' = [h EXCEPT ![p] = IF Role[p] = "server" THEN "failed" ELSE "done"]
    /\ wire' = [wire EXCEPT ![p] = IF ShouldLoad(p) /\ stage = "done" THEN @ \cup {"fds"} ELSE @]
    /\ UNCHANGED <<boot, bridge, children, lock, sockets, companions, unloaded>>

\* get_module_info reads the flags.
ReadFlags(p) ==
    /\ pc[p] = "asked" /\ "flags" \in wire[p]
    /\ pc' = [pc EXCEPT ![p] = IF ShouldLoad(p) THEN "fds" ELSE "loaded"]
    /\ UNCHANGED <<boot, bridge, fds, id, threads, companions, unloaded>>

\* recv_fds, then run_modules_pre.  system_server reports the modules that
\* failed, an empty list if it got no fds.  At the end of the connection recv_fds
\* returns no fd.
ReadFds(p) ==
    /\ pc[p] = "fds" /\ ("fds" \in wire[p] \/ h[p] = "done")
    /\ pc' = [pc EXCEPT ![p] = IF Role[p] = "server" THEN "reported" ELSE "loaded"]
    /\ fds' = [fds EXCEPT ![p] = "fds" \in wire[p]]
    /\ wire' = [wire EXCEPT ![p] = IF Role[p] = "server" THEN @ \cup {"report"} ELSE @]
    /\ UNCHANGED <<boot, bridge, id, h, lock, sockets, companions, unloaded>>

\* get_process_info reads the failed modules and marks them, or finds that
\* system_server is gone.
MarkUnloaded(p) ==
    /\ h[p] = "failed" /\ ("report" \in wire[p] \/ pc[p] = "dead")
    /\ h' = [h EXCEPT ![p] = "done"]
    /\ unloaded' = IF "report" \in wire[p] /\ fds[p] THEN unloaded \cup (Failed(p) \cap ZygiskDir)
                   ELSE unloaded
    /\ pc' = [pc EXCEPT ![p] = IF @ = "reported" THEN "loaded" ELSE @]
    /\ UNCHANGED <<boot, bridge, fds, id, wire, lock, sockets, companions>>
-----------------------------------------------------------------------------
(* ConnectCompanion: connect_zygiskd. *)

\* connectCompanion opens the connection: the request waits for the mutex.
Connect(p, i) ==
    /\ pc[p] = "loaded" /\ fds[p] /\ i \in Loaded(p) /\ id[p] = None
    /\ pc' = [pc EXCEPT ![p] = "code"] /\ id' = [id EXCEPT ![p] = i]
    /\ h' = [h EXCEPT ![p] = "lock"] /\ wire' = [wire EXCEPT ![p] = {}]
    /\ UNCHANGED <<boot, bridge, fds, lock, sockets, companions, unloaded>>

\* connectCompanion writes the ABI, then the module's ID.
WriteAbi(p) ==
    /\ pc[p] = "code" /\ pc' = [pc EXCEPT ![p] = "abi"]
    /\ UNCHANGED <<boot, bridge, fds, id, threads, companions, unloaded>>

WriteId(p) ==
    /\ pc[p] = "abi" /\ pc' = [pc EXCEPT ![p] = "id"]
    /\ UNCHANGED <<boot, bridge, fds, id, threads, companions, unloaded>>

Lock(p) ==
    /\ h[p] = "lock" /\ lock = None /\ lock' = p /\ h' = [h EXCEPT ![p] = "abi"]
    /\ UNCHANGED <<boot, bridge, children, wire, sockets, companions, unloaded>>

ReadAbiFailsLocked(p) ==
    /\ h[p] = "abi" /\ pc[p] = "dead"
    /\ h' = [h EXCEPT ![p] = "done"]
    /\ UNCHANGED <<boot, bridge, children, wire, lock, sockets, companions, unloaded>>

\* The client is gone before it wrote the ABI.
ReadAbiFails(p) ==
    /\ h[p] = "abi" /\ pc[p] = "dead"
    /\ h' = [h EXCEPT ![p] = "done"] /\ lock' = None
    /\ UNCHANGED <<boot, bridge, children, wire, sockets, companions, unloaded>>

\* The stored zygiskd is still there.
UseZygiskd(p) ==
    /\ h[p] = "abi" /\ pc[p] \in {"abi", "id"}
    /\ Connected(Abi[p])
    /\ h' = [h EXCEPT ![p] = "send"]
    /\ UNCHANGED <<boot, bridge, children, wire, lock, sockets, companions, unloaded>>

\* There is none, or poll says that it is gone: fork one, send it the fds.
StartZygiskd(p, d) ==
    /\ h[p] = "abi" /\ pc[p] \in {"abi", "id"}
    /\ ~Connected(Abi[p])
    /\ ~Alive(d) /\ \A a \in Abis \ {Abi[p]} : sockets[a] # d
    /\ h' = [h EXCEPT ![p] = "ack"] /\ sockets' = [sockets EXCEPT ![Abi[p]] = d]
    /\ comp' = [comp EXCEPT ![d] = "loading"] /\ abi' = [abi EXCEPT ![d] = Abi[p]]
    /\ UNCHANGED <<boot, bridge, children, wire, lock, acked, inbox, client, task, unloaded>>

\* The ack arrives.  There is no step for the end of the connection: magiskd
\* holds the other end itself (RemoteOpen), so the read goes on for ever when
\* zygiskd dies before its ack.
ReadAck(p) ==
    /\ h[p] = "ack" /\ acked[sockets[Abi[p]]]
    /\ h' = [h EXCEPT ![p] = "send"] /\ acked' = [acked EXCEPT ![sockets[Abi[p]]] = FALSE]
    /\ UNCHANGED <<boot, bridge, children, wire, lock, sockets, comp, abi, inbox, client, task,
                   unloaded>>

\* The client's fd goes to zygiskd (or the send fails), and magiskd lets go.
SendClient(p) ==
    /\ h[p] = "send" /\ h' = [h EXCEPT ![p] = "done"] /\ lock' = None
    /\ inbox' = IF Connected(Abi[p]) THEN [inbox EXCEPT ![sockets[Abi[p]]] = Append(@, p)]
                ELSE inbox
    /\ UNCHANGED <<boot, bridge, children, wire, sockets, comp, abi, acked, client, task, unloaded>>
-----------------------------------------------------------------------------
(* zygiskd. *)

\* The modules are loaded; the ack is written.
Ack(d) ==
    /\ comp[d] = "loading"
    /\ comp' = [comp EXCEPT ![d] = "ready"] /\ acked' = [acked EXCEPT ![d] = TRUE]
    /\ UNCHANGED <<boot, bridge, children, threads, abi, inbox, client, task, unloaded>>

\* recv_fd.
Receive(d) ==
    /\ comp[d] = "ready" /\ inbox[d] # <<>>
    /\ comp' = [comp EXCEPT ![d] = "reading"]
    /\ client' = [client EXCEPT ![d] = Head(inbox[d])]
    /\ inbox' = [inbox EXCEPT ![d] = Tail(@)]
    /\ UNCHANGED <<boot, bridge, children, threads, abi, acked, task, unloaded>>

\* read_int of the module's ID: the entry gets a task of its own, or the client is
\* closed (also when it is gone).
Serve(d) ==
    LET p == client[d]
        entries == Entries(abi[d])
    IN
    /\ comp[d] = "reading" /\ pc[p] \in {"id", "dead"}
    /\ comp' = [comp EXCEPT ![d] = "ready"] /\ client' = [client EXCEPT ![d] = None]
    /\ task' = [task EXCEPT ![p] = IF /\ pc[p] = "id" /\ id[p] <= Len(entries)
                                      /\ entries[id[p]] # None
                                   THEN <<d, entries[id[p]]>> ELSE @]
    /\ UNCHANGED <<boot, bridge, children, threads, abi, acked, inbox, unloaded>>

\* What is left of zygiskd d when it ends: its clients are closed.
Gone(d) ==
    /\ comp' = [comp EXCEPT ![d] = "dead"] /\ abi' = [abi EXCEPT ![d] = "32"]
    /\ client' = [client EXCEPT ![d] = None]
    /\ inbox' = [inbox EXCEPT ![d] = <<>>]
    /\ task' = [p \in Procs |-> IF task[p] # None /\ task[p][1] = d THEN None ELSE task[p]]

ExitNever(d) ==
    /\ comp[d] = "ready" /\ inbox[d] = <<>> /\ d \in Range(sockets) /\ stage = "scripts"
    /\ Gone(d)
    /\ UNCHANGED <<boot, bridge, children, threads, acked, unloaded>>

\* magiskd closed its end, and every client that it sent was received.
Exit(d) ==
    /\ comp[d] = "ready" /\ inbox[d] = <<>> /\ d \notin Range(sockets)
    /\ Gone(d)
    /\ UNCHANGED <<boot, bridge, children, threads, acked, unloaded>>

\* A module's code ends zygiskd.
Crash(d) ==
    /\ Alive(d) /\ Gone(d)
    /\ UNCHANGED <<boot, bridge, children, threads, acked, unloaded>>

\* The companion is done with p.
TaskEnds(p) ==
    /\ task[p] # None /\ task' = [task EXCEPT ![p] = None]
    /\ UNCHANGED <<boot, bridge, children, threads, comp, abi, acked, inbox, client, unloaded>>

\* p finds its connection closed.
Closed(p) ==
    /\ pc[p] = "id" /\ ~Held(p) /\ pc' = [pc EXCEPT ![p] = "closed"]
    /\ UNCHANGED <<boot, bridge, fds, id, threads, companions, unloaded>>

\* The child ends, at any time.
Dies(p) ==
    /\ pc[p] \notin {"unborn", "dead"} /\ pc' = [pc EXCEPT ![p] = "dead"]
    /\ UNCHANGED <<boot, bridge, fds, id, threads, companions, unloaded>>
-----------------------------------------------------------------------------
Handler(p) ==
    \/ SendFlags(p) \/ SendFds(p) \/ MarkUnloaded(p)
    \/ Lock(p) \/ ReadAbiFails(p) \/ UseZygiskd(p) \/ ReadAck(p) \/ SendClient(p)
    \/ \E d \in Companions : StartZygiskd(p, d)

Child(p) ==
    ReadFlags(p) \/ ReadFds(p) \/ WriteAbi(p) \/ WriteId(p) \/ Closed(p)

Companion(d) == Ack(d) \/ Receive(d) \/ Serve(d) \/ Exit(d)

\* The steps of what is running: pool threads, children and zygiskd.
Running ==
    \/ ResetSockets \/ ResetCount \/ Restore
    \/ \E p \in Procs : Handler(p) \/ Child(p)
    \/ \E d \in Companions : Companion(d)

Next ==
    \/ Running
    \/ LoadModules \/ SetModuleList \/ ZygoteStarts \/ ZygoteStops \/ BootComplete
    \/ \E p \in Procs : Ask(p) \/ TaskEnds(p) \/ Dies(p)
    \/ \E p \in Procs, i \in Ids : Connect(p, i)
    \/ \E d \in Companions : Crash(d)

Spec == Init /\ [][Next]_vars

\* Threads and processes that can run do.  Each takes finitely many steps per
\* request, and the requests are bounded, so one fairness condition for all of
\* them starves none.  Nothing makes zygote, a module or a child stop or ask.
FairSpec == Spec /\ WF_vars(Running)
-----------------------------------------------------------------------------
\* A module asks for its own companion: the entry that zygiskd runs for a client is
\* the one of the module with that ID in the client, in a zygiskd of its ABI.  Both
\* sides number the modules by the fds of module_list (run_modules_pre, zygiskd).
RightCompanion ==
    \A p \in Procs : task[p] # None => /\ task[p][2] = id[p] /\ abi[task[p][1]] = Abi[p]
                                        /\ task[p][2] \in Loaded(p)

\* zygisk_reset: after four restarts in a boot that did not complete, the loader
\* leaves the property, whatever restarts and boot_complete interleave.  (Not if
\* zygote ran before the property was set.)
RolledBack == counted >= 4 => prop = "original" \/ restoring > 0 \/ early

\* connect_zygiskd waits for a zygiskd that died before its ack.
Stuck == \E p \in Procs : /\ h[p] = "ack" /\ ~Alive(sockets[Abi[p]])
                          /\ ~acked[sockets[Abi[p]]]

\* system_server waits for the fds while get_process_info waits for its report.
Crossed(p) == h[p] = "failed" /\ pc[p] = "fds" /\ "fds" \notin wire[p]

\* Every request of a child ends: magiskd and the child never wait for each other,
\* and the mutex comes free.  Excepted are a zygiskd that dies before its ack, and a
\* system_server of a zygote that did not wait for post-fs-data, which asked before
\* module_list was set.
RequestsEnd == \A p \in Procs : h[p] # "done" ~> (h[p] = "done" \/ Stuck \/ (early /\ Crossed(p)))

\* A zygiskd that magiskd has let go of ends, once it has served what it was sent.
OrphansEnd == \A d \in Companions : Alive(d) /\ d \notin Range(sockets) ~> ~Alive(d)

\* connect_zygiskd reports a zygiskd that fails to start as "zygiskd startup error"
\* and ends the request.
StartupErrorEnds == \A p \in Procs : h[p] = "ack" ~> h[p] # "ack"
=============================================================================
