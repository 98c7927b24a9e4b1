---------------------------- MODULE MagiskDaemon ----------------------------
(***************************************************************************)
(* How a client process reaches magiskd and what magiskd does with its     *)
(* request (native/src/core/daemon.cpp and magisk.cpp): connect_daemon     *)
(* connects to the socket at a fixed path, or forks a daemon and retries;  *)
(* daemon_entry replaces whatever is at that path; the poll loop accepts   *)
(* one connection at a time, checks who is asking, answers, and then       *)
(* either serves the request itself or hands it to the thread pool.        *)
(*                                                                         *)
(* Steps of the processes interleave at every system call the other side   *)
(* can observe.  A client may be killed at any point.  The thread pool is  *)
(* abstracted to what ThreadPool promises: a task handed over is run once. *)
(***************************************************************************)
EXTENDS Naturals, Sequences

CONSTANTS Clients,          \* client processes
          Daemons,          \* identities for forked magiskd processes
          None,             \* no process
          Kinds,            \* who the clients may be and what they ask for
          EntryRecurses     \* does daemon_entry call itself (line 369)?

RequestCode ==
    {"START_DAEMON", "CHECK_VERSION", "CHECK_VERSION_CODE", "STOP_DAEMON",
     "SUPERUSER", "ZYGOTE_RESTART", "DENYLIST", "SQLITE_CMD", "REMOVE_MODULES",
     "ZYGISK", "POST_FS_DATA", "LATE_START", "BOOT_COMPLETE"}

SyncCodes == {"START_DAEMON", "CHECK_VERSION", "CHECK_VERSION_CODE", "STOP_DAEMON"}

\* The subcommands of magisk that pass create = true to connect_daemon.
CreateCodes == {"START_DAEMON", "POST_FS_DATA", "LATE_START"}

RootCodes == {"POST_FS_DATA", "LATE_START", "BOOT_COMPLETE", "ZYGOTE_RESTART",
              "SQLITE_CMD", "DENYLIST", "STOP_DAEMON"}

\* "BAD" stands for every integer handle_request does not know.
AllKinds == [uid : {"root", "shell", "app"},
             zygote : BOOLEAN,              \* context u:r:zygote:s0
             exe : BOOLEAN,                 \* runs the daemon's own binary
             tmpfs : BOOLEAN,               \* started from the magisk tmpfs
             keep : BOOLEAN,                \* --remove-modules -n
             req : RequestCode \cup {"BAD"}]

RespondCode == {"OK", "ROOT_REQUIRED", "ACCESS_DENIED"}

ASSUME DaemonAssumption ==
    /\ None \notin Clients \cup Daemons \cup RespondCode
    /\ Kinds \subseteq AllKinds
    /\ EntryRecurses \in BOOLEAN

VARIABLES
    kind,     \* kind[c]: who client c is
    cpc,      \* cpc[c]: where c is in connect_daemon
    server,   \* server[c]: the daemon c is connected to
    wrote,    \* wrote[c]: what c has written: "nothing", "code", "arg"
    answer,   \* answer[c]: the RespondCode written to c
    fd,       \* fd[c]: the daemon's end: "none", "open", "closed"
    served,   \* served[c]: how often c's request has been carried out
    dpc,      \* dpc[d]: where the main thread of d is
    path,     \* the daemon whose socket is at MAIN_SOCKET
    backlog,  \* backlog[d]: connections not accepted yet
    current,  \* current[d]: the client handle_request is at
    tasks,    \* tasks[d]: clients whose requests are with the thread pool
    rebooted, \* clients on whose behalf the daemon rebooted the device
    inTurn    \* do clients that may fork a daemon run one after the other, as
              \* init runs them, and live until it is up?

clientVars == <<kind, cpc, server, wrote>>
vars == <<kind, cpc, server, wrote, answer, fd, served, dpc, path, backlog,
          current, tasks, rebooted, inTurn>>

ClientStates == {"start", "retry", "connected", "sent", "ok", "failed", "dead"}
Finished == {"ok", "failed", "dead"}

\* "accepted" has the connection, "read" is allowed to ask, "dispatch" has
\* been answered OK; "listening" is the poll loop between two requests.
DaemonStates == {"none", "entry", "unlinked", "bound", "listening", "accepted",
                 "read", "dispatch", "exited"}
Listening == {"listening", "accepted", "read", "dispatch"}

Creates(c) == kind[c].req \in CreateCodes
Alive(d) == dpc[d] \notin {"none", "exited"}
Live(d) == dpc[d] \in {"bound"} \cup Listening

Init ==
    /\ kind \in [Clients -> Kinds]
    /\ cpc = [c \in Clients |-> "start"]
    /\ server = [c \in Clients |-> None]
    /\ wrote = [c \in Clients |-> "nothing"]
    /\ answer = [c \in Clients |-> None]
    /\ fd = [c \in Clients |-> "none"]
    /\ served = [c \in Clients |-> 0]
    /\ dpc = [d \in Daemons |-> "none"]
    /\ path = None
    /\ backlog = [d \in Daemons |-> <<>>]
    /\ current = [d \in Daemons |-> None]
    /\ tasks = [d \in Daemons |-> {}]
    /\ rebooted = {}
    /\ inTurn \in BOOLEAN

-----------------------------------------------------------------------------
(* The client: connect_daemon. *)

Reachable == path # None /\ dpc[path] \in Listening

\* connect() succeeds: the connection waits in the backlog of the daemon whose
\* socket is at the path, provided that daemon has called listen.
ConnectTo(c) ==
    /\ Reachable
    /\ server' = [server EXCEPT ![c] = path]
    /\ backlog' = [backlog EXCEPT ![path] = Append(@, c)]
    /\ cpc' = [cpc EXCEPT ![c] = "connected"]
    /\ UNCHANGED dpc

\* Nothing answers and the client may not, or cannot, start a daemon.
GiveUp(c) ==
    /\ ~Reachable
    /\ ~Creates(c) \/ kind[c].uid # "root" \/ ~kind[c].tmpfs
    /\ cpc' = [cpc EXCEPT ![c] = "failed"]
    /\ UNCHANGED <<server, backlog, dpc>>

\* Variant: the client does not wait for the daemon it has forked.
ForkDaemonNoWait(c) ==
    /\ ~Reachable
    /\ Creates(c) /\ kind[c].uid = "root" /\ kind[c].tmpfs
    /\ \E d \in Daemons :
           /\ dpc[d] = "none"
           /\ dpc' = [dpc EXCEPT ![d] = "entry"]
    /\ cpc' = [cpc EXCEPT ![c] = "failed"]
    /\ UNCHANGED <<server, backlog>>

ForkDaemon(c) ==
    /\ ~Reachable
    /\ Creates(c) /\ kind[c].uid = "root" /\ kind[c].tmpfs
    /\ \E d \in Daemons :
           /\ dpc[d] = "none"
           /\ dpc' = [dpc EXCEPT ![d] = "entry"]
    /\ cpc' = [cpc EXCEPT ![c] = "retry"]
    /\ UNCHANGED <<server, backlog>>

\* The commands init runs with exec are run one after the other.
MayStart(c) ==
    inTurn /\ Creates(c) =>
        \A o \in Clients \ {c} : Creates(o) => cpc[o] \in {"start"} \cup Finished

Connect(c) ==
    /\ cpc[c] = "start"
    /\ MayStart(c)
    /\ ConnectTo(c) \/ GiveUp(c) \/ ForkDaemon(c)
    /\ UNCHANGED <<kind, wrote, answer, fd, served, path, current, tasks, rebooted, inTurn>>

\* while (connect(...)) usleep(10000);
Retry(c) ==
    /\ cpc[c] = "retry"
    /\ ConnectTo(c)
    /\ UNCHANGED <<kind, wrote, answer, fd, served, path, current, tasks, rebooted, inTurn>>

\* write_int(fd, req).  If the daemon has closed its end already the write
\* raises SIGPIPE, which no client blocks.
WriteCode(c) ==
    /\ cpc[c] = "connected"
    /\ IF fd[c] = "closed"
         THEN cpc' = [cpc EXCEPT ![c] = "dead"] /\ UNCHANGED wrote
         ELSE /\ cpc' = [cpc EXCEPT ![c] = "sent"]
              /\ wrote' = [wrote EXCEPT ![c] = "code"]
    /\ UNCHANGED <<kind, server, answer, fd, served, dpc, path, backlog, current,
                   tasks, rebooted, inTurn>>

\* res = read_int(fd): the answer, or -1 (ERROR) when the connection is closed
\* without one.
ReadAnswer(c) ==
    /\ cpc[c] = "sent"
    /\ answer[c] # None \/ fd[c] = "closed"
    /\ cpc' = [cpc EXCEPT ![c] = IF answer[c] = "OK" THEN "ok" ELSE "failed"]
    /\ UNCHANGED <<kind, server, wrote, answer, fd, served, dpc, path, backlog,
                   current, tasks, rebooted, inTurn>>

\* magisk --remove-modules: write_int(fd, do_reboot) once connected.
WriteArg(c) ==
    /\ cpc[c] = "ok"
    /\ kind[c].req = "REMOVE_MODULES"
    /\ wrote[c] = "code"
    /\ wrote' = [wrote EXCEPT ![c] = "arg"]
    /\ UNCHANGED <<kind, cpc, server, answer, fd, served, dpc, path, backlog,
                   current, tasks, rebooted, inTurn>>

ClientDies(c) ==
    /\ cpc[c] \in {"retry", "connected", "sent", "ok"}
    /\ inTurn => cpc[c] # "retry"
    /\ cpc' = [cpc EXCEPT ![c] = "dead"]
    /\ UNCHANGED <<kind, server, wrote, answer, fd, served, dpc, path, backlog,
                   current, tasks, rebooted, inTurn>>

-----------------------------------------------------------------------------
(* The daemon: daemon_entry. *)

\* Everything before the socket, and unlink(addr.sun_path).  When daemon_entry
\* calls itself the process never gets past that call.
Unlink(d) ==
    /\ dpc[d] = "entry"
    /\ ~EntryRecurses
    /\ path' = None
    /\ dpc' = [dpc EXCEPT ![d] = "unlinked"]
    /\ UNCHANGED <<clientVars, answer, fd, served, backlog, current, tasks, rebooted, inTurn>>

\* bind fails when another daemon has bound the path since the unlink.
Bind(d) ==
    /\ dpc[d] = "unlinked"
    /\ IF path = None
         THEN path' = d /\ dpc' = [dpc EXCEPT ![d] = "bound"]
         ELSE dpc' = [dpc EXCEPT ![d] = "exited"] /\ UNCHANGED path
    /\ UNCHANGED <<clientVars, answer, fd, served, backlog, current, tasks, rebooted, inTurn>>

Listen(d) ==
    /\ dpc[d] = "bound"
    /\ dpc' = [dpc EXCEPT ![d] = "listening"]
    /\ UNCHANGED <<clientVars, answer, fd, served, path, backlog, current, tasks, rebooted, inTurn>>

-----------------------------------------------------------------------------
(* The daemon: handle_request. *)

Accept(d) ==
    /\ dpc[d] = "listening"
    /\ backlog[d] # <<>>
    /\ current' = [current EXCEPT ![d] = Head(backlog[d])]
    /\ backlog' = [backlog EXCEPT ![d] = Tail(@)]
    /\ fd' = [fd EXCEPT ![Head(backlog[d])] = "open"]
    /\ dpc' = [dpc EXCEPT ![d] = "accepted"]
    /\ UNCHANGED <<clientVars, answer, served, path, tasks, rebooted, inTurn>>

\* Return from handle_request with the owned_fd still owning the connection.
CloseAndReturn(d) ==
    /\ fd' = [fd EXCEPT ![current[d]] = "closed"]
    /\ current' = [current EXCEPT ![d] = None]
    /\ dpc' = [dpc EXCEPT ![d] = "listening"]

Refuse(d, code) ==
    /\ answer' = [answer EXCEPT ![current[d]] = code]
    /\ CloseAndReturn(d)

\* is_client asks /proc for the executable, so a dead client is not one.
SupportedClient(c) ==
    kind[c].uid = "root" \/ kind[c].zygote \/ (kind[c].exe /\ cpc[c] # "dead")

CheckClient(d) ==
    /\ dpc[d] = "accepted"
    /\ IF SupportedClient(current[d])
         THEN dpc' = [dpc EXCEPT ![d] = "read"] /\ UNCHANGED <<answer, fd, current>>
         ELSE Refuse(d, "ACCESS_DENIED")
    /\ UNCHANGED <<clientVars, served, path, backlog, tasks, rebooted, inTurn>>

\* Variant: shell is let through to every command that needs root.
PermissionLax(c) ==
    CASE kind[c].req \in RootCodes /\ kind[c].uid = "app" -> "ROOT_REQUIRED"
      [] kind[c].req = "ZYGISK" /\ ~kind[c].zygote -> "ACCESS_DENIED"
      [] OTHER -> "OK"

\* The switch on the request code.
Permission(c) ==
    CASE kind[c].req \in RootCodes /\ kind[c].uid # "root" -> "ROOT_REQUIRED"
      [] kind[c].req = "REMOVE_MODULES" /\ kind[c].uid \notin {"root", "shell"} ->
             "ACCESS_DENIED"
      [] kind[c].req = "ZYGISK" /\ ~kind[c].zygote -> "ACCESS_DENIED"
      [] OTHER -> "OK"

\* Variant: the end of the stream is not told from a client that is late.
ReadCodeNoEof(d) ==
    LET c == current[d] IN
    /\ dpc[d] = "read"
    /\ wrote[c] # "nothing"
    /\ \/ kind[c].req = "BAD" /\ CloseAndReturn(d) /\ UNCHANGED answer
       \/ /\ kind[c].req # "BAD"
          /\ Permission(c) # "OK" /\ Refuse(d, Permission(c))
       \/ /\ kind[c].req # "BAD"
          /\ Permission(c) = "OK"
          /\ answer' = [answer EXCEPT ![c] = "OK"]
          /\ dpc' = [dpc EXCEPT ![d] = "dispatch"]
          /\ UNCHANGED <<fd, current>>
    /\ UNCHANGED <<clientVars, served, path, backlog, tasks, rebooted, inTurn>>

\* read_int(client) blocks until the client has written or is gone.  The answer
\* is written whether or not somebody is left to read it.
ReadCode(d) ==
    LET c == current[d] IN
    /\ dpc[d] = "read"
    /\ \/ /\ wrote[c] = "nothing" /\ cpc[c] = "dead"
          /\ CloseAndReturn(d) /\ UNCHANGED answer
       \/ /\ wrote[c] # "nothing" /\ kind[c].req = "BAD"
          /\ CloseAndReturn(d) /\ UNCHANGED answer
       \/ /\ wrote[c] # "nothing" /\ kind[c].req # "BAD"
          /\ Permission(c) # "OK" /\ Refuse(d, Permission(c))
       \/ /\ wrote[c] # "nothing" /\ kind[c].req # "BAD"
          /\ Permission(c) = "OK"
          /\ answer' = [answer EXCEPT ![c] = "OK"]
          /\ dpc' = [dpc EXCEPT ![d] = "dispatch"]
          /\ UNCHANGED <<fd, current>>
    /\ UNCHANGED <<clientVars, served, path, backlog, tasks, rebooted, inTurn>>

\* exit(0): the process and all its connections are gone; the file at the path
\* stays.
Exit(d) ==
    /\ dpc' = [dpc EXCEPT ![d] = "exited"]
    /\ fd' = [c \in Clients |-> IF server[c] = d THEN "closed" ELSE fd[c]]
    /\ current' = [current EXCEPT ![d] = None]
    /\ tasks' = [tasks EXCEPT ![d] = {}]
    /\ backlog' = [backlog EXCEPT ![d] = <<>>]

\* handle_request_sync.
ServeSync(d) ==
    LET c == current[d] IN
    /\ dpc[d] = "dispatch"
    /\ kind[c].req \in SyncCodes
    /\ served' = [served EXCEPT ![c] = @ + 1]
    /\ IF kind[c].req = "STOP_DAEMON"
         THEN Exit(d)
         ELSE CloseAndReturn(d) /\ UNCHANGED <<tasks, backlog>>
    /\ UNCHANGED <<clientVars, answer, path, rebooted, inTurn>>

\* Variant: the request is served by the main thread and by the pool.
HandOverServed(d) ==
    LET c == current[d] IN
    /\ dpc[d] = "dispatch"
    /\ kind[c].req \notin SyncCodes
    /\ served' = [served EXCEPT ![c] = @ + 1]
    /\ tasks' = [tasks EXCEPT ![d] = @ \cup {c}]
    /\ current' = [current EXCEPT ![d] = None]
    /\ dpc' = [dpc EXCEPT ![d] = "listening"]
    /\ UNCHANGED <<clientVars, answer, fd, path, backlog, rebooted, inTurn>>

\* exec_task([fd = client.release()] ...): the task owns the connection now.
HandOver(d) ==
    LET c == current[d] IN
    /\ dpc[d] = "dispatch"
    /\ kind[c].req \notin SyncCodes
    /\ tasks' = [tasks EXCEPT ![d] = @ \cup {c}]
    /\ current' = [current EXCEPT ![d] = None]
    /\ dpc' = [dpc EXCEPT ![d] = "listening"]
    /\ UNCHANGED <<clientVars, answer, fd, served, path, backlog, rebooted, inTurn>>

\* do_reboot = read_int(client): -1, which is not zero, if the client is gone.
AsksReboot(c) == ~(wrote[c] = "arg" /\ kind[c].keep)

\* A task that forgets to close its client.
ServeTaskLeaks(d, c) ==
    /\ c \in tasks[d]
    /\ kind[c].req = "REMOVE_MODULES" => wrote[c] = "arg" \/ cpc[c] = "dead"
    /\ served' = [served EXCEPT ![c] = @ + 1]
    /\ tasks' = [tasks EXCEPT ![d] = @ \ {c}]
    /\ UNCHANGED <<clientVars, answer, dpc, path, backlog, current, fd, rebooted, inTurn>>

\* handle_request_async or boot_stage_handler on a pool thread.  Removing the
\* modules first waits for the client's flag.
ServeTask(d, c) ==
    /\ c \in tasks[d]
    /\ kind[c].req = "REMOVE_MODULES" => wrote[c] = "arg" \/ cpc[c] = "dead"
    /\ served' = [served EXCEPT ![c] = @ + 1]
    /\ fd' = [fd EXCEPT ![c] = "closed"]
    /\ tasks' = [tasks EXCEPT ![d] = @ \ {c}]
    /\ rebooted' = IF kind[c].req = "REMOVE_MODULES" /\ AsksReboot(c)
                     THEN rebooted \cup {c} ELSE rebooted
    /\ UNCHANGED <<clientVars, answer, dpc, path, backlog, current, inTurn>>

-----------------------------------------------------------------------------
ClientStep(c) == Connect(c) \/ Retry(c) \/ WriteCode(c) \/ ReadAnswer(c) \/ WriteArg(c)

BootStep(d) == Unlink(d) \/ Bind(d) \/ Listen(d)

RequestStep(d) ==
    Accept(d) \/ CheckClient(d) \/ ReadCode(d) \/ ServeSync(d) \/ HandOver(d)

Next ==
    \/ \E c \in Clients : ClientStep(c) \/ ClientDies(c)
    \/ \E d \in Daemons : BootStep(d) \/ RequestStep(d)
    \/ \E d \in Daemons, c \in Clients : ServeTask(d, c)

Spec == Init /\ [][Next]_vars

\* Every process is scheduled, and a pool thread ends its task.
FairSpec ==
    /\ Spec
    /\ \A c \in Clients : WF_vars(ClientStep(c))
    /\ \A d \in Daemons : WF_vars(BootStep(d)) /\ WF_vars(RequestStep(d))
    /\ \A d \in Daemons, c \in Clients : WF_vars(ServeTask(d, c))

-----------------------------------------------------------------------------
(* Properties. *)

\* What a client is told is what happened: a request is carried out at most
\* once, and only if the daemon answered OK; a client told anything else, or
\* nothing, can rely on its request never being carried out by any daemon.
AnswerIsTrue ==
    \A c \in Clients :
        /\ served[c] <= 1
        /\ served[c] > 0 => answer[c] = "OK"
        /\ cpc[c] = "failed" => served[c] = 0 /\ \A d \in Daemons : c \notin tasks[d]

\* No request beyond a caller's rights is carried out: commands of the boot
\* stages, the database, the denylist and --stop are for root, zygisk requests
\* for zygote, removing modules for root and the adb shell, and a caller that
\* is neither root, zygote nor the daemon's own binary gets nothing at all.
OnlyPermitted ==
    \A c \in Clients : served[c] > 0 =>
        /\ kind[c].uid = "root" \/ kind[c].zygote \/ kind[c].exe
        /\ kind[c].req \in RootCodes => kind[c].uid = "root"
        /\ kind[c].req = "ZYGISK" => kind[c].zygote
        /\ kind[c].req = "REMOVE_MODULES" => kind[c].uid # "app"

\* Each accepted connection has exactly one owner in the daemon until it is
\* closed: the poll loop's owned_fd or one task, never both and never neither
\* (a connection nobody owns is never closed and its client waits for ever).
FdHasOneOwner ==
    \A c \in Clients : fd[c] = "open" =>
        LET owners == {d \in Daemons : current[d] = c} IN
        LET holders == {d \in Daemons : c \in tasks[d]} IN
        /\ owners \cup holders = {server[c]}
        /\ owners \cap holders = {}

\* Clients that run in turn never leave two daemons alive, not even one that
\* serves and one on its way through daemon_entry: the unlink there never takes
\* the socket away from a daemon that still serves.
OneDaemon ==
    inTurn => \A d \in Daemons : Alive(d) =>
                 /\ \A e \in Daemons : Alive(e) => e = d
                 /\ Live(d) => path = d

\* A --stop request has been carried out.
Stopped == \E c \in Clients : kind[c].req = "STOP_DAEMON" /\ served[c] > 0

\* Nobody waits for ever: every client returns from connect_daemon, with a
\* connection or an error, even if it had to start the daemon or if other
\* clients are killed half way through their own requests.  Only --stop, when
\* it ends the daemon a client has just forked, leaves that client retrying.
ClientsReturn ==
    \A c \in Clients :
        cpc[c] \in {"retry", "connected", "sent"} ~> cpc[c] \in Finished \/ Stopped

=============================================================================
