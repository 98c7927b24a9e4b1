------------------------- MODULE MagiskDaemonProofs -------------------------
(***************************************************************************)
(* For any number of clients, daemons and kinds of request, what           *)
(* handle_request tells a client is what it does, it does nothing beyond   *)
(* the caller's rights, and an accepted connection has one owner.  The     *)
(* inductive invariant says where a connection is at each moment of its    *)
(* life (nowhere, in one backlog, with one poll loop, with one task, or    *)
(* closed) and what has been done with it by then.                         *)
(***************************************************************************)
EXTENDS MagiskDaemon, TLAPS

\* Most leaves are first-order; the others cite SMT.
USE Zenon

\* Callers that pass the first check of handle_request, ...
Supported ==
    {c \in Clients : kind[c].uid = "root" \/ kind[c].zygote \/ kind[c].exe}

\* ... and those that pass the switch on the request code.
Allowed == {c \in Clients : Permission(c) = "OK"}

AtRequest == {"accepted", "read", "dispatch"}

Types ==
    /\ cpc \in [Clients -> ClientStates]
    /\ server \in [Clients -> Daemons \cup {None}]
    /\ answer \in [Clients -> RespondCode \cup {None}]
    /\ fd \in [Clients -> {"none", "open", "closed"}]
    /\ served \in [Clients -> Nat]
    /\ dpc \in [Daemons -> DaemonStates]
    /\ path \in Daemons \cup {None}
    /\ backlog \in [Daemons -> Seq(Clients)]
    /\ current \in [Daemons -> Clients \cup {None}]
    /\ tasks \in [Daemons -> SUBSET Clients]

\* A client has no connection before connect() succeeds, and one that failed
\* has none or a closed one.
Unconnected ==
    \A c \in Clients :
        /\ cpc[c] \in {"start", "retry"} => server[c] = None
        /\ server[c] = None => fd[c] = "none" /\ answer[c] = None /\ served[c] = 0
        /\ cpc[c] = "failed" => answer[c] # "OK" /\ (server[c] = None \/ fd[c] = "closed")

\* Nothing has been done yet with a connection in a backlog, ...
Waiting ==
    \A d \in Daemons : \A i \in 1..Len(backlog[d]) :
        /\ server[backlog[d][i]] = d
        /\ fd[backlog[d][i]] = "none"
        /\ answer[backlog[d][i]] = None
        /\ served[backlog[d][i]] = 0

\* ... and it is there once.
Once ==
    \A d \in Daemons : \A i, j \in 1..Len(backlog[d]) :
        backlog[d][i] = backlog[d][j] => i = j

\* What handle_request knows of the connection it is at.
Handling ==
    \A d \in Daemons :
        /\ dpc[d] \in AtRequest => current[d] # None
        /\ current[d] # None =>
             /\ dpc[d] \in AtRequest
             /\ server[current[d]] = d
             /\ fd[current[d]] = "open"
             /\ served[current[d]] = 0
             /\ current[d] \notin tasks[d]
             /\ dpc[d] # "dispatch" => answer[current[d]] = None
             /\ dpc[d] # "accepted" => current[d] \in Supported
             /\ dpc[d] = "dispatch" =>
                    answer[current[d]] = "OK" /\ current[d] \in Allowed

\* What is known of a connection that a task owns.
Tasked ==
    \A d \in Daemons : \A c \in tasks[d] :
        /\ server[c] = d
        /\ fd[c] = "open"
        /\ served[c] = 0
        /\ answer[c] = "OK"
        /\ c \in Supported \cap Allowed

\* An open connection is with a poll loop or with a task.
Owned ==
    \A c \in Clients : fd[c] = "open" =>
        /\ server[c] \in Daemons
        /\ current[server[c]] = c \/ c \in tasks[server[c]]

\* A request that was refused is over; one that was carried out was answered,
\* permitted and is over.
Served ==
    \A c \in Clients :
        /\ answer[c] \notin {"OK", None} => fd[c] = "closed"
        /\ served[c] \in {0, 1}
        /\ served[c] = 1 => /\ fd[c] = "closed"
                            /\ answer[c] = "OK"
                            /\ c \in Supported \cap Allowed

IInv ==
    Types /\ Unconnected /\ Waiting /\ Once /\ Handling /\ Tasked /\ Owned /\ Served

-----------------------------------------------------------------------------
\* Who a client is does not change.
LEMMA KindFixed ==
    ASSUME kind' = kind
    PROVE  Supported' = Supported /\ Allowed' = Allowed
BY DEF Supported, Allowed, Permission

\* The checks of handle_request are about those two sets.
LEMMA ChecksMean ==
    ASSUME NEW c \in Clients
    PROVE  /\ SupportedClient(c) => c \in Supported
           /\ Permission(c) = "OK" => c \in Allowed
           /\ Permission(c) \in RespondCode
<1>1. SupportedClient(c) => c \in Supported
  BY DEF SupportedClient, Supported
<1>2. Permission(c) = "OK" => c \in Allowed
  BY DEF Allowed
<1>3. Permission(c) \in RespondCode
  BY DEF Permission, RespondCode
<1> QED BY <1>1, <1>2, <1>3

\* What the invariant says of one connection in a backlog, ...
LEMMA WaitingClient ==
    ASSUME IInv, NEW d \in Daemons, NEW i \in 1..Len(backlog[d])
    PROVE  /\ backlog[d][i] \in Clients
           /\ server[backlog[d][i]] = d /\ fd[backlog[d][i]] = "none"
           /\ answer[backlog[d][i]] = None /\ served[backlog[d][i]] = 0
<1>1. backlog[d][i] \in Clients
  BY SMT DEF IInv, Types
<1> QED BY <1>1 DEF IInv, Waiting

\* ... of the one the poll loop is at ...
LEMMA HandledClient ==
    ASSUME IInv, NEW d \in Daemons, current[d] # None
    PROVE  /\ current[d] \in Clients
           /\ server[current[d]] = d /\ fd[current[d]] = "open"
BY SMT DEF IInv, Types, Handling

\* ... and of one that a task owns.
LEMMA TaskedClient ==
    ASSUME IInv, NEW d \in Daemons, NEW c \in tasks[d]
    PROVE  c \in Clients /\ server[c] = d /\ fd[c] = "open" /\ answer[c] = "OK"
<1>1. c \in Clients
  BY DEF IInv, Types
<1> QED BY <1>1 DEF IInv, Tasked

\* Initially nothing is connected.
LEMMA InitHolds == Init => IInv
<1> SUFFICES ASSUME Init PROVE IInv
  OBVIOUS
<1>1. Types
  BY SMT, DaemonAssumption DEF Init, Types, ClientStates, DaemonStates
<1>2. Unconnected
  BY DEF Init, Unconnected
<1>3. Waiting /\ Once
  BY SMT DEF Init, Waiting, Once
<1>4. Handling
  BY DEF Init, Handling, AtRequest
<1>5. Tasked
  BY DEF Init, Tasked
<1>6. Owned
  BY DEF Init, Owned
<1>7. Served
  <2>1. \A c \in Clients : answer[c] = None /\ served[c] = 0
    BY DEF Init
  <2>2. 0 # 1
    BY SMT
  <2> QED BY <2>1, <2>2 DEF Served
<1> QED BY <1>1, <1>2, <1>3, <1>4, <1>5, <1>6, <1>7 DEF IInv

\* Steps that touch no connection.
LEMMA NoConnection ==
    ASSUME IInv,
           UNCHANGED <<kind, server, answer, fd, served, backlog, current, tasks>>,
           cpc' \in [Clients -> ClientStates],
           dpc' \in [Daemons -> DaemonStates],
           path' \in Daemons \cup {None},
           \A c \in Clients :
               /\ cpc'[c] \in {"start", "retry"} => cpc[c] \in {"start", "retry"}
               /\ cpc'[c] = "failed" =>
                      \/ cpc[c] \in {"failed", "start"}
                      \/ answer[c] # "OK" /\ fd[c] = "closed",
           \A d \in Daemons :
               dpc'[d] # dpc[d] => dpc[d] \notin AtRequest /\ dpc'[d] \notin AtRequest
    PROVE  IInv'
<1> USE DEF IInv
<1>0. Supported' = Supported /\ Allowed' = Allowed
  BY KindFixed
<1>1. Types'
  BY DEF Types
<1>2. Unconnected'
  <2> SUFFICES ASSUME NEW c \in Clients PROVE Unconnected!(c)'
    BY DEF Unconnected
  <2>1. cpc[c] = "start" => server[c] = None /\ answer[c] = None
    BY DEF Unconnected
  <2>2. None # "OK"
    BY DaemonAssumption DEF RespondCode
  <2> QED BY <2>1, <2>2 DEF Types, Unconnected
<1>3. Waiting' /\ Once'
  BY SMT DEF Waiting, Once
<1>4. Handling'
  <2> SUFFICES ASSUME NEW d \in Daemons
               PROVE  Handling!(d)'
    BY DEF Handling
  <2>1. CASE dpc'[d] = dpc[d]
    BY SMT, <2>1, <1>0 DEF Handling
  <2>2. CASE dpc'[d] # dpc[d]
    BY <2>2 DEF Handling
  <2> QED BY <2>1, <2>2
<1>5. Tasked'
  BY SMT, <1>0 DEF Tasked
<1>6. Owned'
  BY DEF Owned
<1>7. Served'
  BY <1>0 DEF Served
<1> QED BY <1>1, <1>2, <1>3, <1>4, <1>5, <1>6, <1>7

\* The poll loop answers or not, serves the request or not, and returns from
\* handle_request with the connection closed.
LEMMA Closes ==
    ASSUME IInv, NEW d \in Daemons, current[d] \in Clients,
           UNCHANGED <<kind, cpc, server, path, backlog, tasks>>,
           answer' \in [Clients -> RespondCode \cup {None}],
           served' \in [Clients -> {0, 1}],
           \A x \in Clients \ {current[d]} :
               answer'[x] = answer[x] /\ served'[x] = served[x],
           served'[current[d]] = 1 =>
               /\ answer'[current[d]] = "OK"
               /\ current[d] \in Supported \cap Allowed,
           CloseAndReturn(d)
    PROVE  IInv'
<1> DEFINE c == current[d]
<1> USE DaemonAssumption DEF IInv
<1>0. Supported' = Supported /\ Allowed' = Allowed
  BY KindFixed
<1>a. /\ fd' = [fd EXCEPT ![c] = "closed"]
      /\ current' = [current EXCEPT ![d] = None]
      /\ dpc' = [dpc EXCEPT ![d] = "listening"]
  BY DEF CloseAndReturn
<1>b. server[c] = d /\ fd[c] = "open" /\ c \notin tasks[d]
  BY DEF Handling
<1>c. cpc[c] # "failed"
  BY <1>b DEF Unconnected
<1>1. Types'
  <2>1. served' \in [Clients -> Nat]
    BY SMT
  <2>2. dpc' \in [Daemons -> DaemonStates]
    BY <1>a DEF Types, DaemonStates
  <2>3. current' \in [Daemons -> Clients \cup {None}]
    BY <1>a DEF Types
  <2>4. fd' \in [Clients -> {"none", "open", "closed"}]
    BY <1>a DEF Types
  <2> QED BY <2>1, <2>2, <2>3, <2>4 DEF Types
<1>2. Unconnected'
  <2> SUFFICES ASSUME NEW x \in Clients PROVE Unconnected!(x)'
    BY DEF Unconnected
  <2>1. CASE x = c
    BY <2>1, <1>a, <1>b, <1>c DEF Unconnected, Types
  <2>2. CASE x # c
    BY <2>2, <1>a DEF Unconnected, Types
  <2> QED BY <2>1, <2>2
<1>3. Waiting' /\ Once'
  <2> SUFFICES ASSUME NEW e \in Daemons, NEW i \in 1..Len(backlog[e])
               PROVE  Waiting!(e)!(i)'
    BY SMT DEF Waiting, Once
  <2>1. backlog[e][i] \in Clients /\ backlog[e][i] # c
    BY SMT, <1>b, WaitingClient
  <2>2. fd'[backlog[e][i]] = fd[backlog[e][i]]
    BY <2>1, <1>a DEF Types
  <2> QED BY SMT, <2>1, <2>2, WaitingClient
<1>4. Handling'
  <2> SUFFICES ASSUME NEW e \in Daemons PROVE Handling!(e)'
    BY DEF Handling
  <2>1. CASE e = d
    BY SMT, <2>1, <1>a DEF Handling, Types, AtRequest
  <2>2. CASE e # d
    <3>1. current'[e] = current[e] /\ dpc'[e] = dpc[e] /\ tasks'[e] = tasks[e]
      BY <2>2, <1>a DEF Types
    <3>2. current[e] # c
      BY SMT, <2>2, <1>b DEF Handling
    <3> QED BY SMT, <3>1, <3>2, <1>0, <1>a DEF Handling, Types
  <2> QED BY <2>1, <2>2
<1>5. Tasked'
  <2>1. \A e \in Daemons : c \notin tasks[e]
    BY SMT, <1>b DEF Tasked, Handling
  <2> QED BY SMT, <2>1, <1>0, <1>a DEF Tasked, Types
<1>6. Owned'
  BY <1>a, <1>b DEF Owned, Types
<1>7. Served'
  <2> SUFFICES ASSUME NEW x \in Clients PROVE Served!(x)'
    BY DEF Served
  <2>1. CASE x = c
    BY <2>1, <1>0, <1>a DEF Served, Types
  <2>2. CASE x # c
    BY <2>2, <1>0, <1>a DEF Served, Types
  <2> QED BY <2>1, <2>2
<1> QED BY <1>1, <1>2, <1>3, <1>4, <1>5, <1>6, <1>7

\* A client moves on in connect_daemon without touching a connection.
LEMMA ClientMoves ==
    ASSUME IInv, NEW c \in Clients,
           UNCHANGED <<kind, server, answer, fd, served, path, backlog, current, tasks>>,
           cpc' \in [Clients -> ClientStates],
           \A x \in Clients \ {c} : cpc'[x] = cpc[x],
           cpc'[c] # "start",
           cpc'[c] = "retry" => cpc[c] = "start",
           cpc'[c] = "failed" => \/ cpc[c] = "start"
                                 \/ answer[c] # "OK" /\ fd[c] = "closed",
           \/ dpc' = dpc
           \/ \E d \in Daemons : dpc[d] = "none" /\ dpc' = [dpc EXCEPT ![d] = "entry"]
    PROVE  IInv'
<1>1. \A x \in Clients :
          /\ cpc'[x] \in {"start", "retry"} => cpc[x] \in {"start", "retry"}
          /\ cpc'[x] = "failed" => \/ cpc[x] \in {"failed", "start"}
                                   \/ answer[x] # "OK" /\ fd[x] = "closed"
  OBVIOUS
<1>2. /\ dpc' \in [Daemons -> DaemonStates]
      /\ \A e \in Daemons :
             dpc'[e] # dpc[e] => dpc[e] \notin AtRequest /\ dpc'[e] \notin AtRequest
  BY DEF IInv, Types, DaemonStates, AtRequest
<1>3. path' \in Daemons \cup {None}
  BY DEF IInv, Types
<1> QED BY <1>1, <1>2, <1>3, NoConnection

\* write_int, and the SIGPIPE it may raise.
LEMMA WriteCodeHolds == ASSUME IInv, NEW c \in Clients, WriteCode(c) PROVE IInv'
<1>1. UNCHANGED <<kind, server, answer, fd, served, dpc, path, backlog, current, tasks>>
  BY DEF WriteCode
<1>2. /\ cpc' \in [Clients -> ClientStates] /\ cpc'[c] \in {"dead", "sent"}
      /\ \A x \in Clients \ {c} : cpc'[x] = cpc[x]
  <2>1. cpc' = [cpc EXCEPT ![c] = "dead"] \/ cpc' = [cpc EXCEPT ![c] = "sent"]
    BY DEF WriteCode
  <2>2. cpc \in [Clients -> ClientStates] /\ {"dead", "sent"} \subseteq ClientStates
    BY DEF IInv, Types, ClientStates
  <2>3. CASE cpc' = [cpc EXCEPT ![c] = "dead"]
    BY <2>2, <2>3
  <2>4. CASE cpc' = [cpc EXCEPT ![c] = "sent"]
    BY <2>2, <2>4
  <2> QED BY <2>1, <2>3, <2>4
<1> QED BY <1>1, <1>2, ClientMoves

\* read_int: a client without an OK has a closed connection.
LEMMA ReadAnswerHolds == ASSUME IInv, NEW c \in Clients, ReadAnswer(c) PROVE IInv'
<1>1. UNCHANGED <<kind, server, answer, fd, served, dpc, path, backlog, current, tasks>>
  BY DEF ReadAnswer
<1>2. /\ cpc' \in [Clients -> ClientStates]
      /\ cpc'[c] = IF answer[c] = "OK" THEN "ok" ELSE "failed"
      /\ \A x \in Clients \ {c} : cpc'[x] = cpc[x]
  BY DEF ReadAnswer, IInv, Types, ClientStates
<1>3. answer[c] # "OK" => fd[c] = "closed"
  BY DEF ReadAnswer, IInv, Served
<1>4. cpc'[c] \in {"ok", "failed"} /\ (cpc'[c] = "failed" => answer[c] # "OK")
  BY <1>2
<1> QED BY <1>1, <1>2, <1>3, <1>4, ClientMoves

\* The flag of --remove-modules is not part of the invariant.
LEMMA WriteArgHolds == ASSUME IInv, NEW c \in Clients, WriteArg(c) PROVE IInv'
<1>1. UNCHANGED <<kind, cpc, server, answer, fd, served, dpc, path, backlog, current, tasks>>
  BY DEF WriteArg
<1>2. /\ cpc' \in [Clients -> ClientStates] /\ dpc' \in [Daemons -> DaemonStates]
      /\ path' \in Daemons \cup {None}
  BY <1>1 DEF IInv, Types
<1> QED BY <1>1, <1>2, NoConnection

\* A client is killed.
LEMMA ClientDiesHolds == ASSUME IInv, NEW c \in Clients, ClientDies(c) PROVE IInv'
<1>1. UNCHANGED <<kind, server, answer, fd, served, dpc, path, backlog, current, tasks>>
  BY DEF ClientDies
<1>2. /\ cpc' \in [Clients -> ClientStates] /\ cpc'[c] = "dead"
      /\ \A x \in Clients \ {c} : cpc'[x] = cpc[x]
  BY DEF ClientDies, IInv, Types, ClientStates
<1> QED BY <1>1, <1>2, ClientMoves

\* Nobody answers: the client gives up or forks a daemon.
LEMMA NoAnswerHolds ==
    ASSUME IInv, NEW c \in Clients, cpc[c] = "start", GiveUp(c) \/ ForkDaemon(c),
           UNCHANGED <<kind, answer, fd, served, path, current, tasks>>
    PROVE  IInv'
<1>1. UNCHANGED <<kind, server, answer, fd, served, path, backlog, current, tasks>>
  BY DEF GiveUp, ForkDaemon
<1>2. /\ cpc' \in [Clients -> ClientStates] /\ cpc'[c] \in {"failed", "retry"}
      /\ \A x \in Clients \ {c} : cpc'[x] = cpc[x]
  <2>1. cpc' = [cpc EXCEPT ![c] = "failed"] \/ cpc' = [cpc EXCEPT ![c] = "retry"]
    BY DEF GiveUp, ForkDaemon
  <2>2. cpc \in [Clients -> ClientStates] /\ {"failed", "retry"} \subseteq ClientStates
    BY DEF IInv, Types, ClientStates
  <2>3. CASE cpc' = [cpc EXCEPT ![c] = "failed"]
    BY <2>2, <2>3
  <2>4. CASE cpc' = [cpc EXCEPT ![c] = "retry"]
    BY <2>2, <2>4
  <2> QED BY <2>1, <2>3, <2>4
<1>3. \/ dpc' = dpc
      \/ \E d \in Daemons : dpc[d] = "none" /\ dpc' = [dpc EXCEPT ![d] = "entry"]
  BY DEF GiveUp, ForkDaemon
<1> QED BY <1>1, <1>2, <1>3, ClientMoves

\* daemon_entry up to listen.
LEMMA BootStepHolds ==
    ASSUME IInv, NEW d \in Daemons, BootStep(d)
    PROVE  IInv'
<1>1. PICK s \in {"unlinked", "bound", "exited", "listening"} :
          /\ dpc[d] \in {"entry", "unlinked", "bound"}
          /\ dpc' = [dpc EXCEPT ![d] = s]
  BY DEF BootStep, Unlink, Bind, Listen
<1>2. path' \in {None, d, path}
  BY DEF BootStep, Unlink, Bind, Listen
<1>3. UNCHANGED <<kind, cpc, server, answer, fd, served, backlog, current, tasks>>
  BY DEF BootStep, Unlink, Bind, Listen, clientVars
<1>4. /\ dpc' \in [Daemons -> DaemonStates]
      /\ \A e \in Daemons :
             dpc'[e] # dpc[e] => dpc[e] \notin AtRequest /\ dpc'[e] \notin AtRequest
  BY <1>1 DEF IInv, Types, DaemonStates, AtRequest
<1> QED BY <1>2, <1>3, <1>4, NoConnection DEF IInv, Types

\* The poll loop is at a client whenever handle_request is under way.
LEMMA CurrentIsClient ==
    ASSUME IInv, NEW d \in Daemons, dpc[d] \in AtRequest
    PROVE  current[d] \in Clients
BY SMT DEF IInv, Handling, Types

\* The first check lets the caller through or refuses it.
LEMMA CheckClientHolds ==
    ASSUME IInv, NEW d \in Daemons, CheckClient(d)
    PROVE  IInv'
<1> DEFINE c == current[d]
<1>0. dpc[d] = "accepted" /\ c \in Clients
  BY CurrentIsClient DEF CheckClient, AtRequest
<1>1. CASE SupportedClient(c)
  <2>1. dpc' = [dpc EXCEPT ![d] = "read"]
    BY <1>1 DEF CheckClient
  <2>2. UNCHANGED <<kind, cpc, server, path, answer, fd, served, backlog, current, tasks>>
    BY <1>1 DEF CheckClient, clientVars
  <2>3. c \in Supported
    BY <1>0, <1>1, ChecksMean
  <2>4. Supported' = Supported /\ Allowed' = Allowed
    BY <2>2, KindFixed
  <2>5. Handling'
    BY SMT, <1>0, <2>1, <2>2, <2>3, <2>4 DEF IInv, Handling, Types, AtRequest
  <2>6. Types'
    BY <2>1, <2>2 DEF IInv, Types, DaemonStates
  <2>7. Unconnected'
    BY <2>2 DEF IInv, Unconnected
  <2>9. Waiting' /\ Once'
    BY SMT, <2>2 DEF IInv, Waiting, Once
  <2>8. Tasked' /\ Owned' /\ Served'
    BY SMT, <2>2, <2>4 DEF IInv, Tasked, Owned, Served
  <2> QED BY <2>5, <2>6, <2>7, <2>8, <2>9 DEF IInv
<1>2. CASE ~SupportedClient(c)
  <2>1. /\ answer' = [answer EXCEPT ![c] = "ACCESS_DENIED"]
        /\ CloseAndReturn(d)
    BY <1>2 DEF CheckClient, Refuse
  <2>2. UNCHANGED <<kind, cpc, server, path, served, backlog, tasks>>
    BY DEF CheckClient, clientVars
  <2>3. /\ answer' \in [Clients -> RespondCode \cup {None}]
        /\ \A x \in Clients \ {c} : answer'[x] = answer[x]
    BY <2>1 DEF IInv, Types, RespondCode
  <2>4. served' \in [Clients -> {0, 1}] /\ served'[c] = 0
    BY SMT, <1>0, <2>2, DaemonAssumption DEF IInv, Handling, Served, Types
  <2> QED BY SMT, <1>0, <2>1, <2>2, <2>3, <2>4, Closes
<1> QED BY <1>1, <1>2

\* The request is dropped, refused or answered OK.
LEMMA ReadCodeHolds ==
    ASSUME IInv, NEW d \in Daemons, ReadCode(d)
    PROVE  IInv'
<1> DEFINE c == current[d]
<1>0. dpc[d] = "read" /\ c \in Clients
  BY CurrentIsClient DEF ReadCode, AtRequest
<1>a. UNCHANGED <<kind, cpc, server, path, served, backlog, tasks>>
  BY DEF ReadCode, clientVars
<1>b. served[c] = 0 /\ answer[c] = None /\ c \in Supported
  BY <1>0, DaemonAssumption DEF IInv, Handling
<1>c. served' \in [Clients -> {0, 1}] /\ served'[c] = 0
  BY <1>0, <1>a, <1>b DEF IInv, Served, Types
<1>1. CASE CloseAndReturn(d) /\ UNCHANGED answer
  <2>1. /\ answer' \in [Clients -> RespondCode \cup {None}]
        /\ \A x \in Clients \ {c} : answer'[x] = answer[x]
    BY <1>1 DEF IInv, Types
  <2> QED BY SMT, <1>0, <1>1, <1>a, <1>c, <2>1, Closes
<1>2. CASE Refuse(d, Permission(c))
  <2>1. Permission(c) \in RespondCode
    BY <1>0, ChecksMean
  <2>2. CloseAndReturn(d) /\ answer' = [answer EXCEPT ![c] = Permission(c)]
    BY <1>2 DEF Refuse
  <2>3. /\ answer' \in [Clients -> RespondCode \cup {None}]
        /\ \A x \in Clients \ {c} : answer'[x] = answer[x]
    BY <2>1, <2>2 DEF IInv, Types
  <2> QED BY SMT, <1>0, <1>a, <1>c, <2>2, <2>3, Closes
<1>3. CASE /\ Permission(c) = "OK"
           /\ answer' = [answer EXCEPT ![c] = "OK"]
           /\ dpc' = [dpc EXCEPT ![d] = "dispatch"]
           /\ UNCHANGED <<fd, current>>
  <2>1. Supported' = Supported /\ Allowed' = Allowed
    BY <1>a, KindFixed
  <2>2. c \in Allowed
    BY <1>0, <1>3, ChecksMean
  <2>3. server[c] = d /\ fd[c] = "open" /\ c \notin tasks[d]
    BY <1>0, DaemonAssumption DEF IInv, Handling
  <2>4. cpc[c] # "failed"
    BY <1>0, <2>3, DaemonAssumption DEF IInv, Unconnected
  <2>5. \A x \in Clients \ {c} : answer'[x] = answer[x]
    BY <1>3 DEF IInv, Types
  <2>6. answer'[c] = "OK"
    BY <1>0, <1>3 DEF IInv, Types
  <2>7. Types'
    BY <1>3, <1>a, <1>0 DEF IInv, Types, DaemonStates, RespondCode
  <2>8. Unconnected'
    BY <1>0, <1>3, <1>a, <2>3, <2>4, <2>5, DaemonAssumption DEF IInv, Unconnected
  <2>9. Waiting' /\ Once'
    <3> SUFFICES ASSUME NEW e \in Daemons, NEW i \in 1..Len(backlog[e])
                 PROVE  Waiting!(e)!(i)'
      BY <1>a DEF Waiting, IInv, Once
    <3>1. backlog[e][i] \in Clients \ {c}
      BY <2>3, WaitingClient
    <3> QED BY SMT, <3>1, <1>3, <1>a, <2>5, WaitingClient
  <2>10. Handling'
    <3> SUFFICES ASSUME NEW e \in Daemons PROVE Handling!(e)'
      BY DEF Handling
    <3>1. CASE e = d
      <4>1. dpc'[d] = "dispatch" /\ current'[d] = c /\ tasks'[d] = tasks[d]
        BY <1>3, <1>a DEF IInv, Types
      <4>2. /\ server'[c] = d /\ fd'[c] = "open" /\ served'[c] = 0
            /\ c \in Supported' /\ c \in Allowed'
        BY <1>3, <1>a, <1>b, <2>1, <2>2, <2>3
      <4>3. c # None
        BY <1>0, DaemonAssumption
      <4> QED BY <3>1, <4>1, <4>2, <4>3, <2>3, <2>6 DEF AtRequest
    <3>2. CASE e # d
      <4>1. dpc'[e] = dpc[e]
        BY <3>2, <1>3 DEF IInv, Types
      <4>2. current[e] # c
        BY SMT, <3>2, <1>0, <2>3, DaemonAssumption DEF IInv, Handling
      <4> QED BY SMT, <4>1, <4>2, <1>3, <1>a, <2>1, <2>5 DEF IInv, Handling, Types
    <3> QED BY <3>1, <3>2
  <2>11. Tasked'
    BY SMT, <1>3, <1>a, <2>1, <2>5, <2>6 DEF IInv, Tasked, Types
  <2>12. Owned'
    BY <1>3, <1>a DEF IInv, Owned
  <2>13. Served'
    BY <1>3, <1>a, <1>b, <2>1, <2>5, <2>6 DEF IInv, Served
  <2> QED BY <2>7, <2>8, <2>9, <2>10, <2>11, <2>12, <2>13 DEF IInv
<1> QED BY <1>1, <1>2, <1>3 DEF ReadCode

-----------------------------------------------------------------------------
\* handle_request_sync serves the request and closes the connection; --stop
\* ends the daemon, with every connection it has.
LEMMA ServeSyncHolds ==
    ASSUME IInv, NEW d \in Daemons, ServeSync(d)
    PROVE  IInv'
<1> DEFINE c == current[d]
<1>0. dpc[d] = "dispatch" /\ c \in Clients
  BY CurrentIsClient DEF ServeSync, AtRequest
<1>a. UNCHANGED <<kind, cpc, server, path, answer>>
  BY DEF ServeSync, clientVars
<1>b. /\ served[c] = 0 /\ answer[c] = "OK" /\ c \in Supported \cap Allowed
      /\ server[c] = d /\ fd[c] = "open"
  BY <1>0, DaemonAssumption DEF IInv, Handling
<1>c. /\ served' \in [Clients -> {0, 1}] /\ served'[c] = 1
      /\ \A x \in Clients \ {c} : served'[x] = served[x]
  <2>1. served' = [served EXCEPT ![c] = 1]
    BY SMT, <1>0, <1>b DEF ServeSync, IInv, Types
  <2> QED BY <2>1, <1>0 DEF IInv, Types, Served
<1>1. CASE CloseAndReturn(d) /\ UNCHANGED <<tasks, backlog>>
  <2>1. /\ answer' \in [Clients -> RespondCode \cup {None}] /\ answer'[c] = "OK"
        /\ \A x \in Clients \ {c} : answer'[x] = answer[x]
    BY <1>a, <1>b DEF IInv, Types
  <2> QED BY <1>0, <1>1, <1>a, <1>b, <1>c, <2>1, Closes
<1>2. CASE Exit(d)
  <2>0. Supported' = Supported /\ Allowed' = Allowed
    BY <1>a, KindFixed
  <2>1. /\ dpc' = [dpc EXCEPT ![d] = "exited"]
        /\ current' = [current EXCEPT ![d] = None]
        /\ tasks' = [tasks EXCEPT ![d] = {}]
        /\ backlog' = [backlog EXCEPT ![d] = <<>>]
    BY <1>2 DEF Exit
  <2>2. /\ fd' \in [Clients -> {"none", "open", "closed"}]
        /\ \A x \in Clients : fd'[x] = IF server[x] = d THEN "closed" ELSE fd[x]
    BY <1>2 DEF Exit, IInv, Types
  <2>3. \A e \in Daemons \ {d} :
            /\ dpc'[e] = dpc[e] /\ current'[e] = current[e]
            /\ tasks'[e] = tasks[e] /\ backlog'[e] = backlog[e]
    BY <2>1 DEF IInv, Types
  <2>4. dpc'[d] = "exited" /\ current'[d] = None /\ tasks'[d] = {} /\ backlog'[d] = <<>>
    BY <2>1 DEF IInv, Types
  <2>5. Types'
    <3>1. served' \in [Clients -> Nat]
      BY SMT, <1>c
    <3>2. dpc' \in [Daemons -> DaemonStates]
      BY <2>1 DEF IInv, Types, DaemonStates
    <3>3. /\ current' \in [Daemons -> Clients \cup {None}]
          /\ tasks' \in [Daemons -> SUBSET Clients]
      BY <2>1 DEF IInv, Types
    <3>4. backlog' \in [Daemons -> Seq(Clients)]
      BY SMT, <2>1 DEF IInv, Types
    <3> QED BY <3>1, <3>2, <3>3, <3>4, <1>a, <2>2 DEF IInv, Types
  <2>6. Unconnected'
    <3> SUFFICES ASSUME NEW x \in Clients PROVE Unconnected!(x)'
      BY DEF Unconnected
    <3>1. server[x] = None => x # c /\ server[x] # d
      BY <1>b, DaemonAssumption
    <3> QED BY <3>1, <1>a, <1>c, <2>2 DEF IInv, Unconnected
  <2>7. Waiting'
    <3> SUFFICES ASSUME NEW e \in Daemons, NEW i \in 1..Len(backlog'[e])
                 PROVE  Waiting!(e)!(i)'
      BY DEF Waiting
    <3>1. e # d /\ backlog'[e] = backlog[e]
      BY SMT, <2>3, <2>4
    <3>2. i \in 1..Len(backlog[e])
      BY <3>1
    <3>3. backlog[e][i] \in Clients /\ server[backlog[e][i]] = e
      BY <3>2, WaitingClient
    <3>4. backlog[e][i] # c /\ fd'[backlog[e][i]] = fd[backlog[e][i]]
      BY <3>1, <3>3, <1>b, <2>2
    <3> QED BY SMT, <3>1, <3>2, <3>3, <3>4, <1>a, <1>c, WaitingClient
  <2>12. Once'
    BY SMT, <2>3, <2>4 DEF IInv, Once
  <2>8. Handling'
    <3> SUFFICES ASSUME NEW e \in Daemons PROVE Handling!(e)'
      BY DEF Handling
    <3>1. CASE e = d
      BY <3>1, <2>4 DEF AtRequest
    <3>2. CASE e # d
      <4>1. current[e] # None => current[e] \in Clients /\ server[current[e]] = e
        BY HandledClient
      <4>2. current[e] # None => /\ fd'[current[e]] = fd[current[e]]
                                 /\ served'[current[e]] = served[current[e]]
        BY <3>2, <4>1, <1>b, <1>c, <2>2
      <4>3. /\ dpc'[e] = dpc[e] /\ current'[e] = current[e] /\ tasks'[e] = tasks[e]
            /\ server' = server /\ answer' = answer
        BY <3>2, <1>a, <2>3
      <4>4. Handling!(e)
        BY DEF IInv, Handling
      <4> QED BY <4>2, <4>3, <4>4, <2>0
    <3> QED BY <3>1, <3>2
  <2>9. Tasked'
    <3> SUFFICES ASSUME NEW e \in Daemons, NEW x \in tasks'[e]
                 PROVE  Tasked!(e)!(x)'
      BY DEF Tasked
    <3>1. e # d /\ x \in tasks[e]
      BY <2>3, <2>4
    <3>2. x \in Clients /\ server[x] = e
      BY <3>1 DEF IInv, Tasked, Types
    <3> QED BY SMT, <3>1, <3>2, <1>a, <1>b, <1>c, <2>0, <2>2 DEF IInv, Tasked
  <2>10. Owned'
    BY <1>a, <2>2, <2>3 DEF IInv, Owned
  <2>11. Served'
    <3> SUFFICES ASSUME NEW x \in Clients PROVE Served!(x)'
      BY DEF Served
    <3>1. CASE x = c
      BY <3>1, <1>a, <1>b, <1>c, <2>0, <2>2
    <3>2. CASE x # c
      BY <3>2, <1>a, <1>c, <2>0, <2>2 DEF IInv, Served
    <3> QED BY <3>1, <3>2
  <2> QED BY <2>5, <2>6, <2>7, <2>8, <2>9, <2>10, <2>11, <2>12 DEF IInv
<1> QED BY <1>1, <1>2 DEF ServeSync

\* exec_task moves the connection from the poll loop to the task.
LEMMA HandOverHolds ==
    ASSUME IInv, NEW d \in Daemons, HandOver(d)
    PROVE  IInv'
<1> DEFINE c == current[d]
<1>0. dpc[d] = "dispatch" /\ c \in Clients
  BY CurrentIsClient DEF HandOver, AtRequest
<1>a. UNCHANGED <<kind, cpc, server, path, answer, fd, served, backlog>>
  BY DEF HandOver, clientVars
<1>b. /\ served[c] = 0 /\ answer[c] = "OK" /\ c \in Supported \cap Allowed
      /\ server[c] = d /\ fd[c] = "open"
  BY <1>0, DaemonAssumption DEF IInv, Handling
<1>c. Supported' = Supported /\ Allowed' = Allowed
  BY <1>a, KindFixed
<1>d. /\ tasks' = [tasks EXCEPT ![d] = tasks[d] \cup {c}]
      /\ current' = [current EXCEPT ![d] = None]
      /\ dpc' = [dpc EXCEPT ![d] = "listening"]
  BY DEF HandOver
<1>e. \A e \in Daemons \ {d} :
          tasks'[e] = tasks[e] /\ current'[e] = current[e] /\ dpc'[e] = dpc[e]
  BY <1>d DEF IInv, Types
<1>f. tasks'[d] = tasks[d] \cup {c} /\ current'[d] = None /\ dpc'[d] = "listening"
  BY <1>d DEF IInv, Types
<1>1. Types'
  <2>1. dpc' \in [Daemons -> DaemonStates]
    BY <1>d DEF IInv, Types, DaemonStates
  <2>2. current' \in [Daemons -> Clients \cup {None}]
    BY <1>d DEF IInv, Types
  <2>3. tasks' \in [Daemons -> SUBSET Clients]
    BY <1>0, <1>d DEF IInv, Types
  <2> QED BY <2>1, <2>2, <2>3, <1>a DEF IInv, Types
<1>2. Unconnected' /\ Waiting' /\ Once'
  BY SMT, <1>a DEF IInv, Unconnected, Waiting, Once
<1>6. Served'
  BY <1>a, <1>c DEF IInv, Served
<1>3. Handling'
  <2> SUFFICES ASSUME NEW e \in Daemons PROVE Handling!(e)'
    BY DEF Handling
  <2>1. CASE e = d
    BY <2>1, <1>f DEF AtRequest
  <2>2. CASE e # d
    <3>1. tasks'[e] = tasks[e] /\ current'[e] = current[e] /\ dpc'[e] = dpc[e]
      BY <2>2, <1>e
    <3>2. Handling!(e)
      BY DEF IInv, Handling
    <3> QED BY <3>1, <3>2, <1>a, <1>c
  <2> QED BY <2>1, <2>2
<1>4. Tasked'
  <2> SUFFICES ASSUME NEW e \in Daemons, NEW x \in tasks'[e]
               PROVE  Tasked!(e)!(x)'
    BY DEF Tasked
  <2>1. CASE x \in tasks[e]
    BY <2>1, <1>a, <1>c DEF IInv, Tasked
  <2>2. CASE x \notin tasks[e]
    <3>1. e = d /\ x = c
      BY <2>2, <1>e, <1>f
    <3> QED BY <3>1, <1>a, <1>b, <1>c
  <2> QED BY <2>1, <2>2
<1>5. Owned'
  BY <1>a, <1>e, <1>f DEF IInv, Owned
<1> QED BY <1>1, <1>2, <1>3, <1>4, <1>5, <1>6 DEF IInv

\* A task serves its request once and closes its connection.
LEMMA ServeTaskHolds ==
    ASSUME IInv, NEW d \in Daemons, NEW c \in Clients, ServeTask(d, c)
    PROVE  IInv'
<1>a. UNCHANGED <<kind, cpc, server, path, answer, dpc, backlog, current>>
  BY DEF ServeTask, clientVars
<1>b. /\ c \in tasks[d] /\ served[c] = 0 /\ answer[c] = "OK"
      /\ c \in Supported \cap Allowed /\ server[c] = d /\ fd[c] = "open"
  BY DEF ServeTask, IInv, Tasked
<1>c. Supported' = Supported /\ Allowed' = Allowed
  BY <1>a, KindFixed
<1>d. /\ tasks' = [tasks EXCEPT ![d] = tasks[d] \ {c}]
      /\ fd' = [fd EXCEPT ![c] = "closed"]
      /\ served' = [served EXCEPT ![c] = 1]
  <2>1. /\ tasks' = [tasks EXCEPT ![d] = @ \ {c}]
        /\ fd' = [fd EXCEPT ![c] = "closed"]
        /\ served' = [served EXCEPT ![c] = @ + 1]
    BY DEF ServeTask
  <2> QED BY SMT, <2>1, <1>b
<1>e. /\ \A e \in Daemons \ {d} : tasks'[e] = tasks[e]
      /\ tasks'[d] = tasks[d] \ {c}
      /\ \A x \in Clients \ {c} : fd'[x] = fd[x] /\ served'[x] = served[x]
      /\ fd'[c] = "closed" /\ served'[c] = 1
  BY <1>d DEF IInv, Types
<1>1. Types'
  BY <1>a, <1>d DEF IInv, Types
<1>2. Unconnected'
  <2>1. server[c] # None
    BY <1>b, DaemonAssumption
  <2> QED BY <2>1, <1>a, <1>e DEF IInv, Unconnected
<1>3. Waiting' /\ Once'
  <2> SUFFICES ASSUME NEW e \in Daemons, NEW i \in 1..Len(backlog[e])
               PROVE  Waiting!(e)!(i)'
    BY <1>a DEF Waiting, IInv, Once
  <2>1. backlog[e][i] \in Clients \ {c}
    BY SMT, <1>b, WaitingClient
  <2> QED BY SMT, <2>1, <1>a, <1>e, WaitingClient
<1>4. Handling'
  <2> SUFFICES ASSUME NEW e \in Daemons PROVE Handling!(e)'
    BY DEF Handling
  <2>1. Handling!(e)
    BY DEF IInv, Handling
  <2>2. current[e] # None => current[e] \in Clients \ {c}
    BY <2>1, <1>b, HandledClient
  <2>3. tasks'[e] \subseteq tasks[e]
    BY <1>e
  <2> QED BY <2>1, <2>2, <2>3, <1>a, <1>c, <1>e
<1>5. Tasked'
  <2> SUFFICES ASSUME NEW e \in Daemons, NEW x \in tasks'[e]
               PROVE  Tasked!(e)!(x)'
    BY DEF Tasked
  <2>1. x \in tasks[e]
    BY <1>e
  <2>2. x \in Clients /\ server[x] = e
    BY <2>1, TaskedClient
  <2>3. x # c
    BY <2>2, <1>b, <1>e
  <2>4. Tasked!(e)!(x)
    BY <2>1 DEF IInv, Tasked
  <2> QED BY <2>2, <2>3, <2>4, <1>a, <1>c, <1>e
<1>6. Owned'
  BY <1>a, <1>e DEF IInv, Owned
<1>7. Served'
  BY <1>a, <1>b, <1>c, <1>e DEF IInv, Served
<1> QED BY <1>1, <1>2, <1>3, <1>4, <1>5, <1>6, <1>7 DEF IInv

\* A new connection enters one backlog, behind the others.
LEMMA ConnectToHolds ==
    ASSUME IInv, NEW c \in Clients, cpc[c] \in {"start", "retry"}, ConnectTo(c),
           UNCHANGED <<kind, answer, fd, served, path, current, tasks>>
    PROVE  IInv'
<1>a. path \in Daemons /\ UNCHANGED dpc
  BY DEF ConnectTo, Reachable, IInv, Types
<1>b. server[c] = None /\ fd[c] = "none" /\ answer[c] = None /\ served[c] = 0
  BY DEF IInv, Unconnected
<1>c. Supported' = Supported /\ Allowed' = Allowed
  BY KindFixed
<1>d. /\ server' = [server EXCEPT ![c] = path]
      /\ cpc' = [cpc EXCEPT ![c] = "connected"]
      /\ backlog' = [backlog EXCEPT ![path] = Append(backlog[path], c)]
  BY DEF ConnectTo
<1>e. /\ \A x \in Clients \ {c} : server'[x] = server[x] /\ cpc'[x] = cpc[x]
      /\ server'[c] = path /\ cpc'[c] = "connected"
      /\ \A e \in Daemons \ {path} : backlog'[e] = backlog[e]
      /\ backlog'[path] = Append(backlog[path], c)
  BY <1>a, <1>d DEF IInv, Types
<1>1. Types'
  <2>1. backlog' \in [Daemons -> Seq(Clients)]
    BY SMT, <1>a, <1>d DEF IInv, Types
  <2>2. cpc' \in [Clients -> ClientStates]
    BY <1>d DEF IInv, Types, ClientStates
  <2>3. server' \in [Clients -> Daemons \cup {None}]
    BY <1>a, <1>d DEF IInv, Types
  <2> QED BY <2>1, <2>2, <2>3, <1>a DEF IInv, Types
<1>2. Unconnected'
  BY <1>a, <1>b, <1>e, DaemonAssumption DEF IInv, Unconnected
<1>3. Waiting' /\ Once'
  <2>1. \A e \in Daemons : \A i \in 1..Len(backlog[e]) :
            backlog[e][i] \in Clients \ {c}
    BY SMT, <1>b, WaitingClient, DaemonAssumption
  <2> SUFFICES ASSUME NEW e \in Daemons, NEW i \in 1..Len(backlog'[e])
               PROVE  /\ Waiting!(e)!(i)'
                      /\ \A j \in 1..Len(backlog'[e]) :
                             backlog'[e][i] = backlog'[e][j] => i = j
    BY DEF Waiting, Once
  <2>2. CASE e # path
    <3>1. backlog'[e] = backlog[e]
      BY <2>2, <1>e
    <3>2. i \in 1..Len(backlog[e]) /\ backlog[e][i] \in Clients \ {c}
      BY <3>1, <2>1
    <3>3. Waiting!(e)!(i)'
      BY SMT, <3>1, <3>2, <1>e, WaitingClient
    <3> QED BY <3>1, <3>3 DEF IInv, Once
  <2>3. CASE e = path
    <3>1. backlog[e] \in Seq(Clients) /\ backlog'[e] = Append(backlog[e], c)
      BY <2>3, <1>a, <1>e DEF IInv, Types
    <3>2. /\ Len(backlog'[e]) = Len(backlog[e]) + 1
          /\ \A j \in 1..Len(backlog[e]) : backlog'[e][j] = backlog[e][j]
          /\ backlog'[e][Len(backlog[e]) + 1] = c
          /\ Len(backlog[e]) \in Nat
      BY SMT, <3>1
    <3>3. \A j \in 1..Len(backlog'[e]) :
              j = Len(backlog[e]) + 1 \/ j \in 1..Len(backlog[e])
      BY SMT, <3>2
    <3>4. Once!(e)
      BY DEF IInv, Once
    <3>5. CASE i = Len(backlog[e]) + 1
      <4>1. backlog'[e][i] = c
        BY <3>2, <3>5
      <4>2. \A j \in 1..Len(backlog'[e]) : c = backlog'[e][j] => j = i
        BY <3>2, <3>3, <3>5, <2>1
      <4> QED BY <4>1, <4>2, <2>3, <1>b, <1>e
    <3>6. CASE i \in 1..Len(backlog[e])
      <4>1. backlog'[e][i] = backlog[e][i] /\ backlog[e][i] \in Clients \ {c}
        BY <3>2, <3>6, <2>1
      <4>2. \A j \in 1..Len(backlog'[e]) : backlog'[e][i] = backlog'[e][j] => i = j
        BY <3>2, <3>3, <3>4, <3>6, <4>1
      <4>3. Waiting!(e)!(i)'
        BY SMT, <3>6, <4>1, <1>e, WaitingClient
      <4> QED BY <4>2, <4>3
    <3> QED BY <3>3, <3>5, <3>6
  <2> QED BY <2>2, <2>3
<1>4. Handling'
  <2> SUFFICES ASSUME NEW e \in Daemons PROVE Handling!(e)'
    BY DEF Handling
  <2>1. current[e] # None => current[e] \in Clients \ {c}
    BY <1>b, HandledClient
  <2>2. Handling!(e)
    BY DEF IInv, Handling
  <2> QED BY <2>1, <2>2, <1>a, <1>c, <1>e
<1>5. Tasked'
  <2> SUFFICES ASSUME NEW e \in Daemons, NEW x \in tasks[e]
               PROVE  Tasked!(e)!(x)'
    BY DEF Tasked
  <2>1. x \in Clients \ {c}
    BY <1>b, TaskedClient
  <2>2. Tasked!(e)!(x)
    BY DEF IInv, Tasked
  <2> QED BY <2>1, <2>2, <1>c, <1>e
<1>6. Owned'
  BY <1>b, <1>e DEF IInv, Owned
<1>7. Served'
  BY <1>c DEF IInv, Served
<1> QED BY <1>1, <1>2, <1>3, <1>4, <1>5, <1>6, <1>7 DEF IInv

\* accept moves the oldest connection from the backlog to the poll loop.
LEMMA AcceptHolds ==
    ASSUME IInv, NEW d \in Daemons, Accept(d)
    PROVE  IInv'
<1> DEFINE c == Head(backlog[d])
<1>a. UNCHANGED <<kind, cpc, server, path, answer, served, tasks>>
  BY DEF Accept, clientVars
<1>0. backlog[d] \in Seq(Clients) /\ backlog[d] # <<>> /\ dpc[d] = "listening"
  BY DEF Accept, IInv, Types
<1>1. /\ Len(backlog[d]) \in Nat /\ 1 \in 1..Len(backlog[d])
      /\ c = backlog[d][1] /\ c \in Clients
      /\ Tail(backlog[d]) \in Seq(Clients)
      /\ Len(Tail(backlog[d])) = Len(backlog[d]) - 1
      /\ \A i \in 1..Len(backlog[d]) - 1 : Tail(backlog[d])[i] = backlog[d][i + 1]
  BY SMT, <1>0
<1>b. server[c] = d /\ fd[c] = "none" /\ answer[c] = None /\ served[c] = 0
  BY SMT, <1>1, WaitingClient
<1>c. Supported' = Supported /\ Allowed' = Allowed
  BY <1>a, KindFixed
<1>d. /\ current' = [current EXCEPT ![d] = c]
      /\ backlog' = [backlog EXCEPT ![d] = Tail(backlog[d])]
      /\ fd' = [fd EXCEPT ![c] = "open"]
      /\ dpc' = [dpc EXCEPT ![d] = "accepted"]
  BY DEF Accept
<1> HIDE DEF c
<1>e. /\ \A x \in Clients \ {c} : fd'[x] = fd[x]
      /\ fd'[c] = "open"
      /\ \A e \in Daemons \ {d} : /\ backlog'[e] = backlog[e]
                                  /\ current'[e] = current[e] /\ dpc'[e] = dpc[e]
      /\ backlog'[d] = Tail(backlog[d]) /\ current'[d] = c /\ dpc'[d] = "accepted"
  BY <1>1, <1>d DEF IInv, Types
<1>2. Types'
  <2>1. dpc' \in [Daemons -> DaemonStates]
    BY <1>d DEF IInv, Types, DaemonStates
  <2>2. backlog' \in [Daemons -> Seq(Clients)]
    BY <1>1, <1>d DEF IInv, Types
  <2>3. /\ current' \in [Daemons -> Clients \cup {None}]
        /\ fd' \in [Clients -> {"none", "open", "closed"}]
    BY <1>1, <1>d DEF IInv, Types
  <2> QED BY <2>1, <2>2, <2>3, <1>a DEF IInv, Types
<1>3. Unconnected'
  <2>1. cpc[c] # "failed" /\ server[c] # None
    BY <1>1, <1>b, DaemonAssumption DEF IInv, Unconnected
  <2> QED BY ZenonT(30), <2>1, <1>a, <1>e DEF IInv, Unconnected
<1>4. Waiting' /\ Once'
  <2> SUFFICES ASSUME NEW e \in Daemons, NEW i \in 1..Len(backlog'[e])
               PROVE  /\ Waiting!(e)!(i)'
                      /\ \A j \in 1..Len(backlog'[e]) :
                             backlog'[e][i] = backlog'[e][j] => i = j
    BY DEF Waiting, Once
  <2>1. CASE e # d
    <3>1. backlog'[e] = backlog[e]
      BY <2>1, <1>e
    <3>2. i \in 1..Len(backlog[e])
      BY <3>1
    <3>3. backlog[e][i] \in Clients \ {c}
      BY SMT, <3>2, <2>1, <1>b, WaitingClient
    <3>4. Waiting!(e)!(i)'
      BY SMT, <3>1, <3>2, <3>3, <1>a, <1>e, WaitingClient
    <3> QED BY <3>1, <3>4 DEF IInv, Once
  <2>2. CASE e = d
    <3>1. \A j \in 1..Len(backlog'[d]) :
              /\ j \in 1..Len(backlog[d]) - 1 /\ j + 1 \in 1..Len(backlog[d])
              /\ backlog'[d][j] = backlog[d][j + 1]
      <4>1. Len(backlog'[d]) = Len(backlog[d]) - 1
        BY <1>1, <1>e
      <4> QED BY SMT, <4>1, <1>1, <1>e
    <3>2. Once!(d)
      BY DEF IInv, Once
    <3>3. backlog[d][i + 1] \in Clients \ {c}
      <4>1. backlog[d][i + 1] \in Clients
        BY <2>2, <3>1, WaitingClient
      <4>2. i + 1 # 1
        BY SMT, <2>2, <3>1
      <4> QED BY <2>2, <3>1, <3>2, <4>1, <4>2, <1>1
    <3>4. \A j \in 1..Len(backlog'[d]) : backlog'[d][i] = backlog'[d][j] => i = j
      <4> SUFFICES ASSUME NEW j \in 1..Len(backlog'[d]), backlog'[d][i] = backlog'[d][j]
                   PROVE  i = j
        OBVIOUS
      <4>1. i + 1 = j + 1
        BY <2>2, <3>1, <3>2
      <4> QED BY SMT, <2>2, <4>1
    <3>5. Waiting!(e)!(i)'
      BY SMT, <2>2, <3>1, <3>3, <1>a, <1>e, WaitingClient
    <3> QED BY <2>2, <3>4, <3>5
  <2> QED BY <2>1, <2>2
<1>5. Handling'
  <2> SUFFICES ASSUME NEW e \in Daemons PROVE Handling!(e)'
    BY DEF Handling
  <2>1. CASE e = d
    <3>1. c \notin tasks[d] /\ c # None
      BY <1>1, <1>b, TaskedClient, DaemonAssumption
    <3> QED BY <2>1, <3>1, <1>a, <1>b, <1>e DEF AtRequest
  <2>2. CASE e # d
    <3>1. current[e] # None => current[e] \in Clients \ {c}
      BY <1>b, HandledClient
    <3>2. Handling!(e)
      BY DEF IInv, Handling
    <3>3. current'[e] = current[e] /\ dpc'[e] = dpc[e] /\ tasks'[e] = tasks[e]
      BY <2>2, <1>a, <1>e
    <3> QED BY <3>1, <3>2, <3>3, <1>a, <1>c, <1>e
  <2> QED BY <2>1, <2>2
<1>6. Tasked'
  <2> SUFFICES ASSUME NEW e \in Daemons, NEW x \in tasks[e]
               PROVE  Tasked!(e)!(x)'
    BY <1>a DEF Tasked
  <2>1. x \in Clients \ {c}
    BY <1>b, TaskedClient
  <2>2. Tasked!(e)!(x)
    BY DEF IInv, Tasked
  <2> QED BY <2>1, <2>2, <1>a, <1>c, <1>e
<1>7. Owned'
  <2> SUFFICES ASSUME NEW x \in Clients, fd'[x] = "open"
               PROVE  /\ server[x] \in Daemons
                      /\ current'[server[x]] = x \/ x \in tasks[server[x]]
    BY <1>a DEF Owned
  <2>1. CASE x = c
    BY <2>1, <1>b, <1>e
  <2>2. CASE x # c
    <3>1. server[x] \in Daemons /\ (current[server[x]] = x \/ x \in tasks[server[x]])
      BY <2>2, <1>e DEF IInv, Owned
    <3>2. current[d] # x
      BY SMT, <1>0, DaemonAssumption DEF IInv, Handling, AtRequest
    <3> QED BY <3>1, <3>2, <1>e
  <2> QED BY <2>1, <2>2
<1>8. Served'
  <2> SUFFICES ASSUME NEW x \in Clients PROVE Served!(x)'
    BY DEF Served
  <2>1. CASE x = c
    BY SMT, <2>1, <1>a, <1>b, <1>e
  <2>2. CASE x # c
    BY <2>2, <1>a, <1>c, <1>e DEF IInv, Served
  <2> QED BY <2>1, <2>2
<1> QED BY <1>2, <1>3, <1>4, <1>5, <1>6, <1>7, <1>8 DEF IInv

-----------------------------------------------------------------------------
\* Every step of every client and daemon keeps the invariant.
LEMMA NextHolds == IInv /\ [Next]_vars => IInv'
<1> SUFFICES ASSUME IInv, [Next]_vars PROVE IInv'
  OBVIOUS
<1>1. ASSUME NEW c \in Clients, ClientStep(c) \/ ClientDies(c)
      PROVE  IInv'
  <2>1. CASE Connect(c) /\ ConnectTo(c)
    BY <2>1, ConnectToHolds DEF Connect
  <2>2. CASE Retry(c)
    BY <2>2, ConnectToHolds DEF Retry
  <2>3. CASE Connect(c) /\ (GiveUp(c) \/ ForkDaemon(c))
    BY <2>3, NoAnswerHolds DEF Connect
  <2>4. Connect(c) => ConnectTo(c) \/ GiveUp(c) \/ ForkDaemon(c)
    BY DEF Connect
  <2> QED BY <1>1, <2>1, <2>2, <2>3, <2>4, WriteCodeHolds, ReadAnswerHolds, WriteArgHolds,
             ClientDiesHolds DEF ClientStep
<1>2. ASSUME NEW d \in Daemons, BootStep(d) \/ RequestStep(d)
      PROVE  IInv'
  BY <1>2, BootStepHolds, AcceptHolds, CheckClientHolds, ReadCodeHolds, ServeSyncHolds,
     HandOverHolds DEF RequestStep
<1>3. ASSUME NEW d \in Daemons, NEW c \in Clients, ServeTask(d, c)
      PROVE  IInv'
  BY <1>3, ServeTaskHolds
<1>4. CASE UNCHANGED vars
  <2>1. UNCHANGED <<kind, cpc, server, answer, fd, served, dpc, path, backlog, current, tasks>>
    BY <1>4 DEF vars
  <2>2. /\ cpc' \in [Clients -> ClientStates] /\ dpc' \in [Daemons -> DaemonStates]
        /\ path' \in Daemons \cup {None}
    BY <2>1 DEF IInv, Types
  <2> QED BY <2>1, <2>2, NoConnection
<1> QED BY <1>1, <1>2, <1>3, <1>4 DEF Next

\* A connection is in one place at a time: waiting in one backlog, with the poll
\* loop, with one task, or closed; and what the daemon has done with it so far
\* fits that place.
THEOREM Inductive == Spec => []IInv
<1> QED BY InitHolds, NextHolds, PTL DEF Spec

\* What connect_daemon reports is what happened: a request is carried out at
\* most once and only if it was answered OK, and never after connect_daemon
\* has reported failure, however clients, daemons and tasks interleave.
THEOREM AnswersCorrect == Spec => []AnswerIsTrue
<1>1. IInv => AnswerIsTrue
  <2> SUFFICES ASSUME IInv, NEW c \in Clients PROVE AnswerIsTrue!(c)
    BY DEF AnswerIsTrue
  <2>1. served[c] \in {0, 1} /\ (served[c] = 1 => answer[c] = "OK")
    BY DEF IInv, Served
  <2>2. ASSUME cpc[c] = "failed"
        PROVE  served[c] = 0 /\ \A d \in Daemons : c \notin tasks[d]
    BY <2>1, <2>2 DEF IInv, Unconnected, Tasked
  <2> QED BY SMT, <2>1, <2>2
<1> QED BY <1>1, Inductive, PTL

\* handle_request carries out no request beyond the caller's rights, for every
\* combination of callers and requests.
THEOREM RightsCorrect == Spec => []OnlyPermitted
<1>1. IInv => OnlyPermitted
  <2> SUFFICES ASSUME IInv, NEW c \in Clients, served[c] > 0
               PROVE  OnlyPermitted!(c)!2
    BY DEF OnlyPermitted
  <2>1. c \in Supported /\ c \in Allowed
    BY SMT DEF IInv, Served
  <2>2. kind[c].uid = "root" \/ kind[c].zygote \/ kind[c].exe
    BY <2>1 DEF Supported
  <2>3. Permission(c) = "OK"
    BY <2>1 DEF Allowed
  <2>4. /\ kind[c].req \in RootCodes => kind[c].uid = "root"
        /\ kind[c].req = "ZYGISK" => kind[c].zygote
        /\ kind[c].req = "REMOVE_MODULES" => kind[c].uid # "app"
    BY <2>3 DEF Permission, RootCodes
  <2> QED BY <2>2, <2>4
<1> QED BY <1>1, Inductive, PTL

\* An open connection is owned by handle_request or by one task of the daemon
\* that accepted it, never by both and never by nobody.
THEOREM OwnersCorrect == Spec => []FdHasOneOwner
<1>1. IInv => FdHasOneOwner
  <2> SUFFICES ASSUME IInv, NEW c \in Clients, fd[c] = "open"
               PROVE  LET owners == {d \in Daemons : current[d] = c}
                          holders == {d \in Daemons : c \in tasks[d]}
                      IN  owners \cup holders = {server[c]} /\ owners \cap holders = {}
    BY DEF FdHasOneOwner
  <2>1. server[c] \in Daemons /\ (current[server[c]] = c \/ c \in tasks[server[c]])
    BY DEF IInv, Owned
  <2>2. \A d \in Daemons : current[d] = c => c \notin tasks[d]
    BY DaemonAssumption DEF IInv, Handling
  <2>3. \A d \in Daemons : current[d] = c \/ c \in tasks[d] => d = server[c]
    BY SMT, HandledClient, TaskedClient, DaemonAssumption
  <2> QED BY <2>1, <2>2, <2>3
<1> QED BY <1>1, Inductive, PTL

-----------------------------------------------------------------------------
(* Daemons in turn *)

\* Whoever has forked a daemon waits for it, and is the only one to start one.
InTurn ==
    /\ dpc \in [Daemons -> DaemonStates] /\ cpc \in [Clients -> ClientStates]
    /\ path \in Daemons \cup {None}
    /\ inTurn =>
         /\ OneDaemon
         /\ \A d \in Daemons : dpc[d] = "unlinked" => path = None
         /\ \A c \in Clients : cpc[c] = "retry" => Creates(c)
         /\ (\E d \in Daemons : dpc[d] \in {"entry", "unlinked", "bound"}) =>
                \E c \in Clients : cpc[c] = "retry"

\* A client that does not wait for a daemon takes a step that starts none.
LEMMA InTurnClient ==
    ASSUME InTurn, NEW c \in Clients, NEW x \in ClientStates \ {"retry"},
           inTurn => cpc[c] # "retry", cpc' = [cpc EXCEPT ![c] = x], UNCHANGED <<kind, dpc, path, inTurn>>
    PROVE  InTurn'
<1>1. \A o \in Clients : inTurn => (cpc'[o] = "retry" <=> cpc[o] = "retry")
  BY DEF InTurn
<1>2. cpc' \in [Clients -> ClientStates]
  BY DEF InTurn
<1> QED BY <1>1, <1>2 DEF InTurn, OneDaemon, Alive, Live, Creates

\* A daemon that serves goes on or exits.
LEMMA InTurnServe ==
    ASSUME InTurn, NEW d \in Daemons, NEW x \in Listening \cup {"exited"}, dpc[d] \in Listening \cup {"bound"},
           dpc' = [dpc EXCEPT ![d] = x], UNCHANGED <<kind, cpc, path, inTurn>>
    PROVE  InTurn'
<1>1. dpc' \in [Daemons -> DaemonStates] /\ dpc'[d] = x
  BY DEF InTurn, DaemonStates, Listening
<1>2. \A e \in Daemons : e # d => dpc'[e] = dpc[e]
  BY DEF InTurn
<1>3. x \notin {"none", "entry", "unlinked", "bound"} /\ dpc[d] \notin {"none", "exited"}
  BY DEF Listening
<1>4. \A e \in Daemons : /\ Alive(e)' => Alive(e) /\ (Live(e)' => Live(e))
                         /\ dpc'[e] \in {"entry", "unlinked", "bound"} => dpc'[e] = dpc[e]
  BY <1>1, <1>2, <1>3 DEF Alive, Live, Listening
<1>5. inTurn => OneDaemon'
  BY <1>4 DEF InTurn, OneDaemon
<1> QED BY <1>1, <1>4, <1>5 DEF InTurn, Creates

\* connect_daemon.
LEMMA InTurnConnect ==
    ASSUME InTurn, NEW c \in Clients, Connect(c) \/ Retry(c)
    PROVE  InTurn'
<1>0. UNCHANGED <<kind, path, inTurn>>
  BY DEF Connect, Retry
<1>1. CASE ConnectTo(c)
  <2>1. Reachable /\ cpc' = [cpc EXCEPT ![c] = "connected"] /\ UNCHANGED dpc
    BY <1>1 DEF ConnectTo
  <2>2. inTurn => \A d \in Daemons : dpc[d] \notin {"entry", "unlinked", "bound"}
    <3>1. path \in Daemons /\ dpc[path] \in Listening
      BY <2>1 DEF Reachable, InTurn
    <3> QED BY <3>1 DEF InTurn, OneDaemon, Alive, Listening
  <2>3. cpc' \in [Clients -> ClientStates] /\ \A o \in Clients : cpc'[o] = "retry" => cpc[o] = "retry"
    BY <2>1 DEF InTurn, ClientStates
  <2> QED BY <1>0, <2>1, <2>2, <2>3 DEF InTurn, OneDaemon, Alive, Live, Creates
<1>2. CASE Connect(c) /\ GiveUp(c)
  BY <1>0, <1>2, InTurnClient DEF Connect, GiveUp, ClientStates
<1>3. CASE Connect(c) /\ ForkDaemon(c)
  <2>1. PICK d \in Daemons : dpc[d] = "none" /\ dpc' = [dpc EXCEPT ![d] = "entry"]
    BY <1>3 DEF ForkDaemon
  <2>2. ~Reachable /\ Creates(c) /\ cpc[c] = "start" /\ cpc' = [cpc EXCEPT ![c] = "retry"] /\ MayStart(c)
    BY <1>3 DEF Connect, ForkDaemon
  <2>3. cpc' \in [Clients -> ClientStates] /\ dpc' \in [Daemons -> DaemonStates]
    BY <2>1, <2>2 DEF InTurn, ClientStates, DaemonStates
  <2>4. /\ cpc'[c] = "retry" /\ \A o \in Clients : o # c => cpc'[o] = cpc[o]
        /\ dpc'[d] = "entry" /\ \A e \in Daemons : e # d => dpc'[e] = dpc[e]
    BY <2>1, <2>2 DEF InTurn
  <2>5. inTurn => \A o \in Clients : cpc[o] # "retry"
    BY <2>2 DEF InTurn, MayStart, Finished
  <2>6. inTurn => \A e \in Daemons : ~Alive(e)
    <3> SUFFICES ASSUME inTurn, NEW e \in Daemons, Alive(e) PROVE FALSE
      OBVIOUS
    <3>1. dpc[e] \notin {"entry", "unlinked", "bound"}
      BY <2>5 DEF InTurn
    <3>2. dpc[e] \in Listening
      BY <3>1 DEF InTurn, Alive, DaemonStates, Listening
    <3>3. path = e
      BY <3>2 DEF InTurn, OneDaemon, Live
    <3> QED BY <2>2, <3>2, <3>3, DaemonAssumption DEF Reachable
  <2>7. inTurn => OneDaemon'
    BY <1>0, <2>4, <2>6 DEF OneDaemon, Alive, Live, Listening
  <2>8. inTurn => \A e \in Daemons : dpc'[e] # "unlinked"
    BY <2>4, <2>6 DEF Alive
  <2> QED BY <1>0, <2>2, <2>3, <2>4, <2>5, <2>7, <2>8 DEF InTurn, Creates
<1> QED BY <1>1, <1>2, <1>3 DEF Connect, Retry

\* daemon_entry: nobody else is there to lose the socket.
LEMMA InTurnBoot ==
    ASSUME InTurn, NEW d \in Daemons, BootStep(d)
    PROVE  InTurn'
<1>0. UNCHANGED <<kind, cpc, inTurn>>
  BY DEF BootStep, Unlink, Bind, Listen, clientVars
<1>1. CASE Listen(d)
  BY <1>0, <1>1, InTurnServe DEF Listen, Listening
<1>2. ASSUME NEW x \in {"unlinked", "bound", "exited"}, dpc[d] \in {"entry", "unlinked"},
             path' \in Daemons \cup {None}, dpc' = [dpc EXCEPT ![d] = x], x = "unlinked" => path' = None, x = "bound" => path' = d
      PROVE  InTurn'
  <2>1. dpc' \in [Daemons -> DaemonStates] /\ dpc'[d] = x /\ \A e \in Daemons : e # d => dpc'[e] = dpc[e]
    BY <1>2 DEF InTurn, DaemonStates
  <2>2. inTurn => \A e \in Daemons : e # d => ~Alive(e) /\ ~Alive(e)'
    BY <1>2, <2>1 DEF InTurn, OneDaemon, Alive
  <2>3. inTurn => \E c \in Clients : cpc'[c] = "retry"
    BY <1>0, <1>2 DEF InTurn
  <2>4. inTurn => OneDaemon'
    BY <1>0, <1>2, <2>1, <2>2 DEF OneDaemon, Alive, Live, Listening
  <2>5. inTurn => \A e \in Daemons : dpc'[e] = "unlinked" => path' = None
    BY <1>2, <2>1, <2>2 DEF Alive
  <2> QED BY <1>0, <1>2, <2>1, <2>3, <2>4, <2>5 DEF InTurn, Creates
<1>3. CASE Unlink(d)
  BY <1>2, <1>3 DEF Unlink
<1>4. CASE Bind(d)
  BY <1>2, <1>4 DEF Bind, InTurn
<1> QED BY <1>1, <1>3, <1>4 DEF BootStep

LEMMA InTurnNext == InTurn /\ [Next]_vars => InTurn'
<1> SUFFICES ASSUME InTurn, [Next]_vars PROVE InTurn'
  OBVIOUS
<1>1. ASSUME NEW c \in Clients, ClientStep(c) \/ ClientDies(c) PROVE InTurn'
  <2>1. CASE WriteCode(c)
    BY <2>1, InTurnClient DEF WriteCode, ClientStates
  <2>2. CASE ReadAnswer(c)
    BY <2>2, InTurnClient DEF ReadAnswer, ClientStates
  <2>3. CASE WriteArg(c)
    BY <2>3 DEF WriteArg, InTurn, OneDaemon, Alive, Live, Creates
  <2>4. CASE ClientDies(c)
    BY <2>4, InTurnClient DEF ClientDies, ClientStates
  <2> QED BY <1>1, <2>1, <2>2, <2>3, <2>4, InTurnConnect DEF ClientStep
<1>2. ASSUME NEW d \in Daemons, RequestStep(d) PROVE InTurn'
  BY <1>2, InTurnServe
  DEF RequestStep, Accept, CheckClient, ReadCode, ServeSync, HandOver, Exit, Refuse, CloseAndReturn,
      Listening, clientVars
<1>3. ASSUME UNCHANGED <<kind, cpc, dpc, path, inTurn>> PROVE InTurn'
  BY <1>3 DEF InTurn, OneDaemon, Alive, Live, Creates
<1>4. ASSUME NEW d \in Daemons, NEW c \in Clients, ServeTask(d, c) PROVE InTurn'
  BY <1>3, <1>4 DEF ServeTask, clientVars
<1> QED BY <1>1, <1>2, <1>3, <1>4, InTurnBoot DEF Next, vars

\* While the clients that may fork a daemon run one after the other, the unlink
\* and the bind of daemon_entry never meet a second daemon.
THEOREM OneAtATime == Spec => []OneDaemon
<1>1. Init => InTurn
  <2> SUFFICES ASSUME Init PROVE InTurn
    OBVIOUS
  <2>1. /\ cpc = [c \in Clients |-> "start"] /\ dpc = [d \in Daemons |-> "none"] /\ path = None
    BY DEF Init
  <2>2. \A d \in Daemons : ~Alive(d)
    BY <2>1 DEF Alive
  <2> QED BY <2>1, <2>2 DEF InTurn, OneDaemon, ClientStates, DaemonStates
<1>2. InTurn => OneDaemon
  BY DEF InTurn, OneDaemon
<1> QED BY <1>1, <1>2, InTurnNext, PTL DEF Spec
=============================================================================
