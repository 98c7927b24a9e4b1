---------------------------- MODULE ZygiskProofs ----------------------------
(***************************************************************************)
(* Proofs about Zygisk, for any modules, any number of children and of     *)
(* zygiskd processes, and any order of stops, crashes and requests.        *)
(* And about its hooks inside zygote and the processes it forks.           *)
(***************************************************************************)
EXTENDS Zygisk, ZygiskHooks, TLAPS

\* Most leaves are first-order; the others cite SMT.
USE Zenon

\* The places of get_process_info and connect_zygiskd.
Places == {"done", "flags", "fds", "failed", "lock", "abi", "ack", "send"}

Types ==
    /\ lock \in Procs \cup {None}
    /\ h \in [Procs -> Places]
    /\ id \in [Procs -> Ids \cup {None}]
    /\ sockets \in [Abis -> Companions \cup {None}]
    /\ comp \in [Companions -> {"dead", "loading", "ready", "reading"}]
    /\ abi \in [Companions -> Abis]
    /\ inbox \in [Companions -> Seq(Procs)]
    /\ client \in [Companions -> Procs \cup {None}]
    /\ DOMAIN task = Procs

\* The request of p is one for the companion of a module that p loads.
Asks(p) == id[p] \in Loaded(p)

\* connect_zygiskd is in the scope of the mutex guard from the lock to the end.
Mutex ==
    \A p \in Procs :
        /\ h[p] \in {"abi", "ack", "send"} => lock = p
        /\ h[p] \in {"lock", "abi", "ack", "send"} => Asks(p)

\* A stored socket leads to a zygiskd of that ABI, or to one that is gone.
Stored == \A a \in Abis : sockets[a] \in Companions /\ Alive(sockets[a]) => abi[sockets[a]] = a

\* Whoever was handed to a zygiskd asked for a companion of its ABI.
Fits(d, p) == Asks(p) /\ abi[d] = Abi[p]

\* What a zygiskd has to do, or does, it has been sent while it was there.
Sent ==
    \A d \in Companions :
        /\ \A i \in 1..Len(inbox[d]) : Alive(d) /\ Fits(d, inbox[d][i])
        /\ comp[d] = "reading" => client[d] \in Procs
        /\ client[d] # None => Alive(d) /\ Fits(d, client[d])

Serving ==
    \A p \in Procs : task[p] # None =>
        /\ task[p][1] \in Companions /\ Alive(task[p][1]) /\ Fits(task[p][1], p)
        /\ task[p][2] = id[p]

\* The restarts are counted from the one start that every boot has, and none is
\* counted in a boot whose post-fs-data is not through, unless zygote was early.
Counted ==
    /\ count \in Nat /\ counted \in Nat /\ restoring \in Nat
    /\ resets \in [wait : Nat, count : Nat]
    /\ stage \in {"scripts", "loaded", "done"} /\ early \in BOOLEAN
    /\ count = counted + 1
    /\ stage # "done" /\ ~early =>
           zygote = "down" /\ resets.wait = 0 /\ resets.count = 0 /\ counted = 0

Requests == Types /\ Mutex /\ Stored /\ Sent /\ Serving

Restarts == Counted /\ RolledBack

-----------------------------------------------------------------------------
(* Requests for a companion *)

\* The constants are what the daemon has read of the modules.
LEMMA NoneIsNone == None \notin Procs /\ None \notin Companions /\ None \notin Ids
BY ZygiskAssumption

LEMMA RequestsInit == Init => Requests
<1> SUFFICES ASSUME Init PROVE Requests
    OBVIOUS
<1>1. Types
    BY SMT DEF Init, Types, Places, Abis
<1>2. Mutex /\ Stored
    BY NoneIsNone DEF Init, Mutex, Stored
<1>3. Sent
    BY SMT DEF Init, Sent
<1>4. Serving
    BY DEF Init, Serving
<1> QED BY <1>1, <1>2, <1>3, <1>4 DEF Requests

\* What zygiskd has to do is not touched by a step of magiskd or of a child.
LEMMA WorkStays ==
    ASSUME Requests, UNCHANGED <<id, comp, abi, inbox, client, task>>
    PROVE  Sent' /\ Serving' /\ \A p \in Procs : Asks(p)' <=> Asks(p)
<1>1. \A p : Asks(p)' <=> Asks(p)
    BY DEF Asks
<1>2. \A d, p : (Alive(d)' <=> Alive(d)) /\ (Fits(d, p)' <=> Fits(d, p))
    BY <1>1 DEF Alive, Fits
<1>3. Sent'
    BY <1>2 DEF Requests, Sent
<1>4. Serving'
    BY <1>2 DEF Requests, Serving
<1> QED BY <1>1, <1>3, <1>4

\* Steps of the boot, of zygote and of a child that only reads or writes.
LEMMA RequestsStay ==
    ASSUME Requests, UNCHANGED <<lock, h, id, sockets, comp, abi, inbox, client, task>>
    PROVE  Requests'
<1> USE DEF Requests
<1>1. Types'
    BY DEF Types
<1>2. Mutex' /\ Stored'
    BY DEF Mutex, Asks, Stored, Alive
<1> QED BY <1>1, <1>2, WorkStays

\* What one zygiskd has to do is not touched by what happens to another.
LEMMA SentStays ==
    ASSUME Sent, NEW e \in Companions, UNCHANGED id, inbox'[e] = inbox[e], client'[e] = client[e],
           comp'[e] = comp[e], abi'[e] = abi[e]
    PROVE  Sent!(e)'
<1>1. (Alive(e)' <=> Alive(e)) /\ \A q : Fits(e, q)' <=> Fits(e, q)
    BY DEF Alive, Fits, Asks
<1>2. Sent!(e)
    BY DEF Sent
<1> QED BY <1>1, <1>2

\* zygisk_reset closes the sockets.
LEMMA ResetSocketsHolds == Requests /\ ResetSockets => Requests'
<1> SUFFICES ASSUME Requests, ResetSockets PROVE Requests'
    OBVIOUS
<1>0. UNCHANGED <<lock, h, id, comp, abi, inbox, client, task>> /\ sockets' = [a \in Abis |-> None]
    BY DEF ResetSockets, children, companions
<1>1. Types'
    BY <1>0 DEF Requests, Types
<1>2. Mutex'
    BY <1>0, WorkStays DEF Requests, Mutex
<1>3. Stored'
    BY <1>0, NoneIsNone DEF Stored
<1> QED BY <1>0, <1>1, <1>2, <1>3, WorkStays DEF Requests

\* A thread moves on and leaves the mutex as it is.
LEMMA Moves ==
    ASSUME Requests, NEW p \in Procs, NEW x \in Places, h' = [h EXCEPT ![p] = x],
           x \in {"abi", "ack", "send"} => lock = p,
           x \in {"lock", "abi", "ack", "send"} => Asks(p),
           UNCHANGED <<lock, id, sockets, comp, abi, inbox, client, task>>
    PROVE  Requests'
<1> USE DEF Requests
<1>1. Types'
    BY DEF Types
<1>2. Mutex'
    BY WorkStays DEF Types, Mutex
<1>3. Stored'
    BY DEF Stored, Alive
<1> QED BY <1>1, <1>2, <1>3, WorkStays

\* get_process_info, and the connect_zygiskd that finds its zygiskd.
LEMMA MovesHold ==
    ASSUME Requests, NEW p \in Procs,
           \/ Ask(p) \/ SendFlags(p) \/ SendFds(p) \/ MarkUnloaded(p) \/ UseZygiskd(p) \/ ReadAck(p)
    PROVE  Requests'
<1>1. CASE Ask(p)
    BY <1>1, Moves DEF Ask, Places, companions
<1>2. CASE SendFlags(p)
    BY <1>2, Moves DEF SendFlags, Places, companions, children
<1>3. CASE SendFds(p)
    <2>1. CASE Role[p] = "server"
        BY <1>3, <2>1, Moves DEF SendFds, Places, companions, children
    <2>2. CASE Role[p] # "server"
        BY <1>3, <2>2, Moves DEF SendFds, Places, companions, children
    <2> QED BY <2>1, <2>2
<1>4. CASE MarkUnloaded(p)
    BY <1>4, Moves DEF MarkUnloaded, Places, companions
<1>5. CASE UseZygiskd(p)
    BY <1>5, Moves DEF UseZygiskd, Places, companions, children, Requests, Mutex
<1>6. CASE ReadAck(p)
    BY <1>6, Moves DEF ReadAck, Places, companions, children, Requests, Mutex
<1> QED BY <1>1, <1>2, <1>3, <1>4, <1>5, <1>6

\* connectCompanion: p asks for the first time, so nobody has to do with it yet.
LEMMA ConnectHolds ==
    ASSUME Requests, NEW p \in Procs, NEW i \in Ids, Connect(p, i)
    PROVE  Requests'
<1> USE DEF Requests
<1>0. /\ UNCHANGED <<lock, sockets, comp, abi, inbox, client, task>>
      /\ id[p] = None /\ i \in Loaded(p)
      /\ id' = [id EXCEPT ![p] = i] /\ h' = [h EXCEPT ![p] = "lock"]
    BY DEF Connect, companions
<1>1. Types'
    BY <1>0 DEF Types, Places
<1>2. ~Asks(p) /\ Asks(p)'
    BY <1>0, NoneIsNone DEF Asks, Loaded, Types
<1>3. \A q \in Procs : q # p => id'[q] = id[q] /\ h'[q] = h[q] /\ (Asks(q)' <=> Asks(q))
    BY <1>0 DEF Asks, Types
<1>4. h'[p] = "lock"
    BY <1>0 DEF Types
<1>5. Mutex'
    BY <1>0, <1>2, <1>3, <1>4 DEF Mutex
<1>6. Stored'
    BY <1>0 DEF Stored, Alive
<1>7. \A q \in Procs, d \in Companions : Fits(d, q) => Fits(d, q)' /\ id'[q] = id[q]
    BY <1>0, <1>2, <1>3 DEF Fits
<1>8. Sent'
    <2> SUFFICES ASSUME NEW d \in Companions PROVE Sent!(d)'
        BY DEF Sent
    <2>1. ASSUME NEW j \in 1..Len(inbox[d]) PROVE Alive(d)' /\ Fits(d, inbox[d][j])'
        <3>1. inbox[d][j] \in Procs
            BY SMT DEF Types
        <3> QED BY <1>0, <1>7, <3>1 DEF Sent, Alive
    <2>2. ASSUME client[d] # None PROVE Alive(d)' /\ Fits(d, client[d])'
        <3>1. client[d] \in Procs
            BY <2>2 DEF Types
        <3> QED BY <1>0, <1>7, <2>2, <3>1 DEF Sent, Alive
    <2> QED BY <1>0, <2>1, <2>2 DEF Sent
<1>9. Serving'
    BY <1>0, <1>7 DEF Serving, Alive
<1> QED BY <1>1, <1>5, <1>6, <1>8, <1>9

\* The mutex is taken.
LEMMA LockHolds == ASSUME Requests, NEW p \in Procs, Lock(p) PROVE Requests'
<1> USE DEF Requests
<1>0. /\ UNCHANGED <<id, sockets, comp, abi, inbox, client, task>>
      /\ lock = None /\ lock' = p /\ h[p] = "lock" /\ h' = [h EXCEPT ![p] = "abi"]
    BY DEF Lock, children, companions
<1>1. Types'
    BY <1>0 DEF Types, Places
<1>2. \A q \in Procs : h[q] \notin {"abi", "ack", "send"}
    BY <1>0, NoneIsNone DEF Mutex
<1>3. \A q \in Procs : q # p => h'[q] = h[q]
    BY <1>0 DEF Types
<1>4. Mutex'
    BY <1>0, <1>2, <1>3, WorkStays DEF Mutex
<1>5. Stored'
    BY <1>0 DEF Stored, Alive
<1> QED BY <1>0, <1>1, <1>4, <1>5, WorkStays

\* Who gives up the mutex had it alone.
LEMMA Released ==
    ASSUME h \in [Procs -> Places], Mutex, NEW p \in Procs, h[p] \in {"abi", "send"},
           h' = [h EXCEPT ![p] = "done"], lock' = None, UNCHANGED id
    PROVE  Mutex'
<1>1. \A q \in Procs : q # p => h'[q] = h[q] /\ h[q] \notin {"abi", "ack", "send"}
    BY DEF Mutex
<1>2. h'[p] = "done"
    OBVIOUS
<1>3. \A q \in Procs : Asks(q)' <=> Asks(q)
    BY DEF Asks
<1> QED BY <1>1, <1>2, <1>3 DEF Mutex

\* The client is gone: the guard is dropped.
LEMMA ReadAbiFailsHolds == ASSUME Requests, NEW p \in Procs, ReadAbiFails(p) PROVE Requests'
<1> USE DEF Requests
<1>0. /\ UNCHANGED <<id, sockets, comp, abi, inbox, client, task>>
      /\ lock' = None /\ h[p] = "abi" /\ h' = [h EXCEPT ![p] = "done"]
    BY DEF ReadAbiFails, children, companions
<1>1. Types'
    BY <1>0 DEF Types, Places
<1>2. Mutex'
    BY <1>0, Released DEF Types
<1>3. Stored'
    BY <1>0 DEF Stored, Alive
<1> QED BY <1>0, <1>1, <1>2, <1>3, WorkStays

\* A zygiskd is started where there was none; nobody has to do with it yet.
LEMMA StartZygiskdHolds ==
    ASSUME Requests, NEW p \in Procs, NEW d \in Companions, StartZygiskd(p, d)
    PROVE  Requests'
<1> USE DEF Requests
<1>0. /\ UNCHANGED <<lock, id, inbox, client, task>>
      /\ h[p] = "abi" /\ h' = [h EXCEPT ![p] = "ack"] /\ sockets' = [sockets EXCEPT ![Abi[p]] = d]
      /\ comp' = [comp EXCEPT ![d] = "loading"] /\ abi' = [abi EXCEPT ![d] = Abi[p]]
      /\ ~Alive(d) /\ \A a \in Abis \ {Abi[p]} : sockets[a] # d
    BY DEF StartZygiskd, children
<1>1. Abi[p] \in Abis
    BY ZygiskAssumption
<1>2. Types'
    BY <1>0, <1>1 DEF Types, Places
<1>3. Mutex'
    BY <1>0 DEF Types, Mutex, Asks
<1>4. Alive(d)' /\ abi'[d] = Abi[p]
    BY <1>0 DEF Types, Alive
<1>5. \A e \in Companions : e # d => abi'[e] = abi[e] /\ comp'[e] = comp[e] /\ (Alive(e)' <=> Alive(e))
    BY <1>0 DEF Types, Alive
<1>6. Stored'
    BY <1>0, <1>1, <1>4, <1>5 DEF Types, Stored
<1>7. \A q \in Procs, e \in Companions : e # d => (Fits(e, q)' <=> Fits(e, q))
    BY <1>0, <1>5 DEF Fits, Asks
<1>8. Sent'
    <2> SUFFICES ASSUME NEW e \in Companions PROVE Sent!(e)'
        BY DEF Sent
    <2>1. CASE e = d
        <3>1. \A j \in 1..Len(inbox[d]) : FALSE
            BY <1>0 DEF Sent
        <3>2. client[d] = None /\ comp'[d] = "loading"
            BY <1>0 DEF Sent, Types
        <3> QED BY <1>0, <2>1, <3>1, <3>2
    <2>2. CASE e # d
        BY <1>0, <1>5, <2>2, SentStays
    <2> QED BY <2>1, <2>2
<1>9. Serving'
    <2>1. \A q \in Procs : task[q] # None => task[q][1] # d
        BY <1>0 DEF Serving
    <2> QED BY <1>0, <1>5, <1>7, <2>1 DEF Serving
<1> QED BY <1>2, <1>3, <1>6, <1>8, <1>9

\* The client is sent to the zygiskd of its ABI, if that is there: no other
\* thread can be waiting for an ack while this one has the mutex.
LEMMA SendClientHolds == ASSUME Requests, NEW p \in Procs, SendClient(p) PROVE Requests'
<1> USE DEF Requests
<1>0. /\ UNCHANGED <<id, sockets, comp, abi, client, task>>
      /\ lock' = None /\ h[p] = "send" /\ h' = [h EXCEPT ![p] = "done"]
    BY DEF SendClient, children
<1>1. Abi[p] \in Abis
    BY ZygiskAssumption
<1>2. Mutex'
    BY <1>0, Released DEF Types
<1>3. Stored'
    BY <1>0 DEF Stored, Alive
<1>4. Serving'
    BY <1>0 DEF Serving, Fits, Asks, Alive
<1>5. CASE ~Connected(Abi[p])
    <2>1. UNCHANGED inbox
        BY <1>5 DEF SendClient
    <2>2. Types'
        BY <1>0, <2>1 DEF Types, Places
    <2> QED BY <1>0, <1>2, <1>3, <1>4, <2>1, <2>2, WorkStays
<1>6. CASE Connected(Abi[p])
    <2> DEFINE d == sockets[Abi[p]]
    <2>1. d \in Companions /\ inbox' = [inbox EXCEPT ![d] = Append(@, p)]
        BY <1>6 DEF SendClient, Connected
    <2>2. \A q \in Procs : h[q] # "ack"
        BY <1>0 DEF Mutex
    <2>3. Alive(d)
        BY <1>6, <2>2 DEF Connected, RemoteOpen
    <2>4. Fits(d, p)
        BY <1>0, <1>1, <2>1, <2>3 DEF Stored, Mutex, Fits
    <2>5. Types'
        BY SMT, <1>0, <2>1 DEF Types, Places
    <2>6. \A e \in Companions, q \in Procs : (Alive(e)' <=> Alive(e)) /\ (Fits(e, q)' <=> Fits(e, q))
        BY <1>0 DEF Alive, Fits, Asks
    <2>7. ASSUME NEW e \in Companions, NEW j \in 1..Len(inbox'[e])
          PROVE  Alive(e) /\ Fits(e, inbox'[e][j]) /\ inbox'[e][j] \in Procs
        <3>1. inbox[e] \in Seq(Procs) /\ (e # d => inbox'[e] = inbox[e])
            BY <2>1 DEF Types
        <3>2. CASE e # d
            <4>1. inbox[e][j] \in Procs
                BY SMT, <2>7, <3>1, <3>2
            <4> QED BY <2>7, <3>1, <3>2, <4>1 DEF Sent
        <3>3. CASE e = d
            <4>1. inbox'[d] = Append(inbox[d], p)
                BY <2>1 DEF Types
            <4>2. CASE j \in 1..Len(inbox[d])
                <5>1. inbox'[e][j] = inbox[e][j] /\ inbox[e][j] \in Procs
                    BY SMT, <3>1, <3>3, <4>1, <4>2
                <5> QED BY <3>3, <4>2, <5>1 DEF Sent
            <4>3. CASE j \notin 1..Len(inbox[d])
                <5>1. inbox'[e][j] = p
                    BY SMT, <2>7, <3>1, <3>3, <4>1, <4>3
                <5> QED BY <2>3, <2>4, <3>3, <5>1
            <4> QED BY <4>2, <4>3
        <3> QED BY <3>2, <3>3
    <2>8. ASSUME NEW e \in Companions
          PROVE  /\ comp[e] = "reading" => client[e] \in Procs
                 /\ client[e] # None => client[e] \in Procs /\ Alive(e) /\ Fits(e, client[e])
        <3>1. client[e] # None => client[e] \in Procs
            BY DEF Types
        <3> QED BY <3>1 DEF Sent
    <2>9. Sent'
        BY <1>0, <2>6, <2>7, <2>8 DEF Sent
    <2> QED BY <1>2, <1>3, <1>4, <2>5, <2>9
<1> QED BY <1>5, <1>6

-----------------------------------------------------------------------------
(* zygiskd *)

\* A step of zygiskd leaves magiskd, the children and the ABIs alone, and ends
\* no other zygiskd.
LEMMA DaemonStays ==
    ASSUME Requests, UNCHANGED <<lock, h, id, sockets, abi>>, \A d \in Companions : Alive(d)' => Alive(d)
    PROVE  /\ Mutex' /\ Stored'
           /\ \A d \in Companions, p \in Procs : Fits(d, p)' <=> Fits(d, p)
BY DEF Requests, Mutex, Asks, Stored, Fits

\* The modules are loaded.
LEMMA AckHolds == ASSUME Requests, NEW d \in Companions, Ack(d) PROVE Requests'
<1> USE DEF Requests
<1>0. /\ UNCHANGED <<lock, h, id, sockets, abi, inbox, client, task>>
      /\ comp[d] = "loading" /\ comp' = [comp EXCEPT ![d] = "ready"]
    BY DEF Ack, threads, children
<1>1. Types'
    BY <1>0 DEF Types
<1>2. \A e \in Companions : (Alive(e)' <=> Alive(e)) /\ (comp'[e] = "reading" => comp[e] = "reading")
    BY <1>0 DEF Types, Alive
<1>3. Mutex' /\ Stored' /\ \A e \in Companions, q \in Procs : Fits(e, q)' <=> Fits(e, q)
    BY <1>0, <1>2, DaemonStays
<1>4. Sent'
    BY <1>0, <1>2 DEF Sent, Fits, Asks
<1>5. Serving'
    BY <1>0, <1>2, <1>3 DEF Serving
<1> QED BY <1>1, <1>3, <1>4, <1>5

\* The next client is received.
LEMMA ReceiveHolds == ASSUME Requests, NEW d \in Companions, Receive(d) PROVE Requests'
<1> USE DEF Requests
<1> DEFINE p == Head(inbox[d])
<1>0. /\ UNCHANGED <<lock, h, id, sockets, abi, task>>
      /\ comp[d] = "ready" /\ comp' = [comp EXCEPT ![d] = "reading"] /\ inbox[d] # <<>>
      /\ client' = [client EXCEPT ![d] = p] /\ inbox' = [inbox EXCEPT ![d] = Tail(@)]
    BY DEF Receive, threads, children
<1>1. /\ inbox[d] \in Seq(Procs) /\ inbox'[d] = Tail(inbox[d])
      /\ client'[d] = p /\ comp'[d] = "reading"
      /\ \A e \in Companions : e # d => /\ inbox'[e] = inbox[e] /\ client'[e] = client[e]
                                        /\ comp'[e] = comp[e]
    BY <1>0 DEF Types
<1>2. /\ p = inbox[d][1] /\ 1 \in 1..Len(inbox[d]) /\ p \in Procs
      /\ Tail(inbox[d]) \in Seq(Procs)
      /\ \A j \in 1..Len(Tail(inbox[d])) :
             Tail(inbox[d])[j] = inbox[d][j + 1] /\ j + 1 \in 1..Len(inbox[d])
    BY SMT, <1>0, <1>1
<1>3. Types'
    BY <1>0, <1>2 DEF Types
<1>4. \A e \in Companions : Alive(e)' <=> Alive(e)
    BY <1>0, <1>1 DEF Alive
<1>5. Mutex' /\ Stored' /\ \A e \in Companions, q \in Procs : Fits(e, q)' <=> Fits(e, q)
    BY <1>0, <1>4, DaemonStays
<1>6. Sent'
    <2> SUFFICES ASSUME NEW e \in Companions PROVE Sent!(e)'
        BY DEF Sent
    <2>1. CASE e # d
        BY <1>0, <1>1, <2>1, SentStays
    <2>2. CASE e = d
        <3>1. \A j \in 1..Len(inbox[d]) : Alive(d) /\ Fits(d, inbox[d][j])
            BY DEF Sent
        <3>2. Alive(d) /\ Fits(d, p)
            BY <1>2, <3>1
        <3>3. \A j \in 1..Len(inbox'[d]) : Fits(d, inbox'[d][j])
            BY <1>1, <1>2, <3>1
        <3>4. \A q : Fits(d, q)' <=> Fits(d, q)
            BY <1>0 DEF Fits, Asks
        <3> QED BY <1>1, <1>2, <1>4, <2>2, <3>2, <3>3, <3>4
    <2> QED BY <2>1, <2>2
<1>7. Serving'
    BY <1>0, <1>4, <1>5 DEF Serving
<1> QED BY <1>3, <1>5, <1>6, <1>7

\* The entry at the ID that the client wrote is the one of that module.
LEMMA ServeHolds == ASSUME Requests, NEW d \in Companions, Serve(d) PROVE Requests'
<1> USE DEF Requests
<1> DEFINE p == client[d]
<1>0. /\ UNCHANGED <<lock, h, id, sockets, abi, inbox>>
      /\ comp[d] = "reading" /\ comp' = [comp EXCEPT ![d] = "ready"]
      /\ client' = [client EXCEPT ![d] = None]
    BY DEF Serve, threads, children
<1>1. /\ client'[d] = None /\ comp'[d] = "ready"
      /\ \A e \in Companions : e # d => client'[e] = client[e] /\ comp'[e] = comp[e]
    BY <1>0 DEF Types
<1>2. Types'
    <2>1. DOMAIN task' = Procs
        BY DEF Serve, Types
    <2> QED BY <1>0, <2>1 DEF Types
<1>3. \A e \in Companions : Alive(e)' <=> Alive(e)
    BY <1>0, <1>1 DEF Alive
<1>4. Mutex' /\ Stored' /\ \A e \in Companions, q \in Procs : Fits(e, q)' <=> Fits(e, q)
    BY <1>0, <1>3, DaemonStays
<1>5. p \in Procs /\ p # None /\ Alive(d) /\ Fits(d, p)
    BY <1>0, NoneIsNone DEF Sent
<1>6. Sent'
    <2> SUFFICES ASSUME NEW e \in Companions PROVE Sent!(e)'
        BY DEF Sent
    <2>1. CASE e # d
        BY <1>0, <1>1, <2>1, SentStays
    <2>2. CASE e = d
        BY <1>0, <1>1, <1>3, <2>2 DEF Sent, Fits, Asks
    <2> QED BY <2>1, <2>2
<1>7. \A q \in Procs : q # p => task'[q] = task[q]
    BY DEF Serve, Types
<1>8. task'[p] # task[p] => task'[p] = <<d, id[p]>>
    <2>1. id[p] \in Ids
        BY <1>5 DEF Fits, Asks, Loaded
    <2>2. Entries(abi[d])[id[p]] \in {id[p], None}
        BY <2>1 DEF Entries
    <2>3. task'[p] = task[p] \/ (task'[p] = <<d, Entries(abi[d])[id[p]]>> /\ Entries(abi[d])[id[p]] # None)
        BY <1>5 DEF Serve, Types
    <2> QED BY <2>2, <2>3
<1>9. Serving'
    <2> SUFFICES ASSUME NEW q \in Procs PROVE Serving!(q)'
        BY DEF Serving
    <2>1. CASE task'[q] = task[q]
        BY <1>0, <1>3, <1>4, <2>1 DEF Serving
    <2>2. CASE task'[q] # task[q]
        <3>1. q = p /\ task'[q] = <<d, id[p]>>
            BY <1>7, <1>8, <2>2
        <3>2. task'[q][1] = d /\ task'[q][2] = id[p]
            BY SMT, <3>1
        <3> QED BY <1>0, <1>3, <1>4, <1>5, <3>1, <3>2
    <2> QED BY <2>1, <2>2
<1> QED BY <1>2, <1>4, <1>6, <1>9

\* zygiskd ends, and everything in it.
LEMMA GoneHolds ==
    ASSUME Requests, NEW d \in Companions, Gone(d), UNCHANGED <<lock, h, id, sockets>>
    PROVE  Requests'
<1> USE DEF Requests
<1>1. Types'
    BY SMT DEF Gone, Types, Abis
<1>2. /\ ~Alive(d)' /\ inbox'[d] = <<>> /\ client'[d] = None /\ comp'[d] = "dead"
      /\ \A e \in Companions : e # d =>
             /\ comp'[e] = comp[e] /\ abi'[e] = abi[e] /\ inbox'[e] = inbox[e] /\ client'[e] = client[e]
    BY DEF Gone, Types, Alive
<1>3. Mutex'
    BY DEF Mutex, Asks
<1>4. Stored'
    BY <1>2 DEF Stored, Alive
<1>5. Sent'
    <2> SUFFICES ASSUME NEW e \in Companions PROVE Sent!(e)'
        BY DEF Sent
    <2>1. CASE e # d
        BY <1>2, <2>1, SentStays
    <2>2. CASE e = d
        <3>1. \A j \in 1..Len(inbox'[d]) : FALSE
            BY SMT, <1>2
        <3> QED BY <1>2, <2>2, <3>1
    <2> QED BY <2>1, <2>2
<1>6. Serving'
    <2>1. \A q \in Procs : task'[q] # None => task'[q] = task[q] /\ task[q][1] # d
        BY DEF Gone
    <2>2. \A e \in Companions : e # d => (Alive(e)' <=> Alive(e)) /\ \A q \in Procs : Fits(e, q)' <=> Fits(e, q)
        BY <1>2 DEF Alive, Fits, Asks
    <2> QED BY <2>1, <2>2 DEF Serving
<1> QED BY <1>1, <1>3, <1>4, <1>5, <1>6

\* A companion is done.
LEMMA TaskEndsHolds == ASSUME Requests, NEW p \in Procs, TaskEnds(p) PROVE Requests'
<1> USE DEF Requests
<1>0. /\ UNCHANGED <<lock, h, id, sockets, comp, abi, inbox, client>>
      /\ task' = [task EXCEPT ![p] = None]
    BY DEF TaskEnds, threads, children
<1>1. Types' /\ \A q \in Procs : task'[q] \in {task[q], None}
    BY <1>0 DEF Types
<1>2. Mutex' /\ Stored' /\ Sent'
    BY <1>0 DEF Mutex, Stored, Sent, Fits, Asks, Alive
<1>3. Serving'
    BY <1>0, <1>1 DEF Serving, Fits, Asks, Alive
<1> QED BY <1>1, <1>2, <1>3

LEMMA RequestsNext == Requests /\ [Next]_vars => Requests'
<1> SUFFICES ASSUME Requests, [Next]_vars PROVE Requests'
    OBVIOUS
<1>1. ASSUME NEW p \in Procs, Handler(p) PROVE Requests'
    BY <1>1, MovesHold, LockHolds, ReadAbiFailsHolds, SendClientHolds, StartZygiskdHolds DEF Handler
<1>2. ASSUME NEW p \in Procs, Child(p) \/ Dies(p) PROVE Requests'
    BY <1>2, RequestsStay
    DEF Child, Dies, ReadFlags, ReadFds, WriteAbi, WriteId, Closed, threads, companions
<1>3. ASSUME NEW d \in Companions, Companion(d) \/ Crash(d) PROVE Requests'
    <2>1. CASE Exit(d) \/ Crash(d)
        BY <2>1, GoneHolds DEF Exit, Crash, threads, children
    <2> QED BY <1>3, <2>1, AckHolds, ReceiveHolds, ServeHolds DEF Companion
<1>4. ASSUME NEW p \in Procs, Ask(p) \/ TaskEnds(p) PROVE Requests'
    BY <1>4, MovesHold, TaskEndsHolds
<1>5. CASE ResetCount \/ Restore \/ LoadModules \/ SetModuleList \/ ZygoteStarts \/ ZygoteStops \/ BootComplete
    BY <1>5, RequestsStay
    DEF ResetCount, Restore, LoadModules, SetModuleList, ZygoteStarts, ZygoteStops, BootComplete,
        threads, children, companions
<1>6. CASE UNCHANGED vars
    BY <1>6, RequestsStay DEF vars, threads, children, companions
<1>7. CASE Running
    BY <1>1, <1>2, <1>3, <1>5, <1>7, ResetSocketsHolds DEF Running
<1> QED BY <1>2, <1>3, <1>4, <1>5, <1>6, <1>7, ConnectHolds DEF Next

\* zygiskd runs, for each client, the companion of the module that asks for it, in
\* a process of the client's ABI: connect_zygiskd hands over a client under the
\* mutex, to a zygiskd that cannot have been replaced by one of the other ABI.
THEOREM CompanionsCorrect == Spec => []RightCompanion
<1>1. Requests => RightCompanion
    BY DEF Requests, Serving, Fits, Asks, RightCompanion
<1> QED BY <1>1, RequestsInit, RequestsNext, PTL DEF Spec

-----------------------------------------------------------------------------
(* Restarts *)

LEMMA RestartsInit == Init => Restarts
<1> SUFFICES ASSUME Init PROVE Restarts
    OBVIOUS
<1>1. count = 1 /\ counted = 0 /\ restoring = 0 /\ resets = [wait |-> 0, count |-> 0]
    BY DEF Init
<1>2. zygote = "down" /\ early = FALSE /\ stage = "scripts" /\ prop = "original"
    BY DEF Init
<1>3. /\ count \in Nat /\ counted \in Nat /\ restoring \in Nat /\ resets \in [wait : Nat, count : Nat]
      /\ count = counted + 1 /\ resets.wait = 0 /\ resets.count = 0 /\ ~(counted >= 4)
    BY SMT, <1>1
<1> QED BY <1>1, <1>2, <1>3 DEF Restarts, Counted, RolledBack

\* Steps that have nothing to do with zygote or the property.
LEMMA RestartsStay == Restarts /\ UNCHANGED <<boot, bridge>> => Restarts'
<1> SUFFICES ASSUME Restarts, UNCHANGED <<boot, bridge>> PROVE Restarts'
    OBVIOUS
<1>1. /\ UNCHANGED <<stage, early, prop, zygote>>
      /\ UNCHANGED <<resets, restoring, count, counted>>
    BY DEF boot, bridge
<1> QED BY <1>1 DEF Restarts, Counted, RolledBack

\* A restart that is counted comes to the limit, or the limit was passed before.
LEMMA RestartsNext == Restarts /\ [Next]_vars => Restarts'
<1> SUFFICES ASSUME Restarts, [Next]_vars PROVE Restarts'
    OBVIOUS
<1> USE DEF Restarts, Counted, RolledBack, boot, bridge
<1>1. CASE LoadModules
    BY SMT, <1>1 DEF LoadModules
<1>2. CASE SetModuleList
    BY SMT, <1>2 DEF SetModuleList
<1>3. CASE ZygoteStarts
    <2>1. UNCHANGED <<stage, prop, resets, restoring, count, counted>>
        BY <1>3 DEF ZygoteStarts
    <2>2. early' \in BOOLEAN /\ (early => early') /\ (stage # "done" => early')
        BY <1>3 DEF ZygoteStarts
    <2> QED BY <2>1, <2>2
<1>4. CASE ZygoteStops
    BY SMT, <1>4 DEF ZygoteStops
<1>5. CASE ResetSockets
    BY SMT, <1>5 DEF ResetSockets
<1>6. CASE ResetCount
    BY SMT, <1>6 DEF ResetCount
<1>7. CASE BootComplete
    BY SMT, <1>7 DEF BootComplete
<1>8. CASE Restore
    BY SMT, <1>8 DEF Restore
<1>9. ASSUME NEW p \in Procs, Handler(p) \/ Child(p) \/ Ask(p) \/ TaskEnds(p) \/ Dies(p)
                              \/ \E i \in Ids : Connect(p, i)
      PROVE  UNCHANGED <<boot, bridge>>
    BY <1>9
    DEF Handler, Child, Ask, TaskEnds, Dies, Connect, SendFlags, SendFds, MarkUnloaded, Lock, ReadAbiFails,
        UseZygiskd, ReadAck, SendClient, StartZygiskd, ReadFlags, ReadFds, WriteAbi, WriteId, Closed
<1>10. ASSUME NEW d \in Companions, Companion(d) \/ Crash(d) PROVE UNCHANGED <<boot, bridge>>
    BY <1>10 DEF Companion, Ack, Receive, Serve, Exit, Crash
<1>11. CASE UNCHANGED vars
    BY <1>11, RestartsStay DEF vars
<1> QED BY <1>1, <1>2, <1>3, <1>4, <1>5, <1>6, <1>7, <1>8, <1>9, <1>10, <1>11, RestartsStay
        DEF Next, Running

\* zygisk_reset rolls back in time, however many restarts are on their way to
\* fetch_add at once and whenever boot_complete starts the count afresh.
THEOREM RollbackCorrect == Spec => []RolledBack
<1>1. Restarts => RolledBack
    BY DEF Restarts
<1> QED BY <1>1, RestartsInit, RestartsNext, PTL DEF Spec

-----------------------------------------------------------------------------
(* ZygiskHooks: the zygote and its children, for any processes, modules and  *)
(* number of calls.                                                          *)

\* The fields of a process and of its context.
Fields == {"st", "plt", "backup", "jni", "saved", "hook", "self", "callbacks", "unmap", "mapped",
           "fds", "ctx", "loaded", "api", "mounts", "denied", "sigchld"}
CtxFields == {"call", "pid", "flags", "info", "mods", "allowed", "exempted", "ignore", "unload"}

Shaped(r) == DOMAIN r = Fields /\ DOMAIN r.ctx = CtxFields /\ r.ctx.pid \in Int

\* The native methods are replaced, or they are not.
Swapped(r) == r.callbacks /\ \A m \in Methods : r.jni[m] = "ours" /\ r.saved[m] = "orig"
Plain(r) == \A m \in Methods : r.jni[m] = "orig"

\* A process in which no native method was ever entered, except as a parent.
Fresh(r) == r.fds \subseteq {"sys", "log"} /\ r.loaded = {} /\ ~r.denied /\ r.mounts = "shared"

Entered(r) == r.st \in {"orig", "post"}
Leaving(r) == r.unmap \/ r.hook = "deleted" \/ Unloader \in r.plt

Hooked(r) ==
  /\ r.plt \subseteq r.backup
  /\ Swapped(r) \/ Plain(r)
  /\ Entered(r) => Swapped(r)
  /\ r.st \in {"start", "loading"} => Plain(r) /\ \A m \in Methods : r.saved[m] = "ours"
  /\ Leaving(r) => Plain(r) /\ r.st \in {"idle", "usap", "run"}
  /\ r.unmap => r.api = {} /\ "log" \notin r.fds
  /\ r.hook = "deleted" /\ ~r.mapped => r.unmap /\ r.plt = {}

Clean(r) ==
  /\ \/ r.st \in {"start", "loading"}
     \/ r.st \in {"idle", "usap"} /\ Swapped(r)
     \/ Entered(r) /\ r.ctx.pid > 0
     => Fresh(r)
  /\ r.st = "orig" =>
       /\ r.mounts = "shared"
       /\ r.ctx.call \in {"app", "server"} => r.fds \subseteq {"sys"} \cup r.ctx.ignore
       /\ r.denied => r.ctx.call # "none" /\ Has(r, "DO_REVERT_UNMOUNT")
  /\ r.denied => r.loaded = {}

\* zplt is the PLT of the zygote.
Reverted(r, zplt) ==
  /\ r.denied /\ r.mounts = "private" => "unshare" \notin zplt
  /\ r.st \in {"usap", "orig", "post"} /\ "unshare" \in zplt => "unshare" \in r.plt

Good(r, zplt) == Shaped(r) /\ Hooked(r) /\ Clean(r) /\ Reverted(r, zplt)

ZygoteInv ==
  LET z == proc[Zygote] IN
  /\ z.st \in {"start", "loading", "idle", "orig", "post"}
  /\ z.st = "start" => \A p \in Pids \ {Zygote} : proc[p] = Dead
  /\ ~forkFailed => /\ z.loaded = {} /\ ~z.unmap
                    /\ ~Entered(z) => z.sigchld /\ z.ctx = NoCtx
                    /\ Entered(z) => z.ctx.pid > 0 /\ z.ctx.call # "spec"

HooksInv ==
  /\ DOMAIN proc = Pids
  /\ \A p \in Pids : Good(proc[p], proc[Zygote].plt)
  /\ ZygoteInv

\* What no callback of a module, and nothing before the original method, changes.
KeepsHooks(r, s) ==
  /\ s.plt = r.plt /\ s.backup = r.backup /\ s.jni = r.jni /\ s.saved = r.saved
  /\ s.hook = r.hook /\ s.callbacks = r.callbacks /\ s.unmap = r.unmap /\ s.mapped = r.mapped

Keeps(r, s) == KeepsHooks(r, s) /\ s.mounts = r.mounts

\* ... and in the context, but for its flags and lists.
KeepsCtx(r, s) ==
  /\ s.ctx.call = r.ctx.call /\ s.ctx.pid = r.ctx.pid /\ s.ctx.allowed = r.ctx.allowed
  /\ r.ctx.flags \subseteq s.ctx.flags

LEMMA KeepsAll == \A r : Keeps(r, r) /\ KeepsCtx(r, r)
  BY DEF Keeps, KeepsHooks, KeepsCtx

LEMMA KeepsOn ==
  ASSUME NEW r, NEW s, NEW t, Keeps(r, s), Keeps(s, t)
  PROVE  Keeps(r, t) /\ (KeepsCtx(r, s) /\ KeepsCtx(s, t) => KeepsCtx(r, t))
  BY DEF Keeps, KeepsHooks, KeepsCtx

(* Opening and closing the log pipe.                                       *)
LEMMA LogFields ==
  ASSUME NEW r, Shaped(r)
  PROVE  /\ Shaped(Log(r)) /\ Keeps(r, Log(r)) /\ Log(r).ctx = r.ctx
         /\ Log(r).fds = r.fds \cup {"log"} /\ Log(r).st = r.st
         /\ Log(r).loaded = r.loaded /\ Log(r).denied = r.denied /\ Log(r).api = r.api
         /\ Log(r).sigchld = r.sigchld
  BY SMT DEF Log, Shaped, Keeps, KeepsHooks, Fields

LEMMA CloseFields ==
  ASSUME NEW r, Shaped(r)
  PROVE  /\ Shaped(CloseLog(r)) /\ Keeps(r, CloseLog(r)) /\ CloseLog(r).ctx = r.ctx
         /\ CloseLog(r).fds = r.fds \ {"log"} /\ CloseLog(r).st = r.st
         /\ CloseLog(r).loaded = r.loaded /\ CloseLog(r).denied = r.denied
         /\ CloseLog(r).api = r.api /\ CloseLog(r).sigchld = r.sigchld
  BY SMT DEF CloseLog, Shaped, Keeps, KeepsHooks, Fields

LEMMA WithFields ==
  ASSUME NEW r, Shaped(r), NEW f
  PROVE  /\ Shaped(With(r, f)) /\ Keeps(r, With(r, f)) /\ KeepsCtx(r, With(r, f))
         /\ Has(With(r, f), f) /\ With(r, f).fds = r.fds /\ With(r, f).st = r.st
         /\ With(r, f).loaded = r.loaded /\ With(r, f).denied = r.denied
         /\ With(r, f).api = r.api /\ With(r, f).sigchld = r.sigchld
  BY SMT DEF With, Has, Shaped, Keeps, KeepsHooks, KeepsCtx, Fields, CtxFields

(* The wrapper makes a context of its own and the log pipe is opened.      *)
LEMMA EnterFields ==
  ASSUME NEW r, Shaped(r), NEW m, NEW fl
  PROVE  LET s == Enter(r, m, fl) IN
         /\ Shaped(s) /\ Keeps(r, s) /\ s.fds = r.fds \cup {"log"} /\ s.st = r.st
         /\ s.ctx.call = m /\ s.ctx.pid = -1 /\ s.loaded = r.loaded /\ s.denied = r.denied
         /\ s.sigchld = r.sigchld
<1> DEFINE c == [NoCtx EXCEPT !.call = m, !.pid = -1, !.flags = fl]
           s0 == [r EXCEPT !.ctx = c]
<1>1. DOMAIN c = CtxFields /\ c.call = m /\ c.pid = -1
  BY SMT DEF NoCtx, CtxFields
<1>2. /\ Shaped(s0) /\ Keeps(r, s0) /\ s0.fds = r.fds /\ s0.st = r.st /\ s0.ctx = c
      /\ s0.loaded = r.loaded /\ s0.denied = r.denied /\ s0.sigchld = r.sigchld
  <2> HIDE DEF c
  <2> QED BY SMT, <1>1 DEF Shaped, Keeps, KeepsHooks, Fields
<1>3. Enter(r, m, fl) = Log(s0)
  BY DEF Enter
<1> HIDE DEF c, s0
<1>4. /\ Shaped(Log(s0)) /\ Keeps(s0, Log(s0)) /\ Log(s0).ctx = s0.ctx
      /\ Log(s0).fds = s0.fds \cup {"log"} /\ Log(s0).st = s0.st
      /\ Log(s0).loaded = s0.loaded /\ Log(s0).denied = s0.denied
      /\ Log(s0).sigchld = s0.sigchld
  BY <1>2, LogFields
<1>5. Keeps(r, Log(s0))
  BY <1>2, <1>4, KeepsOn
<1> QED BY <1>1, <1>2, <1>3, <1>4, <1>5

LEMMA ForkFields ==
  ASSUME NEW r, Shaped(r), NEW pid \in Int
  PROVE  LET s == Fork(r, pid) IN
         /\ Shaped(s) /\ Keeps(r, s) /\ s.fds = r.fds /\ s.st = r.st
         /\ s.ctx.call = r.ctx.call /\ s.ctx.pid = pid
         /\ s.loaded = r.loaded /\ s.denied = r.denied
  BY SMT DEF Fork, Shaped, Keeps, KeepsHooks, Fields, CtxFields

LEMMA RecordFields ==
  ASSUME NEW r, Shaped(r)
  PROVE  LET s == RecordFds(r) IN
         /\ Shaped(s) /\ Keeps(r, s) /\ s.fds = r.fds \cup {"log"} /\ s.st = r.st
         /\ s.ctx.call = r.ctx.call /\ s.ctx.pid = r.ctx.pid /\ s.ctx.allowed = r.fds \ {"log"}
         /\ s.loaded = r.loaded /\ s.denied = r.denied
  BY SMT DEF RecordFds, Log, Shaped, Keeps, KeepsHooks, Fields, CtxFields

LEMMA ExemptFields ==
  ASSUME NEW r, Shaped(r)
  PROVE  /\ Shaped(ExemptFd(r)) /\ Keeps(r, ExemptFd(r)) /\ KeepsCtx(r, ExemptFd(r))
         /\ ExemptFd(r).denied = r.denied
<1>1. CASE ExemptFd(r) = r
  BY <1>1 DEF Keeps, KeepsHooks, KeepsCtx
<1>2. CASE ExemptFd(r) = [r EXCEPT !.ctx.exempted = @ \cup {"mod"}]
  BY SMT, <1>2 DEF Shaped, Keeps, KeepsHooks, KeepsCtx, Fields, CtxFields
<1> QED BY <1>1, <1>2 DEF ExemptFd

(* The modules run: they leave the hooks alone.                            *)
LEMMA RunFields ==
  ASSUME NEW r, Shaped(r), NEW mods, NEW d
  PROVE  LET s == RunModulesPre(r, mods, d) IN
         /\ Shaped(s) /\ Keeps(r, s) /\ KeepsCtx(r, s) /\ s.denied = r.denied
<1> DEFINE Ok(a, b) == Shaped(b) /\ Keeps(a, b) /\ KeepsCtx(a, b) /\ b.denied = a.denied
<1> DEFINE r1 == [r EXCEPT !.loaded = @ \cup mods, !.api = @ \cup mods, !.ctx.mods = mods]
           r2 == IF d.opens THEN [r1 EXCEPT !.fds = @ \cup {"mod"}] ELSE r1
           r3 == IF d.opens /\ d.exempts THEN ExemptFd(r2) ELSE r2
           r4 == IF d.force THEN With(r3, "DO_REVERT_UNMOUNT") ELSE r3
           r5 == [r4 EXCEPT !.ctx.unload = IF d.dlclose THEN mods ELSE {}]
<1>1. Ok(r, r1)
  BY SMT DEF Shaped, Keeps, KeepsHooks, KeepsCtx, Fields, CtxFields
<1>2. Ok(r1, r2)
  BY SMT, <1>1 DEF Shaped, Keeps, KeepsHooks, KeepsCtx, Fields, CtxFields
<1>3. Ok(r2, r3)
  <2>1. Shaped(r2)
    BY <1>2
  <2> HIDE DEF r2
  <2>2. Ok(r2, r2) /\ Ok(r2, ExemptFd(r2))
    BY <2>1, ExemptFields, KeepsAll
  <2> HIDE DEF Ok
  <2> QED BY <2>2
<1>4. Ok(r3, r4)
  <2>1. Shaped(r3)
    BY <1>3
  <2> HIDE DEF r3
  <2>2. Ok(r3, r3) /\ Ok(r3, With(r3, "DO_REVERT_UNMOUNT"))
    BY <2>1, WithFields, KeepsAll
  <2> HIDE DEF Ok
  <2> QED BY <2>2
<1>5. Ok(r4, r5)
  <2>1. Shaped(r4)
    BY <1>4
  <2> HIDE DEF r4
  <2> QED BY SMT, <2>1 DEF Shaped, Keeps, KeepsHooks, KeepsCtx, Fields, CtxFields
<1>6. Ok(r, r5) /\ Ok(r, r)
  <2> HIDE DEF r1, r2, r3, r4, r5
  <2>1. Ok(r, r2)
    BY <1>1, <1>2, KeepsOn
  <2>2. Ok(r, r3)
    BY <1>3, <2>1, KeepsOn
  <2>3. Ok(r, r4)
    BY <1>4, <2>2, KeepsOn
  <2> QED BY <1>5, <2>3, KeepsOn, KeepsAll
<1>7. RunModulesPre(r, mods, d) = IF mods = {} THEN r ELSE r5
  BY DEF RunModulesPre
<1> HIDE DEF r5, Ok
<1>8. Ok(r, RunModulesPre(r, mods, d))
  BY <1>6, <1>7
<1> QED BY <1>8 DEF Ok

(* A process on the deny list gets no module, and is to lose the mounts.   *)
LEMMA AppFields ==
  ASSUME NEW r, Shaped(r), ~r.denied, r.loaded = {}, NEW deny \in BOOLEAN, NEW mods, NEW d
  PROVE  LET s == AppPre(r, deny, mods, d) IN
         /\ Shaped(s) /\ Keeps(r, s) /\ KeepsCtx(r, s)
         /\ s.denied => s.loaded = {} /\ Has(s, "DO_REVERT_UNMOUNT")
<1> DEFINE s0 == With(r, "APP_SPECIALIZE")
           s1 == With(s0, "DO_REVERT_UNMOUNT")
           s2 == [s1 EXCEPT !.denied = TRUE]
<1>1. Shaped(s0) /\ Keeps(r, s0) /\ KeepsCtx(r, s0) /\ s0.denied = r.denied /\ s0.loaded = {}
  BY WithFields
<1>2. /\ Shaped(s1) /\ Keeps(s0, s1) /\ KeepsCtx(s0, s1) /\ s1.loaded = {}
      /\ Has(s1, "DO_REVERT_UNMOUNT")
  <2> HIDE DEF s0
  <2> QED BY <1>1, WithFields
<1>3. /\ Shaped(s2) /\ Keeps(s1, s2) /\ KeepsCtx(s1, s2) /\ s2.loaded = s1.loaded
      /\ s2.ctx = s1.ctx
  <2> HIDE DEF s1
  <2> QED BY SMT, <1>2 DEF Shaped, Keeps, KeepsHooks, KeepsCtx, Fields, CtxFields
<1>4. CASE deny
  <2>1. AppPre(r, deny, mods, d) = s2
    BY <1>4 DEF AppPre
  <2> HIDE DEF s0, s1, s2
  <2> QED BY <1>1, <1>2, <1>3, <2>1 DEF Keeps, KeepsHooks, KeepsCtx, Has
<1>5. CASE ~deny
  <2>1. AppPre(r, deny, mods, d) = RunModulesPre(s0, mods, d)
    BY <1>5 DEF AppPre
  <2> HIDE DEF s0
  <2>2. LET s == RunModulesPre(s0, mods, d) IN
        Shaped(s) /\ Keeps(s0, s) /\ KeepsCtx(s0, s) /\ s.denied = s0.denied
    BY <1>1, RunFields
  <2> QED BY <1>1, <2>1, <2>2 DEF Keeps, KeepsHooks, KeepsCtx
<1> QED BY <1>4, <1>5

LEMMA SpecializeFields ==
  ASSUME NEW r, Shaped(r), ~r.denied, r.loaded = {}, NEW deny \in BOOLEAN, NEW mods, NEW d
  PROVE  LET s == SpecializePre(r, deny, mods, d) IN
         /\ Shaped(s) /\ Keeps(r, s) /\ KeepsCtx(r, s)
         /\ s.denied => s.loaded = {} /\ Has(s, "DO_REVERT_UNMOUNT")
<1>1. CASE r.ctx.call = "server"
  <2>1. SpecializePre(r, deny, mods, d) = RunModulesPre(r, mods, d)
    BY <1>1 DEF SpecializePre
  <2>2. LET s == RunModulesPre(r, mods, d) IN
        Shaped(s) /\ Keeps(r, s) /\ KeepsCtx(r, s) /\ s.denied = r.denied
    BY RunFields
  <2> QED BY <2>1, <2>2
<1>2. CASE r.ctx.call # "server"
  BY <1>2, AppFields DEF SpecializePre
<1> QED BY <1>1, <1>2

(* sanitize_fds: what is left open was open before, or is to be ignored.   *)
LEMMA SanitizeFields ==
  ASSUME NEW r, Shaped(r)
  PROVE  LET s == SanitizeFds(r) IN
         /\ Shaped(s) /\ Keeps(r, s) /\ s.loaded = r.loaded /\ s.denied = r.denied
         /\ s.ctx.call = r.ctx.call /\ s.ctx.pid = r.ctx.pid /\ s.ctx.flags = r.ctx.flags
         /\ r.ctx.pid > 0 => s.fds = r.fds \ {"log"}
         /\ r.ctx.pid <= 0 => s.fds \subseteq r.ctx.allowed \cup s.ctx.ignore
<1> DEFINE s0 == CloseLog(r)
           ex == IF CanExempt(s0) THEN s0.ctx.exempted ELSE {}
           s1 == [s0 EXCEPT !.ctx.ignore = ex, !.fds = @ \cap (s0.ctx.allowed \cup ex)]
<1>1. /\ Shaped(s0) /\ Keeps(r, s0) /\ s0.ctx = r.ctx /\ s0.fds = r.fds \ {"log"}
      /\ s0.loaded = r.loaded /\ s0.denied = r.denied
  BY CloseFields
<1>2. /\ Shaped(s1) /\ Keeps(s0, s1) /\ s1.loaded = s0.loaded /\ s1.denied = s0.denied
      /\ s1.ctx.call = s0.ctx.call /\ s1.ctx.pid = s0.ctx.pid /\ s1.ctx.flags = s0.ctx.flags
      /\ s1.fds \subseteq s0.ctx.allowed \cup s1.ctx.ignore
  <2> HIDE DEF s0, ex
  <2> QED BY SMT, <1>1 DEF Shaped, Keeps, KeepsHooks, Fields, CtxFields
<1>3. SanitizeFds(r) = IF ~(s0.ctx.pid <= 0) THEN s0 ELSE s1
  BY DEF SanitizeFds, IsChild
<1>4. r.ctx.pid <= 0 <=> ~(r.ctx.pid > 0)
  BY SMT DEF Shaped
<1> HIDE DEF s0, s1
<1> QED BY <1>1, <1>2, <1>3, <1>4 DEF Keeps, KeepsHooks

LEMMA StepFields ==
  ASSUME NEW r, Shaped(r), NEW x
  PROVE  LET s == [r EXCEPT !.st = x] IN
         /\ Shaped(s) /\ Keeps(r, s) /\ s.st = x /\ s.ctx = r.ctx /\ s.fds = r.fds
         /\ s.loaded = r.loaded /\ s.denied = r.denied /\ s.api = r.api /\ s.sigchld = r.sigchld
  BY SMT DEF Shaped, Keeps, KeepsHooks, Fields

LEMMA NotBoth == \A r : Swapped(r) => ~Plain(r)
<1>1. "ours" # "orig" /\ "spec" \in Methods
  BY HooksAssumption
<1> QED BY <1>1 DEF Swapped, Plain

(* A process in a replaced method has all its hooks.                       *)
LEMMA InCallHooked ==
  ASSUME NEW r, NEW s, Hooked(r), Swapped(r), KeepsHooks(r, s), Entered(s)
  PROVE  Hooked(s) /\ ~s.unmap
<1>1. ~Leaving(r)
  BY NotBoth DEF Hooked
<1>2. Swapped(s) /\ s.plt \subseteq s.backup /\ ~Leaving(s)
  BY <1>1 DEF KeepsHooks, Hooked, Swapped, Leaving
<1>3. s.st \notin {"start", "loading"} /\ ~s.unmap /\ s.hook # "deleted"
  BY <1>2 DEF Entered, Leaving
<1> QED BY <1>2, <1>3 DEF Hooked

\* s is r in the original method m, with its hooks.
Forks(r, m, s) ==
  /\ Shaped(s) /\ Hooked(s) /\ Clean(s) /\ s.st = "orig" /\ s.plt = r.plt /\ ~s.denied
  /\ s.loaded = {} /\ ~s.unmap /\ s.ctx.pid > 0 /\ s.ctx.call = m

\* ... and to be specialized.
Specializes(r, s) ==
  /\ Shaped(s) /\ Hooked(s) /\ Clean(s) /\ s.st = "orig" /\ s.plt = r.plt /\ s.mounts = "shared"

(* fork_pre in the parent.                                                 *)
LEMMA ParentGood ==
  ASSUME NEW r, Shaped(r), Hooked(r), Swapped(r), Fresh(r), NEW m, NEW fl
  PROVE  Forks(r, m, ForkParent(Enter(r, m, fl)))
<1> DEFINE e == Enter(r, m, fl)
           f == Fork(e, 1)
           g == SanitizeFds(f)
           s == [g EXCEPT !.st = "orig"]
<1>1. /\ Shaped(e) /\ Keeps(r, e) /\ e.fds = r.fds \cup {"log"} /\ e.ctx.call = m
      /\ e.loaded = r.loaded /\ e.denied = r.denied
  BY SMT, EnterFields
<1>2. /\ Shaped(f) /\ Keeps(e, f) /\ f.fds = e.fds /\ f.ctx.call = m /\ f.ctx.pid = 1
      /\ f.loaded = r.loaded /\ f.denied = r.denied
  <2> HIDE DEF e
  <2>1. 1 \in Int
    BY SMT
  <2> QED BY <1>1, <2>1, ForkFields
<1>3. /\ Shaped(g) /\ Keeps(f, g) /\ g.loaded = r.loaded /\ g.denied = r.denied
      /\ g.ctx.call = m /\ g.ctx.pid = 1 /\ g.fds = f.fds \ {"log"}
  <2> HIDE DEF f
  <2>1. 1 > 0
    BY SMT
  <2> QED BY <1>2, <2>1, SanitizeFields
<1>4. /\ Shaped(s) /\ Keeps(g, s) /\ s.st = "orig" /\ s.ctx = g.ctx /\ s.fds = g.fds
      /\ s.loaded = r.loaded /\ s.denied = r.denied
  <2> HIDE DEF g
  <2> QED BY SMT, <1>3, StepFields
<1>0. ForkParent(Enter(r, m, fl)) = s
  BY DEF ForkParent
<1> HIDE DEF e, f, g, s
<1>5. Keeps(r, s)
  BY <1>1, <1>2, <1>3, <1>4, KeepsOn
<1>6. Hooked(s) /\ ~s.unmap
  BY <1>4, <1>5, InCallHooked DEF Keeps, Entered
<1>7. s.fds \subseteq {"sys"} /\ s.loaded = {} /\ ~s.denied /\ s.mounts = "shared"
  BY <1>1, <1>2, <1>3, <1>4, <1>5 DEF Fresh, Keeps
<1>8. Clean(s)
  BY <1>4, <1>7 DEF Clean, Fresh
<1>9. s.ctx.pid > 0
  BY SMT, <1>3, <1>4
<1> QED BY <1>0, <1>3, <1>4, <1>5, <1>6, <1>7, <1>8, <1>9 DEF Keeps, KeepsHooks, Forks

(* fork_pre in the child, or in the zygote when the fork failed.           *)
LEMMA ChildGood ==
  ASSUME NEW r, Shaped(r), Hooked(r), Swapped(r), Fresh(r), NEW m \in {"app", "server"}, NEW fl,
         NEW pid \in {0, -1}, NEW deny \in BOOLEAN, NEW mods, NEW d
  PROVE  Specializes(r, ForkChild(Enter(r, m, fl), pid, deny, mods, d))
<1> DEFINE e == Enter(r, m, fl)
           f == Fork(e, pid)
           g == RecordFds(f)
           ch == SpecializePre(g, deny, mods, d)
           k == SanitizeFds(ch)
           s == [k EXCEPT !.st = "orig"]
<1>1. /\ Shaped(e) /\ Keeps(r, e) /\ e.fds = r.fds \cup {"log"} /\ e.ctx.call = m
      /\ e.loaded = r.loaded /\ e.denied = r.denied
  BY SMT, EnterFields
<1>2. /\ Shaped(f) /\ Keeps(e, f) /\ f.fds = e.fds /\ f.ctx.call = m /\ f.ctx.pid = pid
      /\ f.loaded = r.loaded /\ f.denied = r.denied
  <2> HIDE DEF e
  <2>1. pid \in Int
    BY SMT
  <2> QED BY <1>1, <2>1, ForkFields
<1>3. /\ Shaped(g) /\ Keeps(f, g) /\ g.ctx.call = m /\ g.ctx.pid = pid
      /\ g.ctx.allowed = f.fds \ {"log"} /\ g.loaded = {} /\ ~g.denied
  <2> HIDE DEF f
  <2> QED BY <1>2, RecordFields DEF Fresh
<1>4. /\ Shaped(ch) /\ Keeps(g, ch) /\ KeepsCtx(g, ch)
      /\ ch.denied => ch.loaded = {} /\ Has(ch, "DO_REVERT_UNMOUNT")
  <2> HIDE DEF g
  <2> QED BY <1>3, SpecializeFields
<1>5. /\ Shaped(k) /\ Keeps(ch, k) /\ k.loaded = ch.loaded /\ k.denied = ch.denied
      /\ k.ctx.call = ch.ctx.call /\ k.ctx.pid = ch.ctx.pid /\ k.ctx.flags = ch.ctx.flags
      /\ ch.ctx.pid <= 0 => k.fds \subseteq ch.ctx.allowed \cup k.ctx.ignore
  <2> HIDE DEF ch
  <2> QED BY <1>4, SanitizeFields
<1>6. /\ Shaped(s) /\ Keeps(k, s) /\ s.st = "orig" /\ s.ctx = k.ctx /\ s.fds = k.fds
      /\ s.loaded = k.loaded /\ s.denied = k.denied
  <2> HIDE DEF k
  <2> QED BY SMT, <1>5, StepFields
<1>0. ForkChild(Enter(r, m, fl), pid, deny, mods, d) = s
  BY DEF ForkChild
<1> HIDE DEF e, f, g, ch, k, s
<1>7. Keeps(r, g)
  BY <1>1, <1>2, <1>3, KeepsOn
<1>8. Keeps(r, s)
  BY <1>4, <1>5, <1>6, <1>7, KeepsOn
<1>9. Hooked(s)
  BY <1>6, <1>8, InCallHooked DEF Keeps, Entered
<1>10. pid <= 0 /\ ~(pid > 0)
  BY SMT
<1>11. ch.ctx.pid = pid /\ ch.ctx.call = m /\ ch.ctx.allowed \subseteq {"sys"}
  BY <1>1, <1>2, <1>3, <1>4 DEF KeepsCtx, Fresh
<1>12. s.fds \subseteq {"sys"} \cup s.ctx.ignore /\ ~(s.ctx.pid > 0) /\ s.ctx.call # "none"
  BY <1>5, <1>6, <1>10, <1>11
<1>13. s.denied => s.loaded = {} /\ Has(s, "DO_REVERT_UNMOUNT")
  BY <1>4, <1>5, <1>6 DEF Has
<1>14. s.mounts = "shared" /\ s.plt = r.plt
  BY <1>8 DEF Fresh, Keeps, KeepsHooks
<1>15. Clean(s)
  BY <1>6, <1>12, <1>13, <1>14 DEF Clean
<1> QED BY <1>0, <1>6, <1>9, <1>14, <1>15 DEF Specializes

(* nativeSpecializeAppProcess_pre.                                         *)
LEMMA SpecGood ==
  ASSUME NEW r, Shaped(r), Hooked(r), Swapped(r), Fresh(r), NEW fl,
         NEW deny \in BOOLEAN, NEW mods, NEW d
  PROVE  LET s == [AppPre(Enter(r, "spec", fl), deny, mods, d) EXCEPT !.st = "orig"] IN
         /\ Shaped(s) /\ Hooked(s) /\ Clean(s) /\ s.st = "orig" /\ s.plt = r.plt
         /\ s.mounts = "shared"
<1> DEFINE e == Enter(r, "spec", fl)
           ch == AppPre(e, deny, mods, d)
           s == [ch EXCEPT !.st = "orig"]
<1>1. /\ Shaped(e) /\ Keeps(r, e) /\ e.ctx.call = "spec" /\ e.ctx.pid = -1
      /\ e.loaded = {} /\ ~e.denied
  BY SMT, EnterFields DEF Fresh
<1>2. /\ Shaped(ch) /\ Keeps(e, ch) /\ KeepsCtx(e, ch)
      /\ ch.denied => ch.loaded = {} /\ Has(ch, "DO_REVERT_UNMOUNT")
  <2> HIDE DEF e
  <2> QED BY <1>1, AppFields
<1>3. /\ Shaped(s) /\ Keeps(ch, s) /\ s.st = "orig" /\ s.ctx = ch.ctx /\ s.fds = ch.fds
      /\ s.loaded = ch.loaded /\ s.denied = ch.denied
  <2> HIDE DEF ch
  <2> QED BY SMT, <1>2, StepFields
<1> HIDE DEF e, ch, s
<1>4. Keeps(r, s)
  BY <1>1, <1>2, <1>3, KeepsOn
<1>5. Hooked(s)
  BY <1>3, <1>4, InCallHooked DEF Keeps, Entered
<1>6. ~(-1 > 0)
  BY SMT
<1>7. ~(s.ctx.pid > 0) /\ s.ctx.call = "spec"
  BY <1>1, <1>2, <1>3, <1>6 DEF KeepsCtx
<1>8. s.denied => s.loaded = {} /\ Has(s, "DO_REVERT_UNMOUNT")
  BY <1>2, <1>3 DEF Has
<1>9. s.mounts = "shared" /\ s.plt = r.plt
  BY <1>4 DEF Fresh, Keeps, KeepsHooks
<1>10. Clean(s)
  BY <1>3, <1>7, <1>8, <1>9 DEF Clean
<1> QED BY <1>3, <1>5, <1>9, <1>10 DEF s, ch, e

(* The original method closes the log pipe.                                *)
LEMMA LogCloseFields ==
  ASSUME NEW r, Shaped(r)
  PROVE  LET s == LogClose(r) IN
         /\ Shaped(s) /\ Keeps(r, s) /\ s.ctx = r.ctx /\ s.fds \subseteq r.fds /\ s.st = r.st
         /\ s.loaded = r.loaded /\ s.denied = r.denied /\ s.api = r.api /\ s.sigchld = r.sigchld
<1>1. LogClose(r) = CloseLog(r) \/ LogClose(r) = r
  BY DEF LogClose
<1> QED BY <1>1, CloseFields, KeepsAll

(* The parent goes through the original method as it is.                   *)
LEMMA ThroughGood ==
  ASSUME NEW q, NEW zplt, Good(q, zplt), q.st = "orig"
  PROVE  LET s == [LogClose(q) EXCEPT !.st = "post"] IN
         /\ Good(s, zplt) /\ s.st = "post" /\ s.plt = q.plt /\ s.ctx = q.ctx
         /\ s.loaded = q.loaded /\ s.unmap = q.unmap
<1> DEFINE r == LogClose(q)
           s == [r EXCEPT !.st = "post"]
<1>1. /\ Shaped(r) /\ Keeps(q, r) /\ r.ctx = q.ctx /\ r.fds \subseteq q.fds
      /\ r.loaded = q.loaded /\ r.denied = q.denied
  BY LogCloseFields DEF Good
<1>2. /\ Shaped(s) /\ Keeps(r, s) /\ s.st = "post" /\ s.ctx = q.ctx /\ s.fds = r.fds
      /\ s.loaded = q.loaded /\ s.denied = q.denied
  <2> HIDE DEF r
  <2> QED BY SMT, <1>1, StepFields
<1> HIDE DEF r, s
<1>3. Keeps(q, s)
  BY <1>1, <1>2, KeepsOn
<1>4. Hooked(s)
  BY <1>2, <1>3, InCallHooked DEF Keeps, Entered, Good, Hooked
<1>5. q.ctx.pid > 0 => Fresh(s)
  BY <1>1, <1>2, <1>3 DEF Good, Clean, Entered, Fresh, Keeps
<1>6. Clean(s)
  BY <1>2, <1>5 DEF Good, Clean
<1>7. Reverted(s, zplt)
  BY <1>2, <1>3 DEF Good, Reverted, Keeps, KeepsHooks
<1> QED BY <1>2, <1>3, <1>4, <1>6, <1>7 DEF Good, Keeps, KeepsHooks, s, r

(* new_unshare: a process on the deny list loses the mounts of Magisk.     *)
LEMMA SpecializedGood ==
  ASSUME NEW q, NEW zplt, Good(q, zplt), q.st = "orig", ~(q.ctx.pid > 0), NEW newns \in BOOLEAN
  PROVE  LET s == Specialize(LogClose(q), newns) IN
         Good(s, zplt) /\ s.st = "post" /\ s.plt = q.plt
<1> DEFINE r == LogClose(q)
           u == IF newns THEN Unshare(r) ELSE r
           v == IF "setcontext" \in u.plt THEN Log(u) ELSE u
           s == [v EXCEPT !.st = "post"]
<1>1. /\ Shaped(r) /\ Keeps(q, r) /\ r.ctx = q.ctx /\ r.loaded = q.loaded /\ r.denied = q.denied
  BY LogCloseFields DEF Good
<1>2. /\ Shaped(u) /\ KeepsHooks(r, u) /\ u.ctx = r.ctx /\ u.loaded = r.loaded /\ u.denied = r.denied
      /\ u.mounts = "private" =>
           r.mounts = "private" \/ ~("unshare" \in r.plt /\ r.ctx.call # "none" /\ Has(r, "DO_REVERT_UNMOUNT"))
  <2> HIDE DEF r
  <2>1. CASE newns
    <3>1. u = Unshare(r)
      BY <2>1
    <3> HIDE DEF u
    <3> QED BY SMT, <1>1, <3>1 DEF Unshare, Shaped, KeepsHooks, Fields
  <2>2. CASE ~newns
    <3>1. u = r
      BY <2>2
    <3> HIDE DEF u
    <3> QED BY <1>1, <3>1 DEF KeepsHooks
  <2> QED BY <2>1, <2>2
<1>3. /\ Shaped(v) /\ Keeps(u, v) /\ v.ctx = u.ctx /\ v.loaded = u.loaded /\ v.denied = u.denied
  <2> HIDE DEF u
  <2>1. v = Log(u) \/ v = u
    OBVIOUS
  <2> HIDE DEF v
  <2>2. CASE v = Log(u)
    BY <1>2, <2>2, LogFields
  <2>3. CASE v = u
    BY <1>2, <2>3, KeepsAll
  <2> QED BY <2>1, <2>2, <2>3
<1>4. /\ Shaped(s) /\ Keeps(v, s) /\ s.st = "post" /\ s.ctx = v.ctx
      /\ s.loaded = v.loaded /\ s.denied = v.denied
  <2> HIDE DEF v
  <2> QED BY SMT, <1>3, StepFields
<1>5. Specialize(r, newns) = s
  BY DEF Specialize
<1> HIDE DEF r, u, v, s
<1>6. KeepsHooks(q, s)
  <2>1. KeepsHooks(q, u)
    BY <1>1, <1>2 DEF Keeps, KeepsHooks
  <2>2. KeepsHooks(u, s)
    BY <1>3, <1>4, KeepsOn DEF Keeps
  <2> QED BY <2>1, <2>2 DEF KeepsHooks
<1>7. Hooked(s)
  BY <1>4, <1>6, InCallHooked DEF Entered, Good, Hooked
<1>8. s.ctx = q.ctx /\ s.loaded = q.loaded /\ s.denied = q.denied /\ s.mounts = u.mounts
  BY <1>1, <1>2, <1>3, <1>4 DEF Keeps
<1>9. Clean(s)
  BY <1>4, <1>8 DEF Good, Clean
<1>10. s.denied /\ s.mounts = "private" => "unshare" \notin q.plt
  BY <1>1, <1>2, <1>8 DEF Good, Clean, Has, Keeps, KeepsHooks
<1>11. Reverted(s, zplt)
  BY <1>4, <1>6, <1>10 DEF Good, Reverted, KeepsHooks
<1> QED BY <1>4, <1>5, <1>6, <1>7, <1>9, <1>11 DEF Good, KeepsHooks, r

\* s is r but for the native methods and their backups.
OtherMethods(r, s) ==
  /\ Shaped(s) /\ s.plt = r.plt /\ s.backup = r.backup /\ s.hook = r.hook
  /\ s.callbacks = r.callbacks /\ s.unmap = r.unmap /\ s.mapped = r.mapped
  /\ s.mounts = r.mounts /\ s.ctx = r.ctx /\ s.fds = r.fds /\ s.st = r.st
  /\ s.loaded = r.loaded /\ s.denied = r.denied /\ s.api = r.api /\ s.sigchld = r.sigchld

\* The entries of r.saved that are not null are swapped with the methods.
MethodsSwapped(r, s) ==
  /\ ~r.callbacks => s.jni = r.jni
  /\ r.callbacks => \A m \in Methods : r.saved[m] # "null" =>
                        s.jni[m] = r.saved[m] /\ s.saved[m] = r.jni[m]

(* hook_jni_methods a second time puts the methods back.                   *)
LEMMA SwapFields ==
  ASSUME NEW r, Shaped(r)
  PROVE  OtherMethods(r, SwapJni(r)) /\ MethodsSwapped(r, SwapJni(r))
<1>1. CASE ~r.callbacks
  BY SMT, <1>1 DEF SwapJni, OtherMethods, MethodsSwapped, Shaped, Fields
<1>2. CASE r.callbacks
  <2> DEFINE swap == {m \in Methods : r.saved[m] # "null"}
             j == [m \in Methods |-> IF m \in swap THEN r.saved[m] ELSE r.jni[m]]
             v == [m \in Methods |-> IF m \in swap THEN r.jni[m] ELSE r.saved[m]]
             s == [r EXCEPT !.jni = j, !.saved = v]
  <2>1. SwapJni(r) = s
    BY SMT, <1>2 DEF SwapJni, Shaped, Fields
  <2>2. \A m \in Methods : r.saved[m] # "null" => j[m] = r.saved[m] /\ v[m] = r.jni[m]
    OBVIOUS
  <2> HIDE DEF j, v
  <2>3. s.jni = j /\ s.saved = v
    BY SMT DEF Shaped, Fields
  <2>4. OtherMethods(r, s)
    BY SMT DEF OtherMethods, Shaped, Fields
  <2> HIDE DEF s
  <2> QED BY <1>2, <2>1, <2>2, <2>3, <2>4 DEF MethodsSwapped
<1> QED BY <1>1, <1>2

(* unhook_functions, in a child that is specialized.                       *)
LEMMA UnhookFields ==
  ASSUME NEW r, Shaped(r), Swapped(r)
  PROVE  LET s == Unhook(RunModulesPost(r)) IN
         /\ Shaped(s) /\ s.plt = r.plt \cup {Unloader} /\ s.backup = r.backup \cup {Unloader}
         /\ Plain(s) /\ s.unmap /\ s.api = {} /\ "log" \notin s.fds /\ s.hook = r.hook
         /\ s.loaded \subseteq r.loaded /\ s.denied = r.denied /\ s.mounts = r.mounts
<1> DEFINE w == With(r, "POST_SPECIALIZE")
           a == [w EXCEPT !.loaded = @ \ r.ctx.unload]
           b == CloseLog(a)
           c == [b EXCEPT !.api = {}, !.unmap = TRUE]
           e == SwapJni(c)
           s == [e EXCEPT !.plt = @ \cup {Unloader}, !.backup = @ \cup {Unloader}]
<1>1. Shaped(w) /\ Keeps(r, w) /\ w.loaded = r.loaded /\ w.denied = r.denied
  BY WithFields
<1>2. Shaped(a) /\ Keeps(w, a) /\ a.loaded \subseteq r.loaded /\ a.denied = r.denied
  <2> HIDE DEF w
  <2> QED BY SMT, <1>1 DEF Shaped, Keeps, KeepsHooks, Fields
<1>3. Shaped(b) /\ Keeps(a, b) /\ b.loaded = a.loaded /\ b.denied = r.denied /\ b.fds = a.fds \ {"log"}
  <2> HIDE DEF a
  <2> QED BY <1>2, CloseFields
<1>4. /\ Shaped(c) /\ c.plt = b.plt /\ c.backup = b.backup /\ c.jni = b.jni /\ c.saved = b.saved
      /\ c.callbacks = b.callbacks /\ c.hook = b.hook /\ c.mounts = b.mounts /\ c.fds = b.fds
      /\ c.loaded = b.loaded /\ c.denied = b.denied /\ c.api = {} /\ c.unmap = TRUE
  <2> HIDE DEF b
  <2> QED BY SMT, <1>3 DEF Shaped, Fields
<1>5. Keeps(r, b)
  <2> HIDE DEF w, a, b
  <2> QED BY <1>1, <1>2, <1>3, KeepsOn
<1>6. Swapped(c)
  <2> HIDE DEF c, b
  <2>1. c.callbacks = r.callbacks /\ c.jni = r.jni /\ c.saved = r.saved
    BY <1>4, <1>5 DEF Keeps, KeepsHooks
  <2> QED BY <2>1 DEF Swapped
<1>7. /\ Shaped(e) /\ e.plt = c.plt /\ e.backup = c.backup /\ e.hook = c.hook /\ e.unmap = c.unmap
      /\ e.mounts = c.mounts /\ e.fds = c.fds /\ e.loaded = c.loaded /\ e.denied = c.denied
      /\ e.api = c.api /\ Plain(e)
  <2> HIDE DEF b, c
  <2>1. "orig" # "null"
    OBVIOUS
  <2>2. OtherMethods(c, e) /\ MethodsSwapped(c, e)
    BY <1>4, SwapFields
  <2> HIDE DEF e
  <2>3. Plain(e)
    BY <1>6, <2>1, <2>2 DEF Swapped, Plain, MethodsSwapped
  <2> QED BY <2>2, <2>3 DEF OtherMethods
<1>8. /\ Shaped(s) /\ s.plt = e.plt \cup {Unloader} /\ s.backup = e.backup \cup {Unloader}
      /\ s.jni = e.jni /\ s.hook = e.hook /\ s.unmap = e.unmap /\ s.mounts = e.mounts
      /\ s.fds = e.fds /\ s.loaded = e.loaded /\ s.denied = e.denied /\ s.api = e.api
  <2> HIDE DEF b, c, e
  <2> QED BY SMT, <1>7 DEF Shaped, Fields
<1>9. Unhook(RunModulesPost(r)) = s
  BY DEF Unhook, RunModulesPost
<1> HIDE DEF w, a, b, c, e, s
<1>10. /\ b.plt = r.plt /\ b.backup = r.backup /\ b.hook = r.hook /\ b.mounts = r.mounts
       /\ "log" \notin b.fds /\ b.loaded \subseteq r.loaded /\ b.denied = r.denied
  BY <1>2, <1>3, <1>5 DEF Keeps, KeepsHooks
<1>11. /\ e.plt = r.plt /\ e.backup = r.backup /\ e.hook = r.hook /\ e.mounts = r.mounts
       /\ "log" \notin e.fds /\ e.loaded \subseteq r.loaded /\ e.denied = r.denied
       /\ e.unmap = TRUE /\ e.api = {}
  BY <1>4, <1>7, <1>10
<1>12. Plain(s)
  BY <1>7, <1>8 DEF Plain
<1>13. /\ s.plt = r.plt \cup {Unloader} /\ s.backup = r.backup \cup {Unloader}
       /\ s.unmap = TRUE /\ s.api = {} /\ "log" \notin s.fds /\ s.hook = r.hook
       /\ s.loaded \subseteq r.loaded /\ s.denied = r.denied /\ s.mounts = r.mounts
  BY <1>8, <1>11
<1> QED BY <1>8, <1>9, <1>12, <1>13

Posted(q, x) ==
  LET t == IF IsChild(q) THEN Unhook(RunModulesPost(q)) ELSE q IN
  [t EXCEPT !.ctx = NoCtx, !.sigchld = TRUE, !.st = x]

(* X_post and the destructor.                                              *)
LEMMA PostGood ==
  ASSUME NEW q, NEW zplt, Good(q, zplt), q.st = "post", NEW x \in {"idle", "run"},
         q.ctx.pid > 0 => x = "idle"
  PROVE  LET s == Posted(q, x) IN
         /\ Good(s, zplt) /\ s.st = x /\ s.ctx = NoCtx /\ s.sigchld
         /\ "unshare" \in s.plt => "unshare" \in q.plt
         /\ q.ctx.pid > 0 => s.loaded = q.loaded /\ s.unmap = q.unmap
<1> DEFINE t == IF IsChild(q) THEN Unhook(RunModulesPost(q)) ELSE q
           s == [t EXCEPT !.ctx = NoCtx, !.sigchld = TRUE, !.st = x]
<1> SUFFICES /\ Good(s, zplt) /\ s.st = x /\ s.ctx = NoCtx /\ s.sigchld
             /\ "unshare" \in s.plt => "unshare" \in q.plt
             /\ q.ctx.pid > 0 => s.loaded = q.loaded /\ s.unmap = q.unmap
  <2>1. Posted(q, x) = s
    BY DEF Posted
  <2> HIDE DEF s
  <2> QED BY <2>1
<1>0. Shaped(q) /\ Hooked(q) /\ Swapped(q) /\ Clean(q) /\ Reverted(q, zplt)
  BY DEF Good, Hooked, Entered
<1>1. q.ctx.pid > 0 <=> ~IsChild(q)
  BY SMT, <1>0 DEF Shaped, IsChild
<1>2. Shaped(t)
  <2>1. Shaped(Unhook(RunModulesPost(q)))
    BY <1>0, UnhookFields
  <2>2. t = q \/ t = Unhook(RunModulesPost(q))
    OBVIOUS
  <2> HIDE DEF t
  <2> QED BY <1>0, <2>1, <2>2
<1>3. DOMAIN NoCtx = CtxFields /\ NoCtx.pid \in Int
  BY SMT DEF NoCtx, CtxFields
<1>4. /\ Shaped(s) /\ Keeps(t, s) /\ s.st = x /\ s.ctx = NoCtx /\ s.sigchld /\ s.fds = t.fds
      /\ s.loaded = t.loaded /\ s.denied = t.denied /\ s.api = t.api
  <2> HIDE DEF t
  <2> QED BY SMT, <1>2, <1>3 DEF Shaped, Keeps, KeepsHooks, Fields
<1>5. ~Leaving(q)
  BY <1>0, NotBoth DEF Hooked
<1>6. CASE IsChild(q)
  <2>1. t = Unhook(RunModulesPost(q))
    BY <1>6
  <2> HIDE DEF t, s
  <2>2. /\ t.plt = q.plt \cup {Unloader} /\ t.backup = q.backup \cup {Unloader}
        /\ Plain(t) /\ t.unmap /\ t.api = {} /\ "log" \notin t.fds /\ t.hook = q.hook
        /\ t.loaded \subseteq q.loaded /\ t.denied = q.denied /\ t.mounts = q.mounts
    BY <1>0, <2>1, UnhookFields
  <2>3. s.hook # "deleted" /\ Plain(s) /\ s.plt \subseteq s.backup /\ s.api = {} /\ "log" \notin s.fds
    <3>1. /\ s.plt = q.plt \cup {Unloader} /\ s.backup = q.backup \cup {Unloader} /\ s.jni = t.jni
          /\ s.hook = q.hook
      BY <1>4, <2>2 DEF Keeps, KeepsHooks
    <3>2. q.plt \subseteq q.backup /\ q.hook # "deleted"
      BY <1>0, <1>5 DEF Hooked, Leaving
    <3>3. Plain(s)
      BY <2>2, <3>1 DEF Plain
    <3> QED BY <1>4, <2>2, <3>1, <3>2, <3>3
  <2>4. Hooked(s)
    BY <1>4, <2>3 DEF Hooked, Entered
  <2>5. Clean(s)
    BY <1>0, <1>4, <2>2, <2>3, NotBoth DEF Clean, Entered
  <2>6. Reverted(s, zplt)
    BY <1>0, <1>4, <2>2 DEF Reverted, Keeps
  <2>7. "unshare" \in s.plt => "unshare" \in q.plt
    <3>1. s.plt = q.plt \cup {Unloader}
      BY <1>4, <2>2 DEF Keeps, KeepsHooks
    <3>2. "unshare" # Unloader
      BY DEF Unloader
    <3> QED BY <3>1, <3>2
  <2> QED BY <1>1, <1>4, <1>6, <2>4, <2>5, <2>6, <2>7 DEF Good
<1>7. CASE ~IsChild(q)
  <2>1. t = q
    BY <1>7
  <2> HIDE DEF t, s
  <2>2. x = "idle" /\ Fresh(s)
    BY <1>0, <1>1, <1>4, <1>7, <2>1 DEF Clean, Entered, Fresh, Keeps
  <2>3. Swapped(s) /\ ~Leaving(s) /\ s.plt \subseteq s.backup
    <3>1. KeepsHooks(q, s)
      BY <1>4, <2>1 DEF Keeps
    <3>2. q.plt \subseteq q.backup
      BY <1>0 DEF Hooked
    <3>3. Swapped(s)
      BY <1>0, <3>1 DEF Swapped, KeepsHooks
    <3>4. ~Leaving(s)
      BY <1>5, <3>1 DEF Leaving, KeepsHooks
    <3> QED BY <3>1, <3>2, <3>3, <3>4 DEF KeepsHooks
  <2>4. Hooked(s)
    BY <1>4, <2>2, <2>3 DEF Hooked, Entered, Leaving
  <2>5. Clean(s)
    BY <1>4, <2>2 DEF Clean, Fresh
  <2>6. Reverted(s, zplt)
    BY <1>4, <2>2 DEF Reverted, Fresh
  <2> QED BY <1>4, <2>1, <2>4, <2>5, <2>6 DEF Good, Keeps, KeepsHooks
<1> QED BY <1>6, <1>7

Unloaded(q, ok) ==
  LET r == RestorePlt(q, ok) IN [r EXCEPT !.hook = "deleted", !.mapped = ~r.unmap]

(* new_pthread_attr_destroy: the library is unmapped when every hook of it *)
(* could be taken back.                                                    *)
LEMMA UnloadGood ==
  ASSUME NEW q, NEW zplt, Good(q, zplt), q.st \in {"run", "idle"}, Unloader \in q.plt,
         NEW ok \in BOOLEAN
  PROVE  LET s == Unloaded(q, ok) IN
         /\ Good(s, zplt) /\ s.st = q.st /\ s.ctx = q.ctx /\ s.sigchld = q.sigchld
         /\ s.loaded = q.loaded /\ (s.unmap => q.unmap)
         /\ "unshare" \in s.plt => "unshare" \in q.plt
<1> DEFINE r == RestorePlt(q, ok)
           s == [r EXCEPT !.hook = "deleted", !.mapped = ~r.unmap]
<1>0. /\ Shaped(q) /\ Hooked(q) /\ Clean(q) /\ Reverted(q, zplt) /\ Plain(q)
  BY DEF Good, Hooked, Leaving
<1>1. /\ Shaped(r) /\ r.backup = q.backup /\ r.jni = q.jni /\ r.st = q.st /\ r.ctx = q.ctx
      /\ r.fds = q.fds /\ r.loaded = q.loaded /\ r.api = q.api /\ r.mounts = q.mounts
      /\ r.denied = q.denied /\ r.sigchld = q.sigchld
      /\ \/ r.plt = q.plt \ q.backup /\ r.unmap = q.unmap
         \/ r.plt = q.plt /\ r.unmap = FALSE
  <2>1. CASE ok
    BY SMT, <1>0, <2>1 DEF RestorePlt, Shaped, Fields
  <2>2. CASE ~ok
    BY SMT, <1>0, <2>2 DEF RestorePlt, Shaped, Fields
  <2> QED BY <2>1, <2>2
<1>2. /\ Shaped(s) /\ s.backup = r.backup /\ s.jni = r.jni /\ s.st = r.st /\ s.ctx = r.ctx
      /\ s.fds = r.fds /\ s.loaded = r.loaded /\ s.api = r.api /\ s.mounts = r.mounts
      /\ s.denied = r.denied /\ s.sigchld = r.sigchld /\ s.plt = r.plt /\ s.unmap = r.unmap
      /\ s.mapped = ~r.unmap
  <2> HIDE DEF r
  <2> QED BY SMT, <1>1 DEF Shaped, Fields
<1>12. Unloaded(q, ok) = s
  BY DEF Unloaded
<1> HIDE DEF r, s
<1>3. q.plt \ q.backup = {} /\ (q.unmap => q.api = {} /\ "log" \notin q.fds)
  BY <1>0 DEF Hooked
<1>4. s.plt \subseteq s.backup /\ Plain(s)
  <2>1. Plain(s)
    BY <1>0, <1>1, <1>2 DEF Plain
  <2>2. q.plt \subseteq q.backup
    BY <1>0 DEF Hooked
  <2> QED BY <1>1, <1>2, <2>1, <2>2
<1>5. s.unmap => q.unmap /\ s.plt = {}
  BY <1>1, <1>2, <1>3
<1>6. ~s.mapped => s.unmap
  BY <1>2
<1>7. s.st \in {"run", "idle"}
  BY <1>1, <1>2
<1>8. Hooked(s)
  BY <1>1, <1>2, <1>3, <1>4, <1>5, <1>6, <1>7 DEF Hooked, Entered
<1>9. Clean(s)
  <2>1. ~Swapped(s)
    BY <1>4, NotBoth
  <2>2. s.denied => s.loaded = {}
    BY <1>0, <1>1, <1>2 DEF Clean
  <2> QED BY <1>7, <2>1, <2>2 DEF Clean, Entered
<1>10. Reverted(s, zplt)
  BY <1>0, <1>1, <1>2, <1>7 DEF Reverted
<1>11. "unshare" \in s.plt => "unshare" \in q.plt
  BY <1>1, <1>2
<1> QED BY <1>1, <1>2, <1>5, <1>8, <1>9, <1>10, <1>11, <1>12 DEF Good

UnreplacedChild(q, x) == [LogClose(q) EXCEPT !.st = x]

(* A fork by a method that is not replaced: parent and child.              *)
LEMMA PlainGood ==
  ASSUME NEW q, NEW zplt, Good(q, zplt), q.st = "idle", q.plt = zplt, NEW x \in {"usap", "run"}
  PROVE  LET r == LogClose(q)
             s == UnreplacedChild(q, x) IN
         /\ Good(r, zplt) /\ r.st = "idle" /\ r.ctx = q.ctx /\ r.sigchld = q.sigchld
         /\ r.loaded = q.loaded /\ r.unmap = q.unmap /\ r.plt = zplt
         /\ Good(s, zplt) /\ s.st = x
<1> DEFINE r == LogClose(q)
           s == [r EXCEPT !.st = x]
<1>0. /\ Shaped(q) /\ Hooked(q) /\ Clean(q) /\ Reverted(q, zplt)
  BY DEF Good
<1>1. /\ Shaped(r) /\ Keeps(q, r) /\ r.ctx = q.ctx /\ r.fds \subseteq q.fds /\ r.st = "idle"
      /\ r.loaded = q.loaded /\ r.denied = q.denied /\ r.api = q.api /\ r.sigchld = q.sigchld
  BY <1>0, LogCloseFields
<1>2. /\ Shaped(s) /\ Keeps(r, s) /\ s.st = x /\ s.ctx = r.ctx /\ s.fds = r.fds
      /\ s.loaded = r.loaded /\ s.denied = r.denied /\ s.api = r.api
  <2> HIDE DEF r
  <2> QED BY SMT, <1>1, StepFields
<1>7. UnreplacedChild(q, x) = s
  BY DEF UnreplacedChild
<1> HIDE DEF r, s
<1>3. ASSUME NEW t, Keeps(q, t), t.fds \subseteq q.fds, t.loaded = q.loaded, t.denied = q.denied,
             t.api = q.api, t.st \in {"idle", "usap", "run"}
      PROVE  Hooked(t) /\ Clean(t) /\ Reverted(t, zplt)
  <2>1. /\ Swapped(t) <=> Swapped(q)
        /\ Plain(t) <=> Plain(q)
        /\ Leaving(t) <=> Leaving(q)
    <3>1. t.callbacks = q.callbacks /\ t.jni = q.jni /\ t.saved = q.saved
      BY <1>3 DEF Keeps, KeepsHooks
    <3>2. t.unmap = q.unmap /\ t.hook = q.hook /\ t.plt = q.plt
      BY <1>3 DEF Keeps, KeepsHooks
    <3>3. Swapped(t) <=> Swapped(q)
      BY <3>1 DEF Swapped
    <3>4. Plain(t) <=> Plain(q)
      BY <3>1 DEF Plain
    <3>5. Leaving(t) <=> Leaving(q)
      BY <3>2 DEF Leaving
    <3> QED BY <3>3, <3>4, <3>5
  <2>2. /\ t.plt \subseteq t.backup
        /\ t.unmap => t.api = {} /\ "log" \notin t.fds
        /\ t.hook = "deleted" /\ ~t.mapped => t.unmap /\ t.plt = {}
    BY <1>0, <1>3 DEF Hooked, Keeps, KeepsHooks
  <2>3. Hooked(t)
    BY <1>0, <1>3, <2>1, <2>2 DEF Hooked, Entered
  <2>4. Swapped(t) => Fresh(t)
    BY <1>0, <1>3, <2>1 DEF Clean, Fresh, Keeps
  <2>5. Clean(t)
    BY <1>0, <1>3, <2>4 DEF Clean, Entered
  <2>6. Reverted(t, zplt)
    BY <1>0, <1>3 DEF Reverted, Keeps, KeepsHooks
  <2> QED BY <2>3, <2>5, <2>6
<1>4. Good(r, zplt)
  BY <1>1, <1>3 DEF Good
<1>5. Keeps(q, s)
  BY <1>1, <1>2, KeepsOn
<1>6. Good(s, zplt)
  BY <1>1, <1>2, <1>3, <1>5 DEF Good
<1> QED BY <1>1, <1>2, <1>4, <1>6, <1>7 DEF Keeps, KeepsHooks, r

LEMMA DeadGood == \A zplt : Good(Dead, zplt)
<1>1. DOMAIN Dead = Fields /\ Dead.ctx = NoCtx
  BY SMT DEF Dead, Fields
<1>2. DOMAIN NoCtx = CtxFields /\ NoCtx.pid \in Int
  BY SMTT(30) DEF NoCtx, CtxFields
<1>3. Shaped(Dead)
  BY <1>1, <1>2 DEF Shaped
<1>4. /\ Dead.st = "dead" /\ Dead.plt = {} /\ Dead.backup = {} /\ Dead.unmap = FALSE
      /\ Dead.hook = "none" /\ Dead.denied = FALSE /\ Dead.jni = [m \in Methods |-> "orig"]
  BY SMT DEF Dead
<1>5. Plain(Dead) /\ ~Leaving(Dead) /\ ~Entered(Dead)
  BY <1>4 DEF Plain, Leaving, Entered
<1>6. Hooked(Dead)
  BY <1>4, <1>5 DEF Hooked
<1>7. Clean(Dead)
  BY <1>4, <1>5 DEF Clean
<1>8. \A zplt : Reverted(Dead, zplt)
  BY <1>4 DEF Reverted
<1> QED BY <1>3, <1>6, <1>7, <1>8 DEF Good

LEMMA DeadIsDead == Dead.st = "dead"
  BY SMT DEF Dead

-----------------------------------------------------------------------------
(* The steps of the zygote and its children.                               *)

(* Every process stays good if those that changed are.                     *)
LEMMA AllGood ==
  ASSUME HooksInv, DOMAIN proc' = Pids,
         \A p \in Pids : proc'[p] = proc[p] \/ Good(proc'[p], proc[Zygote].plt),
         "unshare" \in proc'[Zygote].plt => "unshare" \in proc[Zygote].plt
  PROVE  \A p \in Pids : Good(proc'[p], proc'[Zygote].plt)
<1> TAKE p \in Pids
<1>1. Good(proc'[p], proc[Zygote].plt)
  BY DEF HooksInv
<1> QED BY <1>1 DEF Good, Reverted

(* A step of a child, which may have forked c.                             *)
LEMMA ChildStep ==
  ASSUME HooksInv, NEW p \in Pids, p # Zygote, proc[p].st # "dead", NEW s, NEW c \in Pids, NEW t,
         \/ proc' = [proc EXCEPT ![p] = s]
         \/ /\ c # Zygote /\ proc' = [proc EXCEPT ![p] = s, ![c] = t]
            /\ Good(t, proc[Zygote].plt),
         Good(s, proc[Zygote].plt), UNCHANGED forkFailed
  PROVE  HooksInv'
<1>1. DOMAIN proc' = Pids /\ proc'[Zygote] = proc[Zygote] /\ proc[p] # Dead
  BY HooksAssumption, DeadIsDead DEF HooksInv
<1>2. \A q \in Pids : proc'[q] = proc[q] \/ Good(proc'[q], proc[Zygote].plt)
  BY DEF HooksInv
<1>3. \A q \in Pids : Good(proc'[q], proc'[Zygote].plt)
  BY <1>1, <1>2, AllGood
<1>4. proc[Zygote].st # "start"
  BY <1>1 DEF HooksInv, ZygoteInv
<1>5. ZygoteInv'
  BY <1>1, <1>4 DEF HooksInv, ZygoteInv
<1> QED BY <1>1, <1>3, <1>5 DEF HooksInv

(* A step of the zygote, which may have forked c.                          *)
LEMMA ZygoteStep ==
  ASSUME HooksInv, NEW s, NEW c \in Pids, NEW t,
         \/ proc' = [proc EXCEPT ![Zygote] = s]
         \/ /\ c # Zygote /\ proc' = [proc EXCEPT ![Zygote] = s, ![c] = t]
            /\ Good(t, proc[Zygote].plt),
         Good(s, proc[Zygote].plt), "unshare" \in s.plt => "unshare" \in proc[Zygote].plt,
         s.st \in {"loading", "idle", "orig", "post"},
         ~forkFailed' =>
            /\ s.loaded = {} /\ ~s.unmap
            /\ ~Entered(s) => s.sigchld /\ s.ctx = NoCtx
            /\ Entered(s) => s.ctx.pid > 0 /\ s.ctx.call # "spec"
  PROVE  HooksInv'
<1>1. DOMAIN proc' = Pids /\ proc'[Zygote] = s
  BY HooksAssumption DEF HooksInv
<1>2. \A q \in Pids : proc'[q] = proc[q] \/ Good(proc'[q], proc[Zygote].plt)
  BY DEF HooksInv
<1>3. \A q \in Pids : Good(proc'[q], proc'[Zygote].plt)
  BY <1>1, <1>2, AllGood
<1>4. ZygoteInv'
  BY <1>1 DEF ZygoteInv
<1> QED BY <1>1, <1>3, <1>4 DEF HooksInv

LEMMA HooksInvInit == HooksInit => HooksInv
<1> SUFFICES ASSUME HooksInit PROVE HooksInv
    OBVIOUS
<1> DEFINE z == [Dead EXCEPT !.st = "start", !.fds = {"sys"}]
<1>1. /\ Shaped(z) /\ z.st = "start" /\ z.plt = {} /\ z.backup = {} /\ Plain(z)
      /\ z.unmap = FALSE /\ z.hook = "none" /\ z.denied = FALSE /\ z.fds = {"sys"}
      /\ z.loaded = {} /\ z.mounts = "shared" /\ z.sigchld = TRUE /\ z.ctx = NoCtx
      /\ \A m \in Methods : z.saved[m] = "ours"
  BY SMT DEF Dead, NoCtx, Shaped, Fields, CtxFields, Plain
<1>2. /\ DOMAIN proc = Pids /\ proc[Zygote] = z
      /\ \A p \in Pids : p # Zygote => proc[p] = Dead
  BY HooksAssumption DEF HooksInit
<1> HIDE DEF z
<1>3. Good(z, z.plt)
  BY <1>1 DEF Good, Hooked, Clean, Reverted, Entered, Leaving, Fresh
<1>4. \A p \in Pids : Good(proc[p], proc[Zygote].plt)
  BY <1>2, <1>3, DeadGood
<1>5. ZygoteInv
  BY <1>1, <1>2 DEF ZygoteInv, Entered
<1> QED BY <1>2, <1>4, <1>5 DEF HooksInv

(* hook_entry, new_dlclose and new_strdup: the zygote is hooked.           *)
LEMMA LoadStep == ASSUME HooksInv, hook_entry \/ dlclose \/ strdup PROVE HooksInv'
<1> DEFINE z == proc[Zygote]
<1>0. Good(z, z.plt) /\ Shaped(z) /\ Hooked(z) /\ Clean(z) /\ UNCHANGED forkFailed
  BY HooksAssumption DEF HooksInv, Good, hook_entry, dlclose, strdup
<1>1. ASSUME hook_entry PROVE HooksInv'
  <2>1. PICK failed \in {{}, {"unshare"}, {"strdup"}} :
          proc' = [proc EXCEPT ![Zygote] =
                     [z EXCEPT !.hook = "live", !.mapped = TRUE, !.st = "loading",
                               !.plt = PltSyms \ failed, !.backup = PltSyms \ failed]]
    BY <1>1 DEF hook_entry, Set
  <2> DEFINE s == [z EXCEPT !.hook = "live", !.mapped = TRUE, !.st = "loading",
                            !.plt = PltSyms \ failed, !.backup = PltSyms \ failed]
  <2>2. /\ Shaped(s) /\ s.hook = "live" /\ s.st = "loading" /\ s.plt = PltSyms \ failed
        /\ s.backup = s.plt /\ s.jni = z.jni /\ s.saved = z.saved /\ s.unmap = z.unmap
        /\ s.fds = z.fds /\ s.loaded = z.loaded /\ s.denied = z.denied /\ s.mounts = z.mounts
        /\ s.ctx = z.ctx /\ s.sigchld = z.sigchld
    <3> HIDE DEF z
    <3> QED BY SMT, <1>0 DEF Shaped, Fields
  <2>3. DOMAIN proc' = Pids /\ proc'[Zygote] = s /\ \A p \in Pids : p # Zygote => proc'[p] = Dead
    BY <1>1, <2>1, HooksAssumption DEF HooksInv, ZygoteInv, hook_entry
  <2>4. z.st = "start"
    BY <1>1 DEF hook_entry
  <2> HIDE DEF s, z
  <2>5. Plain(s) /\ ~s.unmap /\ Fresh(s) /\ \A m \in Methods : s.saved[m] = "ours"
    <3>1. Plain(z) /\ ~Leaving(z) /\ Fresh(z) /\ \A m \in Methods : z.saved[m] = "ours"
      BY <1>0, <2>4 DEF Hooked, Clean
    <3> QED BY ZenonT(30), <2>2, <3>1 DEF Plain, Leaving, Fresh
  <2>6. Unloader \notin s.plt
    BY <2>2 DEF Unloader, PltSyms
  <2>7. Hooked(s) /\ Clean(s) /\ Reverted(s, s.plt)
    BY <2>2, <2>5, <2>6 DEF Hooked, Clean, Reverted, Entered, Leaving, Fresh
  <2>8. \A p \in Pids : Good(proc'[p], proc'[Zygote].plt)
    BY <2>2, <2>3, <2>7, DeadGood DEF Good
  <2>9. ZygoteInv'
    BY <1>0, <2>2, <2>3, <2>4, <2>5 DEF ZygoteInv, HooksInv, Entered, Fresh, z
  <2> QED BY <2>3, <2>8, <2>9 DEF HooksInv
<1>2. ASSUME dlclose PROVE HooksInv'
  <2>1. PICK found \in BOOLEAN :
          proc' = [proc EXCEPT ![Zygote] = [z EXCEPT !.self = TRUE, !.callbacks = found]]
    BY <1>2 DEF dlclose, Set
  <2> DEFINE s == [z EXCEPT !.self = TRUE, !.callbacks = found]
  <2>2. /\ Shaped(s) /\ s.hook = z.hook /\ s.st = z.st /\ s.plt = z.plt /\ s.mapped = z.mapped
        /\ s.backup = z.backup /\ s.jni = z.jni /\ s.saved = z.saved /\ s.unmap = z.unmap
        /\ s.fds = z.fds /\ s.loaded = z.loaded /\ s.denied = z.denied /\ s.mounts = z.mounts
        /\ s.ctx = z.ctx /\ s.sigchld = z.sigchld
    <3> HIDE DEF z
    <3> QED BY SMT, <1>0 DEF Shaped, Fields
  <2>3. z.st = "loading"
    BY <1>2 DEF dlclose
  <2>4. /\ ~forkFailed => z.loaded = {} /\ ~z.unmap /\ z.sigchld /\ z.ctx = NoCtx
        /\ proc' = [proc EXCEPT ![Zygote] = s]
    BY <2>1, <2>3 DEF HooksInv, ZygoteInv, Entered
  <2> HIDE DEF s, z
  <2>5. /\ Plain(s) /\ ~Leaving(s) /\ Fresh(s) /\ s.plt \subseteq s.backup
        /\ \A m \in Methods : s.saved[m] = "ours"
    <3>1. Plain(z) /\ ~Leaving(z) /\ Fresh(z) /\ z.plt \subseteq z.backup
          /\ \A m \in Methods : z.saved[m] = "ours"
      BY <1>0, <2>3 DEF Hooked, Clean
    <3> QED BY <2>2, <3>1 DEF Plain, Leaving, Fresh
  <2>6. Hooked(s) /\ Clean(s) /\ Reverted(s, z.plt)
    BY <2>2, <2>3, <2>5 DEF Hooked, Clean, Reverted, Entered, Leaving, Fresh
  <2>7. Good(s, z.plt)
    BY <2>2, <2>6 DEF Good
  <2> QED BY <1>0, <2>2, <2>3, <2>4, <2>7, ZygoteStep, HooksAssumption DEF Entered, z
<1>3. ASSUME strdup PROVE HooksInv'
  <2>1. PICK vm \in BOOLEAN :
          proc' = [proc EXCEPT ![Zygote] =
                     [(IF vm /\ "strdup" \in z.plt THEN SwapJni(z) ELSE z) EXCEPT !.st = "idle"]]
    BY <1>3 DEF strdup, Set
  <2> DEFINE t == IF vm /\ "strdup" \in z.plt THEN SwapJni(z) ELSE z
             s == [t EXCEPT !.st = "idle"]
  <2>3. z.st = "loading"
    BY <1>3 DEF strdup
  <2>4. /\ ~forkFailed => z.loaded = {} /\ ~z.unmap /\ z.sigchld /\ z.ctx = NoCtx
        /\ proc' = [proc EXCEPT ![Zygote] = s]
    BY <2>1, <2>3 DEF HooksInv, ZygoteInv, Entered
  <2>5. /\ Plain(z) /\ ~Leaving(z) /\ Fresh(z) /\ z.plt \subseteq z.backup
        /\ \A m \in Methods : z.saved[m] = "ours"
    BY <1>0, <2>3 DEF Hooked, Clean
  <2>6. /\ Shaped(t) /\ t.hook = z.hook /\ t.plt = z.plt /\ t.backup = z.backup
        /\ t.unmap = z.unmap /\ t.fds = z.fds /\ t.loaded = z.loaded /\ t.denied = z.denied
        /\ t.mounts = z.mounts /\ t.ctx = z.ctx /\ t.sigchld = z.sigchld
        /\ Swapped(t) \/ Plain(t)
    <3> HIDE DEF z
    <3>1. CASE t = z
      <4> HIDE DEF t
      <4> QED BY <1>0, <2>5, <3>1
    <3>2. CASE t = SwapJni(z)
      <4> HIDE DEF t
      <4>1. OtherMethods(z, t) /\ MethodsSwapped(z, t)
        BY <1>0, <3>2, SwapFields
      <4>2. Swapped(t) \/ Plain(t)
        <5>1. "ours" # "null"
          OBVIOUS
        <5>2. CASE z.callbacks
          <6>1. \A m \in Methods : t.jni[m] = "ours" /\ t.saved[m] = "orig"
            BY <2>5, <4>1, <5>1, <5>2 DEF MethodsSwapped, Plain
          <6> QED BY <4>1, <5>2, <6>1 DEF OtherMethods, Swapped
        <5>3. CASE ~z.callbacks
          BY <2>5, <4>1, <5>3 DEF MethodsSwapped, Plain
        <5> QED BY <5>2, <5>3
      <4> QED BY <4>1, <4>2 DEF OtherMethods
    <3> QED BY <3>1, <3>2
  <2>7. /\ Shaped(s) /\ Keeps(t, s) /\ s.st = "idle" /\ s.fds = t.fds /\ s.loaded = t.loaded
        /\ s.denied = t.denied /\ s.ctx = t.ctx /\ s.sigchld = t.sigchld
    <3> HIDE DEF t
    <3> QED BY SMT, <2>6, StepFields
  <2> HIDE DEF s, t, z
  <2>8. /\ ~Leaving(s) /\ Fresh(s) /\ s.plt = z.plt /\ s.plt \subseteq s.backup /\ s.unmap = z.unmap
    BY <2>5, <2>6, <2>7 DEF Leaving, Fresh, Keeps, KeepsHooks
  <2>9. Swapped(s) \/ Plain(s)
    <3>1. s.jni = t.jni /\ s.saved = t.saved /\ s.callbacks = t.callbacks
      BY <2>7 DEF Keeps, KeepsHooks
    <3>2. CASE Swapped(t)
      BY <3>1, <3>2 DEF Swapped
    <3>3. CASE Plain(t)
      BY <3>1, <3>3 DEF Plain
    <3> QED BY <2>6, <3>2, <3>3
  <2>10. Hooked(s) /\ Clean(s) /\ Reverted(s, z.plt)
    BY <2>7, <2>8, <2>9 DEF Hooked, Clean, Reverted, Entered, Leaving, Fresh
  <2>11. Good(s, z.plt)
    BY <2>7, <2>10 DEF Good
  <2> QED BY <1>0, <2>4, <2>6, <2>7, <2>8, <2>11, ZygoteStep, HooksAssumption DEF Entered, z
<1> QED BY <1>1, <1>2, <1>3

(* A process about to enter a replaced method is fresh.                    *)
LEMMA ReplacedFresh ==
  ASSUME HooksInv, NEW p \in Pids, proc[p].st \in {"idle", "usap"}, NEW m \in Methods,
         proc[p].jni[m] = "ours"
  PROVE  LET r == proc[p] IN Shaped(r) /\ Hooked(r) /\ Swapped(r) /\ Fresh(r)
<1>1. Shaped(proc[p]) /\ Hooked(proc[p]) /\ Clean(proc[p])
  BY DEF HooksInv, Good
<1>2. "ours" # "orig"
  OBVIOUS
<1>3. Swapped(proc[p])
  BY <1>1, <1>2 DEF Hooked, Plain
<1> QED BY <1>1, <1>3 DEF Clean

(* nativeForkAndSpecialize_pre and nativeForkSystemServer_pre.             *)
LEMMA ForkStep ==
  ASSUME HooksInv, NEW p \in Pids, NEW m \in Methods, ForkPre(p, m) PROVE HooksInv'
<1>0. p = Zygote /\ proc[p].st = "idle" /\ m \in {"app", "server"} /\ proc[p].jni[m] = "ours"
  BY DEF ForkPre
<1> DEFINE z == proc[p]
<1>1. Shaped(z) /\ Hooked(z) /\ Swapped(z) /\ Fresh(z)
  BY <1>0, ReplacedFresh
<1> DEFINE par(fl) == ForkParent(Enter(z, m, fl))
           chi(fl, pid, deny, mods, d) == ForkChild(Enter(z, m, fl), pid, deny, mods, d)
<1>2. PICK fl \in {{}, {"FDS_TO_IGNORE"}}, deny \in BOOLEAN, mods \in SUBSET Mods, d \in Does :
        LET r == Enter(proc[p], m, fl) IN
        /\ m = "server" => ~deny /\ fl = {}
        /\ \/ \E c \in Pids :
                /\ ~Live(c)
                /\ proc' = [proc EXCEPT ![p] = ForkParent(r), ![c] = ForkChild(r, 0, deny, mods, d)]
                /\ UNCHANGED forkFailed
           \/ Set(p, ForkChild(r, -1, deny, mods, d)) /\ forkFailed' = TRUE
  BY DEF ForkPre
<1>3. Forks(z, m, par(fl))
  <2> HIDE DEF z
  <2> QED BY <1>1, ParentGood
<1>4. \A pid \in {0, -1} : Specializes(z, chi(fl, pid, deny, mods, d))
  <2> HIDE DEF z
  <2> QED BY <1>0, <1>1, ChildGood
<1> HIDE DEF par, chi
<1>5. Good(par(fl), z.plt) /\ \A pid \in {0, -1} : Good(chi(fl, pid, deny, mods, d), z.plt)
  <2>1. Reverted(par(fl), z.plt)
    BY <1>3 DEF Reverted, Forks
  <2>2. \A pid \in {0, -1} : Reverted(chi(fl, pid, deny, mods, d), z.plt)
    BY <1>4 DEF Reverted, Specializes
  <2> QED BY <1>3, <1>4, <2>1, <2>2 DEF Good, Forks, Specializes
<1>6. CASE \E c \in Pids :
             /\ ~Live(c)
             /\ proc' = [proc EXCEPT ![p] = ForkParent(Enter(proc[p], m, fl)),
                                     ![c] = ForkChild(Enter(proc[p], m, fl), 0, deny, mods, d)]
             /\ UNCHANGED forkFailed
  <2>1. PICK c \in Pids : /\ ~Live(c)
                           /\ proc' = [proc EXCEPT ![p] = par(fl),
                                                   ![c] = chi(fl, 0, deny, mods, d)]
    BY <1>6 DEF par, chi
  <2>2. c # Zygote
    BY <1>0, <2>1 DEF Live
  <2>3. Entered(par(fl)) /\ m # "spec"
    BY <1>0, <1>3 DEF Entered, Forks
  <2> QED BY <1>0, <1>3, <1>5, <1>6, <2>1, <2>2, <2>3, ZygoteStep DEF Forks
<1>7. CASE Set(p, ForkChild(Enter(proc[p], m, fl), -1, deny, mods, d)) /\ forkFailed' = TRUE
  <2>1. proc' = [proc EXCEPT ![p] = chi(fl, -1, deny, mods, d)]
    BY <1>7 DEF Set, chi
  <2> QED BY <1>0, <1>4, <1>5, <1>7, <2>1, ZygoteStep, HooksAssumption DEF Specializes
<1> QED BY <1>2, <1>6, <1>7

(* nativeSpecializeAppProcess_pre.                                         *)
LEMMA SpecStep == ASSUME HooksInv, NEW p \in Pids, SpecPre(p) PROVE HooksInv'
<1>0. /\ proc[p].st = "usap" /\ proc[p].jni["spec"] = "ours" /\ UNCHANGED forkFailed
      /\ p # Zygote /\ proc[p].st # "dead" /\ "spec" \in Methods
  BY HooksAssumption DEF SpecPre, HooksInv, ZygoteInv
<1> DEFINE r == proc[p]
           zplt == proc[Zygote].plt
<1>1. Shaped(r) /\ Hooked(r) /\ Swapped(r) /\ Fresh(r) /\ Reverted(r, zplt)
  BY <1>0, ReplacedFresh DEF HooksInv, Good
<1>2. PICK deny \in BOOLEAN, mods \in SUBSET Mods, d \in Does :
        proc' = [proc EXCEPT ![p] = [AppPre(Enter(r, "spec", {"SKIP_CLOSE_LOG_PIPE"}), deny, mods, d)
                                       EXCEPT !.st = "orig"]]
  BY DEF SpecPre, Set
<1> DEFINE s == [AppPre(Enter(r, "spec", {"SKIP_CLOSE_LOG_PIPE"}), deny, mods, d) EXCEPT !.st = "orig"]
<1>3. /\ Shaped(s) /\ Hooked(s) /\ Clean(s) /\ s.st = "orig" /\ s.plt = r.plt
      /\ s.mounts = "shared"
  <2> HIDE DEF r
  <2> QED BY SMT, <1>1, SpecGood
<1>4. proc' = [proc EXCEPT ![p] = s]
  BY <1>2
<1> HIDE DEF s, r, zplt
<1>5. Good(s, zplt)
  BY <1>0, <1>1, <1>3 DEF Good, Reverted, r
<1> QED BY <1>0, <1>4, <1>5, ChildStep DEF zplt

(* The original method.                                                    *)
LEMMA OriginalStep == ASSUME HooksInv, NEW p \in Pids, Original(p) PROVE HooksInv'
<1> DEFINE q == proc[p]
           zplt == proc[Zygote].plt
           par == [LogClose(q) EXCEPT !.st = "post"]
           spe(newns) == Specialize(LogClose(q), newns)
           r == LogClose(q)
<1>0. q.st = "orig" /\ Good(q, zplt) /\ UNCHANGED forkFailed /\ Shaped(q)
  BY DEF Original, HooksInv, Good
<1>1. r.ctx = q.ctx
  <2> HIDE DEF q
  <2> QED BY <1>0, LogCloseFields
<1>2. PICK newns \in BOOLEAN :
        \/ /\ r.ctx.pid < 0 /\ r.ctx.call # "spec"
           /\ \/ \E c \in Pids : /\ ~Live(c)
                                  /\ proc' = [proc EXCEPT ![p] = par, ![c] = spe(newns)]
              \/ proc' = [proc EXCEPT ![p] = par]
        \/ r.ctx.pid > 0 /\ proc' = [proc EXCEPT ![p] = par]
        \/ /\ ~(r.ctx.call # "spec" /\ r.ctx.pid < 0) /\ ~(r.ctx.pid > 0)
           /\ proc' = [proc EXCEPT ![p] = spe(newns)]
  BY DEF Original, Set
<1>3. /\ Good(par, zplt) /\ par.st = "post" /\ par.plt = q.plt /\ par.ctx = q.ctx
      /\ par.loaded = q.loaded /\ par.unmap = q.unmap
  <2> HIDE DEF q, zplt
  <2> QED BY <1>0, ThroughGood
<1>4. ~(q.ctx.pid > 0) =>
        Good(spe(newns), zplt) /\ spe(newns).st = "post" /\ spe(newns).plt = q.plt
  <2> HIDE DEF q, zplt
  <2> QED BY <1>0, SpecializedGood
<1>5. q.ctx.pid < 0 => ~(q.ctx.pid > 0)
  <2> HIDE DEF q
  <2> QED BY SMT, <1>0 DEF Shaped
<1> HIDE DEF par, spe, r
<1>6. CASE p = Zygote
  <2>1. /\ ~forkFailed => q.loaded = {} /\ ~q.unmap /\ q.ctx.pid > 0 /\ q.ctx.call # "spec"
        /\ zplt = q.plt
    BY <1>0, <1>6 DEF HooksInv, ZygoteInv, Entered
  <2>2. Entered(par)
    BY <1>3 DEF Entered
  <2>3. CASE proc' = [proc EXCEPT ![p] = par]
    BY <1>0, <1>3, <1>6, <2>1, <2>2, <2>3, ZygoteStep
  <2>4. ASSUME NEW c \in Pids, ~Live(c), proc' = [proc EXCEPT ![p] = par, ![c] = spe(newns)],
               q.ctx.pid < 0
        PROVE  HooksInv'
    <3>1. c # Zygote
      BY <1>0, <1>6, <2>4 DEF Live
    <3>2. Good(spe(newns), zplt)
      BY <1>4, <1>5, <2>4
    <3> QED BY <1>0, <1>3, <1>6, <2>1, <2>2, <2>4, <3>1, <3>2, ZygoteStep
  <2>5. CASE proc' = [proc EXCEPT ![p] = spe(newns)] /\ ~(q.ctx.pid > 0)
    <3>1. forkFailed /\ forkFailed'
      BY <1>0, <2>1, <2>5
    <3>2. "unshare" \in spe(newns).plt => "unshare" \in zplt
      BY <1>4, <2>1, <2>5
    <3>3. spe(newns).st = "post"
      BY <1>4, <2>5
    <3> QED BY <1>4, <1>6, <2>5, <3>1, <3>2, <3>3, ZygoteStep
  <2> QED BY <1>1, <1>2, <2>3, <2>4, <2>5
<1>7. CASE p # Zygote
  <2>1. proc[p].st # "dead"
    BY <1>0
  <2>2. CASE proc' = [proc EXCEPT ![p] = par]
    BY <1>0, <1>3, <1>7, <2>1, <2>2, ChildStep
  <2>3. CASE proc' = [proc EXCEPT ![p] = spe(newns)] /\ ~(q.ctx.pid > 0)
    BY <1>0, <1>4, <1>7, <2>1, <2>3, ChildStep
  <2>4. ASSUME NEW c \in Pids, ~Live(c), proc' = [proc EXCEPT ![p] = par, ![c] = spe(newns)],
               q.ctx.pid < 0
        PROVE  HooksInv'
    <3>1. c # Zygote
      BY <2>4 DEF Live, HooksInv, ZygoteInv
    <3>2. Good(spe(newns), zplt)
      BY <1>4, <1>5, <2>4
    <3> QED BY <1>0, <1>3, <1>7, <2>1, <2>4, <3>1, <3>2, ChildStep
  <2> QED BY <1>1, <1>2, <2>2, <2>3, <2>4
<1> QED BY <1>6, <1>7

(* nativeForkUsap, and methods that were not replaced.                     *)
LEMMA PlainStep ==
  ASSUME HooksInv, NEW p \in Pids, NEW st \in {"usap", "run"}, PlainFork(p, st) PROVE HooksInv'
<1> DEFINE q == proc[p]
           r == LogClose(q)
           s == UnreplacedChild(q, st)
<1>0. /\ p = Zygote /\ q.st = "idle" /\ Good(q, q.plt) /\ UNCHANGED forkFailed
  BY DEF PlainFork, HooksInv
<1>1. PICK c \in Pids : ~Live(c) /\ proc' = [proc EXCEPT ![p] = r, ![c] = s]
  BY DEF PlainFork, UnreplacedChild
<1>2. /\ Good(r, q.plt) /\ r.st = "idle" /\ r.ctx = q.ctx /\ r.sigchld = q.sigchld
      /\ r.loaded = q.loaded /\ r.unmap = q.unmap /\ r.plt = q.plt /\ Good(s, q.plt)
  <2> HIDE DEF q
  <2> QED BY <1>0, PlainGood
<1> HIDE DEF r, s
<1>3. c # Zygote
  BY <1>0, <1>1 DEF Live
<1>4. ~Entered(q) /\ ~Entered(r)
  BY <1>0, <1>2 DEF Entered
<1>5. ~forkFailed => q.loaded = {} /\ ~q.unmap /\ q.sigchld /\ q.ctx = NoCtx
  BY <1>0, <1>4 DEF HooksInv, ZygoteInv
<1> QED BY <1>0, <1>1, <1>2, <1>3, <1>4, <1>5, ZygoteStep

(* X_post and the destructor.                                              *)
LEMMA PostStep == ASSUME HooksInv, NEW p \in Pids, Post(p) PROVE HooksInv'
<1> DEFINE q == proc[p]
           zplt == proc[Zygote].plt
           x == IF q.ctx.pid > 0 \/ p = Zygote THEN "idle" ELSE "run"
           s == Posted(q, x)
<1>0. q.st = "post" /\ Good(q, zplt) /\ UNCHANGED forkFailed
  BY DEF Post, HooksInv
<1>1. proc' = [proc EXCEPT ![p] = s]
  BY DEF Post, Posted, Set
<1>2. x \in {"idle", "run"} /\ (q.ctx.pid > 0 \/ p = Zygote => x = "idle")
  OBVIOUS
<1>3. /\ Good(s, zplt) /\ s.st = x /\ s.ctx = NoCtx /\ s.sigchld
      /\ "unshare" \in s.plt => "unshare" \in q.plt
      /\ q.ctx.pid > 0 => s.loaded = q.loaded /\ s.unmap = q.unmap
  <2> HIDE DEF q, zplt, x
  <2> QED BY <1>0, <1>2, PostGood
<1> HIDE DEF s, x
<1>4. CASE p = Zygote
  <2>1. ~forkFailed => q.loaded = {} /\ ~q.unmap /\ q.ctx.pid > 0
    BY <1>0, <1>4 DEF HooksInv, ZygoteInv, Entered
  <2>2. s.st = "idle" /\ ~Entered(s)
    BY <1>2, <1>3, <1>4 DEF Entered
  <2> QED BY <1>0, <1>1, <1>3, <1>4, <2>1, <2>2, ZygoteStep
<1>5. CASE p # Zygote
  <2>1. proc[p].st # "dead"
    BY <1>0
  <2> QED BY <1>0, <1>1, <1>3, <1>5, <2>1, ChildStep
<1> QED BY <1>4, <1>5

(* new_pthread_attr_destroy.                                               *)
LEMMA UnloadStep ==
  ASSUME HooksInv, NEW p \in Pids, pthread_attr_destroy(p) PROVE HooksInv'
<1> DEFINE q == proc[p]
           zplt == proc[Zygote].plt
<1>0. /\ q.st \in {"run", "idle"} /\ Unloader \in q.plt /\ Good(q, zplt) /\ UNCHANGED forkFailed
  BY DEF pthread_attr_destroy, HooksInv
<1>1. PICK ok \in BOOLEAN :
        LET r == RestorePlt(q, ok) IN
        Set(p, [r EXCEPT !.hook = "deleted", !.mapped = ~r.unmap])
  BY DEF pthread_attr_destroy
<1> DEFINE s == Unloaded(q, ok)
<1>2. proc' = [proc EXCEPT ![p] = s]
  BY <1>1 DEF Set, Unloaded
<1>3. /\ Good(s, zplt) /\ s.st = q.st /\ s.ctx = q.ctx /\ s.sigchld = q.sigchld
      /\ s.loaded = q.loaded /\ (s.unmap => q.unmap)
      /\ "unshare" \in s.plt => "unshare" \in q.plt
  <2> HIDE DEF q, zplt
  <2> QED BY <1>0, UnloadGood
<1> HIDE DEF s
<1>4. CASE p = Zygote
  <2>1. q.st = "idle" /\ ~Entered(q) /\ ~Entered(s)
    BY <1>0, <1>3, <1>4 DEF Entered, HooksInv, ZygoteInv
  <2>2. ~forkFailed => q.loaded = {} /\ ~q.unmap /\ q.sigchld /\ q.ctx = NoCtx
    BY <1>4, <2>1 DEF HooksInv, ZygoteInv
  <2> QED BY <1>0, <1>2, <1>3, <1>4, <2>1, <2>2, ZygoteStep
<1>5. CASE p # Zygote
  <2>1. proc[p].st # "dead"
    BY <1>0
  <2> QED BY <1>0, <1>2, <1>3, <1>5, <2>1, ChildStep
<1> QED BY <1>4, <1>5

LEMMA ExitStep == ASSUME HooksInv, NEW p \in Pids, ProcExit(p) PROVE HooksInv'
<1>1. p # Zygote /\ proc[p].st # "dead" /\ proc' = [proc EXCEPT ![p] = Dead] /\ UNCHANGED forkFailed
  BY DEF ProcExit, Set
<1> QED BY <1>1, DeadGood, ChildStep

LEMMA HooksInvNext == HooksInv /\ [HooksNext]_hookVars => HooksInv'
<1>1. HooksInv /\ HooksNext => HooksInv'
  BY LoadStep, ForkStep, SpecStep, OriginalStep, PostStep, UnloadStep, ExitStep, PlainStep
  DEF HooksNext
<1>2. HooksInv /\ UNCHANGED hookVars => HooksInv'
  BY SMT DEF hookVars, HooksInv, ZygoteInv
<1> QED BY <1>1, <1>2

LEMMA HooksInductive == HooksSpec => []HooksInv
  BY HooksInvInit, HooksInvNext, PTL DEF HooksSpec

-----------------------------------------------------------------------------
(* Whatever the modules open, the descriptors of a process that enters the *)
(* original method are the zygote's own or on the list to be ignored       *)
(* (fork_pre, sanitize_fds).                                               *)
THEOREM DescriptorsClean == HooksSpec => []FdTableClean
<1>1. HooksInv => FdTableClean
  BY DEF HooksInv, Good, Clean, FdTableClean
<1> QED BY <1>1, HooksInductive, PTL

(* A process from which the library is unmapped has no hook of it left, no *)
(* module with a pointer into it and no descriptor of it open: the hooks   *)
(* are taken back first, and when that fails the library stays             *)
(* (unhook_functions, new_pthread_attr_destroy).                           *)
THEOREM UnloadIsSafe == HooksSpec => []UnloadSafe
<1>1. ASSUME HooksInv PROVE UnloadSafe
  <2> SUFFICES ASSUME NEW p \in Pids, Live(p), proc[p].hook = "deleted", ~proc[p].mapped
               PROVE  /\ proc[p].plt = {} /\ proc[p].api = {} /\ "log" \notin proc[p].fds
                      /\ \A m \in Methods : proc[p].jni[m] = "orig"
      BY DEF UnloadSafe
  <2>1. Hooked(proc[p])
    BY <1>1 DEF HooksInv, Good
  <2> QED BY <2>1 DEF Hooked, Leaving, Plain
<1> QED BY <1>1, HooksInductive, PTL

(* A process on the enforced deny list runs no module, and has the mounts  *)
(* of Magisk reverted when it gets mounts of its own, if unshare could be  *)
(* hooked (app_specialize_pre, new_unshare).                               *)
THEOREM DeniedIsClean == HooksSpec => []DeniedClean
<1>1. HooksInv => DeniedClean
  BY DEF HooksInv, Good, Clean, Reverted, DeniedClean
<1> QED BY <1>1, HooksInductive, PTL

(* The zygote stays as it was through any number of forks that succeed:    *)
(* no module in it, its hooks in place, SIGCHLD unblocked and no context   *)
(* left over between two calls (fork_pre, fork_post, ~ZygiskContext).      *)
THEOREM ZygoteStaysIntact == HooksSpec => []ZygoteIntact
<1>1. HooksInv => ZygoteIntact
  BY DEF HooksInv, ZygoteInv, Entered, ZygoteIntact
<1> QED BY <1>1, HooksInductive, PTL
=============================================================================
