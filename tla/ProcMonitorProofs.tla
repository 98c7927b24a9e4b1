------------------------- MODULE ProcMonitorProofs -------------------------
(***************************************************************************)
(* Two parts of magiskd that share no state.  The process monitor          *)
(* (ProcMonitor): for any number of processes and any reuse of process     *)
(* ids, it touches targets only, and its tables hold nothing about a       *)
(* process that it does not trace.  The database (Database): for any       *)
(* number of crashes, the two connections see one file, brought to the     *)
(* current version.                                                        *)
(***************************************************************************)
EXTENDS ProcMonitor, Database, TLAPS

Types ==
    /\ scene \in Scenes
    /\ life \in [Pids -> {"none", "zygote", "root", "uid", "pre", "named", "run"}]
    /\ kind \in [Pids -> Kinds \cup {None}]
    /\ trace \in [Pids -> {"no", "cont", "syscall"}]
    /\ stop \in [Pids -> {"none", "fork", "vfork", "sigstop", "syscall", "signal", "exit",
                          "exiting", "gone"}]
    /\ mon \in [at : {"wait", "stop", "fork", "ended"}, pid : Pids \cup {None}]
    /\ ready \subseteq Pids /\ checked \subseteq Pids /\ allowed \subseteq Pids
    /\ frozen \subseteq Pids /\ helper \subseteq Pids /\ changed \subseteq Pids

Exists(p) == life[p] # "none"

\* What is reported of a process: its end, or a stop of one that exists.
Reports ==
    \A p \in Pids : /\ p \in ready => Exists(p)
                    /\ ~Exists(p) /\ Traced(p) => stop[p] = "gone"
                    /\ stop[p] \notin {"none", "gone"} => Exists(p)

\* With SuList, isolated processes are let go before they are checked.
CheckedRightly == \A p \in checked : Exists(p) /\ kind[p] = "isolated" => ~sulist

\* The process that check_pid stops, and those that wait for a helper, are targets
\* for as long as they exist: their ids are not used again meanwhile.
StoppedRightly ==
    /\ mon.at \in {"stop", "fork"} => mon.pid \in Pids /\ (Exists(mon.pid) => Wanted(mon.pid))
    /\ \A p \in helper : Exists(p) => Wanted(p)
    /\ \A p \in frozen \cup changed : Exists(p) /\ Wanted(p)

IInv == Types /\ Reports /\ TablesFresh /\ CheckedRightly /\ StoppedRightly
-----------------------------------------------------------------------------
LEMMA InitHolds == Init => IInv
  BY MonitorAssumption DEF Init, IInv, Types, Reports, TablesFresh, CheckedRightly,
     StoppedRightly, Exists, Traced, Kinds

\* What Android does.
LEMMA AndroidPreserves ==
    ASSUME IInv, NEW p \in Pids, NEW z \in Pids, NEW k \in Kinds,
           \/ ZygoteStarts(p) \/ ZygoteIsReady(p) \/ Fork(z, p, k) \/ Advance(p)
           \/ Signal(p) \/ ExitEvent(p) \/ Exit(p)
    PROVE  IInv'
<1> USE DEF IInv, Types, Reports, TablesFresh, CheckedRightly, StoppedRightly, Exists,
            Traced, Wanted, DenyTarget, OwnNs, procs, tracing, tables, mounts, signals
<1>1. CASE ZygoteStarts(p)  BY <1>1 DEF ZygoteStarts, Free
<1>2. CASE ZygoteIsReady(p)  BY <1>2 DEF ZygoteIsReady
<1>3. CASE Fork(z, p, k)  BY <1>3 DEF Fork, Free
<1>4. CASE Advance(p)  BY <1>4 DEF Advance
<1>5. CASE Signal(p)  BY <1>5 DEF Signal
<1>6. CASE ExitEvent(p)  BY <1>6 DEF ExitEvent
<1>7. CASE Exit(p)  BY <1>7 DEF Exit
<1> QED  BY <1>1, <1>2, <1>3, <1>4, <1>5, <1>6, <1>7

\* What the loop and the helpers do with one process.
LEMMA MonitorPreserves ==
    ASSUME IInv, NEW p \in Pids,
           \/ OnGone(p) \/ OnFork(p) \/ OnOther(p) \/ OnSigstop(p) \/ OnSyscallGoesOn(p)
           \/ OnSyscallLetGo(p) \/ OnSyscallHit(p) \/ HelperRuns(p)
    PROVE  IInv'
<1> USE DEF IInv, Types, Reports, TablesFresh, CheckedRightly, StoppedRightly, Exists,
            Traced, Wanted, DenyTarget, OwnNs, procs, tracing, tables, mounts, signals
<1>1. CASE OnGone(p)  BY <1>1 DEF OnGone, Detach, Forgotten
<1>2. CASE OnFork(p)  BY <1>2 DEF OnFork, Resume
<1>3. CASE OnOther(p)  BY <1>3 DEF OnOther
<1>4. CASE OnSigstop(p)  BY <1>4 DEF OnSigstop, Resume
<1>5. CASE OnSyscallGoesOn(p)  BY <1>5 DEF OnSyscallGoesOn, Resume, Ignored
<1>6. CASE OnSyscallLetGo(p)  BY <1>6 DEF OnSyscallLetGo, Detach, Forgotten
<1>7. CASE OnSyscallHit(p)
      BY <1>7 DEF OnSyscallHit, Detach, Forgotten, Hit, Ignored
<1>8. CASE HelperRuns(p)  BY <1>8 DEF HelperRuns
<1> QED  BY <1>1, <1>2, <1>3, <1>4, <1>5, <1>6, <1>7, <1>8

\* The rest of check_pid, the signal handlers, and the files they watch.
LEMMA HandlersPreserve ==
    ASSUME IInv, SendStop \/ ForkHelper \/ Alarm \/ Inotify \/ Term \/ FileEvent
    PROVE  IInv'
<1> USE DEF IInv, Types, Reports, TablesFresh, CheckedRightly, StoppedRightly, Exists,
            Traced, Wanted, DenyTarget, OwnNs, procs, tracing, tables, mounts, signals
<1>1. CASE SendStop  BY <1>1 DEF SendStop
<1>2. CASE ForkHelper  BY <1>2 DEF ForkHelper
<1>3. ASSUME CheckZygote \/ UNCHANGED <<zygote_map, trace, timer>>,
             UNCHANGED <<scene, sulist, procs, stop, checked, allowed, mon, mounts>>
      PROVE  IInv'
  <2>1. CASE UNCHANGED trace  BY <1>3, <2>1
  <2>2. CASE NewZygotes  BY <1>3, <2>2 DEF NewZygotes
  <2> QED  BY <1>3, <2>1, <2>2 DEF CheckZygote
<1>4. CASE Alarm  BY <1>4, <1>3 DEF Alarm
<1>5. CASE Inotify  BY <1>5, <1>3 DEF Inotify
<1>6. CASE Term  BY <1>6 DEF Term
<1>7. CASE FileEvent  BY <1>7 DEF FileEvent
<1> QED  BY <1>1, <1>2, <1>4, <1>5, <1>6, <1>7

LEMMA NextPreserves == IInv /\ [Next]_vars => IInv'
<1> SUFFICES ASSUME IInv, [Next]_vars PROVE IInv'
    OBVIOUS
<1>1. CASE Next
  <2>1. CASE Working
    BY <2>1, AndroidPreserves, MonitorPreserves, HandlersPreserve DEF Working, Monitor, Kinds
  <2>2. CASE \E z, p \in Pids, k \in scene.kinds : Fork(z, p, k)
    <3>1. scene.kinds \subseteq Kinds  BY MonitorAssumption DEF IInv, Types
    <3> QED  BY <2>2, <3>1, AndroidPreserves
  <2>3. CASE \E p \in Pids : ZygoteStarts(p) \/ ZygoteIsReady(p) \/ Signal(p)
                              \/ ExitEvent(p) \/ Exit(p)
    BY <2>3, AndroidPreserves DEF Kinds
  <2> QED  BY <1>1, <2>1, <2>2, <2>3, HandlersPreserve DEF Next
<1>2. CASE UNCHANGED vars
  BY <1>2 DEF vars, IInv, Types, Reports, TablesFresh, CheckedRightly, StoppedRightly,
     Exists, Traced, Wanted, DenyTarget, OwnNs, procs, tracing, tables, mounts, signals
<1> QED  BY <1>1, <1>2

THEOREM Inductive == Spec => []IInv
  BY InitHolds, NextPreserves, PTL DEF Spec
-----------------------------------------------------------------------------
\* Only targets are ever stopped or have their mounts changed, however often their
\* process ids were used before (check_pid, detach_pid).
THEOREM TargetsOnly == Spec => []OnlyTargets
<1>1. IInv => OnlyTargets  BY DEF IInv, StoppedRightly, OnlyTargets
<1> QED  BY <1>1, Inductive, PTL

\* The sets checked and allowed hold traced processes only (detach_pid).
THEOREM TablesCorrect == Spec => []TablesFresh
<1>1. IInv => TablesFresh  BY DEF IInv
<1> QED  BY <1>1, Inductive, PTL
-----------------------------------------------------------------------------
(* Database: whichever connection comes first, and wherever the daemon dies, *)
(* a database is upgraded by statements that do not disturb each other.      *)

\* Most leaves are first-order; the others cite SMT.
USE Zenon

Core == {"policies", "settings", "strings", "denylist"}
Hide7 == <<"hide7", "hidelist">>
Hide8 == <<"hide8", "hidelist">>
Rebuild == <<"rebuild", "policies">>
SetVersion == <<"version", "">>
Last == <<"last", "">>
Stmts == {<<"create", t>> : t \in Tables}
         \cup {Hide7, Hide8, <<"drop", "logs">>, <<"forget", "settings">>, Rebuild, SetVersion, Last}

DbFile == [ver : Nat, grants : BOOLEAN, hidden : BOOLEAN, shape : [Tables -> 0..2]]
Connection == [pc : {"closed", "version", "run", "open"}, file : {0, 1}, todo : Seq(Stmts),
               lock : BOOLEAN, tries : Nat]

\* The versions that an upgrade starts from.
Upgradable == {0} \cup 7..DB_VERSION

(* The file.  Its version is the one it was found at or the current one; in *)
(* between it may be anywhere in an upgrade, so what is known of a table is *)
(* a lower bound.  The version is written when the rest is done.            *)
Sound(f) ==
  /\ f \in DbFile /\ f.ver \in {start, DB_VERSION}
  /\ \A t \in Tables : f.shape[t] = 1 =>
       (t = "policies" /\ start \in 7..11) \/ (t = "hidelist" /\ start = 7)
  /\ start >= 7 => f.shape["settings"] = 2 /\ f.shape["strings"] = 2
  /\ start >= 11 => f.shape["denylist"] = 2
  /\ start = 12 => f.shape["policies"] = 2
  /\ f.ver = DB_VERSION => (\A t \in Core : f.shape[t] = 2) /\ f.shape["hidelist"] # 1
  /\ start > 0 => f.grants

Includes(s, x) == \E i \in 1..Len(s) : s[i] = x
At(s, x, n) == \A i \in 1..Len(s) : s[i] = x => i = n

(* What connection c has still to run brings the file f up to date, and     *)
(* the statement that sets the version comes after all that do so.          *)
Repairs(s, t, f) == \/ Includes(s, <<"create", t>>) /\ f.shape[t] # 1
                    \/ Includes(s, <<"rebuild", t>>)

Planned(c, s, f) ==
  /\ s \in Seq(Stmts) /\ s # <<>>
  /\ \A t \in Core : f.shape[t] = 2 \/ Repairs(s, t, f)
  /\ f.shape["hidelist"] = 1 => Includes(s, Hide7) \/ Includes(s, Hide8)
  /\ f.ver = DB_VERSION \/ Includes(s, SetVersion)
  /\ At(s, SetVersion, IF c = "cpp" THEN Len(s) - 1 ELSE Len(s))
  /\ c = "cpp" => s[Len(s)] = Last /\ At(s, Last, Len(s)) /\ ~Includes(s, Hide7)
  /\ c = "rust" => ~Includes(s, Last) /\ At(s, Hide7, 1)

Usable(c, f) ==
  /\ f.ver = DB_VERSION
  /\ c = "cpp" => f.shape["hidelist"] = 2 /\ f.shape["sulist"] = 2

Linked(c, r, f) ==
  /\ r \in Connection
  /\ r.pc # "closed" => r.file = 1
  /\ r.pc = "run" => Planned(c, r.todo, f)
  /\ r.pc = "open" => Usable(c, f)

(* The names of the hide list: the one statement that can lose them, run a  *)
(* second time after a crash, is not run twice otherwise.                   *)
Unhidden(r, f) ==
  /\ f.hidden
  /\ r.pc \in {"closed", "version"} /\ f.ver = 7 => f.shape["hidelist"] = 1
  /\ r.pc = "run" /\ Includes(r.todo, Hide7) => f.shape["hidelist"] = 1

Upgrading ==
  /\ files \in Seq(DbFile) /\ path = Len(files) /\ path \in {0, 1}
  /\ start > 0 => path = 1
  /\ DOMAIN conn = Conns
  /\ path = 0 => \A c \in Conns : conn[c] \in Connection /\ conn[c].pc = "closed"
  /\ path = 1 => Sound(files[1]) /\ \A c \in Conns : Linked(c, conn[c], files[1])
  /\ start > 0 /\ crashes = 0 => Unhidden(conn["rust"], files[1])

DbInv ==
  /\ start \in Versions /\ crashes \in Nat
  /\ ~dbFailed /\ start <= DB_VERSION => Upgrading

(* Sequences of statements.                                                *)
LEMMA LengthIsNat == \A s \in Seq(Stmts) : Len(s) \in Nat
  BY SMT

LEMMA EitherPart ==
  ASSUME NEW s \in Seq(Stmts), NEW t \in Seq(Stmts), NEW i \in 1..Len(s \o t)
  PROVE  \/ i \in 1..Len(s) /\ (s \o t)[i] = s[i]
         \/ \E j \in 1..Len(t) : i = Len(s) + j /\ (s \o t)[i] = t[j]
<1>1. Len(s \o t) = Len(s) + Len(t) /\ Len(s) \in Nat /\ Len(t) \in Nat
  BY SMT
<1>2. i \in 1..Len(s) => (s \o t)[i] = s[i]
  BY SMT
<1>3. \A j \in 1..Len(t) : (s \o t)[Len(s) + j] = t[j]
  BY SMT
<1>4. i \notin 1..Len(s) => i - Len(s) \in 1..Len(t) /\ i = Len(s) + (i - Len(s))
  BY SMT, <1>1
<1> QED BY <1>2, <1>3, <1>4

LEMMA Concatenated ==
  ASSUME NEW s \in Seq(Stmts), NEW t \in Seq(Stmts)
  PROVE  /\ s \o t \in Seq(Stmts) /\ Len(s \o t) = Len(s) + Len(t)
         /\ \A x : Includes(s \o t, x) <=> Includes(s, x) \/ Includes(t, x)
<1>1. s \o t \in Seq(Stmts) /\ Len(s \o t) = Len(s) + Len(t) /\ Len(s) \in Nat /\ Len(t) \in Nat
  BY SMT
<1>2. \A i \in 1..Len(s) : (s \o t)[i] = s[i]
  BY SMT
<1>3. \A i \in 1..Len(t) : (s \o t)[Len(s) + i] = t[i]
  BY SMT
<1>4. ASSUME NEW x PROVE Includes(s \o t, x) <=> Includes(s, x) \/ Includes(t, x)
  <2>1. \A i \in 1..Len(s \o t) : \/ i \in 1..Len(s) /\ (s \o t)[i] = s[i]
                                  \/ \E j \in 1..Len(t) : i = Len(s) + j /\ (s \o t)[i] = t[j]
    BY EitherPart
  <2>2. Includes(s \o t, x) => Includes(s, x) \/ Includes(t, x)
    BY <2>1 DEF Includes
  <2>3. Includes(s, x) => Includes(s \o t, x)
    BY SMT, <1>1, <1>2 DEF Includes
  <2>4. \A i \in 1..Len(t) : Len(s) + i \in 1..Len(s \o t)
    BY SMT, <1>1
  <2>5. Includes(t, x) => Includes(s \o t, x)
    BY <2>4, <1>3 DEF Includes
  <2> QED BY <2>2, <2>3, <2>5
<1> QED BY <1>1, <1>4

LEMMA ConcatenatedAt ==
  ASSUME NEW s \in Seq(Stmts), NEW t \in Seq(Stmts), NEW x, NEW n \in Nat
  PROVE  /\ At(s, x, n) /\ ~Includes(t, x) => At(s \o t, x, n)
         /\ At(t, x, n) /\ ~Includes(s, x) => At(s \o t, x, Len(s) + n)
<1>1. \A i \in 1..Len(s \o t) : \/ i \in 1..Len(s) /\ (s \o t)[i] = s[i]
                                \/ \E j \in 1..Len(t) : i = Len(s) + j /\ (s \o t)[i] = t[j]
  BY EitherPart
<1>2. At(s, x, n) /\ ~Includes(t, x) => At(s \o t, x, n)
  BY <1>1 DEF At, Includes
<1>3. At(t, x, n) /\ ~Includes(s, x) => At(s \o t, x, Len(s) + n)
  BY <1>1 DEF At, Includes
<1> QED BY <1>2, <1>3

LEMMA OneStatement ==
  ASSUME NEW x \in Stmts
  PROVE  /\ <<x>> \in Seq(Stmts) /\ Len(<<x>>) = 1 /\ <<x>>[1] = x
         /\ \A y : Includes(<<x>>, y) <=> y = x
  BY SMT DEF Includes

LEMMA LastStatement ==
  ASSUME NEW s \in Seq(Stmts), NEW x \in Stmts PROVE (s \o <<x>>)[Len(s) + 1] = x
  BY SMT

LEMMA NoStatement ==
  /\ <<>> \in Seq(Stmts) /\ Len(<<>>) = 0
  /\ \A y : ~Includes(<<>>, y)
  BY SMT DEF Includes

\* The first statement and the others.
LEMMA FirstAndRest ==
  ASSUME NEW s \in Seq(Stmts), s # <<>>
  PROVE  /\ Tail(s) \in Seq(Stmts) /\ Len(Tail(s)) = Len(s) - 1 /\ Len(s) \in Nat \ {0}
         /\ Head(s) \in Stmts /\ Head(s) = s[1]
         /\ \A i \in 1..Len(Tail(s)) : i + 1 \in 1..Len(s) /\ Tail(s)[i] = s[i + 1]
         /\ \A x : Includes(s, x) => x = Head(s) \/ Includes(Tail(s), x)
         /\ \A x : Includes(Tail(s), x) => Includes(s, x)
<1>1. Tail(s) \in Seq(Stmts) /\ Len(Tail(s)) = Len(s) - 1 /\ Len(s) \in Nat \ {0}
  BY SMT
<1>2. Head(s) \in Stmts /\ Head(s) = s[1]
  BY SMT
<1>3. \A i \in 1..Len(Tail(s)) : i + 1 \in 1..Len(s) /\ Tail(s)[i] = s[i + 1]
  BY SMT
<1>4. ASSUME NEW x, Includes(s, x), x # Head(s) PROVE Includes(Tail(s), x)
  <2>1. PICK i \in 1..Len(s) : s[i] = x
    BY <1>4 DEF Includes
  <2>2. i - 1 \in 1..Len(Tail(s)) /\ (i - 1) + 1 = i
    BY SMT, <2>1, <1>4, <1>2, <1>1
  <2> QED BY <2>1, <2>2, <1>3 DEF Includes
<1>5. \A x : Includes(Tail(s), x) => Includes(s, x)
  BY <1>3 DEF Includes
<1> QED BY <1>1, <1>2, <1>3, <1>4, <1>5

\* CREATE TABLE statements for the tables ts.
LEMMA Created ==
  ASSUME NEW ts \in Seq(Tables)
  PROVE  /\ Creates(ts) \in Seq(Stmts) /\ Len(Creates(ts)) = Len(ts)
         /\ \A i \in 1..Len(ts) : Creates(ts)[i] = <<"create", ts[i]>>
<1>1. Len(ts) \in Nat /\ \A i \in 1..Len(ts) : ts[i] \in Tables
  BY SMT
<1>2. \A i \in 1..Len(ts) : <<"create", ts[i]>> \in Stmts
  BY <1>1 DEF Stmts
<1>3. [i \in 1..Len(ts) |-> <<"create", ts[i]>>] \in Seq(Stmts)
  BY SMT, <1>1, <1>2
<1>4. Len(Creates(ts)) = Len(ts)
  BY SMT, <1>1 DEF Creates
<1> QED BY <1>3, <1>4 DEF Creates

LEMMA StmtKinds ==
  /\ Hide7 \in Stmts /\ Hide8 \in Stmts /\ Rebuild \in Stmts /\ SetVersion \in Stmts
  /\ Last \in Stmts /\ <<"drop", "logs">> \in Stmts /\ <<"forget", "settings">> \in Stmts
  /\ \A t \in Tables : <<"create", t>> \in Stmts
  BY DEF Stmts

\* The statements of the upgrade from version v.
InRust(v, x) ==
  \/ v = 0 /\ x \in {<<"create", t>> : t \in Tables \ {"logs"}}
  \/ v = 7 /\ x = Hide7
  \/ v = 8 /\ x = Hide8
  \/ v \in 7..9 /\ x = <<"drop", "logs">>
  \/ v \in 7..10 /\ x = <<"forget", "settings">>
  \/ v \in 7..10 /\ x \in {<<"create", t>> : t \in {"denylist", "hidelist", "sulist"}}
  \/ v \in 7..11 /\ x = Rebuild
  \/ v < DB_VERSION /\ x = SetVersion

(* The upgrade of sqlite.cpp, by the statements it holds and the places of *)
(* the two whose place matters.                                            *)
LEMMA RustUpgrade ==
  ASSUME NEW v \in Upgradable
  PROVE  /\ UpgradeRust(v) \in Seq(Stmts)
         /\ \A x : Includes(UpgradeRust(v), x) <=> InRust(v, x)
         /\ At(UpgradeRust(v), SetVersion, Len(UpgradeRust(v)))
         /\ At(UpgradeRust(v), Hide7, 1)
         /\ v = DB_VERSION <=> UpgradeRust(v) = <<>>
<1> DEFINE all == Creates(<<"policies", "settings", "strings", "denylist", "hidelist", "sulist">>)
           a == IF v = 7 THEN <<Hide7>> ELSE <<>>
           b == IF v = 8 THEN <<Hide8>> ELSE <<>>
           c == IF v <= 9 THEN << <<"drop", "logs">> >> ELSE <<>>
           three == Creates(<<"denylist", "hidelist", "sulist">>)
           d == IF v <= 10 THEN << <<"forget", "settings">> >> \o three ELSE <<>>
           e == IF v <= 11 THEN <<Rebuild>> ELSE <<>>
           body == IF v <= 6 THEN all ELSE a \o b \o c \o d \o e
           end == IF v < DB_VERSION THEN <<SetVersion>> ELSE <<>>
<1>1. /\ all \in Seq(Stmts)
      /\ \A x : Includes(all, x) <=> x \in {<<"create", t>> : t \in Tables \ {"logs"}}
  <2> DEFINE ts == <<"policies", "settings", "strings", "denylist", "hidelist", "sulist">>
  <2>1. ts \in Seq(Tables) /\ Len(ts) = 6
    BY SMT DEF Tables
  <2>2. all \in Seq(Stmts) /\ Len(all) = 6
    BY <2>1, Created
  <2>3. \A i \in 1..6 : all[i] = <<"create", ts[i]>>
    BY <2>1, Created
  <2>4. /\ all[1] = <<"create", "policies">> /\ all[2] = <<"create", "settings">>
        /\ all[3] = <<"create", "strings">> /\ all[4] = <<"create", "denylist">>
        /\ all[5] = <<"create", "hidelist">> /\ all[6] = <<"create", "sulist">>
    <3> HIDE DEF all
    <3> QED BY SMT, <2>3
  <2> HIDE DEF all
  <2>5. 1..6 = {1, 2, 3, 4, 5, 6}
    BY SMT
  <2>6. \A x : Includes(all, x) <=> x \in {all[1], all[2], all[3], all[4], all[5], all[6]}
    BY <2>2, <2>5 DEF Includes
  <2> QED BY <2>2, <2>4, <2>6 DEF Tables
<1>2. /\ three \in Seq(Stmts)
      /\ \A x : Includes(three, x) <=> x \in {<<"create", t>> : t \in {"denylist", "hidelist", "sulist"}}
  <2> DEFINE ts == <<"denylist", "hidelist", "sulist">>
  <2>1. ts \in Seq(Tables) /\ Len(ts) = 3
    BY SMT DEF Tables
  <2>2. three \in Seq(Stmts) /\ Len(three) = 3
    BY <2>1, Created
  <2>3. \A i \in 1..3 : three[i] = <<"create", ts[i]>>
    BY <2>1, Created
  <2>4. /\ three[1] = <<"create", "denylist">> /\ three[2] = <<"create", "hidelist">>
        /\ three[3] = <<"create", "sulist">>
    <3> HIDE DEF three
    <3> QED BY SMT, <2>3
  <2> HIDE DEF three
  <2>5. 1..3 = {1, 2, 3}
    BY SMT
  <2>6. \A x : Includes(three, x) <=> x \in {three[1], three[2], three[3]}
    BY <2>2, <2>5 DEF Includes
  <2> QED BY <2>2, <2>4, <2>6
<1>3. a \in Seq(Stmts) /\ \A x : Includes(a, x) <=> v = 7 /\ x = Hide7
  <2>1. CASE v = 7
    <3>1. a = <<Hide7>>
      BY <2>1
    <3> HIDE DEF a
    <3> QED BY <2>1, <3>1, OneStatement, StmtKinds
  <2>2. CASE v # 7
    BY <2>2, NoStatement
  <2> QED BY <2>1, <2>2
<1>4. b \in Seq(Stmts) /\ \A x : Includes(b, x) <=> v = 8 /\ x = Hide8
  <2>1. CASE v = 8
    <3>1. b = <<Hide8>>
      BY <2>1
    <3> HIDE DEF b
    <3> QED BY <2>1, <3>1, OneStatement, StmtKinds
  <2>2. CASE v # 8
    BY <2>2, NoStatement
  <2> QED BY <2>1, <2>2
<1>5. c \in Seq(Stmts) /\ \A x : Includes(c, x) <=> v <= 9 /\ x = <<"drop", "logs">>
  BY OneStatement, NoStatement, StmtKinds
<1>6. /\ d \in Seq(Stmts)
      /\ \A x : Includes(d, x) <=> v <= 10 /\ (x = <<"forget", "settings">> \/ Includes(three, x))
  <2> HIDE DEF three
  <2>1. << <<"forget", "settings">> >> \in Seq(Stmts)
    BY OneStatement, StmtKinds
  <2>2. \A x : Includes(<< <<"forget", "settings">> >>, x) <=> x = <<"forget", "settings">>
    BY OneStatement, StmtKinds
  <2>3. << <<"forget", "settings">> >> \o three \in Seq(Stmts)
    BY <1>2, <2>1, Concatenated
  <2>4. \A x : Includes(<< <<"forget", "settings">> >> \o three, x)
               <=> x = <<"forget", "settings">> \/ Includes(three, x)
    BY <1>2, <2>1, <2>2, Concatenated
  <2> QED BY <2>3, <2>4, NoStatement
<1>7. e \in Seq(Stmts) /\ \A x : Includes(e, x) <=> v <= 11 /\ x = Rebuild
  BY OneStatement, NoStatement, StmtKinds
<1>8. end \in Seq(Stmts) /\ \A x : Includes(end, x) <=> v < DB_VERSION /\ x = SetVersion
  BY OneStatement, NoStatement, StmtKinds
<1>9. UpgradeRust(v) = body \o end
  BY DEF UpgradeRust, Hide7, Hide8, Rebuild, SetVersion
<1> HIDE DEF all, a, b, c, three, d, e, end
<1>10. /\ body \in Seq(Stmts)
       /\ v <= 6 => body = all
       /\ ~(v <= 6) => \A x : Includes(body, x) <=>
            Includes(a, x) \/ Includes(b, x) \/ Includes(c, x) \/ Includes(d, x) \/ Includes(e, x)
       /\ ~(v <= 6) => At(body, Hide7, 1)
  <2>1. /\ a \o b \in Seq(Stmts)
        /\ \A x : Includes(a \o b, x) <=> Includes(a, x) \/ Includes(b, x)
    BY <1>3, <1>4, Concatenated
  <2>2. /\ a \o b \o c \in Seq(Stmts)
        /\ \A x : Includes(a \o b \o c, x) <=> Includes(a \o b, x) \/ Includes(c, x)
    BY <2>1, <1>5, Concatenated
  <2>3. /\ a \o b \o c \o d \in Seq(Stmts)
        /\ \A x : Includes(a \o b \o c \o d, x) <=> Includes(a \o b \o c, x) \/ Includes(d, x)
    BY <2>2, <1>6, Concatenated
  <2>4. /\ a \o b \o c \o d \o e \in Seq(Stmts)
        /\ \A x : Includes(a \o b \o c \o d \o e, x) <=> Includes(a \o b \o c \o d, x) \/ Includes(e, x)
    BY <2>3, <1>7, Concatenated
  <2>5. At(a \o b \o c \o d \o e, Hide7, 1)
    <3>1. /\ Hide7 # Hide8 /\ Hide7 # <<"drop", "logs">> /\ Hide7 # <<"forget", "settings">>
          /\ Hide7 # Rebuild /\ \A t : Hide7 # <<"create", t>>
      BY SMT DEF Hide7, Hide8, Rebuild
    <3>2. ~Includes(b, Hide7) /\ ~Includes(c, Hide7) /\ ~Includes(d, Hide7) /\ ~Includes(e, Hide7)
      BY <3>1, <1>2, <1>4, <1>5, <1>6, <1>7
    <3>3. At(a, Hide7, 1)
      BY SMT DEF a, At
    <3>4. At(a \o b, Hide7, 1)
      BY <3>2, <3>3, <1>3, <1>4, ConcatenatedAt
    <3>5. At(a \o b \o c, Hide7, 1)
      BY <3>2, <3>4, <2>1, <1>5, ConcatenatedAt
    <3>6. At(a \o b \o c \o d, Hide7, 1)
      BY <3>2, <3>5, <2>2, <1>6, ConcatenatedAt
    <3> QED BY <3>2, <3>6, <2>3, <1>7, ConcatenatedAt
  <2> QED BY <1>1, <2>1, <2>2, <2>3, <2>4, <2>5
<1> HIDE DEF body
<1>11. /\ UpgradeRust(v) \in Seq(Stmts)
       /\ \A x : Includes(UpgradeRust(v), x) <=> Includes(body, x) \/ Includes(end, x)
       /\ Len(UpgradeRust(v)) = Len(body) + Len(end)
  <2>1. /\ body \o end \in Seq(Stmts)
        /\ \A x : Includes(body \o end, x) <=> Includes(body, x) \/ Includes(end, x)
        /\ Len(body \o end) = Len(body) + Len(end)
    BY <1>8, <1>10, Concatenated
  <2> QED BY <2>1, <1>9
<1>12. \A x : Includes(body, x) <=>
         \/ v = 0 /\ x \in {<<"create", t>> : t \in Tables \ {"logs"}}
         \/ v = 7 /\ x = Hide7
         \/ v = 8 /\ x = Hide8
         \/ v \in 7..9 /\ x = <<"drop", "logs">>
         \/ v \in 7..10 /\ x = <<"forget", "settings">>
         \/ v \in 7..10 /\ x \in {<<"create", t>> : t \in {"denylist", "hidelist", "sulist"}}
         \/ v \in 7..11 /\ x = Rebuild
  <2>1. CASE v = 0
    <3>1. v <= 6 /\ v # 7 /\ v # 8 /\ v \notin 7..9 /\ v \notin 7..10 /\ v \notin 7..11
      BY SMT, <2>1
    <3> QED BY <2>1, <3>1, <1>1, <1>10
  <2>2. CASE v \in 7..DB_VERSION
    <3>1. /\ v # 0 /\ ~(v <= 6) /\ (v <= 9 <=> v \in 7..9) /\ (v <= 10 <=> v \in 7..10)
          /\ (v <= 11 <=> v \in 7..11)
      BY SMT, <2>2 DEF DB_VERSION
    <3> QED BY <3>1, <1>2, <1>3, <1>4, <1>5, <1>6, <1>7, <1>10
  <2> QED BY <2>1, <2>2 DEF Upgradable
<1>13. /\ SetVersion # Hide7 /\ SetVersion # Hide8 /\ SetVersion # <<"drop", "logs">>
       /\ SetVersion # <<"forget", "settings">> /\ SetVersion # Rebuild
       /\ \A t : SetVersion # <<"create", t>> /\ Hide7 # <<"create", t>>
  BY SMT DEF SetVersion, Hide7, Hide8, Rebuild
<1>14. ~Includes(body, SetVersion)
  BY <1>12, <1>13
<1>15. At(UpgradeRust(v), SetVersion, Len(UpgradeRust(v)))
  <2>1. Len(end) \in Nat /\ At(end, SetVersion, Len(end))
    BY SMT DEF end, At
  <2>2. At(body \o end, SetVersion, Len(body) + Len(end))
    BY <2>1, <1>8, <1>10, <1>14, ConcatenatedAt
  <2> QED BY <2>2, <1>9, <1>11
<1>16. At(UpgradeRust(v), Hide7, 1)
  <2>1. ~Includes(end, Hide7)
    BY <1>8, <1>13
  <2>2. At(body, Hide7, 1)
    <3>1. CASE v <= 6
      <4>1. ~Includes(body, Hide7)
        BY <3>1, <1>1, <1>10, <1>13
      <4> QED BY <4>1 DEF At, Includes
    <3> QED BY <3>1, <1>10
  <2>3. At(body \o end, Hide7, 1)
    BY <2>1, <2>2, <1>8, <1>10, ConcatenatedAt
  <2> QED BY <2>3, <1>9
<1>17. v = DB_VERSION <=> UpgradeRust(v) = <<>>
  <2>1. UpgradeRust(DB_VERSION) = <<>>
    BY SMT DEF UpgradeRust, DB_VERSION
  <2>2. v # DB_VERSION => v < DB_VERSION
    BY SMT DEF Upgradable, DB_VERSION
  <2> QED BY <2>1, <2>2, <1>8, <1>11, NoStatement
<1>18. \A x : Includes(end, x) <=> v < DB_VERSION /\ x = SetVersion
  BY <1>8
<1> QED BY <1>11, <1>12, <1>15, <1>16, <1>17, <1>18 DEF InRust

\* The statements of the upgrade from version v.
InCpp(v, x) ==
  \/ v = 0 /\ x \in {<<"create", t>> : t \in Core}
  \/ v \in {7, 8} /\ x = Hide8
  \/ v \in 7..9 /\ x = <<"drop", "logs">>
  \/ v \in 7..10 /\ x = <<"create", "denylist">>
  \/ v \in 7..11 /\ x = Rebuild
  \/ v < DB_VERSION /\ x = SetVersion
  \/ x = Last

(* The upgrade of db.cpp: the statement with the lists of this fork comes  *)
(* last, after the version.                                                *)
LEMMA CppUpgrade ==
  ASSUME NEW v \in Upgradable
  PROVE  /\ UpgradeCpp(v) \in Seq(Stmts)
         /\ \A x : Includes(UpgradeCpp(v), x) <=> InCpp(v, x)
         /\ At(UpgradeCpp(v), SetVersion, Len(UpgradeCpp(v)) - 1)
         /\ At(UpgradeCpp(v), Last, Len(UpgradeCpp(v)))
         /\ UpgradeCpp(v)[Len(UpgradeCpp(v))] = Last
<1> DEFINE four == Creates(<<"policies", "settings", "strings", "denylist">>)
           a == IF v \in {7, 8} THEN <<Hide8>> ELSE <<>>
           b == IF v <= 9 THEN << <<"drop", "logs">> >> ELSE <<>>
           deny == Creates(<<"denylist">>)
           c == IF v <= 10 THEN deny ELSE <<>>
           d == IF v <= 11 THEN <<Rebuild>> ELSE <<>>
           body == IF v <= 6 THEN four ELSE a \o b \o c \o d
           end == IF v < DB_VERSION THEN <<SetVersion>> ELSE <<>>
<1>1. /\ four \in Seq(Stmts)
      /\ \A x : Includes(four, x) <=> x \in {<<"create", t>> : t \in Core}
  <2> DEFINE ts == <<"policies", "settings", "strings", "denylist">>
  <2>1. ts \in Seq(Tables) /\ Len(ts) = 4
    BY SMT DEF Tables
  <2>2. four \in Seq(Stmts) /\ Len(four) = 4
    BY <2>1, Created
  <2>3. \A i \in 1..4 : four[i] = <<"create", ts[i]>>
    BY <2>1, Created
  <2> HIDE DEF four
  <2>4. /\ four[1] = <<"create", "policies">> /\ four[2] = <<"create", "settings">>
        /\ four[3] = <<"create", "strings">> /\ four[4] = <<"create", "denylist">>
    BY SMT, <2>3
  <2>5. 1..4 = {1, 2, 3, 4}
    BY SMT
  <2>6. \A x : Includes(four, x) <=> x \in {four[1], four[2], four[3], four[4]}
    BY <2>2, <2>5 DEF Includes
  <2> QED BY <2>2, <2>4, <2>6 DEF Core
<1>2. deny \in Seq(Stmts) /\ \A x : Includes(deny, x) <=> x = <<"create", "denylist">>
  <2> DEFINE ts == <<"denylist">>
  <2>1. ts \in Seq(Tables) /\ Len(ts) = 1
    BY SMT DEF Tables
  <2>2. deny \in Seq(Stmts) /\ Len(deny) = 1
    BY <2>1, Created
  <2>3. \A i \in 1..1 : deny[i] = <<"create", ts[i]>>
    BY <2>1, Created
  <2> HIDE DEF deny
  <2>4. deny[1] = <<"create", "denylist">>
    BY SMT, <2>3
  <2>5. 1..1 = {1}
    BY SMT
  <2> QED BY <2>2, <2>4, <2>5 DEF Includes
<1>3. a \in Seq(Stmts) /\ \A x : Includes(a, x) <=> v \in {7, 8} /\ x = Hide8
  <2>1. CASE v \in {7, 8}
    <3>1. a = <<Hide8>>
      BY <2>1
    <3> HIDE DEF a
    <3> QED BY ZenonT(30), <2>1, <3>1, OneStatement, StmtKinds
  <2>2. CASE v \notin {7, 8}
    BY <2>2, NoStatement
  <2> QED BY <2>1, <2>2
<1>4. b \in Seq(Stmts) /\ \A x : Includes(b, x) <=> v <= 9 /\ x = <<"drop", "logs">>
  BY OneStatement, NoStatement, StmtKinds
<1>5. c \in Seq(Stmts) /\ \A x : Includes(c, x) <=> v <= 10 /\ x = <<"create", "denylist">>
  <2> HIDE DEF deny
  <2> QED BY <1>2, NoStatement
<1>6. d \in Seq(Stmts) /\ \A x : Includes(d, x) <=> v <= 11 /\ x = Rebuild
  BY OneStatement, NoStatement, StmtKinds
<1>7. end \in Seq(Stmts) /\ \A x : Includes(end, x) <=> v < DB_VERSION /\ x = SetVersion
  BY OneStatement, NoStatement, StmtKinds
<1>8. UpgradeCpp(v) = body \o end \o <<Last>>
  BY DEF UpgradeCpp, Hide8, Rebuild, SetVersion, Last
<1> HIDE DEF four, a, b, deny, c, d, end
<1>9. /\ body \in Seq(Stmts)
      /\ v <= 6 => body = four
      /\ ~(v <= 6) => \A x : Includes(body, x) <=> Includes(a, x) \/ Includes(b, x) \/ Includes(c, x) \/ Includes(d, x)
  <2>1. a \o b \in Seq(Stmts) /\ \A x : Includes(a \o b, x) <=> Includes(a, x) \/ Includes(b, x)
    BY <1>3, <1>4, Concatenated
  <2>2. /\ a \o b \o c \in Seq(Stmts)
        /\ \A x : Includes(a \o b \o c, x) <=> Includes(a \o b, x) \/ Includes(c, x)
    BY <2>1, <1>5, Concatenated
  <2>3. /\ a \o b \o c \o d \in Seq(Stmts)
        /\ \A x : Includes(a \o b \o c \o d, x) <=> Includes(a \o b \o c, x) \/ Includes(d, x)
    BY <2>2, <1>6, Concatenated
  <2> QED BY <1>1, <2>1, <2>2, <2>3
<1> HIDE DEF body
<1>10. \A x : Includes(body, x) <=>
         \/ v = 0 /\ x \in {<<"create", t>> : t \in Core}
         \/ v \in {7, 8} /\ x = Hide8
         \/ v \in 7..9 /\ x = <<"drop", "logs">>
         \/ v \in 7..10 /\ x = <<"create", "denylist">>
         \/ v \in 7..11 /\ x = Rebuild
  <2>1. CASE v = 0
    <3>1. v <= 6 /\ v \notin {7, 8} /\ v \notin 7..9 /\ v \notin 7..10 /\ v \notin 7..11
      BY SMT, <2>1
    <3> QED BY <2>1, <3>1, <1>1, <1>9
  <2>2. CASE v \in 7..DB_VERSION
    <3>1. /\ v # 0 /\ ~(v <= 6) /\ (v <= 9 <=> v \in 7..9) /\ (v <= 10 <=> v \in 7..10)
          /\ (v <= 11 <=> v \in 7..11)
      BY SMT, <2>2 DEF DB_VERSION
    <3> QED BY <3>1, <1>3, <1>4, <1>5, <1>6, <1>9
  <2> QED BY <2>1, <2>2 DEF Upgradable
<1>11. /\ body \o end \in Seq(Stmts)
       /\ \A x : Includes(body \o end, x) <=> Includes(body, x) \/ Includes(end, x)
       /\ Len(body \o end) = Len(body) + Len(end)
  BY <1>7, <1>9, Concatenated
<1>12. /\ <<Last>> \in Seq(Stmts) /\ Len(<<Last>>) = 1 /\ <<Last>>[1] = Last
       /\ \A y : Includes(<<Last>>, y) <=> y = Last
  BY OneStatement, StmtKinds
<1> DEFINE most == body \o end
           tail == <<Last>>
<1>13. UpgradeCpp(v) = most \o tail
  BY <1>8
<1>14. /\ most \in Seq(Stmts) /\ tail \in Seq(Stmts) /\ Len(tail) = 1 /\ tail[1] = Last
       /\ \A x : Includes(most, x) <=> Includes(body, x) \/ Includes(end, x)
       /\ \A y : Includes(tail, y) <=> y = Last
       /\ Len(most) = Len(body) + Len(end)
  BY <1>11, <1>12
<1>15. /\ SetVersion # Hide8 /\ SetVersion # <<"drop", "logs">> /\ SetVersion # Rebuild
       /\ SetVersion # Last /\ Last # Hide8 /\ Last # <<"drop", "logs">> /\ Last # Rebuild
       /\ \A t : SetVersion # <<"create", t>> /\ Last # <<"create", t>>
  BY SMT DEF SetVersion, Hide8, Rebuild, Last
<1>16. ~Includes(body, SetVersion) /\ ~Includes(most, Last)
  <2>1. ~Includes(body, SetVersion) /\ ~Includes(body, Last)
    BY <1>10, <1>15
  <2>2. ~Includes(end, Last)
    BY <1>7, <1>15
  <2> QED BY <2>1, <2>2, <1>14
<1>17. At(most, SetVersion, Len(most))
  <2>1. Len(end) \in Nat /\ At(end, SetVersion, Len(end))
    BY SMT DEF end, At
  <2>2. At(body \o end, SetVersion, Len(body) + Len(end))
    BY <2>1, <1>7, <1>9, <1>16, ConcatenatedAt
  <2> QED BY <2>2, <1>14
<1> HIDE DEF most, tail
<1>18. /\ most \o tail \in Seq(Stmts)
       /\ \A x : Includes(most \o tail, x) <=> Includes(most, x) \/ Includes(tail, x)
       /\ Len(most \o tail) = Len(most) + Len(tail)
  BY <1>14, Concatenated
<1>19. Len(most \o tail) - 1 = Len(most) /\ Len(most) + 1 = Len(most \o tail)
  BY SMT, <1>14, <1>18
<1>20. At(most \o tail, SetVersion, Len(most))
  <2>1. Len(most) \in Nat /\ ~Includes(tail, SetVersion)
    BY <1>14, <1>15, LengthIsNat
  <2> QED BY <2>1, <1>14, <1>17, ConcatenatedAt
<1>21. At(most \o tail, Last, Len(most) + 1)
  <2>1. At(tail, Last, 1) /\ 1 \in Nat
    BY SMT, <1>14 DEF At
  <2> QED BY <2>1, <1>14, <1>16, ConcatenatedAt
<1>22. (most \o tail)[Len(most) + 1] = Last
  BY <1>14, LastStatement, StmtKinds DEF tail
<1> QED BY <1>7, <1>10, <1>13, <1>14, <1>18, <1>19, <1>20, <1>21, <1>22 DEF InCpp

LEMMA DistinctStmts ==
  /\ Hide7 # Hide8 /\ Hide7 # Rebuild /\ Hide7 # SetVersion /\ Hide7 # Last
  /\ Hide8 # Rebuild /\ Hide8 # SetVersion /\ Hide8 # Last
  /\ Rebuild # SetVersion /\ Rebuild # Last /\ SetVersion # Last
  /\ \A t : /\ Hide7 # <<"create", t>> /\ Hide8 # <<"create", t>> /\ Rebuild # <<"create", t>>
           /\ SetVersion # <<"create", t>> /\ Last # <<"create", t>>
  BY SMT DEF Hide7, Hide8, Rebuild, SetVersion, Last

(* What a statement that succeeds does to a file: layouts only move to the *)
(* current one, except that the table of logs goes.                        *)
Advances(f, g) ==
  /\ g \in DbFile /\ g.grants = f.grants
  /\ \A t \in Tables \ {"logs"} : g.shape[t] = f.shape[t] \/ g.shape[t] = 2
  /\ g.shape["logs"] \in {0, 2, f.shape["logs"]}

LEMMA StmtAdvances ==
  ASSUME NEW x \in Stmts, NEW f \in DbFile, ~StmtFails(x, f)
  PROVE  LET g == Stmt(x, f) IN
         /\ Advances(f, g)
         /\ g.ver = IF x = SetVersion THEN DB_VERSION ELSE f.ver
         /\ \A t \in Tables : x = <<"create", t>> /\ f.shape[t] # 1 => g.shape[t] = 2
         /\ x = Rebuild => g.shape["policies"] = 2
         /\ x \in {Hide7, Hide8} => g.shape["hidelist"] = 2
         /\ x = Last => \A t \in {"hidelist", "sulist"} : f.shape[t] # 1 => g.shape[t] = 2
         /\ x # Hide7 => g.hidden = f.hidden
         /\ x # Hide7 /\ f.shape["hidelist"] = 1 => g.shape["hidelist"] = 1
         /\ x = Hide7 /\ f.shape["hidelist"] = 1 => g.hidden = f.hidden
<1> DEFINE g == Stmt(x, f)
<1>1. CASE \E t \in Tables : x = <<"create", t>>
  <2>1. PICK t \in Tables : x = <<"create", t>>
    BY <1>1
  <2>2. g = [f EXCEPT !.shape[t] = IF @ = 0 THEN 2 ELSE @]
    BY SMT, <2>1 DEF Stmt
  <2>3. x # Hide7 /\ x # Hide8 /\ x # Rebuild /\ x # SetVersion /\ x # Last
    BY <2>1, DistinctStmts
  <2>4. \A u \in Tables : x = <<"create", u>> => u = t
    BY SMT, <2>1
  <2> QED BY SMT, <2>2, <2>3, <2>4 DEF DbFile, Advances, Tables
<1>2. CASE x = Hide7
  <2>1. g = [f EXCEPT !.shape["hidelist"] = 2, !.hidden = @ /\ f.shape["hidelist"] = 1]
    BY SMT, <1>2 DEF Stmt, Hide7
  <2>2. x # Hide8 /\ x # Rebuild /\ x # SetVersion /\ x # Last /\ \A t : x # <<"create", t>>
    BY <1>2, DistinctStmts
  <2>3. g.hidden = (f.hidden /\ f.shape["hidelist"] = 1)
    BY <2>1 DEF DbFile
  <2>4. g.hidden \in BOOLEAN /\ f.hidden \in BOOLEAN
    BY <2>3 DEF DbFile
  <2>5. f.shape["hidelist"] = 1 => g.hidden = f.hidden
    BY <2>3, <2>4
  <2>6. g.ver = f.ver /\ g.grants = f.grants /\ g.shape = [f.shape EXCEPT !["hidelist"] = 2]
    BY SMT, <2>1 DEF DbFile
  <2>7. g.shape \in [Tables -> 0..2] /\ g.shape["hidelist"] = 2
    BY SMT, <2>6 DEF DbFile, Tables
  <2>8. \A t \in Tables \ {"hidelist"} : g.shape[t] = f.shape[t]
    BY SMT, <2>6 DEF DbFile, Tables
  <2>9. g \in DbFile
    <3> DEFINE h == [f EXCEPT !.shape["hidelist"] = 2]
               hid == f.hidden /\ f.shape["hidelist"] = 1
    <3>1. h \in DbFile
      BY SMT DEF DbFile, Tables
    <3>2. hid \in BOOLEAN
      OBVIOUS
    <3>3. g = [h EXCEPT !.hidden = hid]
      BY SMT, <2>1 DEF DbFile
    <3> HIDE DEF h, hid
    <3> QED BY SMT, <3>1, <3>2, <3>3 DEF DbFile
  <2>10. Advances(f, g)
    BY SMT, <2>6, <2>7, <2>8, <2>9 DEF Advances, Tables
  <2> QED BY <1>2, <2>2, <2>5, <2>6, <2>7, <2>10
<1>3. CASE x = Hide8
  <2>1. g = f /\ f.shape["hidelist"] = 2
    BY SMT, <1>3 DEF Stmt, Hide8, StmtFails
  <2>2. x # Hide7 /\ x # Rebuild /\ x # SetVersion /\ x # Last /\ \A t : x # <<"create", t>>
    BY <1>3, DistinctStmts
  <2> QED BY SMT, <1>3, <2>1, <2>2 DEF DbFile, Advances, Tables
<1>4. CASE x = <<"drop", "logs">>
  <2>1. g = [f EXCEPT !.shape["logs"] = 0]
    BY SMT, <1>4 DEF Stmt
  <2>2. /\ x # Hide7 /\ x # Hide8 /\ x # Rebuild /\ x # SetVersion /\ x # Last
        /\ \A t : x # <<"create", t>>
    BY SMT, <1>4 DEF Hide7, Hide8, Rebuild, SetVersion, Last
  <2> QED BY SMT, <1>4, <2>1, <2>2 DEF DbFile, Advances, Tables
<1>5. CASE x = <<"forget", "settings">>
  <2>1. g = f
    BY SMT, <1>5 DEF Stmt
  <2>2. /\ x # Hide7 /\ x # Hide8 /\ x # Rebuild /\ x # SetVersion /\ x # Last
        /\ \A t : x # <<"create", t>>
    BY SMT, <1>5 DEF Hide7, Hide8, Rebuild, SetVersion, Last
  <2> QED BY SMT, <1>5, <2>1, <2>2 DEF DbFile, Advances, Tables
<1>6. CASE x = Rebuild
  <2>1. g = [f EXCEPT !.shape["policies"] = 2]
    BY SMT, <1>6 DEF Stmt, Rebuild
  <2>2. x # Hide7 /\ x # Hide8 /\ x # SetVersion /\ x # Last /\ \A t : x # <<"create", t>>
    BY <1>6, DistinctStmts
  <2> QED BY SMT, <1>6, <2>1, <2>2 DEF DbFile, Advances, Tables
<1>7. CASE x = SetVersion
  <2>1. g = [f EXCEPT !.ver = DB_VERSION]
    <3>1. x[1] = "version"
      BY <1>7 DEF SetVersion
    <3> QED BY SMT, <3>1 DEF Stmt
  <2>2. x # Hide7 /\ x # Hide8 /\ x # Rebuild /\ x # Last /\ \A t : x # <<"create", t>>
    BY <1>7, DistinctStmts
  <2> QED BY SMT, <1>7, <2>1, <2>2 DEF DbFile, Advances, Tables, DB_VERSION
<1>8. CASE x = Last
  <2>1. g = [f EXCEPT !.shape["hidelist"] = IF @ = 0 THEN 2 ELSE @,
                      !.shape["sulist"] = IF @ = 0 THEN 2 ELSE @]
    <3>1. x[1] = "last"
      BY <1>8 DEF Last
    <3> QED BY SMT, <3>1 DEF Stmt
  <2>2. x # Hide7 /\ x # Hide8 /\ x # Rebuild /\ x # SetVersion /\ \A t : x # <<"create", t>>
    BY <1>8, DistinctStmts
  <2>3. g.ver = f.ver /\ g.grants = f.grants /\ g.hidden = f.hidden
    BY SMT, <2>1 DEF DbFile
  <2>4. \A t \in Tables : g.shape[t] = IF t \in {"hidelist", "sulist"} /\ f.shape[t] = 0
                                      THEN 2 ELSE f.shape[t]
    BY SMT, <2>1 DEF DbFile, Tables
  <2>5. g \in DbFile
    <3> DEFINE h == [f EXCEPT !.shape["hidelist"] = IF @ = 0 THEN 2 ELSE @]
    <3>1. h \in DbFile
      BY SMT DEF DbFile, Tables
    <3>2. g = [h EXCEPT !.shape["sulist"] = IF @ = 0 THEN 2 ELSE @]
      BY SMT, <2>1 DEF DbFile
    <3> HIDE DEF h
    <3> QED BY SMT, <3>1, <3>2 DEF DbFile, Tables
  <2>6. \A t \in Tables : f.shape[t] \in {0, 1, 2}
    BY SMT DEF DbFile
  <2>7. Advances(f, g)
    BY SMT, <2>3, <2>4, <2>5 DEF Advances, Tables
  <2>8. \A t \in {"hidelist", "sulist"} : f.shape[t] # 1 => g.shape[t] = 2
    BY SMT, <2>4, <2>6 DEF Tables
  <2>9. f.shape["hidelist"] = 1 => g.shape["hidelist"] = 1
    BY SMT, <2>4 DEF Tables
  <2> QED BY <1>8, <2>2, <2>3, <2>7, <2>8, <2>9
<1> QED BY <1>1, <1>2, <1>3, <1>4, <1>5, <1>6, <1>7, <1>8 DEF Stmts

(* A statement of one connection does not disturb the plan of the other.   *)
LEMMA PlanKept ==
  ASSUME NEW c, NEW s, NEW f \in DbFile, NEW g, Planned(c, s, f), Advances(f, g),
         g.ver \in {f.ver, DB_VERSION}
  PROVE  Planned(c, s, g)
<1>1. /\ \A t \in Core : g.shape[t] = f.shape[t] \/ g.shape[t] = 2
      /\ g.shape["hidelist"] = f.shape["hidelist"] \/ g.shape["hidelist"] = 2
  BY DEF Advances, Core, Tables
<1>2. \A t \in Core : g.shape[t] = 2 \/ Repairs(s, t, g)
  BY <1>1 DEF Planned, Repairs
<1>3. g.shape["hidelist"] = 1 => f.shape["hidelist"] = 1
  BY SMT, <1>1
<1>4. g.ver = DB_VERSION \/ Includes(s, SetVersion)
  BY DEF Planned
<1> QED BY <1>2, <1>3, <1>4 DEF Planned

LEMMA UsableKept ==
  ASSUME NEW c, NEW f \in DbFile, NEW g, Usable(c, f), Advances(f, g),
         g.ver \in {f.ver, DB_VERSION}
  PROVE  Usable(c, g)
  BY DEF Usable, Advances, Tables

LEMMA SoundKept ==
  ASSUME NEW f, NEW g, Sound(f), Advances(f, g), g.ver \in {f.ver, DB_VERSION},
         g.ver = f.ver \/ ((\A t \in Core : f.shape[t] = 2) /\ f.shape["hidelist"] # 1)
  PROVE  Sound(g)
<1>1. \A t \in Tables \ {"logs"} : g.shape[t] = f.shape[t] \/ g.shape[t] = 2
  BY DEF Advances
<1>2. \A t \in Tables : g.shape[t] = 1 => f.shape[t] = 1
  BY SMT DEF Advances
<1>3. g \in DbFile /\ g.ver \in {start, DB_VERSION} /\ g.grants = f.grants
  BY DEF Advances, Sound
<1>4. \A t \in Tables : g.shape[t] = 1 =>
        (t = "policies" /\ start \in 7..11) \/ (t = "hidelist" /\ start = 7)
  BY <1>2 DEF Sound
<1>5. \A t \in Tables \ {"logs"} : f.shape[t] = 2 => g.shape[t] = 2
  BY <1>1
<1>6. g.ver = DB_VERSION => (\A t \in Core : f.shape[t] = 2) /\ f.shape["hidelist"] # 1
  BY DEF Sound
<1>7. g.ver = DB_VERSION => (\A t \in Core : g.shape[t] = 2) /\ g.shape["hidelist"] # 1
  BY <1>2, <1>5, <1>6 DEF Core, Tables
<1>8. /\ start >= 7 => g.shape["settings"] = 2 /\ g.shape["strings"] = 2
      /\ start >= 11 => g.shape["denylist"] = 2
      /\ start = 12 => g.shape["policies"] = 2
  BY <1>5 DEF Sound, Tables
<1> QED BY <1>3, <1>4, <1>7, <1>8 DEF Sound

(* When the version is the next to be set, the file is up to date.         *)
LEMMA VersionComesLast ==
  ASSUME NEW c \in Conns, NEW s, NEW f \in DbFile, Planned(c, s, f), Head(s) = SetVersion
  PROVE  (\A t \in Core : f.shape[t] = 2) /\ f.shape["hidelist"] # 1
<1>1. s \in Seq(Stmts) /\ s # <<>> /\ Len(s) \in Nat \ {0} /\ s[1] = SetVersion
  BY FirstAndRest DEF Planned
<1>2. 1 \in 1..Len(s)
  BY SMT, <1>1
<1>3. ASSUME NEW x, Includes(s, x) PROVE x \in {SetVersion, Last}
  <2>1. PICK i \in 1..Len(s) : s[i] = x
    BY <1>3 DEF Includes
  <2>2. CASE c = "rust"
    <3>1. Len(s) = 1
      BY <1>1, <1>2, <2>2 DEF Planned, At
    <3>2. i = 1
      BY SMT, <3>1, <2>1
    <3> QED BY <3>2, <2>1, <1>1
  <2>3. CASE c = "cpp"
    <3>1. Len(s) - 1 = 1 /\ s[Len(s)] = Last
      BY <1>1, <1>2, <2>3 DEF Planned, At
    <3>2. i \in 1..Len(s) /\ Len(s) = 2
      BY SMT, <3>1, <2>1, <1>1
    <3>3. i = 1 \/ i = Len(s)
      BY SMT, <3>2
    <3> QED BY <3>1, <3>3, <2>1, <1>1
  <2> QED BY <2>2, <2>3 DEF Conns
<1>4. /\ \A t : <<"create", t>> \notin {SetVersion, Last} /\ <<"rebuild", t>> \notin {SetVersion, Last}
      /\ Hide7 \notin {SetVersion, Last} /\ Hide8 \notin {SetVersion, Last}
  <2>1. \A t : <<"rebuild", t>>[1] = "rebuild"
    BY SMT
  <2>2. SetVersion[1] # "rebuild" /\ Last[1] # "rebuild"
    BY DEF SetVersion, Last
  <2> QED BY <2>1, <2>2, DistinctStmts
<1> QED BY <1>3, <1>4 DEF Planned, Repairs

(* The plan after its first statement.                                     *)
LEMMA PlanGoesOn ==
  ASSUME NEW c \in Conns, NEW s, NEW f, Sound(f), Planned(c, s, f), ~StmtFails(Head(s), f)
  PROVE  LET g == Stmt(Head(s), f) IN
         /\ Sound(g)
         /\ Len(s) # 1 => Planned(c, Tail(s), g)
         /\ Len(s) = 1 => Usable(c, g)
<1> DEFINE x == Head(s)
           g == Stmt(x, f)
           u == Tail(s)
<1>1. s \in Seq(Stmts) /\ s # <<>> /\ f \in DbFile
  BY DEF Planned, Sound
<1>2. /\ u \in Seq(Stmts) /\ Len(u) = Len(s) - 1 /\ Len(s) \in Nat \ {0}
      /\ x \in Stmts /\ x = s[1]
      /\ \A i \in 1..Len(u) : i + 1 \in 1..Len(s) /\ u[i] = s[i + 1]
      /\ \A y : Includes(s, y) => y = x \/ Includes(u, y)
      /\ \A y : Includes(u, y) => Includes(s, y)
  BY <1>1, FirstAndRest
<1>3. /\ Advances(f, g)
      /\ g.ver = IF x = SetVersion THEN DB_VERSION ELSE f.ver
      /\ \A t \in Tables : x = <<"create", t>> /\ f.shape[t] # 1 => g.shape[t] = 2
      /\ x = Rebuild => g.shape["policies"] = 2
      /\ x \in {Hide7, Hide8} => g.shape["hidelist"] = 2
      /\ x = Last => \A t \in {"hidelist", "sulist"} : f.shape[t] # 1 => g.shape[t] = 2
  BY <1>1, <1>2, StmtAdvances
<1>4. x = SetVersion => (\A t \in Core : f.shape[t] = 2) /\ f.shape["hidelist"] # 1
  BY <1>1, VersionComesLast
<1> HIDE DEF x, g, u
<1>5. Sound(g)
  BY <1>3, <1>4, SoundKept
<1>6. ASSUME NEW t \in Core PROVE g.shape[t] = 2 \/ Repairs(u, t, g)
  <2>1. t \in Tables \ {"logs"}
    BY DEF Core, Tables
  <2>2. g.shape[t] = f.shape[t] \/ g.shape[t] = 2
    BY <1>3, <2>1 DEF Advances
  <2>3. CASE f.shape[t] = 2
    BY <2>2, <2>3
  <2>4. CASE Includes(s, <<"create", t>>) /\ f.shape[t] # 1
    BY <2>1, <2>2, <2>4, <1>2, <1>3 DEF Repairs
  <2>5. CASE Includes(s, <<"rebuild", t>>)
    <3>1. <<"rebuild", t>> \in Stmts => t = "policies"
      BY SMT DEF Stmts, Hide7, Hide8, Rebuild, SetVersion, Last
    <3>2. x = <<"rebuild", t>> => g.shape[t] = 2
      BY <1>2, <1>3, <3>1 DEF Rebuild
    <3> QED BY <2>5, <1>2, <3>2 DEF Repairs
  <2> QED BY <2>3, <2>4, <2>5 DEF Planned, Repairs
<1>7. g.shape["hidelist"] = 1 => Includes(u, Hide7) \/ Includes(u, Hide8)
  <2>1. g.shape["hidelist"] = f.shape["hidelist"] \/ g.shape["hidelist"] = 2
    BY <1>3 DEF Advances, Tables
  <2>2. g.shape["hidelist"] = 1 => f.shape["hidelist"] = 1 /\ x \notin {Hide7, Hide8}
    BY SMT, <2>1, <1>3
  <2> QED BY <2>2, <1>2 DEF Planned
<1>8. g.ver = DB_VERSION \/ Includes(u, SetVersion)
  BY <1>2, <1>3 DEF Planned
<1>9. CASE Len(s) # 1
  <2>1. u # <<>> /\ Len(u) \in Nat \ {0}
    BY SMT, <1>2, <1>9
  <2>2. ASSUME NEW y, NEW n \in Int, At(s, y, n) PROVE At(u, y, n - 1)
    BY SMT, <2>2, <1>2 DEF At
  <2>3. At(u, SetVersion, IF c = "cpp" THEN Len(u) - 1 ELSE Len(u))
    <3>1. Len(s) \in Int /\ Len(s) - 1 \in Int /\ Len(s) - 1 - 1 = Len(u) - 1
      BY SMT, <1>2
    <3> QED BY <3>1, <2>2, <1>2 DEF Planned
  <2>4. c = "cpp" => u[Len(u)] = Last /\ At(u, Last, Len(u)) /\ ~Includes(u, Hide7)
    <3>1. Len(s) \in Int /\ Len(u) \in 1..Len(u) /\ Len(u) + 1 = Len(s)
      BY SMT, <1>2, <2>1
    <3> QED BY <3>1, <2>2, <1>2 DEF Planned
  <2>5. c = "rust" => ~Includes(u, Last) /\ At(u, Hide7, 1)
    <3>1. At(s, Hide7, 1) => At(u, Hide7, 1)
      <4>1. \A i \in 1..Len(u) : i + 1 # 1
        BY SMT
      <4> QED BY <4>1, <1>2 DEF At
    <3> QED BY <3>1, <1>2 DEF Planned
  <2> QED BY <1>2, <1>5, <1>6, <1>7, <1>8, <1>9, <2>1, <2>3, <2>4, <2>5 DEF Planned, x, g, u
<1>10. CASE Len(s) = 1
  <2>1. \A y : ~Includes(u, y)
    BY SMT, <1>2, <1>10 DEF Includes
  <2>2. g.ver = DB_VERSION
    BY <2>1, <1>8
  <2>3. c = "cpp" => g.shape["hidelist"] = 2 /\ g.shape["sulist"] = 2
    <3>1. c = "cpp" => x = Last
      BY <1>2, <1>10 DEF Planned
    <3>2. g.shape["hidelist"] # 1
      BY <2>1, <1>7
    <3>3. x = Last => f.shape["hidelist"] # 1
      BY SMT, <1>2, <1>10, DistinctStmts DEF Planned, Includes
    <3>4. f.shape["sulist"] # 1
      BY DEF Sound, Tables
    <3> QED BY <3>1, <3>3, <3>4, <1>3
  <2> QED BY <1>5, <1>10, <2>2, <2>3 DEF Usable, x, g
<1> QED BY <1>9, <1>10

(* The upgrade that a connection plans is enough, whatever was done before. *)
LEMMA UpgradePlanned ==
  ASSUME NEW c \in Conns, NEW f, Sound(f), start \in Upgradable
  PROVE  LET s == Upgrade(c, f.ver) IN
         /\ s \in Seq(Stmts)
         /\ s = <<>> => Usable(c, f)
         /\ s # <<>> => Planned(c, s, f)
         /\ Includes(s, Hide7) => f.ver = 7 /\ c = "rust"
<1> DEFINE v == f.ver
           s == Upgrade(c, v)
<1>1. v \in Upgradable /\ f \in DbFile
  BY SMT DEF Sound, Upgradable, DB_VERSION
<1>2. \A t \in Tables : f.shape[t] \in {0, 1, 2}
  BY SMT, <1>1 DEF DbFile
<1>3. /\ f.shape["settings"] # 1 /\ f.shape["strings"] # 1 /\ f.shape["denylist"] # 1
      /\ f.shape["policies"] = 1 => v \in 7..11
      /\ f.shape["hidelist"] = 1 => v = 7
  <2>1. /\ f.shape["settings"] # 1 /\ f.shape["strings"] # 1 /\ f.shape["denylist"] # 1
    BY DEF Sound, Tables
  <2>2. f.shape["policies"] = 1 => start \in 7..11 /\ v # DB_VERSION
    BY SMT DEF Sound, Tables, Core
  <2>3. f.shape["hidelist"] = 1 => start = 7 /\ v # DB_VERSION
    BY DEF Sound, Tables
  <2> QED BY <2>1, <2>2, <2>3 DEF Sound
<1>4. /\ v \in 7..12 => f.shape["settings"] = 2 /\ f.shape["strings"] = 2
      /\ v \in 11..12 => f.shape["denylist"] = 2
      /\ v = 12 => f.shape["policies"] = 2
  BY SMT DEF Sound, Upgradable, DB_VERSION, Core
<1>5. \/ v = 0 \/ v \in 7..10 \/ v = 11 \/ v = 12
  BY SMT, <1>1 DEF Upgradable, DB_VERSION
<1>6. ASSUME v # 0 => Includes(s, Rebuild) \/ v = 12,
             v = 0 => \A t \in Core : Includes(s, <<"create", t>>),
             v \in 7..10 => Includes(s, <<"create", "denylist">>)
      PROVE  \A t \in Core : f.shape[t] = 2 \/ Repairs(s, t, f)
  <2> SUFFICES ASSUME NEW t \in Core PROVE f.shape[t] = 2 \/ Repairs(s, t, f)
    OBVIOUS
  <2>1. CASE v = 0
    <3>1. f.shape[t] # 1
      BY SMT, <2>1, <1>3 DEF Core
    <3> QED BY <2>1, <3>1, <1>6 DEF Repairs
  <2>2. CASE v # 0
    <3>1. CASE t = "policies"
      BY <2>2, <3>1, <1>4, <1>6 DEF Repairs, Rebuild
    <3>2. CASE t = "denylist"
      <4>1. v \in 7..10 \/ v \in 11..12
        BY SMT, <1>5, <2>2
      <4> QED BY <3>2, <4>1, <1>3, <1>4, <1>6 DEF Repairs
    <3>3. CASE t \in {"settings", "strings"}
      <4>1. v \in 7..12
        BY SMT, <1>5, <2>2
      <4> QED BY <3>3, <4>1, <1>4
    <3> QED BY <3>1, <3>2, <3>3 DEF Core
  <2> QED BY <2>1, <2>2
<1>7. CASE c = "rust"
  <2>1. s = UpgradeRust(v)
    BY <1>7 DEF Upgrade
  <2>2. /\ s \in Seq(Stmts)
        /\ At(s, SetVersion, Len(s)) /\ At(s, Hide7, 1)
        /\ v = DB_VERSION <=> s = <<>>
    <3> HIDE DEF s, v
    <3> QED BY <1>1, <2>1, RustUpgrade
  <2>3. \A x : Includes(s, x) <=> InRust(v, x)
    <3> HIDE DEF s, v
    <3> QED BY <1>1, <2>1, RustUpgrade
  <2> HIDE DEF s, v
  <2>4. v # 0 => Includes(s, Rebuild) \/ v = 12
    <3>1. v # 0 /\ v # 12 => v \in 7..11
      BY SMT, <1>5
    <3> QED BY <3>1, <2>3 DEF InRust
  <2>5. v = 0 => \A t \in Core : Includes(s, <<"create", t>>)
    BY <2>3 DEF InRust, Core, Tables
  <2>6. v \in 7..10 => Includes(s, <<"create", "denylist">>)
    BY <2>3 DEF InRust
  <2>7. \A t \in Core : f.shape[t] = 2 \/ Repairs(s, t, f)
    BY <2>4, <2>5, <2>6, <1>6
  <2>8. f.shape["hidelist"] = 1 => Includes(s, Hide7)
    BY <1>3, <2>3 DEF InRust, v
  <2>9. v = DB_VERSION \/ Includes(s, SetVersion)
    <3>1. v = DB_VERSION \/ v < DB_VERSION
      BY SMT, <1>5 DEF DB_VERSION
    <3> QED BY <3>1, <2>3 DEF InRust
  <2>10. ~Includes(s, Last)
    <3>1. Last # <<"drop", "logs">> /\ Last # <<"forget", "settings">>
      BY SMT DEF Last
    <3> QED BY <2>3, <3>1, DistinctStmts DEF InRust
  <2>11. Includes(s, Hide7) => v = 7
    <3>1. Hide7 # <<"drop", "logs">> /\ Hide7 # <<"forget", "settings">>
      BY SMT DEF Hide7
    <3> QED BY <2>3, <3>1, DistinctStmts DEF InRust
  <2>12. c # "cpp"
    BY <1>7
  <2>13. s = <<>> => Usable(c, f)
    BY <2>2, <2>12 DEF Usable, v
  <2>14. s # <<>> => Planned(c, s, f)
    BY <2>2, <2>7, <2>8, <2>9, <2>10, <2>12 DEF Planned, v
  <2> QED BY <1>7, <2>2, <2>11, <2>13, <2>14 DEF s, v
<1>8. CASE c = "cpp"
  <2>1. s = UpgradeCpp(v)
    BY <1>8 DEF Upgrade
  <2>2. /\ s \in Seq(Stmts)
        /\ At(s, SetVersion, Len(s) - 1) /\ At(s, Last, Len(s)) /\ s[Len(s)] = Last
    BY <1>1, <2>1, CppUpgrade
  <2>3. \A x : Includes(s, x) <=> InCpp(v, x)
    BY <1>1, <2>1, CppUpgrade
  <2> HIDE DEF s, v
  <2>4. v # 0 => Includes(s, Rebuild) \/ v = 12
    <3>1. v # 0 /\ v # 12 => v \in 7..11
      BY SMT, <1>5
    <3> QED BY <3>1, <2>3 DEF InCpp
  <2>5. v = 0 => \A t \in Core : Includes(s, <<"create", t>>)
    BY <2>3 DEF InCpp
  <2>6. v \in 7..10 => Includes(s, <<"create", "denylist">>)
    BY <2>3 DEF InCpp
  <2>7. \A t \in Core : f.shape[t] = 2 \/ Repairs(s, t, f)
    BY <2>4, <2>5, <2>6, <1>6
  <2>8. f.shape["hidelist"] = 1 => Includes(s, Hide8)
    BY <1>3, <2>3 DEF InCpp, v
  <2>9. v = DB_VERSION \/ Includes(s, SetVersion)
    <3>1. v = DB_VERSION \/ v < DB_VERSION
      BY SMT, <1>5 DEF DB_VERSION
    <3> QED BY <3>1, <2>3 DEF InCpp
  <2>10. ~Includes(s, Hide7)
    <3>1. Hide7 # <<"drop", "logs">>
      BY SMT DEF Hide7
    <3> QED BY <2>3, <3>1, DistinctStmts DEF InCpp
  <2>11. c # "rust" /\ Includes(s, Last) /\ s # <<>>
    BY <1>8, <2>3, NoStatement DEF InCpp
  <2>12. Planned(c, s, f)
    BY <1>8, <2>2, <2>7, <2>8, <2>9, <2>10, <2>11 DEF Planned, v
  <2> QED BY <2>2, <2>10, <2>11, <2>12 DEF s, v
<1> QED BY <1>7, <1>8 DEF Conns

(* The steps of the two connections.                                       *)
LEMMA ClosedConnection == Closed \in Connection /\ Closed.pc = "closed"
<1>1. <<>> \in Seq(Stmts)
  BY SMT
<1> QED BY SMT, <1>1 DEF Closed, Connection

LEMMA FoundVersions == \A v \in Versions : v <= DB_VERSION => v \in Upgradable
  BY SMT, DbAssumption DEF Upgradable, DB_VERSION

LEMMA DbInvInit == DbInit => DbInv
<1> SUFFICES ASSUME DbInit PROVE DbInv
  OBVIOUS
<1>1. start \in Versions /\ crashes \in Nat
  BY SMT DEF DbInit
<1>2. ASSUME start <= DB_VERSION PROVE Upgrading
  <2>1. start \in Upgradable
    BY <1>1, <1>2, FoundVersions
  <2>2. DOMAIN conn = Conns /\ \A c \in Conns : conn[c] = Closed
    BY DEF DbInit
  <2>3. CASE start = 0
    <3>1. files = <<>> /\ path = Len(files)
      BY <2>3 DEF DbInit
    <3>2. files \in Seq(DbFile) /\ path = 0 /\ ~(start > 0)
      BY SMT, <2>3, <3>1
    <3>3. path # 1
      BY SMT, <3>2
    <3> QED BY <2>2, <3>1, <3>2, <3>3, ClosedConnection DEF Upgrading
  <2>4. CASE start # 0
    <3> DEFINE f == FileAt(start)
    <3>1. start \in 7..12
      BY SMT, <2>1, <2>4 DEF Upgradable, DB_VERSION
    <3>2. /\ f.ver = start /\ f.grants = TRUE /\ f.hidden = TRUE
          /\ f.shape["policies"] = IF start <= 11 THEN 1 ELSE 2
          /\ f.shape["settings"] = 2 /\ f.shape["strings"] = 2
          /\ f.shape["denylist"] = IF start >= 11 THEN 2 ELSE 0
          /\ f.shape["hidelist"] = IF start = 7 THEN 1 ELSE IF start <= 10 THEN 2 ELSE 0
          /\ f.shape["sulist"] = 0
          /\ f.shape["logs"] = IF start <= 9 THEN 2 ELSE 0
      BY SMT DEF FileAt, Tables
    <3>3. f \in DbFile
      BY SMT, <3>1 DEF FileAt, DbFile, Tables
    <3>4. files = <<f>> /\ path = Len(files)
      BY <2>4 DEF DbInit
    <3> HIDE DEF f
    <3>5. files \in Seq(DbFile) /\ path = 1 /\ files[1] = f /\ path # 0
      BY SMT, <3>3, <3>4
    <3>6. Sound(f)
      BY SMT, <3>1, <3>2, <3>3 DEF Sound, Tables, Core, DB_VERSION
    <3>7. Unhidden(Closed, f)
      <4>1. f.hidden /\ (f.ver = 7 => f.shape["hidelist"] = 1)
        BY SMT, <3>2
      <4>2. Closed.pc # "run"
        BY ClosedConnection
      <4> QED BY <4>1, <4>2 DEF Unhidden
    <3>8. \A c \in Conns : Linked(c, conn[c], f)
      <4>1. Closed.pc # "run" /\ Closed.pc # "open"
        BY ClosedConnection
      <4> QED BY <2>2, <4>1, ClosedConnection DEF Linked
    <3> QED BY <2>2, <3>4, <3>5, <3>6, <3>7, <3>8 DEF Upgrading, Conns
  <2> QED BY <2>3, <2>4
<1> QED BY <1>1, <1>2 DEF DbInv

LEMMA OpenStep ==
  ASSUME Upgrading, start \in Upgradable, NEW c \in Conns, OpenDb(c)
  PROVE  Upgrading'
<1> DEFINE r == [conn[c] EXCEPT !.pc = "version", !.file = path']
<1>1. DOMAIN conn' = Conns /\ conn'[c] = r /\ \A d \in Conns \ {c} : conn'[d] = conn[d]
  BY DEF OpenDb, Upgrading
<1>2. path' = 1 /\ files' \in Seq(DbFile) /\ Len(files') = 1 /\ UNCHANGED <<start, crashes>>
  <2>1. CASE path = 0
    <3>1. files' = Append(files, EmptyFile) /\ path' = Len(files') /\ Len(files) = 0
      BY <2>1 DEF OpenDb, Upgrading
    <3>2. EmptyFile \in DbFile
      BY SMT DEF EmptyFile, DbFile
    <3> QED BY SMT, <3>1, <3>2 DEF Upgrading, OpenDb
  <2>2. CASE path = 1
    <3>1. path # 0
      BY SMT, <2>2
    <3> QED BY <2>2, <3>1 DEF OpenDb, Upgrading
  <2> QED BY <2>1, <2>2 DEF Upgrading
<1>3. conn[c] \in Connection /\ conn[c].pc = "closed"
  BY DEF Upgrading, Linked, OpenDb
<1>4. r \in Connection /\ r.pc = "version" /\ r.file = 1
  <2> DEFINE h == [conn[c] EXCEPT !.pc = "version"]
  <2>1. h \in Connection /\ h.pc = "version"
    BY SMT, <1>3 DEF Connection
  <2>2. r = [h EXCEPT !.file = 1]
    BY SMT, <1>2, <1>3 DEF Connection
  <2> HIDE DEF h, r
  <2> QED BY SMT, <2>1, <2>2 DEF Connection
<1> HIDE DEF r
<1>5. \A f : Linked(c, r, f)
  BY <1>4 DEF Linked
<1>6. CASE path = 0
  <2>1. files' = Append(files, EmptyFile) /\ files \in Seq(DbFile) /\ Len(files) = 0
    BY <1>6 DEF OpenDb, Upgrading
  <2>2. EmptyFile \in DbFile
    BY SMT DEF EmptyFile, DbFile
  <2>3. files'[1] = EmptyFile
    BY SMT, <2>1, <2>2
  <2>4. start = 0
    BY SMT, <1>6 DEF Upgrading, Upgradable, DB_VERSION
  <2>5. EmptyFile.ver = 0 /\ \A t \in Tables : EmptyFile.shape[t] = 0
    BY SMT DEF EmptyFile
  <2>6. ~(start > 0) /\ ~(start >= 7) /\ ~(start >= 11) /\ start # 12 /\ 0 # DB_VERSION
    BY SMT, <2>4 DEF DB_VERSION
  <2>7. Sound(EmptyFile)
    <3>1. \A t \in Tables : EmptyFile.shape[t] # 1
      BY SMT, <2>5
    <3> QED BY <2>2, <2>4, <2>5, <2>6, <3>1 DEF Sound
  <2>8. Sound(EmptyFile)'
    BY <2>7, <1>2 DEF Sound, DbFile, EmptyFile
  <2>9. \A d \in Conns : Linked(d, conn'[d], EmptyFile)
    <3>1. \A d \in Conns \ {c} : conn[d] \in Connection /\ conn[d].pc = "closed"
      BY <1>6 DEF Upgrading
    <3>2. \A d \in Conns \ {c} : Linked(d, conn[d], EmptyFile)
      BY <3>1 DEF Linked
    <3> QED BY <1>1, <1>5, <3>2
  <2>10. path' # 0 /\ ~(start > 0)'
    BY SMT, <1>2, <2>6
  <2> QED BY <1>1, <1>2, <2>3, <2>8, <2>9, <2>10 DEF Upgrading
<1>7. CASE path = 1
  <2>1. files' = files /\ path # 0
    BY SMT, <1>7 DEF OpenDb
  <2>2. Sound(files[1]) /\ \A d \in Conns : Linked(d, conn[d], files[1])
    BY <1>7 DEF Upgrading
  <2>3. Sound(files[1])'
    BY <1>2, <2>1, <2>2 DEF Sound
  <2>4. \A d \in Conns : Linked(d, conn'[d], files[1])
    BY <1>1, <1>5, <2>2
  <2>5. Unhidden(conn["rust"], files[1]) => Unhidden(conn'["rust"], files[1])
    BY <1>1, <1>3, <1>4 DEF Unhidden, Conns
  <2> QED BY <1>1, <1>2, <1>7, <2>1, <2>3, <2>4, <2>5 DEF Upgrading
<1> QED BY <1>6, <1>7 DEF Upgrading

LEMMA ReadStep ==
  ASSUME Upgrading, start \in Upgradable, NEW c \in Conns, ReadVersion(c), ~dbFailed'
  PROVE  Upgrading'
<1> DEFINE f == files[1]
           s == Upgrade(c, f.ver)
           next == IF s = <<>> THEN "open" ELSE "run"
           r == [conn[c] EXCEPT !.todo = s, !.pc = next]
<1>1. /\ path = 1 /\ conn[c].file = 1 /\ Sound(f) /\ conn[c] \in Connection
      /\ conn[c].pc = "version"
  BY DEF Upgrading, Linked, ReadVersion
<1>2. ~TooNew(f.ver)
  BY SMT, <1>1 DEF TooNew, Sound, Upgradable, DB_VERSION
<1>3. /\ UNCHANGED <<files, path, dbFailed, start, crashes>>
      /\ conn' = [conn EXCEPT ![c].todo = s, ![c].pc = next]
  BY <1>1, <1>2 DEF ReadVersion, Fail
<1>4. /\ s \in Seq(Stmts)
      /\ s = <<>> => Usable(c, f)
      /\ s # <<>> => Planned(c, s, f)
      /\ Includes(s, Hide7) => f.ver = 7 /\ c = "rust"
  BY <1>1, UpgradePlanned
<1>5. DOMAIN conn' = Conns /\ conn'[c] = r /\ \A d \in Conns \ {c} : conn'[d] = conn[d]
  BY <1>3 DEF Upgrading
<1>6. r \in Connection /\ r.pc = next /\ r.todo = s /\ r.file = 1
  <2> DEFINE h == [conn[c] EXCEPT !.todo = s]
  <2> HIDE DEF s
  <2>1. h \in Connection /\ h.todo = s /\ h.file = 1
    BY SMT, <1>1, <1>4 DEF Connection
  <2>2. r = [h EXCEPT !.pc = next]
    BY SMT, <1>1 DEF Connection
  <2> HIDE DEF h, r
  <2> QED BY SMT, <2>1, <2>2 DEF Connection
<1> HIDE DEF s, r, f
<1>7. Linked(c, r, f)
  BY <1>4, <1>6 DEF Linked
<1>8. \A d \in Conns : Linked(d, conn'[d], f)
  BY <1>1, <1>5, <1>7 DEF Upgrading, f
<1>9. Sound(f)' /\ f' = f
  BY <1>1, <1>3 DEF Sound, f
<1>10. Unhidden(conn["rust"], f) => Unhidden(conn'["rust"], f)
  <2>1. CASE c = "rust"
    BY <2>1, <1>1, <1>4, <1>5, <1>6 DEF Unhidden, Conns
  <2>2. CASE c # "rust"
    BY <2>2, <1>5 DEF Conns
  <2> QED BY <2>1, <2>2
<1> QED BY <1>1, <1>3, <1>5, <1>8, <1>9, <1>10 DEF Upgrading, f

LEMMA BeginStep ==
  ASSUME Upgrading, NEW c \in Conns, Begin(c), ~dbFailed'
  PROVE  Upgrading'
<1> DEFINE r == [conn[c] EXCEPT !.lock = TRUE]
<1>1. UNCHANGED <<files, path, start, crashes>> /\ conn' = [conn EXCEPT ![c].lock = TRUE]
  BY DEF Begin, Fail
<1>2. conn[c] \in Connection
  BY DEF Upgrading, Linked
<1>3. DOMAIN conn' = Conns /\ conn'[c] = r /\ \A d \in Conns \ {c} : conn'[d] = conn[d]
  BY <1>1 DEF Upgrading
<1>4. r \in Connection /\ r.pc = conn[c].pc /\ r.file = conn[c].file /\ r.todo = conn[c].todo
  <2> DEFINE yes == TRUE
             k == [conn[c] EXCEPT !.lock = yes]
  <2>1. yes \in BOOLEAN /\ r = k
    OBVIOUS
  <2> HIDE DEF yes, r
  <2> QED BY SMT, <1>2, <2>1 DEF Connection
<1> HIDE DEF r
<1>5. \A d \in Conns : /\ conn'[d] \in Connection /\ conn'[d].pc = conn[d].pc
                       /\ conn'[d].file = conn[d].file /\ conn'[d].todo = conn[d].todo
  BY <1>3, <1>4 DEF Upgrading, Linked
<1>6. \A f : \A d \in Conns : Linked(d, conn[d], f) => Linked(d, conn'[d], f)
  BY <1>5 DEF Linked
<1>7. \A f : Unhidden(conn["rust"], f) => Unhidden(conn'["rust"], f)
  BY <1>5 DEF Unhidden, Conns
<1>8. Sound(files[1]) => Sound(files[1])'
  BY <1>1 DEF Sound
<1> QED BY <1>1, <1>3, <1>5, <1>6, <1>7, <1>8 DEF Upgrading

Rewritten(fs, g) == [fs EXCEPT ![1] = g]

LEMMA OneFileRewritten ==
  ASSUME NEW S, NEW fs \in Seq(S), NEW g \in S, Len(fs) = 1
  PROVE  Rewritten(fs, g) \in Seq(S) /\ Len(Rewritten(fs, g)) = 1 /\ Rewritten(fs, g)[1] = g
<1>1. [fs EXCEPT ![1] = g] \in Seq(S)
  BY SMT
<1>2. Len([fs EXCEPT ![1] = g]) = 1 /\ [fs EXCEPT ![1] = g][1] = g
  BY SMT
<1> QED BY <1>1, <1>2 DEF Rewritten

LEMMA CommitStep ==
  ASSUME Upgrading, NEW c \in Conns, Commit(c), ~dbFailed'
  PROVE  Upgrading'
<1> DEFINE f == files[1]
           s == conn[c].todo
           x == Head(s)
           g == Stmt(x, f)
           next == IF Len(s) = 1 THEN "open" ELSE "run"
           r == [conn[c] EXCEPT !.todo = Tail(s), !.lock = FALSE, !.pc = next]
<1>1. /\ path = 1 /\ conn[c].file = 1 /\ Sound(f) /\ conn[c] \in Connection
      /\ conn[c].pc = "run" /\ Planned(c, s, f)
  BY DEF Upgrading, Linked, Commit
<1>2. /\ ~StmtFails(x, f) /\ files' = [files EXCEPT ![1] = g]
      /\ UNCHANGED <<path, dbFailed, start, crashes>>
      /\ conn' = [conn EXCEPT ![c].todo = Tail(s), ![c].lock = FALSE, ![c].pc = next]
  BY <1>1 DEF Commit, Fail
<1>3. DOMAIN conn' = Conns /\ conn'[c] = r /\ \A d \in Conns \ {c} : conn'[d] = conn[d]
  BY <1>2 DEF Upgrading
<1>4. /\ s \in Seq(Stmts) /\ s # <<>> /\ f \in DbFile
      /\ x \in Stmts /\ Tail(s) \in Seq(Stmts) /\ \A y : Includes(Tail(s), y) => Includes(s, y)
  BY <1>1, FirstAndRest DEF Planned, Sound
<1>5. /\ Advances(f, g) /\ g.ver \in {f.ver, DB_VERSION}
      /\ x # Hide7 => g.hidden = f.hidden
      /\ x # Hide7 /\ f.shape["hidelist"] = 1 => g.shape["hidelist"] = 1
      /\ x = Hide7 /\ f.shape["hidelist"] = 1 => g.hidden = f.hidden
  BY <1>2, <1>4, StmtAdvances
<1>6. /\ Sound(g)
      /\ Len(s) # 1 => Planned(c, Tail(s), g)
      /\ Len(s) = 1 => Usable(c, g)
  BY <1>1, <1>2, PlanGoesOn
<1>7. r \in Connection /\ r.pc = next /\ r.todo = Tail(s) /\ r.file = 1
  <2> DEFINE u == Tail(s)
             h == [conn[c] EXCEPT !.todo = u]
             no == FALSE
             k == [h EXCEPT !.lock = no]
  <2>1. u \in Seq(Stmts)
    BY <1>4
  <2> HIDE DEF u
  <2>2. h \in Connection /\ h.todo = u /\ h.file = 1
    BY SMT, <1>1, <2>1 DEF Connection
  <2>3. r = [k EXCEPT !.pc = next]
    BY SMT, <1>1 DEF Connection, u
  <2>4. no \in BOOLEAN
    OBVIOUS
  <2> HIDE DEF h, r, no
  <2>5. k \in Connection /\ k.todo = u /\ k.file = 1
    BY SMT, <2>2, <2>4 DEF Connection
  <2> HIDE DEF k
  <2>6. next \in {"open", "run"}
    OBVIOUS
  <2> HIDE DEF next
  <2> QED BY SMT, <2>3, <2>5, <2>6 DEF Connection, u
<1>8. files' \in Seq(DbFile) /\ Len(files') = Len(files) /\ files'[1] = g
  <2>1. g \in DbFile
    BY <1>5 DEF Advances
  <2>2. files \in Seq(DbFile) /\ Len(files) = 1
    BY <1>1 DEF Upgrading
  <2> HIDE DEF g
  <2>3. files' = Rewritten(files, g)
    BY <1>2 DEF Rewritten
  <2> QED BY <2>1, <2>2, <2>3, OneFileRewritten
<1>9. At(s, Hide7, 1) => (x = Hide7 => ~Includes(Tail(s), Hide7))
  <2>1. \A i \in 1..Len(Tail(s)) : i + 1 \in 1..Len(s) /\ Tail(s)[i] = s[i + 1]
    BY <1>4, FirstAndRest
  <2>2. \A i \in 1..Len(Tail(s)) : i + 1 # 1
    BY SMT
  <2> QED BY <2>1, <2>2 DEF At, Includes
<1>10. c # "rust" => x # Hide7
  <2>1. Includes(s, x)
    <3>1. x = s[1] /\ Len(s) \in Nat \ {0}
      BY <1>4, FirstAndRest
    <3>2. 1 \in 1..Len(s)
      BY SMT, <3>1
    <3> QED BY <3>1, <3>2 DEF Includes
  <2> QED BY <1>1, <2>1 DEF Planned, Conns
<1> HIDE DEF f, s, x, g, r
<1>11. Linked(c, r, g)
  BY <1>6, <1>7 DEF Linked
<1>12. \A d \in Conns \ {c} : Linked(d, conn[d], g)
  <2> SUFFICES ASSUME NEW d \in Conns \ {c} PROVE Linked(d, conn[d], g)
    OBVIOUS
  <2>1. Linked(d, conn[d], f)
    BY <1>1 DEF Upgrading, f
  <2>2. conn[d].pc = "run" => Planned(d, conn[d].todo, g)
    BY <2>1, <1>4, <1>5, PlanKept DEF Linked
  <2>3. conn[d].pc = "open" => Usable(d, g)
    BY <2>1, <1>4, <1>5, UsableKept DEF Linked
  <2> QED BY <2>1, <2>2, <2>3 DEF Linked
<1>13. \A d \in Conns : Linked(d, conn'[d], g)
  BY <1>3, <1>11, <1>12
<1>14. Sound(files[1])'
  BY <1>6, <1>2, <1>8 DEF Sound
<1>15. Unhidden(conn["rust"], f) => Unhidden(conn'["rust"], g)
  <2> SUFFICES ASSUME Unhidden(conn["rust"], f) PROVE Unhidden(conn'["rust"], g)
    OBVIOUS
  <2>1. CASE c = "rust"
    <3>1. x = Hide7 => f.shape["hidelist"] = 1
      <4>1. x = s[1] /\ Len(s) \in Nat \ {0}
        BY <1>4, FirstAndRest DEF x
      <4>2. 1 \in 1..Len(s)
        BY SMT, <4>1
      <4> QED BY <2>1, <1>1, <4>1, <4>2 DEF Unhidden, Includes, s
    <3>2. g.hidden
      BY <3>1, <1>5 DEF Unhidden
    <3>3. Includes(Tail(s), Hide7) => x # Hide7 /\ f.shape["hidelist"] = 1
      BY <2>1, <1>1, <1>4, <1>9 DEF Unhidden, Planned, s
    <3>4. r.pc \notin {"closed", "version"}
      BY <1>7
    <3> QED BY <2>1, <3>2, <3>3, <3>4, <1>3, <1>5, <1>7 DEF Unhidden
  <2>2. CASE c # "rust"
    <3>1. conn'["rust"] = conn["rust"] /\ x # Hide7
      BY <2>2, <1>3, <1>10 DEF Conns
    <3>2. g.ver = 7 => f.ver = 7
      BY SMT, <1>5 DEF DB_VERSION
    <3> QED BY <3>1, <3>2, <1>5 DEF Unhidden
  <2> QED BY <2>1, <2>2
<1>16. path' # 0
  BY SMT, <1>1, <1>2
<1> QED BY <1>1, <1>2, <1>3, <1>8, <1>13, <1>14, <1>15, <1>16 DEF Upgrading, f

LEMMA CrashStep == ASSUME Upgrading, crashes \in Nat, CrashDb PROVE Upgrading'
<1>1. /\ UNCHANGED <<files, path, start>> /\ crashes' # 0
      /\ DOMAIN conn' = Conns /\ \A c \in Conns : conn'[c] = Closed
  BY SMT DEF CrashDb
<1>2. Closed.pc # "run" /\ Closed.pc # "open"
  BY ClosedConnection
<1>3. \A f : \A c \in Conns : Linked(c, conn'[c], f)
  BY <1>1, <1>2, ClosedConnection DEF Linked
<1>4. Sound(files[1]) => Sound(files[1])'
  BY <1>1 DEF Sound
<1> QED BY <1>1, <1>3, <1>4, ClosedConnection DEF Upgrading

LEMMA DbInvNext == DbInv /\ [DbNext]_dbVars => DbInv'
<1> SUFFICES ASSUME DbInv, [DbNext]_dbVars PROVE DbInv'
  OBVIOUS
<1>1. CASE UNCHANGED dbVars
  BY <1>1 DEF dbVars, DbInv, Upgrading, Sound, Linked, Unhidden
<1>2. CASE DbNext
  <2>1. start' = start /\ (dbFailed => dbFailed')
    BY <1>2 DEF DbNext, CrashDb, OpenDb, ReadVersion, Begin, Commit, Fail
  <2>2. crashes' \in {crashes, crashes + 1}
    BY <1>2 DEF DbNext, CrashDb, OpenDb, ReadVersion, Begin, Commit, Fail
  <2>3. crashes' \in Nat
    BY SMT, <2>2 DEF DbInv
  <2>4. ASSUME ~dbFailed', start <= DB_VERSION PROVE Upgrading'
    <3>1. Upgrading /\ start \in Upgradable
      BY <2>1, <2>4, FoundVersions DEF DbInv
    <3>2. CASE CrashDb
      BY <3>1, <3>2, CrashStep DEF DbInv
    <3>3. CASE \E c \in Conns : OpenDb(c) \/ ReadVersion(c) \/ Begin(c) \/ Commit(c)
      BY <2>4, <3>1, <3>3, OpenStep, ReadStep, BeginStep, CommitStep
    <3> QED BY <1>2, <3>2, <3>3 DEF DbNext
  <2> QED BY <2>1, <2>3, <2>4 DEF DbInv
<1> QED BY <1>1, <1>2

(* Two connections that open, upgrade and use a database at the same time, *)
(* over any number of deaths of the daemon, see one file, at the current   *)
(* version, with all tables and with what it held (open_and_init_db of     *)
(* sqlite.cpp and of db.cpp).                                              *)
THEOREM DatabaseIsOne == DbSpec => []OneDatabase
<1>1. DbInv => OneDatabase
  <2> SUFFICES ASSUME DbInv, ~dbFailed, start <= DB_VERSION, NEW c \in Conns, conn[c].pc = "open"
               PROVE  LET f == files[conn[c].file] IN
                      /\ conn[c].file = path /\ f.ver = DB_VERSION
                      /\ \A t \in {"policies", "settings", "strings", "denylist"}
                           \cup (IF c = "cpp" THEN {"hidelist", "sulist"} ELSE {}) : f.shape[t] = 2
                      /\ start > 0 => f.grants /\ (crashes = 0 => f.hidden)
    BY DEF OneDatabase
  <2>1. path = 1 /\ conn[c].file = 1 /\ Sound(files[1]) /\ Usable(c, files[1])
    BY DEF DbInv, Upgrading, Linked
  <2>2. start > 0 /\ crashes = 0 => files[1].hidden
    BY DEF DbInv, Upgrading, Unhidden
  <2> QED BY <2>1, <2>2 DEF Sound, Usable, Core
<1> QED BY <1>1, DbInvInit, DbInvNext, PTL DEF DbSpec
=============================================================================
