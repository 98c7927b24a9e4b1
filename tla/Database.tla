------------------------------ MODULE Database ------------------------------
(***************************************************************************)
(* The settings database of magiskd, which it opens twice: the Rust half   *)
(* through native/src/core/sqlite.cpp, the list code through               *)
(* native/src/core/db.cpp.  Either connection is opened when it is first   *)
(* needed, by whatever thread needs it, and brings the file up to the      *)
(* current version in several statements.                                  *)
(*                                                                         *)
(* A file is [ver, shape, grants, hidden]: its user_version, the layout of *)
(* each table (0: no such table, 2: the current one), whether the grants   *)
(* and the names of the hide list are still in it.                         *)
(***************************************************************************)
EXTENDS Integers, Sequences

CONSTANTS Versions,      \* versions a database may be found at
          MaxFiles,      \* bound on the files created
          MaxCrashes     \* bound on the daemon's deaths

\* Databases of the versions 1 to 6 were kept by the manager app, in its own data.
ASSUME DbAssumption == Versions \subseteq Nat \ (1..6)

VARIABLES files, path, conn, dbFailed, start, crashes

dbVars == <<files, path, conn, dbFailed, start, crashes>>

DB_VERSION == 12
Conns == {"rust", "cpp"}
Tables == {"policies", "settings", "strings", "denylist", "hidelist", "sulist", "logs"}
Closed == [pc |-> "closed", file |-> 0, todo |-> <<>>, lock |-> FALSE, tries |-> 0]

\* What the versions' changelog says a file of version v holds.
FileAt(v) ==
  [ver |-> v, grants |-> TRUE, hidden |-> TRUE,
   shape |-> [t \in Tables |->
     CASE t = "policies" -> IF v <= 11 THEN 1 ELSE 2
       [] t \in {"settings", "strings"} -> 2
       [] t = "denylist" -> IF v >= 11 THEN 2 ELSE 0
       [] t = "hidelist" -> IF v = 7 THEN 1 ELSE IF v <= 10 THEN 2 ELSE 0
       [] t = "sulist" -> 0
       [] t = "logs" -> IF v <= 9 THEN 2 ELSE 0]]
EmptyFile == [ver |-> 0, grants |-> FALSE, hidden |-> FALSE, shape |-> [t \in Tables |-> 0]]

----------------------------------------------------------------------------
(* The statements of an upgrade from version v, in order: each commits on  *)
(* its own.                                                                *)

Creates(ts) == [i \in 1..Len(ts) |-> <<"create", ts[i]>>]

\* sqlite.cpp: open_and_init_db
UpgradeRust(v) ==
  (IF v <= 6 THEN Creates(<<"policies", "settings", "strings", "denylist", "hidelist", "sulist">>)
   ELSE (IF v = 7 THEN <<<<"hide7", "hidelist">>>> ELSE <<>>)
     \o (IF v = 8 THEN <<<<"hide8", "hidelist">>>> ELSE <<>>)
     \o (IF v <= 9 THEN <<<<"drop", "logs">>>> ELSE <<>>)
     \o (IF v <= 10 THEN <<<<"forget", "settings">>>>
                         \o Creates(<<"denylist", "hidelist", "sulist">>) ELSE <<>>)
     \o (IF v <= 11 THEN <<<<"rebuild", "policies">>>> ELSE <<>>))
  \o (IF v < DB_VERSION THEN <<<<"version", "">>>> ELSE <<>>)

\* db.cpp: open_and_init_db
UpgradeCpp(v) ==
  (IF v <= 6 THEN Creates(<<"policies", "settings", "strings", "denylist">>)
   ELSE (IF v \in {7, 8} THEN <<<<"hide8", "hidelist">>>> ELSE <<>>)
     \o (IF v <= 9 THEN <<<<"drop", "logs">>>> ELSE <<>>)
     \o (IF v <= 10 THEN Creates(<<"denylist">>) ELSE <<>>)
     \o (IF v <= 11 THEN <<<<"rebuild", "policies">>>> ELSE <<>>))
  \o (IF v < DB_VERSION THEN <<<<"version", "">>>> ELSE <<>>)
  \o <<<<"last", "">>>>

Upgrade(c, v) == IF c = "rust" THEN UpgradeRust(v) ELSE UpgradeCpp(v)

\* SQLite's answer (external): ALTER needs the table, and SELECT * INTO the
\* two columns of the new list needs two columns.
StmtFails(s, f) ==
  \/ s[1] \in {"hide7", "rebuild"} /\ f.shape[s[2]] = 0
  \/ s[1] = "hide8" /\ f.shape[s[2]] # 2

Stmt(s, f) ==
  CASE s[1] = "create" -> [f EXCEPT !.shape[s[2]] = IF @ = 0 THEN 2 ELSE @]
    [] s[1] = "hide7" -> [f EXCEPT !.shape[s[2]] = 2, !.hidden = @ /\ f.shape[s[2]] = 1]
    [] s[1] = "drop" -> [f EXCEPT !.shape[s[2]] = 0]
    [] s[1] = "rebuild" -> [f EXCEPT !.shape[s[2]] = 2]
    [] s[1] = "version" -> [f EXCEPT !.ver = DB_VERSION]
    [] s[1] = "last" -> [f EXCEPT !.shape["hidelist"] = IF @ = 0 THEN 2 ELSE @,
                                  !.shape["sulist"] = IF @ = 0 THEN 2 ELSE @]
    [] OTHER -> f

----------------------------------------------------------------------------
\* The other connection is inside a statement on the same file: SQLITE_BUSY.
Busy(c) == \E d \in Conns \ {c} : conn[d].lock /\ conn[d].file = conn[c].file

OpenDb(c) ==
  /\ conn[c].pc = "closed"
  /\ path = 0 => Len(files) < MaxFiles
  /\ files' = IF path = 0 THEN Append(files, EmptyFile) ELSE files
  /\ path' = IF path = 0 THEN Len(files') ELSE path
  /\ conn' = [conn EXCEPT ![c].pc = "version", ![c].file = path']
  /\ UNCHANGED <<dbFailed, start, crashes>>

\* sqlite.cpp gives up; db.cpp deletes the file and tries once more, then
\* keeps the handle it has (db_exec_impl).
Fail(c) ==
  /\ dbFailed' = TRUE
  /\ IF c = "rust" THEN conn' = [conn EXCEPT ![c] = Closed] /\ path' = path
     ELSE IF conn[c].tries = 0
     THEN conn' = [conn EXCEPT ![c] = [Closed EXCEPT !.tries = 1]] /\ path' = 0
     ELSE conn' = [conn EXCEPT ![c].pc = "broken"] /\ path' = path
  /\ UNCHANGED <<files, start, crashes>>

\* Mutant: the check for a newer database refuses the current one, too.
TooNewOrCurrent(v) == v >= DB_VERSION
TooNew(v) == v > DB_VERSION

ReadVersion(c) ==
  LET v == files[conn[c].file].ver IN
  /\ conn[c].pc = "version"
  /\ IF Busy(c) \/ (c = "cpp" /\ TooNew(v)) THEN Fail(c)
     ELSE /\ IF TooNew(v)
             THEN path' = 0 /\ conn' = [conn EXCEPT ![c] = Closed]
             ELSE /\ LET todo == Upgrade(c, v) IN
                     conn' = [conn EXCEPT ![c].todo = todo,
                                          ![c].pc = IF todo = <<>> THEN "open" ELSE "run"]
                  /\ path' = path
          /\ UNCHANGED <<files, dbFailed, start, crashes>>

Begin(c) ==
  /\ conn[c].pc = "run" /\ ~conn[c].lock
  /\ IF ~Busy(c) THEN /\ conn' = [conn EXCEPT ![c].lock = TRUE]
                      /\ UNCHANGED <<files, path, dbFailed, start, crashes>>
     ELSE IF Head(conn[c].todo)[1] = "last"
     THEN /\ conn' = [conn EXCEPT ![c].pc = "open", ![c].todo = <<>>]
          /\ dbFailed' = TRUE
          /\ UNCHANGED <<files, path, start, crashes>>
     ELSE Fail(c)

Commit(c) ==
  LET s == Head(conn[c].todo) IN
  /\ conn[c].pc = "run" /\ conn[c].lock
  /\ IF StmtFails(s, files[conn[c].file]) THEN Fail(c)
     ELSE /\ files' = [files EXCEPT ![conn[c].file] = Stmt(s, @)]
          /\ conn' = [conn EXCEPT ![c].todo = Tail(@), ![c].lock = FALSE,
                                  ![c].pc = IF Len(conn[c].todo) = 1 THEN "open" ELSE @]
          /\ UNCHANGED <<path, dbFailed, start, crashes>>

\* The daemon dies and is started again: what is committed stays.
CrashDb ==
  /\ crashes < MaxCrashes
  /\ conn' = [c \in Conns |-> Closed]
  /\ crashes' = crashes + 1
  /\ UNCHANGED <<files, path, dbFailed, start>>

DbInit ==
  /\ start \in Versions
  /\ files = IF start = 0 THEN <<>> ELSE <<FileAt(start)>>
  /\ path = Len(files)
  /\ conn = [c \in Conns |-> Closed]
  /\ dbFailed = FALSE /\ crashes = 0

DbNext ==
  \/ CrashDb
  \/ \E c \in Conns : OpenDb(c) \/ ReadVersion(c) \/ Begin(c) \/ Commit(c)

DbSpec == DbInit /\ [][DbNext]_dbVars

----------------------------------------------------------------------------
(* Unless a statement failed, the two connections of a database that is    *)
(* not newer than the daemon are on the one file at its path; it is at the *)
(* current version with every table the connection uses in the current     *)
(* layout; the grants it was found with are still there, and the hide list *)
(* too if no upgrade was cut short by a crash.                             *)
OneDatabase ==
  ~dbFailed /\ start <= DB_VERSION =>
    \A c \in Conns : conn[c].pc = "open" =>
      LET f == files[conn[c].file] IN
      /\ conn[c].file = path /\ f.ver = DB_VERSION
      /\ \A t \in {"policies", "settings", "strings", "denylist"}
                   \cup (IF c = "cpp" THEN {"hidelist", "sulist"} ELSE {}) : f.shape[t] = 2
      /\ start > 0 => f.grants /\ (crashes = 0 => f.hidden)
=============================================================================
