------------------------------ MODULE SuAccess ------------------------------
(***************************************************************************)
(* Who gets a root shell (native/src/core/su/daemon.rs, su/db.rs and       *)
(* su/connect.cpp, with the manager's SuRequestHandler.kt).  Each request  *)
(* is a pool thread running su_daemon_handler.  It takes the decision from *)
(* the one cached SuInfo if that is for its uid and fresh, or builds a new *)
(* one from the database and replaces the cache.  An undecided SuInfo is   *)
(* decided by asking the user, with its mutex held, through a FIFO the     *)
(* manager writes to; the daemon gives up after 70 seconds, the manager    *)
(* does not know that and may still store the answer in the database.      *)
(*                                                                         *)
(* A uid is a user and an app.  Time is what can expire: the 3 seconds of  *)
(* a cached decision, the 70 seconds of a prompt, a temporary policy.      *)
(***************************************************************************)
EXTENDS Naturals

CONSTANTS Requests,     \* su requests, one daemon thread each
          None,         \* no request, no decision
          Uids,         \* the uids of the device
          Scenes,       \* who the requests come from, and the settings that stay
          MaxChanges    \* bound on changes of the database but for answers

SuPolicy == {"Query", "Deny", "Allow"}
RootAccess == {"Disabled", "AppsOnly", "AdbOnly", "AppsAndAdb"}
MultiuserMode == {"OwnerOnly", "OwnerManaged", "User"}

\* A decision: whom it is about, and what it is.
SuInfo == [uid : Uids, policy : SuPolicy]

ASSUME SuAssumption ==
    /\ None \notin Requests \cup SuInfo \cup SuPolicy \cup {"granted", "denied"}
    /\ Uids \subseteq [user : Nat, app : STRING]
    /\ \A u \in Uids : [u EXCEPT !.user = 0] \in Uids      \* apps are the owner's too
    /\ Scenes \subseteq [uid : [Requests -> Uids], multiuser : MultiuserMode,
                      sulist : BOOLEAN, listed : SUBSET STRING, manager : BOOLEAN]
    /\ MaxChanges \in Nat

VARIABLES
    uid,        \* uid[r]: cred.uid of request r
    pc,         \* pc[r]: where su_daemon_handler is
    snap,       \* snap[r]: the cached SuInfo that r has loaded
    hold,       \* hold[r]: the SuInfo r goes by
    info,       \* info[i]: the SuInfo built by request i
    fresh,      \* fresh[i]: was i's timestamp set less than 3 seconds ago?
    lock,       \* lock[i]: the request inside i's mutex
    cached,     \* cached_su_info
    outcome,    \* outcome[r]: "granted", "denied" or None
    ui,         \* ui[r]: the manager's dialog for the prompt of r
    fifo,       \* fifo[r]: what the manager has written to the FIFO
    reply,      \* reply[r]: the policy the manager will store for r
    db,         \* db[u]: the policies table; no row, or an expired one, is Query
    rootAccess, \* settings: root_access
    multiuser,  \* settings: multiuser_mode
    sulist,     \* settings: sulist
    listed,     \* apps that have a process called su on the list
    manager,    \* is the manager installed?
    changes,      \* number of changes made so far
    firm,       \* firm[r]: what the database has said since before r came,
                \* with nothing fresh in the cache, or None
    allowed     \* uids the user has ever allowed

daemonVars == <<pc, snap, hold, info, fresh, lock, cached, outcome>>
appVars == <<ui, fifo, reply>>
settings == <<rootAccess, multiuser, sulist, listed, manager>>
vars == <<uid, daemonVars, appVars, db, settings, changes, firm, allowed>>

\* "load" has a cached SuInfo for its uid; "settings" and "policy" are the two
\* queries of build_su_info; "prompt" waits for the FIFO.
Places == {"start", "load", "settings", "policy", "store", "sulist", "decide",
           "prompt", "done"}

AID_ROOT == [user |-> 0, app |-> "root"]
AID_SHELL == [user |-> 0, app |-> "shell"]

\* The uid whose policy counts (eval_uid).
Eval(u) == IF multiuser = "OwnerManaged" THEN [u EXCEPT !.user = 0] ELSE u

\* The checks on the settings in build_su_info.
Barred(u) ==
    \/ multiuser = "OwnerOnly" /\ u.user # 0
    \/ rootAccess = "Disabled"
    \/ rootAccess = "AdbOnly" /\ u # AID_SHELL
    \/ rootAccess = "AppsOnly" /\ u = AID_SHELL

\* The rest of build_su_info: the manager itself, nobody to ask, the policy.
\* (Rows have logging on, as the manager stores them, so it is always looked up.)
Policy(u) ==
    CASE u.app = "manager" /\ manager -> "Allow"
      [] db[Eval(u)] = "Query" /\ ~manager -> "Deny"
      [] OTHER -> db[Eval(u)]

\* uid_granted_root, outside SuList mode.
UidGrantedRoot(u) == u = AID_ROOT \/ (~Barred(u) /\ db[Eval(u)] = "Allow")

NewInfo(u, p) == [uid |-> u, policy |-> p]

Init ==
    /\ pc = [r \in Requests |-> "start"]
    /\ snap = [r \in Requests |-> None] /\ hold = [r \in Requests |-> None]
    /\ info = [r \in Requests |-> None]
    /\ fresh = [r \in Requests |-> FALSE]
    /\ lock = [r \in Requests |-> None]
    /\ cached = None
    /\ outcome = [r \in Requests |-> None]
    /\ ui = [r \in Requests |-> "none"]
    /\ fifo = [r \in Requests |-> None] /\ reply = [r \in Requests |-> "Query"]
    /\ db = [u \in Uids |-> "Query"]
    /\ rootAccess = "AppsAndAdb"
    /\ \E s \in Scenes :
           /\ uid = s.uid /\ multiuser = s.multiuser /\ sulist = s.sulist
           /\ listed = s.listed /\ manager = s.manager
    /\ changes = 0
    /\ firm = [r \in Requests |-> None]
    /\ allowed = {}

-----------------------------------------------------------------------------
(* get_su_info *)

\* The decision about u that the cache may hold is stale and nobody renews it.
Settled(u) ==
    cached # None /\ info[cached].uid = u =>
        ~fresh[cached] /\ \A q \in Requests : hold[q] = cached => pc[q] = "done"

\* What the database says about u now.
Verdict(u) == IF Barred(u) THEN "Deny" ELSE Policy(u)

\* The database alone decides about a request of u that comes now.
Firm(u) == ~sulist /\ u # AID_ROOT /\ Verdict(u) # "Query" /\ Settled(u)

\* The request is read; root is allowed without further ado, and the cached
\* SuInfo is loaded.
Arrive(r) ==
    LET u == uid[r] IN
    /\ pc[r] = "start"
    /\ firm' = [firm EXCEPT ![r] =
           IF Firm(u) THEN Verdict(u) ELSE None]
    /\ \/ /\ u = AID_ROOT
          /\ info' = [info EXCEPT ![r] = NewInfo(u, "Allow")]
          /\ hold' = [hold EXCEPT ![r] = r]
          /\ pc' = [pc EXCEPT ![r] = "sulist"]
          /\ UNCHANGED snap
       \/ /\ u # AID_ROOT
          /\ \/ /\ cached # None /\ info[cached].uid = u
                /\ snap' = [snap EXCEPT ![r] = cached]
                /\ pc' = [pc EXCEPT ![r] = "load"]
             \/ /\ cached # None => info[cached].uid # u
                /\ pc' = [pc EXCEPT ![r] = "settings"]
                /\ UNCHANGED snap
          /\ UNCHANGED <<info, hold>>
    /\ UNCHANGED <<uid, fresh, lock, cached, outcome, appVars, db, settings, changes, allowed>>

\* Variant: a cached decision never goes stale.
UseCachedStale(r) ==
    /\ pc[r] = "load"
    /\ lock[snap[r]] = None
    /\ hold' = [hold EXCEPT ![r] = snap[r]]
    /\ pc' = [pc EXCEPT ![r] = "sulist"]
    /\ UNCHANGED <<uid, snap, info, fresh, lock, cached, outcome, appVars, db, settings,
                   changes, firm, allowed>>

\* access.lock().is_fresh(): waits for a prompt that is going on.
UseCached(r) ==
    /\ pc[r] = "load"
    /\ lock[snap[r]] = None
    /\ \/ /\ fresh[snap[r]]
          /\ hold' = [hold EXCEPT ![r] = snap[r]]
          /\ pc' = [pc EXCEPT ![r] = "sulist"]
       \/ /\ ~fresh[snap[r]]
          /\ pc' = [pc EXCEPT ![r] = "settings"]
          /\ UNCHANGED hold
    /\ snap' = [snap EXCEPT ![r] = None]
    /\ UNCHANGED <<uid, info, fresh, lock, cached, outcome, appVars, db, settings,
                   changes, firm, allowed>>

\* The SuInfo is complete; access gets a new timestamp.
Built(r, p) ==
    /\ info' = [info EXCEPT ![r] = NewInfo(uid[r], p)]
    /\ fresh' = [fresh EXCEPT ![r] = TRUE]
    /\ pc' = [pc EXCEPT ![r] = "store"]

\* get_db_settings and the checks on them.
ReadSettings(r) ==
    /\ pc[r] = "settings"
    /\ \/ Barred(uid[r]) /\ Built(r, "Deny")
       \/ /\ ~Barred(uid[r])
          /\ pc' = [pc EXCEPT ![r] = "policy"]
          /\ UNCHANGED <<info, fresh>>
    /\ UNCHANGED <<uid, snap, hold, lock, cached, outcome, appVars, db, settings, changes,
                   firm, allowed>>

\* get_root_settings and the manager.
ReadPolicy(r) ==
    /\ pc[r] = "policy"
    /\ Built(r, Policy(uid[r]))
    /\ UNCHANGED <<uid, snap, hold, lock, cached, outcome, appVars, db, settings, changes,
                   firm, allowed>>

\* Variant: a failed query grants.
QueryFailsOpen(r) ==
    /\ pc[r] \in {"settings", "policy"}
    /\ Built(r, "Allow")
    /\ firm' = [firm EXCEPT ![r] = None]
    /\ UNCHANGED <<uid, snap, hold, lock, cached, outcome, appVars, db, settings, changes,
                   allowed>>

\* Either query fails: the request is denied, and that is cached too.
QueryFails(r) ==
    /\ pc[r] \in {"settings", "policy"}
    /\ Built(r, "Deny")
    /\ firm' = [firm EXCEPT ![r] = None]
    /\ UNCHANGED <<uid, snap, hold, lock, cached, outcome, appVars, db, settings, changes,
                   allowed>>

Store(r) ==
    /\ pc[r] = "store"
    /\ cached' = r
    /\ hold' = [hold EXCEPT ![r] = r]
    /\ pc' = [pc EXCEPT ![r] = "sulist"]
    /\ UNCHANGED <<uid, snap, info, fresh, lock, outcome, appVars, db, settings, changes,
                   firm, allowed>>

-----------------------------------------------------------------------------
(* su_daemon_handler, from the SuInfo on *)

\* SuList mode: is_deny_target is asked about the name of the calling process,
\* which is su, and knows no manager (its get_manager() is without a package
\* and returns -1).
SuList(r) ==
    /\ pc[r] = "sulist"
    /\ \/ /\ sulist /\ uid[r].app \notin listed
          /\ outcome' = [outcome EXCEPT ![r] = "denied"]
          /\ pc' = [pc EXCEPT ![r] = "done"]
       \/ /\ ~sulist \/ uid[r].app \in listed
          /\ pc' = [pc EXCEPT ![r] = "decide"]
          /\ UNCHANGED outcome
    /\ UNCHANGED <<uid, snap, hold, info, fresh, lock, cached, appVars, db, settings,
                   changes, firm, allowed>>

\* The end of the critical section: refresh, unlock, and reject or fork.
Conclude(r, p) ==
    /\ fresh' = [fresh EXCEPT ![hold[r]] = TRUE]
    /\ lock' = [lock EXCEPT ![hold[r]] = None]
    /\ outcome' = [outcome EXCEPT ![r] = IF p = "Deny" THEN "denied" ELSE "granted"]
    /\ pc' = [pc EXCEPT ![r] = "done"]

\* With a decided policy nothing more is asked.
Decide(r) ==
    /\ pc[r] = "decide"
    /\ lock[hold[r]] = None
    /\ info[hold[r]].policy # "Query"
    /\ Conclude(r, info[hold[r]].policy)
    /\ UNCHANGED <<uid, snap, hold, info, cached, appVars, db, settings, changes, firm,
                   allowed>>

\* app_request: the FIFO is made and the manager's dialog is started.
Prompt(r) ==
    /\ pc[r] = "decide"
    /\ lock[hold[r]] = None
    /\ info[hold[r]].policy = "Query"
    /\ lock' = [lock EXCEPT ![hold[r]] = r]
    /\ ui' = [ui EXCEPT ![r] = "shown"]
    /\ pc' = [pc EXCEPT ![r] = "prompt"]
    /\ UNCHANGED <<uid, snap, hold, info, fresh, cached, outcome, fifo, reply, db, settings,
                   changes, firm, allowed>>

\* Variant: the answer is not kept in the shared SuInfo.
AnsweredForOne(r, p) == Conclude(r, p) /\ UNCHANGED info

\* The answer settles the SuInfo for every request that shares it.
Answered(r, p) ==
    /\ info' = [info EXCEPT ![hold[r]].policy = p]
    /\ Conclude(r, p)

ReadAnswer(r) ==
    /\ pc[r] = "prompt"
    /\ fifo[r] # None
    /\ Answered(r, fifo[r])
    /\ fifo' = [fifo EXCEPT ![r] = None]
    /\ UNCHANGED <<uid, snap, hold, cached, ui, reply, db, settings, changes, firm, allowed>>

\* Variant: poll without a time-out.
PromptNeverTimesOut(r) == FALSE /\ UNCHANGED vars

\* 70 seconds without an answer.
PromptTimesOut(r) ==
    /\ pc[r] = "prompt"
    /\ fifo[r] = None
    /\ Answered(r, "Deny")
    /\ UNCHANGED <<uid, snap, hold, cached, appVars, db, settings, changes, firm, allowed>>

\* Three seconds have passed since the timestamp of i was set (only a SuInfo
\* somebody may still ask about).
Expire(i) ==
    /\ fresh[i]
    /\ cached = i \/ \E r \in Requests : pc[r] = "load" /\ snap[r] = i
    /\ fresh' = [fresh EXCEPT ![i] = FALSE]
    /\ UNCHANGED <<uid, pc, snap, hold, info, lock, cached, outcome, appVars, db, settings,
                   changes, firm, allowed>>

-----------------------------------------------------------------------------
(* The manager *)

Forget == firm' = [r \in Requests |-> None]

\* respond: the answer is written to the FIFO, if the daemon still has it; an
\* answer for longer than once is kept for the database.
UserAnswers(r) ==
    /\ ui[r] = "shown"
    /\ \E p \in {"Deny", "Allow"}, once \in BOOLEAN :
           /\ fifo' = IF pc[r] = "prompt" THEN [fifo EXCEPT ![r] = p] ELSE fifo
           /\ IF once
                THEN ui' = [ui EXCEPT ![r] = "none"] /\ UNCHANGED reply
                ELSE /\ ui' = [ui EXCEPT ![r] = "storing"]
                     /\ reply' = [reply EXCEPT ![r] = p]
           /\ allowed' = IF p = "Allow" THEN allowed \cup {Eval(uid[r])} ELSE allowed
    /\ UNCHANGED <<uid, daemonVars, db, settings, changes, firm>>

\* policyDB.update, after the FIFO was written or found gone.
AppStores(r) ==
    /\ ui[r] = "storing"
    /\ db' = [db EXCEPT ![Eval(uid[r])] = reply[r]]
    /\ ui' = [ui EXCEPT ![r] = "none"]
    /\ reply' = [reply EXCEPT ![r] = "Query"]
    /\ Forget
    /\ UNCHANGED <<uid, daemonVars, fifo, settings, changes, allowed>>

\* The superuser screen: the policy of a uid that may ask is changed.
UserEdits(u) ==
    /\ changes < MaxChanges
    /\ changes' = changes + 1
    /\ \E p \in {"Deny", "Allow"} \ {db[u]} :
           /\ db' = [db EXCEPT ![u] = p]
           /\ allowed' = IF p = "Allow" THEN allowed \cup {u} ELSE allowed
    /\ Forget
    /\ UNCHANGED <<uid, daemonVars, appVars, settings>>

\* The settings screen: root access.
UserSetsAccess ==
    /\ changes < MaxChanges
    /\ changes' = changes + 1
    /\ rootAccess' \in RootAccess \ {rootAccess}
    /\ Forget
    /\ UNCHANGED <<uid, daemonVars, appVars, db, multiuser, sulist, listed, manager, allowed>>

\* The row goes: a temporary policy ends (until > now), the user deletes it, or
\* prune_su_access does because the app is gone.
RowEnds(u) ==
    /\ db[u] # "Query"
    /\ changes < MaxChanges
    /\ changes' = changes + 1
    /\ db' = [db EXCEPT ![u] = "Query"]
    /\ Forget
    /\ UNCHANGED <<uid, daemonVars, appVars, settings, allowed>>

-----------------------------------------------------------------------------
DaemonStep(r) ==
    \/ Arrive(r) \/ UseCached(r) \/ ReadSettings(r) \/ ReadPolicy(r) \/ Store(r) \/ SuList(r)
    \/ Decide(r) \/ Prompt(r) \/ ReadAnswer(r) \/ PromptTimesOut(r)

Next ==
    \/ \E r \in Requests :
           \/ DaemonStep(r) \/ QueryFails(r) \/ Expire(r)
           \/ UserAnswers(r) \/ AppStores(r)
    \/ \E u \in {Eval(uid[r]) : r \in Requests} : UserEdits(u) \/ RowEnds(u)
    \/ UserSetsAccess

Spec == Init /\ [][Next]_vars

\* Every thread of the daemon is scheduled, and poll times out.  The user and
\* the manager may do nothing at all, or die half way through an answer.
FairSpec == Spec /\ \A r \in Requests : WF_vars(DaemonStep(r))

-----------------------------------------------------------------------------
(* Properties. *)

\* Nobody gets root on somebody else's word: whatever the cache held and
\* whoever replaced it meanwhile, a request is granted only to root, to the
\* manager, or to a uid for which the user has said yes at some time; and with
\* SuList on only to listed apps ("Only processes on sulist can invoke Kitsune
\* Mask root access").
GrantBacked ==
    \A r \in Requests : outcome[r] = "granted" =>
        /\ \/ uid[r] = AID_ROOT
           \/ uid[r].app = "manager" /\ manager
           \/ Eval(uid[r]) \in allowed
        /\ sulist => uid[r].app \in listed

\* The database decides: if it has held a decision since before the request
\* came, and no older decision in the cache was fresh then, the request is
\* answered that way and without a prompt.  The flag that zygisk
\* reports for an app (uid_granted_root) is the same decision, computed in
\* another place, under every multiuser mode.
DatabaseDecides ==
    /\ \A r \in Requests :
        /\ firm[r] = "Deny" => outcome[r] # "granted"
        /\ firm[r] = "Allow" => outcome[r] # "denied" /\ pc[r] # "prompt"
    /\ \A u \in Uids : u # AID_ROOT /\ u.app # "manager" =>
        (UidGrantedRoot(u) <=> Verdict(u) = "Allow")

\* Requests that share a SuInfo share its decision: the user is asked once, and
\* what they answered is what each of them gets, late or not.
SharedDecision ==
    \A q, r \in Requests :
        ~sulist /\ hold[q] = hold[r] /\ hold[q] # None /\ outcome[q] # None =>
            outcome[r] \in {outcome[q], None} /\ pc[r] # "prompt"

\* Every request is answered, though it may have to wait for the prompt of
\* another one and nobody answers that.
RequestsAnswered == \A r \in Requests : pc[r] = "load" \/ pc[r] = "prompt" ~> pc[r] = "done"

=============================================================================
