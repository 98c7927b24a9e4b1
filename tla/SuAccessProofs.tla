--------------------------- MODULE SuAccessProofs ---------------------------
(***************************************************************************)
(* Who gets a root shell, for any number of requests, uids and changes of  *)
(* the database: nobody on somebody else's word, as the database says if   *)
(* it says anything, and alike for all who share a decision.  And what     *)
(* they get: the shell they asked for, and its exit code, for any command  *)
(* line, streams and settings.                                             *)
(***************************************************************************)
EXTENDS SuAccess, SuShell, TLAPS

\* Most leaves are first-order; the others cite SMT.
USE Zenon

\* su_daemon_handler has its SuInfo.
Informed == {"sulist", "decide", "prompt", "done"}

Types ==
    /\ uid \in [Requests -> Uids]
    /\ pc \in [Requests -> Places]
    /\ snap \in [Requests -> Requests \cup {None}]
    /\ hold \in [Requests -> Requests \cup {None}]
    /\ info \in [Requests -> SuInfo \cup {None}]
    /\ fresh \in [Requests -> BOOLEAN]
    /\ lock \in [Requests -> Requests \cup {None}]
    /\ cached \in Requests \cup {None}
    /\ outcome \in [Requests -> {"granted", "denied", None}]
    /\ fifo \in [Requests -> {"Deny", "Allow", None}]
    /\ reply \in [Requests -> SuPolicy]
    /\ db \in [Uids -> SuPolicy]
    /\ firm \in [Requests -> {"Deny", "Allow", None}]

\* Request i has built a SuInfo about u, and others may go by it.
Shared(i, u) == pc[i] \in Informed /\ info[i] \in SuInfo /\ info[i].uid = u

\* What is cached, loaded or gone by is a finished SuInfo, and one for the uid
\* of the request.
Infos ==
    /\ cached # None => Shared(cached, info[cached].uid)
    /\ \A r \in Requests :
           /\ snap[r] # None => Shared(snap[r], uid[r])
           /\ hold[r] # None => Shared(hold[r], uid[r])
           /\ pc[r] = "load" => snap[r] # None
           /\ pc[r] \in Informed <=> hold[r] # None
           /\ pc[r] = "store" => info[r] \in SuInfo /\ info[r].uid = uid[r]

\* The word a grant to u rests on.
Backed(u) ==
    \/ u = AID_ROOT
    \/ u.app = "manager" /\ manager
    \/ Eval(u) \in allowed

\* Every place that says yes, from the database to the outcome, says it on the
\* word for that uid; and what is past the SuList check may be.
Words ==
    /\ \A u \in Uids : db[u] = "Allow" => u \in allowed
    /\ \A r \in Requests :
           /\ fifo[r] = "Allow" \/ reply[r] = "Allow" => Eval(uid[r]) \in allowed
           /\ info[r] \in SuInfo /\ info[r].policy = "Allow" => Backed(info[r].uid)
           /\ outcome[r] = "granted" => Backed(uid[r])
           /\ pc[r] \in {"decide", "prompt"} \/ outcome[r] = "granted" =>
                  (sulist => uid[r].app \in listed)

\* One request at a time prompts for a SuInfo, which is undecided till then; who
\* is done went by a SuInfo that is decided.
Prompts ==
    \A r \in Requests :
        /\ pc[r] = "prompt" => lock[hold[r]] = r /\ info[hold[r]].policy = "Query"
        /\ pc[r] = "done" <=> outcome[r] # None
        /\ ~sulist /\ pc[r] = "done" =>
               /\ info[hold[r]].policy # "Query"
               /\ outcome[r] = IF info[hold[r]].policy = "Deny" THEN "denied" ELSE "granted"

\* As long as the database is firm about a request, that request sees nothing
\* but the database: what it has loaded stays stale, and what it builds is what
\* the database says.
FirmFor(r) ==
    /\ ~sulist /\ uid[r] # AID_ROOT /\ Verdict(uid[r]) = firm[r]
    /\ pc[r] = "load" =>
           ~fresh[snap[r]] /\ \A q \in Requests : hold[q] = snap[r] => pc[q] = "done"
    /\ pc[r] = "policy" => ~Barred(uid[r])
    /\ pc[r] \in Informed \cup {"store"} => info[r].policy = firm[r]
    /\ pc[r] \in Informed => hold[r] = r

Firmness == \A r \in Requests : firm[r] # None => FirmFor(r)

IInv == Types /\ Infos /\ Words /\ Prompts /\ Firmness

-----------------------------------------------------------------------------
(* The helpers of build_su_info. *)

\* None is no request, no SuInfo, no policy and no outcome.
LEMMA NoneIsNone ==
    /\ None \notin Requests /\ None \notin SuInfo /\ None \notin SuPolicy
    /\ None # "Deny" /\ None # "Allow" /\ None # "granted" /\ None # "denied"
BY SuAssumption DEF SuPolicy

\* SuInfo::new keeps what it is given.
LEMMA NewInfoIs ==
    ASSUME NEW u \in Uids, NEW p \in SuPolicy
    PROVE  /\ NewInfo(u, p) \in SuInfo
           /\ NewInfo(u, p).uid = u /\ NewInfo(u, p).policy = p
BY DEF NewInfo, SuInfo

\* eval_uid is a uid.
LEMMA EvalTyped == ASSUME NEW u \in Uids PROVE Eval(u) \in Uids
BY SuAssumption DEF Eval

\* The policies table has a policy for whom build_su_info looks up, and an Allow
\* from it is backed.
LEMMA PolicyBacked ==
    ASSUME Types, Words, NEW u \in Uids
    PROVE  /\ Policy(u) \in SuPolicy /\ Verdict(u) \in SuPolicy
           /\ Policy(u) = "Allow" => Backed(u)
<1>1. Policy(u) \in SuPolicy /\ (Policy(u) = "Allow" => Backed(u))
    BY EvalTyped DEF Policy, Types, Words, Backed, SuPolicy
<1> QED BY <1>1 DEF Verdict, SuPolicy

\* While the database stays, so does what it says.
LEMMA DatabaseStays ==
    ASSUME UNCHANGED <<db, settings>>, NEW u
    PROVE  /\ Eval(u)' = Eval(u)
           /\ Barred(u)' = Barred(u)
           /\ Policy(u)' = Policy(u)
           /\ Verdict(u)' = Verdict(u)
<1>1. Eval(u)' = Eval(u) BY DEF Eval, settings
<1>2. Barred(u)' = Barred(u) BY DEF Barred, settings
<1>3. Policy(u)' = Policy(u) BY <1>1 DEF Policy, settings
<1> QED BY <1>1, <1>2, <1>3 DEF Verdict

\* A word once given stays given.
LEMMA WordsStay ==
    ASSUME UNCHANGED <<multiuser, manager>>, allowed \subseteq allowed', NEW u
    PROVE  Eval(u)' = Eval(u) /\ (Backed(u) => Backed(u)')
BY DEF Backed, Eval

\* Init satisfies the invariant.
LEMMA InitHolds == Init => IInv
<1> SUFFICES ASSUME Init PROVE IInv
    OBVIOUS
<1> USE NoneIsNone
<1>1. Types
    BY SuAssumption DEF Init, Types, Places, SuPolicy
<1>2. Infos
    BY DEF Init, Infos, Informed
<1>3. Words
    BY <1>1 DEF Init, Words, Types
<1>4. Prompts
    BY DEF Init, Prompts
<1>5. Firmness
    BY DEF Init, Firmness
<1> QED BY <1>1, <1>2, <1>3, <1>4, <1>5 DEF IInv

-----------------------------------------------------------------------------
(* get_su_info *)

\* A request arrives.
LEMMA ArriveHolds == ASSUME IInv, NEW r \in Requests, Arrive(r) PROVE IInv'
<1> USE NoneIsNone DEF IInv
<1>0. uid[r] \in Uids /\ UNCHANGED <<db, settings>>
    BY DEF Arrive, Types
<1>a. /\ NewInfo(uid[r], "Allow") \in SuInfo
      /\ NewInfo(uid[r], "Allow").uid = uid[r] /\ NewInfo(uid[r], "Allow").policy = "Allow"
    BY <1>0, NewInfoIs DEF SuPolicy
<1>b. ASSUME NEW u PROVE Eval(u)' = Eval(u) /\ (Backed(u) => Backed(u)')
    BY WordsStay DEF Arrive, settings
<1>1. Types'
    <2>1. firm' \in [Requests -> {"Deny", "Allow", None}]
        BY <1>0, PolicyBacked DEF Arrive, Types, Firm, SuPolicy
    <2>2. CASE uid[r] = AID_ROOT
        BY SMT, <1>a, <2>1, <2>2 DEF Arrive, Types, Places, appVars
    <2>3. CASE uid[r] # AID_ROOT
        BY SMT, <2>1, <2>3 DEF Arrive, Types, Places, appVars
    <2> QED BY <2>2, <2>3
<1>2. Infos'
    <2>1. CASE uid[r] = AID_ROOT
        BY SMT, <1>0, <1>a, <2>1 DEF Arrive, Types, Infos, Shared, Informed
    <2>2. CASE uid[r] # AID_ROOT
        BY SMT, <1>0, <2>2 DEF Arrive, Types, Infos, Shared, Informed
    <2> QED BY <2>1, <2>2
<1>3. Words'
    <2>1. CASE uid[r] = AID_ROOT
        <3>1. Backed(uid[r])'
            BY <2>1 DEF Arrive, Backed
        <3> QED BY SMT, <1>0, <1>a, <1>b, <2>1, <3>1 DEF Arrive, Types, Words, settings, appVars
    <2>2. CASE uid[r] # AID_ROOT
        BY SMTT(30), <1>0, <2>2
        DEF Arrive, Types, Infos, Words, Shared, Informed, Backed, settings, Eval, appVars
    <2> QED BY <2>1, <2>2
<1>4. Prompts'
    BY SMT, <1>0 DEF Arrive, Types, Infos, Prompts, Shared, Informed, settings
<1>5. Firmness'
    BY SMT, <1>0, DatabaseStays
    DEF Arrive, Types, Infos, Firmness, FirmFor, Shared, Informed, Firm, Settled, settings
<1> QED BY <1>1, <1>2, <1>3, <1>4, <1>5

\* The cached SuInfo is taken if it is fresh.
LEMMA UseCachedHolds == ASSUME IInv, NEW r \in Requests, UseCached(r) PROVE IInv'
<1> USE NoneIsNone DEF IInv
<1>0. UNCHANGED <<db, settings>>
    BY DEF UseCached
<1>1. Types'
    BY DEF UseCached, Types, Places, appVars
<1>2. Infos'
    BY SMT DEF UseCached, Types, Infos, Shared, Informed
<1>3. Words'
    BY SMT DEF UseCached, Types, Words, Backed, settings, Eval, appVars
<1>4. Prompts'
    BY SMT DEF UseCached, Types, Infos, Prompts, Shared, Informed, settings
<1>5. Firmness'
    BY SMT, <1>0, DatabaseStays
    DEF UseCached, Types, Infos, Firmness, FirmFor, Shared, Informed, settings
<1> QED BY <1>1, <1>2, <1>3, <1>4, <1>5

\* A SuInfo is built: nobody goes by it yet.
LEMMA BuiltHolds ==
    ASSUME IInv, NEW r \in Requests, NEW p \in SuPolicy, Built(r, p),
           pc[r] \in {"settings", "policy"}, p = "Allow" => Backed(uid[r]),
           firm' \in [Requests -> {"Deny", "Allow", None}],
           \A q \in Requests : q # r => firm'[q] = firm[q],
           firm'[r] \in {None, p} /\ (firm'[r] # None => firm[r] = p),
           UNCHANGED <<uid, snap, hold, lock, cached, outcome, appVars, db, settings,
                       changes, allowed>>
    PROVE  IInv'
<1> USE NoneIsNone DEF IInv
<1>0. /\ uid[r] \in Uids /\ NewInfo(uid[r], p) \in SuInfo
      /\ NewInfo(uid[r], p).uid = uid[r] /\ NewInfo(uid[r], p).policy = p
    BY SMT, NewInfoIs DEF Types
<1>1. Types'
    BY <1>0 DEF Built, Types, Places, appVars
<1>2. Infos'
    BY SMT, <1>0 DEF Built, Types, Infos, Shared, Informed
<1>3. Words'
    <2>1. \A u : Backed(u) => Backed(u)'
        BY DEF Backed, settings, Eval
    <2>2. \A q \in Requests : info'[q] = IF q = r THEN NewInfo(uid[r], p) ELSE info[q]
        BY DEF Built, Types
    <2>3. \A q \in Requests : pc'[q] \in {"decide", "prompt"} => pc'[q] = pc[q]
        BY DEF Built, Types
    <2> QED BY <1>0, <2>1, <2>2, <2>3 DEF Words, settings, Eval, appVars
<1>4. Prompts'
    BY SMT DEF Built, Types, Infos, Prompts, Shared, Informed, settings
<1>5. Firmness'
    BY SMT, <1>0, DatabaseStays
    DEF Built, Types, Infos, Firmness, FirmFor, Shared, Informed, settings
<1> QED BY <1>1, <1>2, <1>3, <1>4, <1>5

\* get_db_settings and get_root_settings, or a query that fails.
LEMMA BuildHolds ==
    ASSUME IInv, NEW r \in Requests, ReadSettings(r) \/ ReadPolicy(r) \/ QueryFails(r)
    PROVE  IInv'
<1> USE NoneIsNone DEF IInv
<1>0. uid[r] \in Uids /\ "Deny" \in SuPolicy /\ "Deny" # "Allow"
    BY DEF Types, SuPolicy
<1>1. CASE ReadSettings(r) /\ Barred(uid[r])
    <2>1. firm[r] # None => firm[r] = "Deny"
        BY <1>1 DEF Firmness, FirmFor, Verdict
    <2> QED BY <1>0, <1>1, <2>1, BuiltHolds DEF ReadSettings, Types
<1>2. CASE ReadSettings(r) /\ ~Barred(uid[r])
    <2> USE <1>2
    <2>0. UNCHANGED <<db, settings>>
        BY DEF ReadSettings
    <2>1. Types'
        BY DEF ReadSettings, Types, Places, appVars
    <2>2. Infos'
        BY SMT DEF ReadSettings, Types, Infos, Shared, Informed
    <2>3. Words'
        BY DEF ReadSettings, Types, Words, Backed, settings, Eval, appVars
    <2>4. Prompts'
        BY SMT DEF ReadSettings, Types, Infos, Prompts, Shared, Informed, settings
    <2>5. Firmness'
        BY SMT, <2>0, DatabaseStays
        DEF ReadSettings, Types, Infos, Firmness, FirmFor, Shared, Informed, settings
    <2> QED BY <2>1, <2>2, <2>3, <2>4, <2>5
<1>3. CASE ReadPolicy(r)
    <2>1. firm[r] # None => firm[r] = Policy(uid[r])
        BY <1>3 DEF ReadPolicy, Firmness, FirmFor, Verdict
    <2> QED BY <1>0, <1>3, <2>1, BuiltHolds, PolicyBacked DEF ReadPolicy, Types
<1>4. CASE QueryFails(r)
    BY <1>0, <1>4, BuiltHolds DEF QueryFails, Types
<1> QED BY <1>1, <1>2, <1>3, <1>4

\* The SuInfo goes into the cache.
LEMMA StoreHolds == ASSUME IInv, NEW r \in Requests, Store(r) PROVE IInv'
<1> USE NoneIsNone DEF IInv
<1>0. UNCHANGED <<db, settings>>
    BY DEF Store
<1>1. Types'
    BY DEF Store, Types, Places, appVars
<1>2. Infos'
    BY SMT DEF Store, Types, Infos, Shared, Informed
<1>3. Words'
    BY DEF Store, Types, Words, Backed, settings, Eval, appVars
<1>4. Prompts'
    BY SMT DEF Store, Types, Infos, Prompts, Shared, Informed, settings
<1>5. Firmness'
    BY SMT, <1>0, DatabaseStays
    DEF Store, Types, Infos, Firmness, FirmFor, Shared, Informed, settings
<1> QED BY <1>1, <1>2, <1>3, <1>4, <1>5

-----------------------------------------------------------------------------
(* su_daemon_handler, from the SuInfo on *)

\* The SuList check, and the start of a prompt.
LEMMA CheckHolds == ASSUME IInv, NEW r \in Requests, SuList(r) \/ Prompt(r) PROVE IInv'
<1> USE NoneIsNone DEF IInv
<1>0. UNCHANGED <<db, settings>>
    BY DEF SuList, Prompt
<1>1. Types'
    BY SMT DEF SuList, Prompt, Infos, Informed, Types, Places, appVars
<1>2. Infos'
    BY SMT DEF SuList, Prompt, Types, Infos, Shared, Informed
<1>3. Words'
    <2>1. ASSUME NEW u PROVE Eval(u)' = Eval(u) /\ (Backed(u) => Backed(u)')
        BY WordsStay DEF SuList, Prompt, settings
    <2> QED BY SMT, <2>1 DEF SuList, Prompt, Types, Words, settings, appVars
<1>4. Prompts'
    BY SMT DEF SuList, Prompt, Types, Infos, Prompts, Shared, Informed, settings
<1>5. Firmness'
    BY SMT, <1>0, DatabaseStays
    DEF SuList, Prompt, Types, Infos, Firmness, FirmFor, Shared, Informed, settings
<1> QED BY <1>1, <1>2, <1>3, <1>4, <1>5

\* A request ends with the decision p of the SuInfo it goes by, which it finds
\* there or has just put there.
LEMMA ConcludeHolds ==
    ASSUME IInv, NEW r \in Requests, NEW p \in {"Deny", "Allow"}, Conclude(r, p),
           pc[r] \in {"decide", "prompt"}, p = "Allow" => Backed(uid[r]),
           pc[r] = "decide" => lock[hold[r]] = None,
           info' \in [Requests -> SuInfo \cup {None}],
           \A i \in Requests : i # hold[r] => info'[i] = info[i],
           info[hold[r]].policy \in {"Query", p},
           info'[hold[r]] \in SuInfo, info'[hold[r]].uid = uid[r], info'[hold[r]].policy = p,
           fifo' \in [Requests -> {"Deny", "Allow", None}],
           \A q \in Requests : fifo'[q] \in {fifo[q], None},
           UNCHANGED <<uid, snap, hold, cached, ui, reply, db, settings, changes, firm, allowed>>
    PROVE  IInv'
<1> USE NoneIsNone DEF IInv
<1>0. hold[r] \in Requests /\ Shared(hold[r], uid[r])
    BY DEF Types, Infos, Informed
<1>1. Types'
    BY <1>0 DEF Conclude, Types, Places
<1>2. Infos'
    <2>1. ASSUME NEW i \in Requests, NEW u, Shared(i, u) PROVE Shared(i, u)'
        BY <1>0, <2>1 DEF Conclude, Types, Shared, Informed
    <2>2. ASSUME NEW q \in Requests
          PROVE  /\ pc'[q] = "load" => pc[q] = "load"
                 /\ pc'[q] \in Informed <=> pc[q] \in Informed
                 /\ pc'[q] = "store" => pc[q] = "store"
                 /\ pc[q] = "store" => q # hold[r]
        BY <1>0 DEF Conclude, Types, Shared, Informed
    <2>3. cached # None => info[cached].uid = info'[cached].uid
        BY <1>0 DEF Types, Shared
    <2> QED BY SMT, <2>1, <2>2, <2>3 DEF Types, Infos
<1>3. Words'
    <2>1. ASSUME NEW u PROVE Eval(u)' = Eval(u) /\ (Backed(u) => Backed(u)')
        BY WordsStay DEF settings
    <2>2. outcome'[r] = "granted" => p = "Allow"
        BY DEF Conclude, Types
    <2>3. \A q \in Requests : q # r => outcome'[q] = outcome[q] /\ pc'[q] = pc[q]
        BY DEF Conclude, Types
    <2> QED BY SMT, <1>0, <2>1, <2>2, <2>3 DEF Conclude, Types, Words, settings
<1>4. Prompts'
    BY SMTT(30), <1>0 DEF Conclude, Types, Infos, Prompts, Shared, Informed, settings
<1>5. Firmness'
    BY SMTT(30), <1>0, DatabaseStays
    DEF Conclude, Types, Infos, Firmness, FirmFor, Shared, Informed, settings
<1> QED BY <1>1, <1>2, <1>3, <1>4, <1>5

\* The three ways a request ends.
LEMMA DecisionHolds ==
    ASSUME IInv, NEW r \in Requests, Decide(r) \/ ReadAnswer(r) \/ PromptTimesOut(r)
    PROVE  IInv'
<1> USE NoneIsNone DEF IInv
<1>0. hold[r] \in Requests /\ Shared(hold[r], uid[r])
    BY DEF Types, Infos, Informed, Decide, ReadAnswer, PromptTimesOut
<1>1. CASE Decide(r)
    <2>1. info[hold[r]].policy \in {"Deny", "Allow"}
        BY <1>0, <1>1 DEF Decide, Shared, SuInfo, SuPolicy
    <2>2. info[hold[r]].policy = "Allow" => Backed(uid[r])
        BY <1>0 DEF Words, Shared
    <2>3. UNCHANGED <<uid, snap, hold, info, cached, fifo, ui, reply, db, settings, changes,
                      firm, allowed>>
        BY <1>1 DEF Decide, appVars
    <2>4. /\ info' \in [Requests -> SuInfo \cup {None}]
          /\ info'[hold[r]] \in SuInfo /\ info'[hold[r]].uid = uid[r]
          /\ info'[hold[r]].policy = info[hold[r]].policy
        BY <1>0, <2>3 DEF Shared, Types
    <2>5. /\ fifo' \in [Requests -> {"Deny", "Allow", None}]
          /\ \A q \in Requests : fifo'[q] \in {fifo[q], None}
        BY <2>3 DEF Types
    <2>6. /\ pc[r] = "decide" /\ lock[hold[r]] = None
          /\ Conclude(r, info[hold[r]].policy)
        BY <1>1 DEF Decide
    <2> QED BY <2>1, <2>2, <2>3, <2>4, <2>5, <2>6, ConcludeHolds
<1>2. ASSUME pc[r] = "prompt", NEW p \in {"Deny", "Allow"}, Answered(r, p)
      PROVE  /\ info' \in [Requests -> SuInfo \cup {None}]
             /\ \A i \in Requests : i # hold[r] => info'[i] = info[i]
             /\ info[hold[r]].policy \in {"Query", p}
             /\ info'[hold[r]] \in SuInfo /\ info'[hold[r]].uid = uid[r]
             /\ info'[hold[r]].policy = p
             /\ Conclude(r, p)
    <2>1. /\ [info[hold[r]] EXCEPT !.policy = p] \in SuInfo
          /\ [info[hold[r]] EXCEPT !.policy = p].uid = uid[r]
          /\ [info[hold[r]] EXCEPT !.policy = p].policy = p
        BY <1>0 DEF Shared, SuInfo, SuPolicy
    <2>2. info' = [info EXCEPT ![hold[r]] = [info[hold[r]] EXCEPT !.policy = p]]
        BY <1>2 DEF Answered
    <2> QED BY SMT, <1>0, <1>2, <2>1, <2>2 DEF Answered, Types, Prompts
<1>3. CASE ReadAnswer(r)
    <2>1. fifo[r] \in {"Deny", "Allow"} /\ (fifo[r] = "Allow" => Backed(uid[r]))
        BY <1>3 DEF ReadAnswer, Types, Words, Backed
    <2>2. \A q \in Requests : fifo'[q] \in {fifo[q], None}
        BY <1>3 DEF ReadAnswer, Types
    <2>3. fifo' \in [Requests -> {"Deny", "Allow", None}]
        BY <1>3 DEF ReadAnswer, Types
    <2> QED BY <1>2, <1>3, <2>1, <2>2, <2>3, ConcludeHolds DEF ReadAnswer
<1>4. CASE PromptTimesOut(r)
    BY <1>2, <1>4, ConcludeHolds DEF PromptTimesOut, Types, appVars
<1> QED BY <1>1, <1>3, <1>4

\* Three seconds pass.
LEMMA ExpireHolds == ASSUME IInv, NEW i \in Requests, Expire(i) PROVE IInv'
<1> USE NoneIsNone DEF IInv
<1>0. UNCHANGED <<db, settings>>
    BY DEF Expire
<1>1. Types'
    BY DEF Expire, Types, appVars
<1>2. Infos'
    BY DEF Expire, Infos, Shared
<1>3. Prompts'
    BY DEF Expire, Prompts, settings
<1>4. Words'
    BY DEF Expire, Words, Backed, settings, Eval, appVars
<1>5. Firmness'
    BY SMTT(30), <1>0, DatabaseStays DEF Expire, Types, Firmness, FirmFor, settings
<1> QED BY <1>1, <1>2, <1>3, <1>4, <1>5

-----------------------------------------------------------------------------
(* The manager *)

\* The user answers a prompt, in time or late.
LEMMA UserAnswersHolds == ASSUME IInv, NEW r \in Requests, UserAnswers(r) PROVE IInv'
<1> USE NoneIsNone DEF IInv
<1>0. UNCHANGED <<db, settings>> /\ UNCHANGED <<uid, daemonVars, firm>>
    BY DEF UserAnswers
<1>1. Types'
    BY SMT, <1>0 DEF UserAnswers, Types, daemonVars, SuPolicy
<1>2. Infos' /\ Prompts'
    BY <1>0 DEF Infos, Prompts, Shared, daemonVars, settings
<1>3. Words'
    <2>1. allowed \subseteq allowed'
        BY DEF UserAnswers
    <2>2. ASSUME NEW u PROVE Eval(u)' = Eval(u) /\ (Backed(u) => Backed(u)')
        BY <1>0, <2>1, WordsStay DEF settings
    <2>3. ASSUME NEW q \in Requests, fifo'[q] = "Allow" \/ reply'[q] = "Allow"
          PROVE  Eval(uid[q]) \in allowed'
        BY <2>1, <2>3 DEF UserAnswers, Types, Words
    <2> QED BY <1>0, <2>1, <2>2, <2>3 DEF Words, daemonVars, settings
<1>4. Firmness'
    BY <1>0, DatabaseStays DEF Firmness, FirmFor, daemonVars, settings
<1> QED BY <1>1, <1>2, <1>3, <1>4

\* The database changes: an answer is stored, a policy edited or ended, root
\* access set.  No request is firm after that.
LEMMA DatabaseChangeHolds ==
    ASSUME IInv, Forget, UNCHANGED <<uid, daemonVars, fifo, multiuser, sulist, listed, manager>>,
           db' \in [Uids -> SuPolicy], reply' \in [Requests -> SuPolicy],
           allowed \subseteq allowed',
           \A u \in Uids : db'[u] = "Allow" => u \in allowed',
           \A r \in Requests : reply'[r] \in {reply[r], "Query"}
    PROVE  IInv'
<1> USE NoneIsNone DEF IInv
<1>1. Types'
    BY DEF Forget, Types, daemonVars
<1>2. Infos' /\ Prompts'
    BY DEF Infos, Prompts, Shared, daemonVars
<1>3. Words'
    BY DEF Words, Backed, Eval, daemonVars
<1>4. Firmness'
    BY DEF Forget, Firmness
<1> QED BY <1>1, <1>2, <1>3, <1>4

\* The manager's screens, and the answers that it stores.
LEMMA ManagerHolds ==
    ASSUME IInv, \/ \E r \in Requests : AppStores(r)
                 \/ \E u \in {Eval(uid[r]) : r \in Requests} : UserEdits(u) \/ RowEnds(u)
                 \/ UserSetsAccess
    PROVE  IInv'
<1> USE DEF IInv, settings, appVars
<1>0. ASSUME NEW r \in Requests PROVE Eval(uid[r]) \in Uids
    BY EvalTyped DEF Types
<1>1. ASSUME NEW r \in Requests, AppStores(r) PROVE IInv'
    <2>1. db' \in [Uids -> SuPolicy] /\ reply' \in [Requests -> SuPolicy]
        BY <1>0, <1>1 DEF AppStores, Types, SuPolicy
    <2>2. \A u \in Uids : db'[u] = "Allow" => u \in allowed'
        BY <1>0, <1>1 DEF AppStores, Types, Words
    <2>3. \A q \in Requests : reply'[q] \in {reply[q], "Query"}
        BY <1>1 DEF AppStores, Types
    <2> QED BY <1>1, <2>1, <2>2, <2>3, DatabaseChangeHolds DEF AppStores
<1>2. ASSUME NEW u \in Uids, UserEdits(u) \/ RowEnds(u) PROVE IInv'
    <2>1. db' \in [Uids -> SuPolicy]
        BY <1>2 DEF UserEdits, RowEnds, Types, SuPolicy
    <2>2. \A v \in Uids : db'[v] = "Allow" => v \in allowed'
        <3>1. \A v \in Uids : db[v] = "Allow" => v \in allowed
            BY DEF Words
        <3>2. CASE UserEdits(u)
            BY <3>1, <3>2 DEF UserEdits, Types
        <3>3. CASE RowEnds(u)
            BY <3>1, <3>3 DEF RowEnds, Types
        <3> QED BY <1>2, <3>2, <3>3
    <2>3. reply' = reply /\ reply \in [Requests -> SuPolicy] /\ allowed \subseteq allowed'
        BY <1>2 DEF UserEdits, RowEnds, Types
    <2> QED BY <1>2, <2>1, <2>2, <2>3, DatabaseChangeHolds DEF UserEdits, RowEnds
<1>3. CASE UserSetsAccess
    BY <1>3, DatabaseChangeHolds DEF UserSetsAccess, Types, Words
<1> QED BY <1>0, <1>1, <1>2, <1>3

-----------------------------------------------------------------------------
\* Every step keeps the invariant.
LEMMA NextHolds == IInv /\ [Next]_vars => IInv'
<1> SUFFICES ASSUME IInv, [Next]_vars PROVE IInv'
    OBVIOUS
<1>1. ASSUME NEW r \in Requests, DaemonStep(r) PROVE IInv'
    BY <1>1, ArriveHolds, UseCachedHolds, BuildHolds, StoreHolds, CheckHolds, DecisionHolds
    DEF DaemonStep
<1>2. ASSUME NEW r \in Requests, QueryFails(r) \/ Expire(r) \/ UserAnswers(r) PROVE IInv'
    BY <1>2, BuildHolds, ExpireHolds, UserAnswersHolds
<1>3. CASE UNCHANGED vars
    BY SMT, <1>3
    DEF vars, daemonVars, appVars, settings, IInv, Types, Infos, Shared, Words, Backed, Prompts,
        Firmness, FirmFor, Verdict, Barred, Policy, Eval
<1> QED BY <1>1, <1>2, <1>3, ManagerHolds DEF Next

\* The invariant of the daemon and the manager holds of every request handled.
THEOREM Inductive == Spec => []IInv
BY InitHolds, NextHolds, PTL DEF Spec

\* A root shell goes to root, to the manager, or to a uid the user has said yes
\* for, and with SuList on to listed apps only: su_daemon_handler grants nothing on
\* the strength of a decision about somebody else.
THEOREM GrantsAreBacked == Spec => []GrantBacked
<1>1. IInv => GrantBacked
    BY DEF IInv, Words, Backed, GrantBacked
<1> QED BY <1>1, Inductive, PTL

\* build_su_info and uid_granted_root both say what the database says, and a
\* request that came to a stale cache ends that way.
THEOREM DatabaseHasItsWay == Spec => []DatabaseDecides
<1>1. ASSUME IInv PROVE DatabaseDecides
    <2>1. ASSUME NEW r \in Requests
          PROVE  /\ firm[r] = "Deny" => outcome[r] # "granted"
                 /\ firm[r] = "Allow" => outcome[r] # "denied" /\ pc[r] # "prompt"
        BY SMT, <1>1, NoneIsNone DEF IInv, Types, Prompts, Firmness, FirmFor, Informed
    <2>2. ASSUME NEW u \in Uids, u # AID_ROOT, u.app # "manager"
          PROVE  UidGrantedRoot(u) <=> Verdict(u) = "Allow"
        BY <2>2 DEF UidGrantedRoot, Verdict, Policy
    <2> QED BY <2>1, <2>2 DEF DatabaseDecides
<1> QED BY <1>1, Inductive, PTL

\* Requests that go by one SuInfo end alike: the answer of the user is kept in it.
THEOREM DecisionIsShared == Spec => []SharedDecision
<1>1. ASSUME IInv PROVE SharedDecision
    <2>1. \A r \in Requests : outcome[r] # None <=> pc[r] = "done"
        BY <1>1 DEF IInv, Prompts
    <2>2. ASSUME NEW q \in Requests, NEW r \in Requests,
                 ~sulist, hold[q] = hold[r], outcome[q] # None
          PROVE  outcome[r] \in {outcome[q], None} /\ pc[r] # "prompt"
        <3>1. pc[q] = "done"
            BY <2>1, <2>2
        <3>2. info[hold[r]].policy # "Query"
            BY <1>1, <2>2, <3>1 DEF IInv, Prompts
        <3>3. pc[r] # "prompt"
            BY <1>1, <3>2 DEF IInv, Prompts
        <3>4. outcome[r] # None => outcome[r] = outcome[q]
            BY SMT, <1>1, <2>1, <2>2, <3>1 DEF IInv, Prompts
        <3> QED BY <3>3, <3>4
    <2> QED BY <2>2 DEF SharedDecision
<1> QED BY <1>1, Inductive, PTL

\* An answer is for good: a SuInfo that is decided is never decided again while
\* it can be found, whoever prompts, times out or answers late.
THEOREM DecisionIsFinal ==
    Spec => [][\A i \in Requests : Shared(i, info[i].uid) /\ info[i].policy # "Query" =>
                   info'[i] = info[i]]_vars
<1> DEFINE Final == \A i \in Requests :
               Shared(i, info[i].uid) /\ info[i].policy # "Query" => info'[i] = info[i]
<1>1. ASSUME IInv, [Next]_vars PROVE Final \/ UNCHANGED vars
    <2>1. ASSUME NEW r \in Requests, DaemonStep(r) \/ QueryFails(r) PROVE Final
        <3>1. \/ UNCHANGED info
              \/ pc[r] \notin Informed /\ \A i \in Requests : i # r => info'[i] = info[i]
              \/ pc[r] = "prompt" /\ \A i \in Requests : i # hold[r] => info'[i] = info[i]
            BY ZenonT(30), <1>1, <2>1
            DEF IInv, Types, Informed, DaemonStep, Arrive, UseCached, ReadSettings, ReadPolicy, QueryFails,
                Built, Store, SuList, Decide, Prompt, ReadAnswer, PromptTimesOut, Answered
        <3>2. pc[r] = "prompt" => info[hold[r]].policy = "Query"
            BY <1>1 DEF IInv, Prompts
        <3> QED BY <3>1, <3>2 DEF Shared
    <2>2. CASE UNCHANGED info
        BY <2>2
    <2> QED BY <1>1, <2>1, <2>2
        DEF Next, Expire, UserAnswers, AppStores, UserEdits, RowEnds, UserSetsAccess, daemonVars
<1> QED BY <1>1, Inductive, PTL DEF Spec

----------------------------------------------------------------------------
(* The su applet, the daemon's thread and the shell (SuShell).             *)

\* What goes over the socket, and where the applet and the child may be.
Descriptors == {"in", "out", "err", "ptmx", "pts", NoFd}
Message == ({"int"} \X Int) \cup ({"fd"} \X Descriptors)
ClientPlaces == {"start", "ack", "ptmx", "pump", "deaf", "code", "done"}
ChildPlaces == {"none", "fds", "pty", "exec", "shell", "gone"}

\* The records have their fields.
IsRequest(r) == /\ DOMAIN r = {"command", "interactive", "target", "gids", "bad"}
                /\ r.target \in Int /\ r.gids \in Seq(Int)
IsClient(c) == DOMAIN c = {"pc", "result"} /\ c.pc \in ClientPlaces
IsChild(c) == /\ DOMAIN c = {"pc", "fds", "ns", "gid", "code"}
              /\ c.pc \in ChildPlaces /\ c.fds \in Seq(Descriptors) /\ c.code \in Int
              /\ c.pc \in {"none", "fds"} => Len(c.fds) < 3
              /\ c.pc = "pty" => Len(c.fds) = 3

\* The types.
ShTypes ==
    /\ opts \in OptionLists /\ optind \in 1..Len(opts) + 1 /\ IsRequest(request)
    /\ mode \in Modes /\ stdio \in [StdNames -> Terminals]
    /\ IsClient(client) /\ IsChild(child) /\ server \in {"none", "decide", "wait", "closed"}
    /\ up \in Seq(Message) /\ down \in Seq(Message) /\ pty \in BOOLEAN

\* -g and -G.
Group(i) == opts[i][1] \in {"g", "G"}

\* What the options before optind come to, unless one of them ended the applet.
Asked ==
    \A i \in 1..Len(opts) : i < optind /\ Given(i) =>
      /\ opts[i][1] = "M" => request.target = 0
      /\ opts[i][1] = "t" => request.target = opts[i][2] /\ opts[i][2] >= 0
      /\ Group(i) /\ (\A j \in 1..i - 1 : ~Group(j)) =>
           request.gids # <<>> /\ request.gids[1] = opts[i][2]
\* There is a group only if one was given.
Grouped == request.gids # <<>> => \E i \in 1..Len(opts) : i < optind /\ Group(i)

\* The options are read first; one that is bad ends the applet.
Parsed ==
    /\ client.pc = "start" => server = "none" /\ ~request.bad
    /\ server # "none" => ~request.bad /\ optind > Len(opts)
    /\ client.pc = "start" /\ optind <= Len(opts) => Given(optind)
    /\ ~request.bad => Asked /\ Grouped

\* The child comes after the daemon's decision.
Begun == server \in {"none", "decide"} => child.pc = "none"

\* How far the three are: who waits for whom before the streams are sent.
Phases ==
    /\ server = "none" => client.pc \in {"start", "done"}
    /\ server = "decide" => client.pc = "ack"
    /\ server = "wait" => child.pc # "none"
    /\ server = "closed" => child.pc \in {"none", "gone"}
    /\ child.pc = "none" => client.pc \in {"start", "ack", "done"} /\ child.fds = <<>>
    /\ child.pc = "none" \/ client.pc = "ack" => up = <<>> /\ ~pty
    /\ client.pc = "ack" /\ child.pc # "none" =>
         server = "wait" /\ child.pc = "fds" /\ child.fds = <<>> /\ down = <<<<"int", 0>>>>
    /\ client.pc = "ack" /\ child.pc = "none" /\ down # <<>> =>
         server = "closed" /\ down[1] = <<"int", 1>>
    /\ client.pc \in {"ptmx", "pump", "deaf"} => NeedsPty
    /\ client.pc = "start" => down = <<>>

\* The messages of the applet, and how many of them the child has taken.
Sent(i) == IF i = 4 THEN <<"int", IF NeedsPty THEN 1 ELSE 0>>
           ELSE IF Atty(Std[i]) THEN <<"int", 0>> ELSE <<"fd", Std[i]>>
Taken == IF child.pc = "fds" THEN Len(child.fds) ELSE IF child.pc = "pty" THEN 3 ELSE 4
Past == client.pc # "ack" /\ child.pc # "none"

\* What is under way to the child, and what the child has made of the rest.
Upward ==
    AllOpen =>
    /\ Past => Len(up) = 4 - Taken /\ \A i \in 1..Len(up) : up[i] = Sent(Taken + i)
    /\ child.pc \in {"fds", "pty"} =>
         /\ ~pty
         /\ \A i \in 1..Len(child.fds) : child.fds[i] = IF Atty(Std[i]) THEN NoFd ELSE Std[i]
    /\ child.pc \in {"exec", "shell"} =>
         /\ NeedsPty => pty
         /\ \A i \in 1..3 : child.fds[i] = IF Atty(Std[i]) THEN "pts" ELSE Std[i]

\* What is under way to the applet: the terminal, then the exit code.
Whole == AllOpen /\ (NeedsPty /\ child.pc = "gone" => pty)
Terminal == IF client.pc = "ptmx" /\ pty THEN 1 ELSE 0
Downward ==
    Whole /\ Past =>
    /\ Len(down) = IF server = "closed" THEN Terminal + 1 ELSE Terminal
    /\ Terminal = 1 => down[1] = <<"fd", "ptmx">>
    /\ server = "closed" => down[Terminal + 1] = <<"int", child.code>>
    /\ client.pc \in {"pump", "code", "done"} /\ NeedsPty => pty
    /\ client.pc # "deaf"
    /\ client.pc = "done" => child.pc = "gone" /\ client.result = <<"code", child.code>>

\* The shell is in the namespace and the group the request came to.
Ran == child.pc = "shell" => child.ns = Namespace /\ child.gid = Gid

\* The invariant.
ShellInv == ShTypes /\ Parsed /\ Begun /\ Phases /\ Upward /\ Downward /\ Ran

\* What Append does.
LEMMA AppendOne ==
  ASSUME NEW S, NEW s \in Seq(S), NEW e \in S
  PROVE  /\ Append(s, e) \in Seq(S) /\ Len(Append(s, e)) = Len(s) + 1
         /\ \A i \in 1..Len(s) : Append(s, e)[i] = s[i]
         /\ Append(s, e)[Len(s) + 1] = e
  BY SMT

\* The same of a sequence with a name.
LEMMA AppendTo ==
  ASSUME NEW S, NEW s \in Seq(S), NEW e \in S, NEW q, q = Append(s, e)
  PROVE  /\ Len(s) \in Nat /\ Len(q) = Len(s) + 1 /\ q[Len(s) + 1] = e
         /\ \A i \in 1..Len(s) : q[i] = s[i]
  BY SMT

\* What Tail does.
LEMMA TailOne ==
  ASSUME NEW S, NEW s \in Seq(S), s # <<>>
  PROVE  /\ Tail(s) \in Seq(S) /\ Len(Tail(s)) = Len(s) - 1 /\ Len(s) \in Nat \ {0}
         /\ \A i \in 1..Len(Tail(s)) : Tail(s)[i] = s[i + 1]
         /\ s[1] \in S
  BY SMT

\* An option is a letter and a number.
LEMMA OptionType ==
  ASSUME opts \in OptionLists, NEW i \in 1..Len(opts)
  PROVE  opts[i] \in STRING \X Int /\ opts[i][2] \in Int
<1>1. opts \in Seq(STRING \X Int) BY ShellAssumption
<1> QED BY SMT, <1>1

\* An option keeps the request a request.
LEMMA ParseType ==
  ASSUME NEW r, IsRequest(r), NEW o \in STRING \X Int
  PROVE  IsRequest(Parse(r, o))
<1>1. o[2] \in Int /\ o[1] \in STRING BY SMT
<1>2. Append(r.gids, o[2]) \in Seq(Int) BY SMT, <1>1 DEF IsRequest
<1> QED BY SMT, <1>1, <1>2 DEF Parse, IsRequest

\* ClientGoes keeps the record one.
LEMMA GoesType ==
  ASSUME IsClient(client), NEW p \in ClientPlaces, NEW e, ClientGoes(p, e)
  PROVE  IsClient(client') /\ client'.pc = p /\ client'.result = e
  BY SMT DEF IsClient, ClientGoes

\* A number or a descriptor is a message.
LEMMA MessageType == \A n \in Int, s \in Descriptors : <<"int", n>> \in Message /\ <<"fd", s>> \in Message
<1>1. \A S, T : \A a \in S, b \in T : <<a, b>> \in S \X T BY SMT
<1>2. "int" \in {"int"} /\ "fd" \in {"fd"} OBVIOUS
<1> QED BY <1>1, <1>2 DEF Message

\* The types hold at first.
LEMMA ShTypesInit == SuInit => ShTypes
<1>0. IsRequest(NoRequest) BY SMT DEF NoRequest, IsRequest
<1>1. IsClient([pc |-> "start", result |-> ""]) BY SMT DEF IsClient, ClientPlaces
<1>2. IsChild([pc |-> "none", fds |-> <<>>, ns |-> <<0, FALSE>>, gid |-> 0, code |-> 0])
  BY SMT DEF IsChild, ChildPlaces
<1>3. \A q \in Seq(STRING \X Int) : 1 \in 1..Len(q) + 1 BY SMT
<1>4. <<>> \in Seq(Message) BY SMT
<1>5. OptionLists \subseteq Seq(STRING \X Int) BY ShellAssumption
<1> QED BY <1>0, <1>1, <1>2, <1>3, <1>4, <1>5 DEF SuInit, ShTypes

\* The types are kept.
LEMMA ShTypesNext == ShTypes /\ Begun /\ [SuNext]_suVars => ShTypes'
<1> SUFFICES ASSUME ShTypes, Begun, [SuNext]_suVars PROVE ShTypes' OBVIOUS
<1>m. <<"fd", "ptmx">> \in Message /\ \A n \in Int : <<"int", n>> \in Message
  <2>1. 0 \in Int /\ "ptmx" \in Descriptors BY SMT DEF Descriptors
  <2> QED BY <2>1, MessageType
<1>a. ASSUME UNCHANGED <<opts, optind, request, stdio, mode>>, IsClient(client'), IsChild(child'),
             server' \in {"none", "decide", "wait", "closed"}, up' \in Seq(Message),
             down' \in Seq(Message), pty' \in BOOLEAN
      PROVE  ShTypes'
  BY <1>a DEF ShTypes
<1> HIDE DEF Message
<1>c. ASSUME NEW p \in ClientPlaces, NEW e, ClientGoes(p, e) PROVE IsClient(client')
  BY <1>c, GoesType DEF ShTypes
<1>k. ASSUME NEW p \in ChildPlaces, NEW q \in Seq(Descriptors),
             p \in {"none", "fds"} => Len(q) < 3, p = "pty" => Len(q) = 3
      PROVE  /\ IsChild([child EXCEPT !.pc = p, !.fds = q])
             /\ IsChild([child EXCEPT !.fds = q, !.pc = p])
  BY SMT, <1>k DEF ShTypes, IsChild
<1>q. ASSUME NEW m \in Message
      PROVE  Append(down, m) \in Seq(Message) /\ <<m>> \in Seq(Message) /\ <<>> \in Seq(Message)
  BY SMT DEF ShTypes
<1>t. /\ up # <<>> => Tail(up) \in Seq(Message) /\ up[1] \in Message
      /\ down # <<>> => Tail(down) \in Seq(Message)
  BY TailOne DEF ShTypes
<1>1. CASE GetOpt
  <2>1. optind \in 1..Len(opts) /\ optind \in Int /\ Len(opts) \in Nat
    <3>1. opts \in Seq(STRING \X Int) BY ShellAssumption DEF ShTypes
    <3> QED BY SMT, <1>1, <3>1 DEF GetOpt, ShTypes
  <2>2. IsRequest(request') BY <1>1, <2>1, OptionType, ParseType DEF GetOpt, ShTypes
  <2>3. optind' \in 1..Len(opts) + 1 BY SMT, <1>1, <2>1 DEF GetOpt
  <2>4. IsClient(client')
    BY <1>1, <1>c DEF GetOpt, ShTypes, ClientPlaces
  <2> QED BY <1>1, <2>2, <2>3, <2>4 DEF GetOpt, ShTypes
<1>2. CASE SuStart
  BY <1>2, <1>a, <1>c DEF SuStart, settled, ShTypes, ClientPlaces
<1>3. CASE Serve
  <2>1. 0 \in Int /\ 1 \in Int BY SMT
  <2>2. child.pc = "none" BY <1>3 DEF Serve, Begun
  <2>3. IsChild([child EXCEPT !.pc = "fds"]) BY SMT, <2>2 DEF ShTypes, IsChild, ChildPlaces
  <2>4. down' \in Seq(Message) BY <1>3, <1>m, <1>q, <2>1 DEF Serve
  <2> QED BY <1>3, <1>a, <2>3, <2>4 DEF Serve, settled, ShTypes
<1>4. CASE ReadAck
  <2>1. \A s \in StdNames : SendFd(s) \in Seq(Message)
    <3>1. <<>> \in Seq(Message) /\ \A m \in Message : <<m>> \in Seq(Message) BY SMT
    <3>2. 0 \in Int /\ \A s \in StdNames : s \in Descriptors BY SMT DEF StdNames, Descriptors
    <3> QED BY <3>1, <3>2, MessageType DEF SendFd
  <2>2. \A a, b, c, d \in Seq(Message) : a \o b \o c \o d \in Seq(Message) BY SMT
  <2>3. <<<<"int", IF NeedsPty THEN 1 ELSE 0>>>> \in Seq(Message) BY SMT DEF Message
  <2>4. SendFd("in") \o SendFd("out") \o SendFd("err") \o <<<<"int", IF NeedsPty THEN 1 ELSE 0>>>>
          \in Seq(Message)
    BY <2>1, <2>2, <2>3 DEF StdNames
  <2>5. up' \in Seq(Message) BY <1>4, <2>4 DEF ReadAck, ShTypes
  <2>6. down' \in Seq(Message) BY <1>4, <1>t DEF ReadAck, ShTypes
  <2>7. IsClient(client') BY <1>4, <1>c DEF ReadAck, ClientPlaces
  <2> QED BY <1>4, <1>a, <2>5, <2>6, <2>7 DEF ReadAck, settled, ShTypes
<1>5. CASE RecvPtmx
  <2>1. down' \in Seq(Message) BY <1>5, <1>t DEF RecvPtmx, ShTypes
  <2>2. IsClient(client') BY <1>5, <1>c DEF RecvPtmx, ClientPlaces
  <2> QED BY <1>5, <1>a, <2>1, <2>2 DEF RecvPtmx, settled, ShTypes
<1>6. CASE PumpEnds \/ Interrupted
  <2>1. IsClient(client') BY <1>6, <1>c DEF PumpEnds, Interrupted, ClientPlaces
  <2> QED BY <1>6, <1>a, <2>1 DEF PumpEnds, Interrupted, settled, ShTypes
<1>7. CASE ReadCode
  <2>1. IsClient(client') BY <1>7, <1>c DEF ReadCode, ClientPlaces
  <2> QED BY <1>7, <1>a, <2>1 DEF ReadCode, settled, ShTypes
<1>8. CASE RecvFd
  <2> DEFINE fd == IF up[1][1] = "fd" THEN up[1][2] ELSE NoFd
             q == Append(child.fds, fd)
             p == IF Len(q) = 3 THEN "pty" ELSE child.pc
  <2>1. fd \in Descriptors
    <3>1. \A m \in Message : m[1] = "fd" => m[2] \in Descriptors BY SMT DEF Message
    <3>2. NoFd \in Descriptors BY DEF Descriptors
    <3> QED BY <1>8, <1>t, <3>1, <3>2 DEF RecvFd
  <2>2. q \in Seq(Descriptors) BY <2>1, AppendOne DEF ShTypes, IsChild
  <2>3. p \in ChildPlaces BY DEF ShTypes, IsChild, ChildPlaces
  <2>4. child' = [child EXCEPT !.fds = q, !.pc = p] BY SMT, <1>8 DEF RecvFd, ShTypes, IsChild
  <2>6. child.pc = "fds" /\ Len(child.fds) \in Nat /\ Len(child.fds) < 3 /\ Len(q) = Len(child.fds) + 1
    BY SMT, <1>8, <2>1, AppendOne DEF RecvFd, ShTypes, IsChild, q
  <2>7. (p \in {"none", "fds"} => Len(q) < 3) /\ (p = "pty" => Len(q) = 3)
    BY SMT, <2>6 DEF p
  <2> HIDE DEF q, p
  <2>5. IsChild(child') BY <1>k, <2>7, <2>2, <2>3, <2>4 DEF ShTypes, IsChild
  <2> QED BY <1>8, <1>a, <1>t, <2>5 DEF RecvFd, settled, ShTypes
<1>9. CASE OpenPty
  <2> DEFINE q == [i \in 1..3 |-> IF child.fds[i] = NoFd THEN "pts" ELSE child.fds[i]]
  <2>1. CASE up[1] = <<"int", 0>>
    <3>1. child' = [child EXCEPT !.pc = "exec"] /\ UNCHANGED <<down, pty, settled, client, server>>
          /\ up' = Tail(up) /\ up # <<>>
      BY <1>9, <2>1 DEF OpenPty
    <3>2. IsChild(child') BY SMT, <3>1 DEF ShTypes, IsChild, ChildPlaces
    <3> QED BY <1>a, <1>t, <3>1, <3>2 DEF settled, ShTypes
  <2>2. CASE down' = Append(down, <<"fd", "ptmx">>) /\ pty' = TRUE
             /\ child' = [child EXCEPT !.pc = "exec", !.fds = q]
    <3>1. UNCHANGED <<settled, client, server>> /\ up' = Tail(up) /\ up # <<>>
      BY <1>9 DEF OpenPty
    <3>2. q \in Seq(Descriptors)
      <4>1. child.fds \in Seq(Descriptors) /\ Len(child.fds) = 3
        BY <1>9 DEF OpenPty, ShTypes, IsChild
      <4>2. \A i \in 1..3 : child.fds[i] \in Descriptors BY SMT, <4>1
      <4>3. "pts" \in Descriptors BY DEF Descriptors
      <4> HIDE DEF Descriptors
      <4>4. \A i \in 1..3 : (IF child.fds[i] = NoFd THEN "pts" ELSE child.fds[i]) \in Descriptors
        BY <4>2, <4>3
      <4> QED BY SMT, <4>4
    <3>4. IsChild(child')
      <4> HIDE DEF q
      <4> QED BY <2>2, <3>2, <1>k DEF ChildPlaces
    <3>3. down' \in Seq(Message) BY <2>2, <1>m, <1>q
    <3> QED BY <1>a, <1>t, <2>2, <3>1, <3>3, <3>4 DEF settled, ShTypes
  <2>3. CASE down' \in {down, Append(down, <<"fd", "ptmx">>)} /\ pty' = pty
             /\ child' = [child EXCEPT !.pc = "gone", !.code = 1]
    <3>1. UNCHANGED <<settled, client, server>> /\ up' = Tail(up) /\ up # <<>>
      BY <1>9 DEF OpenPty
    <3>2. IsChild(child') BY SMT, <2>3 DEF ShTypes, IsChild, ChildPlaces
    <3>4. down' \in Seq(Message) BY <2>3, <1>q, <1>m DEF ShTypes
    <3> QED BY <1>a, <1>t, <2>3, <3>1, <3>2, <3>4 DEF settled, ShTypes
  <2> QED BY <1>9, <2>1, <2>2, <2>3 DEF OpenPty
<1>10. CASE ExecShell
  <2>1. IsChild(child') BY SMT, <1>10 DEF ExecShell, ShTypes, IsChild, ChildPlaces
  <2> QED BY <1>10, <1>a, <2>1 DEF ExecShell, settled, ShTypes
<1>11. CASE ShellExits
  <2>1. IsChild(child') BY SMT, <1>11, ShellAssumption DEF ShellExits, ShTypes, IsChild, ChildPlaces
  <2> QED BY <1>11, <1>a, <2>1 DEF ShellExits, settled, ShTypes
<1>12. CASE WaitChild
  <2>1. down' \in Seq(Message) BY <1>12, <1>m, <1>q DEF WaitChild, ShTypes, IsChild
  <2> QED BY <1>12, <1>a, <2>1 DEF WaitChild, settled, ShTypes
<1>13. CASE UNCHANGED suVars
  BY <1>13, <1>a DEF suVars, ShTypes
<1> QED BY <1>1, <1>2, <1>3, <1>4, <1>5, <1>6, <1>7, <1>8, <1>9, <1>10, <1>11, <1>12, <1>13
        DEF SuNext, Unprompted

\* What an option that does not end the applet leaves in the request.
LEMMA ParseFacts ==
  ASSUME NEW r, IsRequest(r), NEW o \in STRING \X Int, ~Parse(r, o).bad
  PROVE  /\ o[1] = "M" => r.target = -1 /\ Parse(r, o).target = 0
         /\ o[1] = "t" => r.target = -1 /\ Parse(r, o).target = o[2] /\ o[2] >= 0
         /\ o[1] \notin {"M", "t"} => Parse(r, o).target = r.target
         /\ o[1] \in {"g", "G"} => Parse(r, o).gids = Append(r.gids, o[2])
         /\ o[1] \notin {"g", "G"} => Parse(r, o).gids = r.gids
<1>1. o[2] \in Int /\ o[1] \in STRING BY SMT
<1>2. CASE o[1] = "M"
  <2> DEFINE b == r.target # -1
  <2>1. Parse(r, o) = [r EXCEPT !.target = 0, !.bad = b] BY <1>2 DEF Parse
  <2>2. Parse(r, o).target = 0 /\ Parse(r, o).gids = r.gids /\ Parse(r, o).bad = b
    <3> HIDE DEF b
    <3> QED BY SMT, <2>1 DEF IsRequest
  <2> QED BY <1>2, <2>2
<1>3. CASE o[1] = "t"
  <2> DEFINE b == r.target # -1 \/ o[2] < 0
  <2>1. Parse(r, o) = [r EXCEPT !.target = o[2], !.bad = b] BY <1>3 DEF Parse
  <2>2. Parse(r, o).target = o[2] /\ Parse(r, o).gids = r.gids /\ Parse(r, o).bad = b
    <3> HIDE DEF b
    <3> QED BY SMT, <2>1 DEF IsRequest
  <2>3. r.target = -1 /\ ~(o[2] < 0) BY <2>2
  <2>4. o[2] >= 0 BY SMT, <1>1, <2>3
  <2> QED BY <1>3, <2>2, <2>3, <2>4
<1>4. CASE o[1] \in {"g", "G"} BY SMT, <1>1, <1>4 DEF Parse, IsRequest
<1>5. CASE o[1] \notin {"M", "t", "g", "G"} BY SMT, <1>1, <1>5 DEF Parse, IsRequest
<1> QED BY SMT, <1>1, <1>2, <1>3, <1>4, <1>5

\* The request is that of one more option.
LEMMA GetOptAsked ==
  ASSUME ShTypes, Parsed, GetOpt, ~request'.bad
  PROVE  Asked' /\ Grouped' /\ (optind' <= Len(opts) => Given(optind)' /\ Given(optind'))
<1> DEFINE o == opts[optind]
<1>1. optind \in 1..Len(opts) /\ Len(opts) \in Nat /\ optind \in Int
  <2>1. opts \in Seq(STRING \X Int) BY ShellAssumption DEF ShTypes
  <2> QED BY SMT, <2>1 DEF GetOpt, ShTypes
<1>2. \A i \in 1..Len(opts) : opts[i] \in STRING \X Int /\ opts[i][2] \in Int
  BY OptionType DEF ShTypes
<1>3. ~request.bad /\ Given(optind) BY DEF GetOpt, Parsed
<1>4. Asked /\ Grouped BY <1>3 DEF Parsed
<1>5. request' = Parse(request, o) /\ opts' = opts
      /\ optind' = (IF o[1] = "c" THEN Len(opts) + 1 ELSE optind + 1)
  BY DEF GetOpt
<1>6. IsRequest(request) /\ o \in STRING \X Int /\ o[2] \in Int BY <1>1, <1>2 DEF ShTypes
<1>7. /\ o[1] = "M" => request.target = -1 /\ request'.target = 0
      /\ o[1] = "t" => request.target = -1 /\ request'.target = o[2] /\ o[2] >= 0
      /\ o[1] \notin {"M", "t"} => request'.target = request.target
      /\ o[1] \in {"g", "G"} => request'.gids = Append(request.gids, o[2])
      /\ o[1] \notin {"g", "G"} => request'.gids = request.gids
  <2> HIDE DEF o
  <2> QED BY <1>5, <1>6, ParseFacts
<1>8. request.gids \in Seq(Int) /\ request.target \in Int BY DEF ShTypes, IsRequest
<1> HIDE DEF o
<1>9. \A i \in 1..Len(opts) : i < optind' /\ Given(i) => i <= optind
  BY SMT, <1>1, <1>5 DEF Given, o
<1>10. /\ Group(optind) => request'.gids # <<>> /\ (request.gids = <<>> => request'.gids[1] = o[2])
       /\ request.gids # <<>> => request'.gids # <<>> /\ request'.gids[1] = request.gids[1]
  BY SMT, <1>6, <1>7, <1>8 DEF Group, o
<1>11. ASSUME NEW i \in 1..Len(opts), i < optind', Given(i)
       PROVE  /\ opts[i][1] = "M" => request'.target = 0
              /\ opts[i][1] = "t" => request'.target = opts[i][2] /\ opts[i][2] >= 0
              /\ Group(i) /\ (\A j \in 1..i - 1 : ~Group(j)) =>
                   request'.gids # <<>> /\ request'.gids[1] = opts[i][2]
  <2>1. CASE i = optind
    <3>1. opts[i] = o BY <2>1 DEF o
    <3>2. (\A j \in 1..i - 1 : ~Group(j)) => request.gids = <<>>
      BY SMT, <1>1, <1>4, <2>1 DEF Grouped
    <3> QED BY <1>7, <1>10, <2>1, <3>1, <3>2
  <2>2. CASE i < optind
    <3>1. /\ opts[i][1] = "M" => request.target = 0
          /\ opts[i][1] = "t" => request.target = opts[i][2] /\ opts[i][2] >= 0
          /\ Group(i) /\ (\A j \in 1..i - 1 : ~Group(j)) =>
               request.gids # <<>> /\ request.gids[1] = opts[i][2]
      BY <1>4, <1>11, <2>2 DEF Asked
    <3>2. opts[i][1] \in {"M", "t"} => request'.target = request.target
      BY SMT, <1>2, <1>7, <1>8, <3>1
    <3> QED BY <1>10, <3>1, <3>2
  <2> QED BY SMT, <1>1, <1>9, <1>11, <2>1, <2>2
<1>12. Asked' BY <1>5, <1>11 DEF Asked, Given, Group
<1>13. Grouped'
  <2>1. CASE Group(optind)
    <3>1. optind < optind' BY SMT, <1>1, <1>5
    <3> QED BY <1>1, <1>5, <2>1, <3>1 DEF Grouped, Group
  <2>2. CASE ~Group(optind)
    <3>1. request'.gids = request.gids BY <1>7, <2>2 DEF Group, o
    <3>2. \A i \in 1..Len(opts) : i < optind => i < optind' BY SMT, <1>1, <1>5
    <3> QED BY <1>4, <1>5, <3>1, <3>2 DEF Grouped, Group
  <2> QED BY <2>1, <2>2
<1>14. ASSUME optind' <= Len(opts) PROVE Given(optind')
  BY SMT, <1>1, <1>3, <1>5, <1>14 DEF Given, o
<1>15. Given(optind)' <=> Given(optind') BY <1>5 DEF Given
<1> QED BY <1>12, <1>13, <1>14, <1>15

\* The options are read before anything is sent, and are settled then.
LEMMA ParsedNext == ShTypes /\ Parsed /\ [SuNext]_suVars => Parsed'
<1> SUFFICES ASSUME ShTypes, Parsed, [SuNext]_suVars PROVE Parsed' OBVIOUS
<1>1. CASE GetOpt
  <2>1. CASE request'.bad
    <3>1. client'.pc = "done" BY <1>1, <2>1, GoesType DEF GetOpt, ShTypes, ClientPlaces
    <3>2. server' = server /\ server = "none" BY <1>1 DEF GetOpt, Parsed
    <3> QED BY <2>1, <3>1, <3>2 DEF Parsed
  <2>2. CASE ~request'.bad
    <3>1. Asked' /\ Grouped' /\ (optind' <= Len(opts) => Given(optind)') BY <1>1, <2>2, GetOptAsked
    <3>2. server' = server /\ server = "none" /\ opts' = opts BY <1>1 DEF GetOpt, Parsed
    <3> QED BY <2>2, <3>1, <3>2 DEF Parsed
  <2> QED BY <2>1, <2>2
<1>2. ASSUME UNCHANGED settled, client'.pc = "start" => client.pc = "start" /\ server' = server,
             server' # "none" => server # "none" \/ (client.pc = "start" /\ optind > Len(opts))
      PROVE  Parsed'
  BY <1>2 DEF Parsed, settled, Asked, Grouped, Given, Group
<1>3. CASE SuStart
  <2>1. client'.pc = "ack" BY <1>3, GoesType DEF SuStart, ShTypes, ClientPlaces
  <2> QED BY <1>2, <1>3, <2>1 DEF SuStart
<1>4. CASE Serve
  BY <1>2, <1>4 DEF Serve, Parsed
<1>5. CASE ReadAck \/ RecvPtmx \/ PumpEnds \/ Interrupted \/ ReadCode
  <2>1. client'.pc # "start"
    BY <1>5, GoesType DEF ShTypes, ReadAck, RecvPtmx, PumpEnds, Interrupted, ReadCode, ClientPlaces
  <2>2. server' = server /\ UNCHANGED settled
    BY <1>5 DEF ReadAck, RecvPtmx, PumpEnds, Interrupted, ReadCode
  <2> QED BY <1>2, <2>1, <2>2
<1>6. CASE RecvFd \/ OpenPty \/ ExecShell \/ ShellExits
  <2>1. server' = server /\ UNCHANGED settled /\ client' = client
    BY <1>6 DEF RecvFd, OpenPty, ExecShell, ShellExits
  <2> QED BY <1>2, <2>1
<1>7. CASE WaitChild
  <2>1. server # "none" /\ UNCHANGED settled /\ client' = client BY <1>7 DEF WaitChild
  <2>2. client.pc # "start" BY <2>1 DEF Parsed
  <2> QED BY <1>2, <2>1, <2>2
<1>8. CASE UNCHANGED suVars
  BY <1>2, <1>8 DEF suVars, settled
<1> QED BY <1>1, <1>3, <1>4, <1>5, <1>6, <1>7, <1>8 DEF SuNext, Unprompted

\* Once the options are read, who is a terminal and what is asked stays.
LEMMA Steady ==
  ASSUME UNCHANGED settled
  PROVE  /\ \A s : Atty(s)' = Atty(s)
         /\ NeedsPty' = NeedsPty /\ AllOpen' = AllOpen
         /\ Namespace' = Namespace /\ Gid' = Gid
         /\ \A i : Sent(i)' = Sent(i)
<1>1. \A s : Atty(s)' = Atty(s) BY DEF settled, Atty
<1>2. NeedsPty' = NeedsPty BY <1>1 DEF NeedsPty
<1>3. AllOpen' = AllOpen BY DEF settled, AllOpen
<1>4. Namespace' = Namespace /\ Gid' = Gid BY DEF settled, Namespace, Gid
<1>5. \A i : Sent(i)' = Sent(i) BY <1>1, <1>2 DEF Sent
<1> QED BY <1>1, <1>2, <1>3, <1>4, <1>5

\* The invariant but for the types and the options.
Rest == Begun /\ Phases /\ Upward /\ Downward /\ Ran

\* At first nothing has been sent.
LEMMA RestInit == SuInit => Parsed /\ Rest
<1> SUFFICES ASSUME SuInit PROVE Parsed /\ Rest OBVIOUS
<1>1. client.pc = "start" /\ server = "none" /\ child.pc = "none" /\ child.fds = <<>>
      /\ up = <<>> /\ down = <<>> /\ ~pty
  BY DEF SuInit
<1>2. ~request.bad /\ request.gids = <<>> /\ optind = 1 BY DEF SuInit, NoRequest
<1>3. \A i \in 1..Len(opts) : ~(i < 1) BY SMT
<1>4. Given(1) BY SMT DEF Given
<1>5. Parsed BY <1>1, <1>2, <1>3, <1>4 DEF Parsed, Asked, Grouped
<1>6. Rest BY <1>1 DEF Rest, Begun, Phases, Upward, Downward, Ran, Past
<1> QED BY <1>5, <1>6

\* Reading an option is before all that.
LEMMA RestGetOpt == ShellInv /\ GetOpt => Rest'
<1> SUFFICES ASSUME ShellInv, GetOpt PROVE Rest' OBVIOUS
<1>1. client.pc = "start" /\ server = "none" /\ child.pc = "none"
  BY DEF GetOpt, ShellInv, Parsed, Begun
<1>2. client'.pc \in {"start", "done"}
  BY <1>1, GoesType DEF GetOpt, ShellInv, ShTypes, ClientPlaces
<1>3. UNCHANGED <<up, down, server, child, pty>> BY DEF GetOpt
<1>4. down = <<>> /\ up = <<>> /\ ~pty /\ child.fds = <<>> BY <1>1 DEF ShellInv, Phases
<1> QED BY <1>1, <1>2, <1>3, <1>4 DEF Rest, Begun, Phases, Upward, Downward, Ran, Past

\* The request is sent.
LEMMA RestSuStart == ShellInv /\ SuStart => Rest'
<1> SUFFICES ASSUME ShellInv, SuStart PROVE Rest' OBVIOUS
<1>1. client.pc = "start" /\ server = "none" /\ child.pc = "none"
  BY DEF SuStart, ShellInv, Parsed, Begun
<1>2. client'.pc = "ack"
  BY GoesType DEF SuStart, ShellInv, ShTypes, ClientPlaces
<1>3. UNCHANGED <<up, down, child, pty>> /\ server' = "decide" BY DEF SuStart
<1>4. down = <<>> /\ up = <<>> /\ ~pty /\ child.fds = <<>> BY <1>1 DEF ShellInv, Phases
<1> QED BY <1>1, <1>2, <1>3, <1>4 DEF Rest, Begun, Phases, Upward, Downward, Ran, Past

\* The daemon refuses, fails or forks.
LEMMA RestServe == ShellInv /\ Serve => Rest'
<1> SUFFICES ASSUME ShellInv, Serve PROVE Rest' OBVIOUS
<1>1. client.pc = "ack" /\ server = "decide" /\ child.pc = "none" /\ IsChild(child)
  BY DEF Serve, ShellInv, Phases, Begun, ShTypes
<1>2. UNCHANGED <<up, client, pty>> BY DEF Serve
<1>3. up = <<>> /\ ~pty /\ child.fds = <<>> BY <1>1 DEF ShellInv, Phases
<1>4. \/ child' = child /\ server' = "closed" /\ (down' # <<>> => down'[1] = <<"int", 1>>)
      \/ child' = [child EXCEPT !.pc = "fds"] /\ server' = "wait" /\ down' = <<<<"int", 0>>>>
  BY SMT DEF Serve
<1>5. ASSUME child' = [child EXCEPT !.pc = "fds"]
      PROVE  child'.pc = "fds" /\ child'.fds = child.fds
  BY SMT, <1>1, <1>5 DEF IsChild
<1>6. Begun' /\ Phases' BY <1>1, <1>2, <1>3, <1>4, <1>5 DEF Begun, Phases
<1>7. Downward' /\ Ran' BY <1>1, <1>2, <1>4, <1>5 DEF Downward, Ran, Past
<1>8. Upward'
  <2>1. child'.fds = <<>> /\ child'.pc \in {"none", "fds"} BY <1>1, <1>3, <1>4, <1>5
  <2>2. \A i \in 1..Len(child'.fds) : FALSE BY SMT, <2>1
  <2> QED BY <1>1, <1>2, <1>3, <2>1, <2>2 DEF Upward, Past
<1> QED BY <1>6, <1>7, <1>8 DEF Rest

\* After the acknowledgement the four messages are under way.
LEMMA RestReadAck == ShellInv /\ ReadAck => Rest'
<1> SUFFICES ASSUME ShellInv, ReadAck PROVE Rest' OBVIOUS
<1>0. client.pc = "ack" /\ IsClient(client) /\ UNCHANGED settled /\ UNCHANGED <<server, child, pty>>
  BY DEF ReadAck, ShellInv, ShTypes
<1>s. NeedsPty' = NeedsPty /\ AllOpen' = AllOpen /\ (\A i : Sent(i)' = Sent(i))
      /\ \A s : Atty(s)' = Atty(s)
  BY <1>0, Steady
<1>1. CASE child.pc = "none"
  <2>1. down = <<>> \/ down[1][2] # 0
    <3>1. down # <<>> => down[1] = <<"int", 1>> BY <1>0, <1>1 DEF ShellInv, Phases
    <3> QED BY SMT, <3>1
  <2>2. ClientGoes("done", "EACCES") /\ UNCHANGED <<up, down>> BY <2>1 DEF ReadAck
  <2>3. client'.pc = "done" BY <1>0, <2>2, GoesType DEF ClientPlaces
  <2>4. server # "decide"
    <3>1. server = "decide" => down = <<>> BY <1>0, <1>1 DEF ShellInv, Phases
    <3> QED BY <3>1 DEF ReadAck, Readable
  <2>5. up = <<>> /\ ~pty /\ child.fds = <<>> BY <1>1 DEF ShellInv, Phases
  <2> QED BY <1>0, <1>1, <2>2, <2>3, <2>4, <2>5
          DEF ShellInv, Rest, Begun, Phases, Upward, Downward, Ran, Past
<1>2. CASE child.pc # "none"
  <2>1. server = "wait" /\ child.pc = "fds" /\ child.fds = <<>> /\ down = <<<<"int", 0>>>> /\ ~pty
    BY <1>0, <1>2 DEF ShellInv, Phases
  <2>2. down # <<>> /\ down[1][2] = 0 /\ Tail(down) = <<>> BY SMT, <2>1
  <2>3. /\ up' = SendFd("in") \o SendFd("out") \o SendFd("err")
                   \o <<<<"int", IF NeedsPty THEN 1 ELSE 0>>>>
        /\ ClientGoes(IF NeedsPty THEN "ptmx" ELSE "code", "")
        /\ down' = <<>>
    BY <2>2 DEF ReadAck
  <2>4. client'.pc = IF NeedsPty THEN "ptmx" ELSE "code"
    BY <1>0, <2>3, GoesType DEF ClientPlaces
  <2>5. Begun' /\ Phases' BY <1>0, <1>s, <2>1, <2>4 DEF Begun, Phases
  <2>6. ASSUME AllOpen
        PROVE  Len(up') = 4 /\ \A i \in 1..4 : up'[i] = Sent(i)
    <3>1. \A s \in StdNames : SendFd(s) = <<IF Atty(s) THEN <<"int", 0>> ELSE <<"fd", s>>>>
      BY <2>6 DEF SendFd, AllOpen
    <3>2. up' = <<Sent(1)>> \o <<Sent(2)>> \o <<Sent(3)>> \o <<Sent(4)>>
      <4>1. 1 # 4 /\ 2 # 4 /\ 3 # 4 BY SMT
      <4>2. Std[1] = "in" /\ Std[2] = "out" /\ Std[3] = "err" BY SMT DEF Std
      <4> QED BY <2>3, <3>1, <4>1, <4>2 DEF Sent, StdNames
    <3>3. LET q == <<Sent(1)>> \o <<Sent(2)>> \o <<Sent(3)>> \o <<Sent(4)>> IN
          Len(q) = 4 /\ q[1] = Sent(1) /\ q[2] = Sent(2) /\ q[3] = Sent(3) /\ q[4] = Sent(4)
      BY SMT
    <3>4. Len(up') = 4 /\ up'[1] = Sent(1) /\ up'[2] = Sent(2) /\ up'[3] = Sent(3) /\ up'[4] = Sent(4)
      BY <3>2, <3>3
    <3>5. \A i \in 1..4 : i = 1 \/ i = 2 \/ i = 3 \/ i = 4 BY SMT
    <3> QED BY <3>4, <3>5
  <2>7. Upward'
    <3>1. Taken' = 0 BY SMT, <1>0, <2>1 DEF Taken
    <3>2. \A i \in 1..Len(child.fds) : FALSE BY SMT, <2>1
    <3>3. AllOpen => Len(up') = 4 - Taken' /\ \A i \in 1..Len(up') : up'[i] = Sent(Taken' + i)
      <4>1. 4 - 0 = 4 /\ \A i \in 1..4 : 0 + i = i BY SMT
      <4> QED BY <2>6, <3>1, <4>1
    <3> QED BY <1>0, <1>s, <2>1, <3>2, <3>3 DEF Upward
  <2>8. Downward' /\ Ran'
    <3>1. Terminal' = 0 BY <1>0, <2>1 DEF Terminal
    <3>2. Len(<<>>) = 0 /\ 0 # 1 BY SMT
    <3>3. Len(down') = Terminal' /\ Terminal' # 1 BY <2>3, <3>1, <3>2
    <3>4. server' # "closed" /\ client'.pc \notin {"deaf", "pump", "done"} BY <1>0, <2>1, <2>4
    <3>5. NeedsPty' => client'.pc = "ptmx" BY <1>s, <2>4
    <3> QED BY <1>0, <2>1, <3>3, <3>4, <3>5 DEF Downward, Ran
  <2> QED BY <2>5, <2>7, <2>8 DEF Rest
<1> QED BY <1>1, <1>2

\* The applet reads, which neither the child nor what it is sent depends on.
LEMMA ClientReads ==
  ASSUME ShellInv, UNCHANGED settled, UNCHANGED <<up, server, child, pty>>,
         client.pc \in {"ptmx", "pump", "deaf", "code"},
         client'.pc \in {"pump", "deaf", "code", "done"},
         client'.pc \in {"pump", "deaf"} => NeedsPty
  PROVE  Begun' /\ Phases' /\ Upward' /\ Ran' /\ Past /\ Past' /\ (Whole <=> Whole')
<1>s. NeedsPty' = NeedsPty /\ AllOpen' = AllOpen /\ (\A i : Sent(i)' = Sent(i))
      /\ (\A s : Atty(s)' = Atty(s)) /\ Namespace' = Namespace /\ Gid' = Gid
  BY Steady
<1>1. child.pc # "none" /\ Past /\ Past' BY DEF ShellInv, Phases, Past
<1>2. Begun' /\ Ran' BY <1>s DEF ShellInv, Begun, Ran
<1>3. Phases' BY <1>s, <1>1 DEF ShellInv, Phases
<1>4. Taken' = Taken BY DEF Taken
<1>5. Upward' BY <1>s, <1>1, <1>4 DEF ShellInv, Upward
<1>6. Whole <=> Whole' BY <1>s DEF Whole
<1> QED BY <1>1, <1>2, <1>3, <1>5, <1>6

\* The applet receives the terminal, and nothing in its place.
LEMMA RestRecvPtmx == ShellInv /\ RecvPtmx => Rest'
<1> SUFFICES ASSUME ShellInv, RecvPtmx PROVE Rest' OBVIOUS
<1>0. client.pc = "ptmx" /\ IsClient(client) /\ UNCHANGED settled /\ UNCHANGED <<up, server, child, pty>>
      /\ NeedsPty
  BY DEF RecvPtmx, ShellInv, ShTypes, Phases
<1>1. client'.pc = IF down # <<>> /\ down[1][1] = "fd" THEN "pump" ELSE "deaf"
  BY <1>0, GoesType DEF RecvPtmx, ClientPlaces
<1>2. Begun' /\ Phases' /\ Upward' /\ Ran' /\ Past /\ Past' /\ (Whole <=> Whole')
  BY <1>0, <1>1, ClientReads
<1>3. ASSUME Whole
      PROVE  /\ Len(down') = IF server = "closed" THEN 1 ELSE 0
             /\ server = "closed" => down'[1] = <<"int", child.code>>
             /\ pty /\ client'.pc = "pump"
  <2>1. /\ Len(down) = IF server = "closed" THEN Terminal + 1 ELSE Terminal
        /\ Terminal = 1 => down[1] = <<"fd", "ptmx">>
        /\ server = "closed" => down[Terminal + 1] = <<"int", child.code>>
    BY <1>2, <1>3 DEF ShellInv, Downward
  <2>2. server = "closed" => pty BY <1>0, <1>2, <1>3 DEF ShellInv, Phases, Whole, Past
  <2>3. down \in Seq(Message) BY DEF ShellInv, ShTypes
  <2>4. server = "closed" \/ down # <<>> BY DEF RecvPtmx, Readable
  <2>5. pty
    <3>1. ~pty /\ server # "closed" => Len(down) = 0 BY <1>0, <2>1 DEF Terminal
    <3>2. Len(down) = 0 => down = <<>> BY SMT, <2>3
    <3> QED BY <2>2, <2>4, <3>1, <3>2
  <2>6. Terminal = 1 BY <1>0, <2>5 DEF Terminal
  <2>7. down # <<>> /\ down[1][1] = "fd"
    BY SMT, <2>1, <2>3, <2>6
  <2>8. down' = Tail(down) BY <2>7 DEF RecvPtmx
  <2>9. Len(down') = Len(down) - 1 /\ (server = "closed" => down'[1] = down[2])
    <3>1. Len(Tail(down)) = Len(down) - 1 /\ (Len(down) = 2 => Tail(down)[1] = down[2])
      BY SMT, <2>3, <2>7
    <3>2. server = "closed" => Len(down) = 2 BY SMT, <2>1, <2>6
    <3> QED BY <2>8, <3>1, <3>2
  <2>10. 1 + 1 = 2 /\ 2 - 1 = 1 /\ 1 - 1 = 0 BY SMT
  <2> QED BY <1>1, <2>1, <2>5, <2>6, <2>7, <2>9, <2>10
<1>4. Downward'
  <2>1. Terminal' = 0 BY <1>0, <1>1 DEF Terminal
  <2>2. 0 + 1 = 1 /\ 0 # 1 BY SMT
  <2> QED BY <1>0, <1>2, <1>3, <2>1, <2>2 DEF Downward
<1> QED BY <1>2, <1>4 DEF Rest

\* The pump ends.
LEMMA RestPumpOver == ShellInv /\ (PumpEnds \/ Interrupted) => Rest'
<1> SUFFICES ASSUME ShellInv, PumpEnds \/ Interrupted PROVE Rest' OBVIOUS
<1>0. client.pc \in {"pump", "deaf"} /\ IsClient(client) /\ UNCHANGED settled
      /\ UNCHANGED <<up, down, server, child, pty>> /\ ClientGoes("code", "")
  BY DEF PumpEnds, Interrupted, ShellInv, ShTypes
<1>1. client'.pc = "code" BY <1>0, GoesType DEF ClientPlaces
<1>2. Begun' /\ Phases' /\ Upward' /\ Ran' /\ Past /\ Past' /\ (Whole <=> Whole')
  BY <1>0, <1>1, ClientReads
<1>3. Terminal' = 0 /\ Terminal = 0 BY <1>0, <1>1 DEF Terminal
<1>4. NeedsPty' = NeedsPty BY <1>0, Steady
<1>5. Downward' BY <1>0, <1>1, <1>2, <1>3, <1>4 DEF ShellInv, Downward
<1> QED BY <1>2, <1>5 DEF Rest

\* What the applet returns is the exit code of the child.
LEMMA RestReadCode == ShellInv /\ ReadCode => Rest'
<1> SUFFICES ASSUME ShellInv, ReadCode PROVE Rest' OBVIOUS
<1>0. client.pc = "code" /\ IsClient(client) /\ UNCHANGED settled
      /\ UNCHANGED <<up, down, server, child, pty>>
  BY DEF ReadCode, ShellInv, ShTypes
<1>1. client'.pc = "done" /\ client'.result = IF down = <<>> THEN "none" ELSE <<"code", down[1][2]>>
  BY <1>0, GoesType DEF ReadCode, ClientPlaces
<1>2. Begun' /\ Phases' /\ Upward' /\ Ran' /\ Past /\ Past' /\ (Whole <=> Whole')
  BY <1>0, <1>1, ClientReads
<1>3. Terminal' = 0 /\ Terminal = 0 BY <1>0, <1>1 DEF Terminal
<1>4. NeedsPty' = NeedsPty BY <1>0, Steady
<1>5. ASSUME Whole PROVE child.pc = "gone" /\ client'.result = <<"code", child.code>>
  <2>1. /\ Len(down) = IF server = "closed" THEN Terminal + 1 ELSE Terminal
        /\ server = "closed" => down[Terminal + 1] = <<"int", child.code>>
    BY <1>2, <1>5 DEF ShellInv, Downward
  <2>2. down \in Seq(Message) BY DEF ShellInv, ShTypes
  <2>3. Len(down) = 0 => down = <<>> BY SMT, <2>2
  <2>4. server = "closed" BY <1>3, <2>1, <2>3 DEF ReadCode, Readable
  <2>5. child.pc = "gone" BY <1>2, <2>4 DEF ShellInv, Phases, Past
  <2>6. down # <<>> /\ down[1] = <<"int", child.code>>
    <3>1. 0 + 1 = 1 /\ Len(<<>>) = 0 /\ 0 # 1 BY SMT
    <3> QED BY <1>3, <2>1, <2>4, <3>1
  <2>7. down[1][2] = child.code BY SMT, <2>6
  <2> QED BY <1>1, <2>5, <2>6, <2>7
<1>6. Downward' BY <1>0, <1>1, <1>2, <1>3, <1>4, <1>5 DEF ShellInv, Downward
<1> QED BY <1>2, <1>6 DEF Rest

\* The child is past the acknowledgement when it has something to read.
LEMMA ChildReads ==
  ASSUME ShellInv, child.pc \in {"fds", "pty"}, up # <<>>
  PROVE  Past /\ server = "wait" /\ Len(up) \in Nat \ {0}
         /\ Tail(up) \in Seq(Message) /\ Len(Tail(up)) = Len(up) - 1
         /\ \A i \in 1..Len(Tail(up)) : Tail(up)[i] = up[i + 1]
<1>1. client.pc # "ack" BY DEF ShellInv, Phases
<1>2. server = "wait" BY DEF ShellInv, ShTypes, Begun, Phases
<1>3. up \in Seq(Message) BY DEF ShellInv, ShTypes
<1> QED BY <1>1, <1>2, <1>3, TailOne DEF Past

\* What is left of the messages once the child has taken one.
LEMMA OneTaken ==
  ASSUME ShellInv, UNCHANGED settled, child.pc \in {"fds", "pty"}, up # <<>>, up' = Tail(up),
         Taken' = Taken + 1, AllOpen
  PROVE  Len(up') = 4 - Taken' /\ \A i \in 1..Len(up') : up'[i] = Sent(Taken' + i)
<1>1. Past /\ Len(up) \in Nat \ {0} /\ Len(Tail(up)) = Len(up) - 1
      /\ \A i \in 1..Len(Tail(up)) : Tail(up)[i] = up[i + 1]
  BY ChildReads
<1>2. Len(up) = 4 - Taken /\ \A i \in 1..Len(up) : up[i] = Sent(Taken + i)
  BY <1>1 DEF ShellInv, Upward
<1>3. Taken \in Nat BY SMT DEF Taken, ShellInv, ShTypes, IsChild
<1>4. Len(up') = 4 - Taken' BY SMT, <1>1, <1>2, <1>3
<1>5. ASSUME NEW i \in 1..Len(up') PROVE up'[i] = Sent(Taken' + i)
  <2>1. i + 1 \in 1..Len(up) /\ Taken + (i + 1) = Taken' + i BY SMT, <1>1, <1>3
  <2> QED BY <1>1, <1>2, <1>5, <2>1
<1> QED BY <1>4, <1>5

\* The child takes a stream, or a number for a terminal.
LEMMA RestRecvFd == ShellInv /\ RecvFd => Rest'
<1> SUFFICES ASSUME ShellInv, RecvFd PROVE Rest' OBVIOUS
<1> DEFINE fd == IF up[1][1] = "fd" THEN up[1][2] ELSE NoFd
           n == Len(child.fds)
<1>0. child.pc = "fds" /\ up # <<>> /\ up' = Tail(up) /\ UNCHANGED settled
      /\ UNCHANGED <<client, down, server, pty>> /\ IsChild(child)
  BY DEF RecvFd, ShellInv, ShTypes
<1>s. NeedsPty' = NeedsPty /\ AllOpen' = AllOpen /\ (\A i : Sent(i)' = Sent(i))
      /\ (\A s : Atty(s)' = Atty(s))
  BY <1>0, Steady
<1>r. Past /\ server = "wait" BY <1>0, ChildReads
<1>1. fd \in Descriptors
  <2>1. up \in Seq(Message) BY DEF ShellInv, ShTypes
  <2>2. up[1] \in Message BY <1>0, <2>1, TailOne
  <2>3. \A m \in Message : m[1] = "fd" => m[2] \in Descriptors BY SMT DEF Message
  <2>4. NoFd \in Descriptors BY DEF Descriptors
  <2> QED BY <2>2, <2>3, <2>4
<1> DEFINE q == Append(child.fds, fd)
           p == IF Len(q) = 3 THEN "pty" ELSE "fds"
<1>2. child' = [child EXCEPT !.fds = q, !.pc = p]
  BY SMT, <1>0 DEF RecvFd, IsChild
<1>4. /\ n \in 0..2 /\ Len(q) = n + 1 /\ q[n + 1] = fd
      /\ \A i \in 1..n : q[i] = child.fds[i]
  <2>1. child.fds \in Seq(Descriptors) /\ Len(child.fds) < 3 BY <1>0 DEF IsChild
  <2>2. q = Append(child.fds, fd) OBVIOUS
  <2> HIDE DEF fd, q
  <2>3. /\ n \in Nat /\ Len(q) = n + 1 /\ q[n + 1] = fd
        /\ \A i \in 1..n : q[i] = child.fds[i]
    BY SMT, <1>1, <2>1, <2>2, AppendTo
  <2>4. n < 3 BY <2>1
  <2> HIDE DEF n
  <2>5. n \in 0..2 BY SMT, <2>3, <2>4
  <2> QED BY <2>3, <2>5
<1> HIDE DEF fd, n, q
<1>5. child'.fds = q /\ child'.code = child.code /\ child'.pc = IF n + 1 = 3 THEN "pty" ELSE "fds"
  <2>1. p = IF n + 1 = 3 THEN "pty" ELSE "fds" BY <1>4
  <2> HIDE DEF p
  <2>2. child'.fds = q /\ child'.code = child.code /\ child'.pc = p
    BY SMT, <1>0, <1>2 DEF IsChild
  <2> QED BY <2>1, <2>2
<1>6. Taken = n /\ Taken' = n + 1
  <2>1. Taken = n BY <1>0 DEF Taken, n
  <2>2. Taken' = n + 1 BY <1>4, <1>5 DEF Taken
  <2> QED BY <2>1, <2>2
<1>7. Begun' /\ Ran' BY <1>0, <1>5, <1>r DEF Begun, Ran
<1>8. Phases'
  <2>1. client.pc # "ack" /\ client.pc # "start" BY <1>0, <1>r DEF Past, ShellInv, Parsed
  <2> QED BY <1>0, <1>5, <1>r, <1>s, <2>1 DEF ShellInv, Phases
<1>9. Upward'
  <2> SUFFICES ASSUME AllOpen
               PROVE  /\ Len(up') = 4 - Taken' /\ \A i \in 1..Len(up') : up'[i] = Sent(Taken' + i)
                      /\ ~pty
                      /\ \A i \in 1..Len(q) :
                           q[i] = IF Atty(Std[i]) THEN NoFd ELSE Std[i]
    BY <1>0, <1>5, <1>s DEF Upward
  <2>1. Len(up') = 4 - Taken' /\ \A i \in 1..Len(up') : up'[i] = Sent(Taken' + i)
    BY <1>0, <1>6, OneTaken
  <2>2. ~pty /\ \A i \in 1..n : child.fds[i] = IF Atty(Std[i]) THEN NoFd ELSE Std[i]
    BY <1>0 DEF ShellInv, Upward, n
  <2>3. fd = IF Atty(Std[n + 1]) THEN NoFd ELSE Std[n + 1]
    <3>1. Len(up) = 4 - n /\ \A i \in 1..Len(up) : up[i] = Sent(n + i)
      BY <1>6, <1>r DEF ShellInv, Upward
    <3>2. up[1] = Sent(n + 1) /\ n + 1 # 4
      <4>1. 1 \in 1..4 - n /\ n + 1 # 4 BY SMT, <1>4
      <4> QED BY <3>1, <4>1
    <3>3. up[1] = IF Atty(Std[n + 1]) THEN <<"int", 0>> ELSE <<"fd", Std[n + 1]>>
      BY <3>2 DEF Sent
    <3>4. <<"int", 0>>[1] = "int" /\ \A x : <<"fd", x>>[1] = "fd" /\ <<"fd", x>>[2] = x BY SMT
    <3> QED BY <3>3, <3>4 DEF fd
  <2>4. \A i \in 1..n + 1 : i \in 1..n \/ i = n + 1 BY SMT, <1>4
  <2> QED BY <1>4, <2>1, <2>2, <2>3, <2>4
<1>10. Downward'
  <2>1. Whole' <=> Whole BY <1>0, <1>5, <1>s DEF Whole
  <2>2. Terminal' = Terminal /\ Past' BY <1>0, <1>5, <1>r DEF Terminal, Past
  <2>3. child.pc # "gone" /\ server # "closed" BY <1>0, <1>r
  <2> QED BY <1>0, <1>r, <1>s, <2>1, <2>2, <2>3 DEF ShellInv, Downward
<1> QED BY <1>7, <1>8, <1>9, <1>10 DEF Rest

\* The child opens a terminal where one is wanted, does without, or dies.
LEMMA RestOpenPty == ShellInv /\ OpenPty => Rest'
<1> SUFFICES ASSUME ShellInv, OpenPty PROVE Rest' OBVIOUS
<1> DEFINE q == [i \in 1..3 |-> IF child.fds[i] = NoFd THEN "pts" ELSE child.fds[i]]
           none == child' = [child EXCEPT !.pc = "exec"] /\ UNCHANGED <<down, pty>>
           open == /\ down' = Append(down, <<"fd", "ptmx">>) /\ pty' = TRUE
                   /\ child' = [child EXCEPT !.pc = "exec", !.fds = q]
           fail == /\ down' \in {down, Append(down, <<"fd", "ptmx">>)} /\ pty' = pty
                   /\ child' = [child EXCEPT !.pc = "gone", !.code = 1]
<1>0. child.pc = "pty" /\ up # <<>> /\ up' = Tail(up) /\ UNCHANGED settled
      /\ UNCHANGED <<client, server>> /\ IsChild(child)
  BY DEF OpenPty, ShellInv, ShTypes
<1>s. NeedsPty' = NeedsPty /\ AllOpen' = AllOpen /\ (\A i : Sent(i)' = Sent(i))
      /\ (\A s : Atty(s)' = Atty(s))
  BY <1>0, Steady
<1>r. Past /\ server = "wait" BY <1>0, ChildReads
<1>1. IF up[1] = <<"int", 0>> THEN none ELSE open \/ fail BY DEF OpenPty
<1>2. /\ none => child'.pc = "exec" /\ child'.fds = child.fds /\ child'.code = child.code
      /\ open => child'.pc = "exec" /\ child'.fds = q /\ child'.code = child.code
      /\ fail => child'.pc = "gone"
  <2>1. ASSUME child' = [child EXCEPT !.pc = "exec"]
        PROVE  child'.pc = "exec" /\ child'.fds = child.fds /\ child'.code = child.code
    BY SMT, <1>0, <2>1 DEF IsChild
  <2>2. ASSUME child' = [child EXCEPT !.pc = "exec", !.fds = q]
        PROVE  child'.pc = "exec" /\ child'.fds = q /\ child'.code = child.code
    <3> HIDE DEF q
    <3> QED BY SMT, <1>0, <2>2 DEF IsChild
  <2>3. ASSUME child' = [child EXCEPT !.pc = "gone", !.code = 1]
        PROVE  child'.pc = "gone"
    BY SMT, <1>0, <2>3 DEF IsChild
  <2> QED BY <2>1, <2>2, <2>3
<1>3. Begun' /\ Ran' BY <1>0, <1>1, <1>2, <1>r DEF Begun, Ran
<1>4. Phases'
  <2>1. client.pc # "ack" /\ client.pc # "start" BY <1>0, <1>r DEF Past, ShellInv, Parsed
  <2>2. child'.pc \in {"exec", "gone"} BY <1>1, <1>2
  <2> QED BY <1>0, <1>r, <1>s, <2>1, <2>2 DEF ShellInv, Phases
<1>5. Taken = 3 /\ Taken' = 3 + 1
  <2>1. 3 + 1 = 4 BY SMT
  <2> QED BY <1>0, <1>1, <1>2, <2>1 DEF Taken
<1>6. ASSUME AllOpen PROVE (up[1] = <<"int", 0>>) <=> ~NeedsPty
  <2>1. Len(up) = 4 - 3 /\ \A i \in 1..Len(up) : up[i] = Sent(3 + i)
    BY <1>5, <1>6, <1>r DEF ShellInv, Upward
  <2>2. up[1] = Sent(4)
    <3>1. 1 \in 1..4 - 3 /\ 3 + 1 = 4 BY SMT
    <3> QED BY <2>1, <3>1
  <2>3. up[1] = <<"int", IF NeedsPty THEN 1 ELSE 0>> BY <2>2 DEF Sent
  <2>4. <<"int", 1>> # <<"int", 0>> BY SMT
  <2> QED BY <2>3, <2>4
<1>7. ASSUME AllOpen
      PROVE  ~pty /\ \A i \in 1..3 : child.fds[i] = IF Atty(Std[i]) THEN NoFd ELSE Std[i]
  BY <1>0, <1>7 DEF ShellInv, Upward, IsChild
<1>8. Std[1] = "in" /\ Std[2] = "out" /\ Std[3] = "err" /\ \A i \in 1..3 : i = 1 \/ i = 2 \/ i = 3
  BY SMT DEF Std
<1>9. \A i \in 1..3 : Std[i] \in StdNames /\ Std[i] # NoFd BY <1>8 DEF StdNames, NoFd
<1>10. ASSUME AllOpen, none
       PROVE  ~NeedsPty /\ \A i \in 1..3 : child'.fds[i] = IF Atty(Std[i]) THEN "pts" ELSE Std[i]
  <2>1. ~NeedsPty
    <3>1. open \/ fail => ~none
      BY <1>2, SMT
    <3> QED BY <1>1, <1>6, <1>10, <3>1
  <2>2. \A i \in 1..3 : ~Atty(Std[i]) BY <1>9, <2>1 DEF NeedsPty
  <2> QED BY <1>2, <1>7, <1>10, <2>1, <2>2
<1>11. ASSUME AllOpen, open
       PROVE  \A i \in 1..3 : child'.fds[i] = IF Atty(Std[i]) THEN "pts" ELSE Std[i]
  <2>1. child'.fds = q BY <1>2, <1>11
  <2>2. \A i \in 1..3 : q[i] = IF child.fds[i] = NoFd THEN "pts" ELSE child.fds[i] OBVIOUS
  <2> HIDE DEF q
  <2> QED BY <1>7, <1>9, <1>11, <2>1, <2>2
<1>12. Upward'
  <2>1. AllOpen => Len(up') = 4 - Taken' /\ \A i \in 1..Len(up') : up'[i] = Sent(Taken' + i)
    BY <1>0, <1>5, OneTaken
  <2> HIDE DEF q
  <2>2. none \/ open \/ fail BY <1>1
  <2> QED BY <1>s, <1>2, <1>10, <1>11, <2>1, <2>2 DEF Upward
<1>13. Downward'
  <2> SUFFICES ASSUME Whole', AllOpen
               PROVE  /\ Len(down') = Terminal'
                      /\ Terminal' = 1 => down'[1] = <<"fd", "ptmx">>
                      /\ client.pc \in {"pump", "code", "done"} /\ NeedsPty => pty'
                      /\ client.pc \notin {"deaf", "done"}
    BY <1>0, <1>r, <1>s DEF Downward, Whole
  <2>1. /\ Len(down) = Terminal
        /\ Terminal = 1 => down[1] = <<"fd", "ptmx">>
        /\ client.pc \in {"pump", "code", "done"} /\ NeedsPty => pty
        /\ client.pc \notin {"deaf", "done"}
    BY <1>0, <1>r DEF ShellInv, Downward, Whole
  <2>2. ~pty BY <1>7
  <2>3. Terminal = 0 BY <2>2 DEF Terminal
  <2>4. CASE none
    <3>1. Terminal' = 0 BY <1>0, <2>2, <2>4 DEF Terminal
    <3>2. 0 # 1 BY SMT
    <3> QED BY <2>1, <2>3, <2>4, <3>1, <3>2
  <2>5. CASE open
    <3>1. NeedsPty BY <1>6, <1>1, <1>10, <2>2, <2>5
    <3>2. client.pc = "ptmx"
      BY <1>0, <1>r, <2>1, <2>2, <3>1 DEF ShellInv, ShTypes, IsClient, ClientPlaces, Past, Parsed
    <3>3. Terminal' = 1 BY <1>0, <2>5, <3>2 DEF Terminal
    <3>4. Len(down') = 1 /\ down'[1] = <<"fd", "ptmx">>
      <4>1. down \in Seq(Message) /\ Len(down) = 0 BY <2>1, <2>3 DEF ShellInv, ShTypes
      <4>2. ASSUME NEW m PROVE Len(Append(down, m)) = 1 /\ Append(down, m)[1] = m BY SMT, <4>1
      <4> QED BY <2>5, <4>2
    <3> QED BY <2>5, <3>2, <3>3, <3>4
  <2>6. ~fail
    <3>1. fail => NeedsPty BY <1>1, <1>6, <1>2
    <3>2. fail => child'.pc = "gone" BY <1>2
    <3>3. fail => pty' = pty OBVIOUS
    <3> HIDE DEF fail
    <3> QED BY <1>s, <2>2, <3>1, <3>2, <3>3 DEF Whole
  <2> QED BY <1>1, <2>4, <2>5, <2>6
<1> QED BY <1>3, <1>4, <1>12, <1>13 DEF Rest

\* The child becomes the shell, unless a stream is missing.
LEMMA RestExecShell == ShellInv /\ ExecShell => Rest'
<1> SUFFICES ASSUME ShellInv, ExecShell PROVE Rest' OBVIOUS
<1>0. child.pc = "exec" /\ UNCHANGED settled /\ UNCHANGED <<client, up, down, server, pty>>
      /\ IsChild(child)
  BY DEF ExecShell, ShellInv, ShTypes
<1>s. NeedsPty' = NeedsPty /\ AllOpen' = AllOpen /\ (\A i : Sent(i)' = Sent(i))
      /\ (\A s : Atty(s)' = Atty(s)) /\ Namespace' = Namespace /\ Gid' = Gid
  BY <1>0, Steady
<1>r. Past /\ server = "wait" /\ client.pc # "start"
  BY <1>0 DEF ShellInv, ShTypes, Begun, Parsed, Phases, Past
<1>1. \/ child' = [child EXCEPT !.pc = "gone", !.code = 1] /\ \E i \in 1..3 : child.fds[i] = NoFd
      \/ child' = [child EXCEPT !.pc = "shell", !.ns = Namespace, !.gid = Gid]
  BY DEF ExecShell
<1>2. ASSUME child' = [child EXCEPT !.pc = "gone", !.code = 1]
      PROVE  child'.pc = "gone"
  BY SMT, <1>0, <1>2 DEF IsChild
<1>3. ASSUME child' = [child EXCEPT !.pc = "shell", !.ns = Namespace, !.gid = Gid]
      PROVE  child'.pc = "shell" /\ child'.fds = child.fds /\ child'.code = child.code
             /\ child'.ns = Namespace /\ child'.gid = Gid
  BY SMT, <1>0, <1>3 DEF IsChild
<1>4. AllOpen => ~(\E i \in 1..3 : child.fds[i] = NoFd)
  <2>1. Std[1] = "in" /\ Std[2] = "out" /\ Std[3] = "err" /\ \A i \in 1..3 : i = 1 \/ i = 2 \/ i = 3
    BY SMT DEF Std
  <2>2. AllOpen => \A i \in 1..3 : child.fds[i] = IF Atty(Std[i]) THEN "pts" ELSE Std[i]
    BY <1>0 DEF ShellInv, Upward
  <2>3. \A i \in 1..3 : Std[i] # NoFd BY <2>1 DEF NoFd
  <2>4. "pts" # NoFd BY DEF NoFd
  <2> QED BY <2>2, <2>3, <2>4
<1>5. child'.pc \in {"gone", "shell"} BY <1>1, <1>2, <1>3
<1>6. Begun' BY <1>0, <1>r DEF Begun
<1>7. Ran' BY <1>s, <1>1, <1>2, <1>3 DEF Ran
<1>8. Phases' BY <1>0, <1>r, <1>s, <1>5 DEF ShellInv, Phases, Past
<1>9. Taken' = 4 /\ Taken = 4 BY <1>0, <1>5 DEF Taken
<1>10. Upward' BY <1>0, <1>r, <1>s, <1>1, <1>2, <1>3, <1>4, <1>9 DEF ShellInv, Upward
<1>11. Downward'
  <2> SUFFICES ASSUME AllOpen
               PROVE  /\ Len(down') = Terminal'
                      /\ Terminal' = 1 => down'[1] = <<"fd", "ptmx">>
                      /\ client.pc \in {"pump", "code", "done"} /\ NeedsPty => pty'
                      /\ client.pc \notin {"deaf", "done"}
    BY <1>0, <1>r, <1>s DEF Downward, Whole
  <2>1. Terminal' = Terminal BY <1>0 DEF Terminal
  <2> QED BY <1>0, <1>r, <2>1 DEF ShellInv, Downward, Whole
<1> QED BY <1>6, <1>7, <1>8, <1>10, <1>11 DEF Rest

\* The shell exits.
LEMMA RestShellExits == ShellInv /\ ShellExits => Rest'
<1> SUFFICES ASSUME ShellInv, ShellExits PROVE Rest' OBVIOUS
<1>0. child.pc = "shell" /\ UNCHANGED settled /\ UNCHANGED <<client, up, down, server, pty>>
      /\ IsChild(child)
  BY DEF ShellExits, ShellInv, ShTypes
<1>s. NeedsPty' = NeedsPty /\ AllOpen' = AllOpen /\ \A i : Sent(i)' = Sent(i)
  BY <1>0, Steady
<1>r. Past /\ server = "wait" /\ client.pc # "start"
  BY <1>0 DEF ShellInv, ShTypes, Begun, Parsed, Phases, Past
<1>1. child'.pc = "gone"
  <2>1. PICK c \in Codes : child' = [child EXCEPT !.pc = "gone", !.code = c] BY DEF ShellExits
  <2> QED BY SMT, <1>0, <2>1 DEF IsChild
<1>2. Begun' /\ Ran' BY <1>0, <1>1, <1>r DEF Begun, Ran
<1>3. Phases' BY <1>0, <1>1, <1>r, <1>s DEF ShellInv, Phases, Past
<1>4. Taken' = 4 /\ Taken = 4 BY <1>0, <1>1 DEF Taken
<1>5. Upward' BY <1>0, <1>1, <1>4, <1>r, <1>s DEF ShellInv, Upward
<1>6. Downward'
  <2> SUFFICES ASSUME AllOpen
               PROVE  /\ Len(down') = Terminal'
                      /\ Terminal' = 1 => down'[1] = <<"fd", "ptmx">>
                      /\ client.pc \in {"pump", "code", "done"} /\ NeedsPty => pty'
                      /\ client.pc \notin {"deaf", "done"}
    BY <1>0, <1>r, <1>s DEF Downward, Whole
  <2>1. Terminal' = Terminal BY <1>0 DEF Terminal
  <2> QED BY <1>0, <1>r, <2>1 DEF ShellInv, Downward, Whole
<1> QED BY <1>2, <1>3, <1>5, <1>6 DEF Rest

\* The exit code is sent.
LEMMA RestWaitChild == ShellInv /\ WaitChild => Rest'
<1> SUFFICES ASSUME ShellInv, WaitChild PROVE Rest' OBVIOUS
<1>0. child.pc = "gone" /\ server = "wait" /\ server' = "closed" /\ UNCHANGED settled
      /\ UNCHANGED <<client, up, child, pty>> /\ down' = Append(down, <<"int", child.code>>)
  BY DEF WaitChild
<1>s. NeedsPty' = NeedsPty /\ AllOpen' = AllOpen /\ (\A i : Sent(i)' = Sent(i))
      /\ (\A s : Atty(s)' = Atty(s)) /\ Namespace' = Namespace /\ Gid' = Gid
  BY <1>0, Steady
<1>r. Past /\ client.pc # "start"
  BY <1>0 DEF ShellInv, Parsed, Phases, Past
<1>1. Begun' /\ Ran' BY <1>0 DEF Begun, Ran
<1>2. Phases' BY <1>0, <1>r, <1>s DEF ShellInv, Phases, Past
<1>3. Taken' = Taken BY <1>0 DEF Taken
<1>4. Upward' BY <1>0, <1>3, <1>r, <1>s DEF ShellInv, Upward
<1>5. Downward'
  <2> SUFFICES ASSUME Whole
               PROVE  /\ Len(down') = Terminal' + 1
                      /\ Terminal' = 1 => down'[1] = <<"fd", "ptmx">>
                      /\ down'[Terminal' + 1] = <<"int", child.code>>
                      /\ client.pc \in {"pump", "code", "done"} /\ NeedsPty => pty
                      /\ client.pc # "deaf"
                      /\ client.pc = "done" => client.result = <<"code", child.code>>
    BY <1>0, <1>r, <1>s DEF Downward, Whole
  <2>1. /\ Len(down) = Terminal
        /\ Terminal = 1 => down[1] = <<"fd", "ptmx">>
        /\ client.pc \in {"pump", "code", "done"} /\ NeedsPty => pty
        /\ client.pc # "deaf"
        /\ client.pc = "done" => client.result = <<"code", child.code>>
    BY <1>0, <1>r DEF ShellInv, Downward
  <2>2. Terminal' = Terminal BY <1>0 DEF Terminal
  <2>3. down \in Seq(Message) BY DEF ShellInv, ShTypes
  <2>4. /\ Len(down') = Len(down) + 1 /\ down'[Len(down) + 1] = <<"int", child.code>>
        /\ Len(down) = 1 => down'[1] = down[1]
    <3>1. \A m : /\ Len(Append(down, m)) = Len(down) + 1 /\ Append(down, m)[Len(down) + 1] = m
                 /\ Len(down) = 1 => Append(down, m)[1] = down[1]
      BY SMT, <2>3
    <3> QED BY <1>0, <3>1
  <2> QED BY <2>1, <2>2, <2>4
<1> QED BY <1>1, <1>2, <1>4, <1>5 DEF Rest

\* The invariant of the applet, the daemon's thread and the child.
THEOREM ShellInvariant == SuSpec => []ShellInv
<1>1. SuInit => ShellInv BY ShTypesInit, RestInit DEF ShellInv, Rest
<1>2. ASSUME ShellInv, [SuNext]_suVars PROVE ShellInv'
  <2>1. ShTypes' /\ Parsed' BY <1>2, ShTypesNext, ParsedNext DEF ShellInv
  <2>2. ASSUME UNCHANGED suVars PROVE Rest'
    <3>1. UNCHANGED settled BY <2>2 DEF suVars, settled
    <3>2. NeedsPty' = NeedsPty /\ AllOpen' = AllOpen /\ (\A i : Sent(i)' = Sent(i))
          /\ (\A s : Atty(s)' = Atty(s)) /\ Namespace' = Namespace /\ Gid' = Gid
      BY <3>1, Steady
    <3>3. UNCHANGED <<client, up, down, server, child, pty>> BY <2>2 DEF suVars
    <3>4. Taken' = Taken /\ Past' = Past /\ Terminal' = Terminal BY <3>3 DEF Taken, Past, Terminal
    <3>5. Whole' = Whole BY <3>2, <3>3 DEF Whole
    <3>6. Begun' /\ Phases' /\ Ran' BY <1>2, <3>2, <3>3 DEF ShellInv, Begun, Phases, Ran
    <3>7. Upward' BY <1>2, <3>2, <3>3, <3>4 DEF ShellInv, Upward
    <3>8. Downward' BY <1>2, <3>2, <3>3, <3>4, <3>5 DEF ShellInv, Downward
    <3> QED BY <3>6, <3>7, <3>8 DEF Rest
  <2>3. ASSUME SuNext PROVE Rest'
    BY <1>2, <2>3, RestGetOpt, RestSuStart, RestServe, RestReadAck, RestRecvPtmx, RestPumpOver,
       RestReadCode, RestRecvFd, RestOpenPty, RestExecShell, RestShellExits, RestWaitChild
       DEF SuNext, Unprompted
  <2>4. Rest' BY <1>2, <2>2, <2>3
  <2> QED BY <2>1, <2>4 DEF ShellInv, Rest
<1> QED BY <1>1, <1>2, PTL DEF SuSpec

\* exec_root_shell: the namespace is the one asked for.
LEMMA NamespaceAsked ==
  ASSUME mode \in {"Global", "Requester", "Isolate"}, request.target \in Int
  PROVE  /\ request.target = 0 => Namespace = <<0, FALSE>>
         /\ request.target > 0 => Namespace[1] = request.target
<1>0. 0 # -1 BY SMT
<1>1. request.target = 0 => Namespace = <<0, FALSE>> BY <1>0 DEF Namespace
<1>2. ASSUME request.target > 0 PROVE Namespace[1] = request.target
  <2>1. request.target # 0 /\ request.target # -1 BY SMT, <1>2
  <2>2. Namespace \in {<<request.target, FALSE>>, <<request.target, TRUE>>}
    BY <2>1 DEF Namespace
  <2>3. \A x, b : <<x, b>>[1] = x BY SMT
  <2> QED BY <2>2, <2>3
<1> QED BY <1>1, <1>2

(* The shell has the streams, the namespace and the group that were asked  *)
(* for, for any command line, streams and settings.                        *)
THEOREM ShellIsAsAsked == SuSpec => []ShellAsAsked
<1>1. ASSUME ShellInv PROVE ShellAsAsked
  <2> SUFFICES ASSUME child.pc = "shell", AllOpen
               PROVE  /\ \A i \in 1..3 : child.fds[i] = IF Atty(Std[i]) THEN "pts" ELSE Std[i]
                      /\ \A i \in 1..Len(opts) : Given(i) =>
                           /\ opts[i][1] = "M" => child.ns = <<0, FALSE>>
                           /\ opts[i][1] = "t" /\ opts[i][2] > 0 => child.ns[1] = opts[i][2]
                           /\ opts[i][1] \in {"g", "G"}
                              /\ (\A j \in 1..i - 1 : opts[j][1] \notin {"g", "G"})
                                => child.gid = opts[i][2]
    BY DEF ShellAsAsked
  <2>1. \A i \in 1..3 : child.fds[i] = IF Atty(Std[i]) THEN "pts" ELSE Std[i]
    BY <1>1 DEF ShellInv, Upward
  <2>2. child.ns = Namespace /\ child.gid = Gid BY <1>1 DEF ShellInv, Ran
  <2>3. server # "none" BY <1>1 DEF ShellInv, Begun
  <2>4. ~request.bad /\ optind > Len(opts) /\ Asked BY <1>1, <2>3 DEF ShellInv, Parsed
  <2>5. mode \in {"Global", "Requester", "Isolate"} /\ request.target \in Int
    BY <1>1, ShellAssumption DEF ShellInv, ShTypes, IsRequest
  <2>6. /\ request.target = 0 => Namespace = <<0, FALSE>>
        /\ request.target > 0 => Namespace[1] = request.target
    BY <2>5, NamespaceAsked
  <2>7. ASSUME NEW i \in 1..Len(opts), Given(i)
        PROVE  /\ opts[i][1] = "M" => child.ns = <<0, FALSE>>
               /\ opts[i][1] = "t" /\ opts[i][2] > 0 => child.ns[1] = opts[i][2]
               /\ opts[i][1] \in {"g", "G"} /\ (\A j \in 1..i - 1 : opts[j][1] \notin {"g", "G"})
                    => child.gid = opts[i][2]
    <3>1. i < optind
      <4>1. opts \in Seq(STRING \X Int) /\ optind \in 1..Len(opts) + 1
        BY <1>1, ShellAssumption DEF ShellInv, ShTypes
      <4> QED BY SMT, <2>4, <4>1
    <3>2. /\ opts[i][1] = "M" => request.target = 0
          /\ opts[i][1] = "t" => request.target = opts[i][2]
          /\ Group(i) /\ (\A j \in 1..i - 1 : ~Group(j)) =>
               request.gids # <<>> /\ request.gids[1] = opts[i][2]
      BY <2>4, <2>7, <3>1 DEF Asked
    <3> QED BY <2>2, <2>6, <3>2 DEF Group, Gid
  <2> QED BY <2>1, <2>7
<1> QED BY <1>1, ShellInvariant, PTL

(* The applet is never stuck and returns the shell's exit code, for any    *)
(* command line, streams and settings.                                     *)
THEOREM SuAlwaysReturns == SuSpec => []SuReturns
<1>1. ASSUME ShellInv PROVE SuReturns
  <2>1. ASSUME client.pc = "done", child.pc = "gone", Whole
        PROVE  client.result = <<"code", child.code>>
    <3>1. Past BY <2>1 DEF Past
    <3> QED BY <1>1, <2>1, <3>1 DEF ShellInv, Downward
  <2>2. ASSUME client.pc # "done", Whole PROVE CanGoOn
    <3>1. client.pc \in ClientPlaces /\ child.pc \in ChildPlaces
          /\ server \in {"none", "decide", "wait", "closed"}
      BY <1>1 DEF ShellInv, ShTypes, IsClient, IsChild
    <3>2. CASE client.pc = "start" BY <3>2 DEF CanGoOn
    <3>3. CASE client.pc = "ack"
      <4>1. CASE server = "closed" BY <3>3, <4>1 DEF CanGoOn, Readable
      <4>2. CASE server = "wait"
        <5>1. down = <<<<"int", 0>>>> BY <1>1, <3>3, <4>2 DEF ShellInv, Phases
        <5>2. down # <<>> BY SMT, <5>1
        <5> QED BY <3>3, <5>2 DEF CanGoOn, Readable
      <4>3. CASE server = "decide" BY <4>3 DEF CanGoOn
      <4>4. server # "none" BY <1>1, <3>3 DEF ShellInv, Phases
      <4> QED BY <3>1, <4>1, <4>2, <4>3, <4>4
    <3>4. CASE client.pc \in {"ptmx", "pump", "code"}
      <4>1. child.pc # "none" /\ Past BY <1>1, <3>4 DEF ShellInv, Phases, Past
      <4>2. CASE child.pc \in {"exec", "shell"} BY <4>2 DEF CanGoOn
      <4>3. CASE child.pc \in {"fds", "pty"}
        <5>1. Taken \in Nat /\ Taken <= 3 BY SMT, <1>1, <4>3 DEF ShellInv, ShTypes, IsChild, Taken
        <5>2. Len(up) = 4 - Taken BY <1>1, <2>2, <4>1 DEF ShellInv, Upward, Whole
        <5>3. up # <<>> BY SMT, <5>1, <5>2
        <5> QED BY <4>3, <5>3 DEF CanGoOn
      <4>4. CASE child.pc = "gone"
        <5>1. server \in {"wait", "closed"} BY <1>1, <3>1, <4>4 DEF ShellInv, Begun
        <5>2. CASE server = "wait" BY <4>4, <5>2 DEF CanGoOn
        <5>3. CASE server = "closed" /\ client.pc # "pump" BY <3>4, <5>3 DEF CanGoOn, Readable
        <5>4. CASE client.pc = "pump"
          <6>1. NeedsPty BY <1>1, <5>4 DEF ShellInv, Phases
          <6>2. pty BY <2>2, <4>4, <6>1 DEF Whole
          <6> QED BY <4>4, <5>4, <6>2 DEF CanGoOn
        <5> QED BY <5>1, <5>2, <5>3, <5>4
      <4> QED BY <3>1, <4>1, <4>2, <4>3, <4>4 DEF ChildPlaces
    <3>5. CASE client.pc = "deaf"
      <4>1. Past BY <1>1, <3>5 DEF ShellInv, Phases, Past
      <4> QED BY <1>1, <2>2, <3>5, <4>1 DEF ShellInv, Downward
    <3> QED BY <2>2, <3>1, <3>2, <3>3, <3>4, <3>5 DEF ClientPlaces
  <2> QED BY <2>1, <2>2 DEF SuReturns, Whole
<1> QED BY <1>1, ShellInvariant, PTL
=============================================================================
