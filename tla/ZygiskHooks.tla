---------------------------- MODULE ZygiskHooks ----------------------------
(***************************************************************************)
(* Zygisk inside the zygote and its children: native/src/core/zygisk       *)
(* hook.cpp, module.cpp, module.hpp and the wrappers of jni_hooks.hpp.     *)
(*                                                                         *)
(* The loader hooks a few library functions (PLT), those replace the       *)
(* native methods of the Zygote class (JNI), and each replaced method runs *)
(* as: a ZygiskContext and its X_pre, the original method, X_post and the  *)
(* destructor.  The fork is done in X_pre; parent and child then both run  *)
(* the original method, whose own fork() returns the cached result.  A     *)
(* child unhooks and unmaps everything once it is specialized.             *)
(*                                                                         *)
(* A process is a record: its hooks, the globals g_hook and g_ctx, open    *)
(* descriptors ("sys" the zygote's own, "log" the log pipe, "mod" one a    *)
(* module opened), the modules in it and the state of its mounts.          *)
(***************************************************************************)
EXTENDS Integers

CONSTANTS Pids, Zygote,  \* processes, and the one that is the zygote
          Mods,           \* the modules the daemon hands out
          Methods,        \* native methods: "app", "spec", "server"
          MaxCalls        \* bound on the native methods called in all

ASSUME HooksAssumption == Zygote \in Pids /\ {"app", "spec", "server"} \subseteq Methods

VARIABLES proc, calls, forkFailed

hookVars == <<proc, calls, forkFailed>>

PltSyms == {"dlclose", "fork", "unshare", "setcontext", "strdup", "log_close"}
Unloader == "pthread_attr_destroy"

NoCtx == [call |-> "none", pid |-> 0, flags |-> {}, info |-> {}, mods |-> {},
          allowed |-> {}, exempted |-> {}, ignore |-> {}, unload |-> {}]

Dead == [st |-> "dead", plt |-> {}, backup |-> {}, jni |-> [m \in Methods |-> "orig"],
         saved |-> [m \in Methods |-> "ours"], hook |-> "none", self |-> FALSE,
         callbacks |-> FALSE, unmap |-> FALSE, mapped |-> FALSE, fds |-> {},
         ctx |-> NoCtx, loaded |-> {}, api |-> {}, mounts |-> "shared", denied |-> FALSE,
         sigchld |-> TRUE]

Set(p, r) == proc' = [proc EXCEPT ![p] = r]
Live(p) == proc[p].st # "dead"
IsChild(r) == r.ctx.pid <= 0
With(r, flag) == [r EXCEPT !.ctx.flags = @ \cup {flag}]
Has(r, flag) == flag \in r.ctx.flags

----------------------------------------------------------------------------
(* HookContext.  hook_plt keeps the functions that could be hooked in      *)
(* plt_backup.                                                             *)

hook_entry ==
  LET z == proc[Zygote] IN
  /\ z.st = "start" /\ z.hook = "none"
  /\ \E failed \in {{}, {"unshare"}, {"strdup"}} :
       Set(Zygote, [z EXCEPT !.hook = "live", !.mapped = TRUE, !.st = "loading",
                             !.plt = PltSyms \ failed, !.backup = PltSyms \ failed])
  /\ UNCHANGED <<calls, forkFailed>>

\* new_dlclose and post_native_bridge_load: the unwinder may not find the
\* runtime callbacks.
dlclose ==
  LET z == proc[Zygote] IN
  /\ z.st = "loading" /\ ~z.self
  /\ \E found \in BOOLEAN : Set(Zygote, [z EXCEPT !.self = TRUE, !.callbacks = found])
  /\ UNCHANGED <<calls, forkFailed>>

\* hook_jni_methods: swap each entry of saved with the method's pointer.
SwapJni(r) ==
  IF ~r.callbacks THEN [r EXCEPT !.saved = [m \in Methods |-> "null"]]
  ELSE LET swap == {m \in Methods : r.saved[m] # "null"} IN
       [r EXCEPT !.jni = [m \in Methods |-> IF m \in swap THEN r.saved[m] ELSE @[m]],
                 !.saved = [m \in Methods |-> IF m \in swap THEN r.jni[m] ELSE @[m]]]

\* new_strdup and hook_zygote_jni: without a JavaVM nothing is replaced.
strdup ==
  LET z == proc[Zygote] IN
  /\ z.st = "loading" /\ z.self
  /\ \E vm \in BOOLEAN :
       Set(Zygote, [(IF vm /\ "strdup" \in z.plt THEN SwapJni(z) ELSE z) EXCEPT !.st = "idle"])
  /\ UNCHANGED <<calls, forkFailed>>

----------------------------------------------------------------------------
(* ZygiskContext: what happens before the original method.                 *)

\* ZLOG* opens the log pipe again wherever it is used.
Log(r) == [r EXCEPT !.fds = @ \cup {"log"}]
CloseLog(r) == [r EXCEPT !.fds = @ \ {"log"}]

\* RegisterModuleImpl, valid, and what a module does in its callbacks:
\* open a descriptor, exempt it, set the two options.
Does == [opens : BOOLEAN, exempts : BOOLEAN, force : BOOLEAN, dlclose : BOOLEAN]

CanExempt(r) == r.ctx.call = "app" /\ Has(r, "FDS_TO_IGNORE")
ExemptFd(r) ==
  IF Has(r, "POST_SPECIALIZE") \/ Has(r, "SKIP_CLOSE_LOG_PIPE") \/ ~CanExempt(r) THEN r
  ELSE [r EXCEPT !.ctx.exempted = @ \cup {"mod"}]

RunModulesPre(r, mods, d) ==
  LET r1 == [r EXCEPT !.loaded = @ \cup mods, !.api = @ \cup mods, !.ctx.mods = mods]
      r2 == IF d.opens THEN [r1 EXCEPT !.fds = @ \cup {"mod"}] ELSE r1
      r3 == IF d.opens /\ d.exempts THEN ExemptFd(r2) ELSE r2
      r4 == IF d.force THEN With(r3, "DO_REVERT_UNMOUNT") ELSE r3
  IN  IF mods = {} THEN r
      ELSE [r4 EXCEPT !.ctx.unload = IF d.dlclose THEN mods ELSE {}]

\* Mutant: the modules are run for a process on the deny list as well.
AppPreRunsAll(r, deny, mods, d) ==
  LET s == With(r, "APP_SPECIALIZE") IN
  RunModulesPre(IF deny THEN [With(s, "DO_REVERT_UNMOUNT") EXCEPT !.denied = TRUE] ELSE s, mods, d)

\* get_module_info and app_specialize_pre: no answer, on the enforced deny
\* list, or a set of modules that loaded and are valid.
AppPre(r, deny, mods, d) ==
  LET s == With(r, "APP_SPECIALIZE") IN
  IF deny THEN [With(s, "DO_REVERT_UNMOUNT") EXCEPT !.denied = TRUE]
  ELSE RunModulesPre(s, mods, d)

SpecializePre(r, deny, mods, d) ==
  IF r.ctx.call = "server" THEN RunModulesPre(r, mods, d) ELSE AppPre(r, deny, mods, d)

\* fork_pre in the child: remember what is open, the log pipe apart.
RecordFds(r) == LET s == Log(r) IN [s EXCEPT !.ctx.allowed = s.fds \ {"log"}]

\* Mutant: descriptors a module opened stay open.
SanitizeLogOnly(r) == CloseLog(r)

SanitizeFds(r) ==
  LET s == CloseLog(r)
      exempt == IF CanExempt(s) THEN s.ctx.exempted ELSE {}
  IN  IF ~IsChild(s) THEN s
      ELSE [s EXCEPT !.ctx.ignore = exempt, !.fds = @ \cap (s.ctx.allowed \cup exempt)]

\* The ZygiskContext the wrapper makes: fds_to_ignore is there since
\* Android 8.
Enter(r, m, flags) ==
  Log([r EXCEPT !.ctx = [NoCtx EXCEPT !.call = m, !.pid = -1, !.flags = flags]])

\* fork_pre: SIGCHLD is blocked and the process forks.
Fork(r, pid) == [r EXCEPT !.ctx.pid = pid, !.sigchld = FALSE]

\* The rest of the method's X_pre, on either side of the fork.
ForkParent(r) == [SanitizeFds(Fork(r, 1)) EXCEPT !.st = "orig"]
ForkChild(r, pid, deny, mods, d) ==
  [SanitizeFds(SpecializePre(RecordFds(Fork(r, pid)), deny, mods, d)) EXCEPT !.st = "orig"]

\* nativeForkAndSpecialize_pre and nativeForkSystemServer_pre.  A fork that
\* fails leaves pid at -1, which is_child() takes for a child.
ForkPre(p, m) ==
  /\ proc[p].st = "idle" /\ p = Zygote /\ m \in {"app", "server"}
  /\ proc[p].jni[m] = "ours" /\ calls < MaxCalls
  /\ \E flags \in {{}, {"FDS_TO_IGNORE"}}, deny \in BOOLEAN, mods \in SUBSET Mods, d \in Does :
       LET r == Enter(proc[p], m, flags) IN
       /\ m = "server" => ~deny /\ flags = {}
       /\ \/ \E c \in Pids :
               /\ ~Live(c)
               /\ proc' = [proc EXCEPT ![p] = ForkParent(r), ![c] = ForkChild(r, 0, deny, mods, d)]
               /\ UNCHANGED forkFailed
          \/ Set(p, ForkChild(r, -1, deny, mods, d)) /\ forkFailed' = TRUE
  /\ calls' = calls + 1

\* nativeSpecializeAppProcess_pre, in a process forked for later use.
SpecPre(p) ==
  /\ proc[p].st = "usap" /\ proc[p].jni["spec"] = "ours"
  /\ \E deny \in BOOLEAN, mods \in SUBSET Mods, d \in Does :
       Set(p, [AppPre(Enter(proc[p], "spec", {"SKIP_CLOSE_LOG_PIPE"}), deny, mods, d)
                 EXCEPT !.st = "orig"])
  /\ UNCHANGED <<calls, forkFailed>>

----------------------------------------------------------------------------
(* The original method, through the functions it calls that are hooked:    *)
(* __android_log_close, fork, unshare, selinux_android_setcontext.         *)

\* new_android_log_close
LogClose(r) ==
  IF "log_close" \in r.plt /\ ~Has(r, "SKIP_CLOSE_LOG_PIPE") THEN CloseLog(r) ELSE r

\* new_unshare and revert_unmount
Unshare(r) ==
  [r EXCEPT !.mounts = IF "unshare" \in r.plt /\ r.ctx.call # "none" /\ Has(r, "DO_REVERT_UNMOUNT")
                       THEN "clean" ELSE "private"]

\* What a process that is being specialized does in it.
Specialize(r, newns) ==
  LET s == IF newns THEN Unshare(r) ELSE r IN
  [(IF "setcontext" \in s.plt THEN Log(s) ELSE s) EXCEPT !.st = "post"]

\* A call the parent or the child runs after our own fork; with pid = -1
\* new_fork forks once more.
Original(p) ==
  /\ proc[p].st = "orig"
  /\ \E newns \in BOOLEAN :
       LET r == LogClose(proc[p])
           parent == [r EXCEPT !.st = "post"]
           refork == r.ctx.call # "spec" /\ r.ctx.pid < 0
       IN  IF refork
           THEN \/ \E c \in Pids : /\ ~Live(c) /\ newns
                                    /\ proc' = [proc EXCEPT ![p] = parent, ![c] = Specialize(r, newns)]
                \/ Set(p, parent)
           ELSE Set(p, IF r.ctx.pid > 0 THEN parent ELSE Specialize(r, newns))
  /\ UNCHANGED <<calls, forkFailed>>

\* A native method that is not replaced: nativeForkUsap, or any of them
\* when the replacement did not happen.
PlainFork(p, st) ==
  /\ proc[p].st = "idle" /\ p = Zygote /\ calls < MaxCalls
  /\ st = "run" => proc[p].jni["app"] = "orig"
  /\ LET r == LogClose(proc[p]) IN
     \E c \in Pids : ~Live(c) /\ proc' = [proc EXCEPT ![p] = r, ![c] = [r EXCEPT !.st = st]]
  /\ calls' = calls + 1 /\ UNCHANGED forkFailed

----------------------------------------------------------------------------
(* X_post, the destructor and the way out.                                 *)

RunModulesPost(r) == [With(r, "POST_SPECIALIZE") EXCEPT !.loaded = @ \ r.ctx.unload]

Unhook(r) ==
  LET s == SwapJni([CloseLog(r) EXCEPT !.api = {}, !.unmap = TRUE]) IN
  [s EXCEPT !.plt = @ \cup {Unloader}, !.backup = @ \cup {Unloader}]

\* Mutant: the destructor unhooks in the parent, too.
PostEverywhere(p) ==
  /\ proc[p].st = "post"
  /\ LET r == proc[p] IN
     Set(p, [Unhook(RunModulesPost(r)) EXCEPT !.ctx = NoCtx, !.sigchld = TRUE,
                !.st = IF r.ctx.pid > 0 \/ p = Zygote THEN "idle" ELSE "run"])
  /\ UNCHANGED <<calls, forkFailed>>

\* X_post, then ~ZygiskContext
Post(p) ==
  /\ proc[p].st = "post"
  /\ LET r == proc[p]
         s == IF IsChild(r) THEN Unhook(RunModulesPost(r)) ELSE r
     IN  Set(p, [s EXCEPT !.ctx = NoCtx, !.sigchld = TRUE,
                          !.st = IF r.ctx.pid > 0 \/ p = Zygote THEN "idle" ELSE "run"])
  /\ UNCHANGED <<calls, forkFailed>>

\* Mutant: the hook that runs this code is left out of plt_backup.
RestoreOwn(r, ok) ==
  IF ok THEN [r EXCEPT !.plt = @ \ (r.backup \ {Unloader})] ELSE [r EXCEPT !.unmap = FALSE]

\* restore_plt_hook; when it fails the library has to stay.
RestorePlt(r, ok) ==
  IF ok THEN [r EXCEPT !.plt = @ \ r.backup] ELSE [r EXCEPT !.unmap = FALSE]

\* new_pthread_attr_destroy on the main thread.  Once g_hook is deleted the
\* process is only followed to the next call.
pthread_attr_destroy(p) ==
  /\ proc[p].st \in {"run", "idle"} /\ Unloader \in proc[p].plt /\ proc[p].hook = "live"
  /\ \E ok \in BOOLEAN :
       LET r == RestorePlt(proc[p], ok) IN
       Set(p, [r EXCEPT !.hook = "deleted", !.mapped = ~r.unmap])
  /\ UNCHANGED <<calls, forkFailed>>

ProcExit(p) ==
  /\ p # Zygote /\ proc[p].st = "run"
  /\ Set(p, Dead) /\ UNCHANGED <<calls, forkFailed>>

HooksInit ==
  /\ proc = [p \in Pids |-> IF p = Zygote THEN [Dead EXCEPT !.st = "start", !.fds = {"sys"}]
                             ELSE Dead]
  /\ calls = 0 /\ forkFailed = FALSE

HooksNext ==
  \/ hook_entry \/ dlclose \/ strdup
  \/ \E p \in Pids :
       \/ \E m \in Methods : ForkPre(p, m)
       \/ SpecPre(p) \/ Original(p) \/ Post(p) \/ pthread_attr_destroy(p) \/ ProcExit(p)
       \/ \E st \in {"usap", "run"} : PlainFork(p, st)

HooksSpec == HooksInit /\ [][HooksNext]_hookVars

----------------------------------------------------------------------------
(* When the original method starts, every descriptor a forked process has  *)
(* open was open in the zygote or is on the list of descriptors to ignore, *)
(* and the log pipe is closed: Android aborts the process otherwise.       *)
FdTableClean ==
  \A p \in Pids : proc[p].st = "orig" /\ proc[p].ctx.call \in {"app", "server"}
    => proc[p].fds \subseteq {"sys"} \cup proc[p].ctx.ignore

(* Once the library is unmapped, no hook of it is left in the process,     *)
(* neither in a PLT nor in the Zygote class, no module has a pointer into  *)
(* it, and no descriptor of it is open.                                    *)
UnloadSafe ==
  \A p \in Pids : Live(p) /\ proc[p].hook = "deleted" /\ ~proc[p].mapped
    => /\ proc[p].plt = {} /\ proc[p].api = {} /\ "log" \notin proc[p].fds
       /\ \A m \in Methods : proc[p].jni[m] = "orig"

(* A process on the enforced deny list has no module in it, and once it    *)
(* has its own mounts those of Magisk are gone from them, unless unshare   *)
(* could not be hooked.                                                    *)
DeniedClean ==
  \A p \in Pids : proc[p].denied =>
    /\ proc[p].loaded = {}
    /\ proc[p].mounts = "private" => "unshare" \notin proc[Zygote].plt

(* As long as its forks succeed the zygote never runs a module, never      *)
(* unhooks itself, and has SIGCHLD unblocked again between two calls.      *)
ZygoteIntact ==
  ~forkFailed => LET z == proc[Zygote] IN
                 /\ z.loaded = {} /\ ~z.unmap
                 /\ z.st = "idle" => z.sigchld /\ z.ctx = NoCtx
=============================================================================
