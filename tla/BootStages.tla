----------------------------- MODULE BootStages -----------------------------
(***************************************************************************)
(* The boot stages of magiskd and the module directory they work on        *)
(* (native/src/core/daemon.rs and module.cpp, with the parts of            *)
(* util_functions.sh and LocalModule.kt that change the same files).       *)
(*                                                                         *)
(* init asks for POST_FS_DATA, LATE_START and BOOT_COMPLETE.  Each request *)
(* runs on a pool thread of its own, and the threads compete for           *)
(* boot_stage_lock.  init waits for POST_FS_DATA only for a limited time,  *)
(* so the later requests can arrive while it is still running.  The device *)
(* can crash or be switched off between any two steps: what is on /data    *)
(* (the module directories and the database) survives, the rest does not.  *)
(***************************************************************************)
EXTENDS Naturals, FiniteSets

CONSTANTS Modules,        \* module ids
          ZygiskModules,  \* those with a zygisk folder
          RiruModules,    \* riru-core and those with a riru file
          NoModule,
          Scenes          \* the modules that exist; how many boots there are; may a
                          \* write to the database fail?  May a crash hit an installer,
                          \* or the deletion of a module, half way (torn)?

ASSUME BootAssumption ==
    /\ ZygiskModules \subseteq Modules /\ RiruModules \subseteq Modules
    /\ NoModule \notin Modules
    /\ Scenes \subseteq [modules : SUBSET Modules, boots : Nat, dbMayFail : BOOLEAN,
                         torn : BOOLEAN]

VARIABLES
    scene,        \* one of Scenes
    \* On /data.
    inst,         \* modules with a directory in MODULEROOT
    disabled,     \* ... with a "disable" file
    removing,     \* ... with a "remove" file
    updMark,      \* ... with an "update" file
    upd,          \* modules with a directory in MODULEUPGRADE
    updDisabled,  \* ... with a "disable" file
    env,          \* "none" (no SECURE_DIR), "incomplete" (no busybox), "ok"
    bootloop,     \* DbEntryKey::BootloopCount
    zygiskDb,     \* DbEntryKey::ZygiskConfig
    \* Of this boot.
    initpc,       \* init: "early", "wait", "late", "boot", "up"
    dataReady,    \* is /data mounted and decrypted?
    pc,           \* pc[s]: the thread of stage s
    lock,         \* boot_stage_lock: the stage holding it, or "free"
    flags,        \* BootStateFlags
    todo,         \* modules the current loop has yet to visit
    cur,          \* the module prepare_modules is at
    rootLinked,   \* does MODULEROOT, as prepare_modules opens it, exist?
    zygEnabled,   \* zygisk_enabled
    ran,          \* modules whose scripts or files have been used this boot
    installing,   \* the module an installer is half way through
    \* History.
    boots,        \* boots so far
    streak,       \* boots since the last completed one that used modules
    off,          \* modules disabled, and not enabled or reinstalled since
    gone,         \* modules marked for removal, and not reinstalled since
    before        \* off and gone as they were when this boot began

disk == <<inst, disabled, removing, updMark, upd, updDisabled>>
config == <<env, bootloop, zygiskDb>>
volatile == <<initpc, dataReady, pc, lock, flags, todo, cur, rootLinked, zygEnabled,
              ran, installing>>
history == <<boots, streak, off, gone, before>>
vars == <<scene, disk, config, volatile, history>>

Stages == {"POST_FS_DATA", "LATE_START", "BOOT_COMPLETE"}

Steps == {"none", "queued", "env", "count", "disable", "scripts", "upgrade", "rmold",
          "move", "collect", "modscripts", "recollect", "late", "bootc"}

BootState == {"PostFsDataDone", "LateStartDone", "BootComplete", "SafeMode"}

Wishes == [off |-> off, gone |-> gone]

Init ==
    /\ scene \in Scenes
    /\ inst \in SUBSET scene.modules
    /\ disabled \in SUBSET inst
    /\ removing = {} /\ updMark = {} /\ upd = {} /\ updDisabled = {}
    /\ env \in {"none", "incomplete", "ok"}
    /\ bootloop = 0
    /\ zygiskDb \in BOOLEAN
    /\ initpc = "early"
    /\ dataReady \in BOOLEAN
    /\ pc = [s \in Stages |-> "none"]
    /\ lock = "free"
    /\ flags = {} /\ todo = {} /\ cur = NoModule /\ rootLinked = TRUE
    /\ zygEnabled = FALSE /\ ran = {} /\ installing = NoModule
    /\ boots = 1 /\ streak = 0
    /\ off = disabled /\ gone = {}
    /\ before = Wishes

-----------------------------------------------------------------------------
(* init. *)

Ask(s) == pc' = [pc EXCEPT ![s] = "queued"]

\* "on post-fs-data": exec magisk --post-fs-data, and wait for it.
InitPostFsData ==
    /\ initpc = "early" /\ pc["POST_FS_DATA"] = "none"
    /\ Ask("POST_FS_DATA")
    /\ initpc' = "wait"
    /\ UNCHANGED <<disk, config, dataReady, lock, flags, todo, cur, rootLinked,
                   zygEnabled, ran, installing, history>>

\* The daemon closed the connection.  init comes back to post-fs-data if /data
\* was not there yet, after vold has decrypted it.
InitProceeds ==
    /\ initpc = "wait" /\ pc["POST_FS_DATA"] = "none"
    /\ initpc' = IF "PostFsDataDone" \in flags THEN "late" ELSE "early"
    /\ dataReady' = TRUE
    /\ UNCHANGED <<disk, config, pc, lock, flags, todo, cur, rootLinked, zygEnabled,
                   ran, installing, history>>

\* poll(fd) with POST_FS_DATA_WAIT_TIME has timed out: post_fs_data is running
\* (nobody else wants the lock yet, so the thread does not wait for that).
InitTimesOut ==
    /\ initpc = "wait" /\ pc["POST_FS_DATA"] \notin {"none", "queued"}
    /\ initpc' = "late"
    /\ UNCHANGED <<disk, config, dataReady, pc, lock, flags, todo, cur, rootLinked,
                   zygEnabled, ran, installing, history>>

InitLateStart ==
    /\ initpc = "late"
    /\ Ask("LATE_START")
    /\ initpc' = "boot"
    /\ UNCHANGED <<disk, config, dataReady, lock, flags, todo, cur, rootLinked,
                   zygEnabled, ran, installing, history>>

InitBootComplete ==
    /\ initpc = "boot"
    /\ Ask("BOOT_COMPLETE")
    /\ initpc' = "up"
    /\ UNCHANGED <<disk, config, dataReady, lock, flags, todo, cur, rootLinked,
                   zygEnabled, ran, installing, history>>

-----------------------------------------------------------------------------
(* boot_stage_handler and post_fs_data. *)

\* What every step of the POST_FS_DATA thread but the last leaves alone.
Goto(step) ==
    /\ pc' = [pc EXCEPT !["POST_FS_DATA"] = step]
    /\ UNCHANGED <<initpc, dataReady, lock, flags, installing>>

\* post_fs_data returns abort: the flags are set, the connection closed and the
\* lock released.
Finish(abort) ==
    /\ flags' = flags \cup {"PostFsDataDone"} \cup (IF abort THEN {"SafeMode"} ELSE {})
    /\ pc' = [pc EXCEPT !["POST_FS_DATA"] = "none"]
    /\ lock' = "free"
    /\ UNCHANGED <<initpc, dataReady, installing>>

At(step) == pc["POST_FS_DATA"] = step

\* check_data() && !state.contains(PostFsDataDone)
StartPostFsData ==
    /\ At("queued") /\ lock = "free"
    /\ IF dataReady /\ "PostFsDataDone" \notin flags
         THEN /\ lock' = "POST_FS_DATA"
              /\ pc' = [pc EXCEPT !["POST_FS_DATA"] = "env"]
         ELSE /\ pc' = [pc EXCEPT !["POST_FS_DATA"] = "none"]
              /\ UNCHANGED lock
    /\ UNCHANGED <<disk, config, initpc, dataReady, flags, todo, cur, rootLinked,
                   zygEnabled, ran, installing, history>>

\* No SECURE_DIR, or setup_magisk_env finds no busybox: abort.  Otherwise it has
\* made MODULEROOT.
SetupEnv ==
    /\ At("env")
    /\ IF env = "ok" THEN Goto("count") /\ rootLinked' = TRUE
                     ELSE Finish(TRUE) /\ UNCHANGED rootLinked
    /\ UNCHANGED <<disk, config, todo, cur, zygEnabled, ran, history>>

\* A database write whose failure is only logged.
DbWrite(var, val) == var' = val \/ (scene.dbMayFail /\ var' = var)

\* Variant: the threshold is off by one.
LoopingLate(cnt) == cnt >= 3

Looping(cnt) == cnt >= 2

\* The counter is read, then stored; the other triggers of safe mode are two
\* properties and a key combination.
CountBoot ==
    /\ At("count")
    /\ DbWrite(bootloop, bootloop + 1)
    /\ \E triggered \in BOOLEAN :
           IF Looping(bootloop) \/ triggered
             THEN Goto("disable") /\ todo' = inst
             ELSE Goto("scripts") /\ UNCHANGED todo
    /\ UNCHANGED <<disk, env, zygiskDb, cur, rootLinked, zygEnabled, ran, history>>

\* disable_modules, one module.
DisableModule ==
    /\ At("disable")
    /\ \E m \in todo :
           /\ todo' = todo \ {m}
           /\ disabled' = IF m \in inst THEN disabled \cup {m} ELSE disabled
           /\ off' = IF m \in inst THEN off \cup {m} ELSE off
    /\ UNCHANGED <<inst, removing, updMark, upd, updDisabled, config, initpc, dataReady,
                   pc, lock, flags, cur, rootLinked, zygEnabled, ran, installing,
                   boots, streak, gone, before>>

SafeMode ==
    /\ At("disable") /\ todo = {}
    /\ DbWrite(zygiskDb, FALSE)
    /\ Finish(TRUE)
    /\ UNCHANGED <<disk, env, bootloop, todo, cur, rootLinked, zygEnabled, ran,
                   boots, streak, off, gone, before>>

\* exec_common_scripts, the zygisk setting, and prepare_modules up to its loop.
CommonScripts ==
    /\ At("scripts")
    /\ zygEnabled' = zygiskDb
    /\ todo' = upd
    /\ Goto("upgrade")
    /\ UNCHANGED <<disk, config, cur, rootLinked, ran, history>>

\* Variant: an upgrade does not keep the old module's "disable".
UpgradeForgets ==
    /\ At("upgrade")
    /\ \E m \in todo :
           /\ cur' = m
           /\ todo' = todo \ {m}
           /\ Goto(IF m \in inst THEN "rmold" ELSE "move")
    /\ UNCHANGED <<disk, config, rootLinked, zygEnabled, ran, history>>

\* prepare_modules, next entry: "disable" is carried over to the new module.
Upgrade ==
    /\ At("upgrade")
    /\ \E m \in todo :
           /\ cur' = m
           /\ todo' = todo \ {m}
           /\ updDisabled' = IF m \in inst \cap disabled THEN updDisabled \cup {m}
                                                        ELSE updDisabled
           /\ Goto(IF m \in inst THEN "rmold" ELSE "move")
    /\ UNCHANGED <<inst, disabled, removing, updMark, upd, config, rootLinked,
                   zygEnabled, ran, history>>

\* frm_rf(modfd); unlinkat(mfd, ...)
RemoveOld ==
    /\ At("rmold")
    /\ inst' = inst \ {cur}
    /\ disabled' = disabled \ {cur}
    /\ removing' = removing \ {cur}
    /\ updMark' = updMark \ {cur}
    /\ Goto("move")
    /\ UNCHANGED <<upd, updDisabled, config, todo, cur, rootLinked, zygEnabled, ran, history>>

\* renameat: fails if MODULEROOT is gone.
Move ==
    /\ At("move")
    /\ IF rootLinked /\ cur \in upd 
         THEN /\ inst' = inst \cup {cur}
              /\ disabled' = IF cur \in updDisabled THEN disabled \cup {cur}
                                                    ELSE disabled \ {cur}
              /\ upd' = upd \ {cur}
              /\ updDisabled' = updDisabled \ {cur}
         ELSE UNCHANGED <<inst, disabled, upd, updDisabled>>
    /\ cur' = NoModule
    /\ Goto("upgrade")
    /\ UNCHANGED <<removing, updMark, config, todo, rootLinked, zygEnabled, ran, history>>

\* rm_rf(MODULEUPGRADE)
UpgradeDone ==
    /\ At("upgrade") /\ todo = {}
    /\ upd' = {} /\ updDisabled' = {}
    /\ Goto("collect")
    /\ UNCHANGED <<inst, disabled, removing, updMark, config, todo, cur, rootLinked,
                   zygEnabled, ran, history>>

\* The modules collect_modules returns, of those not marked for removal.
Collected ==
    {m \in inst \ removing :
        /\ m \notin disabled
        /\ zygEnabled => m \notin RiruModules
        /\ ~zygEnabled => m \notin ZygiskModules}

\* What collect_modules does to the directory.
CollectRemoves ==
    /\ inst' = inst \ removing
    /\ disabled' = disabled \ removing
    /\ removing' = {}
    /\ updMark' = {}
    /\ off' = off \ removing

Collect ==
    /\ At("collect")
    /\ CollectRemoves
    /\ todo' = Collected
    /\ Goto("modscripts")
    /\ UNCHANGED <<upd, updDisabled, config, cur, rootLinked, zygEnabled, ran,
                   boots, streak, gone, before>>

\* A module's post-fs-data.sh, which may disable or remove its own module.
ModuleScript ==
    /\ At("modscripts")
    /\ \E m \in todo :
           /\ todo' = todo \ {m}
           /\ ran' = ran \cup {m}
           /\ \/ UNCHANGED <<disabled, removing, off, gone>>
              \/ /\ m \in inst
                 /\ disabled' = disabled \cup {m} /\ off' = off \cup {m}
                 /\ UNCHANGED <<removing, gone>>
              \/ /\ m \in inst
                 /\ removing' = removing \cup {m} /\ gone' = gone \cup {m}
                 /\ UNCHANGED <<disabled, off>>
    /\ UNCHANGED <<inst, updMark, upd, updDisabled, config, initpc, dataReady, pc, lock,
                   flags, cur, rootLinked, zygEnabled, installing, boots, streak,
                   before>>

ModuleScriptsDone ==
    /\ At("modscripts") /\ todo = {}
    /\ Goto("recollect")
    /\ UNCHANGED <<disk, config, todo, cur, rootLinked, zygEnabled, ran, history>>

\* The second collect_modules, load_modules and module_list.set.
Recollect ==
    /\ At("recollect")
    /\ CollectRemoves
    /\ ran' = ran \cup Collected
    /\ Finish(FALSE)
    /\ UNCHANGED <<upd, updDisabled, config, todo, cur, rootLinked, zygEnabled,
                   boots, streak, gone, before>>

-----------------------------------------------------------------------------
(* The other stages. *)

StartLateStart ==
    /\ pc["LATE_START"] = "queued" /\ lock = "free"
    /\ IF "PostFsDataDone" \in flags /\ "SafeMode" \notin flags
         THEN lock' = "LATE_START" /\ pc' = [pc EXCEPT !["LATE_START"] = "late"]
         ELSE pc' = [pc EXCEPT !["LATE_START"] = "none"] /\ UNCHANGED lock
    /\ UNCHANGED <<disk, config, initpc, dataReady, flags, todo, cur, rootLinked,
                   zygEnabled, ran, installing, history>>

LateStart ==
    /\ pc["LATE_START"] = "late"
    /\ flags' = flags \cup {"LateStartDone"}
    /\ pc' = [pc EXCEPT !["LATE_START"] = "none"]
    /\ lock' = "free"
    /\ UNCHANGED <<disk, config, initpc, dataReady, todo, cur, rootLinked, zygEnabled,
                   ran, installing, history>>

StartBootComplete ==
    /\ pc["BOOT_COMPLETE"] = "queued" /\ lock = "free"
    /\ IF "PostFsDataDone" \in flags
         THEN /\ lock' = "BOOT_COMPLETE"
              /\ flags' = flags \cup {"BootComplete"}
              /\ pc' = [pc EXCEPT !["BOOT_COMPLETE"] = "bootc"]
         ELSE /\ pc' = [pc EXCEPT !["BOOT_COMPLETE"] = "none"]
              /\ UNCHANGED <<lock, flags>>
    /\ UNCHANGED <<disk, config, initpc, dataReady, todo, cur, rootLinked, zygEnabled,
                   ran, installing, history>>

\* Variant: the handler returns without releasing the lock.
BootCompleteKeepsLock ==
    /\ pc["BOOT_COMPLETE"] = "bootc"
    /\ DbWrite(bootloop, 0)
    /\ env' = IF env = "none" THEN "incomplete" ELSE env
    /\ streak' = 0
    /\ UNCHANGED <<disk, zygiskDb, volatile, boots, off, gone, before>>

\* The counter is reset and SECURE_DIR created.
BootComplete ==
    /\ pc["BOOT_COMPLETE"] = "bootc"
    /\ DbWrite(bootloop, 0)
    /\ env' = IF env = "none" THEN "incomplete" ELSE env
    /\ pc' = [pc EXCEPT !["BOOT_COMPLETE"] = "none"]
    /\ lock' = "free"
    /\ streak' = 0
    /\ UNCHANGED <<disk, zygiskDb, initpc, dataReady, flags, todo, cur, rootLinked,
                   zygEnabled, ran, installing, boots, off, gone, before>>

\* remove_modules, on a pool thread that does not take boot_stage_lock.
RemoveModules ==
    /\ initpc \in {"boot", "up"}
    /\ inst' = {} /\ disabled' = {} /\ removing' = {} /\ updMark' = {}
    /\ rootLinked' = FALSE
    /\ off' = {} /\ gone' = {}
    /\ before' = [off |-> {}, gone |-> {}]
    /\ UNCHANGED <<upd, updDisabled, config, initpc, dataReady, pc, lock, flags, todo,
                   cur, zygEnabled, ran, installing, boots, streak>>

-----------------------------------------------------------------------------
(* The user, through the app, once the device is up. *)

\* The app is used when post-fs-data is over, and does nothing else while it
\* installs a module.
AppReady == initpc = "up" /\ pc["POST_FS_DATA"] = "none" /\ installing = NoModule

\* LocalModule.enable and LocalModule.remove; the app shows what is in MODULEROOT.
AppDisables ==
    /\ AppReady
    /\ \E m \in inst : disabled' = disabled \cup {m} /\ off' = off \cup {m}
    /\ UNCHANGED <<inst, removing, updMark, upd, updDisabled, config, volatile,
                   boots, streak, gone, before>>

AppEnables ==
    /\ AppReady
    /\ \E m \in inst \cap disabled : disabled' = disabled \ {m} /\ off' = off \ {m}
    /\ UNCHANGED <<inst, removing, updMark, upd, updDisabled, config, volatile,
                   boots, streak, gone, before>>

\* Variant: removing does not look for a pending update.
AppRemovesAny ==
    /\ AppReady
    /\ \E m \in inst : removing' = removing \cup {m} /\ gone' = gone \cup {m}
    /\ UNCHANGED <<inst, disabled, updMark, upd, updDisabled, config, volatile,
                   boots, streak, off, before>>

AppRemoves ==
    /\ AppReady
    /\ \E m \in inst \ updMark : removing' = removing \cup {m} /\ gone' = gone \cup {m}
    /\ UNCHANGED <<inst, disabled, updMark, upd, updDisabled, config, volatile,
                   boots, streak, off, before>>

\* install_module in boot mode: the files go to MODULEUPGRADE ...
InstallUnpacks ==
    /\ AppReady
    /\ \E m \in scene.modules :
           /\ installing' = m
           /\ upd' = upd \cup {m}
           /\ updDisabled' = updDisabled \ {m}
           /\ off' = off \ {m}
           /\ gone' = gone \ {m}
    /\ UNCHANGED <<inst, disabled, removing, updMark, config, initpc, dataReady, pc, lock,
                   flags, todo, cur, rootLinked, zygEnabled, ran, boots, streak,
                   before>>

\* ... and the module's directory in MODULEROOT, made if need be, is marked.
InstallMarks ==
    /\ installing # NoModule
    /\ inst' = inst \cup {installing}
    /\ updMark' = updMark \cup {installing}
    /\ removing' = removing \ {installing}
    /\ disabled' = disabled \ {installing}
    /\ installing' = NoModule
    /\ rootLinked' = TRUE
    /\ off' = off \ {installing}
    /\ gone' = gone \ {installing}
    /\ UNCHANGED <<upd, updDisabled, config, initpc, dataReady, pc, lock, flags, todo,
                   cur, zygEnabled, ran, boots, streak, before>>

UserSetsZygisk ==
    /\ initpc = "up"
    /\ zygiskDb' = TRUE
    /\ UNCHANGED <<disk, env, bootloop, volatile, boots, streak, off, gone, before>>

UserCompletesEnv ==
    /\ initpc = "up" /\ env = "incomplete"
    /\ env' = "ok"
    /\ UNCHANGED <<disk, bootloop, zygiskDb, volatile, history>>

-----------------------------------------------------------------------------
(* The end of a boot: a crash, a power loss or a reboot. *)

Reboot ==
    /\ boots < scene.boots
    /\ boots' = boots + 1
    /\ streak' = IF ran # {} /\ ~("BootComplete" \in flags /\ pc["BOOT_COMPLETE"] = "none")
                   THEN streak + 1 ELSE streak
    /\ initpc' = "early"
    /\ dataReady' \in BOOLEAN
    /\ pc' = [s \in Stages |-> "none"]
    /\ lock' = "free"
    /\ flags' = {} /\ todo' = {} /\ cur' = NoModule /\ rootLinked' = TRUE
    /\ zygEnabled' = FALSE /\ ran' = {} /\ installing' = NoModule
    /\ before' = Wishes
    /\ UNCHANGED <<config, off, gone>>

Crash == (scene.torn \/ installing = NoModule) /\ Reboot /\ UNCHANGED disk

\* In the middle of frm_rf in prepare_modules: the flags are gone, the directory
\* is not.
CrashInUpgrade ==
    /\ At("rmold")
    /\ Reboot
    /\ disabled' = disabled \ {cur}
    /\ removing' = removing \ {cur}
    /\ UNCHANGED <<inst, updMark, upd, updDisabled>>

\* The same in collect_modules.
CrashInRemoval ==
    /\ scene.torn
    /\ At("collect") \/ At("recollect")
    /\ Reboot
    /\ \E m \in removing : removing' = removing \ {m} /\ disabled' = disabled \ {m}
    /\ UNCHANGED <<inst, updMark, upd, updDisabled>>

-----------------------------------------------------------------------------
PostFsDataStep ==
    \/ SetupEnv \/ CountBoot \/ DisableModule \/ SafeMode \/ CommonScripts \/ Upgrade
    \/ RemoveOld \/ Move \/ UpgradeDone \/ Collect \/ ModuleScript \/ ModuleScriptsDone
    \/ Recollect

StageStep ==
    /\ UNCHANGED scene
    /\ \/ StartPostFsData \/ PostFsDataStep
       \/ StartLateStart \/ LateStart
       \/ StartBootComplete \/ BootComplete

InitStep ==
    \/ InitPostFsData \/ InitProceeds \/ InitTimesOut \/ InitLateStart \/ InitBootComplete

UserStep ==
    \/ AppDisables \/ AppEnables \/ AppRemoves \/ InstallUnpacks \/ InstallMarks
    \/ UserSetsZygisk \/ UserCompletesEnv \/ RemoveModules

CrashStep == Crash \/ CrashInUpgrade \/ CrashInRemoval

Next == StageStep \/ (UNCHANGED scene /\ (InitStep \/ UserStep \/ CrashStep))

Spec == Init /\ [][Next]_vars

\* The threads of the daemon are scheduled, and the scripts they wait for end.
FairSpec == Spec /\ WF_vars(StageStep)

-----------------------------------------------------------------------------
(* Properties. *)

\* "Make sure boot stage execution is always serialized": at most one of the
\* three stage handlers is past its queue, and it is the one that holds the lock.
StagesSerialized ==
    \A s \in Stages : pc[s] \notin {"none", "queued"} <=> lock = s

\* Modules that keep the device from booting are given two tries: a third boot
\* in a row that did not complete never ran any module (boot_cnt >= 2), provided
\* the counter can be stored.
BootloopBounded == ~scene.dbMayFail => streak <= 2 /\ (ran # {} => streak <= 1)

\* A module that was disabled when the device went down (by the user, by a script
\* or by safe mode) does not run in the next boot, whatever upgrade was pending
\* for it and wherever a crash hit the upgrade (but not an installer half way).
OffStaysOff == ~scene.torn => ran \cap before.off = {}

\* A module marked for removal does not run in the next boot, unless a crash hit
\* its deletion half way.
RemovedGone == ~scene.torn => ran \cap before.gone = {}

\* Every request init makes is answered: its thread gets the lock and is done.
StagesEnd == \A s \in Stages : pc[s] # "none" ~> pc[s] = "none"
=============================================================================
