-------------------------- MODULE BootStagesProofs --------------------------
(***************************************************************************)
(* For any modules and any number of boots: the stages are serialized,     *)
(* modules that keep the device from booting are given two tries, and what *)
(* was disabled or marked for removal when the device went down does not   *)
(* run in the next boot.  And two parts that stand for themselves:         *)
(* resetprop keeps its storage current, and boot scripts their limit.      *)
(***************************************************************************)
EXTENDS BootStages, Resetprop, Scripts, TLAPS

PFD == "POST_FS_DATA"
BC == "BOOT_COMPLETE"

\* The steps of post_fs_data after the counter was stored and found low enough.
Trying == {"scripts", "upgrade", "rmold", "move", "collect", "modscripts", "recollect"}

Types ==
    /\ scene \in Scenes
    /\ pc \in [Stages -> Steps]
    /\ lock \in Stages \cup {"free"}
    /\ flags \subseteq BootState
    /\ bootloop \in Nat /\ streak \in Nat

\* Each stage has steps of its own; post_fs_data runs before it is done, and
\* boot_complete once and only after that.
Order ==
    /\ pc[PFD] \in {"none", "queued", "env", "count", "disable"} \cup Trying
    /\ pc[PFD] \notin {"none", "queued"} => "PostFsDataDone" \notin flags
    /\ pc["LATE_START"] \in {"none", "queued", "late"}
    /\ initpc \notin {"boot", "up"} => pc["LATE_START"] = "none"
    /\ pc[BC] \in {"none", "queued", "bootc"}
    /\ "BootComplete" \in flags => "PostFsDataDone" \in flags
    /\ pc[BC] = "bootc" => "BootComplete" \in flags
    /\ pc[BC] = "queued" => "BootComplete" \notin flags
    /\ initpc # "up" => pc[BC] = "none" /\ "BootComplete" \notin flags

\* Modules run in no boot before the counter was stored.
RanLate == "PostFsDataDone" \notin flags /\ pc[PFD] \notin Trying => ran = {}

Completed == "BootComplete" \in flags /\ pc[BC] = "none"

\* The counter is ahead of the boots that ran modules and did not complete.
Counted ==
    /\ streak <= bootloop /\ streak <= 2
    /\ Completed => streak = 0
    /\ pc[PFD] \in Trying \/ (ran # {} /\ ~Completed) => streak + 1 <= bootloop /\ bootloop <= 2

IInv == Types /\ Order /\ StagesSerialized /\ RanLate /\ (~scene.dbMayFail => Counted)
-----------------------------------------------------------------------------
LEMMA InitHolds == Init => IInv
  BY DEF Init, IInv, Types, Order, StagesSerialized, RanLate, Counted, Completed, Stages,
     Steps, BootState, Trying, PFD, BC

\* init and the user leave the counters alone.
LEMMA OutsidePreserves == IInv /\ UNCHANGED scene /\ (InitStep \/ UserStep) => IInv'
<1> SUFFICES ASSUME IInv, UNCHANGED scene, InitStep \/ UserStep PROVE IInv'
    OBVIOUS
<1> USE DEF IInv, Types, Order, StagesSerialized, RanLate, Counted, Completed, Stages,
            Steps, BootState, Trying, PFD, BC, disk, config, volatile, history
<1>1. CASE InitPostFsData  BY <1>1 DEF InitPostFsData, Ask
<1>2. CASE InitProceeds  BY <1>2 DEF InitProceeds
<1>3. CASE InitTimesOut  BY <1>3 DEF InitTimesOut
<1>4. CASE InitLateStart  BY <1>4 DEF InitLateStart, Ask
<1>5. CASE InitBootComplete  BY <1>5 DEF InitBootComplete, Ask
<1>6. CASE UserStep
  <2>1. UNCHANGED <<pc, lock, flags, initpc, ran, bootloop, streak>>
    BY <1>6 DEF UserStep, AppDisables, AppEnables, AppRemoves, InstallUnpacks, InstallMarks,
       UserSetsZygisk, UserCompletesEnv, RemoveModules
  <2> QED  BY <2>1
<1> QED  BY <1>1, <1>2, <1>3, <1>4, <1>5, <1>6 DEF InitStep

LEMMA PostFsDataPreserves ==
    IInv /\ UNCHANGED scene /\ (StartPostFsData \/ PostFsDataStep) => IInv'
<1> SUFFICES ASSUME IInv, UNCHANGED scene, StartPostFsData \/ PostFsDataStep PROVE IInv'
    OBVIOUS
<1> USE DEF IInv, Types, Order, StagesSerialized, RanLate, Counted, Completed, Stages,
            Steps, BootState, Trying, PFD, BC, disk, config, history, At, Goto
<1>1. CASE StartPostFsData  BY <1>1 DEF StartPostFsData
<1>2. CASE SetupEnv
  <2>1. CASE env = "ok"  BY <1>2, <2>1 DEF SetupEnv
  <2>2. CASE env # "ok"
    <3>1. /\ flags' = flags \cup {"PostFsDataDone", "SafeMode"}
          /\ pc' = [pc EXCEPT ![PFD] = "none"] /\ lock' = "free"
          /\ UNCHANGED <<initpc, ran, bootloop, streak>>
      BY <1>2, <2>2 DEF SetupEnv, Finish
    <3>2. lock = PFD /\ ran = {} /\ "BootComplete" \notin flags
      BY <1>2 DEF SetupEnv
    <3> QED  BY <3>1, <3>2
  <2> QED  BY <2>1, <2>2
<1>3. CASE CountBoot
  <2>1. bootloop' = bootloop + 1 \/ (scene.dbMayFail /\ bootloop' = bootloop)
    BY <1>3 DEF CountBoot, DbWrite
  <2>2. ran = {} /\ ~Completed /\ UNCHANGED <<initpc, lock, flags, ran, streak>>
    BY <1>3 DEF CountBoot
  <2>3. CASE pc' = [pc EXCEPT ![PFD] = "disable"]
    BY <1>3, <2>1, <2>2, <2>3 DEF CountBoot
  <2>4. CASE pc' = [pc EXCEPT ![PFD] = "scripts"] /\ ~Looping(bootloop)
    BY <1>3, <2>1, <2>2, <2>4 DEF CountBoot, Looping
  <2> QED  BY <1>3, <2>3, <2>4 DEF CountBoot
<1>4. CASE DisableModule  BY <1>4 DEF DisableModule
<1>5. CASE SafeMode  BY <1>5 DEF SafeMode, Finish
<1>6. CASE CommonScripts  BY <1>6 DEF CommonScripts
<1>7. CASE Upgrade  BY <1>7 DEF Upgrade
<1>8. CASE RemoveOld \/ Move \/ UpgradeDone
  <2>1. /\ pc[PFD] \in Trying /\ \E step \in Trying : pc' = [pc EXCEPT ![PFD] = step]
        /\ UNCHANGED <<lock, flags, initpc, ran, bootloop, streak>>
    BY <1>8 DEF RemoveOld, Move, UpgradeDone
  <2> QED  BY <2>1
<1>9. CASE Collect  BY <1>9 DEF Collect
<1>10. CASE ModuleScript \/ ModuleScriptsDone  BY <1>10 DEF ModuleScript, ModuleScriptsDone
<1>11. CASE Recollect  BY <1>11 DEF Recollect, Finish
<1> QED
  BY <1>1, <1>2, <1>3, <1>4, <1>5, <1>6, <1>7, <1>8, <1>9, <1>10, <1>11 DEF PostFsDataStep

LEMMA LaterStagesPreserve ==
    ASSUME IInv, UNCHANGED scene,
           StartLateStart \/ LateStart \/ StartBootComplete \/ BootComplete
    PROVE  IInv'
<1> USE DEF IInv, Types, Order, StagesSerialized, RanLate, Counted, Completed, Stages,
            Steps, BootState, Trying, PFD, BC, disk, config, history
<1>1. CASE StartLateStart  BY <1>1 DEF StartLateStart
<1>2. CASE LateStart  BY <1>2 DEF LateStart
<1>3. CASE StartBootComplete  BY ZenonT(30), <1>3 DEF StartBootComplete
<1>4. CASE BootComplete  BY <1>4 DEF BootComplete, DbWrite
<1> QED  BY <1>1, <1>2, <1>3, <1>4

\* A boot that ran modules and did not complete is one for which the counter had
\* been raised.
LEMMA CrashPreserves == IInv /\ UNCHANGED scene /\ CrashStep => IInv'
<1> SUFFICES ASSUME IInv, UNCHANGED scene, Reboot PROVE IInv'
    BY DEF CrashStep, Crash, CrashInUpgrade, CrashInRemoval
<1> QED
  BY DEF Reboot, IInv, Types, Order, StagesSerialized, RanLate, Counted, Completed, Stages,
     Steps, BootState, Trying, PFD, BC, config

LEMMA NextPreserves == IInv /\ [Next]_vars => IInv'
<1>1. IInv /\ Next => IInv'
  BY OutsidePreserves, PostFsDataPreserves, LaterStagesPreserve, CrashPreserves
     DEF Next, StageStep
<1>2. IInv /\ UNCHANGED vars => IInv'
  BY DEF vars, disk, config, volatile, history, IInv, Types, Order, StagesSerialized,
     RanLate, Counted, Completed, Stages, Steps, BootState, Trying, PFD, BC
<1> QED  BY <1>1, <1>2

THEOREM Inductive == Spec => []IInv
  BY InitHolds, NextPreserves, PTL DEF Spec
-----------------------------------------------------------------------------
\* At most one boot stage handler is past boot_stage_lock, and holds it.
THEOREM StagesCorrect == Spec => []StagesSerialized
<1>1. IInv => StagesSerialized  BY DEF IInv
<1> QED  BY <1>1, Inductive, PTL

\* Modules that keep the device from booting run in two boots and no third, as
\* long as the counter can be stored (post_fs_data, boot_complete).
THEOREM TwoTries == Spec => []BootloopBounded
<1>1. IInv => BootloopBounded
  BY DEF IInv, Types, Counted, BootloopBounded
<1> QED  BY <1>1, Inductive, PTL
-----------------------------------------------------------------------------
(* What the user has decided about modules *)

\* Most leaves below are first-order; the others cite SMT.
USE Zenon

Done == "PostFsDataDone" \in flags

\* post_fs_data is over before the app is used; prepare_modules works through
\* MODULEUPGRADE, which is gone afterwards.
Places ==
    /\ initpc \in {"late", "boot", "up"} => Done \/ pc[PFD] \notin {"none", "queued"}
    /\ installing # NoModule => initpc = "up" /\ pc[PFD] = "none"
    /\ pc[PFD] \in {"upgrade", "rmold", "move"} => todo \subseteq upd
    /\ pc[PFD] \in {"rmold", "move"} => cur \in upd \ todo
    /\ pc[PFD] = "move" => cur \notin inst
    /\ pc[PFD] \in {"collect", "modscripts", "recollect"} => upd = {}

\* m is kept off by its "disable" file, or by that of the upgrade that will
\* replace it.
KeptOff(m) ==
    /\ m \in inst => m \in disabled \/ m \in upd \cap updDisabled
    /\ m \in upd => m \in updDisabled \/ m \in inst \cap disabled
    /\ pc[PFD] \in {"upgrade", "rmold", "move"} /\ m \in inst \ disabled =>
           m \in todo \/ (pc[PFD] # "upgrade" /\ m = cur)
    /\ pc[PFD] \in {"rmold", "move"} /\ m = cur => m \in updDisabled

\* m will be removed, and no upgrade brings it back.
KeptGone(m) == m \notin upd /\ (m \in inst => m \in removing)

\* What the user wanted is kept for the next boot, and what they had wanted
\* before this one until post_fs_data is through.
Wished ==
    /\ \A m \in off : KeptOff(m)
    /\ \A m \in gone : KeptGone(m)
    /\ ~Done => \A m \in before.off : KeptOff(m)
    /\ ~Done => \A m \in before.gone : KeptGone(m)
    /\ pc[PFD] = "modscripts" => \A m \in todo : m \notin before.off /\ m \notin before.gone
    /\ \A m \in ran : m \notin before.off /\ m \notin before.gone
    /\ \A m \in upd \cap inst : m \in updMark \/ (installing # NoModule /\ m = installing)

WishInv == Places /\ (~scene.torn => Wished)

\* The disk and what was decided stay, post_fs_data may move on.
LEMMA WishesStay ==
    ASSUME Wished, UNCHANGED <<disk, ran, installing, off, gone, before>>, Done => Done',
           \/ pc'[PFD] = pc[PFD] /\ UNCHANGED <<todo, cur>>
           \/ pc'[PFD] \notin {"upgrade", "rmold", "move", "modscripts"}
    PROVE  Wished'
<1>1. \A m : KeptOff(m) => KeptOff(m)'
  BY DEF KeptOff, disk
<1>2. \A m : KeptGone(m) => KeptGone(m)'
  BY DEF KeptGone, disk
<1> QED BY <1>1, <1>2 DEF Wished, disk

\* init, and the stages as far as they touch no module.
LEMMA WishOutside ==
    ASSUME IInv, WishInv, UNCHANGED scene,
           \/ InitStep \/ StartPostFsData \/ SetupEnv \/ CountBoot \/ SafeMode \/ ModuleScriptsDone
           \/ StartLateStart \/ LateStart \/ StartBootComplete \/ BootComplete
           \/ UserSetsZygisk \/ UserCompletesEnv
    PROVE  WishInv'
<1>0. pc \in [Stages -> Steps]
  BY DEF IInv, Types
<1>1. CASE InitStep
  <2>1. UNCHANGED <<disk, ran, installing, off, gone, before, flags, todo, cur>>
    BY <1>1 DEF InitStep, InitPostFsData, InitProceeds, InitTimesOut, InitLateStart, InitBootComplete, history
  <2>2. pc'[PFD] = pc[PFD] \/ (pc[PFD] = "none" /\ pc'[PFD] = "queued" /\ initpc = "early" /\ initpc' = "wait")
    BY <1>0, <1>1
    DEF InitStep, InitPostFsData, InitProceeds, InitTimesOut, InitLateStart, InitBootComplete, Ask, PFD, Stages
  <2>3. initpc' \in {"late", "boot", "up"} =>
            /\ initpc \in {"late", "boot", "up"} \/ Done \/ pc[PFD] \notin {"none", "queued"}
            /\ pc'[PFD] = pc[PFD]
    BY <1>1, <2>2
    DEF InitStep, InitPostFsData, InitProceeds, InitTimesOut, InitLateStart, InitBootComplete, PFD, Done
  <2>4. initpc = "up" => FALSE
    BY <1>1 DEF InitStep, InitPostFsData, InitProceeds, InitTimesOut, InitLateStart, InitBootComplete
  <2>5. Places'
    BY <2>1, <2>2, <2>3, <2>4 DEF WishInv, Places, Done, disk
  <2> QED BY <2>1, <2>2, <2>5, WishesStay DEF WishInv, Done
<1>2. CASE UserSetsZygisk \/ UserCompletesEnv
  <2>1. UNCHANGED <<disk, volatile, off, gone, before>>
    BY <1>2 DEF UserSetsZygisk, UserCompletesEnv, history
  <2> QED BY <2>1, WishesStay DEF WishInv, Places, Done, disk, volatile
<1>3. CASE StartLateStart \/ LateStart \/ StartBootComplete \/ BootComplete
  <2>1. UNCHANGED <<disk, ran, installing, off, gone, before, initpc, todo, cur>>
    BY <1>3 DEF StartLateStart, LateStart, StartBootComplete, BootComplete, history
  <2>2. pc'[PFD] = pc[PFD] /\ (Done' <=> Done)
    BY <1>0, <1>3 DEF StartLateStart, LateStart, StartBootComplete, BootComplete, PFD, Stages, Done
  <2> QED BY <2>1, <2>2, WishesStay DEF WishInv, Places, disk
<1>4. CASE StartPostFsData \/ SetupEnv \/ CountBoot \/ SafeMode
  <2>1. UNCHANGED <<disk, ran, installing, off, gone, before, initpc>>
    BY <1>4 DEF StartPostFsData, SetupEnv, CountBoot, SafeMode, Finish, Goto, history
  <2>2. /\ pc'[PFD] \in {"none", "env", "count", "disable", "scripts"} /\ (Done => Done')
        /\ pc'[PFD] = "none" => Done' \/ pc[PFD] = "queued"
        /\ pc[PFD] # "none"
    BY <1>0, <1>4
    DEF StartPostFsData, SetupEnv, CountBoot, SafeMode, Finish, Goto, At, PFD, Stages, Done
  <2> QED BY <2>1, <2>2, WishesStay DEF WishInv, Places, disk
<1>5. CASE ModuleScriptsDone
  <2>1. UNCHANGED <<disk, ran, installing, off, gone, before, initpc, flags>>
    BY <1>5 DEF ModuleScriptsDone, Goto, history
  <2>2. pc[PFD] = "modscripts" /\ pc'[PFD] = "recollect"
    BY <1>0, <1>5 DEF ModuleScriptsDone, Goto, At, PFD, Stages
  <2> QED BY <2>1, <2>2, WishesStay DEF WishInv, Places, disk, Done
<1> QED BY <1>1, <1>2, <1>3, <1>4, <1>5
\* A module is switched off: by disable_modules, or by its own script.
LEMMA Disabled ==
    ASSUME Wished, NEW m \in inst, disabled' = disabled \cup {m}, off' = off \cup {m},
           UNCHANGED <<inst, removing, updMark, upd, updDisabled, installing, gone, before, flags, cur>>,
           pc'[PFD] = pc[PFD], \A n \in todo' : n \in todo,
           \A n \in ran' : n \notin before.off /\ n \notin before.gone,
           pc[PFD] \notin {"upgrade", "rmold", "move"}
    PROVE  Wished'
<1>1. \A n : KeptOff(n) \/ n = m => KeptOff(n)'
  BY DEF KeptOff
<1>2. \A n : KeptGone(n) => KeptGone(n)'
  BY DEF KeptGone
<1> QED BY <1>1, <1>2 DEF Wished, Done

\* disable_modules.
LEMMA WishDisable ==
    ASSUME IInv, WishInv, UNCHANGED scene, DisableModule PROVE WishInv'
<1>1. /\ pc[PFD] = "disable" /\ UNCHANGED <<pc, initpc, flags, cur, ran, installing, gone, before>>
      /\ UNCHANGED <<inst, removing, updMark, upd, updDisabled>>
  BY DEF DisableModule, At, PFD
<1>2. PICK m \in todo : /\ todo' = todo \ {m}
                        /\ disabled' = IF m \in inst THEN disabled \cup {m} ELSE disabled
                        /\ off' = IF m \in inst THEN off \cup {m} ELSE off
  BY DEF DisableModule
<1>3. Places'
  BY <1>1 DEF WishInv, Places, Done
<1>4. CASE m \in inst
  BY <1>1, <1>2, <1>3, <1>4, Disabled DEF WishInv, Wished
<1>5. CASE m \notin inst
  BY <1>1, <1>2, <1>3, <1>5, WishesStay DEF WishInv, disk, Done
<1> QED BY <1>4, <1>5

\* prepare_modules, up to its loop.
LEMMA WishCommon ==
    ASSUME IInv, WishInv, UNCHANGED scene, CommonScripts PROVE WishInv'
<1>1. /\ pc[PFD] = "scripts" /\ todo' = upd
      /\ UNCHANGED <<disk, cur, ran, off, gone, before, initpc, flags, installing>>
  BY DEF CommonScripts, At, Goto, PFD, history
<1>2. pc'[PFD] = "upgrade"
  BY DEF CommonScripts, Goto, PFD, Stages, IInv, Types
<1>3. Places'
  BY <1>1, <1>2 DEF WishInv, Places, Done, disk
<1>4. \A m : KeptOff(m) => KeptOff(m)'
  BY <1>1, <1>2 DEF KeptOff, disk
<1>5. \A m : KeptGone(m) => KeptGone(m)'
  BY <1>1 DEF KeptGone, disk
<1>6. ~scene.torn => Wished'
  BY <1>1, <1>2, <1>4, <1>5 DEF WishInv, Wished, Done, disk
<1> QED BY <1>3, <1>6 DEF WishInv

\* The "disable" file is carried over before the old module is deleted.
LEMMA WishUpgrade ==
    ASSUME IInv, WishInv, UNCHANGED scene, Upgrade PROVE WishInv'
<1>1. /\ pc[PFD] = "upgrade"
      /\ UNCHANGED <<inst, disabled, removing, updMark, upd, ran, off, gone, before, initpc, flags, installing>>
  BY DEF Upgrade, At, Goto, PFD, history
<1>2. PICK m \in todo :
        /\ cur' = m /\ todo' = todo \ {m}
        /\ updDisabled' = IF m \in inst \cap disabled THEN updDisabled \cup {m} ELSE updDisabled
        /\ Goto(IF m \in inst THEN "rmold" ELSE "move")
  BY DEF Upgrade
<1>3. pc'[PFD] = IF m \in inst THEN "rmold" ELSE "move"
  BY <1>2 DEF Goto, PFD, Stages, IInv, Types
<1>4. Places'
  BY <1>1, <1>2, <1>3 DEF WishInv, Places, Done
<1>5. m \in upd
  BY <1>1, <1>2 DEF WishInv, Places
<1>6. ASSUME NEW n, KeptOff(n) PROVE KeptOff(n)'
  <2>1. \A k : k \in updDisabled' <=> k \in updDisabled \/ (k = m /\ m \in inst /\ m \in disabled)
    BY <1>2
  <2>2. n = m => m \in updDisabled'
    BY <1>5, <1>6, <2>1 DEF KeptOff
  <2>3. /\ n \in inst => n \in disabled \/ n \in upd \cap updDisabled'
        /\ n \in upd => n \in updDisabled' \/ n \in inst \cap disabled
    BY <1>6, <2>1 DEF KeptOff
  <2>4. n \in inst \ disabled => n \in todo' \/ n = m
    BY <1>1, <1>2, <1>6 DEF KeptOff
  <2>5. pc'[PFD] # "upgrade"
    BY <1>3
  <2> QED BY <1>1, <1>2, <2>2, <2>3, <2>4, <2>5 DEF KeptOff
<1>7. \A n : KeptGone(n) => KeptGone(n)'
  BY <1>1 DEF KeptGone
<1>8. ~scene.torn => Wished'
  BY <1>1, <1>3, <1>6, <1>7 DEF WishInv, Wished, Done
<1> QED BY <1>4, <1>8 DEF WishInv

\* The old module is deleted.
LEMMA WishRemoveOld ==
    ASSUME IInv, WishInv, UNCHANGED scene, RemoveOld PROVE WishInv'
<1>1. /\ pc[PFD] = "rmold" /\ inst' = inst \ {cur} /\ disabled' = disabled \ {cur}
      /\ removing' = removing \ {cur} /\ updMark' = updMark \ {cur}
      /\ UNCHANGED <<upd, updDisabled, todo, cur, ran, off, gone, before, initpc, flags, installing>>
  BY DEF RemoveOld, At, Goto, PFD, history
<1>2. pc'[PFD] = "move"
  BY DEF RemoveOld, Goto, PFD, Stages, IInv, Types
<1>3. Places'
  BY <1>1, <1>2 DEF WishInv, Places, Done
<1>4. \A n : KeptOff(n) => KeptOff(n)'
  BY <1>1, <1>2 DEF KeptOff
<1>5. \A n : KeptGone(n) => KeptGone(n)'
  BY <1>1 DEF KeptGone
<1>6. ~scene.torn => Wished'
  BY <1>1, <1>2, <1>4, <1>5 DEF WishInv, Wished, Done
<1> QED BY <1>3, <1>6 DEF WishInv

\* The upgrade takes its place, if MODULEROOT is still there.
LEMMA WishMove ==
    ASSUME IInv, WishInv, UNCHANGED scene, Move PROVE WishInv'
<1>1. /\ pc[PFD] = "move" /\ cur \in upd /\ cur \notin inst /\ cur \notin todo
      /\ UNCHANGED <<removing, updMark, todo, ran, off, gone, before, initpc, flags, installing>>
  BY DEF Move, At, Goto, PFD, history, WishInv, Places
<1>2. pc'[PFD] = "upgrade"
  BY DEF Move, Goto, PFD, Stages, IInv, Types
<1>3. CASE UNCHANGED <<inst, disabled, upd, updDisabled>>
  <2>1. Places'
    BY <1>1, <1>2, <1>3 DEF WishInv, Places, Done
  <2>2. \A n : KeptOff(n) => KeptOff(n)'
    BY <1>1, <1>2, <1>3 DEF KeptOff
  <2>3. \A n : KeptGone(n) => KeptGone(n)'
    BY <1>1, <1>3 DEF KeptGone
  <2>4. ~scene.torn => Wished'
    BY <1>1, <1>2, <1>3, <2>2, <2>3 DEF WishInv, Wished, Done
  <2> QED BY <2>1, <2>4 DEF WishInv
<1>4. CASE /\ inst' = inst \cup {cur} /\ upd' = upd \ {cur} /\ updDisabled' = updDisabled \ {cur}
           /\ disabled' = IF cur \in updDisabled THEN disabled \cup {cur} ELSE disabled \ {cur}
  <2>1. Places'
    BY <1>1, <1>2, <1>4 DEF WishInv, Places, Done
  <2>2. \A n : n \in disabled' <=> (n # cur /\ n \in disabled) \/ (n = cur /\ cur \in updDisabled)
    BY <1>4
  <2>3. ASSUME NEW n, KeptOff(n) PROVE KeptOff(n)'
    <3>1. CASE n = cur
      BY <1>1, <1>2, <1>4, <2>2, <2>3, <3>1 DEF KeptOff
    <3>2. CASE n # cur
      BY <1>1, <1>2, <1>4, <2>2, <2>3, <3>2 DEF KeptOff
    <3> QED BY <3>1, <3>2
  <2>4. \A n : KeptGone(n) => KeptGone(n)'
    BY <1>1, <1>4 DEF KeptGone
  <2>5. ~scene.torn => Wished'
    BY <1>1, <1>2, <1>4, <2>3, <2>4 DEF WishInv, Wished, Done
  <2> QED BY <2>1, <2>5 DEF WishInv
<1> QED BY <1>3, <1>4 DEF Move

\* The loop is over: MODULEUPGRADE is deleted.
LEMMA WishUpgradeDone ==
    ASSUME IInv, WishInv, UNCHANGED scene, UpgradeDone PROVE WishInv'
<1>1. /\ pc[PFD] = "upgrade" /\ todo = {} /\ upd' = {} /\ updDisabled' = {}
      /\ UNCHANGED <<inst, disabled, removing, updMark, ran, off, gone, before, initpc, flags, installing>>
  BY DEF UpgradeDone, At, Goto, PFD, history
<1>2. pc'[PFD] = "collect"
  BY DEF UpgradeDone, Goto, PFD, Stages, IInv, Types
<1>3. Places'
  BY <1>1, <1>2 DEF WishInv, Places, Done
<1>4. \A n : KeptOff(n) => KeptOff(n)'
  BY <1>1, <1>2 DEF KeptOff
<1>5. \A n : KeptGone(n) => KeptGone(n)'
  BY <1>1 DEF KeptGone
<1>6. ~scene.torn => Wished'
  BY <1>1, <1>2, <1>4, <1>5 DEF WishInv, Wished, Done
<1> QED BY <1>3, <1>6 DEF WishInv

\* collect_modules, either time: what it returns was decided against by nobody.
LEMMA WishCollect ==
    ASSUME IInv, WishInv, UNCHANGED scene, Collect \/ Recollect PROVE WishInv'
<1>1. /\ pc[PFD] \in {"collect", "recollect"} /\ upd = {} /\ ~Done
      /\ inst' = inst \ removing /\ disabled' = disabled \ removing /\ off' = off \ removing
      /\ removing' = {} /\ UNCHANGED <<upd, updDisabled, cur, gone, before, initpc, installing>>
  BY DEF Collect, Recollect, CollectRemoves, Finish, At, Goto, PFD, WishInv, Places, IInv, Order, Done
<1>2. \/ pc'[PFD] = "modscripts" /\ todo' = Collected /\ ran' = ran /\ flags' = flags
      \/ pc'[PFD] = "none" /\ ran' = ran \cup Collected /\ Done'
  BY DEF Collect, Recollect, Goto, Finish, PFD, Stages, IInv, Types, Done
<1>3. Places'
  BY <1>1, <1>2 DEF WishInv, Places
<1>4. \A n : KeptOff(n) /\ n \in inst => n \in disabled
  BY <1>1 DEF KeptOff
<1>5. \A n : KeptOff(n) => KeptOff(n)'
  BY <1>1, <1>2, <1>4 DEF KeptOff
<1>6. \A n : KeptGone(n) => KeptGone(n)'
  BY <1>1 DEF KeptGone
<1>7. ASSUME Wished, NEW n \in Collected PROVE n \notin before.off /\ n \notin before.gone
  BY <1>1, <1>4, <1>7 DEF Collected, Wished, KeptGone
<1>8. ~scene.torn => Wished'
  BY <1>1, <1>2, <1>5, <1>6, <1>7 DEF WishInv, Wished
<1> QED BY <1>3, <1>8 DEF WishInv

\* A module's own script.
LEMMA WishScript ==
    ASSUME IInv, WishInv, UNCHANGED scene, ModuleScript PROVE WishInv'
<1>1. /\ pc[PFD] = "modscripts" /\ upd = {}
      /\ UNCHANGED <<inst, updMark, upd, updDisabled, pc, cur, before, initpc, flags, installing>>
  BY DEF ModuleScript, At, PFD, WishInv, Places
<1>2. PICK m \in todo :
        /\ todo' = todo \ {m} /\ ran' = ran \cup {m}
        /\ \/ UNCHANGED <<disabled, removing, off, gone>>
           \/ /\ m \in inst /\ disabled' = disabled \cup {m} /\ off' = off \cup {m}
              /\ UNCHANGED <<removing, gone>>
           \/ /\ m \in inst /\ removing' = removing \cup {m} /\ gone' = gone \cup {m}
              /\ UNCHANGED <<disabled, off>>
  BY DEF ModuleScript
<1>3. Places'
  BY <1>1, <1>2 DEF WishInv, Places, Done
<1>4. Wished => \A n \in ran' : n \notin before.off /\ n \notin before.gone
  BY <1>1, <1>2 DEF Wished
<1>5. CASE m \in inst /\ disabled' = disabled \cup {m} /\ off' = off \cup {m} /\ UNCHANGED <<removing, gone>>
  BY <1>1, <1>2, <1>3, <1>4, <1>5, Disabled DEF WishInv
<1>6. CASE UNCHANGED <<disabled, off>> /\ removing \subseteq removing' /\ gone' \subseteq gone \cup (removing' \cap {m})
  <2>1. \A n : KeptOff(n) => KeptOff(n)'
    BY <1>1, <1>2, <1>6 DEF KeptOff
  <2>2. \A n : KeptGone(n) \/ (n = m /\ m \in removing') => KeptGone(n)'
    BY <1>1, <1>6 DEF KeptGone
  <2>3. Wished => Wished'
    BY <1>1, <1>2, <1>4, <1>6, <2>1, <2>2 DEF Wished, Done
  <2> QED BY <1>3, <2>3 DEF WishInv
<1> QED BY <1>2, <1>5, <1>6
\* LocalModule.enable and LocalModule.remove.
LEMMA WishApp ==
    ASSUME IInv, WishInv, UNCHANGED scene, AppDisables \/ AppEnables \/ AppRemoves PROVE WishInv'
<1>1. /\ initpc = "up" /\ pc[PFD] = "none" /\ installing = NoModule /\ Done
      /\ UNCHANGED <<inst, updMark, upd, updDisabled, volatile, before>>
  BY DEF AppDisables, AppEnables, AppRemoves, AppReady, PFD, WishInv, Places, Done
<1>2. Places'
  BY <1>1 DEF WishInv, Places, Done, volatile
<1>3. CASE AppDisables
  <2>1. PICK m \in inst : disabled' = disabled \cup {m} /\ off' = off \cup {m}
    BY <1>3 DEF AppDisables
  <2>2. UNCHANGED <<removing, gone>>
    BY <1>3 DEF AppDisables
  <2> QED BY <1>1, <1>2, <2>1, <2>2, Disabled DEF WishInv, Wished, volatile
<1>4. CASE AppEnables
  <2>1. PICK m \in inst \cap disabled : disabled' = disabled \ {m} /\ off' = off \ {m}
    BY <1>4 DEF AppEnables
  <2>2. UNCHANGED <<removing, gone>>
    BY <1>4 DEF AppEnables
  <2>3. \A n : KeptOff(n) /\ n # m => KeptOff(n)'
    BY <1>1, <2>1 DEF KeptOff, volatile
  <2>4. \A n : KeptGone(n) => KeptGone(n)'
    BY <1>1, <2>2 DEF KeptGone
  <2>5. Wished => Wished'
    BY <1>1, <2>1, <2>2, <2>3, <2>4 DEF Wished, Done, volatile
  <2> QED BY <1>2, <2>5 DEF WishInv
<1>5. CASE AppRemoves
  <2>1. PICK m \in inst \ updMark : removing' = removing \cup {m} /\ gone' = gone \cup {m}
    BY <1>5 DEF AppRemoves
  <2>2. UNCHANGED <<disabled, off>>
    BY <1>5 DEF AppRemoves
  <2>3. Wished => m \notin upd
    BY <1>1, <2>1 DEF Wished
  <2>4. \A n : KeptOff(n) => KeptOff(n)'
    BY <1>1, <2>2 DEF KeptOff, volatile
  <2>5. \A n : KeptGone(n) \/ (n = m /\ m \notin upd) => KeptGone(n)'
    BY <1>1, <2>1 DEF KeptGone
  <2>6. Wished => Wished'
    BY <1>1, <2>1, <2>2, <2>3, <2>4, <2>5 DEF Wished, Done, volatile
  <2> QED BY <1>2, <2>6 DEF WishInv
<1> QED BY <1>3, <1>4, <1>5

\* install_module: the upgrade is unpacked, then the module is marked.
LEMMA WishInstall ==
    ASSUME IInv, WishInv, UNCHANGED scene, InstallUnpacks \/ InstallMarks PROVE WishInv'
<1>1. /\ initpc = "up" /\ pc[PFD] = "none" /\ Done
      /\ UNCHANGED <<initpc, pc, flags, todo, cur, ran, before>>
  BY DEF InstallUnpacks, InstallMarks, AppReady, PFD, WishInv, Places, Done
<1>2. Places'
  BY <1>1 DEF WishInv, Places, Done
<1>3. CASE InstallUnpacks
  <2>1. PICK m \in scene.modules :
          /\ installing' = m /\ upd' = upd \cup {m} /\ updDisabled' = updDisabled \ {m}
          /\ off' = off \ {m} /\ gone' = gone \ {m}
    BY <1>3 DEF InstallUnpacks
  <2>2. installing = NoModule /\ UNCHANGED <<inst, disabled, removing, updMark>>
    BY <1>3 DEF InstallUnpacks, AppReady
  <2>3. m # NoModule
    BY SMT, BootAssumption DEF IInv, Types
  <2>4. \A n : KeptOff(n) /\ n # m => KeptOff(n)'
    BY <1>1, <2>1, <2>2 DEF KeptOff
  <2>5. \A n : KeptGone(n) /\ n # m => KeptGone(n)'
    BY <2>1, <2>2 DEF KeptGone
  <2>6. Wished => Wished'
    BY <1>1, <2>1, <2>2, <2>3, <2>4, <2>5 DEF Wished, Done
  <2> QED BY <1>2, <2>6 DEF WishInv
<1>4. CASE InstallMarks
  <2>1. /\ inst' = inst \cup {installing} /\ updMark' = updMark \cup {installing}
        /\ removing' = removing \ {installing} /\ disabled' = disabled \ {installing}
        /\ off' = off \ {installing} /\ gone' = gone \ {installing}
        /\ UNCHANGED <<upd, updDisabled>>
    BY <1>4 DEF InstallMarks
  <2>2. \A n : KeptOff(n) /\ n # installing => KeptOff(n)'
    BY <1>1, <2>1 DEF KeptOff
  <2>3. \A n : KeptGone(n) /\ n # installing => KeptGone(n)'
    BY <2>1 DEF KeptGone
  <2>4. Wished => Wished'
    BY <1>1, <2>1, <2>2, <2>3 DEF Wished, Done
  <2> QED BY <1>2, <2>4 DEF WishInv
<1> QED BY <1>3, <1>4

\* remove_modules: nothing is wished of modules that are not there.
LEMMA WishRemoveModules ==
    ASSUME IInv, WishInv, UNCHANGED scene, RemoveModules PROVE WishInv'
<1>1. /\ inst' = {} /\ off' = {} /\ gone' = {} /\ before' = [off |-> {}, gone |-> {}]
      /\ UNCHANGED <<upd, updDisabled, initpc, pc, flags, todo, cur, ran, installing>>
  BY DEF RemoveModules
<1>2. before'.off = {} /\ before'.gone = {}
  BY SMT, <1>1
<1>3. Places'
  BY <1>1 DEF WishInv, Places, Done
<1>4. Wished'
  BY <1>1, <1>2 DEF Wished
<1> QED BY <1>3, <1>4 DEF WishInv

\* The next boot starts from what is on the disk.
LEMMA WishCrash ==
    ASSUME IInv, WishInv, UNCHANGED scene, CrashStep PROVE WishInv'
<1>1. /\ initpc' = "early" /\ pc'[PFD] = "none" /\ ran' = {} /\ installing' = NoModule
      /\ before' = [off |-> off, gone |-> gone] /\ UNCHANGED <<off, gone>>
  BY DEF CrashStep, Crash, CrashInUpgrade, CrashInRemoval, Reboot, Wishes, Stages, PFD
<1>2. before'.off = off /\ before'.gone = gone
  BY SMT, <1>1
<1>3. Places'
  BY <1>1, <1>2 DEF Places
<1>4. ASSUME ~scene.torn PROVE Wished'
  <2>1. Wished
    BY <1>4 DEF WishInv
  <2>2. CASE Crash
    <3>1. installing = NoModule /\ UNCHANGED disk
      BY <1>4, <2>2 DEF Crash
    <3>2. \A n : KeptOff(n) => KeptOff(n)'
      BY <1>1, <3>1 DEF KeptOff, disk
    <3>3. \A n : KeptGone(n) => KeptGone(n)'
      BY <3>1 DEF KeptGone, disk
    <3> QED BY <1>1, <1>2, <2>1, <3>1, <3>2, <3>3 DEF Wished, disk
  <2>3. CASE CrashInUpgrade
    <3>1. /\ pc[PFD] = "rmold" /\ disabled' = disabled \ {cur} /\ removing' = removing \ {cur}
          /\ UNCHANGED <<inst, updMark, upd, updDisabled>>
      BY <2>3 DEF CrashInUpgrade, At, PFD
    <3>2. cur \in upd /\ installing = NoModule
      BY <3>1 DEF WishInv, Places
    <3>3. ASSUME NEW n, KeptOff(n) PROVE KeptOff(n)'
      <4>1. CASE n = cur
        BY <1>1, <3>1, <3>2, <3>3, <4>1 DEF KeptOff
      <4>2. CASE n # cur
        BY <1>1, <3>1, <3>3, <4>2 DEF KeptOff
      <4> QED BY <4>1, <4>2
    <3>4. \A n : KeptGone(n) => KeptGone(n)'
      BY <3>1, <3>2 DEF KeptGone
    <3> QED BY <1>1, <1>2, <2>1, <3>1, <3>2, <3>3, <3>4 DEF Wished
  <2> QED BY <1>4, <2>2, <2>3 DEF CrashStep, CrashInRemoval
<1> QED BY <1>3, <1>4 DEF WishInv

LEMMA WishInit == Init => WishInv
<1> SUFFICES ASSUME Init PROVE WishInv
    OBVIOUS
<1>1. /\ initpc = "early" /\ pc[PFD] = "none" /\ ran = {} /\ installing = NoModule /\ upd = {}
      /\ off = disabled /\ gone = {} /\ before = [off |-> off, gone |-> gone]
  BY DEF Init, Wishes, Stages, PFD
<1>2. before.off = off /\ before.gone = gone
  BY SMT, <1>1
<1>3. Places
  BY <1>1, <1>2 DEF Places
<1>4. Wished
  BY <1>1, <1>2 DEF Wished, KeptOff
<1> QED BY <1>3, <1>4 DEF WishInv

LEMMA WishNext == IInv /\ WishInv /\ [Next]_vars => WishInv'
<1> SUFFICES ASSUME IInv, WishInv, [Next]_vars PROVE WishInv'
    OBVIOUS
<1>1. CASE StageStep
  BY <1>1, WishOutside, WishDisable, WishCommon, WishUpgrade, WishRemoveOld, WishMove,
     WishUpgradeDone, WishCollect, WishScript
  DEF StageStep, PostFsDataStep
<1>2. CASE UNCHANGED scene /\ (InitStep \/ UserStep \/ CrashStep)
  BY <1>2, WishOutside, WishApp, WishInstall, WishRemoveModules, WishCrash DEF UserStep
<1>3. CASE UNCHANGED vars
  <2>1. UNCHANGED <<scene, disk, volatile, off, gone, before>>
    BY <1>3 DEF vars, history
  <2> QED BY <2>1, WishesStay DEF WishInv, Places, Done, disk, volatile
<1> QED BY <1>1, <1>2, <1>3 DEF Next

LEMMA WishesKept == Spec => []WishInv
  BY WishInit, WishNext, Inductive, PTL DEF Spec
-----------------------------------------------------------------------------
\* A module that was disabled when the device went down runs in no step of the
\* next boot: neither an upgrade (prepare_modules carries "disable" over before
\* it deletes the old module) nor a crash anywhere in it loses the file.
THEOREM DisabledStaysOff == Spec => []OffStaysOff
<1>1. WishInv => OffStaysOff
  BY DEF WishInv, Wished, OffStaysOff
<1> QED BY <1>1, WishesKept, PTL

\* A module marked for removal when the device went down does not run again: no
\* upgrade of it is pending (LocalModule.remove, install_module), and
\* collect_modules deletes it before it returns any module.
THEOREM RemovedStaysGone == Spec => []RemovedGone
<1>1. WishInv => RemovedGone
  BY DEF WishInv, Wished, RemovedGone
<1> QED BY <1>1, WishesKept, PTL

-----------------------------------------------------------------------------
(* Resetprop: the storage of persistent properties agrees with the property  *)
(* area, for any names, values and number of resetprop processes.            *)

\* Most leaves are first-order; the others cite SMT.
USE Zenon

AllVals == Values \cup {Long, NoVal}
Files == [Persist -> AllVals]

\* u is between its change of the area and that of the storage.
Storing(u) == user[u].pc # "idle"

PropTyped ==
  /\ area \in [PropNames -> [val : AllVals, serial : Nat, id : Nat]]
  /\ areaSerial \in Nat
  /\ stored \in Files /\ sync \in [Persist -> BOOLEAN]
  /\ user \in [Users -> [pc : {"idle", "read", "write"}, name : PropNames \cup {NoVal},
                         val : AllVals, file : Files \cup {<<>>}]]
  /\ \A n \in PropNames : area[n].id = 0 => area[n].val = NoVal
  /\ \A u \in Users : Storing(u) => user[u].name \in Persist
  /\ \A u \in Users : user[u].pc = "write" => user[u].file \in Files

(* Without overlap one process at a time has a change to store.  It is the *)
(* change the area shows, and the copy of the storage it works on is the   *)
(* storage as it is; every other property that should agree does.          *)
OneAtATime ==
  /\ \A u, w \in Users : Storing(u) /\ Storing(w) => u = w
  /\ \A u \in Users : Storing(u) => user[u].val = area[user[u].name].val
  /\ \A u \in Users : user[u].pc = "write" => user[u].file = stored
  /\ \A n \in Persist :
       sync[n] /\ (\A u \in Users : Storing(u) => user[u].name # n) => stored[n] = area[n].val

PropInv == PropTyped /\ (~overlap => OneAtATime)

(* The initial states satisfy the invariant.                               *)
LEMMA PropInvInit == PropInit => PropInv
  BY SMT DEF PropInit, PropInv, PropTyped, OneAtATime, Storing, AllVals, Files, PropNames, NoVal,
         Absent, Idle, User

(* wait_prop only reads.                                                   *)
LEMMA WaitReads == PropInv /\ WaitNext => PropInv'
<1>1. WaitNext => UNCHANGED Others
  BY DEF WaitNext, WaitStart, WaitFind, WaitArea, WaitRead, WaitProp
<1>2. PropInv /\ UNCHANGED Others => PropInv'
  BY SMT DEF Others, PropInv, PropTyped, OneAtATime, Storing
<1> QED BY <1>1, <1>2

(* Reading and writing the storage keep the invariant.                     *)
LEMMA StoreSteps ==
  ASSUME PropInv, NEW u \in Users, PersistRead(u) \/ PersistWrite(u) PROVE PropInv'
<1> USE DEF PropInv
<1>1. CASE PersistRead(u)
  <2>1. PropTyped'
    BY <1>1 DEF PropTyped, Storing, PersistRead, User, Idle, AllVals
  <2>2. ASSUME ~overlap' PROVE OneAtATime'
    <3>1. OneAtATime
      BY <1>1, <2>2 DEF PersistRead
    <3>2. CASE user[u].val = NoVal /\ stored[user[u].name] = NoVal
      <4>1. user' = [user EXCEPT ![u] = Idle]
        BY <1>1, <3>2 DEF PersistRead, PropTyped
      <4>2. \A w \in Users : ~Storing(w)'
        BY SMT, <1>1, <3>1, <4>1 DEF OneAtATime, PropTyped, PersistRead, Storing, User, Idle
      <4>3. \A n \in Persist : sync[n] => stored[n] = area[n].val
        BY SMT, <1>1, <3>1, <3>2 DEF OneAtATime, PropTyped, PersistRead, Storing
      <4> QED BY <1>1, <4>2, <4>3 DEF OneAtATime, Storing, PersistRead
    <3>3. CASE ~(user[u].val = NoVal /\ stored[user[u].name] = NoVal)
      <4>1. user' = [user EXCEPT ![u] = User("write", @.name, @.val, stored)]
        BY <1>1, <3>3 DEF PersistRead, PropTyped
      <4> QED BY SMT, <1>1, <3>1, <4>1 DEF PropTyped, OneAtATime, Storing, PersistRead, User
    <3> QED BY <3>2, <3>3
  <2> QED BY <2>1, <2>2
<1>2. CASE PersistWrite(u)
  <2>0. user[u].file \in Files /\ user[u].name \in Persist /\ user[u].val \in AllVals
    BY <1>2 DEF PropTyped, PersistWrite, Storing
  <2>1. stored' \in Files
    BY <1>2, <2>0 DEF PersistWrite, Files
  <2>2. PropTyped'
    BY <1>2, <2>1 DEF PropTyped, PersistWrite, User, Idle, Storing, AllVals
  <2>3. ASSUME ~overlap' PROVE OneAtATime'
    <3>1. OneAtATime
      BY <1>2, <2>3 DEF PersistWrite
    <3>2. \A w \in Users : ~Storing(w)'
      BY <1>2, <3>1 DEF OneAtATime, PropTyped, PersistWrite, Storing, User, Idle
    <3>3. \A n \in Persist : n # user[u].name => stored'[n] = stored[n]
      BY <1>2, <2>0, <3>1 DEF OneAtATime, PersistWrite, Files
    <3>4. stored'[user[u].name] = area[user[u].name].val
      BY <1>2, <2>0, <3>1 DEF OneAtATime, PersistWrite, Files, Storing
    <3>5. \A n \in Persist : sync[n] /\ n # user[u].name => stored[n] = area[n].val
      BY <1>2, <2>0, <3>1 DEF OneAtATime, PersistWrite, Storing
    <3>6. \A n \in Persist : sync'[n] => stored'[n] = area'[n].val
      BY <1>2, <3>3, <3>4, <3>5 DEF PersistWrite
    <3> QED BY <3>2, <3>6 DEF OneAtATime, Storing
  <2> QED BY <2>2, <2>3
<1> QED BY <1>1, <1>2

(* A change of the area that either leaves the users alone, having stored  *)
(* what it had to, or leaves the storing to the process that made it.      *)
LEMMA ChangeStep ==
  ASSUME PropTyped, OneAtATime, NEW u \in Users, NEW n \in PropNames, NEW v,
         n \in Persist => \A w \in Users : ~Storing(w),
         \/ user' = user /\ (n \in Persist /\ sync'[n] => stored'[n] = v)
         \/ n \in Persist /\ user' = [user EXCEPT ![u] = User("read", n, v, <<>>)],
         area'[n].val = v,
         \A m \in PropNames : m # n => area'[m] = area[m],
         \A m \in Persist : m # n => stored'[m] = stored[m] /\ sync'[m] = sync[m],
         n \notin Persist => stored' = stored
  PROVE  OneAtATime'
<1>1. CASE n \notin Persist
  <2>1. user' = user /\ stored' = stored
    BY <1>1
  <2>2. \A m \in Persist : area'[m] = area[m] /\ sync'[m] = sync[m]
    BY <1>1 DEF PropNames
  <2>3. \A w \in Users : Storing(w) => user[w].name \in Persist
    BY DEF PropTyped
  <2> QED BY SMT, <2>1, <2>2, <2>3 DEF OneAtATime, Storing
<1>2. CASE n \in Persist /\ user' = user /\ (sync'[n] => stored'[n] = v)
  <2>1. \A w \in Users : user'[w].pc = "idle"
    BY <1>2 DEF Storing
  <2>2. \A m \in Persist : m # n /\ sync'[m] => stored'[m] = area'[m].val
    BY <1>2 DEF OneAtATime, Storing, PropNames
  <2>3. sync'[n] => stored'[n] = area'[n].val
    BY <1>2
  <2> QED BY <2>1, <2>2, <2>3 DEF OneAtATime, Storing
<1>3. CASE n \in Persist /\ user' = [user EXCEPT ![u] = User("read", n, v, <<>>)]
  <2>1. /\ user'[u].pc = "read" /\ user'[u].name = n /\ user'[u].val = v
        /\ \A w \in Users : w # u => user'[w].pc = "idle"
    BY <1>3 DEF Storing, PropTyped, User
  <2>2. \A m \in Persist : m # n /\ sync'[m] => stored'[m] = area'[m].val
    BY <1>3 DEF OneAtATime, Storing, PropNames
  <2> QED BY ZenonT(30), <2>1, <2>2 DEF OneAtATime, Storing
<1> QED BY <1>1, <1>2, <1>3

(* The users stay typed when one of them is left to store its change.      *)
LEMMA UserTyped ==
  ASSUME PropTyped, NEW u \in Users, NEW n \in Persist, NEW v \in AllVals,
         user' = [user EXCEPT ![u] = User("read", n, v, <<>>)]
  PROVE  /\ user' \in [Users -> [pc : {"idle", "read", "write"}, name : PropNames \cup {NoVal},
                                 val : AllVals, file : Files \cup {<<>>}]]
         /\ \A w \in Users : Storing(w)' => user'[w].name \in Persist
         /\ \A w \in Users : user'[w].pc = "write" => user'[w].file \in Files
  BY DEF PropTyped, Storing, User, PropNames

(* set_prop keeps the invariant: the service stores what it sets, and      *)
(* otherwise the process that asked for it goes on to store it.            *)
LEMMA SetStep ==
  ASSUME PropInv, NEW u \in Users, NEW n \in PropNames, NEW v \in Values \cup {Long},
         NEW fl, SetProp(u, n, v, fl)
  PROVE  PropInv'
<1> USE DEF PropInv
<1> DEFINE how == SetFlags(fl, n)
           service == "skip" \notin how
<1>1. /\ areaSerial' = areaSerial + 1 /\ v \in AllVals
      /\ stored' = IF service /\ n \in Persist THEN [stored EXCEPT ![n] = v] ELSE stored
      /\ ~overlap' => ~overlap /\ (n \in Persist => AllIdle)
  BY DEF SetProp, AllVals
<1>2. /\ area' \in [PropNames -> [val : AllVals, serial : Nat, id : Nat]]
      /\ area'[n].val = v /\ area'[n].id # 0
      /\ \A m \in PropNames : m # n => area'[m] = area[m]
  BY SMT DEF SetProp, PropTyped, Update, Add, Delete, Absent, AllVals
<1>3. \/ ~Persists(how, n) /\ user' = user
      \/ Persists(how, n) /\ user' = [user EXCEPT ![u] = User("read", n, v, <<>>)]
  BY DEF SetProp, PropTyped
<1>4. sync' = IF n \in Persist THEN [sync EXCEPT ![n] = service \/ "persist" \in how] ELSE sync
  BY DEF SetProp
<1>5. /\ sync' \in [Persist -> BOOLEAN]
      /\ \A m \in Persist : m # n => sync'[m] = sync[m]
      /\ n \in Persist => (sync'[n] => service \/ Persists(how, n))
  BY <1>4 DEF PropTyped, Persists
<1>6. stored' \in Files /\ (n \in Persist /\ service => stored'[n] = v)
      /\ \A m \in Persist : m # n => stored'[m] = stored[m]
  BY <1>1 DEF PropTyped, Files
<1>7. Persists(how, n) => n \in Persist
  BY DEF Persists
<1>8. PropTyped'
  <2>1. /\ user' \in [Users -> [pc : {"idle", "read", "write"}, name : PropNames \cup {NoVal},
                               val : AllVals, file : Files \cup {<<>>}]]
        /\ \A w \in Users : Storing(w)' => user'[w].name \in Persist
        /\ \A w \in Users : user'[w].pc = "write" => user'[w].file \in Files
    BY <1>1, <1>3, <1>7, UserTyped DEF PropTyped, Storing
  <2>2. areaSerial' \in Nat
    BY SMT, <1>1 DEF PropTyped
  <2>3. \A m \in PropNames : area'[m].id = 0 => area'[m].val = NoVal
    BY <1>2 DEF PropTyped
  <2> QED BY <2>1, <2>2, <2>3, <1>2, <1>5, <1>6 DEF PropTyped
<1>9. ASSUME ~overlap' PROVE OneAtATime'
  <2>1. OneAtATime /\ (n \in Persist => \A w \in Users : ~Storing(w))
    BY <1>1, <1>9 DEF AllIdle, Storing
  <2>2. \/ user' = user /\ (n \in Persist /\ sync'[n] => stored'[n] = v)
        \/ n \in Persist /\ user' = [user EXCEPT ![u] = User("read", n, v, <<>>)]
    BY <1>3, <1>5, <1>6, <1>7
  <2>3. /\ n \notin Persist => stored' = stored
        /\ \A m \in Persist : m # n => stored'[m] = stored[m] /\ sync'[m] = sync[m]
    BY <1>1, <1>5, <1>6
  <2> QED BY SMT, <2>1, <2>2, <2>3, <1>2, ChangeStep
<1> QED BY <1>8, <1>9

(* delete_prop keeps the invariant: nothing in the area is stored as       *)
(* nothing.                                                                *)
LEMMA DeleteStep ==
  ASSUME PropInv, NEW u \in Users, NEW n \in PropNames, NEW fl, DeleteProp(u, n, fl)
  PROVE  PropInv'
<1> USE DEF PropInv
<1>1. /\ areaSerial' = areaSerial /\ stored' = stored /\ NoVal \in AllVals
      /\ ~overlap' => ~overlap /\ (n \in Persist => AllIdle)
  BY DEF DeleteProp, AllVals
<1>2. /\ area' \in [PropNames -> [val : AllVals, serial : Nat, id : Nat]]
      /\ area'[n].val = NoVal
      /\ \A m \in PropNames : m # n => area'[m] = area[m]
  BY DEF DeleteProp, PropTyped, Delete, Absent, AllVals
<1>3. \/ ~("persist" \in fl /\ n \in Persist) /\ user' = user
      \/ n \in Persist /\ user' = [user EXCEPT ![u] = User("read", n, NoVal, <<>>)]
  BY DEF DeleteProp, PropTyped
<1>4. CASE n \in Persist
  <2>1. sync' = [sync EXCEPT ![n] = "persist" \in fl]
    BY <1>4 DEF DeleteProp
  <2>2. sync \in [Persist -> BOOLEAN] /\ ("persist" \in fl) \in BOOLEAN
    BY SMT DEF PropTyped
  <2>3. sync' \in [Persist -> BOOLEAN] /\ \A m \in Persist : m # n => sync'[m] = sync[m]
    BY <1>4, <2>1, <2>2
  <2>4. sync'[n] = ("persist" \in fl)
    BY <1>4, <2>1, <2>2
  <2>6. PropTyped'
    <3>1. /\ user' \in [Users -> [pc : {"idle", "read", "write"}, name : PropNames \cup {NoVal},
                               val : AllVals, file : Files \cup {<<>>}]]
          /\ \A w \in Users : Storing(w)' => user'[w].name \in Persist
          /\ \A w \in Users : user'[w].pc = "write" => user'[w].file \in Files
      BY <1>1, <1>3, <1>4, UserTyped DEF PropTyped, Storing
    <3> QED BY <3>1, <1>1, <1>2, <2>3 DEF PropTyped, Storing
  <2>5. ASSUME ~overlap' PROVE OneAtATime'
    <3>1. OneAtATime /\ (n \in Persist => \A w \in Users : ~Storing(w))
      BY <1>1, <2>5 DEF AllIdle, Storing
    <3> QED BY SMT, <3>1, <1>1, <1>2, <1>3, <1>4, <2>3, <2>4, ChangeStep
  <2> QED BY <2>5, <2>6
<1>5. CASE n \notin Persist
  <2>1. sync' = sync /\ user' = user
    BY <1>3, <1>5 DEF DeleteProp
  <2>2. PropTyped'
    BY <1>1, <1>2, <2>1 DEF PropTyped, Storing
  <2>3. ~overlap' => OneAtATime'
    BY <1>1, <1>2, <1>5, <2>1, ChangeStep
  <2> QED BY <2>2, <2>3
<1> QED BY <1>4, <1>5

(* Changes of persistent properties that do not overlap leave in the       *)
(* storage what resetprop shows, when they went through the service or     *)
(* asked for it with -p.                                                   *)
THEOREM StorageIsCurrent == PropSpec => []StoredIsCurrent
<1>1. PropInv /\ [PropNext]_propVars => PropInv'
  <2> SUFFICES ASSUME PropInv, [PropNext]_propVars PROVE PropInv'
    OBVIOUS
  <2>1. CASE UNCHANGED propVars
    BY <2>1 DEF propVars, PropInv, PropTyped, OneAtATime, Storing
  <2>2. CASE UserNext
    BY <2>2, StoreSteps DEF UserNext
  <2>3. CASE \E u \in Users, n \in PropNames, fl \in SUBSET {"skip", "persist"} :
               (\E v \in Values \cup {Long} : SetProp(u, n, v, fl)) \/ DeleteProp(u, n, fl)
    BY <2>3, SetStep, DeleteStep
  <2> QED BY <2>1, <2>2, <2>3, WaitReads DEF PropNext
<1>2. PropInv => StoredIsCurrent
  BY DEF PropInv, PropTyped, OneAtATime, Storing, AllIdle, StoredIsCurrent, GetProp, Exists, PropNames
<1> QED BY <1>1, <1>2, PropInvInit, PTL DEF PropSpec

-----------------------------------------------------------------------------
(* Scripts: the scripts of post-fs-data block the boot for a bounded time,   *)
(* for any scripts, any limit and any fork that fails.                       *)

ScriptsTyped ==
  /\ clock \in Nat /\ pfs_timeout \in Nat /\ blocked \in Nat
  /\ scripts \in [ScriptStages -> Seq(Nat)]
  /\ stage \in {"common", "between", "module", "done"}
  /\ runner \in [pc : {"idle", "exec", "wait"}, timer : Int, next : Nat \ {0}]
  /\ started \subseteq [stage : ScriptStages, n : Nat, begins : Nat, ends : Nat]

(* What has been slept since the deadline was set is no more than the time *)
(* that has passed, and whoever sleeps has a timer that ends at the one    *)
(* deadline.                                                               *)
TimeBound ==
  /\ clock >= 1 /\ blocked <= MaxTime
  /\ blocked + pfs_timeout <= clock + MaxTime
  /\ stage = "common" /\ runner.pc = "idle" => pfs_timeout = 0 /\ blocked = 0 /\ started = {}
  /\ runner.pc # "idle" => stage \in ScriptStages /\ runner.timer \in {-1, pfs_timeout}
  /\ runner.pc = "wait" => runner.timer = pfs_timeout

Started(S, g, n) == \E s \in S : s.stage = g /\ s.n = n

(* As long as no fork has failed: the runner has started the scripts before *)
(* the next one and no others, and the last of them is over unless the     *)
(* deadline has passed.                                                    *)
ScriptOrder ==
  /\ \A s, t \in started :
       s.stage = t.stage /\ t.n = s.n + 1 /\ t.begins < pfs_timeout => s.ends <= t.begins
  /\ \A s, t \in started : s.stage = t.stage /\ s.n = t.n => s = t
  /\ stage \in {"common", "between"} \/ (stage = "module" /\ runner.pc = "idle")
       => \A s \in started : s.stage = "common"
  /\ runner.pc # "idle" =>
       /\ \A s \in started : s.stage = stage => s.n < runner.next
       /\ \A n \in Nat : 1 <= n /\ n < runner.next => Started(started, stage, n)
  /\ runner.pc = "exec" =>
       /\ runner.timer = -1 => clock >= pfs_timeout
       /\ \A s \in started : s.stage = stage /\ s.n = runner.next - 1
            => s.ends <= clock \/ clock >= pfs_timeout
  /\ stage # "common" => \A n \in 1..Len(scripts["common"]) : Started(started, "common", n)
  /\ stage = "done" => \A n \in 1..Len(scripts["module"]) : Started(started, "module", n)

ScriptsInv == ScriptsTyped /\ TimeBound /\ (~noFork => ScriptOrder)

(* The initial states satisfy the invariant.                               *)
LEMMA ScriptsInvInit == ScriptInit => ScriptsInv
  BY SMT, ScriptConstants
  DEF ScriptInit, ScriptsInv, ScriptsTyped, TimeBound, ScriptOrder, ScriptStages, Runner

(* Forking the runner and its timer keeps the invariant when the scripts   *)
(* in post-fs-data.d are run (exec_common_scripts).                        *)
LEMMA StartCommonStep == ScriptsInv /\ StartCommon => ScriptsInv'
<1> SUFFICES ASSUME ScriptsInv, StartCommon PROVE ScriptsInv'
  OBVIOUS
<1> USE DEF ScriptsInv
<1>1. ScriptsTyped'
  BY SMT, ScriptConstants DEF ScriptsTyped, StartCommon, Setup, Runner, AfterStage, ScriptStages
<1>2. TimeBound'
  BY SMT, ScriptConstants DEF ScriptsTyped, TimeBound, StartCommon, Setup, Runner, AfterStage, ScriptStages
<1>3. ~noFork' => ScriptOrder'
  BY SMT, ScriptConstants
  DEF ScriptsTyped, TimeBound, ScriptOrder, Started, StartCommon, Setup, Runner, AfterStage, ScriptStages
<1> QED BY <1>1, <1>2, <1>3

(* The same for the modules' scripts, whose timer ends at the deadline that *)
(* is already set (exec_module_scripts).                                   *)
LEMMA StartModuleStep == ScriptsInv /\ StartModule => ScriptsInv'
<1> SUFFICES ASSUME ScriptsInv, StartModule PROVE ScriptsInv'
  OBVIOUS
<1> USE DEF ScriptsInv
<1>1. ScriptsTyped'
  BY SMT, ScriptConstants DEF ScriptsTyped, StartModule, Setup, Runner, AfterStage, ScriptStages
<1>2. TimeBound'
  BY SMT, ScriptConstants DEF ScriptsTyped, TimeBound, StartModule, Setup, Runner, AfterStage, ScriptStages
<1>3. ~noFork' => ScriptOrder'
  BY SMT, ScriptConstants
  DEF ScriptsTyped, TimeBound, ScriptOrder, Started, StartModule, Setup, Runner, AfterStage, ScriptStages
<1> QED BY <1>1, <1>2, <1>3

(* Starting a script keeps the invariant: the one before it is over, or the *)
(* deadline has passed.                                                    *)
LEMMA RunScriptStep == ScriptsInv /\ RunScript => ScriptsInv'
<1> SUFFICES ASSUME ScriptsInv, RunScript PROVE ScriptsInv'
  OBVIOUS
<1> USE DEF ScriptsInv
<1>0. /\ stage \in ScriptStages /\ Plan \in Seq(Nat)
      /\ runner.next \in Nat \ {0} /\ runner.timer \in Int /\ runner.pc = "exec"
  BY DEF ScriptsTyped, TimeBound, RunScript, Plan
<1>1. Plan[runner.next] \in Nat
  BY SMT, <1>0 DEF RunScript
<1>2. /\ clock' = clock /\ pfs_timeout' = pfs_timeout /\ scripts' = scripts
      /\ stage' = stage /\ blocked' = blocked
  BY DEF RunScript
<1>3. /\ runner'.pc = IF runner.timer >= 0 THEN "wait" ELSE "exec"
      /\ runner'.timer = runner.timer /\ runner'.next = runner.next + 1
      /\ runner' \in [pc : {"idle", "exec", "wait"}, timer : Int, next : Nat \ {0}]
  BY SMT, <1>0 DEF RunScript, Runner
<1> DEFINE new == [stage |-> stage, n |-> runner.next, begins |-> clock,
                   ends |-> clock + Plan[runner.next]]
<1>4. /\ new \in [stage : ScriptStages, n : Nat, begins : Nat, ends : Nat]
      /\ new.stage = stage /\ new.n = runner.next /\ new.begins = clock
  BY SMT, <1>0, <1>1 DEF ScriptsTyped
<1>5. ScriptsTyped'
  <2>1. started' \subseteq [stage : ScriptStages, n : Nat, begins : Nat, ends : Nat]
    BY <1>4 DEF RunScript, ScriptsTyped
  <2> QED BY <1>2, <1>3, <2>1 DEF ScriptsTyped
<1>6. TimeBound'
  BY SMT, <1>0, <1>2, <1>3 DEF ScriptsTyped, TimeBound
<1>7. ASSUME ~noFork' PROVE ScriptOrder'
  <2>1. ScriptOrder /\ started' = started \cup {new}
    BY SMT, <1>7 DEF RunScript
  <2> HIDE DEF new
  <2>2. ASSUME NEW s \in started', NEW t \in started', s.stage = t.stage
        PROVE  /\ t.n = s.n + 1 /\ t.begins < pfs_timeout => s.ends <= t.begins
               /\ s.n = t.n => s = t
    <3>1. CASE s \in started /\ t \in started
      BY <2>1, <2>2, <3>1 DEF ScriptOrder
    <3>2. CASE s \in started /\ t = new
      <4>1. s.n < runner.next /\ s.n \in Nat /\ s.ends \in Nat
        BY <2>1, <2>2, <3>2, <1>0, <1>4 DEF ScriptOrder, ScriptsTyped
      <4>2. s.n = runner.next - 1 => s.ends <= clock \/ clock >= pfs_timeout
        BY <2>1, <2>2, <3>2, <1>0, <1>4 DEF ScriptOrder
      <4> QED BY SMT, <4>1, <4>2, <3>2, <1>0, <1>4 DEF ScriptsTyped
    <3>3. CASE s = new /\ t \in started
      <4>1. t.n < runner.next /\ t.n \in Nat
        BY <2>1, <2>2, <3>3, <1>0, <1>4 DEF ScriptOrder, ScriptsTyped
      <4> QED BY SMT, <4>1, <3>3, <1>0, <1>4
    <3>4. CASE s = new /\ t = new
      BY SMT, <3>4, <1>0, <1>4
    <3> QED BY <2>1, <3>1, <3>2, <3>3, <3>4
  <2>3. stage = "common" => \A s \in started' : s.stage = "common"
    BY <2>1, <1>4 DEF ScriptOrder
  <2>4. \A s \in started' : s.stage = stage => s.n < runner.next + 1
    BY SMT, <2>1, <1>0, <1>4 DEF ScriptOrder, ScriptsTyped
  <2>5. ASSUME NEW g, NEW n, Started(started, g, n) PROVE Started(started', g, n)
    BY <2>1, <2>5 DEF Started
  <2>6. \A n \in Nat : 1 <= n /\ n < runner.next + 1 => Started(started', stage, n)
    <3>1. Started(started', stage, runner.next)
      BY <2>1, <1>4 DEF Started
    <3>2. \A n \in Nat : 1 <= n /\ n < runner.next => Started(started, stage, n)
      BY <2>1, <1>0 DEF ScriptOrder
    <3>3. \A n \in Nat : n < runner.next + 1 => n < runner.next \/ n = runner.next
      BY SMT, <1>0
    <3> QED BY <3>1, <3>2, <3>3, <2>5
  <2>7. runner.timer < 0 => clock >= pfs_timeout
    BY SMT, <2>1, <1>0 DEF ScriptOrder, TimeBound, ScriptsTyped
  <2>8. stage # "common" => \A n \in 1..Len(scripts["common"]) : Started(started', "common", n)
    BY <2>1, <2>5 DEF ScriptOrder
  <2>9. runner'.pc # "idle" /\ stage' # "done"
    BY <1>0, <1>2, <1>3 DEF ScriptStages
  <2>10. runner'.pc = "exec" =>
           /\ runner'.timer = -1 => clock >= pfs_timeout
           /\ \A s \in started' : s.stage = stage /\ s.n = runner'.next - 1
                => s.ends <= clock \/ clock >= pfs_timeout
    BY SMT, <2>7, <1>0, <1>3
  <2> QED
    BY <2>2, <2>3, <2>4, <2>6, <2>8, <2>9, <2>10, <1>0, <1>2, <1>3 DEF ScriptOrder, ScriptStages
<1> QED BY <1>5, <1>6, <1>7

(* So do the steps of the runner that waits, and of the daemon.            *)
LEMMA OtherSteps ==
  ScriptsInv /\ (WaitScript \/ WaitTimer \/ RunnerDone \/ GoOn \/ SleepOn) => ScriptsInv'
<1> SUFFICES ASSUME ScriptsInv, WaitScript \/ WaitTimer \/ RunnerDone \/ GoOn \/ SleepOn
             PROVE ScriptsInv'
  OBVIOUS
<1> USE DEF ScriptsInv
<1>1. CASE WaitScript
  <2>1. ScriptsTyped' /\ TimeBound'
    BY <1>1 DEF ScriptsTyped, TimeBound, WaitScript, Runner
  <2>2. ASSUME ~noFork' PROVE ScriptOrder'
    <3>1. PICK w \in started : w.stage = stage /\ w.n = runner.next - 1 /\ w.ends <= clock
      BY <1>1 DEF WaitScript, Waited, Ended
    <3>2. \A s \in started : s.stage = stage /\ s.n = runner.next - 1 => s = w
      BY <1>1, <2>2, <3>1 DEF ScriptOrder, WaitScript
    <3> QED
      BY SMT, <1>1, <2>2, <3>1, <3>2 DEF ScriptsTyped, TimeBound, ScriptOrder, WaitScript, Runner
  <2> QED BY <2>1, <2>2
<1>2. CASE WaitTimer
  BY SMT, <1>2 DEF ScriptsTyped, TimeBound, ScriptOrder, Started, WaitTimer, Runner, ScriptStages
<1>3. CASE RunnerDone
  <2>1. ScriptsTyped' /\ TimeBound'
    BY SMT, <1>3 DEF ScriptsTyped, TimeBound, RunnerDone, Runner, AfterStage, ScriptStages
  <2>2. ASSUME ~noFork' PROVE ScriptOrder'
    <3>1. Len(Plan) \in Nat /\ stage \in ScriptStages /\ runner.next \in Nat
      BY SMT, <1>3 DEF ScriptsTyped, TimeBound, RunnerDone, Plan
    <3>2. \A n \in 1..Len(Plan) : Started(started, stage, n)
      BY SMT, <1>3, <2>2, <3>1 DEF ScriptOrder, RunnerDone
    <3>3. CASE stage = "common"
      BY <1>3, <2>2, <3>2, <3>3 DEF ScriptOrder, RunnerDone, Runner, AfterStage, Plan
    <3>4. CASE stage = "module"
      BY <1>3, <2>2, <3>2, <3>4 DEF ScriptOrder, RunnerDone, Runner, AfterStage, Plan
    <3> QED BY <3>1, <3>3, <3>4 DEF ScriptStages
  <2> QED BY <2>1, <2>2
<1>4. CASE GoOn
  BY SMT, <1>4, ScriptConstants DEF ScriptsTyped, TimeBound, ScriptOrder, Started, GoOn, ScriptStages
<1>5. CASE SleepOn
  BY SMT, <1>5, ScriptConstants DEF ScriptsTyped, TimeBound, ScriptOrder, Started, SleepOn, ScriptStages
<1> QED BY <1>1, <1>2, <1>3, <1>4, <1>5

(* post-fs-data scripts never block the boot past the deadline set by      *)
(* exec_common_scripts, run one after the other until then, and all run.   *)
THEOREM ScriptsBlockedBounded == ScriptSpec => []BlockedBounded
<1>1. ScriptsInv /\ [ScriptNext]_scriptVars => ScriptsInv'
  <2> SUFFICES ASSUME ScriptsInv, [ScriptNext]_scriptVars PROVE ScriptsInv'
    OBVIOUS
  <2>1. CASE UNCHANGED scriptVars
    BY SMT, <2>1 DEF scriptVars, ScriptsInv, ScriptsTyped, TimeBound, ScriptOrder, Started
  <2> QED
    BY <2>1, StartCommonStep, StartModuleStep, RunScriptStep, OtherSteps DEF ScriptNext
<1>2. ScriptsInv => BlockedBounded
  BY SMT DEF ScriptsInv, ScriptsTyped, TimeBound, ScriptOrder, Started, BlockedBounded, ScriptStages
<1> QED BY <1>1, <1>2, ScriptsInvInit, PTL DEF ScriptSpec
=============================================================================
