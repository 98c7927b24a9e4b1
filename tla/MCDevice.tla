------------------------------ MODULE MCDevice ------------------------------
(* Parts of the running system that share no state, checked side by side:  *)
(* one of them is at work, the others keep an initial state.               *)
EXTENDS MCMagicMount, MCZygiskHooks, Resetprop, Database, MCScripts, MCSuShell

VARIABLE scene

\* The idle parts: as little state as their properties read.
MountIdle == /\ stock = <<>> /\ mods = <<>> /\ zygisk = FALSE /\ sbin = FALSE /\ tree = <<>>
             /\ view = <<>> /\ at = 0 /\ props = <<>>
PropIdle == /\ area = [n \in PropNames |-> Absent] /\ areaSerial = 0 /\ stored = <<>>
            /\ user = <<>> /\ ops = 0 /\ sync = <<>> /\ overlap = TRUE
            /\ waiter \in [pc : {"idle"}, name : Ro, old : {NoVal}, id : {0}]
DbIdle == files = <<>> /\ path = 0 /\ conn = <<>> /\ dbFailed = TRUE /\ start = 0 /\ crashes = 0
ScriptIdle == /\ clock = 0 /\ pfs_timeout = 0 /\ scripts = <<>> /\ stage = "idle"
              /\ runner = <<>> /\ started = {} /\ blocked = 0 /\ noFork = FALSE
SuIdle == /\ opts = <<>> /\ optind = 1 /\ request = NoRequest /\ stdio = <<>> /\ mode = "Global" /\ client = [pc |-> "done"]
          /\ up = <<>> /\ down = <<>> /\ server = "none" /\ child = [pc |-> "none"] /\ pty = FALSE

Init ==
  /\ HooksInit
  /\ \/ /\ scene = "hooks"
        /\ MountIdle /\ PropIdle /\ DbIdle /\ ScriptIdle /\ SuIdle
     \/ /\ scene = "mount" /\ MountInit
        /\ PropIdle /\ DbIdle /\ ScriptIdle /\ SuIdle
     \/ /\ scene = "props" /\ PropInit
        /\ MountIdle /\ DbIdle /\ ScriptIdle /\ SuIdle
     \/ /\ scene = "database" /\ DbInit
        /\ MountIdle /\ PropIdle /\ ScriptIdle /\ SuIdle
     \/ /\ scene = "scripts" /\ ScriptInit
        /\ MountIdle /\ PropIdle /\ DbIdle /\ SuIdle
     \/ /\ scene = "su" /\ SuInit
        /\ MountIdle /\ PropIdle /\ DbIdle /\ ScriptIdle

Hooks == scene = "hooks" /\ HooksNext
         /\ UNCHANGED <<mountVars, propVars, dbVars, scriptVars, suVars, scene>>
Mount == scene = "mount" /\ MountNext
         /\ UNCHANGED <<hookVars, propVars, dbVars, scriptVars, suVars, scene>>
Props == scene = "props" /\ PropNext
         /\ UNCHANGED <<mountVars, hookVars, dbVars, scriptVars, suVars, scene>>
Db == scene = "database" /\ DbNext
      /\ UNCHANGED <<mountVars, hookVars, propVars, scriptVars, suVars, scene>>
StageScripts == scene = "scripts" /\ ScriptNext
                /\ UNCHANGED <<mountVars, hookVars, propVars, dbVars, suVars, scene>>
Su == scene = "su" /\ SuNext
      /\ UNCHANGED <<mountVars, hookVars, propVars, dbVars, scriptVars, scene>>

Next == Hooks \/ Mount \/ Props \/ Db \/ StageScripts \/ Su

\* A waiter that can go on does, and a command that has begun ends.
Fairness == WF_propVars(scene = "props" /\ (WaitNext \/ UserNext))

Spec ==
  /\ Init /\ Fairness
  /\ [][Next]_<<mountVars, hookVars, propVars, dbVars, scriptVars, suVars, scene>>
=============================================================================
