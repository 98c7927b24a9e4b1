----------------------------- MODULE MCSuAccess -----------------------------
(* Instances of SuAccess for TLC. *)
EXTENDS SuAccess, TLC

CONSTANTS r1, r2

U(user, app) == [user |-> user, app |-> app]
App == U(0, "app")

MCUids == {App, U(10, "app"), U(0, "other"), U(0, "manager"), AID_SHELL, AID_ROOT}

Scene(u, mode, on, apps, mgr) ==
    [uid |-> (r1 :> App @@ r2 :> u), multiuser |-> mode, sulist |-> on, listed |-> apps,
     manager |-> mgr]

\* Two requests of one app, or one of it and one of somebody else: another app,
\* the same app under another user, the adb shell, the manager, root.
MCScenes ==
    {Scene(u, "OwnerOnly", FALSE, {}, TRUE) : u \in MCUids}
    \cup {Scene(U(10, "app"), mode, FALSE, {}, TRUE) : mode \in {"OwnerManaged", "User"}}
    \cup {Scene(U(0, "other"), "OwnerOnly", TRUE, {"app"}, TRUE),
          Scene(U(0, "manager"), "OwnerOnly", FALSE, {}, FALSE)}

\* The manager asks with SuList on.
MCManager == {Scene(U(0, "manager"), "OwnerOnly", TRUE, {}, TRUE)}
=============================================================================
