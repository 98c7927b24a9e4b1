--------------------------- MODULE MCMagiskDaemon ---------------------------
(* Instances of MagiskDaemon for TLC. *)
EXTENDS MagiskDaemon

\* The callers that exist: init and root shells, an adb shell and an app that
\* run the magisk binary, an app that does not, and zygote.
Ask(uid, zygote, exe, codes) ==
    {[uid |-> uid, zygote |-> zygote, exe |-> exe, tmpfs |-> uid # "app" /\ ~zygote,
      keep |-> FALSE, req |-> r] : r \in codes}

\* Every caller with requests of each way of being checked and handled.
MCRequests ==
    Ask("root", FALSE, TRUE, {"START_DAEMON", "LATE_START", "SUPERUSER", "STOP_DAEMON",
                              "REMOVE_MODULES", "ZYGISK", "BAD"})
    \cup Ask("shell", FALSE, TRUE, {"START_DAEMON", "REMOVE_MODULES", "STOP_DAEMON"})
    \cup Ask("app", FALSE, TRUE, {"SUPERUSER", "REMOVE_MODULES", "DENYLIST", "ZYGISK"})
    \cup Ask("app", FALSE, FALSE, {"CHECK_VERSION"})
    \cup Ask("root", TRUE, FALSE, {"ZYGISK"})

MCInitCommands == Ask("root", FALSE, TRUE, {"POST_FS_DATA", "LATE_START"})
=============================================================================
