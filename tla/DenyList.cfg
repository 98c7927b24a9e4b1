\* Two clients, a package with two processes, a reboot and a package change.
SPECIFICATION Spec
CONSTANTS
    app = app
    mgr = mgr
    iso = iso
    main = main
    extra = extra
    Threads = {t1, t2}
    Boot = boot
    Monitors = {m1, m2}
    None = None
    Pkgs <- MCPkgs
    Isolated = iso
    Manager = mgr
    Entries <- MCEntries
    Owner <- MCOwner
    MaxRequests = 3
    MaxBoots = 2
    MaxInstalls = 1
INVARIANTS
    MapFollowsList
    ListIsStored
    OneMonitor
SYMMETRY Symmetry
CHECK_DEADLOCK FALSE
