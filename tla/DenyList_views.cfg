\* One client and a package that is uninstalled.
SPECIFICATION Spec
CONSTANTS
    app = app
    mgr = mgr
    iso = iso
    main = main
    extra = extra
    Threads = {t1}
    Boot = boot
    Monitors = {m1, m2}
    None = None
    Pkgs <- MCPkgs
    Isolated = iso
    Manager = mgr
    Entries <- MCEntries
    Owner <- MCOwner
    MaxRequests = 3
    MaxBoots = 2
    MaxInstalls = 1
INVARIANT
    ViewsPointToKeys
CHECK_DEADLOCK FALSE
