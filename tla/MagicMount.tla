----------------------------- MODULE MagicMount -----------------------------
(***************************************************************************)
(* Magic mount: load_modules of native/src/core/module.cpp and the node    *)
(* tree of native/src/core/node.hpp.  The files of the enabled modules are *)
(* collected into one tree, Magisk's own binaries and the Zygisk loader    *)
(* are added, the tree is compared with the real file system, and every    *)
(* node mounts itself.                                                     *)
(*                                                                         *)
(* A path is a sequence of names.  A file is a pair <<kind, origin>>: the  *)
(* kind is "dir", "reg", "lnk" or "wht" (a whiteout), the origin tells     *)
(* whose file it is.  A module is [files, replace, skip, prop]: its system *)
(* directory (paths start with "system"), the directories that hold        *)
(* .replace, and whether it has skip_mount and system.prop.                *)
(***************************************************************************)
EXTENDS Integers, Sequences

CONSTANTS Word,          \* the names of files and directories
          Stocks,        \* the file systems to try: path -> file
          Lists,         \* the module lists to try
          Partitions,    \* "vendor", "product", "system_ext"
          BinDir,        \* the first directory of PATH that is under /system
          Applets,       \* the names that are links to magisk
          Libs           \* the library directories the device has a linker for

VARIABLES stock, mods, zygisk, sbin, tree, view, at, props

mountVars == <<stock, mods, zygisk, sbin, tree, view, at, props>>

System == <<"system">>
Names == {"magisk"} \cup Applets
Loader == "loader"
None == <<"none", "">>

Path == Seq(Word) \ {<<>>}
Parent(p) == SubSeq(p, 1, Len(p) - 1)
Name(p) == p[Len(p)]
Under(p, q) == Len(q) > Len(p) /\ SubSeq(q, 1, Len(p)) = p
OnLine(p, q) == p = q \/ Under(p, q)
Children(t, p) == {c \in DOMAIN t : Len(c) > 1 /\ Parent(c) = p}
At(t, p) == IF p \in DOMAIN t THEN t[p] ELSE None
Merge(f, g) == [p \in DOMAIN f \cup DOMAIN g |-> IF p \in DOMAIN g THEN g[p] ELSE f[p]]
Without(f, S) == [p \in DOMAIN f \ S |-> f[p]]

\* A directory tree: what has something under it is a directory.
IsTree(f) ==
  \A p \in DOMAIN f :
    p \in Path /\ \A i \in 1..(Len(p) - 1) : At(f, SubSeq(p, 1, i))[1] = "dir"

IsStock(s) ==
  /\ IsTree(s) /\ At(s, System)[1] = "dir"
  /\ \A p \in DOMAIN s : s[p][1] \in {"dir", "reg", "lnk"}

IsModule(m) ==
  /\ IsTree(m.files) /\ m.skip \in BOOLEAN
  /\ \A p \in DOMAIN m.files : p[1] = "system" /\ m.files[p][1] \in {"dir", "reg", "lnk", "wht"}
  /\ \A d \in m.replace : At(m.files, d)[1] = "dir"

\* The root of a partition; prepare() does not get past a .replace there.
IsRoot(s, d) == d = System \/ (Len(d) = 2 /\ d[2] \in Partitions /\ At(s, <<d[2]>>)[1] = "dir")

ASSUME MountAssumption ==
  /\ {"system", "bin", Loader} \cup Names \cup Libs \cup Partitions \subseteq Word
  /\ BinDir \in Seq(Word) /\ \A i \in 1..Len(BinDir) : BinDir[i] # Loader
  /\ "system" \notin Partitions /\ "magisk" \notin Applets /\ Loader \notin Names
  /\ Libs \cap Names = {} /\ Partitions \cap (Libs \cup Names) = {}
  /\ \A s \in Stocks : IsStock(s)
  /\ \A l \in Lists : l \in Seq({l[i] : i \in 1..Len(l)}) /\ \A i \in 1..Len(l) : IsModule(l[i])
  /\ \A s \in Stocks, l \in Lists : \A i \in 1..Len(l) : \A d \in l[i].replace : ~IsRoot(s, d)

\* node_entry: type is the rank, file the file_type, from where it comes.
Node(type, file, from) == [type |-> type, file |-> file, from |-> from, replace |-> FALSE]
DirNode == Node("inter", "dir", "")

----------------------------------------------------------------------------
(* dir_node::collect_module_files.  A directory is entered when no earlier *)
(* module has something else at its path.  Among files the first module    *)
(* wins; a file takes the place of a directory of an earlier module and,   *)
(* as consume() copies the file type, keeps passing for a directory.       *)

Entered(t, m) ==
  {d \in DOMAIN m.files :
     /\ m.files[d][1] = "dir"
     /\ \A q \in DOMAIN m.files :
          OnLine(q, d) => q \notin DOMAIN t \/ t[q].type \in {"inter", "root"}}

Collect(t, m) ==
  LET dirs == Entered(t, m)
      files == {f \in DOMAIN m.files :
                  /\ m.files[f][1] # "dir" /\ Parent(f) \in dirs
                  /\ f \notin DOMAIN t \/ t[f].type = "inter"}
      t1 == Merge([d \in dirs |-> DirNode], t)
      gone == {p \in DOMAIN t1 : \E f \in files : Under(f, p)}
      t2 == Merge(Without(t1, gone),
                  [f \in files |-> Node("module", IF f \in DOMAIN t THEN "dir" ELSE m.files[f][1],
                                        m.files[f][2])])
  IN  [p \in DOMAIN t2 |->
         IF p \in m.replace \cap dirs THEN [t2[p] EXCEPT !.replace = TRUE] ELSE t2[p]]

----------------------------------------------------------------------------
(* Nodes of Magisk itself: insert() of a custom node, the highest rank.    *)

\* The directories dirs, unless they are there, and in them the files new.
Inject(t, dirs, new) ==
  LET t1 == Merge([d \in dirs |-> DirNode], t)
      gone == {q \in DOMAIN t1 : \E p \in DOMAIN new : Under(p, q)}
  IN  Merge(Without(t1, gone),
            [p \in DOMAIN new |->
               Node("custom", IF p \in DOMAIN t1 THEN t1[p].file ELSE new[p][1], new[p][2])])

\* /system/bin if a module has it anyway, else where PATH leads.
BinOf(t) == System \o (IF System \o <<"bin">> \in DOMAIN t THEN <<"bin">> ELSE BinDir)

InjectBins(t) ==
  LET bin == BinOf(t) IN
  Inject(t, {SubSeq(bin, 1, i) : i \in 2..Len(bin)},
         [p \in {Append(bin, n) : n \in Names} |->
            <<IF Name(p) = "magisk" THEN "reg" ELSE "lnk", "magisk">>])

InjectLibs(t) ==
  Inject(t, {System \o <<d>> : d \in Libs},
         [p \in {System \o <<d, Loader>> : d \in Libs} |-> <<"reg", "zygisk">>])

Own(part) == part \in Partitions /\ At(stock, <<part>>)[1] = "dir"

\* A partition of its own takes its nodes out of the tree of /system.
Extract(t) ==
  LET moved == {p \in DOMAIN t : Len(p) > 1 /\ Own(p[2])}
      new == [p \in {Tail(q) : q \in moved} |->
                IF Len(p) = 1 THEN [t[System \o p] EXCEPT !.type = "root"] ELSE t[System \o p]]
  IN  Merge(Without(t, moved), new)

----------------------------------------------------------------------------
(* dir_node::prepare and the constructor of tmpfs_node.                    *)

CannotMount(t, p) ==
  IF p \notin DOMAIN stock THEN t[p].file # "wht"
  ELSE t[p].file \in {"lnk", "wht"} \/ stock[p][1] = "lnk"

IsDirNode(n) == n.type \in {"inter", "tmpfs", "root"}

Skipped(t) ==
  LET top == {p \in DOMAIN t : Len(p) > 1 /\ t[Parent(p)].type = "root" /\ CannotMount(t, p)}
  IN  {p \in DOMAIN t : \E q \in top : OnLine(q, p)}

Replaced(t, p) ==
  \E q \in DOMAIN t : OnLine(q, p) /\ IsDirNode(t[q]) /\ t[q].replace

NeedsTmpfs(t, p) ==
  /\ t[p].type = "inter"
  /\ Replaced(t, p) \/ p \notin DOMAIN stock \/ \E c \in Children(t, p) : CannotMount(t, c)

\* Mutant: a directory that becomes a tmpfs forgets what was in it.
NoMirror(t, tmpfs) == {}

\* The entries of the real directory that a tmpfs has to show again.
Mirrored(t, tmpfs) ==
  {q \in DOMAIN stock \ DOMAIN t :
     \E d \in tmpfs : /\ Under(d, q) /\ ~Replaced(t, d)
                      /\ \A a \in DOMAIN t : Under(d, a) => ~Under(a, q)}

Prepare(t0) ==
  LET t == Without(t0, Skipped(t0))
      need == {p \in DOMAIN t : NeedsTmpfs(t, p)}
      tmpfs == {p \in DOMAIN t : t[p].type = "inter" /\ \E q \in need : OnLine(q, p)}
      all == Merge([q \in Mirrored(t, tmpfs) |-> Node("tmpfs", stock[q][1], stock[q][2])], t)
  IN  [p \in DOMAIN all |->
         [all[p] EXCEPT !.type = IF p \in tmpfs THEN "tmpfs" ELSE @,
                        !.replace = Replaced(t, p)]]

----------------------------------------------------------------------------
(* mount().  What every path shows once all nodes have mounted themselves. *)

\* A bind mount wants two directories or two files.
Bind(src, dest) ==
  IF dest # None /\ (src[1] = "dir") = (dest[1] = "dir") THEN src ELSE dest

\* create_and_mount in the worker directory of a tmpfs
Created(n, src) ==
  CASE n.file = "lnk" -> src
    [] n.file = "dir" -> Bind(src, <<"dir", "">>)
    [] n.file = "reg" -> Bind(src, <<"reg", "">>)
    [] OTHER -> None

InTmpfs(t, p) == Len(p) > 1 /\ t[Parent(p)].type = "tmpfs"

SourceOf(n) == <<IF n.type = "custom" \/ n.file = "dir" THEN "reg" ELSE n.file, n.from>>

Shown(t, p) ==
  LET n == t[p]
      real == At(stock, p)
      link == n.from = "magisk" /\ Name(p) \in Applets
  IN  CASE n.type = "module" -> IF n.file = "wht" THEN IF InTmpfs(t, p) THEN None ELSE real
                                ELSE IF InTmpfs(t, p) THEN Created(n, SourceOf(n))
                                ELSE Bind(SourceOf(n), real)
        [] n.type = "custom" -> IF link THEN IF InTmpfs(t, p) THEN <<"lnk", "magisk">> ELSE real
                                ELSE IF InTmpfs(t, p) THEN Created(n, SourceOf(n))
                                ELSE IF n.file \in {"reg", "dir"} THEN Bind(SourceOf(n), real)
                                ELSE real
        [] n.type = "tmpfs" -> IF n.file # "dir" THEN Created(n, real)
                               ELSE IF InTmpfs(t, p) THEN <<"dir", "">>
                               ELSE Bind(<<"dir", "">>, real)
        [] OTHER -> real

\* A path without a node shows the real file unless a tmpfs or something
\* that is no directory any more lies over it.
Visible(t, p) ==
  LET above == {q \in DOMAIN t : Under(q, p)}
      lost(q) == t[q].type \notin {"inter", "root"} /\ Shown(t, q)[1] # "dir"
  IN  IF \E q \in above : lost(q) THEN None
      ELSE IF p \in DOMAIN t THEN Shown(t, p)
      ELSE IF \E q \in above : t[q].type = "tmpfs" THEN None
      ELSE At(stock, p)

----------------------------------------------------------------------------
RootOnly == [p \in {System} |-> Node("root", "dir", "")]

MountInit ==
  /\ stock \in Stocks /\ mods \in Lists /\ zygisk \in BOOLEAN /\ sbin \in BOOLEAN
  /\ tree = RootOnly /\ view = stock /\ at = 1
  /\ props = [loaded |-> <<>>, bridge |-> "stock"]

\* One turn of the loop over module_list.
LoadModule ==
  /\ at <= Len(mods)
  /\ LET m == mods[at] IN
     /\ props' = [props EXCEPT !.loaded = IF m.prop THEN Append(@, at) ELSE @]
     /\ tree' = IF m.skip \/ At(m.files, System)[1] # "dir" THEN tree ELSE Collect(tree, m)
  /\ at' = at + 1
  /\ UNCHANGED <<stock, mods, zygisk, sbin, view>>

\* What follows the loop: the nodes of Magisk (not its binaries if they are in
\* an /sbin of PATH), prepare() and mount().
MountTree ==
  /\ at = Len(mods) + 1
  /\ LET t1 == IF sbin THEN tree ELSE InjectBins(tree)
         t2 == IF zygisk THEN InjectLibs(t1) ELSE t1
         t3 == Prepare(Extract(t2))
     IN  /\ tree' = t3
         /\ view' = [p \in DOMAIN t3 \cup DOMAIN stock |-> Visible(t3, p)]
  /\ props' = [props EXCEPT !.bridge = IF zygisk THEN "zygisk" ELSE @]
  /\ at' = at + 1
  /\ UNCHANGED <<stock, mods, zygisk, sbin>>

MountNext == LoadModule \/ MountTree
MountSpec == MountInit /\ [][MountNext]_mountVars

----------------------------------------------------------------------------
Mounted == at = Len(mods) + 2

\* The modules that take part, the path a file of theirs ends up at, and the
\* path in a module for it.
Active == {i \in 1..Len(mods) : ~mods[i].skip /\ At(mods[i].files, System)[1] = "dir"}
Place(q) == IF Len(q) > 1 /\ Own(q[2]) THEN Tail(q) ELSE q
Home(p) == IF Own(p[1]) THEN System \o p ELSE p
FileOf(i, p) == mods[i].files[Home(p)]
Providers(p) ==
  {i \in Active : Home(p) \in DOMAIN mods[i].files /\ Place(Home(p)) = p}
First(S) == CHOOSE i \in S : \A j \in S : i <= j
Chosen(p) == FileOf(First(Providers(p)), p)

\* Where Magisk puts its own files, and the directories that hold them.
Bin == LET given == \E i \in Active : System \o <<"bin">> \in DOMAIN mods[i].files
       IN  Place(System \o (IF given THEN <<"bin">> ELSE BinDir))
InBin(p) == ~sbin /\ Len(p) > 1 /\ Parent(p) = Bin /\ Name(p) \in Names
Linked(p) == InBin(p) /\ Name(p) \in Applets
InLib(p) == zygisk /\ Len(p) = 3 /\ p[1] = "system" /\ p[2] \in Libs /\ p[3] = Loader
Injected(p) == InBin(p) \/ InLib(p)
Hosts(p) == \/ ~sbin /\ OnLine(p, Bin)
            \/ zygisk /\ Len(p) = 2 /\ p[1] = "system" /\ p[2] \in Libs

\* A link of Magisk over a regular file of a module passes for a regular file,
\* and cannot be made where the device has one, unless its directory becomes a
\* tmpfs anyway to take the magisk binary.
Stuck(p) ==
  /\ Linked(p) /\ Providers(p) # {} /\ p \in DOMAIN stock
  /\ LET magisk == Append(Bin, "magisk")
     IN  magisk \in DOMAIN stock \/ Providers(magisk) # {}

\* Directories and files at one path: what becomes of it depends on the
\* neighbours, and the code promises nothing.
Conflict(p) ==
  \/ \E i, j \in Providers(p) : FileOf(i, p)[1] = "dir" /\ FileOf(j, p)[1] # "dir"
  \/ \E i \in Providers(p) : /\ p \in DOMAIN stock /\ FileOf(i, p)[1] # "wht"
                             /\ (stock[p][1] = "dir") # (FileOf(i, p)[1] = "dir")
  \/ Hosts(p) /\ \/ At(stock, p)[1] \in {"reg", "lnk"}
                 \/ \E i \in Providers(p) : FileOf(i, p)[1] # "dir"
  \/ Injected(p) /\ \/ At(stock, p)[1] = "dir"
                    \/ \E i \in Providers(p) : FileOf(i, p)[1] \in {"wht", "dir"}
  \/ Stuck(p)

WhitedOut(p) == Providers(p) # {} /\ ~Injected(p) /\ Chosen(p)[1] = "wht"

\* The root of a partition stays and cannot become a tmpfs: nothing is added to it.
Refused(p) ==
  \/ Len(p) = 1 /\ WhitedOut(p)
  \/ /\ Len(p) = 2 /\ p[1] \in {"system"} \cup Partitions
     /\ \/ At(stock, p)[1] \in {"none", "lnk"}
        \/ Providers(p) # {} /\ Chosen(p)[1] \in {"lnk", "wht"}
        \/ Linked(p)

Emptied(p) ==
  \E i \in Active : \E d \in mods[i].replace : Under(Place(d), p)

\* The overlay, stated path by path.
Wanted(p) ==
  IF Injected(p) THEN IF Linked(p) THEN <<"lnk", "magisk">>
                      ELSE <<"reg", IF InLib(p) THEN "zygisk" ELSE "magisk">>
  ELSE IF Providers(p) # {}
       THEN CASE Chosen(p)[1] = "wht" -> None
              [] Chosen(p)[1] = "dir" -> <<"dir", "">>
              [] OTHER -> Chosen(p)
  ELSE IF Hosts(p) THEN <<"dir", "">>
  ELSE IF Emptied(p) THEN None ELSE At(stock, p)

AllPaths ==
  DOMAIN view \cup {Append(Bin, n) : n \in Names} \cup {System \o <<d, Loader>> : d \in Libs}
  \cup UNION {{Place(q) : q \in DOMAIN mods[i].files} : i \in Active}

Line(p) == {SubSeq(p, 1, i) : i \in 1..Len(p)}
Same(a, b) == a[1] = b[1] /\ (a[1] = "dir" \/ a[2] = b[2])

(* After load_modules every path shows what the overlay of the modules     *)
(* over the real file system says: Magisk's own files, else the file of    *)
(* the first module that has one, nothing under a whiteout or a .replace,  *)
(* and every file no module mentions exactly as before.                    *)
MountedView ==
  Mounted => \A p \in AllPaths :
    LET line == Line(p) IN
    \/ \E q \in line : Conflict(q)
    \/ IF \E q \in line : Refused(q) THEN At(view, p) = At(stock, p)
       ELSE IF \E q \in line : WhitedOut(q) THEN At(view, p) = None
       ELSE Same(At(view, p), Wanted(p))
=============================================================================
