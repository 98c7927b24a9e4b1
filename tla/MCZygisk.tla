------------------------------ MODULE MCZygisk ------------------------------
(* Instances of Zygisk for TLC. *)
EXTENDS Zygisk

CONSTANTS a, b, m, s

MCScenes ==
    { [procs |-> {}, stops |-> 5], [procs |-> {m}, stops |-> 0], [procs |-> {s}, stops |-> 1],
      [procs |-> {a}, stops |-> 1], [procs |-> {a, b}, stops |-> 0], [procs |-> {b, s}, stops |-> 0] }

MCRole == [p \in Procs |-> IF p = s THEN "server" ELSE IF p = m THEN "manager" ELSE "app"]
MCAbi == [p \in Procs |-> IF p = a THEN "32" ELSE "64"]

MCLibs(l32, l64) == [x \in {"32", "64"} |-> IF x = "32" THEN l32 ELSE l64]

\* Modules that lack a library, one without and one with a companion, one
\* with a broken library, one that is not a Zygisk module.
MCLib == << MCLibs("bad", "none"), MCLibs("none", "good"), MCLibs("good", "good"),
            MCLibs("none", "bad"), MCLibs("none", "none") >>
=============================================================================
