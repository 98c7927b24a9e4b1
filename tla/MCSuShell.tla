----------------------------- MODULE MCSuShell -----------------------------
(* Command lines of up to two options.                                     *)
EXTENDS SuShell
MCOptions == {<<"c", 0>>, <<"i", 0>>, <<"M", 0>>, <<"t", 2>>, <<"t", -5>>, <<"g", 3>>, <<"G", 4>>,
              <<"l", 0>>, <<"v", 0>>}
MCOptionLists == {<<>>} \cup {<<o>> : o \in MCOptions} \cup {<<o, p>> : o, p \in MCOptions}
=============================================================================
