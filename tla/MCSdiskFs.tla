----------------------------- MODULE MCSdiskFs -----------------------------
(***************************************************************************)
(* Small instances of SdiskFs for TLC.                                     *)
(***************************************************************************)
EXTENDS SdiskFsProperties, TLC

CONSTANTS n1, n2    \* names

\* n1 is the one character of n2 twice.
RestOf     == [n \in {n1, n2} |-> IF n = n1 THEN n2 ELSE ""]
PrefixesOf == [n \in {n1, n2} |-> IF n = n1 THEN {n2} ELSE {}]

\* Every operation, on a tree two levels deep.
AllCalls ==
    [op : {"mkdir"}, path : {<<n1>>, <<n2>>, <<n1, n1>>}]
    \cup [op : {"rmdir"}, path : {<<n1>>}]
    \cup [op : {"create"}, path : {<<n1, n2>>}]
    \cup [op : Readers \ {"read", "write"}, path : {<<>>, <<n1, n1>>}]
    \cup [op : {"read", "write", "unlink"}, path : {<<n1, n2>>}]

\* Without the readers whose steps readdir and utimens take too.
CrashCalls == {c \in AllCalls : c.op \notin {"getattr", "open", "read"}}

\* What the abstract tree speaks of.
TreeCalls == {c \in AllCalls : c.op \notin {"rmdir", "unlink", "write"}}

\* Three directories, two of them in different parents.
PairCalls == [op : {"mkdir"}, path : {<<n1>>, <<n2>>, <<n1, n1>>}]

\* A file in the root, which is always there.
FileCalls == [op : {"create", "getattr"}, path : {<<n1>>}]

\* A directory, and lookups of it and of what is not in it.
LookCalls == [op : {"mkdir"}, path : {<<n1>>}]
             \cup [op : {"getattr"}, path : {<<n1>>, <<n2>>, <<n1, n1>>}]
=============================================================================
