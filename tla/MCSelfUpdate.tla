----------------------------- MODULE MCSelfUpdate -----------------------------
(* A file of the agent, a tracked file of the supervisor, and a file of    *)
(* the supervisor that does not exist yet.                                 *)
EXTENDS SelfUpdate

CONSTANTS core, guard, extra, v1, v2, gone

AllPaths == {core, guard, extra}
ProtectedPaths == {guard, extra}
Versions == {v1, v2}
FirstTree == [p \in AllPaths |-> IF p = extra THEN gone ELSE v1]
=============================================================================
