--------------------------- MODULE MCScriptRunner ---------------------------
(* Small instances of ScriptRunner for TLC. *)
EXTENDS ScriptRunner, TLC

CONSTANTS r1, r2, i1

Script(id, left) == [id |-> id, left |-> left, stopOnError |-> FALSE, plan |-> FALSE]
Plan(id) == [id |-> id, left |-> 1, stopOnError |-> TRUE, plan |-> TRUE]

\* The run a cancel is after; and one that waits for its connection, or a plan that takes its id while it runs.
TwoRuns == [r \in Runs |-> IF r = r1 THEN {Script(i1, 2)} ELSE {Script(None, 1), Plan(i1)}]

=============================================================================
