---------------------------- MODULE MCClaudeRun ----------------------------
(* A pickup and a plan of one issue, with everything armed and without.    *)
EXTENDS ClaudeRun

MCFlags ==
    {[stall |-> on, limit |-> on, heartbeat |-> TRUE, maxIssues |-> 1] : on \in BOOLEAN}
    \cup {[stall |-> on, limit |-> ~on, heartbeat |-> FALSE, maxIssues |-> 0] : on \in BOOLEAN}

MCTimed == {[stall |-> FALSE, limit |-> TRUE, heartbeat |-> FALSE, maxIssues |-> 0]}
============================================================================
