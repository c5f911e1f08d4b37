------------------------------ MODULE MCPRWatch ------------------------------
(* One pull request, a trusted reviewer and a passer-by, under small       *)
(* settings of the two flags.                                              *)
EXTENDS PRWatch

MCReviewers == {"owner", "passerby"}
MCTrusted == {"owner"}

(* A build that does not count as red yet, and one that does.              *)
MCRollups == {{"failed", "running"}, {"failed", "stuck"}}
MCRunCosts == {0, 1}
MCFlags == {[retries |-> 0, maxCost |-> 0], [retries |-> 2, maxCost |-> 0],
            [retries |-> 1, maxCost |-> 2]}
=============================================================================
