----------------------------- MODULE MCIssueLoop -----------------------------
(* One issue with small budgets, so that every counter reaches its limit.  *)
EXTENDS IssueLoop

MCFree == {0}
MCRunCosts == {0, 1}
=============================================================================
