------------------------------ MODULE IssueLife ------------------------------
(***************************************************************************)
(* What the supervisor promises about one issue, with the ledger, the      *)
(* session and GitHub left out.  known says that a pull request has been   *)
(* seen on the issue's branch; it outlives the process.                    *)
(***************************************************************************)
VARIABLES phase, known

life == <<phase, known>>

Phases == {"queued", "running", "judging", "asked", "onPR",
           "parked", "merged", "closed"}

Init == phase = "queued" /\ known = FALSE

Move(from, to) == phase \in from /\ phase' \in to /\ known' = known

(* The skill runs only while no pull request has been seen.                *)
StartRun == ~known /\ Move({"queued"}, {"running"})
EndRun == Move({"running"}, {"judging"})

(* A run that opened nothing is resumed, parked, or left with its question;*)
(* or the issue turned out to need no change.                              *)
Judge == Move({"judging"}, {"queued", "asked", "parked", "closed"})

PutBack == ~known /\ Move({"queued"}, {"asked"})
PickUp == Move({"asked"}, {"queued"})
GiveUp == Move({"queued", "onPR"}, {"parked"})

SeePR ==
    /\ phase \in {"queued", "judging"} /\ phase' = "onPR"
    /\ known' = TRUE

(* A merge is the only way from a pull request to a finished issue.        *)
Merge == Move({"onPR"}, {"merged"})

(* The process stops; the next one starts the issue from GitHub alone.     *)
Stop == Move(Phases, {"queued"})

Next ==
    \/ StartRun \/ EndRun \/ Judge \/ PutBack \/ PickUp \/ GiveUp
    \/ SeePR \/ Merge \/ Stop

Spec == Init /\ [][Next]_life
=============================================================================
