-------------------------------- MODULE Policy -------------------------------
(***************************************************************************)
(* Which model or effort a run gets and where the choice came from.  Model *)
(* and effort resolve alike, so one family stands for both; its value is   *)
(* named for the place it was set.  An issue's labels are resolved once,   *)
(* at pickup, and hold for every run of that leg.                          *)
(***************************************************************************)
EXTENDS Integers, Sequences

CONSTANTS
    Knobs,           \* the operator's cells: who gave flag, remediation, size
    LabelSets        \* the family's labels on an issue, each good, default or bad

ASSUME PolicyAssumption == \A k \in Knobs : k \subseteq {"flag", "remediation", "size"}

VARIABLES policyPc, policyIssue, policyLeg, policyRun

policyVars == <<policyPc, policyIssue, policyLeg, policyRun>>

Unset == [set |-> FALSE, value |-> "", epic |-> FALSE]
NoRunYet == [reason |-> "none", value |-> "", source |-> "none"]

(* labelValues and parseLabelPolicy: one label of the family, in the shape *)
(* the CLI takes or the word default, settles it; two, or another, do not. *)
LabelPolicy(labels) ==
    CASE Len(labels) # 1 -> Unset
      [] Len(labels) = 1 /\ labels[1] = "default" -> [Unset EXCEPT !.set = TRUE]
      [] Len(labels) = 1 /\ labels[1] = "good" -> [Unset EXCEPT !.set = TRUE, !.value = "label"]
      [] OTHER -> Unset

InheritFrom(child, epic) ==
    IF ~child.set /\ epic.set THEN [epic EXCEPT !.epic = TRUE] ELSE child

(* issuePickupPolicy: the issue is read, then its parent if it left the    *)
(* family open; a read that fails costs what it would have told.           *)
Letter == {"", "hit", "miss"}
PolicyInit ==
    /\ policyPc = "rest"
    /\ policyIssue = [labels |-> <<>>, epic |-> <<>>, size |-> "", knobs |-> {}]
    /\ policyLeg = [choice |-> Unset, size |-> ""] /\ policyRun = NoRunYet
IssueComes ==
    /\ policyPc = "rest" /\ policyPc' = "pickup" /\ UNCHANGED <<policyLeg, policyRun>>
    /\ policyIssue' \in [labels : LabelSets, epic : LabelSets \cup {<<"none">>},
                         size : Letter, knobs : Knobs]
PicksUp ==
    /\ policyPc = "pickup" /\ policyPc' = "leg" /\ UNCHANGED <<policyIssue, policyRun>>
    /\ \/ policyLeg' = [choice |-> Unset, size |-> ""]
       \/ policyLeg' = [choice |-> LabelPolicy(policyIssue.labels), size |-> policyIssue.size]
       \/ /\ ~LabelPolicy(policyIssue.labels).set /\ policyIssue.epic # <<"none">>
          /\ policyLeg' = [choice |-> InheritFrom(Unset, LabelPolicy(policyIssue.epic)),
                           size |-> policyIssue.size]

(* choose: pick, then bySize over it.                                      *)
Remediations == {"remediate", "checks", "review"}
Implementations == {"implement", "resume", "unfinished", "answers"}
Pick(label, remediation) ==
    CASE label.set /\ label.value = "" -> [value |-> "", source |-> "inherit"]
      [] label.set /\ label.value # "" ->
            [value |-> label.value, source |-> IF label.epic THEN "epic" ELSE "label"]
      [] ~label.set /\ remediation /\ "remediation" \in policyIssue.knobs ->
            [value |-> "remediation", source |-> "remediation"]
      [] ~label.set /\ ~(remediation /\ "remediation" \in policyIssue.knobs)
            /\ "flag" \in policyIssue.knobs -> [value |-> "flag", source |-> "flag"]
      [] OTHER -> [value |-> "", source |-> "inherit"]
BySizeOverLabel(cur, label, remediation) ==
    IF ~remediation /\ "size" \in policyIssue.knobs /\ policyLeg.size = "hit"
    THEN [value |-> "size", source |-> "size"] ELSE cur
BySize(cur, label, remediation) ==
    IF ~remediation /\ ~label.set /\ "size" \in policyIssue.knobs /\ policyLeg.size = "hit"
    THEN [value |-> "size", source |-> "size"] ELSE cur
Choose(reason) ==
    LET remediation == reason \in Remediations
    IN  BySize(Pick(policyLeg.choice, remediation), policyLeg.choice, remediation)

Dispatches ==
    /\ policyPc = "leg" /\ UNCHANGED <<policyPc, policyIssue, policyLeg>>
    /\ \E r \in Remediations \cup Implementations :
          policyRun' = [reason |-> r, value |-> Choose(r).value, source |-> Choose(r).source]
(* The labels are edited while the issue waits, and a new leg reads them.  *)
LegEndsForPolicy ==
    /\ policyPc = "leg" /\ policyPc' = "pickup" /\ policyRun' = NoRunYet
    /\ \E l \in LabelSets : policyIssue' = [policyIssue EXCEPT !.labels = l]
    /\ UNCHANGED policyLeg

PolicyNext == IssueComes \/ PicksUp \/ Dispatches \/ LegEndsForPolicy

PolicyTypeOK ==
    /\ policyPc \in {"rest", "pickup", "leg"} /\ policyLeg.size \in Letter
    /\ policyRun.source \in {"none", "inherit", "flag", "remediation", "label", "epic", "size"}

(* Said as a rule (policy.go:207): of what speaks for this run, the        *)
(* strongest voice wins, and a label saying default silences the rest; two *)
(* runs of a leg that differ in reason alone differ only through a cell    *)
(* that is for one class of run.                                           *)
Voices(reason) ==
    (IF reason \in Remediations THEN policyIssue.knobs \ {"size"}
     ELSE policyIssue.knobs \ (IF policyLeg.size = "hit" THEN {"remediation"}
                               ELSE {"remediation", "size"}))
StrongestVoice ==
    policyRun # NoRunYet =>
        LET v == Voices(policyRun.reason)
            strongest == IF v \ {"flag"} # {} THEN CHOOSE x \in v : x # "flag"
                         ELSE IF v # {} THEN "flag" ELSE ""
        IN  policyRun.value = IF policyLeg.choice.set THEN policyLeg.choice.value ELSE strongest
=============================================================================
