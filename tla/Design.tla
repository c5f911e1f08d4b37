------------------------------- MODULE Design -------------------------------
(***************************************************************************)
(* polako design: one design request, named by -issue or filed from        *)
(* -brief, worked into a plan document by the loop that works an issue,    *)
(* beside a shift of polako work that reads the same backlog.  A label     *)
(* keeps the two apart, and no lock does.                                  *)
(***************************************************************************)
EXTENDS Integers, FiniteSets

CONSTANTS
    Requests,       \* issue numbers, those that nobody has filed yet included
    DesignFiled,    \* those that are open issues at the start
    DesignCalls,    \* bound: calls of the verb
    DesignMoves     \* bound: what people do meanwhile

ASSUME DesignAssumption ==
    DesignCalls \in Nat /\ DesignMoves \in Nat /\ Requests \subseteq Nat \ {0}

VARIABLES
    desPc,     \* the step the call is at
    desCall,   \* of the call: its issue, 0 for a brief not filed; -wait; -dry-run; retry
    desHub,    \* of each number: the issue, its labels, the pull request on its branch
    desRepo,   \* is the design label declared in the repository
    desShift,  \* the issue the shift has picked up, 0 for none
    desHist    \* history only: calls, moves, code opened too late to be seen, hand edits

desVars == <<desPc, desCall, desHub, desRepo, desShift, desHist>>

Unfiled == [state |-> "none", labels |-> {}, container |-> FALSE, brief |-> FALSE,
            pr |-> "none", merged |-> FALSE]
DesignInit ==
    /\ desPc = "rest" /\ desShift = 0 /\ desRepo = FALSE
    /\ desCall = [issue |-> 0, wait |-> FALSE, dry |-> FALSE, again |-> FALSE]
    /\ desHub = [n \in Requests |-> IF n \in DesignFiled THEN [Unfiled EXCEPT !.state = "OPEN"]
                                                          ELSE Unfiled]
    /\ desHist = [calls |-> 0, moves |-> 0, late |-> {}, hands |-> {}]

DesAt(pc) == desPc = pc
DesGoes(pc) == desPc' = pc
DesThread == desHub[desCall.issue]
DesEnds == DesGoes("end") /\ UNCHANGED <<desCall, desHub, desRepo, desShift, desHist>>

(* runDesign: one of -issue and -brief.  A dry run of a brief ends here.   *)
DesignCalled ==
    /\ desPc \in {"rest", "end"} /\ desHist.calls < DesignCalls
    /\ desHist' = [desHist EXCEPT !.calls = @ + 1] /\ UNCHANGED <<desHub, desRepo, desShift>>
    /\ \E n \in {0} \cup {i \in Requests : desHub[i].state # "none"}, wait, dry \in BOOLEAN :
          /\ desCall' = [issue |-> n, wait |-> wait, dry |-> dry, again |-> FALSE]
          /\ DesGoes(IF n # 0 THEN "check" ELSE IF dry THEN "end" ELSE "file")

(* fileDesignIssue: the issue is created with its label or not at all; a   *)
(* repository without the label refuses.  On an error the label is         *)
(* declared and the create tried again, though the answer alone may have   *)
(* been lost and the first issue be there.                                 *)
BriefLabels == {"design"}
Creates(n) ==
    desHub' = [desHub EXCEPT ![n] = [@ EXCEPT !.state = "OPEN", !.labels = BriefLabels,
                                              !.brief = TRUE]]
DesignFiles ==
    /\ DesAt("file") /\ UNCHANGED <<desRepo, desShift, desHist>>
    /\ \E n \in {i \in Requests : desHub[i].state = "none"} :
          /\ BriefLabels = {} \/ desRepo
          /\ \A m \in Requests : m < n => desHub[m].state # "none"
          /\ Creates(n)
          /\ \/ DesGoes("check") /\ desCall' = [desCall EXCEPT !.issue = n]
             \/ DesGoes(IF desCall.again THEN "end" ELSE "declare") /\ UNCHANGED desCall
DesignNotFiled ==
    /\ DesAt("file") /\ UNCHANGED <<desCall, desHub, desRepo, desShift, desHist>>
    /\ DesGoes(IF desCall.again THEN "end" ELSE "declare")
DesignDeclares ==
    /\ DesAt("declare") /\ UNCHANGED <<desHub, desShift, desHist>>
    /\ \/ /\ DesGoes("file") /\ desRepo' = TRUE /\ desCall' = [desCall EXCEPT !.again = TRUE]
       \/ DesGoes("end") /\ UNCHANGED <<desRepo, desCall>>

(* checkDesignIssue, one read: a closed issue, a container, a parked or a  *)
(* proposed one is refused.  Without the design label, a pull request on   *)
(* the branch is taken for implementation work and refused.                *)
Refused(t) ==
    t.state # "OPEN" \/ t.container \/ t.labels \cap {"needs-human", "proposed"} # {}
DesignChecks ==
    /\ DesAt("check") /\ UNCHANGED <<desCall, desHub, desRepo, desShift, desHist>>
    /\ DesGoes(IF Refused(DesThread) THEN "end"
               ELSE IF "design" \in DesThread.labels THEN "labels" ELSE "look")
TakesAnyPR == FALSE
RefusesCode == DesThread.pr # "none"
DesignLooks ==
    /\ DesAt("look") /\ UNCHANGED <<desCall, desHub, desRepo, desShift, desHist>>
    /\ DesGoes(IF RefusesCode THEN "end" ELSE "labels")

(* The labels a run can write are declared, and the design label put on an *)
(* issue without it; neither failing stops the run, and a dry run does     *)
(* neither and prints what it would run.                                   *)
DesignLabels ==
    /\ DesAt("labels") /\ UNCHANGED <<desCall, desShift, desHist>>
    /\ \/ desCall.dry /\ DesGoes("end") /\ UNCHANGED <<desHub, desRepo>>
       \/ /\ ~desCall.dry /\ DesGoes("pickup")
          /\ \/ /\ desRepo' = TRUE
                /\ desHub' = [desHub EXCEPT ![desCall.issue].labels = @ \cup {"design"}]
             \/ desRepo' \in {desRepo, TRUE} /\ UNCHANGED desHub

(* processIssue, once: the pull request on the branch is supervised, or a  *)
(* run opens one, asks, or fails; designRun's four exits.                  *)
DesignPicksUp ==
    /\ DesAt("pickup") /\ UNCHANGED <<desCall, desHub, desRepo, desShift, desHist>>
    /\ DesGoes(IF DesThread.pr # "none" THEN "supervise" ELSE "run")
Thread(t) == desHub' = [desHub EXCEPT ![desCall.issue] = t]
DesignRunEnds ==
    /\ DesAt("run") /\ UNCHANGED <<desCall, desRepo, desShift, desHist>>
    /\ \/ DesThread.pr = "none" /\ Thread([DesThread EXCEPT !.pr = "plan"]) /\ DesGoes("supervise")
       \/ DesThread.pr # "none" /\ UNCHANGED desHub /\ DesGoes("supervise")
       \/ /\ Thread([DesThread EXCEPT !.labels = @ \cup {"awaiting-answer"}])
          /\ DesGoes(IF desCall.wait THEN "answer" ELSE "end")
       \/ Thread([DesThread EXCEPT !.labels = @ \cup {"needs-human"}]) /\ DesGoes("end")
       \/ Thread([DesThread EXCEPT !.state = "CLOSED"]) /\ DesGoes("end")

(* A person's reply ends the wait of -wait, and nothing else does: the     *)
(* label is still up, and it is the next run that takes it off.            *)
DesignAnswered ==
    /\ DesAt("answer")
    /\ DesGoes("pickup") /\ UNCHANGED <<desCall, desHub, desRepo, desShift, desHist>>
DesignRunClears ==
    /\ DesAt("run") /\ "awaiting-answer" \in DesThread.labels /\ DesGoes("run")
    /\ Thread([DesThread EXCEPT !.labels = @ \ {"awaiting-answer"}])
    /\ UNCHANGED <<desCall, desRepo, desShift, desHist>>
DesignHandsOff ==
    /\ DesAt("supervise") /\ DesThread.merged /\ DesEnds
DesignParks ==
    /\ DesAt("supervise") /\ ~DesThread.merged /\ DesGoes("end")
    /\ Thread([DesThread EXCEPT !.labels = @ \cup {"needs-human"}])
    /\ UNCHANGED <<desCall, desRepo, desShift, desHist>>
DesignStops ==
    desPc \notin {"rest", "end"} /\ DesEnds

(* The shift of polako work: an issue its listing calls ready, then code   *)
(* on the issue's branch, unless something is open there already.          *)
Ready(t) ==
    /\ t.state = "OPEN" /\ ~t.container
    /\ t.labels \cap {"needs-human", "proposed", "design", "awaiting-answer"} = {}
Beyond(n) == desCall.issue = n /\ desPc \notin {"rest", "end", "check", "look"}
DrainPicks ==
    /\ desShift = 0 /\ UNCHANGED <<desPc, desCall, desHub, desRepo, desHist>>
    /\ \E n \in Requests : Ready(desHub[n]) /\ desShift' = n
ShiftOpens ==
    /\ desShift # 0 /\ desHub[desShift].pr = "none" /\ UNCHANGED <<desPc, desCall, desRepo>>
    /\ desHub' = [desHub EXCEPT ![desShift].pr = "code"] /\ desShift' = 0
    /\ desHist' = [desHist EXCEPT !.late =
                     IF Beyond(desShift) \/ "design" \in desHub[desShift].labels
                     THEN @ \cup {desShift} ELSE @]
ShiftLeaves ==
    /\ desShift # 0 /\ desShift' = 0 /\ UNCHANGED <<desPc, desCall, desHub, desRepo, desHist>>

(* People: the design label put on or taken off, another label put on or   *)
(* taken off, a sub-issue added, a pull request merged with its issue.     *)
Touches(n, t) ==
    /\ desHist.moves < DesignMoves /\ desHub[n].state # "none" /\ t # desHub[n]
    /\ desHub' = [desHub EXCEPT ![n] = t] /\ UNCHANGED <<desPc, desCall, desRepo, desShift>>
Toggled(n, l) == (desHub[n].labels \ {l}) \cup ({l} \ desHub[n].labels)
PersonRelabels ==
    \E n \in Requests, l \in {"design", "needs-human", "awaiting-answer", "proposed"} :
       /\ Touches(n, [desHub[n] EXCEPT !.labels = Toggled(n, l)])
       /\ desHist' = [desHist EXCEPT !.moves = @ + 1,
                                     !.hands = IF l = "design" THEN @ \cup {n} ELSE @]
PersonMerges ==
    \E n \in Requests, merged \in BOOLEAN :
       /\ merged => (desHub[n].pr # "none" /\ ~desHub[n].merged)
       /\ Touches(n, [desHub[n] EXCEPT !.merged = @ \/ merged, !.container = @ \/ ~merged,
                                       !.state = IF merged THEN "CLOSED" ELSE @])
       /\ desHist' = [desHist EXCEPT !.moves = @ + 1]

DesignNext ==
    \/ DesignCalled \/ DesignFiles \/ DesignNotFiled \/ DesignDeclares \/ DesignChecks
    \/ DesignLooks \/ DesignLabels \/ DesignPicksUp \/ DesignRunEnds \/ DesignAnswered
    \/ DesignRunClears \/ DesignHandsOff \/ DesignParks \/ DesignStops \/ DrainPicks
    \/ ShiftOpens \/ ShiftLeaves \/ PersonRelabels \/ PersonMerges

DesignTypeOK ==
    /\ desPc \in {"rest", "file", "declare", "check", "look", "labels", "pickup", "run", "answer",
                  "supervise", "end"}
    /\ desCall.issue \in Requests \cup {0} /\ desShift \in Requests \cup {0}
    /\ \A n \in Requests : desHub[n].labels \subseteq
          {"design", "needs-human", "proposed", "awaiting-answer"}
    /\ desHist.late \subseteq Requests /\ desHist.hands \subseteq Requests

(* A design and an implementation are not mistaken for each other: what    *)
(* -brief files is never worked into code, and a design run supervises     *)
(* code only where the shift opened it after the run had looked, or where  *)
(* a person moved the label (design.go:211).                               *)
CodeIsNotDesign ==
    /\ \A n \in Requests : desHub[n].brief /\ desHub[n].pr = "code" => n \in desHist.hands
    /\ desPc = "supervise" /\ DesThread.pr = "code" =>
          desCall.issue \in desHist.late \cup desHist.hands

(* "Every design run labels its issue before it starts, so a labelled      *)
(* issue's PR is safe to take over" (design.go:221): what a design run     *)
(* takes over on a labelled issue is code only if a person moved the label.*)
LabelledIsSafe ==
    desPc = "supervise" /\ "design" \in DesThread.labels /\ DesThread.pr = "code" =>
        desCall.issue \in desHist.hands
=============================================================================
