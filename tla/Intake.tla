------------------------------- MODULE Intake --------------------------------
(***************************************************************************)
(* polako plan and polako health: a skill files proposals unattended, and  *)
(* the label pass that follows every run forces each of them to carry      *)
(* exactly the proposed label, the one thing that keeps a drain off them   *)
(* until a person lifts it.  Issues are numbered in the order they are     *)
(* filed.  People file, label, close and reopen issues all the while, from  *)
(* this account and from others, and each gh call may fail.                *)
(***************************************************************************)
EXTENDS Integers, FiniteSets

CONSTANTS
    StandingIssues, \* how many issues were there before the call
    MaxFiled,       \* bound: issues filed while it runs, -max-issues for the run's own
    StrayLabels,    \* what a create may have put on an issue besides
    IntakeMoves     \* bound: what people do meanwhile

ASSUME IntakeAssumption ==
    /\ StandingIssues \in Nat /\ MaxFiled \in Nat /\ IntakeMoves \in Nat
    /\ "proposed" \notin StrayLabels

VARIABLES
    intakePc,     \* where the call stands
    intakeOpt,    \* the verb, -dry-run, and who names the milestone
    backlog,      \* the issues by number: author, labels, milestone, open
    before,       \* openIssuesBefore, with the highest number in it
    intakeTodo,   \* the rows the pass has still to go through, as listed
    intakeRow,    \* the row in hand, as listed, with what is left to do to it
    intakePass,   \* labelPassOutcome, and the milestone the pass attaches
    intakeEnd,    \* how the run ended, what the call returned, the traces it left
    intakeHist    \* history only: what people touched and how often, what stood and was
                  \* open when the snapshot was taken, and what was reopened since

intakeVars == <<intakePc, intakeOpt, backlog, before, intakeTodo, intakeRow, intakePass,
                intakeEnd, intakeHist>>

NoRow == 0
NoRows == << >>
Open == {n \in DOMAIN backlog : backlog[n].open}
NoPass == [created |-> {}, labelled |-> {}, failures |-> 0, unlisted |-> FALSE, title |-> FALSE]
NoTraces == [run |-> "none", exit |-> "none", recorded |-> 0, notified |-> 0]
Standing == [author |-> "me", labels |-> {}, milestone |-> FALSE, open |-> TRUE]

IntakeInit ==
    /\ intakePc = "rest" /\ intakeOpt = [verb |-> "none"]
    /\ backlog = [n \in 1..StandingIssues |-> Standing]
    /\ before = [seen |-> {}, max |-> 0] /\ intakeTodo = NoRows
    /\ intakeRow = [n |-> NoRow] /\ intakePass = NoPass /\ intakeEnd = NoTraces
    /\ intakeHist = [touched |-> {}, moves |-> 0, stood |-> {}, open |-> {}, reopened |-> {}]

(* runPlan and runHealth: which of the two, for real or not, and whether   *)
(* the milestone is off, the document's, or for the run to name.           *)
IntakeCalled ==
    /\ intakePc = "rest" /\ intakePc' = "preflight"
    /\ intakeOpt' \in [verb : {"plan"}, dry : BOOLEAN, milestone : {"off", "given", "run"}]
                 \cup [verb : {"health"}, dry : BOOLEAN, milestone : {"off"}]
    /\ UNCHANGED <<backlog, before, intakeTodo, intakeRow, intakePass, intakeEnd, intakeHist>>

IntakeAt(pc) == intakePc = pc /\ UNCHANGED intakeOpt
IntakeStays == UNCHANGED <<backlog, before, intakeTodo, intakeRow, intakeHist>>
Returns(code) == intakePc' = "end" /\ intakeEnd' = [intakeEnd EXCEPT !.exit = code]

(* intakePreflight and planPreflight: a check that fails ends the call, as *)
(* does a milestone the operator or the document named and nobody could    *)
(* create; a dry run prints the invocation and ends too.                   *)
IntakePreflight ==
    /\ IntakeAt("preflight") /\ IntakeStays
    /\ \/ Returns("refused") /\ UNCHANGED intakePass
       \/ intakeOpt.dry /\ Returns("ok") /\ UNCHANGED intakePass
       \/ /\ ~intakeOpt.dry /\ intakePc' = "snapshot" /\ UNCHANGED intakeEnd
          /\ intakePass' = [intakePass EXCEPT !.title = intakeOpt.milestone = "given"]

(* openIssuesBefore, of which a page holds the newest: the oldest may be   *)
(* missing, and so is all that is closed.  A listing that fails ends the   *)
(* call before anything ran.                                               *)
Highest(s) == IF s = {} THEN 0 ELSE CHOOSE n \in s : \A m \in s : m <= n
Pages == {Open} \cup {Open \ {n} : n \in {k \in Open : k < Highest(Open)}}
IntakeSnapshots ==
    /\ IntakeAt("snapshot")
    /\ UNCHANGED <<backlog, intakeTodo, intakeRow, intakePass>>
    /\ \/ Returns("refused") /\ UNCHANGED <<before, intakeHist>>
       \/ /\ \E page \in Pages :
                before' = [seen |-> page, max |-> Highest(page)]
          /\ intakePc' = "run" /\ UNCHANGED intakeEnd
          /\ intakeHist' = [intakeHist EXCEPT !.stood = DOMAIN backlog, !.open = Open,
                                              !.reopened = {}]

(* The run files an issue, with or without the label it was told to put on *)
(* it and with others, as far as the cap; then it ends, by itself or not.  *)
NextIssue == Cardinality(DOMAIN backlog) + 1
Filed(author, labels) ==
    backlog' = [n \in 1..NextIssue |-> IF n = NextIssue
        THEN [author |-> author, labels |-> labels, milestone |-> FALSE, open |-> TRUE]
        ELSE backlog[n]]
RoomToFile == NextIssue <= StandingIssues + MaxFiled
RunFilesIssue ==
    /\ IntakeAt("run") /\ RoomToFile /\ intakePc' = "run"
    /\ \E l \in SUBSET (StrayLabels \cup {"proposed"}) : Filed("run", l)
    /\ UNCHANGED <<before, intakeTodo, intakeRow, intakePass, intakeEnd, intakeHist>>
IntakeRunEnds ==
    /\ IntakeAt("run") /\ intakePc' = "name" /\ IntakeStays /\ UNCHANGED intakePass
    /\ \E e \in {"clean", "capped", "crashed", "interrupted"} :
          intakeEnd' = [intakeEnd EXCEPT !.run = e]

(* A brief's milestone gets the title the run gave it, when it can be      *)
(* created; the issues stay labelled without it.                           *)
NamesMilestone ==
    /\ IntakeAt("name") /\ intakePc' = "pass" /\ IntakeStays /\ UNCHANGED intakeEnd
    /\ \/ UNCHANGED intakePass
       \/ intakeOpt.milestone = "run" /\ intakePass' = [intakePass EXCEPT !.title = TRUE]

(* normaliseProposals lists what this account has open: the rows that were *)
(* not there before and are numbered above all that was.  It goes by that  *)
(* one listing from here on.  It runs however the run ended, under a       *)
(* context of its own.                                                     *)
Ours(n) == backlog[n].author \in {"run", "me"}
IsNew(n) == n \notin before.seen /\ n > before.max
PassLists ==
    /\ IntakeAt("pass") /\ UNCHANGED <<backlog, before, intakeEnd, intakeHist, intakeRow>>
    /\ \/ /\ intakePass' = [intakePass EXCEPT !.unlisted = TRUE]
          /\ intakeTodo' = NoRows /\ intakePc' = "traces"
       \/ /\ intakeTodo' = [n \in {m \in Open : Ours(m) /\ IsNew(m)} |-> backlog[n]]
          /\ intakePass' = [intakePass EXCEPT !.created = DOMAIN intakeTodo']
          /\ intakePc' = "row"

(* One row: the stray labels it was listed with come off, the label goes   *)
(* on if it was not listed with it, and it gets the milestone.             *)
PassTakes ==
    /\ IntakeAt("row") /\ intakeRow.n = NoRow
    /\ UNCHANGED <<backlog, before, intakePass, intakeEnd, intakeHist>>
    /\ IF DOMAIN intakeTodo = {}
       THEN intakePc' = "traces" /\ UNCHANGED <<intakeTodo, intakeRow>>
       ELSE \E n \in DOMAIN intakeTodo :
               /\ intakeTodo' = [m \in DOMAIN intakeTodo \ {n} |-> intakeTodo[m]]
               /\ intakePc' = "row"
               /\ intakeRow' = [n |-> n, clean |-> TRUE,
                    strip |-> intakeTodo[n].labels \ {"proposed"},
                    add |-> "proposed" \notin intakeTodo[n].labels,
                    attach |-> intakePass.title /\ ~intakeTodo[n].milestone]
RowStep ==
    /\ IntakeAt("row") /\ intakeRow.n # NoRow /\ intakePc' = "row"
    /\ UNCHANGED <<before, intakeTodo, intakeEnd, intakeHist>>
Edited(b) == backlog' = [backlog EXCEPT ![intakeRow.n] = b] /\ UNCHANGED intakePass
EditFailsUncounted(row) == UNCHANGED <<backlog, intakePass>> /\ intakeRow' = row
EditFails(row) ==
    /\ UNCHANGED backlog /\ intakeRow' = row
    /\ intakePass' = [intakePass EXCEPT !.failures = @ + 1]
Strips ==
    /\ RowStep
    /\ \E l \in intakeRow.strip :
          LET row == [intakeRow EXCEPT !.strip = @ \ {l}]
          IN  \/ EditFails([row EXCEPT !.clean = FALSE])
              \/ intakeRow' = row /\ Edited([backlog[intakeRow.n] EXCEPT !.labels = @ \ {l}])
AddsProposed ==
    /\ RowStep /\ intakeRow.strip = {} /\ intakeRow.add
    /\ LET row == [intakeRow EXCEPT !.add = FALSE]
       IN  \/ EditFails([row EXCEPT !.clean = FALSE])
           \/ /\ intakeRow' = row
              /\ Edited([backlog[intakeRow.n] EXCEPT !.labels = @ \cup {"proposed"}])
Attaches ==
    /\ RowStep /\ intakeRow.strip = {} /\ ~intakeRow.add /\ intakeRow.attach
    /\ LET row == [intakeRow EXCEPT !.attach = FALSE]
       IN  \/ EditFails(row)
           \/ intakeRow' = row /\ Edited([backlog[intakeRow.n] EXCEPT !.milestone = TRUE])
RowDone ==
    /\ RowStep /\ intakeRow.strip = {} /\ ~intakeRow.add /\ ~intakeRow.attach
    /\ intakePass' = [intakePass EXCEPT !.labelled =
          IF intakeRow.clean THEN @ \cup {intakeRow.n} ELSE @]
    /\ intakeRow' = [n |-> NoRow] /\ UNCHANGED backlog

(* One record whatever happened, one notification if there is something to *)
(* curate; then the exit, a failed pass before everything else.            *)
PassErr == intakePass.unlisted \/ intakePass.failures > 0
IntakeExit ==
    CASE PassErr -> "label pass"
      [] ~PassErr /\ intakeEnd.run = "interrupted" -> "interrupted"
      [] ~PassErr /\ intakeEnd.run = "crashed" -> "run failed"
      [] OTHER -> "ok"
IntakeLeaves ==
    /\ IntakeAt("traces") /\ IntakeStays /\ UNCHANGED intakePass /\ intakePc' = "end"
    /\ intakeEnd' = [intakeEnd EXCEPT !.exit = IntakeExit, !.recorded = @ + 1,
          !.notified = IF intakePass.created # {} THEN @ + 1 ELSE @]

(* People, from this account or another.                                   *)
IntakeMove(n, reopened) ==
    /\ intakePc \notin {"rest", "end"} /\ intakeHist.moves < IntakeMoves
    /\ intakeHist' = [intakeHist EXCEPT !.touched = @ \cup {n}, !.moves = @ + 1,
                                        !.reopened = @ \cup reopened]
    /\ UNCHANGED <<intakePc, intakeOpt, before, intakeTodo, intakeRow, intakePass, intakeEnd>>
PersonFiles ==
    /\ RoomToFile /\ IntakeMove(NextIssue, {}) /\ \E a \in {"me", "other"} : Filed(a, {})
PersonLabels ==
    \E n \in Open, l \in StrayLabels \cup {"proposed"} :
       /\ IntakeMove(n, {})
       /\ backlog' = [backlog EXCEPT ![n].labels = IF l \in @ THEN @ \ {l} ELSE @ \cup {l}]
PersonShuts ==
    \E n \in Open : IntakeMove(n, {}) /\ backlog' = [backlog EXCEPT ![n].open = FALSE]
PersonReopens ==
    \E n \in DOMAIN backlog \ Open :
       IntakeMove(n, {n}) /\ backlog' = [backlog EXCEPT ![n].open = TRUE]

IntakeNext ==
    \/ IntakeCalled \/ IntakePreflight \/ IntakeSnapshots \/ RunFilesIssue \/ IntakeRunEnds
    \/ NamesMilestone \/ PassLists \/ PassTakes \/ Strips \/ AddsProposed \/ Attaches
    \/ RowDone \/ IntakeLeaves \/ PersonFiles \/ PersonLabels \/ PersonShuts
    \/ PersonReopens

IntakeTypeOK ==
    /\ intakePc \in {"rest", "preflight", "snapshot", "run", "name", "pass", "row", "traces",
                     "end"}
    /\ \A n \in DOMAIN backlog : backlog[n].labels \subseteq StrayLabels \cup {"proposed"}
    /\ before.seen \subseteq DOMAIN backlog /\ DOMAIN intakeTodo \subseteq DOMAIN backlog
    /\ intakePass.labelled \subseteq intakePass.created
    /\ intakeHist.moves \in 0..IntakeMoves

(* The curation gate (labelpass.go:63, intake.go:226): unless the call     *)
(* ends saying that its label pass failed, every issue the run filed that  *)
(* nobody else touched carries the proposed label and no other; and a run  *)
(* that was dispatched leaves one record, whatever became of it.           *)
Guarded(n) == backlog[n].labels = {"proposed"}
UnguardedIsLoud ==
    intakePc = "end" =>
        /\ intakeEnd.exit \in {"ok", "interrupted", "run failed"} =>
              \A n \in Open \ intakeHist.touched : backlog[n].author = "run" => Guarded(n)
        /\ intakeEnd.recorded = (IF intakeEnd.run = "none" THEN 0 ELSE 1)
        /\ intakeEnd.notified <= intakeEnd.recorded

(* The same of every step, and: the pass leaves alone what other accounts  *)
(* file, whatever is numbered at or below an issue that was open before    *)
(* the run (labelpass.go:77, a page that was cut included), and whatever   *)
(* was closed then, unless somebody reopens it while the run is out.       *)
PassSparesTheRest ==
    [][/\ UnguardedIsLoud'
       /\ \A n \in DOMAIN backlog :
             backlog'[n] # backlog[n] /\ intakeHist' = intakeHist =>
                /\ Ours(n) /\ \A m \in intakeHist.open : m < n
                /\ n \in intakeHist.stood => n \in intakeHist.reopened]_intakeVars

(* "there before the run - not ours to touch" (labelpass.go:126), of every *)
(* issue the pass takes for the run's own.                                 *)
StandingIsNotTaken == intakePass.created \cap intakeHist.stood = {}

(* "an issue a person files by hand while the run is going is told apart   *)
(* from one the skill created" (labelpass.go:23).                          *)
HandFiledIsToldApart == \A n \in intakePass.created : backlog[n].author = "run"
=============================================================================
