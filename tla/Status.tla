------------------------------- MODULE Status --------------------------------
(***************************************************************************)
(* polako status: one snapshot of the backlog, put together from a dozen   *)
(* reads of GitHub and of the checkout while people and shifts go on       *)
(* working.  The listings have to answer; of every other read a failure    *)
(* costs only what it would have told.  The gate label is named by a flag, *)
(* by the environment, or found by the mark that setup left on it.         *)
(***************************************************************************)
EXTENDS Integers, FiniteSets

CONSTANTS
    StIssues,      \* the issues of the repository, by number
    StDocs,        \* design documents
    StCalls,       \* what a call may find: flags, label marks, issues, documents
    StatusPRs,     \* how many pull requests are looked at in detail
    PlanDocsLimit, \* how many stamped issues the search for them returns
    StatusMoves    \* bound: what happens on GitHub while status reads

StLabels == {"gate", "other", "proposed", "needs-human", "awaiting-answer", "design"}
StIssue ==
    [open : BOOLEAN, labels : SUBSET StLabels, kids : {"none", "some", "all"},
     behind : SUBSET StIssues, pr : {"none", "OPEN", "CLOSED", "MERGED"},
     view : {"fine", "human", "pending", "fix"}, park : {"hand", "entries", "category"},
     doc : StDocs \cup {""}]

ASSUME StatusAssumption ==
    /\ StIssues \subseteq Nat \ {0} /\ "" \notin StDocs /\ StatusPRs \in Nat
    /\ PlanDocsLimit \in Nat /\ StatusMoves \in Nat
    /\ \A c \in StCalls :
          /\ c.call.strict \in BOOLEAN /\ c.call.label \in {"none", "gate", "other"}
          /\ \A i \in StIssues : c.issues[i] \in StIssue

VARIABLES
    stPc,      \* the read the call is at
    stCall,    \* flags, the gate label's state and the checkout of this call
    stHub,     \* the issues on GitHub, each with its branch's pull request
    stScope,   \* the label the report is scoped to, where it came from, the notes
    stQueues,  \* the row of each issue in the listing, and as it was listed
    stOutside, \* the row of each issue in the listing outside the gate
    stParks,   \* the newest park comment of each parked issue, as far as read
    stPRs,     \* the open pull request of each issue, as far as read
    stDocs,    \* the derived state of each document, and whether cut short
    stHist     \* history only: the issues that moved since the call began

stVars == <<stPc, stCall, stHub, stScope, stQueues, stOutside, stParks, stPRs, stDocs, stHist>>

NotListed == [i \in StIssues |-> "absent"]
NoScope == [label |-> "none", source |-> "", notes |-> {}]
NoDocs == [state |-> [d \in StDocs |-> "absent"], cut |-> FALSE]
NoIssue == [open |-> FALSE, labels |-> {}, kids |-> "none", behind |-> {}, pr |-> "none",
            view |-> "fine", park |-> "hand", doc |-> ""]
StatusInit ==
    /\ stPc = "rest" /\ stCall = [strict |-> FALSE] /\ stHub = [i \in StIssues |-> NoIssue]
    /\ stScope = NoScope /\ stQueues = NotListed /\ stOutside = NotListed
    /\ stParks = [i \in StIssues |-> "unread"] /\ stPRs = NotListed /\ stDocs = NoDocs
    /\ stHist = [touched |-> {}, moves |-> 0]
StatusCalled ==
    /\ stPc = "rest" /\ stPc' = "scope"
    /\ \E c \in StCalls : stCall' = c.call /\ stHub' = [i \in StIssues |-> c.issues[i]]
    /\ UNCHANGED <<stScope, stQueues, stOutside, stParks, stPRs, stDocs, stHist>>

StAt(pc) == stPc = pc /\ UNCHANGED <<stCall, stHub, stHist>>
StFails == stPc' = "failed"

(* resolveStatusScope: a label that was named is checked to exist; none    *)
(* named, the one label with setup's mark is taken, and without one a      *)
(* public repository is told that a real run would refuse.  A lookup that  *)
(* is not answered leaves its note out.                                    *)
Undefined == IF stCall.label = "other" THEN {"undefined label"} ELSE {}
Unscoped == IF stCall.public THEN {"would refuse"} ELSE {}
StatusScopes ==
    /\ StAt("scope") /\ stPc' = "list"
    /\ \/ /\ stCall.label # "none" /\ \E notes \in {{}, Undefined} :
             stScope' = [label |-> stCall.label, source |-> stCall.from, notes |-> notes]
       \/ /\ stCall.label = "none" /\ stCall.marked = 1
          /\ stScope' = [label |-> "gate", source |-> "github", notes |-> {}]
       \/ /\ stCall.label = "none"
          /\ \E notes \in {{}, Unscoped}, read \in BOOLEAN :
                /\ stCall.marked = 1 => ~read
                /\ stScope' = [NoScope EXCEPT !.notes = notes \cup
                      (IF read /\ stCall.marked > 1 THEN {"ambiguous mark"} ELSE {})]
    /\ UNCHANGED <<stQueues, stOutside, stParks, stPRs, stDocs>>

(* sortIssueQueues, over the issues with the label or those without it.    *)
Within(i, label) == label = "none" \/ label \in stHub[i].labels
Blockers(i) == {b \in stHub[i].behind : stHub[b].open}
RowIn(i) ==
    LET is == stHub[i]
    IN  CASE is.kids # "none" -> "containers"
          [] is.kids = "none" /\ "needs-human" \in is.labels -> "parked"
          [] is.kids = "none" /\ {"needs-human", "proposed"} \cap is.labels = {"proposed"}
                -> "proposed"
          [] is.kids = "none" /\ {"needs-human", "proposed", "design"} \cap is.labels = {"design"}
                -> "design"
          [] is.kids = "none" /\ {"needs-human", "proposed", "design"} \cap is.labels = {}
             /\ "awaiting-answer" \in is.labels -> "blocked"
          [] OTHER -> IF Blockers(i) = {} THEN "ready" ELSE "heldBack"
QueueRow(i) ==
    CASE RowIn(i) = "containers" /\ stHub[i].kids = "some" -> "unfinished"
      [] RowIn(i) = "containers" /\ stHub[i].kids = "all" ->
            IF {"needs-human", "proposed"} \cap stHub[i].labels = {} THEN "finished epic"
            ELSE "held epic"
      [] RowIn(i) = "parked" /\ "design" \in stHub[i].labels -> "parked design"
      [] OTHER -> RowIn(i)
StatusLists ==
    /\ StAt("list")
    /\ \/ StFails /\ UNCHANGED stQueues
       \/ /\ stPc' = IF stScope.label = "none" THEN "parks" ELSE "outside"
          /\ stQueues' = [i \in StIssues |->
                IF stHub[i].open /\ Within(i, stScope.label) THEN QueueRow(i) ELSE "absent"]
    /\ UNCHANGED <<stScope, stOutside, stParks, stPRs, stDocs>>

(* statusQueues and outsideTheGate: a second listing, of which what is     *)
(* ready or held back is shown as outside the gate, proposals and design   *)
(* requests join their rows, and the rest is counted.                      *)
CountsProposals(i) == IF RowIn(i) \in {"ready", "heldBack"} THEN "outside" ELSE "counted"
OutsideRow(i) ==
    CASE RowIn(i) \in {"ready", "heldBack"} -> "outside"
      [] RowIn(i) = "proposed" -> "ungated"
      [] RowIn(i) = "design" -> "design"
      [] OTHER -> "counted"
StatusListsOutside ==
    /\ StAt("outside")
    /\ \/ StFails /\ UNCHANGED stOutside
       \/ /\ stPc' = "parks"
          /\ stOutside' = [i \in StIssues |->
                IF stHub[i].open /\ ~Within(i, stScope.label) THEN OutsideRow(i) ELSE "absent"]
    /\ UNCHANGED <<stScope, stQueues, stParks, stPRs, stDocs>>

InRow(row) == {i \in StIssues : stQueues[i] = row}
LowestIn(s) == IF s = {} THEN 0 ELSE CHOOSE i \in s : \A j \in s : i <= j
NextIn ==
    IF stCall.strict THEN LowestIn(InRow("ready") \cup InRow("blocked"))
    ELSE IF InRow("ready") # {} THEN LowestIn(InRow("ready")) ELSE LowestIn(InRow("blocked"))

(* readStatus: the park comment of each parked issue, if the account's own *)
(* login can be read; a thread that is not answered says nothing.          *)
StatusParks ==
    /\ StAt("parks") /\ stPc' = "prs"
    /\ \/ UNCHANGED stParks
       \/ \E read \in SUBSET (InRow("parked") \cup InRow("parked design")) :
             stParks' = [i \in StIssues |->
                IF i \in read THEN stHub[i].park
                ELSE IF i \in InRow("parked") \cup InRow("parked design") THEN "hand" ELSE "unread"]
    /\ UNCHANGED <<stScope, stQueues, stOutside, stPRs, stDocs>>

(* readStatusPRs and branchPRs: the open ones on branches named for issues *)
(* the listing found open, in the order of the issues; beyond the cap, and *)
(* where the view is not answered, a number alone.                         *)
Listed(i) == stQueues[i] # "absent" \/ stOutside[i] \in {"ungated", "design"}
StatusListsPRs ==
    /\ StAt("prs")
    /\ \/ StFails /\ UNCHANGED stPRs
       \/ /\ stPc' = "views"
          /\ stPRs' = [i \in StIssues |->
                IF Listed(i) /\ stHub[i].pr = "OPEN" THEN "to read" ELSE "absent"]
    /\ UNCHANGED <<stScope, stQueues, stOutside, stParks, stDocs>>
ToRead == {i \in StIssues : stPRs[i] = "to read"}
Detailed == {i \in StIssues : stPRs[i] \notin {"absent", "to read", "past the cap"}}
RoomForOneMore == Cardinality(Detailed) <= StatusPRs
RoomForDetail == Cardinality(Detailed) < StatusPRs
StatusViews ==
    /\ StAt("views") /\ UNCHANGED <<stScope, stQueues, stOutside, stParks, stDocs>>
    /\ IF ToRead = {} THEN stPc' = "docs" /\ UNCHANGED stPRs
       ELSE /\ UNCHANGED stPc
            /\ \E cell \in IF RoomForDetail THEN {stHub[LowestIn(ToRead)].view, "not read"}
                           ELSE {"past the cap"} :
                  stPRs' = [stPRs EXCEPT ![LowestIn(ToRead)] = cell]

(* readPlanDocs and planDocStatusFrom: the issues a search finds stamped   *)
(* with a document, which may be more than it returns, against the files   *)
(* of the checkout, if it has the directory.                               *)
Stamped == {i \in StIssues : stHub[i].doc # ""}
SearchReturns(s) == IF Cardinality(s) <= PlanDocsLimit THEN {s}
            ELSE {p \in SUBSET s : Cardinality(p) = PlanDocsLimit}
DocState(naming) ==
    CASE naming = {} -> "draft"
      [] naming # {} /\ {i \in naming : stHub[i].open} = {} -> "done"
      [] \E i \in naming : stHub[i].open /\ "proposed" \notin stHub[i].labels -> "active"
      [] OTHER -> "proposed"
StatusReadsDocs ==
    /\ StAt("docs") /\ stPc' = "printed"
    /\ \/ UNCHANGED stDocs
       \/ \E page \in SearchReturns(Stamped) :
             LET naming(d) == {i \in page : stHub[i].doc = d}
             IN  stDocs' = [cut |-> page # Stamped, state |-> [d \in StDocs |->
                   CASE ~stCall.checkout ->
                          IF naming(d) = {} THEN "absent" ELSE DocState(naming(d))
                     [] stCall.checkout /\ stCall.where[d] = "designs" -> DocState(naming(d))
                     [] stCall.checkout /\ stCall.where[d] = "done" -> "archived"
                     [] OTHER -> IF naming(d) = {} THEN "absent" ELSE "gone"]]
    /\ UNCHANGED <<stScope, stQueues, stOutside, stParks, stPRs>>

(* What the report says of an issue: the row it is in, what comes next,    *)
(* and what needs a person (needsYouParts, curateClauses, designClauses).  *)
RowsOf(i) == ({stQueues[i]} \cup {stOutside[i]}) \ {"absent"}
NextLine ==
    CASE NextIn = 0 -> "nothing"
      [] NextIn # 0 /\ stPRs[NextIn] # "absent" -> "waits on its pull request"
      [] NextIn # 0 /\ stPRs[NextIn] = "absent" /\ stQueues[NextIn] = "blocked"
            -> "looks for the reply"
      [] OTHER -> "runs"
ParkClause(i) ==
    CASE stQueues[i] = "parked design" /\ stParks[i] # "unread" -> "run design again"
      [] stQueues[i] = "parked" /\ stParks[i] = "entries" -> "grant"
      [] stQueues[i] = "parked" /\ stParks[i] = "category" -> "unpark"
      [] OTHER -> "decide"
NeedsYou(i) ==
    (IF stQueues[i] = "blocked" THEN {"reply"} ELSE {})
    \cup (IF stPRs[i] = "fine" THEN {"merge"} ELSE {})
    \cup (IF stPRs[i] = "human" THEN {"approve"} ELSE {})
    \cup (IF stQueues[i] \in {"parked", "parked design"} THEN {ParkClause(i)} ELSE {})
    \cup (IF stQueues[i] = "proposed" THEN {"curate"} ELSE {})
    \cup (IF stOutside[i] = "ungated" THEN {"curate and gate"} ELSE {})
    \cup (IF "design" \in RowsOf(i) THEN {"design"} ELSE {})
    \cup (IF stQueues[i] = "held epic" THEN {"close"} ELSE {})
MoveDoc(d) == stDocs.state[d] = "done" /\ (~stCall.checkout \/ stCall.where[d] = "designs")

(* GitHub meanwhile: an issue is labelled, closed, merged or answered.     *)
StMoves(i, is) ==
    /\ stPc \notin {"rest", "failed", "printed"} /\ stHist.moves < StatusMoves
    /\ stHub[i].open /\ is # stHub[i] /\ stHub' = [stHub EXCEPT ![i] = is]
    /\ stHist' = [moves |-> stHist.moves + 1,
                  touched |-> stHist.touched \cup {i} \cup {j \in StIssues : i \in stHub[j].behind}]
    /\ UNCHANGED <<stPc, stCall, stScope, stQueues, stOutside, stParks, stPRs, stDocs>>
IssueRelabelled ==
    \E i \in StIssues, l \in {"gate", "proposed", "needs-human", "awaiting-answer"} :
       StMoves(i, [stHub[i] EXCEPT !.labels = (@ \ {l}) \cup ({l} \ @)])
IssueCloses ==
    \E i \in StIssues : StMoves(i, [stHub[i] EXCEPT !.open = FALSE,
                                       !.pr = IF @ = "OPEN" THEN "MERGED" ELSE @])
PRMoves ==
    \E i \in StIssues, pr \in {"OPEN", "CLOSED"}, view \in {"fine", "fix"} :
       StMoves(i, [stHub[i] EXCEPT !.pr = pr, !.view = view])

StatusNext ==
    \/ StatusCalled \/ StatusScopes \/ StatusLists \/ StatusListsOutside \/ StatusParks
    \/ StatusListsPRs \/ StatusViews \/ StatusReadsDocs \/ IssueRelabelled \/ IssueCloses
    \/ PRMoves

StatusTypeOK ==
    /\ stPc \in {"rest", "scope", "list", "outside", "parks", "prs", "views", "docs", "printed",
                 "failed"}
    /\ stScope.label \in {"none", "gate", "other"}
    /\ \A i \in StIssues : stQueues[i] = "absent" => stParks[i] = "unread"
    /\ stPc = "printed" => ToRead = {} /\ Cardinality(Detailed) <= StatusPRs

(* Of an issue that did not move while status read, the report says one    *)
(* thing, it tells the operator to act exactly where no shift would, and   *)
(* what it says comes next is what the drain's own rule takes - whatever   *)
(* happened to the other issues between the listings (status.go:386, 849). *)
(* A finished epic is closed by the shift, with its open pull request,     *)
(* should it have one, left to a person.                                   *)
Holds == {"needs-human", "proposed", "design", "awaiting-answer"}
ShiftMoves(i) ==
    /\ Within(i, stScope.label)
    /\ \/ stHub[i].kids = "all" /\ {"needs-human", "proposed"} \cap stHub[i].labels = {}
       \/ /\ stHub[i].kids = "none" /\ Holds \cap stHub[i].labels = {} /\ Blockers(i) = {}
          /\ stHub[i].pr = "OPEN" => stHub[i].view \in {"fix", "pending"}
WaitsOnOthers(i) ==
    \/ /\ ~Within(i, stScope.label)
       /\ {"proposed", "design"} \cap stHub[i].labels = {}
    \/ ~Within(i, stScope.label) /\ stHub[i].kids # "none"
    \/ ~Within(i, stScope.label) /\ "needs-human" \in stHub[i].labels
    \/ stHub[i].kids = "some"
    \/ Holds \cap stHub[i].labels = {} /\ Blockers(i) # {}
LeftByAnEpic(i) == IF stHub[i].kids = "all" THEN {"merge", "approve"} ELSE {}
SaysWhatIs ==
    stPc = "printed" => \A i \in StIssues \ stHist.touched :
       /\ Cardinality(RowsOf(i)) = IF stHub[i].open THEN 1 ELSE 0
       /\ (NeedsYou(i) \ LeftByAnEpic(i) # {} => ~ShiftMoves(i))
       /\ (stHub[i].open /\ ~ShiftMoves(i) /\ ~WaitsOnOthers(i)
             /\ stPRs[i] \notin {"not read", "past the cap"}) => NeedsYou(i) # {}
       /\ (NextIn = i /\ stHub[i].pr = "none") => NextLine # "waits on its pull request"
       /\ (stHist.touched = {} /\ stHub[i].open /\ ShiftMoves(i) /\ stHub[i].kids = "none") =>
             NextIn # 0 /\ (stCall.strict => NextIn <= i)

(* A document is told to be moved when every issue stamped with it is      *)
(* closed, as long as the search returned them all (plans.go:300).         *)
DoneIsDone ==
    \A d \in StDocs : stPc = "printed" /\ MoveDoc(d) /\ ~stDocs.cut =>
       /\ \E i \in StIssues : stHub[i].doc = d
       /\ \A i \in StIssues \ stHist.touched : stHub[i].doc = d => ~stHub[i].open

(* A report that is printed holds, of the issues and of the documents.     *)
ReportStands == SaysWhatIs /\ DoneIsDone

(* "the states above may be derived from an incomplete set of issues, and  *)
(* the render says so rather than presenting them as certain"              *)
(* (plans.go:104): the line that tells the operator to act does not.       *)
ActsOnlyOnTheWholeSet == \A d \in StDocs : stPc = "printed" /\ MoveDoc(d) => ~stDocs.cut

(* "an existing PR means the skill is never re-run" (status.go:719).       *)
NextKnowsThePR ==
    (stPc = "printed" /\ NextIn # 0 /\ NextIn \notin stHist.touched) =>
       (stHub[NextIn].pr # "none" => NextLine # "runs")
=============================================================================
