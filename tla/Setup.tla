-------------------------------- MODULE Setup --------------------------------
(***************************************************************************)
(* polako setup: a report of what a checkout has and lacks, and with       *)
(* -apply the gate label and one pull request with the files that are      *)
(* missing, written in a worktree of its own.  A call may die or fail at   *)
(* any git or gh call, and the next finds the worktree, branch, push or    *)
(* pull request that it left.  A tree is the set of the items it holds.    *)
(***************************************************************************)
EXTENDS Integers, Sequences

CONSTANTS
    SetupItems,   \* what -apply may propose, in its order
    SetupCalls,   \* bound: calls of the verb
    SetupMoves,   \* bound: what people do meanwhile
    SetupPRs      \* bound: pull requests from the setup branch

Items == {SetupItems[k] : k \in DOMAIN SetupItems}

ASSUME SetupAssumption ==
    /\ SetupCalls \in Nat /\ SetupMoves \in Nat /\ SetupPRs \in Nat
    /\ SetupItems \in Seq(Items) /\ "gate" \notin Items

VARIABLES
    setPc,     \* the step the call is at
    setCall,   \* of the call: the answers, what it read, wrote and has left to do
    setRows,   \* the report: a status per item, and the gate label's
    setHome,   \* the checkout: its files, the worktree, its index and its branch
    setHub,    \* GitHub: default branch, setup branch, pull requests, gate label
    setHist    \* history only: calls, moves; what was left uncommitted or taken away

setVars == <<setPc, setCall, setRows, setHome, setHub, setHist>>

NoCall == [want |-> {}, wrote |-> {}, base |-> {}, todo |-> {}, proposed |-> {}]
SetupInit ==
    /\ setPc = "rest" /\ setCall = NoCall
    /\ setRows = [i \in Items \cup {"gate"} |-> "unread"]
    /\ setHome = [dir |-> {}, worktree |-> FALSE, branch |-> FALSE, tree |-> {},
                  staged |-> {}, head |-> {}, ahead |-> FALSE]
    /\ setHub = [main |-> {}, branch |-> FALSE, head |-> {}, ahead |-> FALSE, prs |-> <<>>,
                 gate |-> "missing"]
    /\ setHist = [calls |-> 0, moves |-> 0, left |-> {}, gone |-> {}]

(* Where a call stops: on an error or a death, what the worktree holds and *)
(* no commit does is left behind.                                          *)
SetAt(pc) == setPc = pc
SetGoes(pc) == setPc' = pc
Stops ==
    /\ setPc' = "end"
    /\ setHist' = [setHist EXCEPT !.left = @ \cup (setHome.tree \ setHome.head)]
Stays == UNCHANGED setHist

(* readSetup: each item's row from the checkout, the label's from GitHub,  *)
(* which may not answer; without -apply that is all.                       *)
SetupReads ==
    /\ setPc \in {"rest", "end"} /\ setHist.calls < SetupCalls
    /\ setHist' = [setHist EXCEPT !.calls = @ + 1] /\ setCall' = NoCall
    /\ \E gate \in {setHub.gate, "unknown"} :
          setRows' = [i \in DOMAIN setRows |->
             IF i = "gate" THEN gate ELSE IF i \in setHome.dir THEN "ok" ELSE "missing"]
    /\ setPc' \in {"end", "labels"} /\ UNCHANGED <<setHome, setHub>>

(* applySetup: a missing gate label is created, one that is there without  *)
(* its mark gets it, when the answer is yes; a label somebody created      *)
(* meanwhile is what the step wanted.                                      *)
SetupLabels ==
    /\ SetAt("labels") /\ SetGoes("ask") /\ Stays /\ UNCHANGED <<setCall, setHome>>
    /\ \/ UNCHANGED <<setRows, setHub>>
       \/ /\ setRows.gate = "missing" /\ setRows' = [setRows EXCEPT !.gate = "ok"]
          /\ setHub' = [setHub EXCEPT !.gate = IF @ = "missing" THEN "marked" ELSE @]
       \/ /\ setRows.gate = "unmarked" /\ setRows' = [setRows EXCEPT !.gate = "ok"]
          /\ setHub' = [setHub EXCEPT !.gate = "marked"]

(* applySetupFiles: one question per missing item, then the restart rule:  *)
(* a pull request from the branch that has not merged is reported and left *)
(* alone, an open one first, a merged one before a closed one.             *)
SetupAsks ==
    /\ SetAt("ask") /\ Stays /\ UNCHANGED <<setRows, setHome, setHub>>
    /\ \E want \in SUBSET {i \in Items : setRows[i] = "missing"} :
          /\ setCall' = [setCall EXCEPT !.want = want]
          /\ SetGoes(IF want = {} THEN "end" ELSE "look")
HasPR(state) == \E n \in DOMAIN setHub.prs : setHub.prs[n].state = state
SetupPR ==
    IF HasPR("OPEN") THEN "OPEN"
    ELSE IF HasPR("MERGED") THEN "MERGED" ELSE IF HasPR("CLOSED") THEN "CLOSED" ELSE "none"
SetupLooks ==
    /\ SetAt("look") /\ UNCHANGED <<setCall, setHome, setHub>>
    /\ \/ Stops /\ UNCHANGED setRows
       \/ /\ SetupPR \in {"OPEN", "CLOSED"} /\ SetGoes("end") /\ Stays
          /\ setRows' = [i \in DOMAIN setRows |->
                           IF i \in setCall.want THEN "waiting" ELSE setRows[i]]
       \/ SetupPR \in {"none", "MERGED"} /\ SetGoes("fetch") /\ Stays /\ UNCHANGED setRows

(* proposeSetupFiles, up to the worktree: fetch, and the worktree that is  *)
(* there, or one on the local branch, the pushed one, or a new one.        *)
SetupFetches ==
    /\ SetAt("fetch") /\ UNCHANGED <<setRows, setHome, setHub>>
    /\ \/ Stops /\ UNCHANGED setCall
       \/ SetGoes("tree") /\ Stays /\ setCall' = [setCall EXCEPT !.base = setHub.main]
SetupWorktree ==
    CASE setHome.worktree -> setHome
      [] ~setHome.worktree /\ setHome.branch ->
            [setHome EXCEPT !.worktree = TRUE, !.tree = setHome.head, !.staged = {}]
      [] ~setHome.worktree /\ ~setHome.branch /\ setHub.branch ->
            [setHome EXCEPT !.worktree = TRUE, !.branch = TRUE, !.tree = setHub.head,
                            !.staged = {}, !.head = setHub.head, !.ahead = setHub.ahead]
      [] OTHER ->
            [setHome EXCEPT !.worktree = TRUE, !.branch = TRUE, !.tree = setCall.base,
                            !.staged = {}, !.head = setCall.base, !.ahead = FALSE]
SetupOpensTree ==
    /\ SetAt("tree") /\ UNCHANGED <<setRows, setHub>>
    /\ \/ Stops /\ UNCHANGED <<setCall, setHome>>
       \/ /\ SetGoes("write") /\ Stays /\ setHome' = SetupWorktree
          /\ setCall' = [setCall EXCEPT
                !.todo = {k \in DOMAIN SetupItems : SetupItems[k] \in setCall.want}]

(* Each wanted item the worktree lacks is written, then staged, in their   *)
(* order; what was staged is committed, if this call wrote anything.       *)
NextToDo == CHOOSE k \in setCall.todo : \A l \in setCall.todo : k <= l
NextItem == SetupItems[NextToDo]
SetupWrites ==
    /\ SetAt("write") /\ setCall.todo # {} /\ Stays /\ UNCHANGED <<setRows, setHub>>
    /\ IF NextItem \in setHome.tree
       THEN setCall' = [setCall EXCEPT !.todo = @ \ {NextToDo}] /\ UNCHANGED <<setHome, setPc>>
       ELSE /\ setHome' = [setHome EXCEPT !.tree = @ \cup {NextItem}]
            /\ UNCHANGED setCall /\ SetGoes("stage")
SetupStages ==
    /\ SetAt("stage") /\ UNCHANGED <<setRows, setHub>>
    /\ \/ Stops /\ UNCHANGED <<setCall, setHome>>
       \/ /\ SetGoes("write") /\ Stays
          /\ setHome' = [setHome EXCEPT !.staged = @ \cup {NextItem}]
          /\ setCall' = [setCall EXCEPT !.todo = @ \ {NextToDo}, !.wrote = @ \cup {NextItem}]
SetupCommits ==
    /\ SetAt("write") /\ setCall.todo = {} /\ UNCHANGED <<setCall, setRows, setHub>>
    /\ \/ setCall.wrote = {} /\ SetGoes("count") /\ Stays /\ UNCHANGED setHome
       \/ setCall.wrote # {} /\ Stops /\ UNCHANGED setHome
       \/ /\ setCall.wrote # {} /\ SetGoes("count") /\ Stays
          /\ setHome' = [setHome EXCEPT !.head = @ \cup setHome.staged, !.staged = {},
                                        !.ahead = TRUE]

(* The branch is compared with the default branch whatever this call has   *)
(* written: what is ahead is pushed, never by force, and proposed; nothing *)
(* ahead is taken for everything being on the default branch.              *)
Differs == (setHome.head \ setCall.base) \cup (setCall.base \ setHome.head)
OnlyWhatItWrote == setCall.wrote = {}
NothingAhead == ~setHome.ahead
SetupCounts ==
    /\ SetAt("count") /\ UNCHANGED <<setHome, setHub>>
    /\ \/ Stops /\ UNCHANGED <<setCall, setRows>>
       \/ /\ NothingAhead /\ SetGoes("end") /\ Stays /\ UNCHANGED setCall
          /\ setRows' = [i \in DOMAIN setRows |->
                           IF i \in setCall.want THEN "already" ELSE setRows[i]]
       \/ /\ ~NothingAhead /\ SetGoes("push") /\ Stays /\ UNCHANGED setRows
          /\ setCall' = [setCall EXCEPT !.proposed = setCall.want \cap Differs]
SetupPushes ==
    /\ SetAt("push") /\ UNCHANGED <<setCall, setRows, setHome>>
    /\ \/ Stops /\ UNCHANGED setHub
       \/ /\ ~setHub.branch \/ setHub.head \subseteq setHome.head
          /\ setHub' = [setHub EXCEPT !.branch = TRUE, !.head = setHome.head, !.ahead = TRUE]
          /\ SetGoes("create") /\ Stays
SetupCreates ==
    /\ SetAt("create") /\ UNCHANGED <<setCall, setHome>>
    /\ \/ Stops /\ UNCHANGED <<setRows, setHub>>
       \/ /\ Len(setHub.prs) < SetupPRs /\ SetGoes("end") /\ Stays
          /\ setHub' = [setHub EXCEPT
                !.prs = Append(@, [state |-> "OPEN", names |-> setCall.proposed])]
          /\ setRows' = [i \in DOMAIN setRows |->
                           CASE i \in setCall.proposed -> "proposed"
                             [] i \in setCall.want \ setCall.proposed -> "already"
                             [] OTHER -> setRows[i]]
SetupDies ==
    /\ setPc \notin {"rest", "end"} /\ Stops /\ UNCHANGED <<setCall, setRows, setHome, setHub>>

(* People: the pull request merged, by a merge or squashed, or closed; the *)
(* checkout pulled, the worktree removed, with its branch or without; an   *)
(* item taken off the default branch; the gate label created by hand.      *)
Moves(gone) ==
    /\ setHist.moves < SetupMoves
    /\ setHist' = [setHist EXCEPT !.moves = @ + 1, !.gone = @ \cup gone]
    /\ UNCHANGED <<setPc, setCall, setRows>>
PersonMergesSetup ==
    /\ Moves({}) /\ \E n \in DOMAIN setHub.prs, squash \in BOOLEAN, kept \in BOOLEAN :
          /\ setHub.prs[n].state = "OPEN"
          /\ setHub' = [setHub EXCEPT !.prs[n].state = "MERGED", !.main = @ \cup setHub.head,
                                      !.ahead = squash, !.branch = kept]
          /\ setHome' = [setHome EXCEPT !.ahead = @ /\ (squash \/ setHome.head # setHub.head)]
PersonClosesSetup ==
    /\ Moves({}) /\ UNCHANGED setHome /\ \E n \in DOMAIN setHub.prs :
          setHub.prs[n].state = "OPEN" /\ setHub' = [setHub EXCEPT !.prs[n].state = "CLOSED"]
PersonPulls ==
    /\ Moves({}) /\ setHome.dir # setHub.main /\ UNCHANGED setHub
    /\ setHome' = [setHome EXCEPT !.dir = setHub.main]
PersonRemovesTree ==
    /\ Moves({}) /\ setHome.worktree /\ setPc \in {"rest", "end"} /\ UNCHANGED setHub
    /\ LET bare == [setHome EXCEPT !.worktree = FALSE, !.tree = {}, !.staged = {}]
       IN  setHome' \in {bare, [bare EXCEPT !.branch = FALSE, !.head = {}, !.ahead = FALSE]}
PersonDropsItem ==
    \E i \in setHub.main :
       Moves({i}) /\ setHub' = [setHub EXCEPT !.main = @ \ {i}] /\ UNCHANGED setHome
PersonMakesGate ==
    /\ Moves({}) /\ setHub.gate = "missing" /\ UNCHANGED setHome
    /\ setHub' = [setHub EXCEPT !.gate = "unmarked"]

SetupNext ==
    \/ SetupReads \/ SetupLabels \/ SetupAsks \/ SetupLooks \/ SetupFetches \/ SetupOpensTree
    \/ SetupWrites \/ SetupStages \/ SetupCommits \/ SetupCounts \/ SetupPushes \/ SetupCreates
    \/ SetupDies \/ PersonMergesSetup \/ PersonClosesSetup \/ PersonPulls \/ PersonRemovesTree
    \/ PersonDropsItem \/ PersonMakesGate

SetupTypeOK ==
    /\ setHome.staged \subseteq setHome.tree /\ setHome.tree \subseteq Items
    /\ setCall.proposed \subseteq setCall.want /\ setCall.want \subseteq Items
    /\ \A i \in DOMAIN setRows :
          setRows[i] \in {"unread", "ok", "missing", "unmarked", "marked", "unknown", "waiting",
                          "already", "proposed"}
    /\ setPc \in {"rest", "labels", "ask", "look", "fetch", "tree", "write", "stage", "count",
                  "push", "create", "end"}

(* A rerun strands nothing an earlier call committed: a row that says an   *)
(* item is proposed has it on the pushed branch, under a pull request that *)
(* names it, and one that says it landed already is right about the        *)
(* default branch, where no call stopped between writing the item and      *)
(* committing it and nobody took it away (setup_files.go:282).             *)
NothingStranded ==
    setPc = "end" => \A i \in Items :
       /\ setRows[i] = "proposed" =>
             /\ i \in setHub.head \cup setHist.left
             /\ \E n \in DOMAIN setHub.prs : i \in setHub.prs[n].names
       /\ setRows[i] = "already" => i \in setCall.base \cup setHist.left \cup setHist.gone

(* What the row and the last line say: an item that needed no proposal is  *)
(* on the default branch (setup_files.go:200).                             *)
AlreadyIsOnDefault ==
    setPc = "end" => \A i \in Items : setRows[i] = "already" => i \in setCall.base
=============================================================================
