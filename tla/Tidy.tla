-------------------------------- MODULE Tidy ---------------------------------
(***************************************************************************)
(* polako tidy, and the sweep a shift makes at its start and after every   *)
(* merge: the worktrees and local branches of finished issues are judged   *)
(* one after the other and removed, in git calls between which a person or *)
(* a run may still commit, edit and push.                                  *)
(*                                                                         *)
(* A branch is a line of commits; a commit is its position on it, and a    *)
(* ref the position it points at.  Whatever a ref other than the branch    *)
(* reaches is not lost with the branch.                                    *)
(***************************************************************************)
EXTENDS Integers

CONSTANTS
    TidyBranches,   \* the issue branches the checkout has
    TidyWorlds,     \* what a sweep may find: a record per branch
    TidyLateWork    \* bound: commits and edits made while the sweep runs

NoRef == -1
TidyTrees == {"none", "gone", "linked", "broken", "cwd"}
MergedPR == [head : Int, base : BOOLEAN]
TidyRecord ==
    [here : BOOLEAN, tip : Int, mirror : Int, head : Int, main : Int, origin : Int,
     default : BOOLEAN, tree : TidyTrees, dirty : BOOLEAN, held : BOOLEAN, closed : BOOLEAN,
     prs : SUBSET MergedPR]

ASSUME TidyAssumption ==
    /\ TidyBranches \subseteq Nat \ {0} /\ TidyLateWork \in Nat
    /\ \A w \in TidyWorlds, b \in TidyBranches : w[b] \in TidyRecord

VARIABLES
    tidyPc,      \* where the sweep stands
    tidyApply,   \* -apply; a shift's own sweep always has it
    tidyRepo,    \* each branch: its refs, its worktree and GitHub's view of it
    tidyTodo,    \* the branches for-each-ref listed and reclaim has not judged
    tidyCur,     \* the branch in hand, or NoBranch
    tidySeen,    \* what has been read of that branch
    tidyResult,  \* tidyResult per branch: not judged, reclaimed or why not
    tidyHist     \* history only: the work made late, and the work that is gone

tidyVars == <<tidyPc, tidyApply, tidyRepo, tidyTodo, tidyCur, tidySeen, tidyResult, tidyHist>>

NoBranch == 0
Unread == [merged |-> {}, commits |-> NoRef, path |-> FALSE, dirty |-> FALSE,
           shipped |-> FALSE]
TidySkips == {"unknown", "held", "open", "unreadable", "cwd", "uncounted", "unmerged",
              "dirty", "unpushed", "no-remove", "no-delete"}

TidyInit ==
    /\ tidyPc = "rest" /\ tidyApply = FALSE /\ tidyTodo = {} /\ tidyCur = NoBranch
    /\ tidyRepo = [b \in TidyBranches |-> [here |-> FALSE]]
    /\ tidySeen = Unread /\ tidyResult = [b \in TidyBranches |-> "none"]
    /\ tidyHist = [late |-> [b \in TidyBranches |-> {}], lost |-> [b \in TidyBranches |-> {}],
                   made |-> 0]

(* The verb is called, or a shift sweeps, in one of the worlds.            *)
TidyCalled ==
    /\ tidyPc = "rest"
    /\ \E w \in TidyWorlds, a \in BOOLEAN :
          tidyRepo' = [b \in TidyBranches |-> w[b]] /\ tidyApply' = a
    /\ tidyPc' = "sync"
    /\ UNCHANGED <<tidyTodo, tidyCur, tidySeen, tidyResult, tidyHist>>

(* reclaim syncs the default branch first; a fetch that fails leaves the   *)
(* mirror as it is, a checkout on another branch its HEAD, and the sweep   *)
(* goes on either way.                                                     *)
TidySyncs ==
    /\ tidyPc = "sync"
    /\ \E fetched, forwarded \in BOOLEAN :
          tidyRepo' = [b \in TidyBranches |->
              LET r == tidyRepo[b]
                  mirror == IF fetched THEN r.main ELSE r.mirror
              IN  [r EXCEPT !.mirror = mirror,
                            !.head = IF fetched /\ forwarded THEN mirror ELSE @]]
    /\ tidyPc' = IF tidyApply THEN "prune" ELSE "list"
    /\ UNCHANGED <<tidyApply, tidyTodo, tidyCur, tidySeen, tidyResult, tidyHist>>

(* git worktree prune forgets the worktrees whose directory is gone.       *)
TidyPrunes ==
    /\ tidyPc = "prune"
    /\ tidyRepo' = [b \in TidyBranches |->
          [tidyRepo[b] EXCEPT !.tree = IF @ = "gone" THEN "none" ELSE @]]
    /\ tidyPc' = "list"
    /\ UNCHANGED <<tidyApply, tidyTodo, tidyCur, tidySeen, tidyResult, tidyHist>>

TidyLists ==
    /\ tidyPc = "list"
    /\ \/ tidyTodo' = {b \in TidyBranches : tidyRepo[b].here} /\ tidyPc' = "next"
       \/ tidyTodo' = {} /\ tidyPc' = "end"
    /\ UNCHANGED <<tidyApply, tidyRepo, tidyCur, tidySeen, tidyResult, tidyHist>>

TidyTakes ==
    /\ tidyPc = "next"
    /\ IF tidyTodo = {}
       THEN tidyPc' = "end" /\ UNCHANGED <<tidyTodo, tidyCur>>
       ELSE \E b \in tidyTodo :
               /\ \A o \in tidyTodo : b <= o
               /\ tidyCur' = b /\ tidyTodo' = tidyTodo \ {b} /\ tidyPc' = "finished"
    /\ tidySeen' = Unread
    /\ UNCHANGED <<tidyApply, tidyRepo, tidyResult, tidyHist>>

InTidyHand(pc) == tidyPc = pc /\ UNCHANGED <<tidyApply, tidyTodo>>
Skipped(why) ==
    /\ tidyResult' = [tidyResult EXCEPT ![tidyCur] = why]
    /\ tidyPc' = "next" /\ tidyCur' = NoBranch
TidyReads == UNCHANGED <<tidyRepo, tidyHist>>
TidyGoesOn(pc) == tidyPc' = pc /\ UNCHANGED <<tidyCur, tidyResult>>
HandRepo == tidyRepo[tidyCur]

(* issueFinished: a label of the human's outranks everything; a merged     *)
(* pull request or a closed issue finishes it.                             *)
IssueFinished(r) ==
    CASE r.held -> "held"
      [] ~r.held /\ (r.prs # {} \/ r.closed) -> "finished"
      [] OTHER -> "open"
TidyFinished ==
    /\ InTidyHand("finished") /\ TidyReads
    /\ \/ Skipped("unknown") /\ UNCHANGED tidySeen
       \/ /\ IssueFinished(HandRepo) # "finished" /\ Skipped(IssueFinished(HandRepo))
          /\ UNCHANGED tidySeen
       \/ /\ IssueFinished(HandRepo) = "finished" /\ TidyGoesOn("count")
          /\ tidySeen' = [tidySeen EXCEPT !.merged = HandRepo.prs]

(* inspectLeftWork, the commits: those the mirror of the default branch    *)
(* lacks, when there is a default branch to compare with.                  *)
TidyCounts ==
    /\ InTidyHand("count") /\ TidyReads /\ TidyGoesOn("status")
    /\ tidySeen' = [tidySeen EXCEPT !.commits =
          IF HandRepo.default
          THEN IF HandRepo.tip > HandRepo.mirror THEN HandRepo.tip - HandRepo.mirror ELSE 0
          ELSE NoRef]

(* inspectLeftWork, the worktree: "gone" is one git still lists whose      *)
(* directory is not there, "broken" one whose status does not run, "cwd"   *)
(* the checkout the sweep itself runs in.                                  *)
TidyInspects ==
    /\ InTidyHand("status") /\ TidyReads
    /\ \/ /\ HandRepo.tree = "broken" /\ Skipped("unreadable") /\ UNCHANGED tidySeen
       \/ /\ HandRepo.tree = "cwd" /\ Skipped("cwd") /\ UNCHANGED tidySeen
       \/ /\ HandRepo.tree \in {"none", "gone", "linked"} /\ TidyGoesOn("shipped")
          /\ tidySeen' = [tidySeen EXCEPT !.path = HandRepo.tree = "linked",
                             !.dirty = HandRepo.tree = "linked" /\ HandRepo.dirty]

(* shippedBy: the tip is the head of a pull request merged into the        *)
(* default branch.                                                         *)
ShippedBy(r, merged) == r.default /\ \E p \in merged : p.head = r.tip /\ p.base
UnshippedReason(s) ==
    CASE s.shipped -> "fine"
      [] ~s.shipped /\ s.commits = NoRef -> "uncounted"
      [] ~s.shipped /\ s.commits > 0 -> "unmerged"
      [] OTHER -> "fine"
TidyShips ==
    /\ InTidyHand("shipped") /\ TidyReads
    /\ tidySeen' = [tidySeen EXCEPT !.shipped = ShippedBy(HandRepo, tidySeen.merged)]
    /\ \/ /\ UnshippedReason(tidySeen') # "fine" /\ Skipped(UnshippedReason(tidySeen'))
       \/ /\ UnshippedReason(tidySeen') = "fine" /\ tidySeen.dirty /\ Skipped("dirty")
       \/ /\ UnshippedReason(tidySeen') = "fine" /\ ~tidySeen.dirty
          /\ TidyGoesOn(IF tidySeen'.shipped THEN "clear" ELSE "pushed")

(* unpushedReason: the branch's remote-tracking ref, when there is one, is *)
(* somewhere else.                                                         *)
UnpushedReason(r) == r.origin # NoRef /\ r.origin # r.tip
TidyUnpushed ==
    /\ InTidyHand("pushed") /\ TidyReads /\ UNCHANGED tidySeen
    /\ IF UnpushedReason(HandRepo) THEN Skipped("unpushed") ELSE TidyGoesOn("clear")

(* Every check is passed: reported, or the worktree removed by force and   *)
(* then the branch deleted.                                                *)
TidyReports ==
    /\ InTidyHand("clear") /\ TidyReads /\ UNCHANGED tidySeen
    /\ IF ~tidyApply THEN Skipped("reclaimed")
       ELSE TidyGoesOn(IF tidySeen.path THEN "remove" ELSE "delete")

TidyRemoves ==
    /\ InTidyHand("remove") /\ UNCHANGED tidySeen
    /\ \/ Skipped("no-remove") /\ UNCHANGED <<tidyRepo, tidyHist>>
       \/ /\ TidyGoesOn("delete")
          /\ tidyRepo' = [tidyRepo EXCEPT ![tidyCur].tree = "none", ![tidyCur].dirty = FALSE]
          /\ tidyHist' = [tidyHist EXCEPT !.lost[tidyCur] =
                @ \cup IF HandRepo.dirty THEN {"edit"} ELSE {}]

(* git branch -D deletes what it is given.  -d deletes only what HEAD or   *)
(* the branch's upstream reaches, and the code asks for it whenever no     *)
(* merged pull request vouched for the tip.                                *)
Elsewhere(r) ==
    \/ r.tip <= r.main \/ r.tip <= r.mirror \/ r.tip <= r.head \/ r.tip <= r.origin
    \/ \E p \in r.prs : r.tip <= p.head
DeleteAlwaysForced == "-D"
DeleteFlag == IF tidySeen.shipped THEN "-D" ELSE "-d"
GitDeletes(r, flag) == flag = "-D" \/ r.tip <= r.head \/ r.tip <= r.origin
TidyDeletes ==
    /\ InTidyHand("delete") /\ UNCHANGED tidySeen
    /\ \/ Skipped("no-delete") /\ UNCHANGED <<tidyRepo, tidyHist>>
       \/ /\ GitDeletes(HandRepo, DeleteFlag) /\ HandRepo.tree \in {"none", "gone"}
          /\ Skipped("reclaimed")
          /\ tidyRepo' = [tidyRepo EXCEPT ![tidyCur].here = FALSE]
          /\ tidyHist' = [tidyHist EXCEPT !.lost[tidyCur] =
                @ \cup IF Elsewhere(HandRepo) THEN {} ELSE {"commit"}]

(* A person, or a run of another process, at work on a branch meanwhile:   *)
(* an edit in its worktree, a commit, a push.  "late" is what was made     *)
(* after the read that should have seen it.                                *)
TidyWork(b) == tidyPc \notin {"rest", "end"} /\ tidyRepo[b].here /\ tidyHist.made < TidyLateWork
PastTheStatus(b) == b = tidyCur /\ tidyPc \in {"shipped", "pushed", "clear", "remove", "delete"}
PastTheTip(b) == b = tidyCur /\ tidyPc \in {"pushed", "clear", "remove", "delete"}
TidyWorksOn(b, repo, late) ==
    /\ TidyWork(b)
    /\ tidyRepo' = repo
    /\ tidyHist' = [tidyHist EXCEPT !.late[b] = @ \cup late, !.made = @ + 1]
    /\ UNCHANGED <<tidyPc, tidyApply, tidyTodo, tidyCur, tidySeen, tidyResult>>
PersonEdits(b) ==
    /\ tidyRepo[b].tree \in {"linked", "cwd"}
    /\ TidyWorksOn(b, [tidyRepo EXCEPT ![b].dirty = TRUE],
                   IF PastTheStatus(b) THEN {"edit"} ELSE {})
PersonCommits(b) ==
    /\ TidyWork(b) /\ tidyRepo[b].tree \notin {"none", "gone"}
    /\ TidyWorksOn(b, [tidyRepo EXCEPT ![b].tip = @ + 1, ![b].dirty = FALSE],
                   IF PastTheTip(b) THEN {"commit"} ELSE {})
PersonPushes(b) ==
    /\ tidyRepo[b].origin # tidyRepo[b].tip
    /\ TidyWorksOn(b, [tidyRepo EXCEPT ![b].origin = tidyRepo[b].tip], {})

TidyNext ==
    \/ TidyCalled \/ TidySyncs \/ TidyPrunes \/ TidyLists \/ TidyTakes \/ TidyFinished
    \/ TidyCounts \/ TidyInspects \/ TidyShips \/ TidyUnpushed \/ TidyReports
    \/ TidyRemoves \/ TidyDeletes
    \/ \E b \in TidyBranches :
          tidyRepo[b].here /\ (PersonEdits(b) \/ PersonCommits(b) \/ PersonPushes(b))

TidyTypeOK ==
    /\ tidyPc \in {"rest", "sync", "prune", "list", "next", "finished", "count", "status",
                   "shipped", "pushed", "clear", "remove", "delete", "end"}
    /\ tidyApply \in BOOLEAN /\ tidyTodo \subseteq TidyBranches
    /\ tidyCur \in TidyBranches \cup {NoBranch}
    /\ (tidyCur # NoBranch) = (tidyPc \in {"finished", "count", "status", "shipped", "pushed",
                                          "clear", "remove", "delete"})
    /\ tidySeen.commits \in Int /\ tidySeen.path \in BOOLEAN /\ tidySeen.dirty \in BOOLEAN
    /\ tidyResult \in [TidyBranches -> TidySkips \cup {"none", "reclaimed"}]
    /\ tidyHist.made \in 0..TidyLateWork

(* Proves each one safe before touching it (tidy.go:59): work is lost only *)
(* when it was made after the read that would have seen it, and a commit,  *)
(* even then, only from a branch GitHub had vouched for, which -D deletes  *)
(* without looking again.  A dry run takes nothing.                        *)
TidyLosesNothingSeen ==
    \A b \in TidyBranches :
        /\ tidyHist.lost[b] \subseteq tidyHist.late[b]
        /\ "commit" \in tidyHist.lost[b] => \E p \in tidyRepo[b].prs : p.base
        /\ ~tidyApply => tidyHist.lost[b] = {}

(* "shipped means the local tip is exactly that head, so -D here cannot    *)
(* outrun what merged" (tidy.go:272).                                      *)
CannotOutrunWhatMerged == \A b \in TidyBranches : "commit" \notin tidyHist.lost[b]
=============================================================================
