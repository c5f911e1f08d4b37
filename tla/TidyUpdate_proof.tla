-------------------------- MODULE TidyUpdate_proof ---------------------------
(***************************************************************************)
(* Proofs about the two verbs that take something away.                    *)
(*                                                                         *)
(* polako tidy and a shift's own sweep, for any branches, in any state of  *)
(* their refs, worktrees and pull requests, and any amount of work done    *)
(* meanwhile:                                                              *)
(*   TidyTypeCorrect     every variable keeps its type                     *)
(*   NothingSeenIsLost   work is lost only if it was made after the read   *)
(*                       that would have seen it                           *)
(* The property speaks of what is lost; the invariant has to say, at every *)
(* place after a read, that what the sweep read is what is there now or    *)
(* that something was made late.                                           *)
(*                                                                         *)
(* polako update, for every set of releases and any number of calls:       *)
(*   UpdateTypeCorrect  every variable keeps its type                      *)
(*   BinaryKept         no failure and no kill leaves the user without a   *)
(*                      binary                                             *)
(*   HalvesKept         the plugin half comes before the binary half, and  *)
(*                      -check touches neither                             *)
(* AlwaysABinary is not inductive: that the rename puts a release in place *)
(* rests on what was verified before it, and that a call which is over has *)
(* a binary rests on which of the two renames it stands between.           *)
(***************************************************************************)
EXTENDS Tidy, Update, TLAPS

-----------------------------------------------------------------------------
(*                               polako tidy                               *)

(* The sweep as a behaviour of its own.                                    *)
TidySpec == TidyInit /\ [][TidyNext]_tidyVars

Work == {"edit", "commit"}
WorkOf == [TidyBranches -> SUBSET Work]
Histories == [late : WorkOf, lost : WorkOf, made : 0..TidyLateWork]
Readings == [merged : SUBSET MergedPR, commits : Int, path : BOOLEAN, dirty : BOOLEAN,
             shipped : BOOLEAN]
InSweep == {"finished", "count", "status", "shipped", "pushed", "clear", "remove", "delete"}
TipRead == {"pushed", "clear", "remove", "delete"}

TidyTypes ==
    /\ TidyTypeOK
    /\ tidyHist \in Histories /\ tidySeen \in Readings
    /\ tidyPc # "rest" => tidyRepo \in [TidyBranches -> TidyRecord]

(* The pull requests read are those of the branch: nobody unmerges one.    *)
MergedInv ==
    tidyPc \in InSweep \ {"finished"} => tidySeen.merged = HandRepo.prs

(* From the status on: an edit of a worktree the sweep would remove was    *)
(* seen or made late; and past the judgement none was seen.                *)
EditInv ==
    /\ tidyPc \in {"shipped", "pushed", "clear", "remove", "delete"} /\ tidySeen.path /\ HandRepo.dirty
          => tidySeen.dirty \/ "edit" \in tidyHist.late[tidyCur]
    /\ tidyPc \in TipRead => ~tidySeen.dirty
    /\ tidyPc = "remove" => tidySeen.path

(* From the tip on: a branch called shipped has a pull request merged into *)
(* the default branch, at the tip as it is now or as it was before a late  *)
(* commit.                                                                 *)
TipInv ==
    tidyPc \in TipRead /\ tidySeen.shipped =>
        \E p \in HandRepo.prs :
            p.base /\ (p.head = HandRepo.tip \/ "commit" \in tidyHist.late[tidyCur])

(* Only -apply reaches the two calls that remove something.                *)
ApplyInv ==
    /\ tidyPc \in {"remove", "delete"} => tidyApply
    /\ tidyPc = "rest" => \A b \in TidyBranches : tidyHist.lost[b] = {}

TidyInv == TidyTypes /\ MergedInv /\ EditInv /\ TipInv /\ ApplyInv /\ TidyLosesNothingSeen

-----------------------------------------------------------------------------
LEMMA NoBranchIsNone == NoBranch \notin TidyBranches
  BY TidyAssumption DEF NoBranch

LEMMA TidyInitInv == TidyInit => TidyInv
  <1> SUFFICES ASSUME TidyInit PROVE TidyInv
    OBVIOUS
  <1> DEFINE nothing == [b \in TidyBranches |-> {}]
  <1>1. nothing \in WorkOf /\ \A b \in TidyBranches : nothing[b] = {}
    BY DEF WorkOf
  <1>2. tidyHist = [late |-> nothing, lost |-> nothing, made |-> 0] /\ 0 \in 0..TidyLateWork
    BY TidyAssumption DEF TidyInit
  <1>3. tidyHist \in Histories /\ tidyHist.lost = nothing /\ tidyHist.made \in 0..TidyLateWork
    <2> HIDE DEF nothing
    <2> QED BY <1>1, <1>2 DEF Histories
  <1>4. tidySeen \in Readings BY DEF TidyInit, Unread, Readings, NoRef
  <1>5. tidyPc = "rest" BY DEF TidyInit
  <1>6. TidyTypes
    <2>1. tidyApply \in BOOLEAN /\ tidyTodo \subseteq TidyBranches /\ tidyCur = NoBranch
      BY DEF TidyInit
    <2>2. tidyResult \in [TidyBranches -> TidySkips \cup {"none", "reclaimed"}]
      BY DEF TidyInit
    <2> QED BY <1>3, <1>4, <1>5, <2>1, <2>2 DEF TidyTypes, TidyTypeOK, Readings
  <1>7. MergedInv /\ EditInv /\ TipInv BY <1>5 DEF MergedInv, EditInv, TipInv, InSweep, TipRead
  <1>8. ApplyInv /\ TidyLosesNothingSeen
    <2>1. \A b \in TidyBranches : tidyHist.lost[b] = {} BY <1>1, <1>3
    <2> QED BY <1>5, <2>1 DEF ApplyInv, TidyLosesNothingSeen
  <1> QED BY <1>6, <1>7, <1>8 DEF TidyInv

(* With a branch in hand its repository is a record.                       *)
LEMMA InTheHand ==
  ASSUME TidyInv, tidyPc \in InSweep
  PROVE  /\ tidyCur \in TidyBranches /\ tidyRepo \in [TidyBranches -> TidyRecord]
         /\ HandRepo \in TidyRecord
         /\ tidyHist \in Histories /\ tidySeen \in Readings
  <1>1. tidyCur \in TidyBranches BY DEF TidyInv, TidyTypes, TidyTypeOK, InSweep
  <1>2. tidyRepo \in [TidyBranches -> TidyRecord] BY DEF TidyInv, TidyTypes, InSweep
  <1> QED BY <1>1, <1>2 DEF HandRepo, TidyInv, TidyTypes

(* Losses that stay as they are stay harmless while no pull request goes.  *)
LEMMA SameLosses ==
  ASSUME TidyInv, UNCHANGED <<tidyHist, tidyApply>>,
         \A b \in TidyBranches : tidyRepo'[b].prs = tidyRepo[b].prs
  PROVE  TidyLosesNothingSeen'
  BY DEF TidyInv, TidyLosesNothingSeen

(* A branch that is skipped is out of hand, and nothing read of it counts. *)
LEMMA SkippedKeeps ==
  ASSUME TidyInv, tidyPc \in InSweep, NEW why \in TidySkips \cup {"reclaimed"}, Skipped(why),
         UNCHANGED <<tidyApply, tidyTodo>>, tidySeen' \in Readings,
         tidyRepo' \in [TidyBranches -> TidyRecord], tidyHist' \in Histories,
         TidyLosesNothingSeen'
  PROVE  TidyInv'
  <1>1. tidyPc' = "next" /\ tidyCur' = NoBranch BY DEF Skipped
  <1>2. tidyResult' \in [TidyBranches -> TidySkips \cup {"none", "reclaimed"}]
    BY DEF Skipped, TidyInv, TidyTypes, TidyTypeOK
  <1>3. TidyTypes'
    BY <1>1, <1>2 DEF TidyInv, TidyTypes, TidyTypeOK, Readings, Histories
  <1>4. MergedInv' /\ EditInv' /\ TipInv' /\ ApplyInv'
    BY <1>1 DEF MergedInv, EditInv, TipInv, ApplyInv, InSweep, TipRead
  <1> QED BY <1>3, <1>4 DEF TidyInv

(* Going on with the branch in hand keeps the types.                       *)
LEMMA GoesOnTypes ==
  ASSUME TidyInv, tidyPc \in InSweep, NEW pc \in InSweep, TidyGoesOn(pc),
         UNCHANGED <<tidyApply, tidyTodo>>, tidySeen' \in Readings,
         tidyRepo' \in [TidyBranches -> TidyRecord], tidyHist' \in Histories
  PROVE  TidyTypes'
  <1>1. tidyPc' = pc /\ tidyCur' = tidyCur /\ tidyResult' = tidyResult BY DEF TidyGoesOn
  <1>2. tidyCur \in TidyBranches /\ tidyCur # NoBranch BY InTheHand, NoBranchIsNone
  <1> QED BY <1>1, <1>2 DEF TidyInv, TidyTypes, TidyTypeOK, Readings, Histories, InSweep

-----------------------------------------------------------------------------
(* Before a branch is in hand.                                             *)

LEMMA TidyCalledKeeps == TidyInv /\ TidyCalled => TidyInv'
  <1> SUFFICES ASSUME TidyInv, TidyCalled PROVE TidyInv'
    OBVIOUS
  <1>1. PICK w \in TidyWorlds, a \in BOOLEAN :
            tidyRepo' = [b \in TidyBranches |-> w[b]] /\ tidyApply' = a
    BY DEF TidyCalled
  <1>2. tidyPc = "rest" /\ tidyPc' = "sync"
        /\ UNCHANGED <<tidyTodo, tidyCur, tidySeen, tidyResult, tidyHist>>
    BY DEF TidyCalled
  <1>3. tidyRepo' \in [TidyBranches -> TidyRecord] BY <1>1, TidyAssumption
  <1>4. TidyTypes' BY <1>1, <1>2, <1>3 DEF TidyInv, TidyTypes, TidyTypeOK
  <1>5. MergedInv' /\ EditInv' /\ TipInv' /\ ApplyInv'
    BY <1>2 DEF MergedInv, EditInv, TipInv, ApplyInv, InSweep, TipRead
  <1>6. TidyLosesNothingSeen'
    BY <1>2 DEF TidyInv, ApplyInv, TidyLosesNothingSeen
  <1> QED BY <1>4, <1>5, <1>6 DEF TidyInv

(* The steps of the sweep as a whole: nothing is in hand after them but a  *)
(* branch just taken, of which nothing is known.                           *)
LEMMA SweepKeeps ==
  ASSUME TidyInv, tidyPc # "rest", UNCHANGED <<tidyApply, tidyResult, tidyHist>>,
         tidyPc' \in {"sync", "prune", "list", "next", "finished", "end"},
         tidyTodo' \subseteq TidyBranches, tidySeen' \in Readings,
         IF tidyPc' = "finished" THEN tidyCur' \in TidyBranches ELSE tidyCur' = NoBranch,
         tidyRepo' \in [TidyBranches -> TidyRecord],
         \A b \in TidyBranches : tidyRepo'[b].prs = tidyRepo[b].prs
  PROVE  TidyInv'
  <1>1. TidyTypes'
    <2>1. (tidyCur' # NoBranch) = (tidyPc' \in InSweep)
      BY NoBranchIsNone DEF InSweep
    <2>2. tidyCur' \in TidyBranches \cup {NoBranch} OBVIOUS
    <2> QED BY <2>1, <2>2 DEF TidyInv, TidyTypes, TidyTypeOK, Readings, InSweep
  <1>2. MergedInv' /\ EditInv' /\ TipInv' /\ ApplyInv'
    BY DEF MergedInv, EditInv, TipInv, ApplyInv, InSweep, TipRead
  <1> QED BY <1>1, <1>2, SameLosses DEF TidyInv

LEMMA SyncsKeeps == TidyInv /\ TidySyncs => TidyInv'
  <1> SUFFICES ASSUME TidyInv, TidySyncs PROVE TidyInv'
    OBVIOUS
  <1>1. tidyPc = "sync" /\ tidyPc' \in {"prune", "list"}
        /\ UNCHANGED <<tidyApply, tidyTodo, tidyCur, tidySeen, tidyResult, tidyHist>>
    BY DEF TidySyncs
  <1>2. tidyRepo \in [TidyBranches -> TidyRecord] /\ tidyCur = NoBranch
        /\ tidyTodo \subseteq TidyBranches /\ tidySeen \in Readings
    BY <1>1 DEF TidyInv, TidyTypes, TidyTypeOK
  <1>3. tidyRepo' \in [TidyBranches -> TidyRecord]
        /\ \A b \in TidyBranches : tidyRepo'[b].prs = tidyRepo[b].prs
    <2>1. PICK fetched \in BOOLEAN, forwarded \in BOOLEAN :
              tidyRepo' = [b \in TidyBranches |->
                  [tidyRepo[b] EXCEPT
                      !.mirror = IF fetched THEN tidyRepo[b].main ELSE tidyRepo[b].mirror,
                      !.head = IF fetched /\ forwarded
                               THEN IF fetched THEN tidyRepo[b].main ELSE tidyRepo[b].mirror
                               ELSE @]]
      BY DEF TidySyncs
    <2>2. ASSUME NEW r \in TidyRecord, NEW m \in Int, NEW h \in Int
          PROVE  /\ [r EXCEPT !.mirror = m, !.head = h] \in TidyRecord
                 /\ [r EXCEPT !.mirror = m, !.head = h].prs = r.prs
      BY DEF TidyRecord
    <2>3. ASSUME NEW b \in TidyBranches
          PROVE  tidyRepo'[b] \in TidyRecord /\ tidyRepo'[b].prs = tidyRepo[b].prs
      <3> DEFINE m == IF fetched THEN tidyRepo[b].main ELSE tidyRepo[b].mirror
                 h == IF fetched /\ forwarded THEN m ELSE tidyRepo[b].head
      <3>1. tidyRepo[b] \in TidyRecord /\ m \in Int /\ h \in Int BY <1>2 DEF TidyRecord
      <3>2. tidyRepo'[b] = [tidyRepo[b] EXCEPT !.mirror = m, !.head = h] BY <2>1
      <3>3. [tidyRepo[b] EXCEPT !.mirror = m, !.head = h] \in TidyRecord
            /\ [tidyRepo[b] EXCEPT !.mirror = m, !.head = h].prs = tidyRepo[b].prs
        <4> HIDE DEF m, h
        <4> QED BY <2>2, <3>1
      <3> HIDE DEF m, h
      <3> QED BY <3>2, <3>3
    <2>4. tidyRepo' = [b \in TidyBranches |-> tidyRepo'[b]] BY <2>1
    <2> QED BY <2>3, <2>4
  <1> QED BY <1>1, <1>2, <1>3, SweepKeeps

LEMMA PrunesKeeps == TidyInv /\ TidyPrunes => TidyInv'
  <1> SUFFICES ASSUME TidyInv, TidyPrunes PROVE TidyInv'
    OBVIOUS
  <1>1. tidyPc = "prune" /\ tidyPc' = "list"
        /\ UNCHANGED <<tidyApply, tidyTodo, tidyCur, tidySeen, tidyResult, tidyHist>>
    BY DEF TidyPrunes
  <1>2. tidyRepo \in [TidyBranches -> TidyRecord] /\ tidyCur = NoBranch
        /\ tidyTodo \subseteq TidyBranches /\ tidySeen \in Readings
    BY <1>1 DEF TidyInv, TidyTypes, TidyTypeOK
  <1>3. ASSUME NEW b \in TidyBranches
        PROVE  tidyRepo'[b] \in TidyRecord /\ tidyRepo'[b].prs = tidyRepo[b].prs
    BY <1>2 DEF TidyPrunes, TidyRecord, TidyTrees
  <1>4. tidyRepo' \in [TidyBranches -> TidyRecord]
    BY <1>3 DEF TidyPrunes
  <1> QED BY <1>1, <1>2, <1>3, <1>4, SweepKeeps

LEMMA ListsKeeps == TidyInv /\ TidyLists => TidyInv'
  <1> SUFFICES ASSUME TidyInv, TidyLists PROVE TidyInv'
    OBVIOUS
  <1>1. tidyPc = "list" /\ tidyPc' \in {"next", "end"} /\ tidyTodo' \subseteq TidyBranches
        /\ UNCHANGED <<tidyApply, tidyRepo, tidyCur, tidySeen, tidyResult, tidyHist>>
    BY DEF TidyLists
  <1>2. tidyRepo \in [TidyBranches -> TidyRecord] /\ tidyCur = NoBranch /\ tidySeen \in Readings
    BY <1>1 DEF TidyInv, TidyTypes, TidyTypeOK
  <1> QED BY <1>1, <1>2, SweepKeeps

LEMMA TakesKeeps == TidyInv /\ TidyTakes => TidyInv'
  <1> SUFFICES ASSUME TidyInv, TidyTakes PROVE TidyInv'
    OBVIOUS
  <1>1. tidyPc = "next" /\ tidySeen' = Unread
        /\ UNCHANGED <<tidyApply, tidyRepo, tidyResult, tidyHist>>
    BY DEF TidyTakes
  <1>2. tidyRepo \in [TidyBranches -> TidyRecord] /\ tidyCur = NoBranch
        /\ tidyTodo \subseteq TidyBranches
    BY <1>1 DEF TidyInv, TidyTypes, TidyTypeOK
  <1>3. tidyPc' \in {"finished", "end"} /\ tidyTodo' \subseteq TidyBranches
        /\ IF tidyPc' = "finished" THEN tidyCur' \in TidyBranches ELSE tidyCur' = NoBranch
    BY <1>2 DEF TidyTakes
  <1>4. Unread \in Readings BY DEF Unread, Readings, NoRef
  <1> QED BY <1>1, <1>2, <1>3, <1>4, SweepKeeps

-----------------------------------------------------------------------------
(* With a branch in hand.                                                  *)

(* A step that only reads, and skips the branch.                           *)
LEMMA ReadSkipKeeps ==
  ASSUME TidyInv, tidyPc \in InSweep, NEW why \in TidySkips \cup {"reclaimed"}, Skipped(why),
         UNCHANGED <<tidyApply, tidyTodo, tidyRepo, tidyHist>>, tidySeen' \in Readings
  PROVE  TidyInv'
  BY InTheHand, SameLosses, SkippedKeeps

LEMMA FinishedKeeps == TidyInv /\ TidyFinished => TidyInv'
  <1> SUFFICES ASSUME TidyInv, TidyFinished PROVE TidyInv'
    OBVIOUS
  <1>1. tidyPc = "finished" /\ UNCHANGED <<tidyApply, tidyTodo, tidyRepo, tidyHist>>
    BY DEF TidyFinished, InTidyHand, TidyReads
  <1>2. tidyPc \in InSweep BY <1>1 DEF InSweep
  <1>3. IssueFinished(HandRepo) \in {"held", "open", "finished"} BY DEF IssueFinished
  <1>4. CASE Skipped("unknown") /\ UNCHANGED tidySeen
    BY <1>1, <1>2, <1>4, InTheHand, ReadSkipKeeps DEF TidySkips
  <1>5. CASE /\ IssueFinished(HandRepo) # "finished" /\ Skipped(IssueFinished(HandRepo))
             /\ UNCHANGED tidySeen
    BY <1>1, <1>2, <1>3, <1>5, InTheHand, ReadSkipKeeps DEF TidySkips
  <1>6. CASE /\ TidyGoesOn("count")
             /\ tidySeen' = [tidySeen EXCEPT !.merged = HandRepo.prs]
    <2>1. HandRepo.prs \in SUBSET MergedPR BY <1>2, InTheHand DEF TidyRecord
    <2>2. tidySeen' \in Readings /\ tidySeen'.merged = HandRepo.prs
      BY <1>2, <1>6, <2>1, InTheHand DEF Readings
    <2>3. tidyPc' = "count" /\ HandRepo' = HandRepo
      BY <1>1, <1>6 DEF TidyGoesOn, HandRepo
    <2>4. TidyTypes' BY <1>1, <1>2, <1>6, <2>2, InTheHand, GoesOnTypes DEF InSweep
    <2>5. MergedInv' /\ EditInv' /\ TipInv' /\ ApplyInv'
      BY <2>2, <2>3 DEF MergedInv, EditInv, TipInv, ApplyInv, TipRead
    <2> QED BY <1>1, <2>4, <2>5, SameLosses DEF TidyInv
  <1> QED BY <1>4, <1>5, <1>6 DEF TidyFinished

LEMMA CountsKeeps == TidyInv /\ TidyCounts => TidyInv'
  <1> SUFFICES ASSUME TidyInv, TidyCounts PROVE TidyInv'
    OBVIOUS
  <1>1. tidyPc = "count" /\ UNCHANGED <<tidyApply, tidyTodo, tidyRepo, tidyHist>>
        /\ TidyGoesOn("status")
    BY DEF TidyCounts, InTidyHand, TidyReads
  <1>2. tidyPc \in InSweep BY <1>1 DEF InSweep
  <1> DEFINE n == IF HandRepo.default
                  THEN IF HandRepo.tip > HandRepo.mirror THEN HandRepo.tip - HandRepo.mirror
                       ELSE 0
                  ELSE NoRef
  <1>3. n \in Int BY <1>2, InTheHand DEF TidyRecord, NoRef
  <1>4. tidySeen' = [tidySeen EXCEPT !.commits = n] BY DEF TidyCounts
  <1>5. tidySeen' \in Readings /\ tidySeen'.merged = tidySeen.merged
    <2> HIDE DEF n
    <2> QED BY <1>2, <1>3, <1>4, InTheHand DEF Readings
  <1>6. tidyPc' = "status" /\ HandRepo' = HandRepo BY <1>1 DEF TidyGoesOn, HandRepo
  <1>7. TidyTypes' BY <1>1, <1>2, <1>5, InTheHand, GoesOnTypes DEF InSweep
  <1>8. MergedInv' /\ EditInv' /\ TipInv' /\ ApplyInv'
    BY <1>1, <1>5, <1>6 DEF TidyInv, MergedInv, EditInv, TipInv, ApplyInv, TipRead, InSweep
  <1> QED BY <1>1, <1>7, <1>8, SameLosses DEF TidyInv

LEMMA InspectsKeeps == TidyInv /\ TidyInspects => TidyInv'
  <1> SUFFICES ASSUME TidyInv, TidyInspects PROVE TidyInv'
    OBVIOUS
  <1>1. tidyPc = "status" /\ UNCHANGED <<tidyApply, tidyTodo, tidyRepo, tidyHist>>
    BY DEF TidyInspects, InTidyHand, TidyReads
  <1>2. tidyPc \in InSweep BY <1>1 DEF InSweep
  <1>3. CASE UNCHANGED tidySeen /\ (Skipped("unreadable") \/ Skipped("cwd"))
    BY <1>1, <1>2, <1>3, InTheHand, ReadSkipKeeps DEF TidySkips
  <1>4. CASE /\ TidyGoesOn("shipped")
             /\ tidySeen' = [tidySeen EXCEPT !.path = HandRepo.tree = "linked",
                                !.dirty = HandRepo.tree = "linked" /\ HandRepo.dirty]
    <2> DEFINE path == HandRepo.tree = "linked"
               dirty == HandRepo.tree = "linked" /\ HandRepo.dirty
    <2>1. path \in BOOLEAN /\ dirty \in BOOLEAN OBVIOUS
    <2>2. tidySeen' = [tidySeen EXCEPT !.path = path, !.dirty = dirty] BY <1>4
    <2>3. /\ tidySeen' \in Readings /\ tidySeen'.merged = tidySeen.merged
          /\ tidySeen'.path = path /\ tidySeen'.dirty = dirty
      <3> HIDE DEF path, dirty
      <3> QED BY <1>2, <2>1, <2>2, InTheHand DEF Readings
    <2>4. tidyPc' = "shipped" /\ HandRepo' = HandRepo
      BY <1>1, <1>4 DEF TidyGoesOn, HandRepo
    <2>5. TidyTypes' BY <1>1, <1>2, <1>4, <2>3, InTheHand, GoesOnTypes DEF InSweep
    <2>6. MergedInv' /\ TipInv' /\ ApplyInv'
      BY <1>1, <2>3, <2>4 DEF TidyInv, MergedInv, TipInv, ApplyInv, TipRead, InSweep
    <2>7. EditInv' BY <2>3, <2>4 DEF EditInv, TipRead
    <2> QED BY <1>1, <2>5, <2>6, <2>7, SameLosses DEF TidyInv
  <1> QED BY <1>3, <1>4 DEF TidyInspects

LEMMA ShipsKeeps == TidyInv /\ TidyShips => TidyInv'
  <1> SUFFICES ASSUME TidyInv, TidyShips PROVE TidyInv'
    OBVIOUS
  <1>1. tidyPc = "shipped" /\ UNCHANGED <<tidyApply, tidyTodo, tidyRepo, tidyHist>>
    BY DEF TidyShips, InTidyHand, TidyReads
  <1>2. tidyPc \in InSweep BY <1>1 DEF InSweep
  <1> DEFINE shipped == ShippedBy(HandRepo, tidySeen.merged)
  <1>3. shipped \in BOOLEAN /\ (shipped => \E p \in HandRepo.prs : p.head = HandRepo.tip /\ p.base)
    <2>1. HandRepo.default \in BOOLEAN BY <1>2, InTheHand DEF TidyRecord
    <2>2. tidySeen.merged = HandRepo.prs BY <1>1 DEF TidyInv, MergedInv, InSweep
    <2> QED BY <2>1, <2>2 DEF ShippedBy
  <1>4. tidySeen' = [tidySeen EXCEPT !.shipped = shipped] BY DEF TidyShips
  <1>5. /\ tidySeen' \in Readings /\ tidySeen'.shipped = shipped
        /\ tidySeen'.merged = tidySeen.merged /\ tidySeen'.path = tidySeen.path
        /\ tidySeen'.dirty = tidySeen.dirty
    <2> HIDE DEF shipped
    <2> QED BY <1>2, <1>3, <1>4, InTheHand DEF Readings
  <1>6. UnshippedReason(tidySeen') \in {"fine", "uncounted", "unmerged"} BY DEF UnshippedReason
  <1>7. CASE \E why \in {"uncounted", "unmerged", "dirty"} : Skipped(why)
    BY <1>1, <1>2, <1>5, <1>7, ReadSkipKeeps DEF TidySkips
  <1>8. CASE ~tidySeen.dirty /\ TidyGoesOn(IF tidySeen'.shipped THEN "clear" ELSE "pushed")
    <2>1. tidyPc' \in {"clear", "pushed"} /\ HandRepo' = HandRepo /\ tidyCur' = tidyCur
      BY <1>1, <1>8 DEF TidyGoesOn, HandRepo
    <2>2. TidyTypes' BY <1>1, <1>2, <1>5, <1>8, InTheHand, GoesOnTypes DEF InSweep
    <2>3. MergedInv' /\ ApplyInv'
      BY <1>1, <1>5, <2>1 DEF TidyInv, MergedInv, ApplyInv, InSweep
    <2>4. EditInv'
      BY <1>1, <1>5, <1>8, <2>1 DEF TidyInv, EditInv
    <2>5. TipInv' BY <1>3, <1>5, <2>1 DEF TipInv
    <2> QED BY <1>1, <2>2, <2>3, <2>4, <2>5, SameLosses DEF TidyInv
  <1> QED BY <1>6, <1>7, <1>8 DEF TidyShips

(* A check that is passed takes the branch on as it is.                    *)
LEMMA PassedKeeps ==
  ASSUME TidyInv, tidyPc \in {"pushed", "clear"}, NEW pc \in {"clear", "remove", "delete"},
         TidyGoesOn(pc), UNCHANGED <<tidyApply, tidyTodo, tidyRepo, tidyHist, tidySeen>>,
         pc # "clear" => tidyApply, pc = "remove" => tidySeen.path
  PROVE  TidyInv'
  <1>1. tidyPc \in InSweep /\ pc \in InSweep BY DEF InSweep
  <1>2. tidyPc' = pc /\ HandRepo' = HandRepo /\ tidyCur' = tidyCur
    BY DEF TidyGoesOn, HandRepo
  <1>3. TidyTypes' BY <1>1, InTheHand, GoesOnTypes
  <1>4. MergedInv' /\ EditInv' /\ ApplyInv'
    BY <1>2 DEF TidyInv, MergedInv, EditInv, ApplyInv, InSweep, TipRead
  <1>5. TipInv' BY <1>2 DEF TidyInv, TipInv, TipRead
  <1> QED BY <1>3, <1>4, <1>5, SameLosses DEF TidyInv

LEMMA UnpushedKeeps == TidyInv /\ TidyUnpushed => TidyInv'
  <1> SUFFICES ASSUME TidyInv, TidyUnpushed PROVE TidyInv'
    OBVIOUS
  <1>1. tidyPc = "pushed" /\ UNCHANGED <<tidyApply, tidyTodo, tidyRepo, tidyHist, tidySeen>>
        /\ (Skipped("unpushed") \/ TidyGoesOn("clear"))
    BY DEF TidyUnpushed, InTidyHand, TidyReads
  <1>2. tidyPc \in InSweep BY <1>1 DEF InSweep
  <1>3. CASE Skipped("unpushed") BY <1>1, <1>2, <1>3, InTheHand, ReadSkipKeeps DEF TidySkips
  <1>4. CASE TidyGoesOn("clear") BY <1>1, <1>4, PassedKeeps
  <1> QED BY <1>1, <1>3, <1>4

LEMMA ReportsKeeps == TidyInv /\ TidyReports => TidyInv'
  <1> SUFFICES ASSUME TidyInv, TidyReports PROVE TidyInv'
    OBVIOUS
  <1>1. tidyPc = "clear" /\ UNCHANGED <<tidyApply, tidyTodo, tidyRepo, tidyHist, tidySeen>>
    BY DEF TidyReports, InTidyHand, TidyReads
  <1>2. tidyPc \in InSweep BY <1>1 DEF InSweep
  <1>3. CASE ~tidyApply
    BY <1>1, <1>2, <1>3, InTheHand, ReadSkipKeeps DEF TidyReports
  <1>4. CASE tidyApply /\ tidySeen.path
    BY <1>1, <1>4, PassedKeeps DEF TidyReports
  <1>5. CASE tidyApply /\ ~tidySeen.path
    BY <1>1, <1>5, PassedKeeps DEF TidyReports
  <1> QED BY <1>3, <1>4, <1>5

-----------------------------------------------------------------------------
(* The two calls that remove something.                                    *)

(* What is lost of the branch in hand goes into the history.               *)
LEMMA LossNoted ==
  ASSUME TidyInv, tidyPc \in InSweep, NEW what \in SUBSET Work,
         tidyHist' = [tidyHist EXCEPT !.lost[tidyCur] = @ \cup what]
  PROVE  /\ tidyHist' \in Histories /\ tidyHist'.late = tidyHist.late
         /\ tidyHist'.lost[tidyCur] = tidyHist.lost[tidyCur] \cup what
         /\ \A b \in TidyBranches \ {tidyCur} : tidyHist'.lost[b] = tidyHist.lost[b]
  <1>1. tidyHist \in Histories /\ tidyCur \in TidyBranches BY InTheHand
  <1> DEFINE new == [tidyHist.lost EXCEPT ![tidyCur] = @ \cup what]
  <1>2. tidyHist.lost \in WorkOf BY <1>1 DEF Histories
  <1>3. /\ new \in WorkOf /\ new[tidyCur] = tidyHist.lost[tidyCur] \cup what
        /\ \A b \in TidyBranches \ {tidyCur} : new[b] = tidyHist.lost[b]
    BY <1>1, <1>2 DEF WorkOf
  <1>4. tidyHist' = [tidyHist EXCEPT !.lost = new] BY <1>1
  <1> HIDE DEF new
  <1> QED BY <1>1, <1>3, <1>4 DEF Histories

(* A loss that was made late, and a commit only from a branch with a pull  *)
(* request merged into the default branch, is one that may happen.         *)
LEMMA LossAllowed ==
  ASSUME TidyInv, tidyPc \in InSweep, tidyApply, tidyApply' = tidyApply,
         NEW what \in SUBSET Work,
         tidyHist' = [tidyHist EXCEPT !.lost[tidyCur] = @ \cup what],
         \A b \in TidyBranches : tidyRepo'[b].prs = tidyRepo[b].prs,
         what \subseteq tidyHist.late[tidyCur],
         "commit" \in what => \E p \in HandRepo.prs : p.base
  PROVE  TidyLosesNothingSeen'
  <1>1. ASSUME NEW b \in TidyBranches
        PROVE  /\ tidyHist'.lost[b] \subseteq tidyHist'.late[b]
               /\ "commit" \in tidyHist'.lost[b] => \E p \in tidyRepo'[b].prs : p.base
    <2>1. /\ tidyHist.lost[b] \subseteq tidyHist.late[b]
          /\ "commit" \in tidyHist.lost[b] => \E p \in tidyRepo[b].prs : p.base
      BY DEF TidyInv, TidyLosesNothingSeen
    <2>2. CASE b # tidyCur BY <2>1, <2>2, LossNoted
    <2>3. CASE b = tidyCur BY <2>1, <2>3, LossNoted DEF HandRepo
    <2> QED BY <2>2, <2>3
  <1> QED BY <1>1 DEF TidyLosesNothingSeen

LEMMA RemovesKeeps == TidyInv /\ TidyRemoves => TidyInv'
  <1> SUFFICES ASSUME TidyInv, TidyRemoves PROVE TidyInv'
    OBVIOUS
  <1>1. tidyPc = "remove" /\ UNCHANGED <<tidyApply, tidyTodo, tidySeen>>
    BY DEF TidyRemoves, InTidyHand
  <1>2. tidyPc \in InSweep BY <1>1 DEF InSweep
  <1>3. CASE Skipped("no-remove") /\ UNCHANGED <<tidyRepo, tidyHist>>
    BY <1>1, <1>2, <1>3, InTheHand, ReadSkipKeeps DEF TidySkips
  <1> DEFINE what == IF HandRepo.dirty THEN {"edit"} ELSE {}
             gone == [HandRepo EXCEPT !.tree = "none", !.dirty = FALSE]
  <1>4. CASE /\ TidyGoesOn("delete")
             /\ tidyRepo' = [tidyRepo EXCEPT ![tidyCur].tree = "none", ![tidyCur].dirty = FALSE]
             /\ tidyHist' = [tidyHist EXCEPT !.lost[tidyCur] = @ \cup what]
    <2>1. tidyCur \in TidyBranches /\ tidyRepo \in [TidyBranches -> TidyRecord]
          /\ HandRepo \in TidyRecord
      BY <1>2, InTheHand
    <2>2. /\ gone \in TidyRecord /\ gone.prs = HandRepo.prs /\ gone.tip = HandRepo.tip
          /\ ~gone.dirty
      BY <2>1 DEF TidyRecord, TidyTrees
    <2>3. tidyRepo' = [tidyRepo EXCEPT ![tidyCur] = gone]
      BY <1>4, <2>1 DEF HandRepo
    <2>4. /\ tidyRepo' \in [TidyBranches -> TidyRecord] /\ tidyRepo'[tidyCur] = gone
          /\ \A b \in TidyBranches : tidyRepo'[b].prs = tidyRepo[b].prs
      <3>1. tidyRepo'[tidyCur] = gone
            /\ \A b \in TidyBranches \ {tidyCur} : tidyRepo'[b] = tidyRepo[b]
        <4> HIDE DEF gone
        <4> QED BY <2>1, <2>3
      <3>2. tidyRepo' \in [TidyBranches -> TidyRecord]
        <4> HIDE DEF gone
        <4> QED BY <2>1, <2>2, <2>3
      <3>3. ASSUME NEW b \in TidyBranches PROVE tidyRepo'[b].prs = tidyRepo[b].prs
        <4> HIDE DEF gone
        <4> QED BY <2>2, <3>1 DEF HandRepo
      <3> QED BY <3>1, <3>2, <3>3
    <2>5. tidyPc' = "delete" /\ tidyCur' = tidyCur BY <1>4 DEF TidyGoesOn
    <2>6. HandRepo' = gone BY <2>4, <2>5 DEF HandRepo
    <2>7. what \in SUBSET Work BY DEF Work
    <2>8. tidyHist' \in Histories /\ tidyHist'.late = tidyHist.late
      <3> HIDE DEF what
      <3> QED BY <1>2, <1>4, <2>7, LossNoted
    <2>9. tidyApply /\ what \subseteq tidyHist.late[tidyCur]
      BY <1>1 DEF TidyInv, ApplyInv, EditInv, TipRead
    <2>10. TidyLosesNothingSeen'
      <3>1. "commit" \notin what OBVIOUS
      <3> HIDE DEF what
      <3> QED BY <1>1, <1>2, <1>4, <2>4, <2>7, <2>9, <3>1, LossAllowed
    <2>11. TidyTypes'
      BY <1>1, <1>2, <1>4, <2>4, <2>8, InTheHand, GoesOnTypes DEF InSweep
    <2>12. MergedInv' /\ ApplyInv'
      <3> HIDE DEF gone
      <3> QED BY <1>1, <2>2, <2>5, <2>6, <2>9 DEF TidyInv, MergedInv, ApplyInv, InSweep
    <2>13. EditInv'
      <3> HIDE DEF gone
      <3> QED BY <1>1, <2>2, <2>5, <2>6 DEF TidyInv, EditInv, TipRead
    <2>14. TipInv'
      <3> HIDE DEF gone
      <3> QED BY <1>1, <2>2, <2>5, <2>6, <2>8 DEF TidyInv, TipInv, TipRead
    <2> QED BY <2>10, <2>11, <2>12, <2>13, <2>14 DEF TidyInv
  <1> QED BY <1>3, <1>4 DEF TidyRemoves

(* A branch that is deleted and reached by nothing else was deleted by -D, *)
(* so it had a pull request merged at its tip, and the tip has moved since.*)
LEMMA DeletesKeeps == TidyInv /\ TidyDeletes => TidyInv'
  <1> SUFFICES ASSUME TidyInv, TidyDeletes PROVE TidyInv'
    OBVIOUS
  <1>1. tidyPc = "delete" /\ UNCHANGED <<tidyApply, tidyTodo, tidySeen>>
    BY DEF TidyDeletes, InTidyHand
  <1>2. tidyPc \in InSweep BY <1>1 DEF InSweep
  <1>3. CASE Skipped("no-delete") /\ UNCHANGED <<tidyRepo, tidyHist>>
    BY <1>1, <1>2, <1>3, InTheHand, ReadSkipKeeps DEF TidySkips
  <1> DEFINE what == IF Elsewhere(HandRepo) THEN {} ELSE {"commit"}
  <1>4. CASE /\ GitDeletes(HandRepo, DeleteFlag)
             /\ Skipped("reclaimed")
             /\ tidyRepo' = [tidyRepo EXCEPT ![tidyCur].here = FALSE]
             /\ tidyHist' = [tidyHist EXCEPT !.lost[tidyCur] = @ \cup what]
    <2>1. tidyCur \in TidyBranches /\ tidyRepo \in [TidyBranches -> TidyRecord]
          /\ HandRepo \in TidyRecord /\ tidySeen \in Readings
      BY <1>2, InTheHand
    <2>2. /\ tidyRepo' \in [TidyBranches -> TidyRecord]
          /\ \A b \in TidyBranches : tidyRepo'[b].prs = tidyRepo[b].prs
      BY <1>4, <2>1 DEF TidyRecord
    <2>3. tidyApply BY <1>1 DEF TidyInv, ApplyInv
    <2>4. what \in SUBSET Work BY DEF Work
    <2>5. what \subseteq tidyHist.late[tidyCur]
          /\ ("commit" \in what => \E p \in HandRepo.prs : p.base)
      <3> SUFFICES ASSUME ~Elsewhere(HandRepo)
                   PROVE  /\ "commit" \in tidyHist.late[tidyCur]
                          /\ \E p \in HandRepo.prs : p.base
        OBVIOUS
      <3>1. ~(HandRepo.tip <= HandRepo.head \/ HandRepo.tip <= HandRepo.origin)
        BY DEF Elsewhere
      <3>2. tidySeen.shipped BY <1>4, <3>1 DEF GitDeletes, DeleteFlag
      <3>3. PICK p \in HandRepo.prs :
                p.base /\ (p.head = HandRepo.tip \/ "commit" \in tidyHist.late[tidyCur])
        BY <1>1, <3>2 DEF TidyInv, TipInv, TipRead
      <3>4. HandRepo.tip \in Int BY <2>1 DEF TidyRecord
      <3>5. p.head # HandRepo.tip BY <3>4 DEF Elsewhere
      <3> QED BY <3>3, <3>5
    <2>6. tidyHist' \in Histories /\ TidyLosesNothingSeen'
      <3> HIDE DEF what
      <3> QED BY <1>1, <1>2, <1>4, <2>2, <2>3, <2>4, <2>5, LossNoted, LossAllowed
    <2> QED BY <1>1, <1>2, <1>4, <2>1, <2>2, <2>6, SkippedKeeps
  <1> QED BY <1>3, <1>4 DEF TidyDeletes

-----------------------------------------------------------------------------
(* Somebody at work meanwhile.                                             *)

(* A move is harmless if it keeps the pull requests, and is noted as late  *)
(* when the read that should have seen it is over.                         *)
LEMMA WorkKeeps ==
  ASSUME TidyInv, NEW b \in TidyBranches, NEW r \in TidyRecord, NEW late \in SUBSET Work,
         TidyWorksOn(b, [tidyRepo EXCEPT ![b] = r], late),
         r.prs = tidyRepo[b].prs,
         r.dirty /\ ~tidyRepo[b].dirty /\ PastTheStatus(b) => "edit" \in late,
         r.tip # tidyRepo[b].tip /\ PastTheTip(b) => "commit" \in late
  PROVE  TidyInv'
  <1>1. /\ tidyPc \notin {"rest", "end"} /\ tidyHist.made < TidyLateWork
        /\ UNCHANGED <<tidyPc, tidyApply, tidyTodo, tidyCur, tidySeen, tidyResult>>
        /\ tidyRepo' = [tidyRepo EXCEPT ![b] = r]
        /\ tidyHist' = [tidyHist EXCEPT !.late[b] = @ \cup late, !.made = @ + 1]
    BY DEF TidyWorksOn, TidyWork
  <1>2. tidyRepo \in [TidyBranches -> TidyRecord] /\ tidyHist \in Histories
    BY <1>1 DEF TidyInv, TidyTypes
  <1> DEFINE new == [tidyHist.late EXCEPT ![b] = @ \cup late]
  <1>3. /\ new \in WorkOf /\ new[b] = tidyHist.late[b] \cup late
        /\ \A c \in TidyBranches : tidyHist.late[c] \subseteq new[c]
    BY <1>2 DEF Histories, WorkOf
  <1>4. /\ tidyHist' \in Histories /\ tidyHist'.late = new /\ tidyHist'.lost = tidyHist.lost
    <2>1. tidyHist' = [tidyHist EXCEPT !.late = new, !.made = tidyHist.made + 1]
      BY <1>1, <1>2
    <2>2. tidyHist.made + 1 \in 0..TidyLateWork BY <1>1, <1>2, TidyAssumption DEF Histories
    <2> HIDE DEF new
    <2> QED BY <1>2, <1>3, <2>1, <2>2 DEF Histories
  <1>5. /\ tidyRepo' \in [TidyBranches -> TidyRecord] /\ tidyRepo'[b] = r
        /\ \A c \in TidyBranches \ {b} : tidyRepo'[c] = tidyRepo[c]
    BY <1>1, <1>2
  <1>6. TidyTypes'
    BY <1>1, <1>4, <1>5 DEF TidyInv, TidyTypes, TidyTypeOK, Histories
  <1>7. TidyLosesNothingSeen'
    <2>1. ASSUME NEW c \in TidyBranches
          PROVE  /\ tidyHist'.lost[c] \subseteq tidyHist'.late[c]
                 /\ "commit" \in tidyHist'.lost[c] => \E p \in tidyRepo'[c].prs : p.base
                 /\ ~tidyApply' => tidyHist'.lost[c] = {}
      <3>1. tidyRepo'[c].prs = tidyRepo[c].prs BY <1>5
      <3> HIDE DEF new
      <3> QED BY <1>1, <1>3, <1>4, <3>1 DEF TidyInv, TidyLosesNothingSeen
    <2> QED BY <2>1 DEF TidyLosesNothingSeen
  <1>8. ApplyInv' BY <1>1 DEF TidyInv, ApplyInv
  <1>9. CASE b # tidyCur \/ tidyPc \notin InSweep
    <2>1. tidyPc \in InSweep => HandRepo' = HandRepo
      <3>1. tidyPc \in InSweep => tidyCur \in TidyBranches \ {b} BY <1>9, InTheHand
      <3> QED BY <1>1, <1>5, <3>1 DEF HandRepo
    <2>2. tidyPc \in InSweep => tidyHist.late[tidyCur] \subseteq tidyHist'.late[tidyCur]
      <3> HIDE DEF new
      <3> QED BY <1>3, <1>4, InTheHand
    <2>3. MergedInv' BY <1>1, <2>1 DEF TidyInv, MergedInv
    <2>4. EditInv' BY <1>1, <2>1, <2>2 DEF TidyInv, EditInv, TipRead, InSweep
    <2>5. TipInv' BY <1>1, <2>1, <2>2 DEF TidyInv, TipInv, TipRead, InSweep
    <2> QED BY <1>6, <1>7, <1>8, <2>3, <2>4, <2>5 DEF TidyInv
  <1>10. CASE b = tidyCur /\ tidyPc \in InSweep
    <2>1. HandRepo' = r /\ HandRepo = tidyRepo[b] BY <1>1, <1>5, <1>10 DEF HandRepo
    <2>2. tidyHist'.late[tidyCur] = tidyHist.late[tidyCur] \cup late
      <3> HIDE DEF new
      <3> QED BY <1>3, <1>4, <1>10
    <2>3. MergedInv' BY <1>1, <2>1 DEF TidyInv, MergedInv
    <2>4. EditInv'
      BY <1>1, <1>10, <2>1, <2>2 DEF TidyInv, EditInv, TipRead, PastTheStatus
    <2>5. TipInv'
      BY <1>1, <1>10, <2>1, <2>2 DEF TidyInv, TipInv, TipRead, PastTheTip
    <2> QED BY <1>6, <1>7, <1>8, <2>3, <2>4, <2>5 DEF TidyInv
  <1> QED BY <1>9, <1>10

LEMMA PersonKeeps ==
  ASSUME TidyInv, NEW b \in TidyBranches, PersonEdits(b) \/ PersonCommits(b) \/ PersonPushes(b)
  PROVE  TidyInv'
  <1>1. tidyPc \notin {"rest", "end"}
    BY DEF PersonEdits, PersonCommits, PersonPushes, TidyWorksOn, TidyWork
  <1>2. tidyRepo \in [TidyBranches -> TidyRecord] /\ tidyRepo[b] \in TidyRecord
    BY <1>1 DEF TidyInv, TidyTypes
  <1>3. CASE PersonEdits(b)
    <2> DEFINE r == [tidyRepo[b] EXCEPT !.dirty = TRUE]
               late == IF PastTheStatus(b) THEN {"edit"} ELSE {}
    <2>1. r \in TidyRecord /\ r.prs = tidyRepo[b].prs /\ r.tip = tidyRepo[b].tip
      BY <1>2 DEF TidyRecord
    <2>2. [tidyRepo EXCEPT ![b].dirty = TRUE] = [tidyRepo EXCEPT ![b] = r] BY <1>2
    <2>3. TidyWorksOn(b, [tidyRepo EXCEPT ![b] = r], late) BY <1>3, <2>2 DEF PersonEdits
    <2>4. late \in SUBSET Work /\ (PastTheStatus(b) => "edit" \in late) BY DEF Work
    <2> HIDE DEF r, late
    <2> QED BY <2>1, <2>3, <2>4, WorkKeeps
  <1>4. CASE PersonCommits(b)
    <2> DEFINE r == [tidyRepo[b] EXCEPT !.tip = tidyRepo[b].tip + 1, !.dirty = FALSE]
               late == IF PastTheTip(b) THEN {"commit"} ELSE {}
    <2>1. tidyRepo[b].tip + 1 \in Int BY <1>2 DEF TidyRecord
    <2>2. r \in TidyRecord /\ r.prs = tidyRepo[b].prs /\ ~r.dirty
      BY <1>2, <2>1 DEF TidyRecord
    <2>3. [tidyRepo EXCEPT ![b].tip = @ + 1, ![b].dirty = FALSE] = [tidyRepo EXCEPT ![b] = r]
      BY <1>2
    <2>4. TidyWorksOn(b, [tidyRepo EXCEPT ![b] = r], late) BY <1>4, <2>3 DEF PersonCommits
    <2>5. late \in SUBSET Work /\ (PastTheTip(b) => "commit" \in late) BY DEF Work
    <2> HIDE DEF r, late
    <2> QED BY <2>2, <2>4, <2>5, WorkKeeps
  <1>5. CASE PersonPushes(b)
    <2> DEFINE r == [tidyRepo[b] EXCEPT !.origin = tidyRepo[b].tip]
    <2>1. /\ r \in TidyRecord /\ r.prs = tidyRepo[b].prs /\ r.tip = tidyRepo[b].tip
          /\ r.dirty = tidyRepo[b].dirty
      BY <1>2 DEF TidyRecord
    <2>2. [tidyRepo EXCEPT ![b].origin = tidyRepo[b].tip] = [tidyRepo EXCEPT ![b] = r] BY <1>2
    <2>3. TidyWorksOn(b, [tidyRepo EXCEPT ![b] = r], {}) BY <1>5, <2>2 DEF PersonPushes
    <2> HIDE DEF r
    <2> QED BY <2>1, <2>3, WorkKeeps
  <1> QED BY <1>3, <1>4, <1>5

-----------------------------------------------------------------------------
LEMMA TidyNextInv == TidyInv /\ [TidyNext]_tidyVars => TidyInv'
  <1> SUFFICES ASSUME TidyInv, [TidyNext]_tidyVars PROVE TidyInv'
    OBVIOUS
  <1>1. CASE UNCHANGED tidyVars
    BY <1>1
    DEF tidyVars, TidyInv, TidyTypes, TidyTypeOK, MergedInv, EditInv, TipInv, ApplyInv,
        TidyLosesNothingSeen, HandRepo
  <1>2. CASE TidyNext
    BY <1>2, TidyCalledKeeps, SyncsKeeps, PrunesKeeps, ListsKeeps, TakesKeeps, FinishedKeeps,
       CountsKeeps, InspectsKeeps, ShipsKeeps, UnpushedKeeps, ReportsKeeps, RemovesKeeps,
       DeletesKeeps, PersonKeeps
    DEF TidyNext
  <1> QED BY <1>1, <1>2

(* The invariant, in every state of every sweep.                           *)
THEOREM TidyInductive == TidySpec => []TidyInv
  BY TidyInitInv, TidyNextInv, PTL DEF TidySpec

(* Every variable of the sweep keeps its type (VerbsTypeOK, its part).     *)
THEOREM TidyTypeCorrect == TidySpec => []TidyTypeOK
  <1>1. TidyInv => TidyTypeOK BY DEF TidyInv, TidyTypes
  <1> QED BY <1>1, TidyInductive, PTL

(* tidy.go:59: an edit or a commit is gone only if it was made after the   *)
(* read that would have seen it, a commit only from a branch with a pull   *)
(* request merged into the default branch, and neither without -apply.     *)
THEOREM NothingSeenIsLost == TidySpec => []TidyLosesNothingSeen
  <1>1. TidyInv => TidyLosesNothingSeen BY DEF TidyInv
  <1> QED BY <1>1, TidyInductive, PTL

-----------------------------------------------------------------------------
(*                              polako update                              *)

(* The verb as a behaviour of its own.                                     *)
UpdateSpec == UpdateInit /\ [][UpdateNext]_updateVars

Files == Releases \cup {NoFile, Bad}
UpdateHosts == [windows : BOOLEAN, tier : BuildTiers, plugin : PluginStates]
UpdatePcs ==
    {"rest", "read", "plan", "plugin", "binary", "verify", "aside", "replace", "putback"}
Swapping == updatePc \in {"aside", "replace", "putback"}

(* What the variables hold, the host and the history with their fields; a  *)
(* host is known from the first call on, and there is no file before it.   *)
UpdateTypes ==
    /\ UpdateTypeOK
    /\ updateRan \in [plugin : BOOLEAN, binary : BOOLEAN, cut : BOOLEAN, calls : Nat]
    /\ updateRan.calls = 0 => updatePc = "rest" /\ updateDisk.old = NoFile
    /\ updateRan.calls > 0 => updateHost \in UpdateHosts

(* What the call knows of the release by the time it stands somewhere: its *)
(* version is read before the plan; an asset is on disk only between the   *)
(* download and the end of the swap, and is the published one from the     *)
(* checksum on.                                                            *)
AssetInv ==
    /\ updatePc \notin {"rest", "read"} => published \in Releases
    /\ updatePc \notin {"verify", "aside", "replace", "putback"} => updateDisk.asset = NoFile
    /\ updatePc = "verify" =>
          updateDisk.asset \in {published, Bad} /\ updateSums \in {NoFile, published}
    /\ Swapping => updateDisk.asset = published

(* Where the running binary is.  It is out of place only between the two   *)
(* renames of Windows, and after a call that was cut short there.          *)
PlaceInv ==
    updateRan.calls > 0 =>
        /\ updateDisk.exe \in Releases \cup {NoFile} /\ updateDisk.old \in Releases \cup {NoFile}
        /\ updateDisk.exe = NoFile =>
              /\ updateDisk.old \in Releases
              /\ updateHost.windows /\ updateHost.tier = "stamped"
              /\ updatePc \in {"rest", "replace", "putback"}
              /\ updatePc = "rest" => updateRan.cut
        /\ updatePc \in {"verify", "aside", "replace", "putback"} => updateHost.tier = "stamped"
        /\ updatePc = "aside" => updateHost.windows
        /\ updatePc = "putback" => updateHost.windows
        /\ Swapping /\ updatePc # "aside" /\ updateHost.windows => updateDisk.exe = NoFile

(* What the plan settled: -check stops there, and the binary half starts   *)
(* only with nothing left for the plugin half.                             *)
PlanInv ==
    /\ updateCheck => updatePc \in {"rest", "read", "plan"}
    /\ updatePc \in {"binary", "verify", "aside", "replace", "putback"} => ~PluginAction

UpdateInv == UpdateTypes /\ AssetInv /\ PlaceInv /\ PlanInv

-----------------------------------------------------------------------------
(* What every proof unfolds.                                               *)
LEMMA NotAFile == NoFile \notin Releases /\ Bad \notin Releases /\ NoFile # Bad
  BY UpdateAssumption DEF NoFile, Bad

LEMMA UpdateInitInv == UpdateInit => UpdateInv
  <1> SUFFICES ASSUME UpdateInit PROVE UpdateInv
    OBVIOUS
  <1>1. updateRan = NotRun /\ updateRan.calls = 0 /\ updatePc = "rest"
    BY DEF UpdateInit, NotRun
  <1>2. updateRan \in [plugin : BOOLEAN, binary : BOOLEAN, cut : BOOLEAN, calls : Nat]
    BY <1>1 DEF NotRun
  <1>3. UpdateTypeOK
    <2>1. updateCheck \in BOOLEAN BY DEF UpdateInit
    <2>2. updateRan.calls \in 0..UpdateCalls BY <1>1, UpdateAssumption
    <2>3. updateDisk \in [exe : Releases \cup {NoFile, Bad}, old : Releases \cup {NoFile, Bad},
                          asset : Releases \cup {NoFile, Bad}]
      BY DEF UpdateInit
    <2>4. pluginHas \in Releases \cup {NoFile} /\ published \in Releases \cup {NoFile}
      BY DEF UpdateInit
    <2> QED BY <1>1, <2>1, <2>2, <2>3, <2>4 DEF UpdateTypeOK
  <1>4. UpdateTypes BY <1>1, <1>2, <1>3 DEF UpdateTypes, UpdateInit
  <1>5. AssetInv /\ PlaceInv /\ PlanInv
    BY <1>1 DEF UpdateInit, AssetInv, PlaceInv, PlanInv, Swapping
  <1> QED BY <1>4, <1>5 DEF UpdateInv

(* A step that begins in a call finds a host, and its files.               *)
LEMMA InACall ==
  ASSUME UpdateInv, updatePc # "rest"
  PROVE  /\ updateRan.calls \in Nat /\ updateRan.calls > 0
         /\ updateHost \in UpdateHosts
         /\ updateDisk \in [exe : Files, old : Files, asset : Files]
  BY DEF UpdateInv, UpdateTypes, UpdateTypeOK, Files

-----------------------------------------------------------------------------
(* One lemma per action.                                                   *)

LEMMA UpdateCalledKeeps == UpdateInv /\ UpdateCalled => UpdateInv'
  <1> SUFFICES ASSUME UpdateInv, UpdateCalled PROVE UpdateInv'
    OBVIOUS
  <1> USE NotAFile
  <1>1. updateRan' = [NotRun EXCEPT !.calls = updateRan.calls + 1] /\ updateRan.calls \in Nat
        /\ updateRan.calls < UpdateCalls /\ updatePc' = "read" /\ updateCheck' \in BOOLEAN
    BY DEF UpdateCalled, UpdateInv, UpdateTypes
  <1>2. updateRan' \in [plugin : BOOLEAN, binary : BOOLEAN, cut : BOOLEAN, calls : Nat]
        /\ updateRan'.calls \in 0..UpdateCalls /\ updateRan'.calls > 0
    <2>1. updateRan' = [plugin |-> FALSE, binary |-> FALSE, cut |-> FALSE,
                        calls |-> updateRan.calls + 1]
      BY <1>1 DEF NotRun
    <2> DEFINE n == updateRan.calls + 1
    <2>2. n \in Nat /\ n > 0 /\ n \in 0..UpdateCalls BY <1>1, UpdateAssumption
    <2>3. updateRan' = [plugin |-> FALSE, binary |-> FALSE, cut |-> FALSE, calls |-> n] BY <2>1
    <2> HIDE DEF n
    <2> QED BY <2>2, <2>3
  <1>3. updateDisk.asset = NoFile /\ updateDisk \in [exe : Files, old : Files, asset : Files]
    BY DEF UpdateCalled, UpdateInv, AssetInv, UpdateTypes, UpdateTypeOK, Files
  <1>4. /\ updateHost' \in UpdateHosts /\ pluginHas' \in Releases \cup {NoFile}
        /\ updateDisk' \in [exe : Files, old : Files, asset : Files]
        /\ updateDisk'.asset = NoFile /\ updateDisk'.exe \in Releases
        /\ updateDisk'.old \in Releases \cup {NoFile}
    <2>1. CASE updateRan.calls = 0
      <3>1. updateDisk.old \in Releases \cup {NoFile} BY <2>1 DEF UpdateInv, UpdateTypes
      <3> QED BY <1>3, <2>1, <3>1 DEF UpdateCalled, UpdateHosts, Files
    <2>2. CASE updateRan.calls # 0
      <3>1. updateRan.calls > 0 BY <1>1, <2>2
      <3> QED BY <1>3, <2>2, <3>1
              DEF UpdateCalled, UpdateInv, UpdateTypes, UpdateTypeOK, PlaceInv
    <2> QED BY <2>1, <2>2
  <1>5. published' = published /\ updateSums' = updateSums BY DEF UpdateCalled
  <1>6. published \in Releases \cup {NoFile} BY DEF UpdateInv, UpdateTypes, UpdateTypeOK
  <1>7. UpdateTypes' BY <1>1, <1>2, <1>4, <1>5, <1>6 DEF UpdateTypes, UpdateTypeOK, Files
  <1>8. AssetInv' BY <1>1, <1>4 DEF AssetInv, Swapping
  <1>9. PlaceInv' BY <1>1, <1>4 DEF PlaceInv, Swapping
  <1>10. PlanInv' BY <1>1 DEF PlanInv
  <1> QED BY <1>7, <1>8, <1>9, <1>10 DEF UpdateInv

(* What a step of a call leaves alone: the host, the flag and the count of *)
(* calls.  An action owes only the place it goes to, the files and what it *)
(* reports.                                                                *)
InCall ==
    /\ updatePc # "rest" /\ updatePc' \in UpdatePcs
    /\ UNCHANGED <<updateHost, updateCheck>>
    /\ updateDisk' \in [exe : Files, old : Files, asset : Files]
    /\ pluginHas' \in Releases \cup {NoFile} /\ published' \in Releases \cup {NoFile}
    /\ updateRan' \in [plugin : BOOLEAN, binary : BOOLEAN, cut : BOOLEAN, calls : Nat]
    /\ updateRan'.calls = updateRan.calls

LEMMA InCallTypes == UpdateInv /\ InCall => UpdateTypes'
  <1> SUFFICES ASSUME UpdateInv, InCall PROVE UpdateTypes'
    OBVIOUS
  <1>1. updateRan'.calls > 0 BY InACall DEF InCall
  <1>2. updateRan'.calls \in 0..UpdateCalls BY DEF InCall, UpdateInv, UpdateTypes, UpdateTypeOK
  <1>3. updateHost' \in UpdateHosts BY InACall DEF InCall
  <1>4. updateCheck' \in BOOLEAN BY DEF InCall, UpdateInv, UpdateTypes, UpdateTypeOK
  <1>5. UpdateTypeOK' BY <1>2, <1>4 DEF InCall, UpdateTypeOK, UpdatePcs, Files
  <1> QED BY <1>1, <1>3, <1>5 DEF InCall, UpdateTypes

LEMMA ReadsKeeps == UpdateInv /\ UpdateReads => UpdateInv'
  <1> SUFFICES ASSUME UpdateInv, UpdateReads PROVE UpdateInv'
    OBVIOUS
  <1> USE NotAFile
  <1>1. updatePc = "read" BY DEF UpdateReads, UpdateAt
  <1>2. InCall
    BY <1>1, InACall
    DEF UpdateReads, UpdateAt, UpdateGoes, UpdateReturns, InCall, UpdatePcs, UpdateInv,
        UpdateTypes, UpdateTypeOK
  <1>3. AssetInv'
    BY <1>1 DEF UpdateReads, UpdateAt, UpdateGoes, UpdateReturns, UpdateInv, AssetInv, Swapping
  <1>4. PlaceInv'
    BY <1>1, InACall
    DEF UpdateReads, UpdateAt, UpdateGoes, UpdateReturns, UpdateInv, PlaceInv, Swapping
  <1>5. PlanInv'
    BY <1>1 DEF UpdateReads, UpdateAt, UpdateGoes, UpdateReturns, UpdateInv, PlanInv
  <1> QED BY <1>2, <1>3, <1>4, <1>5, InCallTypes DEF UpdateInv

LEMMA PlansKeeps == UpdateInv /\ UpdatePlans => UpdateInv'
  <1> SUFFICES ASSUME UpdateInv, UpdatePlans PROVE UpdateInv'
    OBVIOUS
  <1> USE NotAFile
  <1>1. updatePc = "plan" BY DEF UpdatePlans, UpdateAt
  <1>2. updateDisk.exe \in Releases
    BY <1>1, InACall DEF UpdateInv, PlaceInv
  <1>3. /\ updateDisk' \in [exe : Files, old : Files, asset : Files]
        /\ updateDisk'.exe = updateDisk.exe /\ updateDisk'.asset = updateDisk.asset
        /\ updateDisk'.old \in {updateDisk.old, NoFile}
    BY <1>1, InACall DEF UpdatePlans, Files
  <1>4. updatePc' \in {"rest", "plugin", "binary"}
    BY DEF UpdatePlans, UpdateGoes, UpdateReturns
  <1>5. InCall
    BY <1>1, <1>3, <1>4, InACall
    DEF UpdatePlans, UpdateAt, InCall, UpdatePcs, UpdateInv, UpdateTypes, UpdateTypeOK
  <1>6. AssetInv'
    BY <1>1, <1>3, <1>4 DEF UpdatePlans, UpdateInv, AssetInv, Swapping
  <1>7. PlaceInv'
    BY <1>1, <1>2, <1>3, <1>4, InACall DEF UpdatePlans, UpdateInv, PlaceInv, Swapping
  <1>8. PlanInv'
    <2>1. PluginAction' = PluginAction
      BY DEF UpdatePlans, UpdateAt, PluginAction
    <2>2. updateCheck' => updatePc' = "rest"
      BY DEF UpdatePlans, UpdateAt, UpdateReturns
    <2>3. updatePc' = "binary" => ~PluginAction
      BY DEF UpdatePlans, UpdateGoes, UpdateReturns
    <2> QED BY <1>4, <2>1, <2>2, <2>3 DEF PlanInv
  <1> QED BY <1>5, <1>6, <1>7, <1>8, InCallTypes DEF UpdateInv

LEMMA PluginKeeps == UpdateInv /\ UpdatesPlugin => UpdateInv'
  <1> SUFFICES ASSUME UpdateInv, UpdatesPlugin PROVE UpdateInv'
    OBVIOUS
  <1> USE NotAFile
  <1>1. updatePc = "plugin" BY DEF UpdatesPlugin, UpdateAt
  <1>2. published \in Releases BY <1>1 DEF UpdateInv, AssetInv
  <1>3. updateRan \in [plugin : BOOLEAN, binary : BOOLEAN, cut : BOOLEAN, calls : Nat]
    BY DEF UpdateInv, UpdateTypes
  <1>4. updateRan' \in [plugin : BOOLEAN, binary : BOOLEAN, cut : BOOLEAN, calls : Nat]
        /\ updateRan'.calls = updateRan.calls /\ updateRan'.cut = updateRan.cut
    BY <1>3 DEF UpdatesPlugin
  <1>5. pluginHas' \in Releases \cup {NoFile}
    BY <1>2 DEF UpdatesPlugin, UpdateInv, UpdateTypes, UpdateTypeOK
  <1>6. updatePc' \in {"rest", "binary"} /\ (updatePc' = "binary" => pluginHas' = published)
    BY DEF UpdatesPlugin, UpdateGoes, UpdateReturns
  <1>7. InCall
    BY <1>1, <1>4, <1>5, <1>6, InACall
    DEF UpdatesPlugin, UpdateAt, InCall, UpdatePcs, UpdateInv, UpdateTypes, UpdateTypeOK
  <1>8. AssetInv' BY <1>1, <1>6 DEF UpdatesPlugin, UpdateInv, AssetInv, Swapping
  <1>9. PlaceInv'
    BY <1>1, <1>4, <1>6, InACall
    DEF UpdatesPlugin, UpdateAt, UpdateInv, PlaceInv, Swapping
  <1>10. PlanInv'
    BY <1>1, <1>6 DEF UpdatesPlugin, UpdateAt, UpdateInv, PlanInv, PluginAction
  <1> QED BY <1>7, <1>8, <1>9, <1>10, InCallTypes DEF UpdateInv

LEMMA InstallsKeeps == UpdateInv /\ GoInstalls => UpdateInv'
  <1> SUFFICES ASSUME UpdateInv, GoInstalls PROVE UpdateInv'
    OBVIOUS
  <1> USE NotAFile
  <1>1. updatePc = "binary" /\ updatePc' = "rest"
    BY DEF GoInstalls, UpdateAt, UpdateReturns
  <1>2. published \in Releases BY <1>1 DEF UpdateInv, AssetInv
  <1>3. updateDisk.exe \in Releases BY <1>1, InACall DEF UpdateInv, PlaceInv
  <1>4. updateRan \in [plugin : BOOLEAN, binary : BOOLEAN, cut : BOOLEAN, calls : Nat]
    BY DEF UpdateInv, UpdateTypes
  <1>5. updateRan' \in [plugin : BOOLEAN, binary : BOOLEAN, cut : BOOLEAN, calls : Nat]
        /\ updateRan'.calls = updateRan.calls
    BY <1>4 DEF GoInstalls
  <1>6. /\ updateDisk' \in [exe : Files, old : Files, asset : Files]
        /\ updateDisk'.exe \in Releases /\ updateDisk'.asset = updateDisk.asset
        /\ updateDisk'.old = updateDisk.old
    BY <1>1, <1>2, <1>3, InACall DEF GoInstalls, Files
  <1>7. InCall
    BY <1>1, <1>5, <1>6
    DEF GoInstalls, UpdateAt, InCall, UpdatePcs, UpdateInv, UpdateTypes, UpdateTypeOK
  <1>8. AssetInv' BY <1>1, <1>6 DEF UpdateInv, AssetInv, Swapping
  <1>9. PlaceInv' BY <1>1, <1>5, <1>6, InACall DEF UpdateInv, PlaceInv, Swapping
  <1>10. PlanInv' BY <1>1 DEF PlanInv
  <1> QED BY <1>7, <1>8, <1>9, <1>10, InCallTypes DEF UpdateInv

LEMMA DownloadsKeep == UpdateInv /\ Downloads => UpdateInv'
  <1> SUFFICES ASSUME UpdateInv, Downloads PROVE UpdateInv'
    OBVIOUS
  <1> USE NotAFile
  <1>1. updatePc = "binary" /\ updateHost.tier = "stamped" /\ updatePc' \in {"rest", "verify"}
    BY DEF Downloads, UpdateAt, UpdateGoes, UpdateReturns
  <1>2. published \in Releases BY <1>1 DEF UpdateInv, AssetInv
  <1>3. updateDisk.exe \in Releases BY <1>1, InACall DEF UpdateInv, PlaceInv
  <1>4. /\ updateDisk' \in [exe : Files, old : Files, asset : Files]
        /\ updateDisk'.exe = updateDisk.exe /\ updateDisk'.old = updateDisk.old
        /\ updatePc' = "verify" =>
              updateDisk'.asset \in {published, Bad} /\ updateSums' \in {NoFile, published}
        /\ updatePc' = "rest" => updateDisk'.asset = updateDisk.asset
    <2>1. CASE UpdateReturns /\ UNCHANGED <<updateDisk, updateSums>>
      BY <2>1, InACall, <1>1 DEF UpdateReturns
    <2>2. CASE /\ \E got \in {published, Bad} : updateDisk' = [updateDisk EXCEPT !.asset = got]
               /\ updateSums' \in {NoFile, published} /\ UpdateGoes("verify")
      BY <2>2, InACall, <1>1, <1>2 DEF UpdateGoes, Files
    <2> QED BY <2>1, <2>2 DEF Downloads
  <1>5. InCall
    BY <1>1, <1>4
    DEF Downloads, UpdateAt, InCall, UpdatePcs, UpdateInv, UpdateTypes, UpdateTypeOK
  <1>6. AssetInv'
    BY <1>1, <1>2, <1>4 DEF Downloads, UpdateInv, AssetInv, Swapping
  <1>7. PlaceInv'
    BY <1>1, <1>3, <1>4, InACall
    DEF Downloads, UpdateAt, UpdateInv, PlaceInv, Swapping
  <1>8. PlanInv'
    BY <1>1 DEF Downloads, UpdateAt, UpdateInv, PlanInv, PluginAction
  <1> QED BY <1>5, <1>6, <1>7, <1>8, InCallTypes DEF UpdateInv

(* The temp dir is swept: the rest of the disk stays.                      *)
LEMMA Swept ==
  ASSUME UpdateInv, updatePc # "rest"
  PROVE  /\ TempDirGone \in [exe : Files, old : Files, asset : Files]
         /\ TempDirGone.exe = updateDisk.exe /\ TempDirGone.old = updateDisk.old
         /\ TempDirGone.asset = NoFile
  BY InACall DEF TempDirGone, Files

LEMMA VerifiesKeeps == UpdateInv /\ Verifies => UpdateInv'
  <1> SUFFICES ASSUME UpdateInv, Verifies PROVE UpdateInv'
    OBVIOUS
  <1> USE NotAFile
  <1>1. updatePc = "verify" /\ updatePc' \in {"rest", "aside", "replace"}
    BY DEF Verifies, UpdateAt, UpdateGoes, UpdateReturns
  <1>2. updateDisk.exe \in Releases /\ published \in Releases
    BY <1>1, InACall DEF UpdateInv, PlaceInv, AssetInv
  <1>3. updatePc' # "rest" => updateDisk.asset = published /\ updateDisk' = updateDisk
                              /\ (updatePc' = "aside") = updateHost.windows
    BY <1>1, <1>2, InACall
    DEF Verifies, ChecksumFits, UpdateGoes, UpdateReturns, UpdateInv, AssetInv, UpdateHosts
  <1>4. updatePc' = "rest" => updateDisk' = TempDirGone
    BY DEF Verifies, UpdateGoes, UpdateReturns
  <1>5. updateDisk' \in [exe : Files, old : Files, asset : Files]
        /\ updateDisk'.exe = updateDisk.exe /\ updateDisk'.old = updateDisk.old
    BY <1>1, <1>3, <1>4, Swept, InACall
  <1>6. InCall
    BY <1>1, <1>5
    DEF Verifies, UpdateAt, InCall, UpdatePcs, UpdateInv, UpdateTypes, UpdateTypeOK
  <1>7. AssetInv'
    BY <1>1, <1>2, <1>3, <1>4, Swept DEF Verifies, AssetInv, Swapping
  <1>8. PlaceInv'
    BY <1>1, <1>2, <1>3, <1>5, InACall
    DEF Verifies, UpdateAt, UpdateInv, PlaceInv, Swapping, UpdateHosts
  <1>9. PlanInv' BY <1>1 DEF Verifies, UpdateAt, UpdateInv, PlanInv, PluginAction
  <1> QED BY <1>6, <1>7, <1>8, <1>9, InCallTypes DEF UpdateInv

LEMMA AsideKeeps == UpdateInv /\ MovesAside => UpdateInv'
  <1> SUFFICES ASSUME UpdateInv, MovesAside PROVE UpdateInv'
    OBVIOUS
  <1> USE NotAFile
  <1>1. updatePc = "aside" /\ updateHost.windows /\ updateHost.tier = "stamped"
    BY InACall DEF MovesAside, UpdateAt, UpdateInv, PlaceInv
  <1>2. updateDisk.exe \in Releases /\ published \in Releases /\ updateDisk.asset = published
    BY <1>1, InACall DEF UpdateInv, PlaceInv, AssetInv, Swapping
  <1>3. \/ updatePc' = "rest" /\ updateDisk' = TempDirGone
        \/ /\ updatePc' = "replace" /\ updateDisk'.exe = NoFile
           /\ updateDisk'.old = updateDisk.exe /\ updateDisk'.asset = published
           /\ updateDisk' \in [exe : Files, old : Files, asset : Files]
    BY <1>1, <1>2, InACall DEF MovesAside, UpdateGoes, UpdateReturns, Files
  <1>4. InCall
    BY <1>1, <1>3, Swept
    DEF MovesAside, UpdateAt, InCall, UpdatePcs, UpdateInv, UpdateTypes, UpdateTypeOK
  <1>5. AssetInv' BY <1>1, <1>2, <1>3, Swept DEF MovesAside, AssetInv, Swapping
  <1>6. PlaceInv'
    BY <1>1, <1>2, <1>3, Swept, InACall
    DEF MovesAside, UpdateAt, UpdateInv, PlaceInv, Swapping
  <1>7. PlanInv' BY <1>1, <1>3 DEF MovesAside, UpdateAt, UpdateInv, PlanInv, PluginAction
  <1> QED BY <1>4, <1>5, <1>6, <1>7, InCallTypes DEF UpdateInv

LEMMA ReplacesKeeps == UpdateInv /\ Replaces => UpdateInv'
  <1> SUFFICES ASSUME UpdateInv, Replaces PROVE UpdateInv'
    OBVIOUS
  <1> USE NotAFile
  <1>1. updatePc = "replace" /\ updateHost.tier = "stamped"
    BY InACall DEF Replaces, UpdateAt, UpdateInv, PlaceInv
  <1>2. published \in Releases /\ updateDisk.asset = published
    BY <1>1 DEF UpdateInv, AssetInv, Swapping
  <1>3. IF updateHost.windows THEN updateDisk.exe = NoFile /\ updateDisk.old \in Releases
                              ELSE updateDisk.exe \in Releases
    BY <1>1, InACall DEF UpdateInv, PlaceInv, Swapping
  <1>4. updateRan \in [plugin : BOOLEAN, binary : BOOLEAN, cut : BOOLEAN, calls : Nat]
    BY DEF UpdateInv, UpdateTypes
  <1>5. updateRan' \in [plugin : BOOLEAN, binary : BOOLEAN, cut : BOOLEAN, calls : Nat]
        /\ updateRan'.calls = updateRan.calls
    BY <1>4 DEF Replaces
  <1>6. \/ updatePc' = "putback" /\ updateHost.windows /\ updateDisk' = updateDisk
        \/ updatePc' = "rest" /\ ~updateHost.windows /\ updateDisk' = TempDirGone
        \/ /\ updatePc' = "rest" /\ updateDisk'.exe = published
           /\ updateDisk'.old = updateDisk.old /\ updateDisk'.asset = NoFile
           /\ updateDisk' \in [exe : Files, old : Files, asset : Files]
    <2>1. CASE ReplaceFails BY <2>1 DEF ReplaceFails, UpdateGoes, UpdateReturns
    <2>2. CASE updateDisk' = [TempDirGone EXCEPT !.exe = updateDisk.asset] /\ UpdateReturns
      BY <1>1, <1>2, <2>2, Swept DEF UpdateReturns, Files
    <2> QED BY <2>1, <2>2 DEF Replaces
  <1>7. InCall
    BY <1>1, <1>5, <1>6, Swept, InACall
    DEF Replaces, UpdateAt, InCall, UpdatePcs, UpdateInv, UpdateTypes, UpdateTypeOK
  <1>8. AssetInv' BY <1>1, <1>2, <1>6, Swept DEF Replaces, AssetInv, Swapping
  <1>9. PlaceInv'
    <2>1. updateHost' = updateHost /\ updateHost \in UpdateHosts
          /\ updateDisk.old \in Releases \cup {NoFile}
      BY <1>1, InACall DEF Replaces, UpdateAt, UpdateInv, PlaceInv
    <2> QED BY <1>1, <1>2, <1>3, <1>6, <2>1, Swept DEF PlaceInv, Swapping
  <1>10. PlanInv' BY <1>1, <1>6 DEF Replaces, UpdateAt, UpdateInv, PlanInv, PluginAction
  <1> QED BY <1>7, <1>8, <1>9, <1>10, InCallTypes DEF UpdateInv

LEMMA PutsBackKeeps == UpdateInv /\ PutsBack => UpdateInv'
  <1> SUFFICES ASSUME UpdateInv, PutsBack PROVE UpdateInv'
    OBVIOUS
  <1> USE NotAFile
  <1>1. updatePc = "putback" /\ updatePc' = "rest"
        /\ updateHost.windows /\ updateHost.tier = "stamped"
    BY InACall DEF PutsBack, UpdateAt, UpdateReturns, UpdateInv, PlaceInv
  <1>2. updateDisk.exe = NoFile /\ updateDisk.old \in Releases
    BY <1>1, InACall DEF UpdateInv, PlaceInv, Swapping
  <1>3. updateRan \in [plugin : BOOLEAN, binary : BOOLEAN, cut : BOOLEAN, calls : Nat]
    BY DEF UpdateInv, UpdateTypes
  <1>4. /\ updateRan' \in [plugin : BOOLEAN, binary : BOOLEAN, cut : BOOLEAN, calls : Nat]
        /\ updateRan'.calls = updateRan.calls
        /\ \/ updateRan'.cut /\ updateDisk' = TempDirGone
           \/ /\ updateDisk' \in [exe : Files, old : Files, asset : Files]
              /\ updateDisk'.exe = updateDisk.old /\ updateDisk'.old = NoFile
              /\ updateDisk'.asset = NoFile
    BY <1>1, <1>2, <1>3, Swept DEF PutsBack, Files
  <1>5. InCall
    BY <1>1, <1>4, Swept
    DEF PutsBack, UpdateAt, InCall, UpdatePcs, UpdateInv, UpdateTypes, UpdateTypeOK
  <1>6. AssetInv' BY <1>1, <1>4, Swept DEF AssetInv, Swapping
  <1>7. PlaceInv' BY <1>1, <1>2, <1>4, Swept DEF PutsBack, UpdateAt, PlaceInv, Swapping
  <1>8. PlanInv' BY <1>1 DEF PlanInv
  <1> QED BY <1>5, <1>6, <1>7, <1>8, InCallTypes DEF UpdateInv

LEMMA KilledKeeps == UpdateInv /\ UpdateKilled => UpdateInv'
  <1> SUFFICES ASSUME UpdateInv, UpdateKilled PROVE UpdateInv'
    OBVIOUS
  <1> USE NotAFile
  <1>1. updatePc # "rest" /\ updatePc' = "rest" /\ updateDisk' = TempDirGone
        /\ updateHost' = updateHost
    BY DEF UpdateKilled, UpdateReturns
  <1>2. updateRan \in [plugin : BOOLEAN, binary : BOOLEAN, cut : BOOLEAN, calls : Nat]
    BY DEF UpdateInv, UpdateTypes
  <1>3. DEFINE cut == updatePc \in {"replace", "putback"}
  <1>4. updateRan' = [updateRan EXCEPT !.cut = cut] /\ cut \in BOOLEAN
    BY DEF UpdateKilled
  <1>5. /\ updateRan' \in [plugin : BOOLEAN, binary : BOOLEAN, cut : BOOLEAN, calls : Nat]
        /\ updateRan'.calls = updateRan.calls /\ updateRan'.cut = cut
    <2> HIDE DEF cut
    <2> QED BY <1>2, <1>4
  <1>6. InCall
    BY <1>1, <1>5, Swept DEF UpdateKilled, InCall, UpdatePcs, UpdateInv, UpdateTypes, UpdateTypeOK
  <1>7. AssetInv' BY <1>1, Swept DEF AssetInv, Swapping
  <1>8. PlaceInv' BY <1>1, <1>5, Swept, InACall DEF UpdateInv, PlaceInv, Swapping
  <1>9. PlanInv' BY <1>1 DEF PlanInv
  <1> QED BY <1>6, <1>7, <1>8, <1>9, InCallTypes DEF UpdateInv

LEMMA RestoresKeeps == UpdateInv /\ OperatorRestores => UpdateInv'
  <1> SUFFICES ASSUME UpdateInv, OperatorRestores PROVE UpdateInv'
    OBVIOUS
  <1> USE NotAFile
  <1>1. updatePc = "rest" /\ updateRan.calls > 0 /\ updateDisk.old \in Releases
    BY DEF OperatorRestores, UpdateInv, UpdateTypes, UpdateTypeOK, PlaceInv
  <1>2. updateDisk \in [exe : Files, old : Files, asset : Files]
    BY DEF UpdateInv, UpdateTypes, UpdateTypeOK, Files
  <1>3. /\ updateDisk' \in [exe : Files, old : Files, asset : Files]
        /\ updateDisk'.exe = updateDisk.old /\ updateDisk'.old = NoFile
        /\ updateDisk'.asset = updateDisk.asset
    BY <1>1, <1>2 DEF OperatorRestores, Files
  <1>4. UNCHANGED <<updatePc, updateHost, updateCheck, updateSums, pluginHas, published, updateRan>>
    BY DEF OperatorRestores
  <1>5. UpdateTypes'
    BY <1>1, <1>3, <1>4 DEF UpdateInv, UpdateTypes, UpdateTypeOK, Files, UpdateHosts
  <1>6. AssetInv' BY <1>1, <1>3, <1>4 DEF UpdateInv, AssetInv, Swapping
  <1>7. PlaceInv' BY <1>1, <1>3, <1>4 DEF PlaceInv, Swapping
  <1>8. PlanInv' BY <1>1, <1>4 DEF PlanInv
  <1> QED BY <1>5, <1>6, <1>7, <1>8 DEF UpdateInv

-----------------------------------------------------------------------------
LEMMA UpdateNextInv == UpdateInv /\ [UpdateNext]_updateVars => UpdateInv'
  <1> SUFFICES ASSUME UpdateInv, [UpdateNext]_updateVars PROVE UpdateInv'
    OBVIOUS
  <1>1. CASE UNCHANGED updateVars
    BY <1>1
    DEF updateVars, UpdateInv, UpdateTypes, UpdateTypeOK, AssetInv, PlaceInv, PlanInv, Swapping,
        PluginAction
  <1>2. CASE UpdateNext
    BY <1>2, UpdateCalledKeeps, ReadsKeeps, PlansKeeps, PluginKeeps, InstallsKeeps, DownloadsKeep,
       VerifiesKeeps, AsideKeeps, ReplacesKeeps, PutsBackKeeps, KilledKeeps, RestoresKeeps
    DEF UpdateNext
  <1> QED BY <1>1, <1>2

(* The invariant, in every state of every behaviour.                       *)
THEOREM UpdateInductive == UpdateSpec => []UpdateInv
  BY UpdateInitInv, UpdateNextInv, PTL DEF UpdateSpec

(* Every variable of the verb keeps its type (VerbsTypeOK, its part).      *)
THEOREM UpdateTypeCorrect == UpdateSpec => []UpdateTypeOK
  <1>1. UpdateInv => UpdateTypeOK BY DEF UpdateInv, UpdateTypes
  <1> QED BY <1>1, UpdateInductive, PTL

LEMMA InvKeepsBinary == UpdateInv => AlwaysABinary
  <1> SUFFICES ASSUME UpdateInv, updateRan.calls > 0
               PROVE  /\ \E f \in {"exe", "old"} : updateDisk[f] \in Releases
                      /\ updateDisk.exe # Bad /\ updateDisk.old # Bad
                      /\ updateDisk.exe = NoFile => updateHost.windows /\ updateHost.tier = "stamped"
                      /\ updateDisk.exe = NoFile /\ updatePc = "rest" => updateRan.cut
    BY DEF AlwaysABinary
  <1>1. updateDisk["exe"] \in Releases \/ updateDisk["old"] \in Releases
    BY DEF UpdateInv, PlaceInv
  <1> QED BY <1>1, NotAFile DEF UpdateInv, PlaceInv

(* update.go:404, 415: whatever step fails, and wherever the process is    *)
(* killed, the binary or the copy moved aside is a release.                *)
THEOREM BinaryKept == UpdateSpec => []AlwaysABinary
  BY UpdateInductive, InvKeepsBinary, PTL

(* update.go:681: a step of the binary half finds the plugin half done,    *)
(* and a step of a call with -check changes neither.                       *)
THEOREM HalvesKept == UpdateSpec => HalvesInOrder
  <1> DEFINE A == /\ AlwaysABinary'
                  /\ updateCheck /\ updatePc # "rest" => UNCHANGED <<updateDisk, pluginHas>>
                  /\ updateDisk'.exe # updateDisk.exe /\ updatePc \in {"binary", "replace"} =>
                        ~PluginAction
  <1>1. UpdateInv /\ UpdateInv' /\ [UpdateNext]_updateVars => [A]_updateVars
    <2> SUFFICES ASSUME UpdateInv, UpdateInv', UpdateNext PROVE A
      OBVIOUS
    <2>1. AlwaysABinary'
      <3>1. UpdateInv' => AlwaysABinary' BY InvKeepsBinary, PTL
      <3> QED BY <3>1
    <2>2. updatePc \in {"binary", "replace"} => ~PluginAction BY DEF UpdateInv, PlanInv
    <2>3. ASSUME updateCheck, updatePc # "rest" PROVE UNCHANGED <<updateDisk, pluginHas>>
      <3>1. updatePc \in {"read", "plan"} BY <2>3 DEF UpdateInv, PlanInv
      <3>2. TempDirGone = updateDisk /\ [updateDisk EXCEPT !.old = @] = updateDisk
        BY <2>3, <3>1, InACall DEF TempDirGone, UpdateInv, AssetInv
      <3>3. ~ClearsOld BY <2>3 DEF ClearsOld
      <3>4. UpdateReads \/ UpdatePlans \/ UpdateKilled
        BY <3>1 DEF UpdateNext, UpdateCalled, UpdatesPlugin, GoInstalls, Downloads, Verifies,
                   MovesAside, Replaces, PutsBack, OperatorRestores, UpdateAt
      <3>5. CASE UpdateReads BY <3>5 DEF UpdateReads
      <3>6. CASE UpdatePlans BY <3>2, <3>3, <3>6 DEF UpdatePlans
      <3>7. CASE UpdateKilled BY <3>2, <3>7 DEF UpdateKilled
      <3> QED BY <3>4, <3>5, <3>6, <3>7
    <2> QED BY <2>1, <2>2, <2>3
  <1>2. HalvesInOrder <=> [][A]_updateVars BY DEF HalvesInOrder
  <1>3. UpdateSpec => [][UpdateNext]_updateVars BY DEF UpdateSpec
  <1> QED BY <1>1, <1>2, <1>3, UpdateInductive, PTL
=============================================================================
