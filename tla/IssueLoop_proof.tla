--------------------------- MODULE IssueLoop_proof ---------------------------
(***************************************************************************)
(* Theorems of module IssueLoop, for every value of its constants.         *)
(*                                                                         *)
(*   TypeCorrect    every variable stays in its range                      *)
(*   LedgerSafe     no leg exceeds a retry budget                          *)
(*   RunsPaidFor    no run of a leg comes for nothing                      *)
(*   PRSafe         the skill never runs once a pull request was seen      *)
(*   BlindOnce      a pull request is run past unseen at most once         *)
(*   BudgetsSafe    nor the spend cap by more than one run                 *)
(*   NoStaleWait    no wait on a question the run did not put              *)
(*   RefusalBlamed  a park blames the refusal that was pending             *)
(*   DeadStaysDead  a session that could not be resumed is forgotten       *)
(*   AnswerTold     the run after an answer is told so                     *)
(*   ClosedClean    finished without a pull request only off a clean run   *)
(*   Refinement     the loop implements module IssueLife                   *)
(*   LegsKept       and, from leg to leg, module IssueLegs                 *)
(***************************************************************************)
EXTENDS IssueLoop, TLAPS

-----------------------------------------------------------------------------
(* The operators on the ledger, the run and the history are well typed.    *)

(* The ledger's transitions (resumeLedger) keep it a ledger.               *)
LEMMA LedgerOps ==
    ASSUME NEW l \in LedgerType, NEW p \in BOOLEAN
    PROVE  /\ FreshLedger \in LedgerType
           /\ ClearRetries(l) \in LedgerType
           /\ NoteCrashResume(l, p) \in LedgerType
           /\ NoteCleanResume(l) \in LedgerType
           /\ ResumeNext(l) \in LedgerType
           /\ DeferRefusal(l, p) \in LedgerType
  <1>1. /\ l.fruitless + 1 \in Nat /\ l.resumes + 1 \in Nat
        /\ l.cleanResumes + 1 \in Nat
    BY DEF LedgerType
  <1>2. (IF p THEN 0 ELSE l.fruitless + 1) \in Nat
    BY <1>1
  <1>3. (l.deferred \/ p) \in BOOLEAN
    BY DEF LedgerType
  <1>4. FreshLedger \in LedgerType /\ ClearRetries(l) \in LedgerType
    BY DEF LedgerType, FreshLedger, ClearRetries
  <1>5. NoteCrashResume(l, p) \in LedgerType
    BY <1>1, <1>2 DEF LedgerType, NoteCrashResume
  <1>6. NoteCleanResume(l) \in LedgerType
    BY <1>1 DEF LedgerType, NoteCleanResume
  <1>7. ResumeNext(l) \in LedgerType
    BY DEF LedgerType, ResumeNext
  <1>8. DeferRefusal(l, p) \in LedgerType
    BY <1>3 DEF LedgerType, DeferRefusal
  <1> QED
    BY <1>4, <1>5, <1>6, <1>7, <1>8

(* A run stays a run as it starts, posts its question and returns.         *)
LEMMA RunOps ==
    ASSUME NEW r \in RunType, NEW e \in RunErrors, NEW p \in BOOLEAN, NEW q \in BOOLEAN,
           NEW m \in {"none", "asked", "refused", "workedAround"}, NEW k \in RunKinds
    PROVE  /\ NoRun \in RunType
           /\ Posted(r) \in RunType
           /\ Returned(r, e, p, m) \in RunType
           /\ [NoRun EXCEPT !.kind = k, !.resumed = p, !.wasFlagged = q] \in RunType
  <1>1. NoRun \in RunType BY DEF NoRun, RunType, RunKinds, RunErrors
  <1>2. Posted(r) \in RunType BY DEF Posted, RunType
  <1>3. Returned(r, e, p, m) \in RunType BY DEF Returned, RunType
  <1>4. [NoRun EXCEPT !.kind = k, !.resumed = p, !.wasFlagged = q] \in RunType BY <1>1 DEF RunType
  <1> QED BY <1>1, <1>2, <1>3, <1>4

(* The history keeps its shape.                                            *)
LEMMA HistOps ==
    ASSUME NEW h \in HistType, NEW p \in BOOLEAN
    PROVE  /\ NoHist \in HistType /\ LegOver(h, p) \in HistType
           /\ ShiftOver(h) \in HistType
           /\ ShiftStarts(h) \in HistType
           /\ PRSeen(h) \in HistType
           /\ Dispatched(h, p) \in HistType
           /\ RunOver(h, p) \in HistType
           /\ LimitWaitedOut(h) \in HistType
           /\ AnswerFolded(h) \in HistType
  <1>1. /\ h.runs + 1 \in Nat /\ h.limits + 1 \in Nat /\ h.folded + 1 \in Nat
        /\ h.shifts + 1 \in Nat /\ h.blindRuns + 1 \in Nat
    BY DEF HistType
  <1>2. (IF p THEN h.blindRuns + 1 ELSE h.blindRuns) \in Nat BY <1>1 DEF HistType
  <1>3. LegOver(h, p) \in HistType /\ LegOver(h, FALSE) \in HistType
    BY DEF HistType, LegOver
  <1>4. ShiftOver(h) \in HistType
    BY <1>3 DEF HistType, ShiftOver
  <1>5. ShiftOver(h).shifts + 1 \in Nat BY <1>4 DEF HistType
  <1>6. ShiftStarts(h) \in HistType
    BY <1>4, <1>5 DEF HistType, ShiftStarts
  <1>7. PRSeen(h) \in HistType /\ RunOver(h, p) \in HistType /\ NoHist \in HistType
    BY DEF HistType, PRSeen, RunOver, NoHist
  <1>8. Dispatched(h, p) \in HistType 
    BY <1>1, <1>2 DEF HistType, Dispatched
  <1>9. LimitWaitedOut(h) \in HistType 
    BY <1>1 DEF HistType, LimitWaitedOut
  <1>10. AnswerFolded(h) \in HistType
    BY <1>1 DEF HistType, AnswerFolded
  <1> QED BY <1>3, <1>4, <1>6, <1>7, <1>8, <1>9, <1>10

-----------------------------------------------------------------------------
(* Every variable stays in its range, whatever the constants are.          *)
THEOREM TypeCorrect == Spec => []TypeOK
<1>1. Init => TypeOK
  <2> SUFFICES ASSUME Init PROVE TypeOK
    OBVIOUS
  <2>1. FreshLedger \in LedgerType /\ NoRun \in RunType /\ NoHist \in HistType
    BY DEF FreshLedger, LedgerType, NoRun, RunType, RunErrors, RunKinds, NoHist, HistType
  <2>2. /\ pr \in PRStates \cup {NoPR} /\ pc \in PCs /\ result \in Results
        /\ thread \in Seq({"ask", "answer"})
    BY DEF Init, PCs, Results, NoPR, PRStates
  <2> QED
    BY <2>1, <2>2 DEF Init, TypeOK
<1>2. TypeOK /\ [Next]_vars => TypeOK'
  <2> SUFFICES ASSUME TypeOK, [Next]_vars PROVE TypeOK'
    OBVIOUS
  <2>a. /\ run.progressed \in BOOLEAN /\ (run.perm = "workedAround") \in BOOLEAN
        /\ ledger \in LedgerType /\ ledger.deferred \in BOOLEAN /\ hist \in HistType
        /\ (pr # NoPR) \in BOOLEAN
    BY DEF TypeOK, RunType, LedgerType
  <2>b. AfterRefusal \in LedgerType
    BY <2>a, LedgerOps DEF AfterRefusal
  <2>c. AfterRefusal.deferred \in BOOLEAN
    BY <2>b DEF LedgerType
  <2>g. /\ FreshLedger \in LedgerType /\ ClearRetries(ledger) \in LedgerType
        /\ NoteCrashResume(ledger, run.progressed) \in LedgerType
        /\ NoteCleanResume(AfterRefusal) \in LedgerType /\ ResumeNext(ledger) \in LedgerType
        /\ NoRun \in RunType
        /\ LegOver(hist, FALSE) \in HistType /\ LegOver(hist, ledger.deferred) \in HistType
        /\ LegOver(hist, AfterRefusal.deferred) \in HistType
        /\ ShiftOver(hist) \in HistType /\ ShiftStarts(hist) \in HistType
        /\ PRSeen(hist) \in HistType /\ LimitWaitedOut(hist) \in HistType
        /\ AnswerFolded(hist) \in HistType
    <3>1. /\ FreshLedger \in LedgerType /\ ClearRetries(ledger) \in LedgerType
          /\ NoteCrashResume(ledger, run.progressed) \in LedgerType
          /\ NoteCleanResume(AfterRefusal) \in LedgerType /\ ResumeNext(ledger) \in LedgerType
      BY <2>a, <2>b, LedgerOps
    <3>2. NoRun \in RunType
      BY DEF NoRun, RunType, RunErrors, RunKinds
    <3>3. /\ LegOver(hist, FALSE) \in HistType /\ LegOver(hist, ledger.deferred) \in HistType
          /\ LegOver(hist, AfterRefusal.deferred) \in HistType
      BY <2>a, <2>c, HistOps
    <3>4. /\ ShiftOver(hist) \in HistType /\ ShiftStarts(hist) \in HistType
          /\ PRSeen(hist) \in HistType /\ LimitWaitedOut(hist) \in HistType
          /\ AnswerFolded(hist) \in HistType
      BY <2>a, HistOps
    <3> QED
      BY <3>1, <3>2, <3>3, <3>4
  <2>d. /\ Dispatched(hist, pr # NoPR) \in HistType
        /\ [NoRun EXCEPT !.kind = NextRunKind, !.resumed = Resumes, !.wasFlagged = flag] \in RunType
    <3>1. Dispatched(hist, pr # NoPR) \in HistType
      BY <2>a, HistOps
    <3>2. NextRunKind \in RunKinds /\ Resumes \in BOOLEAN /\ flag \in BOOLEAN
      BY <2>a DEF TypeOK, NextRunKind, Resumes, RunKinds, LedgerType
    <3>3. [NoRun EXCEPT !.kind = NextRunKind, !.resumed = Resumes, !.wasFlagged = flag] \in RunType
      BY <3>2 DEF NoRun, RunType, RunErrors
    <3> QED
      BY <3>1, <3>3
  <2>p. Posted(run) \in RunType
    BY DEF TypeOK, RunType, Posted
  <2>x. ASSUME NEW err \in RunErrors, NEW started \in BOOLEAN, NEW progressed \in BOOLEAN,
               NEW perm \in {"none", "asked", "refused", "workedAround"}
        PROVE  /\ Returned(run, err, progressed, perm) \in RunType
               /\ RunOver(hist, run.resumed /\ ~started) \in HistType
    <3>1. Returned(run, err, progressed, perm) \in RunType
      BY DEF TypeOK, RunType, Returned
    <3>2. (run.resumed /\ ~started) \in BOOLEAN
      OBVIOUS
    <3>3. RunOver(hist, run.resumed /\ ~started) \in HistType
      BY <2>a, <3>2, HistOps
    <3> QED
      BY <3>1, <3>3
  <2> USE DEF TypeOK, github, memory
  <2>1. CASE Pickup
    <3>1. PICK fetch \in {"ok", "auth"} : StartLeg(fetch)
      BY <2>1 DEF Pickup
    <3>2. answered' \in BOOLEAN /\ fetchAuth' \in BOOLEAN
      BY <3>1 DEF StartLeg
    <3>3. pc' \in PCs
      BY <3>1 DEF StartLeg, PCs, Deciding
    <3> QED
      BY <3>1, <3>2, <3>3, <2>g DEF StartLeg
  <2>2. CASE LookFindsPR
    BY <2>2, <2>g DEF LookFindsPR, OnPR, PCs, Deciding, Results, ParkCategories
  <2>3. CASE LookHolds
    BY <2>3, <2>g DEF LookHolds, EndLeg, PCs, Deciding, Results, ParkCategories
  <2>4. CASE LookDispatches
    BY <2>4 DEF LookDispatches, PCs, Deciding, Results, ParkCategories
  <2>5. CASE GateParks
    BY <2>5, <2>g DEF GateParks, Park, EndLeg, ForgetIssue, PCs, Deciding,
       Results, ParkCategories
  <2>6. CASE Dispatch
    <3>1. answered' \in BOOLEAN /\ pc' \in PCs
      BY <2>6 DEF Dispatch, PCs, Deciding
    <3> QED
      BY <2>6, <2>d, <3>1 DEF Dispatch
  <2>7. CASE ReLookFindsPR
    BY <2>7, <2>g DEF ReLookFindsPR, OnPR, PCs, Deciding, Results,
       ParkCategories
  <2>8. CASE ReLookFindsNone
    BY <2>8 DEF ReLookFindsNone, PCs, Deciding, Results, ParkCategories
  <2>9. CASE ClosedNoChange
    BY <2>9, <2>g DEF ClosedNoChange, EndLeg, ForgetIssue, PCs, Deciding,
       Results, ParkCategories
  <2>10. CASE StillOpen
    BY <2>10 DEF StillOpen, PCs, Deciding, Results, ParkCategories
  <2>11. CASE AuthRefused
    BY <2>11, <2>g DEF AuthRefused, Stop, Gone, ForgetIssue, PCs, Deciding,
       Results, ParkCategories
  <2>12. CASE KilledByCap
    BY <2>12, <2>g DEF KilledByCap, Park, EndLeg, ForgetIssue, PCs, Deciding,
       Results, ParkCategories
  <2>13. CASE WaitOutLimit
    BY <2>13, <2>g DEF WaitOutLimit, PCs, Deciding, Results, ParkCategories
  <2>14. CASE ClassifyAsked
    BY <2>14 DEF ClassifyAsked, PCs, Deciding, Results, ParkCategories
  <2>15. CASE ResumeCrash
    BY <2>15, <2>g DEF ResumeCrash, Crashed, PCs, Deciding, Results, ParkCategories
  <2>16. CASE CrashOverBudget
    BY <2>16, <2>g DEF CrashOverBudget, Crashed, Park, EndLeg, ForgetIssue,
       PCs, Deciding, Results, ParkCategories
  <2>17. CASE GiveUpAfterCrash
    BY <2>17, <2>g DEF GiveUpAfterCrash, Crashed, Park, EndLeg, ForgetIssue,
       PCs, Deciding, Results, ParkCategories
  <2>18. CASE CleanRefused
    BY <2>18, <2>g DEF CleanRefused, CleanExit, Park, EndLeg, ForgetIssue,
       PCs, Deciding, Results, ParkCategories
  <2>19. CASE CleanResume
    BY <2>19, <2>g DEF CleanResume, CleanExit, PCs, Deciding, Results, ParkCategories
  <2>20. CASE CleanPark
    BY <2>20, <2>g DEF CleanPark, CleanExit, Park, EndLeg, ForgetIssue,
       Disposition, PCs, Deciding, Results, ParkCategories
  <2>21. CASE HandOffDefers
    <3>1. baseline' \in Nat /\ awaiting' \in BOOLEAN
      BY <2>21 DEF HandOffDefers
    <3>2. pc' \in PCs /\ result' \in Results
      BY <2>21 DEF HandOffDefers, EndLeg, PCs, Results
    <3> QED
      BY <2>21, <3>1, <3>2, <2>g DEF HandOffDefers, EndLeg
  <2>22. CASE HandOffWaits
    BY <2>22, <2>g DEF HandOffWaits, PCs, Deciding, Results, ParkCategories
  <2>23. CASE ReplyArrives
    BY <2>23, <2>g DEF ReplyArrives, PCs, Deciding, Results, ParkCategories
  <2>24. CASE WatchMerged
    BY <2>24, <2>g DEF WatchMerged, EndLeg, ForgetIssue, PCs, Deciding,
       Results, ParkCategories
  <2>25. CASE WatchClosed
    BY <2>25, <2>g DEF WatchClosed, Park, EndLeg, ForgetIssue, PCs, Deciding,
       Results, ParkCategories
  <2>26. CASE RunWorks
    BY <2>26 DEF RunWorks, InRun
  <2>27. CASE RunPostsQuestion
    BY <2>27, <2>p DEF RunPostsQuestion, InRun
  <2>28. CASE RunFlagsQuestion
    BY <2>28 DEF RunFlagsQuestion, InRun
  <2>29. CASE RunClearsFlag
    BY <2>29 DEF RunClearsFlag, InRun
  <2>30. CASE RunOpensPR
    BY <2>30 DEF RunOpensPR, InRun, NoPR, PRStates
  <2>31. CASE RunClosesIssue
    BY <2>31 DEF RunClosesIssue, InRun
  <2>32. CASE RunExit
    <3>1. PICK err \in RunErrors, started \in BOOLEAN, progressed \in BOOLEAN, cost \in RunCosts,
               perm \in {"none", "asked", "refused", "workedAround"} :
               RunEnds(err, started, progressed, perm, cost)
      BY <2>32 DEF RunExit
    <3>2. spent' \in Nat
      BY <3>1, CostAssumption DEF RunEnds
    <3>3. session' \in {"none", "live", "lost"}
      BY <3>1 DEF RunEnds, SessionAfter
    <3>4. run' \in RunType /\ hist' \in HistType
      BY <3>1, <2>x DEF RunEnds
    <3> QED
      BY <3>1, <3>2, <3>3, <3>4 DEF RunEnds, PCs, Deciding
  <2>33. CASE PersonReplies
    BY <2>33 DEF PersonReplies, Outside
  <2>34. CASE PersonActsOnPR
    BY <2>34 DEF PersonActsOnPR, Outside, NoPR, PRStates
  <2>35. CASE PersonClearsNeedsHuman
    BY <2>35 DEF PersonClearsNeedsHuman, Outside
  <2>36. CASE PersonClosesIssue
    BY <2>36 DEF PersonClosesIssue, Outside
  <2>37. CASE SessionLost
    BY <2>37 DEF SessionLost
  <2>38. CASE NewShift
    BY <2>38, <2>g DEF NewShift, Gone, ForgetIssue, PCs, Deciding, Results, ParkCategories
  <2>39. CASE Fails
    BY <2>39, <2>g DEF Fails, Stop, Gone, ForgetIssue, PCs, Deciding,
       Results, ParkCategories
  <2>40. CASE GivesUp
    <3>1. PICK c \in {"budget", "conflicts", "checks", "review"} : WatchGivesUp(c)
      BY <2>40 DEF GivesUp
    <3>2. pc' \in PCs /\ result' \in Results
      BY <3>1 DEF WatchGivesUp, Park, EndLeg, PCs, Results, ParkCategories
    <3> QED
      BY <3>1, <3>2, <2>g DEF WatchGivesUp, Park, EndLeg, ForgetIssue
  <2>41. CASE DeadRemote
    BY <2>41, <2>g DEF DeadRemote, Stop, Gone, ForgetIssue, PCs, Deciding,
       Results, ParkCategories
  <2>42. CASE RunHadNoSkill
    BY <2>42, <2>g DEF RunHadNoSkill, Stop, Gone, ForgetIssue, PCs, Deciding,
       Results, ParkCategories
  <2>43. CASE UNCHANGED vars
    BY <2>43 DEF vars
  <2>44. CASE WatchEnds
    BY <2>44 DEF WatchEnds, OnPR, PCs, Deciding
  <2>45. QED
    BY <2>1, <2>2, <2>3, <2>4, <2>5, <2>6, <2>7, <2>8, <2>9, <2>10, <2>11,
       <2>12, <2>13, <2>14, <2>15, <2>16, <2>17, <2>18, <2>19, <2>20, <2>21,
       <2>22, <2>23, <2>24, <2>25, <2>26, <2>27, <2>28, <2>29, <2>30, <2>31,
       <2>32, <2>33, <2>34, <2>35, <2>36, <2>37, <2>38, <2>39, <2>40, <2>41,
       <2>42, <2>43, <2>44 DEF Next, Supervisor, Claude, Environment
<1>3. QED
  BY <1>1, <1>2, PTL DEF Spec

-----------------------------------------------------------------------------
(* What the ledger's and the history's transitions change.                 *)

(* What each of resumeLedger's transitions does to its counters.           *)
LEMMA LedgerFields ==
    ASSUME NEW l \in LedgerType, NEW p \in BOOLEAN
    PROVE  /\ FreshLedger.fruitless = 0 /\ FreshLedger.resumes = 0
           /\ FreshLedger.cleanResumes = 0 /\ FreshLedger.kind = "none"
           /\ ClearRetries(l).fruitless = 0 /\ ClearRetries(l).kind = "none"
           /\ ClearRetries(l).resumes = l.resumes
           /\ ClearRetries(l).cleanResumes = l.cleanResumes
           /\ NoteCrashResume(l, p).fruitless = (IF p THEN 0 ELSE l.fruitless + 1)
           /\ NoteCrashResume(l, p).resumes = l.resumes + 1
           /\ NoteCrashResume(l, p).cleanResumes = l.cleanResumes
           /\ NoteCleanResume(l).fruitless = l.fruitless
           /\ NoteCleanResume(l).resumes = l.resumes + 1
           /\ NoteCleanResume(l).cleanResumes = l.cleanResumes + 1
           /\ ResumeNext(l).fruitless = l.fruitless
           /\ ResumeNext(l).resumes = l.resumes
           /\ ResumeNext(l).cleanResumes = l.cleanResumes
           /\ DeferRefusal(l, p).fruitless = l.fruitless
           /\ DeferRefusal(l, p).resumes = l.resumes
           /\ DeferRefusal(l, p).cleanResumes = l.cleanResumes
  BY DEF LedgerType, FreshLedger, ClearRetries, NoteCrashResume,
         NoteCleanResume, ResumeNext, DeferRefusal

(* The end of a leg clears its counts and keeps what outlives it.          *)
LEMMA LegOverFields ==
    ASSUME NEW h \in HistType, NEW p
    PROVE  /\ LegOver(h, p).runs = 0 /\ LegOver(h, p).limits = 0
           /\ LegOver(h, p).folded = 0 /\ LegOver(h, p).deadResume = FALSE
           /\ LegOver(h, p).prSeen = h.prSeen
           /\ LegOver(h, p).blindRuns = h.blindRuns
  BY DEF HistType, LegOver

(* A dispatch counts one run, and a blind one if there was a PR.           *)
LEMMA DispatchedFields ==
    ASSUME NEW h \in HistType, NEW p \in BOOLEAN
    PROVE  /\ Dispatched(h, p).runs = h.runs + 1
           /\ Dispatched(h, p).limits = h.limits
           /\ Dispatched(h, p).folded = h.folded
           /\ Dispatched(h, p).prSeen = h.prSeen
           /\ Dispatched(h, p).deadResume = FALSE
           /\ Dispatched(h, p).blindRuns = (IF p THEN h.blindRuns + 1 ELSE h.blindRuns)
  BY DEF HistType, Dispatched

(* A run that returns changes no count.                                    *)
LEMMA RunOverFields ==
    ASSUME NEW h \in HistType, NEW p
    PROVE  /\ RunOver(h, p).runs = h.runs /\ RunOver(h, p).limits = h.limits
           /\ RunOver(h, p).folded = h.folded /\ RunOver(h, p).prSeen = h.prSeen
           /\ RunOver(h, p).blindRuns = h.blindRuns
  BY DEF HistType, RunOver

(* What the other transitions of the history change.                       *)
LEMMA HistFields ==
    ASSUME NEW h \in HistType
    PROVE  /\ ShiftOver(h).runs = 0 /\ ShiftOver(h).limits = 0
           /\ ShiftOver(h).folded = 0 /\ ShiftOver(h).deadResume = FALSE
           /\ ShiftOver(h).prSeen = h.prSeen
           /\ ShiftOver(h).blindRuns = h.blindRuns
           /\ ShiftStarts(h).runs = 0 /\ ShiftStarts(h).limits = 0
           /\ ShiftStarts(h).folded = 0 /\ ShiftStarts(h).deadResume = FALSE
           /\ ShiftStarts(h).prSeen = h.prSeen
           /\ ShiftStarts(h).blindRuns = h.blindRuns
           /\ PRSeen(h).runs = h.runs /\ PRSeen(h).limits = h.limits
           /\ PRSeen(h).folded = h.folded /\ PRSeen(h).prSeen = TRUE
           /\ PRSeen(h).blindRuns = h.blindRuns
           /\ PRSeen(h).deadResume = h.deadResume
           /\ LimitWaitedOut(h).runs = h.runs
           /\ LimitWaitedOut(h).limits = h.limits + 1
           /\ LimitWaitedOut(h).folded = h.folded
           /\ LimitWaitedOut(h).prSeen = h.prSeen
           /\ LimitWaitedOut(h).blindRuns = h.blindRuns
           /\ LimitWaitedOut(h).deadResume = h.deadResume
           /\ AnswerFolded(h).runs = h.runs /\ AnswerFolded(h).limits = h.limits
           /\ AnswerFolded(h).folded = h.folded + 1
           /\ AnswerFolded(h).prSeen = h.prSeen
           /\ AnswerFolded(h).blindRuns = h.blindRuns
           /\ AnswerFolded(h).deadResume = h.deadResume
  BY DEF HistType, LegOver, ShiftOver, ShiftStarts, PRSeen,
         LimitWaitedOut, AnswerFolded

-----------------------------------------------------------------------------
(* Most actions concern the proofs below only by their class: those that   *)
(* leave the supervisor's own state alone, and those that end the leg.     *)
Quiet ==
    \/ RunWorks \/ RunPostsQuestion \/ RunFlagsQuestion \/ RunClearsFlag
    \/ RunOpensPR \/ RunClosesIssue \/ PersonReplies \/ PersonActsOnPR
    \/ PersonClearsNeedsHuman \/ PersonClosesIssue \/ SessionLost
    \/ UNCHANGED vars

Leaves ==
    \/ LookHolds \/ GateParks \/ ClosedNoChange \/ KilledByCap
    \/ CrashOverBudget \/ GiveUpAfterCrash \/ CleanRefused \/ CleanPark
    \/ HandOffDefers \/ WatchMerged \/ WatchClosed \/ GivesUp
    \/ AuthRefused \/ Fails \/ DeadRemote \/ RunHadNoSkill \/ NewShift

Loops ==
    \/ Pickup \/ LookFindsPR \/ LookDispatches \/ Dispatch \/ RunExit
    \/ ReLookFindsPR \/ ReLookFindsNone \/ StillOpen \/ WaitOutLimit
    \/ ClassifyAsked \/ ResumeCrash \/ CleanResume \/ HandOffWaits
    \/ ReplyArrives \/ WatchEnds

(* Every step is of one of the three classes.                              *)
LEMMA NextClasses == [Next]_vars => Quiet \/ Leaves \/ Loops
  BY DEF Next, Supervisor, Claude, Environment, Quiet, Leaves, Loops

(* A quiet step moves neither the leg nor its counts.                      *)
LEMMA QuietSteps ==
    ASSUME TypeOK, Quiet
    PROVE  /\ pc' = pc /\ ledger' = ledger /\ hist' = hist /\ result' = result
           /\ answered' = answered /\ spent' = spent
           /\ (pr # NoPR => pr' # NoPR)
           /\ (session = "none" => session' = "none")
  <1>1. CASE \/ RunWorks \/ RunPostsQuestion \/ RunFlagsQuestion
             \/ RunClearsFlag \/ RunClosesIssue
    BY <1>1 DEF RunWorks, RunPostsQuestion, RunFlagsQuestion, RunClearsFlag,
                RunClosesIssue, InRun, memory
  <1>2. CASE RunOpensPR
    BY <1>2 DEF RunOpensPR, InRun, memory, NoPR
  <1>3. CASE PersonReplies \/ PersonClearsNeedsHuman \/ PersonClosesIssue
    BY <1>3 DEF PersonReplies, PersonClearsNeedsHuman, PersonClosesIssue,
                Outside, memory
  <1>4. CASE PersonActsOnPR
    BY <1>4 DEF PersonActsOnPR, Outside, memory, NoPR, TypeOK, PRStates
  <1>5. CASE SessionLost
    BY <1>5 DEF SessionLost, github
  <1>6. CASE UNCHANGED vars
    BY <1>6 DEF vars, github, memory
  <1> QED
    BY <1>1, <1>2, <1>3, <1>4, <1>5, <1>6, Quiet DEF Quiet

(* A step that ends the leg clears what was the leg's.                     *)
LEMMA LeavingSteps ==
    ASSUME TypeOK, Leaves
    PROVE  /\ pc' \in {"idle", "down"} /\ ledger' = FreshLedger
           /\ pr' = pr
           /\ hist'.runs = 0 /\ hist'.limits = 0 /\ hist'.folded = 0
           /\ hist'.deadResume = FALSE
           /\ hist'.prSeen = hist.prSeen /\ hist'.blindRuns = hist.blindRuns
           /\ (spent' = spent \/ spent' = 0)
           /\ (answered' = answered \/ ~answered')
  <1>1. /\ hist \in HistType /\ ledger.deferred \in BOOLEAN
        /\ AfterRefusal.deferred \in BOOLEAN /\ FALSE \in BOOLEAN
    <2>1. (run.perm = "workedAround") \in BOOLEAN
      OBVIOUS
    <2>2. AfterRefusal \in LedgerType
      BY <2>1, LedgerOps DEF AfterRefusal, TypeOK
    <2> QED
      BY <2>2 DEF TypeOK, LedgerType
  <1> DEFINE Over(h) ==
        /\ h.runs = 0 /\ h.limits = 0 /\ h.folded = 0 /\ h.deadResume = FALSE
        /\ h.prSeen = hist.prSeen /\ h.blindRuns = hist.blindRuns
  <1>2. /\ Over(LegOver(hist, FALSE)) /\ Over(LegOver(hist, ledger.deferred))
        /\ Over(LegOver(hist, AfterRefusal.deferred))
        /\ Over(ShiftOver(hist)) /\ Over(ShiftStarts(hist))
    <2>0. hist \in HistType
      BY <1>1
    <2>1. ASSUME NEW p PROVE Over(LegOver(hist, p))
      BY <2>0, LegOverFields
    <2>2. Over(ShiftOver(hist)) /\ Over(ShiftStarts(hist))
      BY <2>0, HistFields
    <2> HIDE DEF Over
    <2> QED
      BY <1>1, <2>1, <2>2
  <1>3. SUFFICES /\ pc' \in {"idle", "down"} /\ ledger' = FreshLedger
                 /\ pr' = pr /\ Over(hist')
                 /\ (spent' = spent \/ spent' = 0)
                 /\ (answered' = answered \/ ~answered')
    OBVIOUS
  <1> HIDE DEF Over
  <1>4. CASE LookHolds
    BY <1>2, <1>4 DEF LookHolds, EndLeg, github, memory
  <1>5. CASE HandOffDefers
    BY <1>2, <1>5 DEF HandOffDefers, EndLeg, github
  <1>6. CASE ClosedNoChange
    BY <1>2, <1>6 DEF ClosedNoChange, EndLeg, ForgetIssue, github
  <1>7. CASE WatchMerged
    BY <1>2, <1>7 DEF WatchMerged, EndLeg, ForgetIssue
  <1>8. CASE GateParks \/ KilledByCap \/ WatchClosed \/ CleanRefused
    BY <1>2, <1>8 DEF GateParks, KilledByCap, WatchClosed, CleanRefused,
                      Park, EndLeg, ForgetIssue
  <1>9. CASE CrashOverBudget \/ GiveUpAfterCrash
    BY <1>2, <1>9 DEF CrashOverBudget, GiveUpAfterCrash, Park, EndLeg, ForgetIssue
  <1>10. CASE CleanPark
    BY <1>2, <1>10 DEF CleanPark, Park, EndLeg, ForgetIssue
  <1>11. CASE GivesUp
    BY <1>2, <1>11 DEF GivesUp, WatchGivesUp, Park, EndLeg, ForgetIssue
  <1>12. CASE AuthRefused \/ Fails \/ DeadRemote \/ RunHadNoSkill
    BY <1>2, <1>12 DEF AuthRefused, Fails, DeadRemote, RunHadNoSkill, Stop,
                       Gone, ForgetIssue, github
  <1>13. CASE NewShift
    BY <1>2, <1>13 DEF NewShift, Gone, ForgetIssue, github
  <1> QED
    BY <1>4, <1>5, <1>6, <1>7, <1>8, <1>9, <1>10, <1>11, <1>12, <1>13, Leaves
       DEF Leaves

-----------------------------------------------------------------------------
(* The retry budgets.  RunsInv counts a run against the resume, the limit  *)
(* or the answer that is going to be followed by it: at the top of the     *)
(* loop the next run is already paid for.                                  *)
RunsInv ==
    hist.runs <= ledger.resumes + hist.limits + hist.folded
                   + (IF pc \in {"look", "gate"} THEN 0 ELSE 1)

BudgetInv == LedgerBounded /\ RunsInv

(* The strengthened budget invariant holds in every behaviour.             *)
THEOREM BudgetInductive == Spec => []BudgetInv
<1>1. Init => BudgetInv
  BY RetriesAssumption, CeilingAssumption
     DEF Init, BudgetInv, LedgerBounded, RunsInv, FreshLedger, NoHist
<1>2. TypeOK /\ BudgetInv /\ [Next]_vars => BudgetInv'
  <2> SUFFICES ASSUME TypeOK, BudgetInv, [Next]_vars PROVE BudgetInv'
    OBVIOUS
  <2>1. CASE Quiet
    BY <2>1, QuietSteps DEF BudgetInv, LedgerBounded, RunsInv
  <2>2. CASE Leaves
    <3>1. ledger' = FreshLedger /\ hist'.runs = 0 /\ hist'.limits = 0 /\ hist'.folded = 0
          /\ pc' \notin {"look", "gate"}
      BY <2>2, LeavingSteps
    <3>2. /\ FreshLedger.fruitless = 0 /\ FreshLedger.resumes = 0
          /\ FreshLedger.cleanResumes = 0
      BY DEF FreshLedger
    <3> QED
      BY <3>1, <3>2, RetriesAssumption, CeilingAssumption
         DEF BudgetInv, LedgerBounded, RunsInv
  <2>3. CASE Loops
    <3>0. /\ ledger \in LedgerType /\ hist \in HistType
          /\ run.progressed \in BOOLEAN /\ (pr # NoPR) \in BOOLEAN
          /\ FALSE \in BOOLEAN /\ (run.perm = "workedAround") \in BOOLEAN
          /\ ledger.fruitless \in Nat /\ ledger.resumes \in Nat
          /\ ledger.cleanResumes \in Nat
          /\ hist.runs \in Nat /\ hist.limits \in Nat /\ hist.folded \in Nat
      BY DEF TypeOK, RunType, LedgerType, HistType
    <3> USE <3>0 DEF BudgetInv, LedgerBounded, RunsInv
    <3>1. CASE Pickup
      <4>1. /\ FreshLedger.fruitless = 0 /\ FreshLedger.resumes = 0
            /\ FreshLedger.cleanResumes = 0
            /\ LegOver(hist, FALSE).runs = 0 /\ LegOver(hist, FALSE).limits = 0
            /\ LegOver(hist, FALSE).folded = 0
        BY LegOverFields DEF FreshLedger
      <4>2. ledger' = FreshLedger /\ hist' = LegOver(hist, FALSE) /\ pc' = "look"
        BY <3>1 DEF Pickup, StartLeg
      <4>3. /\ ledger'.fruitless = 0 /\ ledger'.resumes = 0 /\ ledger'.cleanResumes = 0
            /\ hist'.runs = 0 /\ hist'.limits = 0 /\ hist'.folded = 0
        BY <4>1, <4>2
      <4>4. LedgerBounded'
        BY <4>3, RetriesAssumption, CeilingAssumption
      <4>5. pc' \in {"look", "gate"}
        BY <4>2
      <4>6. RunsInv'
        BY <4>3, <4>5
      <4> QED
        BY <4>4, <4>6
    <3>2. CASE LookFindsPR
      <4>1. /\ PRSeen(hist).runs = hist.runs /\ PRSeen(hist).limits = hist.limits
            /\ PRSeen(hist).folded = hist.folded
        BY HistFields
      <4>2. pc' \notin {"look", "gate"}
        BY <3>2 DEF LookFindsPR, OnPR
      <4> QED
        BY <3>2, <4>1, <4>2 DEF LookFindsPR
    <3>3. CASE LookDispatches
      BY <3>3 DEF LookDispatches
    <3>4. CASE Dispatch
      <4> DEFINE h == Dispatched(hist, pr # NoPR)
      <4>1. h.runs = hist.runs + 1 /\ h.limits = hist.limits /\ h.folded = hist.folded
        BY DispatchedFields
      <4>2. hist' = h /\ ledger' = ledger /\ pc = "gate" /\ pc' = "run"
        BY <3>4 DEF Dispatch
      <4> HIDE DEF h
      <4> QED
        BY <4>1, <4>2
    <3>5. CASE RunExit
      <4>1. PICK b : hist' = RunOver(hist, b)
        BY <3>5 DEF RunExit, RunEnds
      <4>0. hist \in HistType
        OBVIOUS
      <4>2. ledger' = ledger /\ pc = "run" /\ pc' = "reLook"
        BY <3>5 DEF RunExit, RunEnds
      <4>3. hist'.runs = hist.runs /\ hist'.limits = hist.limits /\ hist'.folded = hist.folded
        BY <4>0, <4>1, RunOverFields
      <4> QED
        BY <4>2, <4>3
    <3>6. CASE ReLookFindsPR
      <4>1. /\ PRSeen(hist).runs = hist.runs /\ PRSeen(hist).limits = hist.limits
            /\ PRSeen(hist).folded = hist.folded
        BY HistFields
      <4>2. /\ ClearRetries(ledger).fruitless = 0
            /\ ClearRetries(ledger).resumes = ledger.resumes
            /\ ClearRetries(ledger).cleanResumes = ledger.cleanResumes
        BY LedgerFields
      <4>3. pc' \notin {"look", "gate"}
        BY <3>6 DEF ReLookFindsPR, OnPR
      <4> QED
        BY <3>6, <4>1, <4>2, <4>3, RetriesAssumption DEF ReLookFindsPR
    <3>7. CASE \/ ReLookFindsNone \/ StillOpen \/ ClassifyAsked
               \/ HandOffWaits \/ WatchEnds
      BY <3>7 DEF ReLookFindsNone, StillOpen, ClassifyAsked, HandOffWaits,
                  WatchEnds, OnPR
    <3>8. CASE WaitOutLimit
      <4>1. /\ ResumeNext(ledger).fruitless = ledger.fruitless
            /\ ResumeNext(ledger).resumes = ledger.resumes
            /\ ResumeNext(ledger).cleanResumes = ledger.cleanResumes
        BY LedgerFields
      <4>2. /\ LimitWaitedOut(hist).runs = hist.runs
            /\ LimitWaitedOut(hist).limits = hist.limits + 1
            /\ LimitWaitedOut(hist).folded = hist.folded
        BY HistFields
      <4> QED
        BY <3>8, <4>1, <4>2 DEF WaitOutLimit
    <3>9. CASE ResumeCrash
      <4> DEFINE l == NoteCrashResume(ledger, run.progressed)
      <4>1. /\ l.fruitless = (IF run.progressed THEN 0 ELSE ledger.fruitless + 1)
            /\ l.resumes = ledger.resumes + 1
            /\ l.cleanResumes = ledger.cleanResumes
        BY LedgerFields
      <4>2. /\ ledger' = l /\ hist' = hist /\ pc = "classify" /\ pc' = "look"
            /\ ledger.fruitless < Retries /\ ledger.resumes < ResumeCeiling
        BY <3>9 DEF ResumeCrash, Crashed, MayCrashRetry
      <4> HIDE DEF l
      <4> QED
        BY <4>1, <4>2, RetriesAssumption, CeilingAssumption
    <3>10. CASE CleanResume
      <4> DEFINE l == NoteCleanResume(AfterRefusal)
      <4>1. /\ AfterRefusal \in LedgerType
            /\ AfterRefusal.fruitless = ledger.fruitless
            /\ AfterRefusal.resumes = ledger.resumes
            /\ AfterRefusal.cleanResumes = ledger.cleanResumes
        BY LedgerOps, LedgerFields DEF AfterRefusal
      <4>2. /\ l.fruitless = ledger.fruitless /\ l.resumes = ledger.resumes + 1
            /\ l.cleanResumes = ledger.cleanResumes + 1
        BY <4>1, LedgerFields
      <4>3. /\ ledger' = l /\ hist' = hist
            /\ pc = "classify" /\ pc' = "look"
            /\ ledger.cleanResumes < CleanCeiling /\ ledger.resumes < ResumeCeiling
        BY <3>10, CeilingAssumption DEF CleanResume, CleanExit, Disposition
      <4> HIDE DEF l
      <4> QED
        BY <4>2, <4>3, CeilingAssumption
    <3>11. CASE ReplyArrives
      <4>1. /\ ClearRetries(ledger).fruitless = 0
            /\ ClearRetries(ledger).resumes = ledger.resumes
            /\ ClearRetries(ledger).cleanResumes = ledger.cleanResumes
        BY LedgerFields
      <4>2. /\ AnswerFolded(hist).runs = hist.runs
            /\ AnswerFolded(hist).limits = hist.limits
            /\ AnswerFolded(hist).folded = hist.folded + 1
        BY HistFields
      <4> QED
        BY <3>11, <4>1, <4>2, RetriesAssumption DEF ReplyArrives
    <3> QED
      BY <2>3, <3>1, <3>2, <3>3, <3>4, <3>5, <3>6, <3>7, <3>8, <3>9, <3>10, <3>11
         DEF Loops
  <2> QED
    BY <2>1, <2>2, <2>3, NextClasses
<1> QED
  BY <1>1, <1>2, TypeCorrect, PTL DEF Spec

(* No leg exceeds a retry budget, whatever the budgets are.                *)
THEOREM LedgerSafe == Spec => []LedgerBounded
  <1>1. BudgetInv => LedgerBounded
    BY DEF BudgetInv
  <1> QED
    BY <1>1, BudgetInductive, PTL

(* No leg gets a run that nothing paid for, whatever the budgets are.      *)
THEOREM RunsPaidFor == Spec => []EveryRunPaidFor
  <1>1. TypeOK /\ BudgetInv => EveryRunPaidFor
    BY DEF TypeOK, LedgerType, HistType, BudgetInv, RunsInv, EveryRunPaidFor
  <1> QED
    BY <1>1, BudgetInductive, TypeCorrect, PTL

-----------------------------------------------------------------------------
(* The pull request.  Seen once, it keeps the leg out of every state that  *)
(* leads to a run, in this process and in the ones after it; run past      *)
(* unseen, it is found by the look-up that follows.                        *)
AwayFromRuns == {"idle", "look", "watch", "sawMerged", "sawClosed", "down"}

SeenInv == hist.prSeen => pr # NoPR /\ pc \in AwayFromRuns

BlindInv ==
    /\ hist.blindRuns <= 1
    /\ hist.blindRuns > 0 => pr # NoPR /\ pc \in AwayFromRuns \cup {"run", "reLook"}

PRInv == SeenInv /\ BlindInv

(* The strengthened pull-request invariant holds in every behaviour.       *)
THEOREM PRInductive == Spec => []PRInv
<1>1. Init => PRInv
  BY DEF Init, PRInv, SeenInv, BlindInv, NoHist
<1>2. TypeOK /\ PRInv /\ [Next]_vars => PRInv'
  <2> SUFFICES ASSUME TypeOK, PRInv, [Next]_vars PROVE PRInv'
    OBVIOUS
  <2>0. hist \in HistType /\ hist.prSeen \in BOOLEAN /\ hist.blindRuns \in Nat
    BY DEF TypeOK, HistType
  <2>1. CASE Quiet
    BY <2>1, QuietSteps DEF PRInv, SeenInv, BlindInv
  <2>2. CASE Leaves
    <3>1. /\ pc' \in AwayFromRuns /\ pr' = pr
          /\ hist'.prSeen = hist.prSeen /\ hist'.blindRuns = hist.blindRuns
      BY <2>2, LeavingSteps DEF AwayFromRuns
    <3> QED
      BY <3>1 DEF PRInv, SeenInv, BlindInv
  <2>3. CASE Loops
    <3>1. CASE Pickup
      <4>1. hist' = LegOver(hist, FALSE) /\ pc' = "look" /\ pr' = pr
        BY <3>1 DEF Pickup, StartLeg, github
      <4>2. hist'.prSeen = hist.prSeen /\ hist'.blindRuns = hist.blindRuns
        BY <2>0, <4>1, LegOverFields
      <4>3. pc' \in AwayFromRuns
        BY <4>1 DEF AwayFromRuns
      <4>4. pr' = pr
        BY <4>1
      <4> QED
        BY <4>2, <4>3, <4>4 DEF PRInv, SeenInv, BlindInv
    <3>2. CASE LookFindsPR \/ ReLookFindsPR
      <4>1. hist' = PRSeen(hist) /\ pc' = OnPR /\ pr' = pr /\ pr # NoPR
        BY <3>2 DEF LookFindsPR, ReLookFindsPR, github
      <4>2. hist'.blindRuns = hist.blindRuns
        BY <2>0, <4>1, HistFields
      <4>3. pc' \in AwayFromRuns
        BY <4>1 DEF OnPR, AwayFromRuns
      <4> QED
        BY <4>1, <4>2, <4>3 DEF PRInv, SeenInv, BlindInv
    <3>3. CASE LookDispatches
      <4>1. hist' = hist /\ pr' = pr /\ pr = NoPR
        BY <3>3 DEF LookDispatches, github
      <4> QED
        BY <2>0, <4>1 DEF PRInv, SeenInv, BlindInv
    <3>4. CASE Dispatch
      <4>1. /\ hist' = Dispatched(hist, pr # NoPR) /\ pc = "gate" /\ pc' = "run"
            /\ pr' = pr /\ (pr # NoPR) \in BOOLEAN
        BY <3>4 DEF Dispatch, github
      <4>2. ~hist.prSeen /\ hist.blindRuns = 0
        BY <2>0, <4>1 DEF PRInv, SeenInv, BlindInv, AwayFromRuns
      <4>3. /\ hist'.prSeen = hist.prSeen
            /\ hist'.blindRuns = (IF pr # NoPR THEN hist.blindRuns + 1 ELSE hist.blindRuns)
        BY <2>0, <4>1, DispatchedFields
      <4> QED
        BY <4>1, <4>2, <4>3 DEF PRInv, SeenInv, BlindInv
    <3>5. CASE RunExit
      <4>1. PICK b : hist' = RunOver(hist, b)
        BY <3>5 DEF RunExit, RunEnds
      <4>2. pc = "run" /\ pc' = "reLook" /\ pr' = pr
        BY <3>5 DEF RunExit, RunEnds, github
      <4>3. hist'.prSeen = hist.prSeen /\ hist'.blindRuns = hist.blindRuns
        BY <2>0, <4>1, RunOverFields
      <4>4. ~hist.prSeen
        BY <4>2 DEF PRInv, SeenInv, AwayFromRuns
      <4> QED
        BY <4>2, <4>3, <4>4 DEF PRInv, SeenInv, BlindInv
    <3>6. CASE ReLookFindsNone
      <4>1. hist' = hist /\ pr' = pr /\ pr = NoPR
        BY <3>6 DEF ReLookFindsNone, github
      <4> QED
        BY <2>0, <4>1 DEF PRInv, SeenInv, BlindInv
    <3>7. CASE StillOpen \/ ClassifyAsked \/ HandOffWaits \/ ResumeCrash
      <4>1. /\ hist' = hist /\ pr' = pr
            /\ pc \notin AwayFromRuns \cup {"run", "reLook"}
        BY <3>7 DEF StillOpen, ClassifyAsked, HandOffWaits, ResumeCrash,
                    Crashed, github, AwayFromRuns
      <4> QED
        BY <2>0, <4>1 DEF PRInv, SeenInv, BlindInv
    <3>8. CASE WaitOutLimit \/ CleanResume \/ ReplyArrives
      <4>1. /\ pr' = pr /\ pc \notin AwayFromRuns \cup {"run", "reLook"}
            /\ \/ hist' = LimitWaitedOut(hist)
               \/ hist' = hist
               \/ hist' = AnswerFolded(hist)
        BY <3>8 DEF WaitOutLimit, CleanResume, CleanExit, ReplyArrives, github,
                    AwayFromRuns
      <4>2. hist'.prSeen = hist.prSeen /\ hist'.blindRuns = hist.blindRuns
        <5>1. CASE hist' = LimitWaitedOut(hist)
          BY <2>0, <5>1, HistFields
        <5>2. CASE hist' = hist
          BY <5>2
        <5>3. CASE hist' = AnswerFolded(hist)
          BY <2>0, <5>3, HistFields
        <5> QED
          BY <4>1, <5>1, <5>2, <5>3
      <4> QED
        BY <2>0, <4>1, <4>2 DEF PRInv, SeenInv, BlindInv
    <3>9. CASE WatchEnds
      <4>1. hist' = hist /\ pc' = OnPR /\ pr' = pr /\ pr # NoPR
        BY <3>9 DEF WatchEnds, github, NoPR
      <4>2. pc' \in AwayFromRuns
        BY <4>1 DEF OnPR, AwayFromRuns
      <4> QED
        BY <2>0, <4>1, <4>2 DEF PRInv, SeenInv, BlindInv
    <3> QED
      BY <2>3, <3>1, <3>2, <3>3, <3>4, <3>5, <3>6, <3>7, <3>8, <3>9 DEF Loops
  <2> QED
    BY <2>1, <2>2, <2>3, NextClasses
<1> QED
  BY <1>1, <1>2, TypeCorrect, PTL DEF Spec

(* No run of the skill once its pull request was seen, whatever happens.   *)
THEOREM PRSafe == Spec => []NoRunOncePRSeen
  <1>1. PRInv => NoRunOncePRSeen
    BY DEF PRInv, SeenInv, NoRunOncePRSeen, AwayFromRuns
  <1> QED
    BY <1>1, PRInductive, PTL

(* A pull request is run past unseen at most once.                         *)
THEOREM BlindOnce == Spec => []OneBlindRunAtMost
  <1>1. PRInv => OneBlindRunAtMost
    BY DEF PRInv, BlindInv, OneBlindRunAtMost
  <1> QED
    BY <1>1, PRInductive, PTL

-----------------------------------------------------------------------------
(* The spend cap, the questions, the sessions and the answers: what the    *)
(* loop relies on from the dispatch of a run until it has been judged.     *)

(* A run is only in flight on a budget that is not spent.                  *)
CostInv == CostBounded /\ (MaxCost > 0 /\ pc = "run" => spent < MaxCost)

(* A flag a run did not find was put up by that run, after its question.   *)
Judged == {"run", "reLook", "state", "classify", "handOff"}
QuestionInv ==
    /\ pc \in Judged /\ flag => run.wasFlagged \/ run.posted
    /\ NoWaitOnStaleFlag

(* A session that could not be resumed has been forgotten.                 *)
SessionInv == hist.deadResume => session = "none"

(* An answer is told to the run that is dispatched next, and to no other;  *)
(* nothing the ledger was in the middle of comes before it.                *)
AnswerInv ==
    /\ pc \in Judged \cup {"waitReply"} => ~answered
    /\ pc \in {"look", "gate"} /\ answered => ledger.kind = "none"

(* The issue is asked for its state after a clean run only.                *)
CleanInv == pc = "state" => run.err = "none"

LoopInv ==
    CostInv /\ QuestionInv /\ RefusalBlamedUnlessBudget
    /\ SessionInv /\ AnswerInv /\ CleanInv

(* A quiet step leaves the run as it is, but for the question it posts.    *)
LEMMA QuietRun ==
    ASSUME TypeOK, Quiet
    PROVE  /\ run'.err = run.err /\ run'.wasFlagged = run.wasFlagged
           /\ (run.posted => run'.posted) /\ (flag' => flag \/ run.posted)
  <1>1. CASE RunPostsQuestion
    BY <1>1 DEF RunPostsQuestion, Posted, TypeOK, RunType
  <1>2. CASE RunFlagsQuestion
    BY <1>2 DEF RunFlagsQuestion
  <1>3. CASE RunWorks \/ RunClearsFlag \/ RunOpensPR \/ RunClosesIssue
    BY <1>3 DEF RunWorks, RunClearsFlag, RunOpensPR, RunClosesIssue
  <1>4. CASE \/ PersonReplies \/ PersonActsOnPR \/ PersonClearsNeedsHuman
             \/ PersonClosesIssue \/ SessionLost \/ UNCHANGED vars
    BY <1>4 DEF PersonReplies, PersonActsOnPR, PersonClearsNeedsHuman, PersonClosesIssue,
                SessionLost, Outside, vars, github
  <1> QED BY <1>1, <1>2, <1>3, <1>4 DEF Quiet

LEMMA QuietLoop ==
    ASSUME TypeOK, LoopInv, Quiet
    PROVE  LoopInv'
  <1>1. /\ pc' = pc /\ ledger' = ledger /\ hist' = hist /\ result' = result
        /\ answered' = answered /\ spent' = spent
        /\ (session = "none" => session' = "none")
    BY QuietSteps
  <1>2. CostInv' BY <1>1 DEF LoopInv, CostInv, CostBounded
  <1>3. QuestionInv' BY <1>1, QuietRun DEF LoopInv, QuestionInv, NoWaitOnStaleFlag
  <1>4. RefusalBlamedUnlessBudget' BY <1>1 DEF LoopInv, RefusalBlamedUnlessBudget
  <1>5. SessionInv' /\ AnswerInv' BY <1>1 DEF LoopInv, SessionInv, AnswerInv
  <1>6. CleanInv' BY <1>1, QuietRun DEF LoopInv, CleanInv
  <1> QED BY <1>2, <1>3, <1>4, <1>5, <1>6 DEF LoopInv

(* A leg that ends with a park blames the refusal that is still pending.   *)
LEMMA LegOverBlame ==
    ASSUME NEW h \in HistType, NEW b
    PROVE  LegOver(h, b).blame = b
  BY DEF HistType, LegOver

LEMMA LeavesBlame ==
    ASSUME TypeOK, Leaves
    PROVE  RefusalBlamedUnlessBudget'
  <1>0. hist \in HistType BY DEF TypeOK
  <1>1. CASE LookHolds \/ ClosedNoChange \/ HandOffDefers \/ WatchMerged
    BY <1>1 DEF LookHolds, ClosedNoChange, HandOffDefers, WatchMerged, EndLeg, ParkCategories,
                RefusalBlamedUnlessBudget
  <1>2. CASE GateParks \/ KilledByCap \/ CrashOverBudget \/ CleanRefused
    BY <1>2 DEF GateParks, KilledByCap, CrashOverBudget, CleanRefused, Park, EndLeg,
                RefusalBlamedUnlessBudget
  <1>3. CASE GiveUpAfterCrash
    <2>1. /\ hist' = LegOver(hist, ledger.deferred)
          /\ result' = IF ledger.deferred THEN "permission" ELSE "retries"
      BY <1>3 DEF GiveUpAfterCrash, Park, EndLeg
    <2>2. hist'.blame = ledger.deferred BY <1>0, <2>1, LegOverBlame
    <2> QED BY <2>1, <2>2 DEF RefusalBlamedUnlessBudget
  <1>4. CASE CleanPark
    <2> DEFINE d == AfterRefusal.deferred
    <2>1. hist' = LegOver(hist, d) /\ (d => result' = "permission")
      BY <1>4 DEF CleanPark, Park, EndLeg
    <2> HIDE DEF d
    <2>2. hist'.blame = d BY <1>0, <2>1, LegOverBlame
    <2> QED BY <2>1, <2>2 DEF RefusalBlamedUnlessBudget
  <1>5. CASE WatchClosed \/ GivesUp
    <2>1. hist' = LegOver(hist, FALSE)
      BY <1>5 DEF WatchClosed, GivesUp, WatchGivesUp, Park, EndLeg
    <2>2. ~hist'.blame BY <1>0, <2>1, LegOverBlame
    <2> QED BY <2>2 DEF RefusalBlamedUnlessBudget
  <1>6. CASE AuthRefused \/ Fails \/ DeadRemote \/ RunHadNoSkill
    BY <1>6 DEF AuthRefused, Fails, DeadRemote, RunHadNoSkill, Stop, ParkCategories,
                RefusalBlamedUnlessBudget
  <1>7. CASE NewShift
    BY <1>7 DEF NewShift, ParkCategories, RefusalBlamedUnlessBudget
  <1> QED BY <1>1, <1>2, <1>3, <1>4, <1>5, <1>6, <1>7 DEF Leaves

LEMMA LeavesLoop ==
    ASSUME TypeOK, LoopInv, Leaves
    PROVE  LoopInv'
  <1>1. /\ pc' \in {"idle", "down"} /\ ~hist'.deadResume /\ (spent' = spent \/ spent' = 0)
    BY LeavingSteps
  <1>2. CostInv'
    <2>1. MaxCost > 0 => \A c \in RunCosts : 0 < MaxCost + c BY CostAssumption
    <2> QED BY <1>1, <2>1 DEF LoopInv, CostInv, CostBounded
  <1>3. QuestionInv' /\ AnswerInv' /\ CleanInv' /\ SessionInv'
    BY <1>1 DEF QuestionInv, Judged, NoWaitOnStaleFlag, AnswerInv, CleanInv, SessionInv
  <1> QED BY <1>2, <1>3, LeavesBlame DEF LoopInv

(* The steps of the loop move no result, and spend only as a run ends.     *)
LEMMA LoopsKeep ==
    ASSUME TypeOK, Loops
    PROVE  /\ result' = result /\ flag' = flag /\ (hist'.blame => hist.blame)
           /\ RunExit \/ (spent' = spent /\ session' = session
                           /\ (hist'.deadResume => hist.deadResume))
  <1>0. hist \in HistType /\ (pr # NoPR) \in BOOLEAN BY DEF TypeOK
  <1>f. ASSUME NEW p \in BOOLEAN, NEW q
        PROVE  /\ LegOver(hist, FALSE).blame = FALSE /\ LegOver(hist, FALSE).deadResume = FALSE
               /\ PRSeen(hist).blame = hist.blame /\ PRSeen(hist).deadResume = hist.deadResume
               /\ Dispatched(hist, p).blame = hist.blame
               /\ Dispatched(hist, p).deadResume = FALSE
               /\ RunOver(hist, q).blame = hist.blame
               /\ LimitWaitedOut(hist).blame = hist.blame
               /\ LimitWaitedOut(hist).deadResume = hist.deadResume
               /\ AnswerFolded(hist).blame = hist.blame
               /\ AnswerFolded(hist).deadResume = hist.deadResume
    BY <1>0 DEF HistType, LegOver, PRSeen, Dispatched, RunOver, LimitWaitedOut, AnswerFolded
  <1>1. CASE Pickup
    BY <1>1, <1>f DEF Pickup, StartLeg, github
  <1>2. CASE LookFindsPR \/ ReLookFindsPR
    BY <1>2, <1>f DEF LookFindsPR, ReLookFindsPR, github, memory
  <1>3. CASE Dispatch
    BY <1>0, <1>3, <1>f DEF Dispatch, github
  <1>4. CASE RunExit
    <2>1. PICK q : hist' = RunOver(hist, q) BY <1>4 DEF RunExit, RunEnds
    <2>2. result' = result /\ flag' = flag BY <1>4 DEF RunExit, RunEnds, github
    <2> QED BY <1>4, <2>1, <2>2, <1>f
  <1>5. CASE \/ LookDispatches \/ ReLookFindsNone \/ StillOpen \/ ClassifyAsked
             \/ ResumeCrash \/ CleanResume \/ HandOffWaits \/ WatchEnds
    BY <1>5 DEF LookDispatches, ReLookFindsNone, StillOpen, ClassifyAsked, ResumeCrash,
                CleanResume, HandOffWaits, WatchEnds, github, memory
  <1>6. CASE WaitOutLimit
    BY <1>6, <1>f DEF WaitOutLimit, github, memory
  <1>7. CASE ReplyArrives
    BY <1>7, <1>f DEF ReplyArrives, github
  <1> QED BY <1>1, <1>2, <1>3, <1>4, <1>5, <1>6, <1>7 DEF Loops

(* A run that returns has spent at most one run past the cap, and a resume *)
(* that never started leaves no session behind.                            *)
LEMMA RunExitLoop ==
    ASSUME TypeOK, LoopInv, RunExit
    PROVE  CostInv' /\ SessionInv'
  <1>1. PICK err \in RunErrors, started, progressed \in BOOLEAN, cost \in RunCosts,
             perm \in {"none", "asked", "refused", "workedAround"} :
             RunEnds(err, started, progressed, perm, cost)
    BY DEF RunExit
  <1>2. /\ pc = "run" /\ pc' = "reLook"
        /\ spent' = spent + (IF MaxCost > 0 THEN cost ELSE 0)
        /\ hist' = RunOver(hist, run.resumed /\ ~started) /\ session' = SessionAfter(started)
    BY <1>1 DEF RunEnds
  <1>3. CostInv'
    <2> SUFFICES ASSUME MaxCost > 0, NEW c \in RunCosts, \A d \in RunCosts : d <= c
                 PROVE  spent' < MaxCost + c
      BY <1>2 DEF CostInv, CostBounded
    <2>1. spent < MaxCost BY <1>2 DEF LoopInv, CostInv
    <2>2. cost <= c /\ cost \in Nat /\ c \in Nat /\ MaxCost \in Nat /\ spent \in Nat
      BY CostAssumption DEF TypeOK
    <2> QED BY <1>2, <2>1, <2>2
  <1>4. SessionInv'
    <2>1. hist'.deadResume = (run.resumed /\ ~started)
      BY <1>2 DEF RunOver, TypeOK, HistType
    <2> QED BY <1>2, <2>1 DEF SessionInv, SessionAfter
  <1> QED BY <1>3, <1>4

LEMMA LoopsLoop ==
    ASSUME TypeOK, LoopInv, Loops
    PROVE  LoopInv'
  <1>1. RefusalBlamedUnlessBudget' BY LoopsKeep DEF LoopInv, RefusalBlamedUnlessBudget
  <1>2. CostInv'
    <2>1. CASE RunExit BY <2>1, RunExitLoop
    <2>2. CASE Dispatch
      <3>1. ~OverBudget /\ spent' = spent /\ spent \in Nat /\ MaxCost \in Nat
        BY <2>2, CostAssumption DEF Dispatch, TypeOK
      <3> QED BY <3>1 DEF LoopInv, CostInv, CostBounded, OverBudget
    <2>3. CASE ~RunExit /\ ~Dispatch
      <3>1. spent' = spent BY <2>3, LoopsKeep
      <3>2. pc' # "run"
        BY <2>3 DEF Loops, Pickup, StartLeg, LookFindsPR, LookDispatches, ReLookFindsPR,
             ReLookFindsNone, StillOpen, WaitOutLimit, ClassifyAsked, ResumeCrash, CleanResume,
             HandOffWaits, ReplyArrives, WatchEnds, OnPR
      <3> QED BY <3>1, <3>2 DEF LoopInv, CostInv, CostBounded
    <2> QED BY <2>1, <2>2, <2>3
  <1>3. SessionInv'
    <2>1. CASE RunExit BY <2>1, RunExitLoop
    <2>2. CASE ~RunExit BY <2>2, LoopsKeep DEF LoopInv, SessionInv
    <2> QED BY <2>1, <2>2
  <1>4. QuestionInv' /\ AnswerInv' /\ CleanInv'
    <2>0. /\ ledger \in LedgerType /\ run \in RunType /\ flag \in BOOLEAN
          /\ answered \in BOOLEAN /\ flag' = flag
      BY LoopsKeep DEF TypeOK
    <2> USE <2>0 DEF LoopInv, QuestionInv, AnswerInv, CleanInv, NoWaitOnStaleFlag, Judged
    <2>1. CASE Pickup
      <3>1. pc' = "look" /\ ledger' = FreshLedger BY <2>1 DEF Pickup, StartLeg
      <3>2. FreshLedger.kind = "none" BY DEF FreshLedger
      <3> QED BY <3>1, <3>2
    <2>2. CASE LookFindsPR \/ ReLookFindsPR \/ WatchEnds
      <3>1. pc' \in {"watch", "sawMerged", "sawClosed"}
        BY <2>2 DEF LookFindsPR, ReLookFindsPR, WatchEnds, OnPR
      <3> QED BY <3>1
    <2>3. CASE LookDispatches
      BY <2>3 DEF LookDispatches
    <2>4. CASE Dispatch
      <3>1. /\ pc' = "run" /\ ~answered'
            /\ run' = [NoRun EXCEPT !.kind = NextRunKind, !.resumed = Resumes, !.wasFlagged = flag]
        BY <2>4 DEF Dispatch
      <3>2. run'.wasFlagged = flag BY <3>1 DEF NoRun
      <3> QED BY <3>1, <3>2
    <2>5. CASE RunExit
      <3>1. PICK err, progressed, perm : run' = Returned(run, err, progressed, perm)
        BY <2>5 DEF RunExit, RunEnds
      <3>2. run'.wasFlagged = run.wasFlagged /\ run'.posted = run.posted
        BY <3>1 DEF Returned, RunType
      <3>3. pc = "run" /\ pc' = "reLook" /\ answered' = answered BY <2>5 DEF RunExit, RunEnds
      <3> QED BY <3>2, <3>3
    <2>6. CASE ReLookFindsNone
      BY <2>6 DEF ReLookFindsNone, memory
    <2>7. CASE StillOpen
      BY <2>7 DEF StillOpen, memory
    <2>8. CASE ClassifyAsked
      BY <2>8 DEF ClassifyAsked, Asked, memory
    <2>9. CASE WaitOutLimit \/ ResumeCrash \/ CleanResume
      <3>1. pc = "classify" /\ pc' = "look" /\ answered' = answered
        BY <2>9 DEF WaitOutLimit, ResumeCrash, Crashed, CleanResume, CleanExit, memory
      <3> QED BY <3>1
    <2>10. CASE HandOffWaits
      BY <2>10 DEF HandOffWaits
    <2>11. CASE ReplyArrives
      <3>1. pc' = "look" /\ ledger' = ClearRetries(ledger) BY <2>11 DEF ReplyArrives
      <3>2. ledger'.kind = "none" BY <3>1 DEF ClearRetries, LedgerType
      <3> QED BY <3>1, <3>2
    <2> QED
      BY <2>1, <2>2, <2>3, <2>4, <2>5, <2>6, <2>7, <2>8, <2>9, <2>10, <2>11 DEF Loops
  <1> QED BY <1>1, <1>2, <1>3, <1>4 DEF LoopInv

(* What the loop relies on holds in every behaviour.                       *)
THEOREM LoopInductive == Spec => []LoopInv
<1>1. Init => LoopInv
  <2>1. MaxCost > 0 => \A c \in RunCosts : 0 < MaxCost + c BY CostAssumption
  <2> QED BY <2>1 DEF Init, NoHist, LoopInv, CostInv, CostBounded, QuestionInv, Judged,
            NoWaitOnStaleFlag, RefusalBlamedUnlessBudget, ParkCategories, SessionInv, AnswerInv,
            CleanInv
<1>2. TypeOK /\ LoopInv /\ [Next]_vars => LoopInv'
  BY NextClasses, QuietLoop, LeavesLoop, LoopsLoop
<1> QED BY <1>1, <1>2, TypeCorrect, PTL DEF Spec

(* Neither retry budget nor the spend cap is passed, whatever they are.    *)
THEOREM BudgetsSafe == Spec => []BudgetsHold
  <1>1. LoopInv /\ LedgerBounded => BudgetsHold BY DEF LoopInv, CostInv, BudgetsHold
  <1> QED BY <1>1, LoopInductive, LedgerSafe, PTL

(* A flag left up by an earlier question is never waited on.               *)
THEOREM NoStaleWait == Spec => []NoWaitOnStaleFlag
  <1>1. LoopInv => NoWaitOnStaleFlag BY DEF LoopInv, QuestionInv
  <1> QED BY <1>1, LoopInductive, PTL

(* A park no spend cap caused blames the refusal that was still pending.   *)
THEOREM RefusalBlamed == Spec => []RefusalBlamedUnlessBudget
  <1>1. LoopInv => RefusalBlamedUnlessBudget BY DEF LoopInv
  <1> QED BY <1>1, LoopInductive, PTL

(* No session is resumed again once it could not be.                       *)
THEOREM DeadStaysDead == Spec => DeadSessionForgotten
  <1>1. TypeOK /\ LoopInv => [Dispatch => ~(hist.deadResume /\ run'.resumed)]_vars
    <2> SUFFICES ASSUME TypeOK, LoopInv, Dispatch, hist.deadResume PROVE ~run'.resumed
      OBVIOUS
    <2>1. ~Resumes BY DEF LoopInv, SessionInv, Resumes
    <2>2. run' = [NoRun EXCEPT !.kind = NextRunKind, !.resumed = Resumes, !.wasFlagged = flag]
      BY DEF Dispatch
    <2> QED BY <2>1, <2>2 DEF NoRun
  <1> QED BY <1>1, LoopInductive, TypeCorrect, PTL DEF DeadSessionForgotten

(* The run after an answer is told so, whatever came before it.            *)
THEOREM AnswerTold == Spec => AnsweredRunIsTold
  <1>1. TypeOK /\ LoopInv => [Dispatch /\ answered => run'.kind = "answers"]_vars
    <2> SUFFICES ASSUME TypeOK, LoopInv, Dispatch, answered PROVE run'.kind = "answers"
      OBVIOUS
    <2>1. ~Resumes BY DEF LoopInv, AnswerInv, Resumes, Dispatch
    <2>2. NextRunKind = "answers" BY <2>1 DEF NextRunKind
    <2>3. run' = [NoRun EXCEPT !.kind = NextRunKind, !.resumed = Resumes, !.wasFlagged = flag]
      BY DEF Dispatch
    <2> QED BY <2>2, <2>3 DEF NoRun
  <1> QED BY <1>1, LoopInductive, TypeCorrect, PTL DEF AnsweredRunIsTold

(* Finished without a pull request: after a clean run, on a closed issue.  *)
THEOREM ClosedClean == Spec => ClosedOnlyByCleanRun
  <1>1. TypeOK /\ LoopInv /\ [Next]_vars =>
          [result' = "closedNoChange" /\ result # "closedNoChange"
             => run.err = "none" /\ ~issueOpen /\ pr' = pr]_vars
    <2> SUFFICES ASSUME TypeOK, LoopInv, [Next]_vars, result' = "closedNoChange",
                        result # "closedNoChange"
                 PROVE  run.err = "none" /\ ~issueOpen /\ pr' = pr
      OBVIOUS
    <2>1. ~Quiet /\ ~Loops BY QuietSteps, LoopsKeep
    <2>2. ClosedNoChange
      <3>1. Leaves BY <2>1, NextClasses
      <3> QED BY <3>1 DEF Leaves, LookHolds, GateParks, KilledByCap, CrashOverBudget,
               GiveUpAfterCrash, CleanRefused, CleanPark, Disposition, HandOffDefers, WatchMerged,
               WatchClosed, GivesUp, WatchGivesUp, AuthRefused, Fails, DeadRemote, RunHadNoSkill,
               NewShift, Park, EndLeg, Stop
    <2> QED BY <2>2 DEF ClosedNoChange, LoopInv, CleanInv, github
  <1> QED BY <1>1, LoopInductive, TypeCorrect, PTL DEF ClosedOnlyByCleanRun, Spec

-----------------------------------------------------------------------------
(* The promise.  Under the mapping Phase every step of the loop is a step  *)
(* of IssueLife or none.                                                   *)

(* What ends the leg with a park leaves the issue parked.                  *)
LEMMA ParkPhase ==
    ASSUME TypeOK, NEW c \in ParkCategories, NEW b, Park(c, b)
    PROVE  Phase' = "parked" /\ hist'.prSeen = hist.prSeen
  <1>1. pc' = "idle" /\ result' = c /\ awaiting' = FALSE /\ hist' = LegOver(hist, b)
    BY DEF Park, EndLeg, ForgetIssue
  <1>0. hist \in HistType BY DEF TypeOK
  <1>2. hist'.prSeen = hist.prSeen BY <1>0, <1>1, LegOverFields
  <1> QED BY <1>1, <1>2 DEF Phase, ParkCategories

(* A shift that ends, or starts, leaves the issue to be found on GitHub.   *)
LEMMA StopPhase ==
    ASSUME TypeOK, Stop \/ NewShift
    PROVE  Phase' = "queued" /\ hist'.prSeen = hist.prSeen
  <1>1. awaiting' = FALSE BY DEF Stop, NewShift, Gone, ForgetIssue
  <1>2. CASE Stop
    <2>1. pc' = "down" /\ hist' = ShiftOver(hist) BY <1>2 DEF Stop
    <2>2. hist'.prSeen = hist.prSeen BY <2>1, HistFields DEF TypeOK
    <2> QED BY <2>1, <2>2 DEF Phase
  <1>3. CASE NewShift
    <2>1. pc' = "idle" /\ result' = "none" /\ hist' = ShiftStarts(hist) BY <1>3 DEF NewShift
    <2>2. hist'.prSeen = hist.prSeen BY <2>1, HistFields DEF TypeOK
    <2> QED BY <1>1, <2>1, <2>2 DEF Phase, ParkCategories
  <1> QED BY <1>2, <1>3

(* The mapping covers every state.                                         *)
LEMMA PhaseType == TypeOK => Phase \in Life!Phases
  BY DEF Phase, Life!Phases

(* A step of the loop is a step of the promise, or none of it.             *)
LEMMA LifeStep ==
    ASSUME TypeOK, SeenInv, [Next]_vars
    PROVE  [Life!Next]_(Life!life)
  <1> USE DEF Life!life, Life!Next, Life!Move
  <1>0. hist \in HistType /\ hist.prSeen \in BOOLEAN BY DEF TypeOK, HistType
  <1>1. CASE Quiet
    <2>1. pc' = pc /\ result' = result /\ hist' = hist BY <1>1, QuietSteps
    <2>2. awaiting' = awaiting
      BY <1>1 DEF Quiet, RunWorks, RunPostsQuestion, RunFlagsQuestion, RunClearsFlag, RunOpensPR,
           RunClosesIssue, InRun, PersonReplies, PersonActsOnPR, PersonClearsNeedsHuman,
           PersonClosesIssue, Outside, SessionLost, vars, memory
    <2> QED BY <2>1, <2>2 DEF Phase
  <1>2. CASE AuthRefused \/ Fails \/ DeadRemote \/ RunHadNoSkill \/ NewShift
    <2>1. Stop \/ NewShift BY <1>2 DEF AuthRefused, Fails, DeadRemote, RunHadNoSkill
    <2>2. Life!Stop BY <2>1, StopPhase, PhaseType DEF Life!Stop
    <2> QED BY <2>2
  <1>3. CASE \/ GateParks \/ KilledByCap \/ CrashOverBudget \/ GiveUpAfterCrash
             \/ CleanRefused \/ CleanPark \/ WatchClosed \/ GivesUp
    <2>1. Phase \in {"queued", "judging", "onPR"}
      BY <1>3 DEF Phase, GateParks, KilledByCap, CrashOverBudget, GiveUpAfterCrash, Crashed,
           CleanRefused, CleanPark, CleanExit, WatchClosed, GivesUp, WatchGivesUp
    <2>2. PICK c \in ParkCategories : \E b : Park(c, b)
      <3>1. CASE GateParks \/ KilledByCap \/ CrashOverBudget
        BY <3>1 DEF GateParks, KilledByCap, CrashOverBudget, ParkCategories
      <3>2. CASE GiveUpAfterCrash \/ CleanRefused \/ WatchClosed
        BY <3>2 DEF GiveUpAfterCrash, CleanRefused, WatchClosed, ParkCategories
      <3>3. CASE CleanPark BY <3>3 DEF CleanPark, Disposition, ParkCategories
      <3>4. CASE GivesUp BY <3>4 DEF GivesUp, WatchGivesUp, ParkCategories
      <3> QED BY <1>3, <3>1, <3>2, <3>3, <3>4
    <2>3. Phase' = "parked" /\ hist'.prSeen = hist.prSeen
      <3>1. PICK b : Park(c, b) BY <2>2
      <3> QED BY <3>1, ParkPhase
    <2>4. Life!Judge \/ Life!GiveUp BY <2>1, <2>3 DEF Life!Judge, Life!GiveUp
    <2> QED BY <2>4
  <1>4. CASE LookHolds
    <2>1. pc = "look" /\ pr = NoPR /\ pc' = "idle" /\ result' = "held" /\ awaiting' = awaiting
          /\ hist' = LegOver(hist, FALSE)
      BY <1>4 DEF LookHolds, EndLeg, memory
    <2>2. hist'.prSeen = hist.prSeen /\ ~hist.prSeen BY <1>0, <2>1, LegOverFields DEF SeenInv
    <2>3. Phase = "queued" /\ Phase' \in {"queued", "asked"}
      BY <2>1 DEF Phase, ParkCategories
    <2> QED BY <2>2, <2>3 DEF Life!PutBack
  <1>5. CASE ClosedNoChange
    <2>1. pc = "state" /\ pc' = "idle" /\ result' = "closedNoChange" /\ awaiting' = FALSE
          /\ hist' = LegOver(hist, FALSE)
      BY <1>5 DEF ClosedNoChange, EndLeg, ForgetIssue
    <2>2. hist'.prSeen = hist.prSeen BY <1>0, <2>1, LegOverFields
    <2>3. Phase = "judging" /\ Phase' = "closed" BY <2>1 DEF Phase, ParkCategories
    <2> QED BY <2>2, <2>3 DEF Life!Judge
  <1>6. CASE HandOffDefers
    <2>1. pc = "handOff" /\ pc' = "idle" /\ awaiting' = TRUE /\ hist' = LegOver(hist, FALSE)
      BY <1>6 DEF HandOffDefers, EndLeg
    <2>2. hist'.prSeen = hist.prSeen BY <1>0, <2>1, LegOverFields
    <2>3. Phase = "judging" /\ Phase' = "asked" BY <2>1 DEF Phase
    <2> QED BY <2>2, <2>3 DEF Life!Judge
  <1>7. CASE WatchMerged
    <2>1. pc = "sawMerged" /\ pc' = "idle" /\ result' = "merged" /\ awaiting' = FALSE
          /\ hist' = LegOver(hist, FALSE)
      BY <1>7 DEF WatchMerged, EndLeg, ForgetIssue
    <2>2. hist'.prSeen = hist.prSeen BY <1>0, <2>1, LegOverFields
    <2>3. Phase = "onPR" /\ Phase' = "merged" BY <2>1 DEF Phase, ParkCategories
    <2> QED BY <2>2, <2>3 DEF Life!Merge
  <1>8. CASE Pickup
    <2>1. pc = "idle" /\ ~SkippedThisShift /\ pc' = "look" /\ hist' = LegOver(hist, FALSE)
      BY <1>8 DEF Pickup, StartLeg, CanStart
    <2>2. hist'.prSeen = hist.prSeen BY <1>0, <2>1, LegOverFields
    <2>3. Phase \in {"queued", "asked"} /\ Phase' = "queued"
      BY <2>1 DEF Phase, SkippedThisShift
    <2> QED BY <2>2, <2>3 DEF Life!PickUp
  <1>9. CASE LookFindsPR \/ ReLookFindsPR
    <2>1. pc \in {"look", "reLook"} /\ pc' \in {"watch", "sawMerged", "sawClosed"}
          /\ hist' = PRSeen(hist)
      BY <1>9 DEF LookFindsPR, ReLookFindsPR, OnPR
    <2>2. hist'.prSeen = TRUE BY <1>0, <2>1, HistFields
    <2>3. Phase \in {"queued", "judging"} /\ Phase' = "onPR" BY <2>1 DEF Phase
    <2> QED BY <2>2, <2>3 DEF Life!SeePR
  <1>10. CASE LookDispatches
    <2>1. pc = "look" /\ pc' = "gate" /\ hist' = hist BY <1>10 DEF LookDispatches
    <2> QED BY <2>1 DEF Phase
  <1>11. CASE Dispatch
    <2>1. pc = "gate" /\ pc' = "run" /\ hist' = Dispatched(hist, pr # NoPR)
          /\ (pr # NoPR) \in BOOLEAN
      BY <1>11 DEF Dispatch
    <2>2. hist'.prSeen = hist.prSeen BY <1>0, <2>1, DispatchedFields
    <2>3. ~hist.prSeen BY <2>1 DEF SeenInv, AwayFromRuns
    <2>4. Phase = "queued" /\ Phase' = "running" BY <2>1 DEF Phase
    <2> QED BY <2>2, <2>3, <2>4 DEF Life!StartRun
  <1>12. CASE RunExit
    <2>1. PICK b : hist' = RunOver(hist, b) BY <1>12 DEF RunExit, RunEnds
    <2>2. hist'.prSeen = hist.prSeen BY <1>0, <2>1, RunOverFields
    <2>3. pc = "run" /\ pc' = "reLook" BY <1>12 DEF RunExit, RunEnds
    <2>4. Phase = "running" /\ Phase' = "judging" BY <2>3 DEF Phase
    <2> QED BY <2>2, <2>4 DEF Life!EndRun
  <1>13. CASE ReLookFindsNone \/ StillOpen \/ ClassifyAsked \/ WatchEnds
    <2>1. hist' = hist
          /\ \/ /\ pc \in {"reLook", "state", "classify"}
                /\ pc' \in {"state", "classify", "handOff"}
             \/ pc = "watch" /\ pc' \in {"watch", "sawMerged", "sawClosed"}
      BY <1>13 DEF ReLookFindsNone, StillOpen, ClassifyAsked, WatchEnds, OnPR
    <2> QED BY <2>1 DEF Phase
  <1>14. CASE WaitOutLimit \/ ResumeCrash \/ CleanResume
    <2>1. pc = "classify" /\ pc' = "look" /\ (hist' = hist \/ hist' = LimitWaitedOut(hist))
      BY <1>14 DEF WaitOutLimit, ResumeCrash, CleanResume, Crashed, CleanExit
    <2>2. hist'.prSeen = hist.prSeen
      <3>1. CASE hist' = hist BY <3>1
      <3>2. CASE hist' = LimitWaitedOut(hist) BY <1>0, <3>2, HistFields
      <3> QED BY <2>1, <3>1, <3>2
    <2>3. Phase = "judging" /\ Phase' = "queued" BY <2>1 DEF Phase
    <2> QED BY <2>2, <2>3 DEF Life!Judge
  <1>15. CASE HandOffWaits
    <2>1. pc = "handOff" /\ pc' = "waitReply" /\ hist' = hist BY <1>15 DEF HandOffWaits
    <2>2. Phase = "judging" /\ Phase' = "asked" BY <2>1 DEF Phase
    <2> QED BY <2>1, <2>2 DEF Life!Judge
  <1>16. CASE ReplyArrives
    <2>1. pc = "waitReply" /\ pc' = "look" /\ hist' = AnswerFolded(hist)
      BY <1>16 DEF ReplyArrives
    <2>2. hist'.prSeen = hist.prSeen BY <1>0, <2>1, HistFields
    <2>3. Phase = "asked" /\ Phase' = "queued" BY <2>1 DEF Phase
    <2> QED BY <2>2, <2>3 DEF Life!PickUp
  <1> QED
    BY <1>1, <1>2, <1>3, <1>4, <1>5, <1>6, <1>7, <1>8, <1>9, <1>10, <1>11, <1>12, <1>13, <1>14,
       <1>15, <1>16, NextClasses DEF Leaves, Loops

(* The loop keeps the promises of IssueLife: no run once a pull request    *)
(* was seen, merged only off one, closed without one only after a run was  *)
(* judged, parked or asked only from where a person can pick it up.        *)
THEOREM Refinement == Spec => KeepsIssueLife
  <1>1. Init => Life!Init
    BY DEF Init, Life!Init, Phase, NoHist, ParkCategories
  <1>2. TypeOK /\ SeenInv /\ [Next]_vars => [Life!Next]_(Life!life)
    BY LifeStep
  <1>3. PRInv => SeenInv BY DEF PRInv
  <1> QED
    BY <1>1, <1>2, <1>3, TypeCorrect, PRInductive, PTL DEF Spec, KeepsIssueLife, Life!Spec

-----------------------------------------------------------------------------
(* From leg to leg.  Under the mapping Stands every step of the loop is a  *)
(* step of IssueLegs or none.                                              *)

(* A question is waited on from the end of a leg to the look-up of the     *)
(* next one, which a flagged issue only reaches on a reply.                *)
AwaitInv ==
    /\ awaiting => pc \in {"idle", "look"}
    /\ pc = "look" /\ awaiting /\ flag => Replied

(* What the end of a leg, and every step inside one, does to the count of  *)
(* shifts.                                                                 *)
LEMMA ShiftFields ==
    ASSUME NEW h \in HistType, NEW b \in BOOLEAN, NEW p
    PROVE  /\ LegOver(h, p).shifts = h.shifts /\ ShiftOver(h).shifts = h.shifts
           /\ ShiftStarts(h).shifts = h.shifts + 1 /\ PRSeen(h).shifts = h.shifts
           /\ Dispatched(h, b).shifts = h.shifts /\ RunOver(h, p).shifts = h.shifts
           /\ LimitWaitedOut(h).shifts = h.shifts /\ AnswerFolded(h).shifts = h.shifts
  BY DEF HistType, LegOver, ShiftOver, ShiftStarts, PRSeen, Dispatched, RunOver,
         LimitWaitedOut, AnswerFolded

(* A quiet step keeps the question and its baseline, and only adds to the  *)
(* thread.                                                                 *)
LEMMA QuietQuestion ==
    ASSUME TypeOK, Quiet
    PROVE  /\ awaiting' = awaiting /\ baseline' = baseline
           /\ Len(thread) \in Nat /\ Len(thread') \in Nat /\ Len(thread') >= Len(thread)
           /\ pc # "run" => flag' = flag
  <1>0. thread \in Seq({"ask", "answer"}) /\ Len(thread) \in Nat BY DEF TypeOK
  <1>1. CASE RunPostsQuestion \/ PersonReplies
    <2>1. PICK x \in {"ask", "answer"} : thread' = Append(thread, x)
      BY <1>1 DEF RunPostsQuestion, PersonReplies
    <2>2. Len(thread') = Len(thread) + 1 BY <1>0, <2>1
    <2> QED BY <1>0, <1>1, <2>2 DEF RunPostsQuestion, PersonReplies, InRun, Outside, memory
  <1>2. CASE RunWorks \/ RunFlagsQuestion \/ RunClearsFlag \/ RunOpensPR \/ RunClosesIssue
    BY <1>0, <1>2 DEF RunWorks, RunFlagsQuestion, RunClearsFlag, RunOpensPR, RunClosesIssue,
                      InRun, memory
  <1>3. CASE PersonActsOnPR \/ PersonClearsNeedsHuman \/ PersonClosesIssue
    BY <1>0, <1>3 DEF PersonActsOnPR, PersonClearsNeedsHuman, PersonClosesIssue, Outside, memory
  <1>4. CASE SessionLost \/ UNCHANGED vars
    BY <1>0, <1>4 DEF SessionLost, vars, github, memory
  <1> QED BY <1>1, <1>2, <1>3, <1>4 DEF Quiet

LEMMA AwaitSteps ==
    ASSUME TypeOK, AwaitInv, [Next]_vars
    PROVE  AwaitInv'
  <1> USE DEF AwaitInv
  <1>1. CASE Quiet
    <2>1. baseline \in Nat BY DEF TypeOK
    <2>2. Replied => Replied' BY <1>1, <2>1, QuietQuestion DEF Replied
    <2> QED BY <1>1, <2>2, QuietQuestion, QuietSteps
  <1>2. CASE LookHolds \/ HandOffDefers
    BY <1>2 DEF LookHolds, HandOffDefers, EndLeg
  <1>3. CASE Leaves /\ ~LookHolds /\ ~HandOffDefers
    <2>1. awaiting' = FALSE
      BY <1>3 DEF Leaves, GateParks, KilledByCap, CrashOverBudget, GiveUpAfterCrash, CleanRefused,
           CleanPark, ClosedNoChange, WatchMerged, WatchClosed, GivesUp, WatchGivesUp, AuthRefused,
           Fails, DeadRemote, RunHadNoSkill, NewShift, Park, Stop, Gone, ForgetIssue
    <2> QED BY <2>1
  <1>4. CASE Pickup
    BY <1>4 DEF Pickup, StartLeg, CanStart, Replied, github
  <1>5. CASE LookFindsPR \/ LookDispatches
    BY <1>5 DEF LookFindsPR, LookDispatches
  <1>6. CASE Loops /\ ~Pickup /\ ~LookFindsPR /\ ~LookDispatches
    <2>1. pc \notin {"idle", "look"} /\ awaiting' = awaiting
      BY <1>6 DEF Loops, Dispatch, RunExit, RunEnds, ReLookFindsPR, ReLookFindsNone, StillOpen,
           WaitOutLimit, ClassifyAsked, ResumeCrash, Crashed, CleanResume, CleanExit, HandOffWaits,
           ReplyArrives, WatchEnds, memory
    <2> QED BY <2>1
  <1> QED BY <1>1, <1>2, <1>3, <1>4, <1>5, <1>6, NextClasses

(* A leg under way is working; a step inside it is none of IssueLegs', or  *)
(* adds to what its runs cost.                                             *)
LEMMA LegWorks ==
    ASSUME TypeOK, AwaitInv, pc \notin {"idle", "down"}, pc = "look" => ~awaiting
    PROVE  Stands = "working"
  BY DEF Stands, AwaitInv, TypeOK

LEMMA LegGoesOn ==
    ASSUME TypeOK, Stands = "working", Stands' = "working", hist'.shifts = hist.shifts,
           spent' >= spent
    PROVE  [Legs!Next]_(Legs!legs)
  BY DEF Legs!Next, Legs!Spend, Legs!Goes, Legs!NoQuestion

(* A leg that ended the issue has closed its books.                        *)
LEMMA LegFiles ==
    ASSUME TypeOK, AwaitInv, pc \notin {"idle", "look", "down"}, pc' = "idle", ForgetIssue,
           result' \in ParkCategories \cup {"merged", "closedNoChange"},
           hist'.shifts = hist.shifts
    PROVE  Legs!Next
  <1>1. Stands = "working" BY LegWorks
  <1>2. awaiting' = FALSE /\ spent' = 0 BY DEF ForgetIssue
  <1>3. CASE result' \in ParkCategories
    <2>1. Stands' = "parked" BY <1>2, <1>3 DEF Stands, SkippedThisShift, ParkCategories
    <2> QED BY <1>1, <1>2, <2>1 DEF Legs!Next, Legs!Finish, Legs!Goes, Legs!NoQuestion
  <1>4. CASE result' \in {"merged", "closedNoChange"}
    <2>1. Stands' = "done" BY <1>2, <1>4 DEF Stands, SkippedThisShift, ParkCategories
    <2> QED BY <1>1, <1>2, <2>1 DEF Legs!Next, Legs!Finish, Legs!Goes, Legs!NoQuestion
  <1> QED BY <1>3, <1>4

LEMMA LegsStep ==
    ASSUME TypeOK, AwaitInv, AwaitInv', [Next]_vars
    PROVE  [Legs!Next]_(Legs!legs)
  <1>0. hist \in HistType /\ spent \in Nat /\ baseline \in Nat BY DEF TypeOK
  <1>f. ASSUME NEW p \in BOOLEAN, NEW q
        PROVE  /\ LegOver(hist, q).shifts = hist.shifts /\ ShiftOver(hist).shifts = hist.shifts
               /\ ShiftStarts(hist).shifts = hist.shifts + 1
               /\ PRSeen(hist).shifts = hist.shifts
               /\ Dispatched(hist, p).shifts = hist.shifts
               /\ RunOver(hist, q).shifts = hist.shifts
               /\ LimitWaitedOut(hist).shifts = hist.shifts
               /\ AnswerFolded(hist).shifts = hist.shifts
    BY <1>0, ShiftFields
  <1>1. CASE Quiet
    <2>1. /\ pc' = pc /\ result' = result /\ hist' = hist /\ spent' = spent
          /\ awaiting' = awaiting /\ baseline' = baseline
      BY <1>1, QuietSteps, QuietQuestion
    <2>2. Stands' = Stands BY <2>1 DEF Stands, SkippedThisShift
    <2>3. Replied => Replied' BY <1>0, <1>1, QuietQuestion DEF Replied
    <2>4. CASE Stands = "asked"
      BY <2>1, <2>2, <2>3, <2>4 DEF Legs!Next, Legs!Wait, Legs!Goes
    <2>5. CASE Stands # "asked"
      BY <2>1, <2>2, <2>5 DEF Legs!legs
    <2> QED BY <2>4, <2>5
  <1>2. CASE AuthRefused \/ Fails \/ DeadRemote \/ RunHadNoSkill
    <2>1. pc' = "down" /\ spent' = 0 /\ hist' = ShiftOver(hist)
      BY <1>2 DEF AuthRefused, Fails, DeadRemote, RunHadNoSkill, Stop, Gone, ForgetIssue
    <2>2. hist'.shifts = hist.shifts /\ Stands' = "gone" BY <1>f, <2>1 DEF Stands
    <2> QED BY <2>1, <2>2 DEF Legs!Next, Legs!Stop, Legs!Goes, Legs!NoQuestion
  <1>3. CASE NewShift
    <2>1. /\ pc' = "idle" /\ result' = "none" /\ spent' = 0 /\ awaiting' = FALSE
          /\ hist' = ShiftStarts(hist)
      BY <1>3 DEF NewShift, Gone, ForgetIssue
    <2>2. hist'.shifts = hist.shifts + 1 BY <1>f, <2>1
    <2>3. Stands' = "free" BY <2>1 DEF Stands, SkippedThisShift, ParkCategories
    <2> QED BY <2>1, <2>2, <2>3 DEF Legs!Next, Legs!NewShift, Legs!NoQuestion
  <1>4. CASE \/ GateParks \/ KilledByCap \/ CrashOverBudget \/ GiveUpAfterCrash
             \/ CleanRefused \/ CleanPark \/ WatchClosed \/ GivesUp
    <2>1. pc \notin {"idle", "look", "down"}
      BY <1>4 DEF GateParks, KilledByCap, CrashOverBudget, GiveUpAfterCrash, Crashed,
           CleanRefused, CleanPark, CleanExit, WatchClosed, GivesUp, WatchGivesUp
    <2>2. PICK c \in ParkCategories : \E b : Park(c, b)
      <3>1. CASE GateParks \/ KilledByCap \/ CrashOverBudget
        BY <3>1 DEF GateParks, KilledByCap, CrashOverBudget, ParkCategories
      <3>2. CASE GiveUpAfterCrash \/ CleanRefused \/ WatchClosed
        BY <3>2 DEF GiveUpAfterCrash, CleanRefused, WatchClosed, ParkCategories
      <3>3. CASE CleanPark BY <3>3 DEF CleanPark, Disposition, ParkCategories
      <3>4. CASE GivesUp BY <3>4 DEF GivesUp, WatchGivesUp, ParkCategories
      <3> QED BY <1>4, <3>1, <3>2, <3>3, <3>4
    <2>3. PICK b : Park(c, b) BY <2>2
    <2>4. pc' = "idle" /\ result' = c /\ ForgetIssue /\ hist' = LegOver(hist, b)
      BY <2>3 DEF Park, EndLeg
    <2>5. hist'.shifts = hist.shifts BY <1>f, <2>4
    <2> QED BY <2>1, <2>4, <2>5, LegFiles
  <1>5. CASE ClosedNoChange \/ WatchMerged
    <2>1. /\ pc \notin {"idle", "look", "down"} /\ pc' = "idle" /\ ForgetIssue
          /\ result' \in {"merged", "closedNoChange"} /\ hist' = LegOver(hist, FALSE)
      BY <1>5 DEF ClosedNoChange, WatchMerged, EndLeg
    <2>2. hist'.shifts = hist.shifts BY <1>f, <2>1
    <2> QED BY <2>1, <2>2, LegFiles
  <1>6. CASE LookHolds
    <2>1. /\ pc = "look" /\ pc' = "idle" /\ result' = "held" /\ hist' = LegOver(hist, FALSE)
          /\ UNCHANGED <<flag, thread, awaiting, baseline, spent>>
      BY <1>6 DEF LookHolds, EndLeg, github, memory
    <2>2. hist'.shifts = hist.shifts BY <1>f, <2>1
    <2>3. CASE awaiting
      <3>1. Stands = "asked" /\ Stands' = "asked" BY <2>1, <2>3 DEF Stands
      <3>2. Replied' = Replied BY <2>1 DEF Replied
      <3> QED BY <2>1, <2>2, <3>1, <3>2 DEF Legs!Next, Legs!Wait, Legs!Goes
    <2>4. CASE ~awaiting
      <3>1. Stands = "working" BY <2>1, <2>4, LegWorks
      <3>2. Stands' = "free"
        BY <2>1, <2>4 DEF Stands, SkippedThisShift, ParkCategories, TypeOK
      <3> QED BY <2>1, <2>2, <3>1, <3>2 DEF Legs!Next, Legs!Hold, Legs!Goes, Legs!NoQuestion
    <2> QED BY <2>3, <2>4
  <1>7. CASE HandOffDefers
    <2>1. /\ pc = "handOff" /\ pc' = "idle" /\ awaiting' = TRUE /\ baseline' = Len(thread)
          /\ UNCHANGED <<thread, spent>> /\ hist' = LegOver(hist, FALSE)
      BY <1>7 DEF HandOffDefers, EndLeg, github
    <2>2. hist'.shifts = hist.shifts BY <1>f, <2>1
    <2>3. Stands = "working" BY <2>1, LegWorks
    <2>4. Stands' = "asked" BY <2>1 DEF Stands
    <2>5. ~Replied' BY <2>1 DEF Replied, TypeOK
    <2>6. spent' >= spent BY <1>0, <2>1
    <2> QED BY <2>2, <2>3, <2>4, <2>5, <2>6 DEF Legs!Next, Legs!PutDown, Legs!Goes
  <1>8. CASE Pickup
    <2>1. /\ pc = "idle" /\ pc' = "look" /\ ~SkippedThisShift /\ hist' = LegOver(hist, FALSE)
          /\ UNCHANGED <<flag, thread, awaiting, baseline, spent>>
      BY <1>8 DEF Pickup, StartLeg, CanStart, github
    <2>2. hist'.shifts = hist.shifts BY <1>f, <2>1
    <2>3. CASE awaiting
      <3>1. Stands = "asked" /\ Stands' = "asked" BY <2>1, <2>3 DEF Stands
      <3>2. Replied' = Replied BY <2>1 DEF Replied
      <3> QED BY <2>1, <2>2, <3>1, <3>2 DEF Legs!legs
    <2>4. CASE ~awaiting
      <3>1. Stands = "free" /\ Stands' = "working"
        BY <2>1, <2>4 DEF Stands, SkippedThisShift, TypeOK
      <3> QED BY <2>1, <2>2, <3>1 DEF Legs!Next, Legs!Start, Legs!Goes, Legs!NoQuestion
    <2> QED BY <2>3, <2>4 DEF TypeOK
  <1>9. CASE LookFindsPR \/ LookDispatches
    <2>1. /\ pc = "look" /\ pc' \in {"gate", "watch", "sawMerged", "sawClosed"} /\ ~awaiting'
          /\ spent' = spent /\ (hist' = hist \/ hist' = PRSeen(hist))
      BY <1>9 DEF LookFindsPR, LookDispatches, OnPR
    <2>2. hist'.shifts = hist.shifts BY <1>f, <2>1
    <2>3. Stands' = "working" BY <2>1 DEF Stands
    <2>4. CASE awaiting
      <3>1. Stands = "asked" /\ (flag => Replied) BY <2>1, <2>4 DEF Stands, AwaitInv
      <3> QED BY <2>1, <2>2, <2>3, <3>1 DEF Legs!Next, Legs!Start, Legs!Goes, Legs!NoQuestion
    <2>5. CASE ~awaiting
      <3>1. Stands = "working" BY <2>1, <2>5, LegWorks
      <3> QED BY <1>0, <2>1, <2>2, <2>3, <3>1, LegGoesOn
    <2> QED BY <2>4, <2>5
  <1>10. CASE Loops /\ ~Pickup /\ ~LookFindsPR /\ ~LookDispatches
    <2>1. /\ pc \notin {"idle", "look", "down"} /\ pc' \notin {"idle", "down"}
          /\ awaiting' = awaiting
      BY <1>10 DEF Loops, Dispatch, RunExit, RunEnds, ReLookFindsPR, ReLookFindsNone, StillOpen,
           WaitOutLimit, ClassifyAsked, ResumeCrash, Crashed, CleanResume, CleanExit, HandOffWaits,
           ReplyArrives, WatchEnds, OnPR, memory
    <2>2. Stands = "working" BY <2>1, LegWorks
    <2>3. ~awaiting' BY <2>1 DEF AwaitInv
    <2>4. Stands' = "working" BY <2>1, <2>3 DEF Stands
    <2>5. spent' >= spent
      <3>1. CASE RunExit
        <4>1. PICK cost \in RunCosts : spent' = spent + (IF MaxCost > 0 THEN cost ELSE 0)
          BY <3>1 DEF RunExit, RunEnds
        <4>2. cost \in Nat BY CostAssumption
        <4> QED BY <1>0, <4>1, <4>2
      <3>2. CASE ~RunExit BY <1>0, <1>10, <3>2, LoopsKeep
      <3> QED BY <3>1, <3>2
    <2>6. hist'.shifts = hist.shifts
      <3>0. (pr # NoPR) \in BOOLEAN OBVIOUS
      <3>1. \/ hist' = hist \/ hist' = PRSeen(hist) \/ hist' = Dispatched(hist, pr # NoPR)
            \/ (\E q : hist' = RunOver(hist, q)) \/ hist' = LimitWaitedOut(hist)
            \/ hist' = AnswerFolded(hist)
        <4>1. RunExit => \E q : hist' = RunOver(hist, q) BY DEF RunExit, RunEnds
        <4> QED BY <1>10, <4>1
             DEF Loops, Dispatch, ReLookFindsPR, ReLookFindsNone, StillOpen, WaitOutLimit,
                 ClassifyAsked, ResumeCrash, CleanResume, HandOffWaits, ReplyArrives, WatchEnds
      <3>2. \A q : RunOver(hist, q).shifts = hist.shifts BY <1>f, <3>0
      <3>3. /\ PRSeen(hist).shifts = hist.shifts /\ LimitWaitedOut(hist).shifts = hist.shifts
            /\ AnswerFolded(hist).shifts = hist.shifts
            /\ Dispatched(hist, pr # NoPR).shifts = hist.shifts
        BY <1>f, <3>0
      <3> QED BY <3>1, <3>2, <3>3
    <2> QED BY <2>2, <2>4, <2>5, <2>6, LegGoesOn
  <1> QED
    BY <1>1, <1>2, <1>3, <1>4, <1>5, <1>6, <1>7, <1>8, <1>9, <1>10, NextClasses DEF Leaves

(* The loop keeps its half of IssueLegs: a question put down is taken up   *)
(* on a reply or without its flag, a held pickup forgets nothing, a tally  *)
(* goes on until the issue has ended, and what was parked stays parked.    *)
THEOREM LegsKept == Spec => KeepsIssueLegs
  <1>1. Init => AwaitInv BY DEF Init, AwaitInv
  <1>2. Init => Legs!Init
    <2> SUFFICES ASSUME Init PROVE Legs!Init OBVIOUS
    <2>1. Stands = "free" BY DEF Init, Stands, SkippedThisShift, ParkCategories
    <2> QED BY <2>1 DEF Init, Legs!Init, NoHist
  <1>3. TypeOK /\ AwaitInv /\ [Next]_vars => AwaitInv' BY AwaitSteps
  <1>4. TypeOK /\ AwaitInv /\ AwaitInv' /\ [Next]_vars => [Legs!Next]_(Legs!legs)
    BY LegsStep
  <1> QED
    BY <1>1, <1>2, <1>3, <1>4, TypeCorrect, PTL DEF Spec, KeepsIssueLegs, Legs!Spec
=============================================================================
