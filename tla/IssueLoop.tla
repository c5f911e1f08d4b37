------------------------------ MODULE IssueLoop ------------------------------
(***************************************************************************)
(* One issue on its way through the supervisor: processIssue's loop, the   *)
(* Claude run it dispatches, the classification of what that run left, and *)
(* the GitHub issue, pull request and worktree the two act on.             *)
(*                                                                         *)
(* A "leg" is one processIssue call.  The supervisor's steps are one read, *)
(* write or decision each, so a person, the run and GitHub may act between *)
(* any two of them.  The issue is put down for an answer, parked, merged   *)
(* or left behind by a shift that ends, and picked up again by a later     *)
(* leg, possibly in a new process that remembers nothing.                  *)
(***************************************************************************)
EXTENDS Integers, Sequences

CONSTANTS
    Retries,        \* -retries: consecutive fruitless crashes allowed
    ResumeCeiling,  \* config.resumeCeiling: resumes of any kind in a leg
    CleanCeiling,   \* cleanExitResumeCeiling: resumes of clean exits in a leg
    MaxCost,        \* -max-cost in cost units, 0 when it is off
    RunCosts,       \* what one run may cost
    StrictOrder,    \* -strict-order: wait for the answer inside the leg
    MaxComments,    \* bound: comments on the thread
    MaxLimits,      \* bound: runs the account's usage limit refuses
    MaxShifts       \* bound: times the process is stopped and started again

ASSUME RetriesAssumption == Retries \in Nat
ASSUME CeilingAssumption == ResumeCeiling \in Nat /\ CleanCeiling \in Nat
ASSUME CostAssumption == MaxCost \in Nat /\ RunCosts \subseteq Nat
ASSUME StrictAssumption == StrictOrder \in BOOLEAN
ASSUME BoundAssumption ==
    MaxComments \in Nat /\ MaxLimits \in Nat /\ MaxShifts \in Nat

VARIABLES
    issueOpen,   \* the issue is open on GitHub
    needsHuman,  \* label needs-human
    flag,        \* label awaiting-answer
    thread,      \* the comments, "ask" or "answer", oldest first
    pr,          \* the branch's pull request, as pickPR would choose it
    work,        \* the worktree holds salvageable work
    pc,          \* where the leg stands
    ledger,      \* resumeLedger
    session,     \* issueState.session: no id, one that resumes, one that cannot
    answered,    \* issueState.answered
    awaiting,    \* issueState.awaiting
    baseline,    \* issueState.baseline, as a position on the thread
    fetchAuth,   \* issueState.fetchAuthFailed
    spent,       \* issueState.tally, in cost units
    run,         \* the run in flight, or the one being classified
    result,      \* how the last leg ended
    hist         \* history only: what the properties remember

github == <<issueOpen, needsHuman, flag, thread, pr, work>>
memory == <<session, answered, awaiting, baseline, fetchAuth, spent>>
vars == <<github, pc, ledger, memory, run, result, hist>>

NoPR == "none"
PRStates == {"OPEN", "MERGED", "CLOSED"}
RunErrors == {"none", "crash", "auth", "budget", "limit"}
RunKinds == {"implement", "answers", "resume", "unfinished"}
ParkCategories == {"budget", "retries", "nothing", "permission",
                   "conflicts", "checks", "review", "prClosed"}
Results == {"none", "deferred", "held", "merged", "closedNoChange", "fatal"}
              \cup ParkCategories
Deciding == {"look", "gate", "run", "reLook", "state", "classify", "handOff",
             "sawMerged", "sawClosed"}
PCs == Deciding \cup {"idle", "waitReply", "watch", "down"}

-----------------------------------------------------------------------------
(* resumeLedger and its transitions.                                       *)

FreshLedger == [fruitless |-> 0, resumes |-> 0, cleanResumes |-> 0,
                kind |-> "none", deferred |-> FALSE]

ClearRetriesKeepsKind(l) == [l EXCEPT !.fruitless = 0, !.deferred = FALSE]

ClearRetries(l) ==
    [l EXCEPT !.fruitless = 0, !.kind = "none", !.deferred = FALSE]

NoteFruitlessOnly(l, progressed) ==
    [l EXCEPT !.kind = "resume", !.fruitless = IF progressed THEN 0 ELSE @ + 1]

NoteCrashResume(l, progressed) ==
    [l EXCEPT !.resumes = @ + 1, !.kind = "resume",
              !.fruitless = IF progressed THEN 0 ELSE @ + 1]

NoteCleanResume(l) ==
    [l EXCEPT !.resumes = @ + 1, !.cleanResumes = @ + 1, !.kind = "unfinished"]

FruitlessOnly(l) == l.fruitless < Retries

MayCrashRetry(l) == l.fruitless < Retries /\ l.resumes < ResumeCeiling

OverBudgetPastCap == MaxCost > 0 /\ spent > MaxCost

OverBudget == MaxCost > 0 /\ spent >= MaxCost

NoRun == [kind |-> "implement", resumed |-> FALSE, wasFlagged |-> FALSE,
          posted |-> FALSE, err |-> "none", progressed |-> FALSE,
          perm |-> "none"]

Posted(r) == [r EXCEPT !.posted = TRUE]
Returned(r, err, progressed, perm) ==
    [r EXCEPT !.err = err, !.progressed = progressed, !.perm = perm]
ResumeNext(l) == [l EXCEPT !.kind = "resume"]
DeferRefusal(l, yes) == [l EXCEPT !.deferred = @ \/ yes]

(* The history: runs, limits and folded count this leg's runs, the usage   *)
(* limits it waited out and the answers it took in; the rest outlives it.  *)
NoHist == [runs |-> 0, limits |-> 0, folded |-> 0, shifts |-> 0,
           blindRuns |-> 0, prSeen |-> FALSE,
           deadResume |-> FALSE, blame |-> FALSE]

LegOver(h, blame) ==
    [h EXCEPT !.runs = 0, !.limits = 0, !.folded = 0,
              !.deadResume = FALSE, !.blame = blame]
ShiftOver(h) == LegOver(h, FALSE)
ShiftStarts(h) == [ShiftOver(h) EXCEPT !.shifts = @ + 1]
PRSeen(h) == [h EXCEPT !.prSeen = TRUE]
Dispatched(h, blind) ==
    [h EXCEPT !.runs = @ + 1, !.deadResume = FALSE,
              !.blindRuns = IF blind THEN @ + 1 ELSE @]
RunOver(h, dead) == [h EXCEPT !.deadResume = dead]
LimitWaitedOut(h) == [h EXCEPT !.limits = @ + 1]
AnswerFolded(h) == [h EXCEPT !.folded = @ + 1]

-----------------------------------------------------------------------------
Init ==
    /\ issueOpen = TRUE /\ needsHuman = FALSE /\ flag = FALSE
    /\ thread = << >> /\ pr = NoPR /\ work = FALSE
    /\ pc = "idle" /\ ledger = FreshLedger
    /\ session = "none" /\ answered = FALSE /\ awaiting = FALSE
    /\ baseline = 0 /\ fetchAuth = FALSE /\ spent = 0
    /\ run = NoRun /\ result = "none"
    /\ hist = NoHist

(* handleOutcome drops the issueState of an issue that has ended.          *)
ForgetIssue ==
    /\ session' = "none" /\ answered' = FALSE /\ awaiting' = FALSE
    /\ baseline' = 0 /\ fetchAuth' = FALSE /\ spent' = 0

(* processIssue returns, and its ledger with it.  blame keeps whether a    *)
(* worked-around refusal was still pending when it did.                    *)
EndLeg(r, blame) ==
    /\ pc' = "idle" /\ result' = r /\ run' = NoRun
    /\ ledger' = FreshLedger
    /\ hist' = LegOver(hist, blame)

(* A park: handleOutcome files it and parkIssue labels the issue and takes *)
(* the question's flag off.  Either edit may fail without ending the shift.*)
Park(category, blame) ==
    /\ EndLeg(category, blame) /\ ForgetIssue
    /\ needsHuman' \in {needsHuman, TRUE}
    /\ flag' \in {flag, FALSE}
    /\ UNCHANGED <<issueOpen, thread, pr, work>>

(* The process is gone, and everything it held with it.                    *)
Gone ==
    /\ run' = NoRun /\ ledger' = FreshLedger /\ ForgetIssue
    /\ UNCHANGED github

(* An error that is neither a park nor a deferral ends the shift.          *)
Stop ==
    /\ pc' = "down" /\ result' = "fatal" /\ Gone
    /\ hist' = ShiftOver(hist)

-----------------------------------------------------------------------------
(* The leg starts: the drain picks the issue and syncDefaultBranch fetches.*)

Replied == Len(thread) > baseline
SkippedThisShift == result \in ParkCategories \cup {"merged", "closedNoChange"}

(* An issue with no flag is ready.  A flagged one is run at once when this *)
(* process did not flag it itself, and otherwise when a reply is there.    *)
CanStart ==
    /\ pc = "idle" /\ ~SkippedThisShift
    /\ issueOpen /\ ~needsHuman
    /\ flag /\ awaiting => Replied

StartLeg(fetch) ==
    /\ CanStart
    /\ pc' = "look" /\ UNCHANGED <<result, run>>
    /\ answered' = (answered \/ (flag /\ awaiting))
    /\ ledger' = FreshLedger
    /\ fetchAuth' = (fetch = "auth")
    /\ hist' = LegOver(hist, FALSE)
    /\ UNCHANGED <<github, session, awaiting, baseline, spent>>

(* Any other failure to fetch is fatal: the next issue meets it too.       *)
DeadRemote == CanStart /\ Stop

(* superviseToClose acts on the state it was given, not on what the pull   *)
(* request has become since.                                               *)
OnPR ==
    CASE pr = "MERGED" -> "sawMerged"
      [] pr = "CLOSED" -> "sawClosed"
      [] OTHER -> "watch"

(* prForBranch at the top of the loop.  The drain drops awaiting when it   *)
(* takes the issue up and restores it when the pickup is held.             *)
LookFindsPR ==
    /\ pc = "look" /\ pr # NoPR
    /\ pc' = OnPR /\ awaiting' = FALSE
    /\ hist' = PRSeen(hist)
    /\ UNCHANGED <<github, ledger, session, answered, baseline, fetchAuth,
                   spent, run, result>>

LookHoldsForgets ==
    /\ pc = "look" /\ pr = NoPR /\ fetchAuth
    /\ EndLeg("held", FALSE) /\ awaiting' = FALSE
    /\ UNCHANGED <<github, session, answered, baseline, fetchAuth, spent>>

LookHolds ==
    /\ pc = "look" /\ pr = NoPR /\ fetchAuth
    /\ EndLeg("held", FALSE)
    /\ UNCHANGED <<github, memory>>

LookPastAnyPR ==
    /\ pc = "look" /\ pr # "OPEN" /\ ~fetchAuth
    /\ pc' = "gate" /\ awaiting' = FALSE
    /\ UNCHANGED <<github, ledger, session, answered, baseline, fetchAuth,
                   spent, run, result, hist>>

LookDispatches ==
    /\ pc = "look" /\ pr = NoPR /\ ~fetchAuth
    /\ pc' = "gate" /\ awaiting' = FALSE
    /\ UNCHANGED <<github, ledger, session, answered, baseline, fetchAuth,
                   spent, run, result, hist>>

-----------------------------------------------------------------------------
(* dispatchRun up to the run.                                              *)

GateParks ==
    /\ pc = "gate" /\ OverBudget
    /\ Park("budget", ledger.deferred)

Resumes == ledger.kind # "none" /\ session # "none"

NextRunKind ==
    IF Resumes THEN ledger.kind
    ELSE IF answered THEN "answers" ELSE "implement"

Dispatch ==
    /\ pc = "gate" /\ ~OverBudget
    /\ pc' = "run"
    /\ run' = [NoRun EXCEPT !.kind = NextRunKind, !.resumed = Resumes,
                            !.wasFlagged = flag]
    /\ answered' = FALSE
    /\ hist' = Dispatched(hist, pr # NoPR)
    /\ UNCHANGED <<github, ledger, session, awaiting, baseline, fetchAuth,
                   spent, result>>

-----------------------------------------------------------------------------
(* The run, seen from outside: what the skill may do to GitHub and to the  *)
(* worktree, and how the process may end.                                  *)

CannotStart == run.resumed /\ session = "lost"

InRun ==
    /\ pc = "run" /\ ~CannotStart
    /\ UNCHANGED <<pc, ledger, memory, result, hist>>

RunWorks ==
    /\ InRun /\ ~work /\ work' = TRUE
    /\ UNCHANGED <<issueOpen, needsHuman, flag, thread, pr, run>>

(* The question first, then its flag: a run may die between the two.       *)
RunPostsQuestion ==
    /\ InRun /\ ~run.posted /\ Len(thread) < MaxComments
    /\ thread' = Append(thread, "ask")
    /\ run' = Posted(run)
    /\ UNCHANGED <<issueOpen, needsHuman, flag, pr, work>>

RunFlagsQuestion ==
    /\ InRun /\ run.posted /\ ~flag
    /\ flag' = TRUE
    /\ UNCHANGED <<issueOpen, needsHuman, thread, pr, work, run>>

RunClearsFlag ==
    /\ InRun /\ flag /\ ~run.posted
    /\ \E i \in 1..Len(thread) : thread[i] = "answer"
    /\ flag' = FALSE
    /\ UNCHANGED <<issueOpen, needsHuman, thread, pr, work, run>>

RunOpensPR ==
    /\ InRun /\ work /\ pr = NoPR /\ pr' = "OPEN"
    /\ UNCHANGED <<issueOpen, needsHuman, flag, thread, work, run>>

RunClosesIssue ==
    /\ InRun /\ issueOpen /\ issueOpen' = FALSE
    /\ UNCHANGED <<needsHuman, flag, thread, pr, work, run>>

SessionKept(started) == IF started THEN "live" ELSE session

(* A resume that never started is forgotten, so the next run goes fresh.   *)
SessionAfter(started) ==
    IF started THEN "live" ELSE IF run.resumed THEN "none" ELSE session

(* The process ends.  A resume of a lost session never starts; a run that  *)
(* asked and ended cleanly flagged its question.                           *)
RunEnds(err, started, progressed, perm, cost) ==
    /\ pc = "run"
    /\ err = "none" => started /\ (run.posted => flag)
    /\ err # "none" => perm = "none"
    /\ progressed => err = "crash"
    /\ ~started => ~progressed /\ ~run.posted /\ perm = "none"
    /\ CannotStart => ~started
    /\ err = "budget" => MaxCost > 0
    /\ err = "limit" => hist.limits < MaxLimits
    /\ session' = SessionAfter(started)
    /\ spent' = spent + (IF MaxCost > 0 THEN cost ELSE 0)
    /\ hist' = RunOver(hist, run.resumed /\ ~started)
    /\ pc' = "reLook"
    /\ run' = Returned(run, err, progressed, perm)
    /\ UNCHANGED <<github, ledger, answered, awaiting, baseline, fetchAuth, result>>

(* A prompt that named no skill did no work, and never will: errNoWork.    *)
RunHadNoSkill == pc = "run" /\ ~run.posted /\ Stop

-----------------------------------------------------------------------------
(* dispatchRun after the run, and classifyNoPR.                            *)

ReLookFindsPR ==
    /\ pc = "reLook" /\ pr # NoPR
    /\ pc' = OnPR /\ run' = NoRun
    /\ ledger' = ClearRetries(ledger)
    /\ hist' = PRSeen(hist)
    /\ UNCHANGED <<github, memory, result>>

ReLookAlwaysState ==
    /\ pc = "reLook" /\ pr = NoPR
    /\ pc' = "state"
    /\ UNCHANGED <<github, ledger, memory, run, result, hist>>

ReLookFindsNone ==
    /\ pc = "reLook" /\ pr = NoPR
    /\ pc' = IF run.err = "none" THEN "state" ELSE "classify"
    /\ UNCHANGED <<github, ledger, memory, run, result, hist>>

ClosedNoChange ==
    /\ pc = "state" /\ ~issueOpen
    /\ EndLeg("closedNoChange", FALSE) /\ ForgetIssue
    /\ UNCHANGED github

StillOpen ==
    /\ pc = "state" /\ issueOpen
    /\ pc' = "classify"
    /\ UNCHANGED <<github, ledger, memory, run, result, hist>>

AuthRefused == pc = "classify" /\ run.err = "auth" /\ Stop

KilledByCap ==
    /\ pc = "classify" /\ run.err = "budget"
    /\ Park("budget", ledger.deferred)

WaitOutLimit ==
    /\ pc = "classify" /\ run.err = "limit"
    /\ pc' = "look" /\ run' = NoRun
    /\ ledger' = ResumeNext(ledger)
    /\ hist' = LimitWaitedOut(hist)
    /\ UNCHANGED <<github, memory, result>>

AskedIfFlagged == flag

Asked == flag /\ (~run.wasFlagged \/ run.err = "none")

ClassifyAsked ==
    /\ pc = "classify" /\ run.err \in {"none", "crash"} /\ Asked
    /\ pc' = "handOff"
    /\ UNCHANGED <<github, ledger, memory, run, result, hist>>

Crashed == pc = "classify" /\ run.err = "crash" /\ ~Asked

ResumeCrash ==
    /\ Crashed /\ MayCrashRetry(ledger) /\ ~OverBudget
    /\ ledger' = NoteCrashResume(ledger, run.progressed)
    /\ pc' = "look" /\ run' = NoRun
    /\ UNCHANGED <<github, memory, result, hist>>

CrashOverBudget ==
    /\ Crashed /\ MayCrashRetry(ledger) /\ OverBudget
    /\ Park("budget", ledger.deferred)

GiveUpBlamesRetries ==
    /\ Crashed /\ ~MayCrashRetry(ledger)
    /\ Park("retries", ledger.deferred)

GiveUpOnlyFruitless ==
    /\ Crashed /\ ledger.fruitless >= Retries
    /\ Park(IF ledger.deferred THEN "permission" ELSE "retries", ledger.deferred)

GiveUpAfterCrash ==
    /\ Crashed /\ ~MayCrashRetry(ledger)
    /\ Park(IF ledger.deferred THEN "permission" ELSE "retries", ledger.deferred)

CleanExit == pc = "classify" /\ run.err = "none" /\ ~Asked

AfterRefusal == DeferRefusal(ledger, run.perm = "workedAround")

(* cleanExitDisposition: the bound that stops the resume, "nothing" with   *)
(* no work to resume, or "resume".                                         *)
Disposition ==
    CASE ~work -> "nothing"
      [] work /\ OverBudget -> "budget"
      [] work /\ ~OverBudget /\ (\/ ledger.cleanResumes >= CleanCeiling
                                 \/ ledger.resumes >= ResumeCeiling) -> "retries"
      [] OTHER -> "resume"

CleanRefused ==
    /\ CleanExit /\ run.perm = "refused"
    /\ Park("permission", ledger.deferred)

CleanResume ==
    /\ CleanExit /\ run.perm # "refused" /\ Disposition = "resume"
    /\ ledger' = NoteCleanResume(AfterRefusal)
    /\ pc' = "look" /\ run' = NoRun
    /\ UNCHANGED <<github, memory, result, hist>>

CleanPark ==
    /\ CleanExit /\ run.perm # "refused" /\ Disposition # "resume"
    /\ Park(IF \/ AfterRefusal.deferred
               \/ run.perm = "asked" /\ Disposition = "nothing"
            THEN "permission" ELSE Disposition,
            AfterRefusal.deferred)

-----------------------------------------------------------------------------
(* handOffQuestion: the baseline is read in a call of its own.             *)

HandOffDefers ==
    /\ pc = "handOff" /\ ~StrictOrder
    /\ baseline' = Len(thread) /\ awaiting' = TRUE
    /\ EndLeg("deferred", FALSE)
    /\ UNCHANGED <<github, session, answered, fetchAuth, spent>>

HandOffWaits ==
    /\ pc = "handOff" /\ StrictOrder
    /\ baseline' = Len(thread)
    /\ pc' = "waitReply" /\ run' = NoRun
    /\ UNCHANGED <<github, ledger, session, answered, awaiting, fetchAuth,
                   spent, result, hist>>

ReplyArrives ==
    /\ pc = "waitReply" /\ Replied
    /\ ledger' = ClearRetries(ledger)
    /\ answered' = TRUE
    /\ pc' = "look"
    /\ hist' = AnswerFolded(hist)
    /\ UNCHANGED <<github, session, awaiting, baseline, fetchAuth, spent, run, result>>

-----------------------------------------------------------------------------
(* superviseToClose; the polling and remediation inside supervisePR is     *)
(* module PRWatch, and appears here by its exits.                          *)

WatchEnds ==
    /\ pc = "watch" /\ pr \in {"MERGED", "CLOSED"}
    /\ pc' = OnPR
    /\ UNCHANGED <<github, ledger, memory, run, result, hist>>

WatchMerged ==
    /\ pc = "sawMerged"
    /\ issueOpen' = FALSE
    /\ EndLeg("merged", FALSE) /\ ForgetIssue
    /\ UNCHANGED <<needsHuman, flag, thread, pr, work>>

WatchClosed ==
    /\ pc = "sawClosed"
    /\ Park("prClosed", FALSE)

(* A remediation that fails once too often parks whatever became of the    *)
(* pull request while it ran.                                              *)
WatchGivesUp(category) ==
    /\ pc = "watch"
    /\ Park(category, FALSE)

(* A GitHub read or write that still fails after its retries, or a token   *)
(* refused during a remediation, ends the shift with the issue as it was.  *)
Fails ==
    /\ pc \in {"look", "gate", "reLook", "state", "classify", "handOff",
              "watch", "sawMerged"}
    /\ Stop

-----------------------------------------------------------------------------
(* People, and the process being stopped and started again.                *)

Outside == UNCHANGED <<pc, ledger, memory, run, result, hist>>

PersonReplies ==
    /\ Outside /\ Len(thread) < MaxComments
    /\ thread' = Append(thread, "answer")
    /\ UNCHANGED <<issueOpen, needsHuman, flag, pr, work>>

PersonActsOnPR ==
    /\ Outside
    /\ pr' \in CASE pr = "OPEN" -> {"MERGED", "CLOSED"}
                [] pr \in {NoPR, "CLOSED"} -> {"OPEN"}
                [] OTHER -> {}
    /\ UNCHANGED <<issueOpen, needsHuman, flag, thread, work>>

PersonClearsNeedsHuman ==
    /\ Outside /\ needsHuman /\ needsHuman' = FALSE
    /\ UNCHANGED <<issueOpen, flag, thread, pr, work>>

PersonClosesIssue ==
    /\ Outside /\ issueOpen /\ issueOpen' = FALSE
    /\ UNCHANGED <<needsHuman, flag, thread, pr, work>>

SessionLost ==
    /\ session = "live" /\ pc # "run" /\ session' = "lost"
    /\ UNCHANGED <<github, pc, ledger, answered, awaiting, baseline, fetchAuth,
                   spent, run, result, hist>>

(* Ctrl+C, a kill, a reboot, or simply the next night: everything the      *)
(* process held is gone, and a run in flight dies with it.                 *)
NewShift ==
    /\ hist.shifts < MaxShifts
    /\ pc' = "idle" /\ result' = "none" /\ Gone
    /\ hist' = ShiftStarts(hist)

-----------------------------------------------------------------------------
Pickup == \E fetch \in {"ok", "auth"} : StartLeg(fetch)

RunExit ==
    \E err \in RunErrors, started, progressed \in BOOLEAN, cost \in RunCosts,
       perm \in {"none", "asked", "refused", "workedAround"} :
        RunEnds(err, started, progressed, perm, cost)

GivesUp == \E c \in {"budget", "conflicts", "checks", "review"} : WatchGivesUp(c)

Supervisor ==
    \/ Pickup
    \/ LookFindsPR \/ LookHolds \/ LookDispatches
    \/ GateParks \/ Dispatch
    \/ ReLookFindsPR \/ ReLookFindsNone \/ ClosedNoChange \/ StillOpen
    \/ AuthRefused \/ KilledByCap \/ WaitOutLimit \/ ClassifyAsked
    \/ ResumeCrash \/ CrashOverBudget \/ GiveUpAfterCrash
    \/ CleanRefused \/ CleanResume \/ CleanPark
    \/ HandOffDefers \/ HandOffWaits \/ ReplyArrives
    \/ WatchEnds \/ WatchMerged \/ WatchClosed

Claude ==
    \/ RunWorks \/ RunPostsQuestion \/ RunFlagsQuestion \/ RunClearsFlag
    \/ RunOpensPR \/ RunClosesIssue

Environment ==
    \/ PersonReplies \/ PersonActsOnPR \/ PersonClearsNeedsHuman
    \/ PersonClosesIssue \/ SessionLost \/ NewShift \/ Fails \/ GivesUp
    \/ DeadRemote \/ RunHadNoSkill

Next == Supervisor \/ Claude \/ RunExit \/ Environment

Spec == Init /\ [][Next]_vars

-----------------------------------------------------------------------------
(* What holds.                                                             *)

LedgerType ==
    [fruitless : Nat, resumes : Nat, cleanResumes : Nat,
     kind : {"none", "resume", "unfinished"}, deferred : BOOLEAN]

RunType ==
    [kind : RunKinds, resumed : BOOLEAN, wasFlagged : BOOLEAN,
     posted : BOOLEAN, err : RunErrors, progressed : BOOLEAN,
     perm : {"none", "asked", "refused", "workedAround"}]

HistType ==
    [runs : Nat, limits : Nat, folded : Nat, shifts : Nat,
     blindRuns : Nat, prSeen : BOOLEAN,
     deadResume : BOOLEAN, blame : BOOLEAN]

(* Every variable stays in the range the code gives it.                    *)
TypeOK ==
    /\ issueOpen \in BOOLEAN /\ needsHuman \in BOOLEAN /\ flag \in BOOLEAN
    /\ thread \in Seq({"ask", "answer"})
    /\ pr \in PRStates \cup {NoPR} /\ work \in BOOLEAN
    /\ pc \in PCs /\ ledger \in LedgerType
    /\ session \in {"none", "live", "lost"}
    /\ answered \in BOOLEAN /\ awaiting \in BOOLEAN
    /\ baseline \in Nat /\ fetchAuth \in BOOLEAN /\ spent \in Nat
    /\ run \in RunType /\ result \in Results /\ hist \in HistType

(* The retry budgets hold in every leg, however crashes, clean exits,      *)
(* usage limits and answers alternate (resumeLedger, mayCrashRetry,        *)
(* cleanExitDisposition).                                                  *)
LedgerBounded ==
    /\ ledger.fruitless <= Retries
    /\ ledger.resumes <= ResumeCeiling
    /\ ledger.cleanResumes <= CleanCeiling
    /\ ledger.cleanResumes <= ledger.resumes

(* Every run of a leg after the first was paid for by a resume the ceiling *)
(* counts, a usage limit that was waited out, or an answer that came in:   *)
(* no path round processIssue's loop gets a run for nothing.               *)
EveryRunPaidFor ==
    hist.runs <= 1 + ledger.resumes + hist.limits + hist.folded

(* Once a pull request has been seen on the branch no run of the skill is  *)
(* in flight again, in this process or any later one (waitsOnPR).          *)
NoRunOncePRSeen == hist.prSeen => pc # "run"

(* The look-up and the dispatch are two steps, so a pull request opened by *)
(* hand in between can be run past, but only ever once: the next look-up   *)
(* finds it, across kills and restarts too.                                *)
OneBlindRunAtMost == hist.blindRuns <= 1

(* A wait on a reply after a crash means the crashed run posted the        *)
(* question itself: a flag left up by an earlier question is never waited  *)
(* on (classifyNoPR's two readings of the label).                          *)
NoWaitOnStaleFlag == pc = "handOff" => run.posted \/ run.err = "none"

(* A session that a resume could not start is not resumed a second time:   *)
(* the run after it is a fresh one (dispatchRun's dead session).           *)
DeadSessionForgotten ==
    [][Dispatch => ~(hist.deadResume /\ run'.resumed)]_vars

(* The first run after an answer arrives is told so, whatever the ledger   *)
(* was in the middle of when the question was put (nextRunKind and         *)
(* clearRetries).                                                          *)
AnsweredRunIsTold ==
    [][Dispatch /\ answered => run'.kind = "answers"]_vars

(* An issue is reported finished without a pull request only when the run  *)
(* that left it so ended cleanly and the issue really is closed.           *)
ClosedOnlyByCleanRun ==
    [][result' = "closedNoChange" /\ result # "closedNoChange"
          => run.err = "none" /\ ~issueOpen /\ pr' = pr]_vars

(* -max-cost is overshot by less than one run, over all the legs of an     *)
(* issue in one process: the tally survives a wait for an answer.          *)
CostBounded ==
    MaxCost > 0 => \A c \in RunCosts :
        (\A d \in RunCosts : d <= c) => spent < MaxCost + c

(* Neither retry budget nor the spend cap is passed, whatever the sequence *)
(* of endings that spent them: the two tallies an issue keeps over its     *)
(* crashes, clean exits, limits, questions and legs.                       *)
BudgetsHold == LedgerBounded /\ CostBounded

(* A park that a spend cap did not cause blames a worked-around refusal    *)
(* that is still pending, whichever arm of the loop gave up.               *)
RefusalBlamedUnlessBudget ==
    result \in ParkCategories /\ hist.blame => result \in {"permission", "budget"}

(* Every leg comes to rest: the issue waits for a person, has a pull       *)
(* request, or has ended.                                                  *)
LegEnds == pc \in Deciding ~> pc \notin Deciding

(* The loop keeps the promises of IssueLife: the skill never runs again    *)
(* once a pull request was seen, an issue is merged only off one, and is   *)
(* closed without one only after a run has been judged.                    *)
Phase ==
    CASE pc = "run" -> "running"
      [] pc \in {"reLook", "state", "classify", "handOff"} -> "judging"
      [] pc = "waitReply" -> "asked"
      [] pc \in {"watch", "sawMerged", "sawClosed"} -> "onPR"
      [] pc = "idle" /\ awaiting -> "asked"
      [] pc = "idle" /\ ~awaiting /\ result \in ParkCategories -> "parked"
      [] pc = "idle" /\ ~awaiting /\ result = "merged" -> "merged"
      [] pc = "idle" /\ ~awaiting /\ result = "closedNoChange" -> "closed"
      [] OTHER -> "queued"

Life == INSTANCE IssueLife WITH phase <- Phase, known <- hist.prSeen

KeepsIssueLife == Life!Spec

(* The loop keeps its half of IssueLegs, from leg to leg: a question put   *)
(* down is taken up on a reply, a held pickup forgets nothing, and the     *)
(* tally goes on from leg to leg until the issue has ended.                *)
Stands ==
    CASE pc = "down" -> "gone"
      [] pc \in {"idle", "look"} /\ awaiting -> "asked"
      [] pc = "idle" /\ ~awaiting /\ result \in ParkCategories -> "parked"
      [] pc = "idle" /\ ~awaiting /\ result \in {"merged", "closedNoChange"} -> "done"
      [] pc = "idle" /\ ~awaiting /\ ~SkippedThisShift -> "free"
      [] OTHER -> "working"

Legs == INSTANCE IssueLegs WITH
    stands <- Stands, tally <- spent, shift <- hist.shifts,
    replied <- Stands = "asked" /\ Replied,
    flagged <- Stands = "asked" /\ flag

KeepsIssueLegs == Legs!Spec

(* What the repository says and the code does not do.                      *)

(* commentBaseline: the newest comment when a question was flagged "is the *)
(* question itself"; handOffQuestion: it "can never be mistaken for its    *)
(* own answer" - so what is waited past is a question, not a reply.        *)
BaselineIsTheQuestion ==
    awaiting \/ pc = "waitReply" =>
        (baseline > 0 => thread[baseline] = "ask")

-----------------------------------------------------------------------------
(* The process keeps running its own code, and a run ends: runClaude's     *)
(* stall and time limits kill one that does not.                           *)
FairSpec == Spec /\ WF_vars(Supervisor) /\ WF_vars(RunExit)
=============================================================================
