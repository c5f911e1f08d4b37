------------------------------- MODULE PRWatch -------------------------------
(***************************************************************************)
(* supervisePR: one open pull request watched until it leaves OPEN, with a *)
(* remediation run for a conflict, a red build or a requested change.      *)
(*                                                                         *)
(* Each poll reads the whole pull request at once and acts on what it      *)
(* read; a remediation run then takes hours, in which people push, review, *)
(* merge and close.  When it returns the head is read once more, to see    *)
(* whether the run moved the branch.                                       *)
(***************************************************************************)
EXTENDS Integers, FiniteSets

CONSTANTS
    Flags,       \* the settings of -retries and -max-cost to look at
    RunCosts,    \* what one remediation may cost
    Reviewers,   \* the accounts that review the pull request
    Trusted,     \* those of them with a trusted authorAssociation
    Rollups,     \* the check rollups GitHub may report, sets of check kinds
    MaxHead,     \* bound: pushes to the branch
    MaxTime,     \* bound: dated events, the reviews, pushes and shots
    MaxBase      \* bound: times the base moves into a conflict

CheckKinds == {"running", "failed", "stuck", "fine"}
FlagsType == [retries : Nat, maxCost : Nat]  \* -max-cost 0 is off

ASSUME FlagsAssumption == \A f \in Flags : f \in FlagsType
ASSUME CostAssumption == RunCosts \subseteq Nat
ASSUME ReviewAssumption == IsFiniteSet(Reviewers) /\ Trusted \subseteq Reviewers
ASSUME RollupAssumption == Rollups \subseteq SUBSET CheckKinds
ASSUME BoundAssumption == MaxHead \in Nat /\ MaxTime \in Nat /\ MaxBase \in Nat

VARIABLES
    flags,      \* the flags the process was started with
    state,      \* the pull request's state
    mergeable,  \* GitHub's mergeability, UNKNOWN until recomputed
    base,       \* how often the base moved into a conflict
    head,       \* the head commit, numbered
    rollup,     \* statusCheckRollup
    verdict,    \* each reviewer's latest verdict: [changes, at]
    branchAt,   \* date of the newest commit
    shotsAt,    \* date of the newest shot of the current head, 0 if none
    clock,      \* GitHub's clock
    pc,         \* "poll", the remediation in flight, or "done"
    failures, redRuns, reviewRuns,  \* the three attempt counters
    fixedHead,   \* remediatedHead, 0 when empty
    fixedReview, \* remediatedReview and remediatedReviewHead, zeroes when empty
    aim,         \* what the run in flight was dispatched at: its head and review
    spent,       \* the issue's tally
    result,      \* how the watch ended
    hist         \* history only: what the properties remember

pullRequest == <<state, mergeable, base, head, rollup, verdict, branchAt, shotsAt, clock>>
budgets == <<failures, redRuns, reviewRuns, fixedHead, fixedReview>>
vars == <<flags, pullRequest, budgets, pc, aim, spent, result, hist>>

Retries == flags.retries
MaxCost == flags.maxCost
Runs == {"conflicts", "checks", "review"}
NoReview == [head |-> 0, at |-> 0]
Nobody == [changes |-> FALSE, at |-> 0]

-----------------------------------------------------------------------------
(* What a poll makes of the pull request.                                  *)

(* classifyChecks = checksFailing: a suite still running outranks a red    *)
(* check, and a check stuck on a person does not.                          *)
ChecksFailing == "failed" \in rollup /\ "running" \notin rollup

Latest(times) == IF times = {} THEN 0 ELSE CHOOSE t \in times : \A u \in times : u <= t

AnyoneAsking == {r \in Reviewers : verdict[r].changes}

Asking == {r \in Trusted : verdict[r].changes}
ReviewedAt == Latest({verdict[r].at : r \in Asking})

ReviewOutstanding ==
    Asking # {} /\ ReviewedAt > branchAt /\ ReviewedAt > shotsAt

ShotsAnswer == Asking # {} /\ shotsAt > 0 /\ ReviewedAt <= shotsAt

Conflicting == mergeable = "CONFLICTING"

Remediable == Conflicting \/ ChecksFailing \/ ReviewOutstanding

Overspent == MaxCost > 0 /\ spent >= MaxCost

RunBudget == IF Retries > 1 THEN Retries ELSE 1

-----------------------------------------------------------------------------
Init ==
    /\ flags \in Flags
    /\ state = "OPEN" /\ mergeable = "MERGEABLE" /\ base = 0 /\ head = 1
    /\ rollup \in Rollups
    /\ verdict = [r \in Reviewers |-> Nobody]
    /\ branchAt = 1 /\ shotsAt = 0 /\ clock = 1
    /\ pc = "poll"
    /\ failures = 0 /\ redRuns = 0 /\ reviewRuns = 0
    /\ fixedHead = 0 /\ fixedReview = NoReview /\ aim = NoReview
    /\ spent = 0 /\ result = "none"
    /\ hist = [idle |-> "none",
               clean |-> [kind \in Runs |-> NoReview]]

Ends(r) == pc' = "done" /\ result' = r /\ UNCHANGED <<pullRequest, aim, spent>>

Polls == pc = "poll" /\ state = "OPEN" /\ (Overspent => ~Remediable)

SeesEnd ==
    /\ pc = "poll" /\ state # "OPEN"
    /\ Ends(state) /\ UNCHANGED <<budgets, hist>>

ParksOverspent ==
    /\ pc = "poll" /\ state = "OPEN" /\ Overspent /\ Remediable
    /\ Ends("budget") /\ UNCHANGED <<budgets, hist>>

Dispatches(kind) ==
    /\ pc' = kind
    /\ aim' = [head |-> head, at |-> ReviewedAt]
    /\ UNCHANGED <<pullRequest, spent, result>>

DispatchConflicts ==
    /\ Polls /\ Conflicting
    /\ Dispatches("conflicts") /\ UNCHANGED <<budgets, hist>>

Red == Polls /\ ~Conflicting /\ ChecksFailing

ParksRed ==
    /\ Red /\ (head = fixedHead \/ redRuns >= RunBudget)
    /\ Ends("checks") /\ UNCHANGED <<budgets, hist>>

DispatchChecksUncounted ==
    /\ Red /\ head # fixedHead /\ redRuns < RunBudget
    /\ fixedHead' = head
    /\ Dispatches("checks")
    /\ UNCHANGED <<failures, redRuns, reviewRuns, fixedReview, hist>>

DispatchChecks ==
    /\ Red /\ head # fixedHead /\ redRuns < RunBudget
    /\ redRuns' = redRuns + 1 /\ fixedHead' = head
    /\ Dispatches("checks")
    /\ UNCHANGED <<failures, reviewRuns, fixedReview, hist>>

Reviewed == Polls /\ ~Conflicting /\ ~ChecksFailing /\ ReviewOutstanding

SameReview == fixedReview = [head |-> head, at |-> ReviewedAt]

ParksReview ==
    /\ Reviewed /\ (SameReview \/ reviewRuns >= RunBudget)
    /\ Ends("review") /\ UNCHANGED <<budgets, hist>>

DispatchReview ==
    /\ Reviewed /\ ~SameReview /\ reviewRuns < RunBudget
    /\ reviewRuns' = reviewRuns + 1
    /\ fixedReview' = [head |-> head, at |-> ReviewedAt]
    /\ Dispatches("review")
    /\ UNCHANGED <<failures, redRuns, fixedHead, hist>>

-----------------------------------------------------------------------------
(* runRemediation after the run: a clean exit that left the head where it  *)
(* was is errNoPush, unless the head could not be read or screenshots      *)
(* answered the review.                                                    *)

NoPush(ended, readBack) ==
    /\ ended = "clean" /\ readBack /\ head = aim.head
    /\ ~(pc = "review" /\ ShotsAnswer)

RunReturns(kind, cost) ==
    /\ pc = kind
    /\ spent' = spent + (IF MaxCost > 0 THEN cost ELSE 0)
    /\ UNCHANGED <<pullRequest, aim>>

(* The history: what the last clean run of each kind was aimed at, and     *)
(* whether the last run of all ended cleanly and moved nothing.            *)
Noted(ended) ==
    hist' = [hist EXCEPT
               !.clean[pc] = IF ended = "clean" THEN aim ELSE NoReview,
               !.idle = IF ended = "clean" /\ head = aim.head /\ ~ShotsAnswer
                          THEN pc ELSE "none"]

ConflictsEnd(ended, readBack, cost) ==
    /\ RunReturns("conflicts", cost) /\ Noted(ended)
    /\ LET failed == ended = "failed" \/ NoPush(ended, readBack) IN
         /\ failures' = IF failed THEN failures + 1 ELSE 0
         /\ pc' = IF failed /\ failures' >= Retries THEN "done" ELSE "poll"
         /\ result' = IF pc' = "done" THEN "conflicts" ELSE "none"
    /\ UNCHANGED <<redRuns, reviewRuns, fixedHead, fixedReview>>

ChecksEndKeepsHead(ended, readBack, cost) ==
    /\ RunReturns("checks", cost) /\ Noted(ended)
    /\ pc' = "poll"
    /\ UNCHANGED <<failures, redRuns, reviewRuns, fixedHead, fixedReview, result>>

ChecksEnd(ended, readBack, cost) ==
    /\ RunReturns("checks", cost) /\ Noted(ended)
    /\ fixedHead' =
         IF ended = "failed" \/ NoPush(ended, readBack) THEN 0 ELSE fixedHead
    /\ pc' = "poll"
    /\ UNCHANGED <<failures, redRuns, reviewRuns, fixedReview, result>>

ReviewEnd(ended, readBack, cost) ==
    /\ RunReturns("review", cost) /\ Noted(ended)
    /\ fixedReview' =
         IF ended = "failed" \/ NoPush(ended, readBack) THEN NoReview ELSE fixedReview
    /\ pc' = "poll"
    /\ UNCHANGED <<failures, redRuns, reviewRuns, fixedHead, result>>

RunEnds == UNCHANGED flags /\
    \E ended \in {"clean", "failed"}, readBack \in BOOLEAN, cost \in RunCosts :
        \/ ConflictsEnd(ended, readBack, cost)
        \/ ChecksEnd(ended, readBack, cost)
        \/ ReviewEnd(ended, readBack, cost)

(* The token was refused: authAdvice ends the shift.                       *)
RunRefused ==
    /\ pc \in Runs
    /\ Ends("fatal") /\ UNCHANGED <<budgets, hist>>

-----------------------------------------------------------------------------
(* GitHub, the run's pushes and the people.                                *)

Outside == UNCHANGED <<budgets, pc, aim, spent, result, hist>>
Ticks == clock < MaxTime /\ clock' = clock + 1

(* By the run or by hand; the committer's clock may be behind.             *)
Push ==
    /\ Outside /\ Ticks /\ state = "OPEN" /\ head < MaxHead
    /\ head' = head + 1
    /\ branchAt' \in {branchAt, clock'}
    /\ shotsAt' = 0 /\ mergeable' = "UNKNOWN"
    /\ rollup' \in Rollups
    /\ UNCHANGED <<state, base, verdict>>

ChecksMove ==
    /\ Outside /\ state = "OPEN"
    /\ rollup' \in Rollups \ {rollup}
    /\ UNCHANGED <<state, mergeable, base, head, verdict, branchAt, shotsAt, clock>>

(* GitHub recomputes mergeability, or the base moves under the branch.     *)
Settles ==
    /\ Outside /\ state = "OPEN" /\ mergeable = "UNKNOWN" /\ mergeable' = "MERGEABLE"
    /\ UNCHANGED <<state, base, head, rollup, verdict, branchAt, shotsAt, clock>>

BaseMoves ==
    /\ Outside /\ state = "OPEN" /\ base < MaxBase /\ ~Conflicting
    /\ mergeable' = "CONFLICTING" /\ base' = base + 1
    /\ UNCHANGED <<state, head, rollup, verdict, branchAt, shotsAt, clock>>

(* An approval or a dismissal; a comment leaves the standing verdict.      *)
Reviews(r) ==
    /\ Outside /\ Ticks /\ state = "OPEN"
    /\ verdict' \in {[verdict EXCEPT ![r] = v] : v \in {Nobody, [changes |-> TRUE, at |-> clock']}}
    /\ UNCHANGED <<state, mergeable, base, head, rollup, branchAt, shotsAt>>

PostsShots ==
    /\ Outside /\ Ticks /\ state = "OPEN" /\ shotsAt' = clock'
    /\ UNCHANGED <<state, mergeable, base, head, rollup, verdict, branchAt>>

Leaves ==
    /\ Outside /\ state = "OPEN" /\ state' \in {"MERGED", "CLOSED"}
    /\ UNCHANGED <<mergeable, base, head, rollup, verdict, branchAt, shotsAt, clock>>

-----------------------------------------------------------------------------
Supervisor == UNCHANGED flags /\ (
    \/ SeesEnd \/ ParksOverspent
    \/ DispatchConflicts
    \/ ParksRed \/ DispatchChecks
    \/ ParksReview \/ DispatchReview)

Environment == UNCHANGED flags /\ (
    \/ RunRefused
    \/ Push \/ ChecksMove \/ Settles \/ BaseMoves \/ PostsShots \/ Leaves
    \/ \E r \in Reviewers : Reviews(r))

Next == Supervisor \/ RunEnds \/ Environment

Spec == Init /\ [][Next]_vars

(* The poll loop keeps running, and a remediation ends: execClaude's stall *)
(* and time limits kill one that does not.                                 *)
FairSpec == Spec /\ WF_vars(Supervisor) /\ WF_vars(RunEnds)

-----------------------------------------------------------------------------
(* What holds.                                                             *)

VerdictType == [changes : BOOLEAN, at : Nat]
ReviewType == [head : Nat, at : Nat]
WatchResults == {"none", "MERGED", "CLOSED", "budget", "fatal"} \cup Runs

(* Every variable stays in the range the code gives it.                    *)
TypeOK ==
    /\ flags \in Flags
    /\ state \in {"OPEN", "MERGED", "CLOSED"}
    /\ mergeable \in {"MERGEABLE", "CONFLICTING", "UNKNOWN"}
    /\ base \in Nat /\ head \in Nat /\ rollup \in Rollups
    /\ verdict \in [Reviewers -> VerdictType]
    /\ branchAt \in Nat /\ shotsAt \in Nat /\ clock \in Nat
    /\ pc \in {"poll", "done"} \cup Runs
    /\ failures \in Nat /\ redRuns \in Nat /\ reviewRuns \in Nat
    /\ fixedHead \in Nat /\ fixedReview \in ReviewType /\ aim \in ReviewType
    /\ spent \in Nat /\ result \in WatchResults
    /\ hist \in [idle : Runs \cup {"none"},
                 clean : [Runs -> ReviewType]]

(* Each kind of failure has its own budget, and a run that died is retried *)
(* rather than blamed for making no change: a park with runs left means    *)
(* the last run of that kind ended cleanly and the branch is where it left *)
(* it - for a review, with no fuller review since either.  And nothing is  *)
(* handed to a human untried, -retries=0 included.                         *)
ParkedForItsOwnCause ==
    [][/\ result' = "checks" => redRuns >= 1
       /\ result' = "review" => reviewRuns >= 1
       /\ result' = "conflicts" => failures' >= 1
       /\ result' = "checks" /\ redRuns < RunBudget /\ pc = "poll"
            => hist.clean["checks"].head = head
       /\ result' = "review" /\ reviewRuns < RunBudget /\ pc = "poll"
            => hist.clean["review"] = [head |-> head, at |-> ReviewedAt]]_vars

(* The spend caps gate all three kinds of remediation, and only those: the *)
(* tally goes over by less than one run.                                   *)
CostBounded ==
    MaxCost > 0 => \A c \in RunCosts :
        (\A d \in RunCosts : d <= c) => spent < MaxCost + c

(* Whatever a passer-by asks for, no run is sent at it.                    *)
OutsidersSpendNothing ==
    [][DispatchReview => \E r \in Trusted : verdict[r].changes]_vars

(* Money is spent for somebody the repository trusts, and under the cap.   *)
SpendsAsAllowed == OutsidersSpendNothing /\ []CostBounded

(* The watch ends: a pull request that left OPEN is noticed, whatever is   *)
(* in flight, and the treadmill stops on a build that stays red.  And once *)
(* the base stops moving into conflicts no run is sent for ever: a red     *)
(* build and a review that take turns do not give each other's budget back.*)
WatchEnds ==
    /\ state # "OPEN" ~> pc = "done"
    /\ <>[](~Conflicting /\ ChecksFailing) => <>(pc = "done")
    /\ <>[]~Conflicting => <>[](pc \notin Runs)

(* What the repository says and the code does not do.                      *)

(* behaviour.md: "a run that finishes without moving the branch has said   *)
(* all it's going to, so the issue parks instead of going round again".    *)
IdleRunIsTheLast ==
    [][\/ DispatchChecks /\ hist.idle = "checks"
       \/ DispatchReview /\ hist.idle = "review"
         => head # hist.clean[hist.idle].head]_vars
=============================================================================
