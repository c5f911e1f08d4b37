-------------------------------- MODULE Drain --------------------------------
(***************************************************************************)
(* drain: one shift over the whole backlog.  Each pass lists the open      *)
(* issues, takes the lowest one that is ready, works it (one leg, module   *)
(* IssueLoop, which appears here by its endings), and files it under how   *)
(* it ended; when nothing is ready it waits for an answer on one of the    *)
(* issues it was put down for.                                             *)
(*                                                                         *)
(* Everything the shift knows apart from the listing is in memory.  People *)
(* relabel, close, reopen, merge and reply at any moment, GitHub's listing *)
(* may lag, label edits may fail, and the process may be started again.    *)
(***************************************************************************)
EXTENDS Integers, FiniteSets, FiniteSetsExt

CONSTANTS
    Issues,        \* the issue numbers
    Skip,          \* -skip
    LegCosts,      \* what the runs of one leg may cost
    AuthHoldLimit, \* authHoldLimit
    Setups         \* the shifts to look at: flags, backlogs and bounds

Labels == {"needs-human", "proposed", "design", "awaiting-answer"}
PRStates == {"none", "open", "merged", "closed"}
RowType == [open : BOOLEAN, labels : SUBSET Labels, pr : PRStates]

(* A shift starts with -strict-order, -once and -max-session-cost (0 when  *)
(* off), on a backlog with its blockedBy dependencies and containers and   *)
(* under a listing that may lag.  relabels, touches and shifts are bounds: *)
(* the labels people turn, what they do in all, and how often the process  *)
(* is started again.                                                       *)
SetupType ==
    [strictOrder : BOOLEAN, once : BOOLEAN, maxSession : Nat, lag : BOOLEAN,
     rows : [Issues -> RowType], blockedBy : [Issues -> SUBSET Issues],
     containers : SUBSET Issues,
     relabels : SUBSET Labels, touches : Nat, shifts : Nat]

ASSUME IssuesAssumption == IsFiniteSet(Issues) /\ Issues \subseteq Nat
ASSUME SkipAssumption == Skip \subseteq Issues
ASSUME CostAssumption == LegCosts \subseteq Nat
ASSUME LimitAssumption == AuthHoldLimit \in Nat \ {0}
ASSUME SetupAssumption == \A s \in Setups : s \in SetupType

VARIABLES
    setup,    \* the shift looked at, never changed
    row,      \* each issue on GitHub: open, its labels, its branch's pull request
    replies,  \* how many comments people left on its thread
    index,    \* each issue as the listing would show it
    seen,     \* the listing this pass works from
    pc,       \* where the pass stands
    cur,      \* the issue picked, when there is one
    skip,     \* shift.skip
    states,   \* shift.states: what is remembered of an issue between its legs
    results,  \* shift.results, as the endings reported for each issue
    booked,   \* what the runs of those results cost
    streak,   \* shift.authStreak
    said,     \* what the process said as it stopped
    hist      \* history only: what the properties remember

github == <<row, replies, index>>
memory == <<skip, states, results, booked, streak>>
vars == <<setup, github, seen, pc, cur, memory, said, hist>>

StrictOrder == setup.strictOrder
Once == setup.once
MaxSession == setup.maxSession

Endings == {"parked", "merged", "closedNoChange"}
Exits == {"none", "cleared", "stuck", "budget", "once", "fatal", "auth"}

Unknown == [awaiting |-> FALSE, baseline |-> 0, cost |-> 0]
NoListing == [i \in Issues |-> [open |-> FALSE, labels |-> {}]]

-----------------------------------------------------------------------------
(* sortIssueQueues, on the listing: the first case that fits is the queue, *)
(* and a blocker counts while the listing shows it open.                   *)
QueueOf(i, l) ==
    IF ~l[i].open THEN "unlisted"
    ELSE IF i \in setup.containers THEN "container"
    ELSE IF "needs-human" \in l[i].labels THEN "parked"
    ELSE IF "proposed" \in l[i].labels THEN "proposed"
    ELSE IF "design" \in l[i].labels THEN "design"
    ELSE IF "awaiting-answer" \in l[i].labels THEN "blocked"
    ELSE IF \E b \in setup.blockedBy[i] : l[b].open THEN "heldBack"
    ELSE "ready"

Queued(queue) == {i \in Issues : QueueOf(i, seen) = queue}

(* openIssues: -strict-order folds the second queue back into the first.   *)
Workable == (IF StrictOrder THEN Queued("ready") \cup Queued("blocked")
             ELSE Queued("ready")) \ skip
Waiting == IF StrictOrder THEN {} ELSE Queued("blocked") \ skip

(* What the listing shows: at once, or when GitHub gets round to it.       *)
Listed(r) == [open |-> r.open, labels |-> r.labels]
Writes(i, r) ==
    /\ row' = [row EXCEPT ![i] = r]
    /\ index' = IF setup.lag THEN index ELSE [index EXCEPT ![i] = Listed(r)]

BookedOnly == booked

(* sessionSpend: the issues it has finished with, and the ones it put down.*)
SessionSpend == booked + MapThenSumSet(LAMBDA i : states[i].cost, Issues)

(* The history: this shift's parks, the issues it put down and has not     *)
(* worked since, what its runs cost, the pickups in a row whose fetch was  *)
(* refused, and the issues that came to an ending or were put down.        *)
NoHist == [parked |-> {}, asked |-> {}, spent |-> 0, dry |-> 0,
           outcomes |-> 0, shifts |-> 0, touches |-> 0]
Capped(n, bound) == IF n < bound THEN n + 1 ELSE n

PickedUp(h, refused) ==
    [h EXCEPT !.asked = @ \ {cur},
              !.dry = IF refused THEN Capped(@, AuthHoldLimit) ELSE 0]
HeldUp(h) == [h EXCEPT !.dry = Capped(@, AuthHoldLimit)]
Ended(h, cost) == [h EXCEPT !.spent = @ + cost, !.outcomes = Capped(@, 2)]
PutDown(h, cost) == [Ended(h, cost) EXCEPT !.asked = @ \cup {cur}]
ParkEnded(h, cost) == [Ended(h, cost) EXCEPT !.parked = @ \cup {cur}]
Touched(h) == [h EXCEPT !.touches = @ + 1]
ShiftStarts(h) == [NoHist EXCEPT !.shifts = h.shifts + 1, !.touches = h.touches]

-----------------------------------------------------------------------------
FreshShift ==
    /\ skip' = Skip /\ states' = [i \in Issues |-> Unknown]
    /\ results' = [i \in Issues |-> {}] /\ booked' = 0 /\ streak' = 0

Init ==
    /\ setup \in Setups /\ row = setup.rows
    /\ replies = [i \in Issues |-> 0]
    /\ index = [i \in Issues |-> Listed(row[i])]
    /\ seen = NoListing /\ pc = "top" /\ cur = 0
    /\ skip = Skip /\ states = [i \in Issues |-> Unknown]
    /\ results = [i \in Issues |-> {}] /\ booked = 0 /\ streak = 0
    /\ said = "none" /\ hist = NoHist

(* The listing is forgotten as soon as the pick it was made for is over.   *)
Stops(exit) == pc' = "down" /\ said' = exit /\ cur' = 0 /\ seen' = NoListing
Loops == pc' = "top" /\ cur' = 0 /\ seen' = NoListing /\ said' = said

-----------------------------------------------------------------------------
(* Between issues: the cost gate, the listing, the pick.                   *)

(* Read between issues and never inside one.                               *)
CostGate ==
    /\ pc = "top" /\ MaxSession > 0 /\ SessionSpend >= MaxSession
    /\ Stops("budget")
    /\ UNCHANGED <<github, memory, hist>>

(* The usage gate may hold the pass here as long as the plan's limit says. *)
Lists ==
    /\ pc = "top" /\ ~(MaxSession > 0 /\ SessionSpend >= MaxSession)
    /\ seen' = index /\ pc' = "pick"
    /\ UNCHANGED <<github, cur, memory, said, hist>>

ListFails ==
    /\ pc = "top" /\ Stops("fatal")
    /\ UNCHANGED <<github, memory, hist>>

Takes(i) == cur' = i /\ pc' = "begin"

PickLowest ==
    /\ pc = "pick" /\ Workable # {}
    /\ Takes(Min(Workable))
    /\ UNCHANGED <<github, seen, memory, said, hist>>

(* Nothing is workable and nobody is owed a reply: the shift is over.  The *)
(* states are cleared, so that the summary names nothing as waiting.       *)
NothingLeft ==
    /\ pc = "pick" /\ Workable = {} /\ Waiting = {}
    /\ states' = [i \in Issues |-> Unknown]
    /\ Stops(IF Queued("parked") # {} THEN "stuck" ELSE "cleared")
    /\ UNCHANGED <<github, skip, results, booked, streak, hist>>

(* awaitAnswer: a question this shift did not put itself is run at once.   *)
PickFlagged ==
    LET unasked == {i \in Waiting : ~states[i].awaiting} IN
    /\ pc = "pick" /\ Workable = {} /\ unasked # {}
    /\ Takes(Min(unasked))
    /\ UNCHANGED <<github, seen, memory, said, hist>>

AwaitsHeldBack ==
    /\ pc = "pick" /\ Workable = {} /\ Waiting \cup Queued("heldBack") # {}
    /\ \A i \in Waiting : states[i].awaiting
    /\ pc' = "wait"
    /\ UNCHANGED <<github, seen, cur, memory, said, hist>>

AwaitsAnswer ==
    /\ pc = "pick" /\ Workable = {} /\ Waiting # {}
    /\ \A i \in Waiting : states[i].awaiting
    /\ pc' = "wait"
    /\ UNCHANGED <<github, seen, cur, memory, said, hist>>

Replied(i) == replies[i] > states[i].baseline

AnsweredFirstOnly(i) ==
    /\ pc = "wait" /\ i = Min(Waiting) /\ Replied(i)
    /\ Takes(i)
    /\ UNCHANGED <<github, seen, memory, said, hist>>

(* An early wake reads the threads that moved, a full check all of them,   *)
(* and any of the reads may fail: which answered thread is found is open.  *)
Answered(i) ==
    /\ pc = "wait" /\ i \in Waiting /\ Replied(i)
    /\ Takes(i)
    /\ UNCHANGED <<github, seen, memory, said, hist>>

(* Something else moved, or -poll is up: the queue is derived again.       *)
QueueMoved ==
    /\ pc = "wait" /\ Loops
    /\ UNCHANGED <<github, memory, hist>>

-----------------------------------------------------------------------------
(* The leg: its own fetch, then processIssue.                              *)

BeginNeverResets(refused) ==
    /\ pc = "begin"
    /\ refused => row[cur].pr # "none"
    /\ states' = [states EXCEPT ![cur].awaiting = FALSE]
    /\ pc' = "leg" /\ seen' = NoListing
    /\ hist' = PickedUp(hist, refused)
    /\ UNCHANGED <<github, cur, skip, results, booked, streak, said>>

(* An open pull request is waited on whatever the fetch said; the pickup   *)
(* then leaves the streak as it is.                                        *)
Begin(refused) ==
    /\ pc = "begin"
    /\ refused => row[cur].pr # "none"
    /\ states' = [states EXCEPT ![cur].awaiting = FALSE]
    /\ streak' = IF refused THEN streak ELSE 0
    /\ pc' = "leg" /\ seen' = NoListing
    /\ hist' = PickedUp(hist, refused)
    /\ UNCHANGED <<github, cur, skip, results, booked, said>>

HoldForgetsQuestion ==
    /\ pc = "begin" /\ row[cur].pr = "none"
    /\ states' = [states EXCEPT ![cur].awaiting = FALSE]
    /\ streak' = streak + 1
    /\ hist' = HeldUp(hist)
    /\ IF streak' >= AuthHoldLimit THEN Stops("auth")
       ELSE Loops
    /\ UNCHANGED <<github, skip, results, booked>>

HoldIsTheOnce ==
    /\ pc = "begin" /\ row[cur].pr = "none"
    /\ streak' = streak + 1
    /\ hist' = HeldUp(hist)
    /\ IF Once THEN Stops("once")
       ELSE IF streak' >= AuthHoldLimit THEN Stops("auth")
       ELSE Loops
    /\ UNCHANGED <<github, skip, states, results, booked>>

(* errFetchAuthHeld and authHold: no run, no park, no outcome; a question  *)
(* the issue was waiting on still is.                                      *)
Held ==
    /\ pc = "begin" /\ row[cur].pr = "none"
    /\ streak' = streak + 1
    /\ hist' = HeldUp(hist)
    /\ IF streak' >= AuthHoldLimit THEN Stops("auth")
       ELSE Loops
    /\ UNCHANGED <<github, skip, states, results, booked>>

(* A remote that cannot be fetched at all.                                 *)
DeadRemote ==
    /\ pc = "begin" /\ Stops("fatal")
    /\ states' = [states EXCEPT ![cur].awaiting = FALSE]
    /\ hist' = PickedUp(hist, FALSE)
    /\ UNCHANGED <<github, skip, results, booked, streak>>

-----------------------------------------------------------------------------
(* handleOutcome.                                                          *)

NextPass == IF Once THEN Stops("once") ELSE Loops

FilesAfterDelete(ending, cost) ==
    /\ results' = [results EXCEPT ![cur] = @ \cup {ending}]
    /\ booked' = booked + cost
    /\ states' = [states EXCEPT ![cur] = Unknown]

(* An issue leaves states as it enters results.                            *)
Files(ending, cost) ==
    /\ results' = [results EXCEPT ![cur] = @ \cup {ending}]
    /\ booked' = booked + states[cur].cost + cost
    /\ states' = [states EXCEPT ![cur] = Unknown]

DefersUnmarked(cost) ==
    /\ pc = "leg" /\ ~StrictOrder /\ row[cur].pr = "none"
    /\ Writes(cur, [row[cur] EXCEPT !.labels = @ \cup {"awaiting-answer"}])
    /\ states' = [states EXCEPT ![cur].baseline = replies[cur],
                                ![cur].cost = @ + cost]
    /\ hist' = PutDown(hist, cost)
    /\ NextPass
    /\ UNCHANGED <<replies, skip, results, booked, streak>>

(* The run flagged the issue; the newest comment then is the baseline.     *)
Defers(cost) ==
    /\ pc = "leg" /\ ~StrictOrder /\ row[cur].pr = "none"
    /\ Writes(cur, [row[cur] EXCEPT !.labels = @ \cup {"awaiting-answer"}])
    /\ states' = [states EXCEPT ![cur].awaiting = TRUE,
                                ![cur].baseline = replies[cur],
                                ![cur].cost = @ + cost]
    /\ hist' = PutDown(hist, cost)
    /\ NextPass
    /\ UNCHANGED <<replies, skip, results, booked, streak>>

(* parkIssue: both label edits are best effort.                            *)
ParkIssue ==
    \E labelled \in {{}, {"needs-human"}}, unflagged \in {{}, {"awaiting-answer"}} :
        Writes(cur, [row[cur] EXCEPT !.labels = (@ \cup labelled) \ unflagged])

ParksByLabel(cost) ==
    /\ pc = "leg" /\ Files("parked", cost) /\ ParkIssue
    /\ hist' = ParkEnded(hist, cost)
    /\ NextPass
    /\ UNCHANGED <<replies, skip, streak>>

Parks(cost) ==
    /\ pc = "leg" /\ Files("parked", cost) /\ ParkIssue
    /\ skip' = skip \cup {cur}
    /\ hist' = ParkEnded(hist, cost)
    /\ NextPass
    /\ UNCHANGED <<replies, streak>>

Merges(cost) ==
    /\ pc = "leg" /\ row[cur].pr # "closed"
    /\ Files("merged", cost)
    /\ Writes(cur, [row[cur] EXCEPT !.open = FALSE, !.pr = "merged"])
    /\ hist' = Ended(hist, cost)
    /\ NextPass
    /\ UNCHANGED <<replies, skip, streak>>

ClosesNoChange(cost) ==
    /\ pc = "leg" /\ row[cur].pr = "none"
    /\ Files("closedNoChange", cost)
    /\ Writes(cur, [row[cur] EXCEPT !.open = FALSE])
    /\ hist' = Ended(hist, cost)
    /\ NextPass
    /\ UNCHANGED <<replies, skip, streak>>

LegFails ==
    /\ pc = "leg" /\ Stops("fatal")
    /\ UNCHANGED <<github, memory, hist>>

-----------------------------------------------------------------------------
(* People, GitHub, and the next shift.                                     *)

Touch ==
    /\ hist.touches < setup.touches /\ hist' = Touched(hist)
    /\ UNCHANGED <<seen, pc, cur, memory, said>>

PersonReplies(i) ==
    /\ Touch /\ replies' = [replies EXCEPT ![i] = @ + 1]
    /\ UNCHANGED <<row, index>>

PersonRelabels(i, l) ==
    /\ Touch /\ UNCHANGED replies
    /\ Writes(i, [row[i] EXCEPT !.labels = IF l \in @ THEN @ \ {l} ELSE @ \cup {l}])

PersonClosesOrReopens(i) ==
    /\ Touch /\ UNCHANGED replies
    /\ Writes(i, [row[i] EXCEPT !.open = ~@])

PersonEndsPR(i, end) ==
    /\ Touch /\ UNCHANGED replies /\ row[i].pr = "open"
    /\ Writes(i, [row[i] EXCEPT !.pr = end])

CatchesUp(i) ==
    /\ setup.lag /\ index[i] # Listed(row[i])
    /\ index' = [index EXCEPT ![i] = Listed(row[i])]
    /\ UNCHANGED <<setup, row, replies, seen, pc, cur, memory, said, hist>>

(* The process is stopped, or was down, and is started again.              *)
NewShift ==
    /\ hist.shifts < setup.shifts
    /\ FreshShift
    /\ pc' = "top" /\ cur' = 0 /\ seen' = NoListing /\ said' = "none"
    /\ hist' = ShiftStarts(hist)
    /\ UNCHANGED github

-----------------------------------------------------------------------------
(* Costs are followed where a budget looks at them.                        *)
LegEnds ==
    \E cost \in IF MaxSession > 0 THEN LegCosts ELSE {0} :
        Defers(cost) \/ Parks(cost) \/ Merges(cost) \/ ClosesNoChange(cost)

Pass == UNCHANGED setup /\ (
    \/ CostGate \/ Lists
    \/ PickLowest \/ NothingLeft \/ PickFlagged \/ AwaitsAnswer
    \/ \E i \in Issues : Answered(i)
    \/ QueueMoved
    \/ \E refused \in BOOLEAN : Begin(refused)
    \/ LegEnds)

People == UNCHANGED setup /\
    \E i \in Issues :
        \/ PersonReplies(i) \/ PersonClosesOrReopens(i)
        \/ \E l \in setup.relabels : PersonRelabels(i, l)
        \/ \E end \in {"merged", "closed"} : PersonEndsPR(i, end)

Troubles == UNCHANGED setup /\
    (ListFails \/ Held \/ DeadRemote \/ LegFails \/ NewShift)

Next == Pass \/ Troubles \/ People \/ \E i \in Issues : CatchesUp(i)

Spec == Init /\ [][Next]_vars

(* The loop keeps running, a leg ends (IssueLoop: LegEnds, and people      *)
(* decide on pull requests), reads do not fail for ever, and the listing   *)
(* catches up.                                                             *)
FairSpec ==
    /\ Spec /\ WF_vars(Pass)
    /\ \A i \in Issues : SF_vars(Answered(i) /\ UNCHANGED setup) /\ WF_vars(CatchesUp(i))

-----------------------------------------------------------------------------
(* What holds.                                                             *)

ListedType == [open : BOOLEAN, labels : SUBSET Labels]
StateType == [awaiting : BOOLEAN, baseline : Nat, cost : Nat]
HistType == [parked : SUBSET Issues, asked : SUBSET Issues, spent : Nat,
             dry : Nat, outcomes : Nat, shifts : Nat, touches : Nat]

(* Every variable stays in the range the code gives it, and an issue is    *)
(* picked exactly while it is being worked.                                *)
TypeOK ==
    /\ setup \in Setups
    /\ row \in [Issues -> RowType] /\ replies \in [Issues -> Nat]
    /\ index \in [Issues -> ListedType] /\ seen \in [Issues -> ListedType]
    /\ pc \in {"top", "pick", "wait", "begin", "leg", "down"}
    /\ IF pc \in {"begin", "leg"} THEN cur \in Issues ELSE cur = 0
    /\ skip \in SUBSET Issues /\ states \in [Issues -> StateType]
    /\ results \in [Issues -> SUBSET Endings]
    /\ booked \in Nat /\ streak \in Nat
    /\ said \in Exits /\ hist \in HistType

(* Every cost unit of the shift's runs is on the books exactly once,       *)
(* however often an issue is put down, held, parked, reopened or picked    *)
(* again off a stale listing (spend, sessionSpend).                        *)
BooksBalance == pc # "down" => SessionSpend = hist.spent

(* -max-session-cost is overshot by less than one leg.                     *)
SessionBounded ==
    MaxSession > 0 => \A c \in LegCosts :
        (\A d \in LegCosts : d <= c) => hist.spent < MaxSession + c

(* What the shift put down stays down.  An issue it parked is not worked   *)
(* again before the next one, even when the label did not take, the        *)
(* listing lags, or somebody takes the label off (shift.skip), and so for  *)
(* the numbers given with -skip; and a question is paid for once: an issue *)
(* put down and still found flagged is run again only on a reply.          *)
PutDownStaysDown ==
    [][pc = "begin" /\ pc' = "leg" =>
         /\ cur \notin hist.parked \cup Skip
         /\ cur \in hist.asked /\ QueueOf(cur, seen) = "blocked" =>
               replies[cur] > states[cur].baseline]_vars

(* A shift that stops before the backlog does names every issue it put     *)
(* down and did not work since, pickups held by authHold included.         *)
WaitingIsNamed ==
    said \in {"budget", "once", "fatal", "auth"} =>
        \A i \in hist.asked : states[i].awaiting

(* Only pickups refused in a row stop the shift: one whose fetch worked    *)
(* starts the count again.                                                 *)
AuthStopsInARow == said = "auth" => hist.dry >= AuthHoldLimit

(* -once is one issue: a pickup that was held does not count as it.        *)
OnceIsOneOutcome ==
    /\ Once => hist.outcomes <= 1
    /\ said = "once" => hist.outcomes = 1

(* A shift stops where its flags and the remote say, neither sooner nor    *)
(* later, and forgets nobody by it: the four above in one.                 *)
StopsWhereItShould ==
    SessionBounded /\ WaitingIsNamed /\ AuthStopsInARow /\ OnceIsOneOutcome

(* Each issue goes from leg to leg as IssueLegs says, whatever the pass    *)
(* does to the others: its question is kept over a pickup that was held, a *)
(* reply to it is not lost, its tally goes on where it was, and once       *)
(* parked it is left alone until the process is started again.             *)
Rests(i) ==
    IF "parked" \in results[i] THEN "parked"
    ELSE IF states[i].awaiting THEN "asked"
    ELSE IF results[i] # {} THEN "done" ELSE "free"

Stands(i) ==
    IF pc = "down" THEN "gone"
    ELSE IF pc = "leg" /\ cur = i THEN "working" ELSE Rests(i)

Legs(i) == INSTANCE IssueLegs WITH
    stands <- Stands(i), shift <- hist.shifts,
    tally <- IF pc = "down" THEN 0 ELSE states[i].cost,
    replied <- Stands(i) = "asked" /\ Replied(i),
    flagged <- Stands(i) = "asked" /\ "awaiting-answer" \in seen[i].labels

KeepsIssueLegs ==
    /\ \A i \in Issues : Legs(i)!Init
    /\ [][\A i \in Issues : UNCHANGED Legs(i)!legs \/ Legs(i)!Next]_vars

(* A pass never spins: the shift keeps coming back to rest, however the    *)
(* label edits of its parks fared.  It rests when it has finished, or when *)
(* it waits on an issue it put a question on itself: a backlog that is all *)
(* held back behind issues nobody can work is left and not polled.         *)
OwedAReply == \E i \in Waiting : states[i].awaiting
ComesToRest == []<>(pc = "down" \/ (pc = "wait" /\ OwedAReply))

(* A reply on the thread of an issue that was put down gets it run, as     *)
(* long as it stays flagged and nothing else holds it back.                *)
Eligible(i) ==
    /\ row[i].open /\ row[i].labels = {"awaiting-answer"}
    /\ i \notin setup.containers \cup skip
ReplyIsFound ==
    \A i \in Issues :
        ~<>[](pc # "down" /\ i \in hist.asked /\ Replied(i) /\ Eligible(i))

(* What the repository says and the code does not do.                      *)

(* reportNothingLeftToWork: a backlog that "still holds a parked issue"    *)
(* does not read as success; "the fresh listing this pass already made     *)
(* reflects any park this same pass just did".                             *)
ClearedHidesNoPark ==
    said = "cleared" => \A i \in hist.parked : ~index[i].open
=============================================================================
