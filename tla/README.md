# A verification of polako's supervisor

polako drains a repository's backlog: it takes the open issues one at a time,
starts a `claude` process with a skill on each, reads what the run left on
GitHub and in a worktree, and resumes, waits for a person, watches the pull
request, or parks the issue for a human. The program is one Go binary
(`src/cmd/polako`, about 25,000 lines without tests). This directory models its
supervising logic in TLA+, checks it with TLC and proves the main invariants
with TLAPS. Definitions are translated from the Go source; `PROJECT.json`
names, for each of them, the lines it stands for. Docs and comments serve only
to state what is promised, and `findings` lists where the code does otherwise.

## What the system consists of

State lives in three places: on GitHub (issues, labels, comments, pull
requests, checks and reviews: durable, shared with people and with the runs),
in git worktrees (durable, shared with the runs), and in the process's memory
(lost on every restart). One drain is one goroutine, apart from the goroutines
round a running `claude`; what makes it hard is that every read of GitHub is
old by the time it is acted on, and that a run is hours long.

| Part | Source | State | Operations | Talks to | Hard because | Should hold |
|---|---|---|---|---|---|---|
| One issue's loop | `issue.go` `attempt.go` `sync.go` `park.go` | `resumeLedger`, `issueState` (session, answered, awaiting, baseline, tally) | look for a pull request, dispatch, classify what the run left, resume, hand off a question, park | a run, GitHub, the watch | runs die anywhere; people and runs act between any two reads; a restart forgets everything | retry and spend budgets hold over any mix of endings; no run beside a pull request; right park reason; every leg ends |
| Watch on a pull request | `pr.go` `reviewshots.go` | three attempt counters, last remediated head and review | poll, remediate conflicts, red checks, reviews, park, notice merge or close | a run, GitHub, reviewers | head, checks and verdicts move during a remediation; anybody may review | handed back only after a run tried; only trusted reviews spend; a red build ends |
| Drain | `drain.go` `backlog.go` `authhold.go` | skip map, remembered states, results, spend, refused-fetch streak | list, sort queues, pick, wait, work a leg, file its outcome, stop | the issue loop, the reply wait, people | listing lags, label edits fail, people relabel, restarts | no spinning, no lost question, no double work, books balance |
| Finished containers | `drain.go` `retire.go` | containers noted and closed this shift | comment, close, search, file a retire issue | GitHub, people | five calls that may each fail either way; listing and search lag | explained once, closed, retired once per call |
| Claude process | `claude.go` `stream.go` `claudeenv.go` | process, pipes, two flags, two channels | start, read events, kill on silence, time, cap or Ctrl+C, reap, verdict | os/exec, the loop | five goroutines race to end one process that may end by itself | a kill is reported as that kill; it returns; nothing printed after the finish |
| Reply wait | `replywait.go` `peek.go` | deadline, an etag and the last bot note of each thread | sleep, conditional request, full check, read | drain, GitHub | an etag may swallow a reply; bots, failed reads, several threads | any reply is found within a poll |
| Spend caps and usage gate | `budget.go` `usage.go` | tallies; pools with a reset date that names no year | read between runs, probe, wait for a reset | loop, watch, drain, the claude CLI | read between runs, used after; New Year and leap days | overshoot by less than one run; no wait longer than needed |
| Refusals | `refusals.go` | none | read a transcript for refused tools | loop | order of causes | the park names the refusal |
| Worktree reclaim | `tidy.go` | none; worktrees, refs and branches | fetch, list, judge, remove, delete branch | git, GitHub | judged clean, removed calls later | nothing is lost that was there to see |
| Label pass, plan, health | `labelpass.go` `plan.go` `health.go` `intake.go` | listing before, proposals, milestone, record | run the skill, diff, correct labels, record | GitHub, drain | proposals are visible before their labels are right; any edit may fail; issues are reopened | a proposal is never drained in silence; other people's issues stay as they are, and so do older ones unless they are reopened |
| Design | `design.go` `plans.go` | the request's label, branch and document | file, label, run, wait, supervise | a shift on the same backlog, people | no lock: the label is all that keeps design and code apart | a design is not built as code, nor code that was there to see taken for a design |
| Unpark | `unpark.go` `unpark_work.go` | none; park comments, branches | list, read threads and work, take the label off, print the grants | people, shifts | any issue may fail half way; anybody may comment | what is granted is what the cleared parks asked |
| Update | `update.go` `buildtier.go` | binary and plugin on disk | read, refresh, download, verify, swap | file system | killed between two renames | a verified binary remains; the plugin goes first |
| Gates and dry run | `gate.go` `preflight.go` `dryrun.go` | settings, copies of the plugin | tools, queue, label, effort and version gates | gh, claude | the same checks twice, refusing or noting | a dry run foresees the real one |
| Model policy | `policy.go` | labels, size, flags | resolve at pickup, choose for each run | loop | five voices, two moments | the strongest voice wins |
| Run data and stats | `metrics.go` `stats*.go` | a file of appended lines | append, fold, ask GitHub | several shifts, GitHub | torn lines, merges no shift saw | a row says what happened |
| Status | `status*.go` `plans.go` | none | six reads of a moving backlog | GitHub, people | reads that disagree | the report holds of what nobody touched meanwhile |
| Setup | `setup*.go` | a worktree, a branch, a pull request | look, write, commit, push, open | git, GitHub, people | calls that died on the way | nothing committed is stranded |
| Terminal | the rest | configuration | parse, dispatch, print | the user | sequential | (see *Not modelled*) |

`components` in `PROJECT.json` gives every part with its sources and status,
`hazards` what is hard to test, at its line, with the properties that cover it.

## Modules

- **IssueLoop** — one issue over its legs (a leg is one `processIssue` call).
  `github` holds what is durable, `memory` what `issueState` holds, `ledger` is
  `resumeLedger`. Each read or write the code makes is one step (`look`,
  `gate`, `run`, `reLook`, `state`, `classify`, `handOff`, and the watch by its
  exits), so a person, the run or GitHub can act between any two. `RunEnds`
  covers every classified end of a run: clean, crash with or without progress,
  refused token, budget kill, usage limit, each with any refusal. `Disposition`
  is `cleanExitDisposition`, `MayCrashRetry` and the `Note...` operators are the
  ledger's methods, `Park` is `handleOutcome` with `parkIssue`'s two label edits,
  either of which may fail.
- **IssueLife** — what the loop promises: eight phases of an issue and the moves
  between them. `IssueLoop` implements it under the mapping `Phase`, checked as
  the property `KeepsIssueLife` and proved.
- **IssueLegs** — the contract between the two halves of a shift, for one issue:
  where it stands between legs (free, working, asked, parked, done, gone with the
  process), the tally kept for it, and what lets the skill be set on it again.
  `IssueLoop` keeps it as the one who runs the legs (mapping `Stands`), `Drain`
  for every issue as the one who strings them together and takes a leg for one
  step. A shift that ends is counted, so a question can only be dropped, a tally
  reset or a parked issue taken up again by a step that stops the process or
  starts it. Checked and proved for both as `KeepsIssueLegs`.
- **PRWatch** — `supervisePR`. `Polls` is the one read a poll acts on; three
  `Dispatch...` and three `...End` actions are the remediations, in the order of
  the code's switch; `RunReturns` re-reads the head, which may fail. Pushes,
  moving checks, reviews with their dates, screenshots and the end of the pull
  request come from the environment.
- **Drain** — a shift over the backlog: `QueueOf` is `sortIssueQueues`,
  `CostGate`/`Lists`/`PickLowest`/`NothingLeft`/`Begin` the head of a pass,
  `Defers`/`Parks`/`Merges`/`ClosesNoChange`/`Held` the endings of a leg
  (`handleOutcome`), `Answered`/`QueueMoved` the wait for a reply. A leg is a
  single step that ends one of the ways `IssueLoop` shows it can (see `IssueLegs`).
- **Epics** — `closeFinishedContainers` and `retireOrphanedDoc`, a step per call.
  Each write may fail before or after it took effect.
- **ClaudeRun** — `dispatchClaude`: the caller (`scan`, `hush`, `join`, `reap`,
  `wait`, `load`, `verdict`), stall watchdog, budget timer, heartbeat and
  os/exec's context kill as separate processes over the child, its pipe and two
  atomic flags. `Verdict` is `claudeOutcome`'s order of arms.

The verbs beside the loop, and the parts round a shift, are a module each:

- **Tidy** — `runTidy` over its branches: one read or git call per step, so that
  a commit, an edit or a push can land between any two. A branch is a line of
  commits and a ref a position on it; what no other ref reaches is lost with it.
- **Update** — both halves of `polako update`. A file holds a version, a bad
  download or nothing; the call is killed anywhere and called again on what it left.
- **Unpark** — the listing, the threads, the work left, the label. `NextStep` is
  what the report asks of the operator, `grants` the tools of the rerun line.
- **Intake** — a run of plan or health from its snapshot to its record, with
  `normaliseProposals` one row and one edit at a time, on the labels of its one
  listing. People file, label, close and reopen issues meanwhile.
- **ReplyWait** — `waitForReply` and `awaitAnswer` over `waitForChange`, on a clock
  of peek intervals, with the etag each thread was last served.
- **UsageGate** — `usageGateReason`, `usageGateWait` and `usageReset` over a small
  calendar with a leap day.
- **Policy** — `runPolicy`: `Choose` and its rungs, for the runs of a leg.
- **Preflight** — the gates of `work` and `design` in their order. `RefuseOrNote`
  is the carve-out a dry run gets; `Candidates` picks the copies of the plugin.
- **RunData** — two shifts append the records of an issue, and `stats` and
  `status` read them back: `RollUp` folds a file, `StatsAsks` asks GitHub for the
  ends nobody recorded.
- **Setup** — `applySetupFiles` and `proposeSetupFiles` over a worktree, a branch
  and pull requests that earlier calls left in any state.
- **Design** — the verb from brief to supervised pull request, with a shift of
  `work` that reads the same backlog. A reply ends the wait of `-wait`; the flag
  stays up until the next run takes it off.
- **Status** — the reads of `readStatus` in order, `RowsOf`, `NextLine`,
  `NeedsYou` and `MoveDoc` what the report says of them.

**MCVerbs** puts the twelve together as `dispatchVerb` does: a process is one of
them. They share no memory, so each has variables of its own, and the instance
looks at each with the worlds its code tells apart.

`MC<module>` fixes the small sets a run uses; `<module>_proof` holds theorems.
Modules that stand for other programs (GitHub's lag, people, what a skill run
does, the child process) appear as environment actions, marked external in the
map and modelled from what the source says or assumes of them. Setups and flags
that are fixed when the process starts are variables set by `Init` and never
changed, so that one run covers several configurations.

How they compose: `IssueLoop` contains the watch by its exits (merged, closed,
one park per category) and those are the results `PRWatch` can reach; `Drain`
contains a leg by its endings and those are the `result`s of `IssueLoop`; the
`err` values of `RunEnds` are the verdicts of `ClaudeRun` as `dispatchRun`
groups them (every failure that is not a cap, a limit or a refused token is a crash to the loop; a
run without its skill ends the shift).

## What is checked

| Run | States | Question |
|---|---|---|
| `loop` | 1.7 M | Budgets hold, no run where a pull request was seen, no wait on a stale flag, the right blame, a dead session forgotten, closed only by a clean run; `IssueLife` and `IssueLegs` implemented. One restart, `-retries=1`, cost cap of one unit. |
| `loop_strict` | 440 k | `-strict-order` with one usage limit: every run is paid for, the first run after an answer is told so, every leg ends. |
| `watch` | 860 k | Three flag settings, a build that is red or still running, one trusted reviewer and a passer-by: nobody is parked untried, parks name their own cause, only trusted reviews spend and only under the cap, and the watch ends when the pull request does or a build stays red, and sends no run for ever once conflicts stop. |
| `drain` | 3.4 M | Five setups (plain, in review, already flagged, lag with session budget, `-once` over a dependency): what the shift put down stays down, books balance, and it stops where budget, `-once` and refused fetches say, naming who waits; `IssueLegs` implemented for every issue. |
| `drain_live` | 110 k | The loop comes to rest, finished or owed a reply to a question it put (so a backlog held back behind issues nobody can work is left, not polled), and finds every reply, default order and `-strict-order` over every set of labels. |
| `epics` | 56 k | One note, one retire issue per call, no close without its reason, and a finished epic is closed eventually. |
| `claude_run` | 160 k | Armed and unarmed watchdogs: a kill is named, no beat after the finish, the call returns. |
| `verbs` | 2.3 M | The twelve verbs and parts, one at a time: tidy loses only work made after the read that would have seen it; an update always leaves a verified binary and the plugin ahead; grants match the parks cleared; the label pass lets no proposal through in silence and spares other accounts' issues and older ones, except what was closed and is reopened while the run is out; a reply waits one poll; a usage wait ends with its pool; the strongest voice chooses; a dry run foresees the real one; rows and the last shift's report say what happened; setup strands nothing; a brief is not built as code, and a design run supervises no code except what a shift opened after its look or on an issue whose label was moved by hand; status holds. |

Properties that belong together are one: `BudgetsHold` (both retry budgets and
the spend cap), `StopsWhereItShould` (four ways a shift stops), `PutDownStaysDown`,
`SpendsAsAllowed`, `WatchEnds`, `ReportsHold`, `ReportStands`. `TypeOK` of
`IssueLoop`, `PRWatch`, `Drain`, `Epics` and `ClaudeRun` is proved for every
value of the constants (`TypeCorrect`) and no run repeats it.

Every property has a mutant in `PROJECT.json`: a definition changed as a
plausible bug would change it, after which the run must fail. They also show
that the properties' premises are met.

Four runs are expected to be violated. Each checks one sentence of the
repository the code does not keep:

- `loop_baseline`: a reply posted between the question and the read of the
  baseline becomes the baseline, and is waited past (`attempt.go:132-141`).
- `drain_cleared`: a park whose label edit failed is in neither the parked nor
  the workable list, so the shift reports the backlog as cleared
  (`drain.go:874`).
- `claude_budget`: the budget timer can pass after the process ended by itself
  and then outranks its result (`claude.go:443`).
- `setup_ok`: a setup call that died between writing a file and committing it
  has the next one report that item as already on the default branch
  (`setup_files.go:285`).

Other sentences the code does not keep are stated in the modules and listed
under `findings` without a run of their own; each is violated when given to TLC
as an invariant of the run of its module (`ReplyWait` with `WaitMoves = 2`),
`IdleRunIsTheLast` as a property:

- `IdleRunIsTheLast` (PRWatch): after a remediation that left the branch alone
  another one is sent at the same head while the budget lasts (`pr.go:192`,
  `docs/behaviour.md:387`).
- `CannotOutrunWhatMerged` (Tidy): a commit made after the tip was read goes with
  `-D` (`tidy.go:272`).
- `FullCheckEveryPoll` (ReplyWait): an early wake that hands back to the drain
  starts a new deadline (`peek.go:86`).
- `PassedResetIsPolled` (UsageGate): a reset of December 31 read in January is
  the next December's (`budget.go:144`).
- `HandFiledIsToldApart` (Intake): an issue the same account files by hand during
  the run is taken for the run's (`labelpass.go:23`).
- `StandingIsNotTaken` (Intake): an issue of this account that was closed when plan
  or health began, numbered above everything open, and reopened while the run is
  out, is taken for the run's own and relabelled (`labelpass.go:126`, against
  `:77-80`). `PassSparesTheRest` excepts what is reopened.
- `LabelledIsSafe` (Design): a shift that picked the issue before its design label
  opens code after the design run had looked; the run supervises it, on an issue
  that is labelled by then (`design.go:215`, against `:219-222`). `CodeIsNotDesign`
  excepts it.
- `ActsOnlyOnTheWholeSet`, `NextKnowsThePR` (Status): the move line does not look
  at a search that was cut (`plans.go:101`), and the next line knows open pull
  requests only (`status.go:719`).

Seen in passing and not the subject of a run: clean-exit resumes are capped per
pickup where `docs/behaviour.md:141` says per issue; a budget park drops a
pending refusal (`issue.go:84` against `attempt.go:181`), which is why
`RefusalBlamedUnlessBudget` excepts budgets; conflict remediations that push are
not bounded by `-retries`, hence `WatchEnds` assumes the conflicts stop; a
finished epic that is reopened is closed again by the next shift with its
announcement, and no new comment; the memo `commentedContainers`, meant to keep a
thread to one read per shift (`drain.go:594`), never has an effect, since the
record of tried closes already keeps the shift away (proved as `MemoSpare`); "at most one retire issue per document, ever"
holds per call only, and not when the answer to a create was lost, which is what
`OneRetirePerCall` says.

### Bounds

Bounds are constants named `Max...` or fields of a setup, and appear only in
guards of the environment. They are chosen so that every counter passes its
limit and every pair of events can happen in both orders: `-retries=1` with a
ceiling of two resumes separates fruitless from total resumes; two comments make
a question and a reply in either order; two pushes and three dated events let a
review be older or newer than a commit and a screenshot; two issues give a
dependency, a queue order and two threads waiting; two epics of one document are
what a double retire needs; two events with room for one make the writer block.
`Retries = 0` is among the settings of `watch`. Theorems drop the bounds.

In `verbs` two calls of setup and of design and three of update are what a call
that meets a dead one's leftovers, and then its own, needs; two threads, issues
or requests are what an order or a mix-up needs; one foreign move lands at any
point of the call, tidy gets two commits or edits, and the label pass two moves, which
a close and a reopen are. The calendar has
five dates over two years, the second a leap year: New Year, a leap day that
exists and one that does not. The file of run data holds two lines of two
shifts, over two instants and two pull requests of one issue.

### Fairness

- `IssueLoop`: weak fairness of the supervisor's own steps (one goroutine, no
  lock) and of a run's exit; `ClaudeRun` shows where the latter comes from.
- `PRWatch`: the same for polls and remediations. Nothing makes people or checks
  move: that a build stays red, or that the base stops moving into conflicts, are
  premises of `WatchEnds`. Red builds and reviews may alternate as they like.
- `Drain`: weak fairness of a pass; strong fairness of finding a reply, since
  people may make its guard flicker while the poll goes round all threads; the
  listing catches up.
- `Epics`: passes and shifts keep coming; strong fairness says that GitHub does
  not refuse the same call for ever; the listing catches up.
- `verbs` checks safety and action properties only: a verb is a call that ends
  because its code has no loop but over finite lists, and the waits among them
  are bounded by counting (`ReplyWaitsOnePoll`, `SleepsNoLongerThanNeeded`).
- `ClaudeRun`: Go runs runnable goroutines, time passes, and whoever inherited
  stdout lets go of it. Nothing makes the process write or end, so
  `DispatchReturns` is about a run that something is armed to kill. Without the
  assumption on stdout no watchdog helps: `scanEvents` reads until the pipe is
  closed, and only stderr has a wait limit.

Deadlock checking is off where the modelled program really stops (the leg after
its last result, the watch, the shift and the dispatch when they return) and on
in `Epics`, where a new shift always follows.

## What is proved

For all values of the constants, with the assumptions stated beside them in the
modules: natural numbers, `Skip \subseteq Issues` and the like, sets that the code
holds in memory are finite (reviewers, grants, copies of the plugin), and the worlds a
verb may find have their record types. `Retries`, the ceilings, comments, restarts,
issues, branches and releases are arbitrary. One theorem assumes more, and says so.

- **IssueLoop_proof.** `TypeCorrect`. `LedgerSafe` and `RunsPaidFor` follow from
  `BudgetInductive`: the second is not inductive, since it would let a leg at the
  top of the loop dispatch a run nothing paid for; `RunsInv` says that there the
  next run is already paid for. Steps are sorted into three classes (those that leave ledger and
  counts alone, those that end the leg, those that go round the loop) so that each
  is treated once. `PRSafe` and `BlindOnce` follow from `PRInductive`: once a pull
  request was seen one stays on the branch (it may close or reopen, not vanish)
  and the loop is at a place from which no dispatch is reached, restarts included;
  a run past an unseen one is followed by the look that finds it. `LoopInductive`
  adds what the loop remembers between steps: at a dispatch the spend is below the
  cap (`BudgetsSafe`), a flag that is waited on was put by the run that just ended
  (`NoStaleWait`), the session in hand is none after a dead resume
  (`DeadStaysDead`), an answer found is still to be told (`AnswerTold`), and the
  state is judged after clean runs only (`ClosedClean`). `Refinement`: the loop
  implements `IssueLife`, whose `StartRun` and `PutBack` are enabled only while no
  pull request has been seen, which is what `PRInductive` is needed for. `LegsKept`:
  it implements `IssueLegs`, from `AwaitInv`: a question is waited on from the end of
  a leg to the look-up of the next, which a flagged issue reaches on a reply only.
- **PRWatch_proof.** `SpendSafe` needs that the newest of finitely many reviews
  exists. `ParkedFairly` is an action property and says of a park what several
  polls before it did; `ParkInv` carries that in the state: a counter that was
  spent names a run of its kind, and a remembered head or review is one that a
  clean run of that kind left where it was.
- **Drain_proof.** `BooksKept`: `SessionSpend` is a fold over the issues; lemmas
  show what a change to one issue does to it (see below). `StopsSafe` from `StopInv`, which says at each
  place of a pass what the gates before it have excluded, that nothing was said
  while the shift goes on, and how many refused fetches came in a row.
  `StaysDown` from `DownInv`: what was parked or skipped is remembered as that.
  `LegsKept`: for every issue the shift implements `IssueLegs`. `LegsInv` adds to
  `DownInv` that a result "parked" is skipped, that what is remembered as asked is
  what was put down and not worked since (the converse of what `StopsSafe` needs),
  and that what is picked was listed as ready or flagged. A step is split by the
  issue looked at: the one being worked, and the others, which may only see their
  thread and their listing move.
- **Epics_proof.** `TypeCorrect` with the document in hand; `NotesInductive` (the
  thread about to be commented on has no marker, the one about to be closed has
  one, and the shift's memory of which have it is right) gives `NotedOnce` and the
  action property `ClosedExplained`; `ClosedOnce` from "what is still to come has
  not been tried"; `RetiredOnce` from "what was filed is remembered, unless an
  answer was lost".
- **ClaudeRun_proof.** `TypeCorrect`; `KillNamed` from the invariant that
  whoever killed the process had raised its flag or marked the report before, that
  the teardown loads both flags after the process is gone, and a lemma about the
  first arm of `Verdict` that applies; `BeatsEnd` from the order of closing the
  heartbeat's channel, joining it and printing the finish line.
- **TidyUpdate_proof.** `NothingSeenIsLost`: at every place after a read,
  what tidy read is what is there, or something was made late. `BinaryKept` and
  `HalvesKept`: between the two renames the old binary is beside its place, what
  is renamed into place was verified, and the binary's half starts when nothing
  is left of the plugin's.
- **RunData_proof.** `ReportsAreTrue`. `RecInv` says of every line what was so when
  it was written and stays so (a pull request it names was there, an end it records
  had come), that the issue records are in the order of their times, and that the
  rows of a report are what the file held when it was read, or that resolved. Records
  are line numbers, so that "the latest, the last written of equals" is a largest
  element of a finite set of numbers and no fold.
- **Verbs_proof.** Each verb with an invariant of its own. *Unpark*: an issue
  cleared has in the grants what its park asked, and no issue still to come has.
  *Policy*: the cells of the leg are those its labels and sizes give. *Preflight*:
  a gate already passed was open, or is noted. *Reply wait*: the time a reply was
  unread and the time to the deadline make a poll at most. *Design*: a branch with
  code has no design label that was there when it was picked up. *Setup*: what is
  staged, committed, pushed and offered, in this order, each a part of the next
  unless somebody merged or closed between. *Label pass*: what the run filed is
  later than the snapshot, and of an issue nobody else touched the row in hand
  knows the labels, so rows behind it are guarded; what it takes was not open before the snapshot, and was reopened if
  it stood then (`NewInv`, `PassInv`). *Usage gate*: see below.
  *Status*: a cell already read agrees with GitHub for every issue that did not
  move, nor any of its blockers; two lemmas say what each row means, and the
  report follows from them. The assumption `MeterLag <= Grace` of the usage gate is
  what `usage.go:162` claims of its grace; without it a date just past would be
  read a year late. `EachPartRuns` composes: a process shows of each verb
  a behaviour or a stutter, so `VerbsKeepTheirWord` states the properties for
  the specification that the run `verbs` checks, tidy, update and the run data
  included, and `VerbsTypesCorrect` the types of all their variables. Types took
  invariants of their own where a field is bounded by another: no etag is newer than
  its thread (`WatchInv`), only listed rows are labelled (`LabelledInv`), only what
  the worktree holds is staged (`StagedInv`).

Folds and recursive functions. An induction theorem takes an operator, which no
prover here can instantiate, but a set of counterexamples has a minimal element, by
the well-foundedness of proper subsets or of the numbers below a bound. In this way it
is proved that a finite set has a largest element, what a fold that sums yields
(`Drain`), and that the calendar of `UsageGate` exists, grows and has a date for every
day.

What the proofs found. The claim that status asks the operator to act exactly where
no shift would was false of a finished epic whose branch has an open pull request:
the next shift closes the epic while the report asks for the merge. `SaysWhatIs` now
says so (`LeftByAnEpic`), and the instance contains one.

Only model-checked: liveness and everything under fairness (`LegEnds`, `WatchEnds`,
`ComesToRest`, `ReplyIsFound`, `FinishedIsClosed`, `DispatchReturns`: outside the
prover's reach, as is ENABLED). Every invariant and every action property that a
run checks is a theorem too. No
module has a RECURSIVE operator.

## Not modelled

Flags, terminal output, the retry of a single gh or git call (`fetch.go`,
`plumbing.go`) and the wording of comments and notifications: sequential parsing
and rendering; a call that fails for good is in the models that make it. Of the
reports, grouping, money, models and the renderings as text, HTML and JSON. Of
setup, the checklist of tools and the advice. What a
park pushes of the work left in a worktree. The arguments and environment of the
`claude` process and the fields of its events beyond what the verdict reads. The
text by which refusals and usage limits are recognised: the models take any
answer. In `Drain`, the usage gate is a delay before a listing and so any
interleaving of people before `Lists`; `answered` is left to `IssueLoop`.

## Plan

1. The same contract one level down: `IssueLegs` joins `Drain` and `IssueLoop`; what
   `IssueLoop` takes for the exits of a watch is not yet stated over `PRWatch`.
2. The verbs composed with what they share on GitHub: `Unpark`, `Intake` and `Tidy`
   meet a shift through labels and branches, and so far each sees the others as
   people and shifts that move things.
