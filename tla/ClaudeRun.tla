------------------------------ MODULE ClaudeRun ------------------------------
(***************************************************************************)
(* dispatchClaude: one claude process and the four goroutines around it.   *)
(* The caller's own goroutine reads the event stream, tears down and says  *)
(* what happened; a watchdog kills a silent run, a timer one that used up  *)
(* its time, a heartbeat prints while the terminal is quiet, and os/exec   *)
(* kills on Ctrl+C.                                                        *)
(*                                                                         *)
(* They share the process, two atomic flags and two channels, and each of  *)
(* their steps is one read, write, kill or channel operation. Time only    *)
(* shows in what it lets happen: silence may last, the limit may pass.     *)
(***************************************************************************)
EXTENDS Integers, Sequences, FiniteSetsExt

CONSTANTS
    Flags,     \* the settings tried: which watchdogs are armed, -max-issues
    MaxEvents, \* bound: events one process writes
    PipeRoom   \* events that fit the pipe before a writer blocks

ASSUME FlagsAssumption ==
    Flags \subseteq [stall : BOOLEAN, limit : BOOLEAN, heartbeat : BOOLEAN,
                     maxIssues : Nat]
ASSUME BoundAssumption == MaxEvents \in Nat /\ PipeRoom \in Nat \ {0}

VARIABLES
    flags,     \* this invocation's settings
    child,     \* the process: up, or gone and how; who killed it
    pipe, sent,\* its stdout, unread, and how much it wrote
    held,      \* the pipe something it left behind holds open, if any
    pc,        \* where dispatchClaude stands
    rep,       \* what scanEvents and the teardown put in the report
    quiet,     \* no event for longer than -stall
    watch,     \* the stall goroutine and its flag
    timer,     \* the budget timer and its flag
    beat,      \* the heartbeat goroutine and its channel
    cancelled, \* the context
    hist       \* history only: the finish line, and what came after it

process == <<child, pipe, sent, held>>
vars == <<flags, process, pc, rep, quiet, watch, timer, beat, cancelled, hist>>

Events == {"talk", "noskill", "create", "done", "empty", "refused", "limit", "huge"}

NoReport == [missing |-> FALSE, creates |-> 0, capped |-> FALSE, scanErr |-> FALSE,
             result |-> FALSE, idle |-> FALSE, auth |-> FALSE, limit |-> FALSE,
             failed |-> FALSE, stalled |-> FALSE, overBudget |-> FALSE, verdict |-> "none"]

(* startClaude and armWatchdogs.                                           *)
Init ==
    /\ flags \in Flags
    /\ child = [up |-> TRUE, ok |-> FALSE, by |-> "nobody"]
    /\ pipe = <<>> /\ sent = 0 /\ held = "none"
    /\ pc = "scan" /\ rep = NoReport
    /\ quiet = FALSE /\ cancelled = FALSE
    /\ watch = [at |-> IF flags.stall THEN "sleep" ELSE "gone", stalled |-> FALSE]
    /\ timer = [at |-> IF flags.limit THEN "sleep" ELSE "gone", overspent |-> FALSE]
    /\ beat = [at |-> IF flags.heartbeat THEN "sleep" ELSE "gone", done |-> FALSE]
    /\ hist = [finished |-> FALSE, late |-> FALSE]

(* Process.Kill: nothing happens to a process that has ended.              *)
Kill(who) ==
    child' = IF child.up THEN [up |-> FALSE, ok |-> FALSE, by |-> who] ELSE child

-----------------------------------------------------------------------------
(* The process.                                                            *)

(* The inventory comes first; then anything, and several results.          *)
Writes(e) ==
    /\ child.up /\ sent < MaxEvents /\ Len(pipe) < PipeRoom
    /\ e = "noskill" => sent = 0
    /\ pipe' = Append(pipe, e) /\ sent' = sent + 1
    /\ UNCHANGED <<flags, child, held, pc, rep, quiet, watch, timer, beat, cancelled, hist>>

Exits(ok, left) ==
    /\ child.up
    /\ child' = [up |-> FALSE, ok |-> ok, by |-> "nobody"] /\ held' = left
    /\ UNCHANGED <<flags, pipe, sent, pc, rep, quiet, watch, timer, beat, cancelled, hist>>

LetsGo ==
    /\ held # "none" /\ held' = "none"
    /\ UNCHANGED <<flags, child, pipe, sent, pc, rep, quiet, watch, timer, beat, cancelled, hist>>

-----------------------------------------------------------------------------
(* scanEvents.                                                             *)

(* runReport.observe, as far as the verdict reads it.                      *)
Observed(e) ==
    [rep EXCEPT !.missing = @ \/ e = "noskill",
                !.creates = IF e = "create" THEN @ + 1 ELSE @,
                !.result = @ \/ e \in {"done", "empty", "refused", "limit"},
                !.idle = IF e \in {"done", "refused", "limit"} THEN FALSE
                         ELSE IF rep.result THEN @ ELSE e = "empty",
                !.auth = IF e \in {"done", "empty", "limit"} THEN FALSE
                         ELSE @ \/ e = "refused",
                !.limit = @ \/ e = "limit"]

CapReached(r) == flags.maxIssues > 0 /\ r.creates >= flags.maxIssues

Reads ==
    /\ pc = "scan" /\ pipe # <<>> /\ Head(pipe) # "huge"
    /\ pipe' = Tail(pipe) /\ quiet' = FALSE
    /\ LET r == Observed(Head(pipe))
           caps == CapReached(r) /\ ~r.capped
       IN /\ rep' = [r EXCEPT !.capped = @ \/ caps]
          /\ IF Head(pipe) = "noskill" THEN Kill("skill")
             ELSE IF caps THEN Kill("cap") ELSE UNCHANGED child
    /\ UNCHANGED <<flags, sent, held, pc, watch, timer, beat, cancelled, hist>>

(* An event too large for the scanner ends the scan with the child alive.  *)
ReadFails ==
    /\ pc = "scan" /\ pipe # <<>> /\ Head(pipe) = "huge"
    /\ rep' = [rep EXCEPT !.scanErr = TRUE] /\ pc' = "hush"
    /\ UNCHANGED <<flags, process, quiet, watch, timer, beat, cancelled, hist>>

ReadsToTheEnd ==
    /\ pc = "scan" /\ pipe = <<>> /\ ~child.up /\ held # "stdout"
    /\ pc' = "hush"
    /\ UNCHANGED <<flags, process, rep, quiet, watch, timer, beat, cancelled, hist>>

-----------------------------------------------------------------------------
(* The teardown of dispatchClaude.                                         *)

StopsHeartbeat ==
    /\ pc = "hush" /\ beat' = [beat EXCEPT !.done = TRUE] /\ pc' = "join"
    /\ UNCHANGED <<flags, process, rep, quiet, watch, timer, cancelled, hist>>

JoinsNobody ==
    /\ pc = "join" /\ pc' = "reap"
    /\ UNCHANGED <<flags, process, rep, quiet, watch, timer, beat, cancelled, hist>>

JoinsHeartbeat ==
    /\ pc = "join" /\ beat.at = "gone" /\ pc' = "reap"
    /\ UNCHANGED <<flags, process, rep, quiet, watch, timer, beat, cancelled, hist>>

LeavesUnread ==
    /\ pc = "reap" /\ pc' = "wait"
    /\ UNCHANGED <<flags, process, rep, quiet, watch, timer, beat, cancelled, hist>>

KillsUnread ==
    /\ pc = "reap" /\ pc' = "wait"
    /\ IF rep.scanErr THEN Kill("reader") ELSE UNCHANGED child
    /\ UNCHANGED <<flags, pipe, sent, held, rep, quiet, watch, timer, beat, cancelled, hist>>

(* Wait returns when the process is gone and its stderr was read to the    *)
(* end, or WaitDelay ran out on whoever still holds it.                    *)
Waits ==
    /\ pc = "wait" /\ ~child.up /\ pc' = "load"
    /\ rep' = [rep EXCEPT !.failed = ~child.ok]
    /\ UNCHANGED <<flags, process, quiet, watch, timer, beat, cancelled, hist>>

LoadsFlags ==
    /\ pc = "load" /\ pc' = "verdict"
    /\ rep' = [rep EXCEPT !.stalled = watch.stalled, !.overBudget = timer.overspent]
    /\ UNCHANGED <<flags, process, quiet, watch, timer, beat, cancelled, hist>>

(* claudeVerdict: the first arm that holds.                                *)
Arms == <<[says |-> "no skill", when |-> rep.missing],
          [says |-> "budget", when |-> rep.overBudget],
          [says |-> "cap", when |-> rep.capped],
          [says |-> "stalled", when |-> rep.stalled],
          [says |-> "unreadable", when |-> rep.scanErr],
          [says |-> "auth", when |-> rep.auth],
          [says |-> "limit", when |-> rep.limit],
          [says |-> "no work", when |-> ~rep.failed /\ rep.idle],
          [says |-> "crash", when |-> rep.failed],
          [says |-> "fine", when |-> TRUE]>>

FirstOf(arms) == arms[Min({i \in DOMAIN arms : arms[i].when})].says

VerdictLimitFirst == FirstOf(<<Arms[6], Arms[7]>> \o Arms)
Verdict == FirstOf(Arms)

(* The finish line, the verdict, and the deferred stop.                    *)
Returns ==
    /\ pc = "verdict" /\ pc' = "returned"
    /\ rep' = [rep EXCEPT !.verdict = Verdict]
    /\ hist' = [hist EXCEPT !.finished = rep.result]
    /\ timer' = [timer EXCEPT !.at = IF @ = "sleep" THEN "gone" ELSE @]
    /\ UNCHANGED <<flags, process, quiet, watch, beat, cancelled>>

-----------------------------------------------------------------------------
(* The stall watchdog: a tick, the flag, the kill.                         *)

Silence ==
    /\ pc # "returned" /\ flags.stall /\ ~quiet /\ quiet' = TRUE
    /\ UNCHANGED <<flags, process, pc, rep, watch, timer, beat, cancelled, hist>>

StallNoticed ==
    /\ watch.at = "sleep" /\ quiet
    /\ watch' = [at |-> "kill", stalled |-> TRUE]
    /\ UNCHANGED <<flags, process, pc, rep, quiet, timer, beat, cancelled, hist>>

StallKills ==
    /\ watch.at = "kill" /\ watch' = [watch EXCEPT !.at = "gone"] /\ Kill("stall")
    /\ UNCHANGED <<flags, pipe, sent, held, pc, rep, quiet, timer, beat, cancelled, hist>>

WatchStopped ==
    /\ watch.at = "sleep" /\ pc = "returned" /\ watch' = [watch EXCEPT !.at = "gone"]
    /\ UNCHANGED <<flags, process, pc, rep, quiet, timer, beat, cancelled, hist>>

(* The budget timer: the flag, the kill.                                   *)
LimitPasses ==
    /\ timer.at = "sleep" /\ timer' = [at |-> "kill", overspent |-> TRUE]
    /\ UNCHANGED <<flags, process, pc, rep, quiet, watch, beat, cancelled, hist>>

LimitKills ==
    /\ timer.at = "kill" /\ timer' = [timer EXCEPT !.at = "gone"] /\ Kill("budget")
    /\ UNCHANGED <<flags, pipe, sent, held, pc, rep, quiet, watch, beat, cancelled, hist>>

(* The heartbeat: a tick may win over the closed channel, so the channel   *)
(* is asked again before the line goes out.                                *)
BeatGoes(from, to) ==
    /\ beat.at = from /\ beat' = [beat EXCEPT !.at = to]
    /\ UNCHANGED <<flags, process, pc, rep, quiet, watch, timer, cancelled>>

BeatTicks == BeatGoes("sleep", "ticked") /\ UNCHANGED hist
BeatAsksAgain == BeatGoes("ticked", IF beat.done THEN "gone" ELSE "speak") /\ UNCHANGED hist
BeatStays == BeatGoes("speak", "sleep") /\ UNCHANGED hist
BeatSpeaks ==
    BeatGoes("speak", "sleep") /\ hist' = [hist EXCEPT !.late = @ \/ hist.finished]
BeatStopped == beat.done /\ BeatGoes("sleep", "gone") /\ UNCHANGED hist

(* Ctrl+C, and os/exec's own goroutine on the context.                     *)
Interrupt ==
    /\ ~cancelled /\ pc # "returned" /\ cancelled' = TRUE
    /\ UNCHANGED <<flags, process, pc, rep, quiet, watch, timer, beat, hist>>

ContextKills ==
    /\ cancelled /\ child.up /\ Kill("context")
    /\ UNCHANGED <<flags, pipe, sent, held, pc, rep, quiet, watch, timer, beat, cancelled, hist>>

-----------------------------------------------------------------------------
Caller ==
    \/ Reads \/ ReadFails \/ ReadsToTheEnd
    \/ StopsHeartbeat \/ JoinsHeartbeat \/ KillsUnread
    \/ Waits \/ LoadsFlags \/ Returns

Watchdog == StallNoticed \/ StallKills \/ WatchStopped
Timer == LimitPasses \/ LimitKills
Heartbeat == BeatTicks \/ BeatAsksAgain \/ BeatStays \/ BeatSpeaks \/ BeatStopped

Child ==
    \/ \E e \in Events : Writes(e)
    \/ \E ok \in BOOLEAN, left \in {"none", "stdout", "stderr"} : Exits(ok, left)
    \/ LetsGo

Next ==
    Caller \/ Watchdog \/ Timer \/ Heartbeat \/ Child \/ Silence \/ Interrupt \/ ContextKills

Spec == Init /\ [][Next]_vars

(* Go runs every goroutine that can run, and time passes; a heartbeat that *)
(* keeps ticking sees its closed channel in the end. Nothing makes the     *)
(* process write or end.                                                   *)
FairSpec ==
    /\ Spec
    /\ WF_vars(Caller) /\ WF_vars(Watchdog) /\ WF_vars(Timer) /\ WF_vars(Heartbeat)
    /\ WF_vars(Silence) /\ WF_vars(ContextKills) /\ WF_vars(LetsGo)

-----------------------------------------------------------------------------
(* What holds.                                                             *)

Killers == {"nobody", "skill", "cap", "reader", "stall", "budget", "context"}
ChildType == [up : BOOLEAN, ok : BOOLEAN, by : Killers]

Verdicts == {"none", "no skill", "budget", "cap", "stalled", "unreadable",
             "auth", "limit", "no work", "crash", "fine"}

RepType == [missing : BOOLEAN, creates : Nat, capped : BOOLEAN, scanErr : BOOLEAN,
            result : BOOLEAN, idle : BOOLEAN, auth : BOOLEAN, limit : BOOLEAN,
            failed : BOOLEAN, stalled : BOOLEAN, overBudget : BOOLEAN,
            verdict : Verdicts]

(* Every variable stays in its range, and a watchdog about to kill has     *)
(* said so first.                                                          *)
TypeOK ==
    /\ flags \in Flags
    /\ child \in ChildType
    /\ pipe \in Seq(Events) /\ Len(pipe) <= PipeRoom /\ sent \in 0..MaxEvents
    /\ held \in {"none", "stdout", "stderr"}
    /\ pc \in {"scan", "hush", "join", "reap", "wait", "load", "verdict", "returned"}
    /\ rep \in RepType /\ (rep.capped => CapReached(rep))
    /\ quiet \in BOOLEAN /\ cancelled \in BOOLEAN
    /\ watch \in [at : {"sleep", "kill", "gone"}, stalled : BOOLEAN]
    /\ timer \in [at : {"sleep", "kill", "gone"}, overspent : BOOLEAN]
    /\ beat \in [at : {"sleep", "ticked", "speak", "gone"}, done : BOOLEAN]
    /\ hist \in [finished : BOOLEAN, late : BOOLEAN]
    /\ (watch.at = "kill" => watch.stalled)
    /\ (timer.at = "kill" => timer.overspent)

(* What a kill of polako's own may be reported as: itself, or one that     *)
(* outranks it and fired too.                                              *)
MayBeCalled == [skill |-> {"no skill"},
                budget |-> {"no skill", "budget"},
                cap |-> {"no skill", "budget", "cap"},
                stall |-> {"no skill", "budget", "cap", "stalled"},
                reader |-> {"no skill", "budget", "cap", "stalled", "unreadable"}]

(* A run polako killed is reported as killed, for the reason it was killed *)
(* or a stronger one: never as a crash to resume, a refused token, a usage *)
(* limit or a fine run, whatever events were still in the pipe.            *)
KillIsNamed ==
    pc = "returned" /\ child.by \in DOMAIN MayBeCalled
        => rep.verdict \in MayBeCalled[child.by]

(* No "still working" line goes out after "finished".                      *)
NoBeatAfterFinish == ~hist.late

(* dispatchClaude returns once the process is gone or something armed is   *)
(* there to kill it - a read that failed, a watchdog, a timer, Ctrl+C -    *)
(* although an orphan keeps its stderr. Only one that keeps its stdout     *)
(* holds it up, for as long as that lasts.                                 *)
Doomed == ~child.up \/ flags.stall \/ flags.limit \/ cancelled \/ rep.scanErr
DispatchReturns == Doomed ~> (pc = "returned")

(* "-max-issue-time ran out while this run was still going".               *)
OverBudgetWasStillGoing ==
    pc = "returned" /\ rep.verdict = "budget" => child.by # "nobody"
=============================================================================
