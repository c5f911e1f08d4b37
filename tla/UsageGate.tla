------------------------------ MODULE UsageGate ------------------------------
(***************************************************************************)
(* The usage gate: between issues the shift asks the claude CLI how full   *)
(* the plan's session and week pools are, and waits while one that has a   *)
(* cap is at or over it: for the reset the CLI names, or a poll at a time. *)
(* The CLI names a reset by its date alone, without a year.                *)
(*                                                                         *)
(* The calendar is small: dates 1 to Dates, of which the second exists in  *)
(* even years only, as February 29 does.                                   *)
(***************************************************************************)
EXTENDS Integers

CONSTANTS
    Dates,       \* dates of a year, the leap day among them
    Grace,       \* usageResetStaleGrace
    PoolSpan,    \* how far ahead a pool resets, at most
    MeterLag,    \* how long a meter may read over after its reset
    Years        \* bound: the years that pass

ASSUME UsageAssumption ==
    /\ Dates \in Nat \ {0, 1} /\ Grace \in Nat /\ PoolSpan \in Nat \ {0}
    /\ MeterLag \in Nat /\ Years \in Nat \ {0}

VARIABLES
    usagePc,     \* "rest", "pass", "probe", "sleep" or "issue"
    usageCaps,   \* which pools have a cap: -max-session-usage, -max-week-usage
    meters,      \* each pool: under, or over since it reaches its next reset
    today,       \* the instant, in days from the first day of year 1
    sleepUntil,  \* when the wait in hand ends
    usageHist    \* history only: what the probe of this pass showed, and when

usageVars == <<usagePc, usageCaps, meters, today, sleepUntil, usageHist>>

Pools == {"session", "week"}
LeapDate == 2
YearLength(y) == IF y % 2 = 0 THEN Dates ELSE Dates - 1
YearStart[y \in Nat] == IF y <= 1 THEN 0 ELSE YearStart[y - 1] + YearLength(y - 1)
Exists(y, d) == d # LeapDate \/ y % 2 = 0
DayOf(y, d) == YearStart[y] + (IF d < LeapDate \/ y % 2 = 0 THEN d ELSE d - 1) - 1
YearAt(day) == CHOOSE y \in 1..Years + 1 : YearStart[y] <= day /\ day < YearStart[y + 1]
DateAt(day) == CHOOSE d \in 1..Dates :
                  Exists(YearAt(day), d) /\ DayOf(YearAt(day), d) = day
Horizon == YearStart[Years + 1] - 1

(* usageReset: this year or the next, the first in which the date exists   *)
(* and is not past by more than the grace.                                 *)
NoReset == -1
UpcomingOnly(y, d) == Exists(y, d) /\ today <= DayOf(y, d)
Candidate(y, d) == Exists(y, d) /\ today - DayOf(y, d) <= Grace
UsageReset(d) ==
    LET y == YearAt(today)
    IN  CASE Candidate(y, d) -> DayOf(y, d)
          [] ~Candidate(y, d) /\ Candidate(y + 1, d) -> DayOf(y + 1, d)
          [] OTHER -> NoReset

NothingShown == [at |-> 0, reset |-> 0]
UsageInit ==
    /\ usagePc = "rest" /\ usageCaps = {} /\ today = 0 /\ sleepUntil = 0
    /\ meters = [p \in Pools |-> [over |-> FALSE, reset |-> 0]]
    /\ usageHist = NothingShown

ShiftStarts ==
    /\ usagePc = "rest" /\ usagePc' = "pass" /\ usageCaps' \in SUBSET Pools
    /\ UNCHANGED <<meters, today, sleepUntil, usageHist>>

(* usageGateReason: without a cap, or when the probe cannot answer, the    *)
(* pass goes on; otherwise the session pool is looked at before the week   *)
(* pool, and a pool the answer leaves out trips nothing.                   *)
Passes ==
    /\ usagePc = "pass" /\ usagePc' = IF usageCaps = {} THEN "issue" ELSE "probe"
    /\ UNCHANGED <<usageCaps, meters, today, sleepUntil, usageHist>>
ProbeIsBlind ==
    /\ usagePc = "probe" /\ usagePc' = "issue"
    /\ UNCHANGED <<usageCaps, meters, today, sleepUntil, usageHist>>

(* usageGateWait: to the reset and a slack past it, or one poll.           *)
UsagePoll == 1
Slack == 1
WaitFor(p, readable) ==
    LET at == IF readable THEN UsageReset(DateAt(meters[p].reset)) ELSE NoReset
    IN  IF at > today THEN at - today + Slack ELSE UsagePoll
ProbeAnswers ==
    /\ usagePc = "probe" /\ UNCHANGED <<usageCaps, meters, today>>
    /\ \E shown \in SUBSET Pools \ {{}}, readable \in BOOLEAN :
          LET over == {p \in shown \cap usageCaps : meters[p].over}
              first == IF "session" \in over THEN "session" ELSE "week"
          IN  IF over = {} THEN usagePc' = "issue" /\ UNCHANGED <<sleepUntil, usageHist>>
              ELSE /\ usagePc' = "sleep"
                   /\ usageHist' = [at |-> today, reset |-> meters[first].reset]
                   /\ sleepUntil' = today + WaitFor(first, readable)
WakesUp ==
    /\ usagePc = "sleep" /\ today >= sleepUntil /\ usagePc' = "pass"
    /\ sleepUntil' = 0 /\ usageHist' = NothingShown /\ UNCHANGED <<usageCaps, meters, today>>
WorksIssue ==
    /\ usagePc = "issue" /\ usagePc' = "pass"
    /\ UNCHANGED <<usageCaps, meters, today, sleepUntil, usageHist>>

(* The account: whatever uses the plan fills a pool; it reads over until   *)
(* its reset, and a little longer when the meter lags.                     *)
PoolFills ==
    \E p \in Pools, ahead \in 1..PoolSpan :
       /\ usagePc # "rest" /\ ~meters[p].over /\ today + ahead <= Horizon
       /\ meters' = [meters EXCEPT ![p] = [over |-> TRUE, reset |-> today + ahead]]
       /\ UNCHANGED <<usagePc, usageCaps, today, sleepUntil, usageHist>>
PoolResets ==
    \E p \in Pools :
       /\ meters[p].over /\ today >= meters[p].reset
       /\ meters' = [meters EXCEPT ![p] = [over |-> FALSE, reset |-> 0]]
       /\ UNCHANGED <<usagePc, usageCaps, today, sleepUntil, usageHist>>
DayPasses ==
    /\ usagePc \in {"sleep", "issue"} /\ today < Horizon
    /\ \A p \in Pools : meters[p].over => today < meters[p].reset + MeterLag
    /\ today' = today + 1
    /\ UNCHANGED <<usagePc, usageCaps, meters, sleepUntil, usageHist>>

UsageNext ==
    \/ ShiftStarts \/ Passes \/ ProbeIsBlind \/ ProbeAnswers \/ WakesUp 
    \/ WorksIssue \/ PoolFills \/ PoolResets \/ DayPasses

UsageTypeOK ==
    /\ usagePc \in {"rest", "pass", "probe", "sleep", "issue"} /\ usageCaps \subseteq Pools
    /\ today \in 0..Horizon /\ sleepUntil \in Nat
    /\ \A p \in Pools : meters[p].reset \in 0..Horizon

(* A wait is never longer than the pool it waits for needs: it ends within *)
(* the slack of a reset still to come, across New Year and leap days too,  *)
(* and at the next poll when the reset is past and the meter lags          *)
(* (budget.go:141), unless the date named was in the old year.             *)
NoLongerThanNeeded ==
    \/ sleepUntil <= usageHist.reset + Slack
    \/ sleepUntil <= usageHist.at + UsagePoll
SleepsNoLongerThanNeeded ==
    usagePc = "sleep" => NoLongerThanNeeded \/ YearAt(usageHist.reset) < YearAt(usageHist.at)

(* "one whose named reset has already passed while the meter still reads   *)
(* over, falls back to one -poll and another look" (budget.go:144).        *)
PassedResetIsPolled == usagePc = "sleep" => NoLongerThanNeeded
=============================================================================
