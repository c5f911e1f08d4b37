------------------------------- MODULE RunData -------------------------------
(***************************************************************************)
(* The run data: shifts append one line per run and one per issue that     *)
(* ended, to a file nothing else in the program reads, and polako stats    *)
(* reads it back, rolls it up per issue and asks GitHub about the issues   *)
(* whose end no shift saw.  A shift may be killed at any time, a line may  *)
(* not be written or be torn, and people merge when no shift looks.        *)
(*                                                                         *)
(* The n-th pull request of an issue's branch is number n.  Tokens, cost   *)
(* and configuration are copied from report to record and left out.        *)
(***************************************************************************)
EXTENDS Integers, Sequences

CONSTANTS
    RecIssues,   \* the issues worked
    RecShifts,   \* the shift ids: one per process, never reused
    RecClock,    \* bound: the time at which the world stops
    RecLines,    \* bound: the lines appended
    RecPRs       \* bound: the pull requests of one branch

ASSUME RecAssumption ==
    /\ RecIssues \subseteq Nat /\ RecShifts \subseteq Nat \ {0}
    /\ RecClock \in Nat /\ RecLines \in Nat /\ RecPRs \in Nat

VARIABLES
    recNow,    \* the clock
    recFile,   \* the records, in the order they were appended
    recGH,     \* each issue: its queue on GitHub and its pull requests
    recWork,   \* what each shift is doing
    recLost,   \* bound: a line was lost on its own
    recReport  \* the report being made: its options, its rows and GitHub's answers

recVars == <<recNow, recFile, recGH, recWork, recLost, recReport>>

NotStarted == [at |-> "new", issue |-> 0, from |-> 0, pr |-> 0]
NoReport == [at |-> "none", shift |-> 0, rows |-> {}, upTo |-> 0, answered |-> FALSE,
             parks |-> {}]
RecInit ==
    /\ recNow = 1 /\ recFile = <<>> /\ recLost = FALSE /\ recReport = NoReport
    /\ recGH = [i \in RecIssues |-> [queue |-> "open", prs |-> <<>>]]
    /\ recWork = [s \in RecShifts |-> NotStarted]

(* Bound: once the files are read, only GitHub's answer may still change.  *)
NotReported == recReport.at = "none" /\ UNCHANGED recReport

(* pickPR: an open pull request, else a merged one, else the newest.       *)
PRsIn(i, state) == {n \in DOMAIN recGH[i].prs : recGH[i].prs[n].state = state}
Newest(ns) == IF ns = {} THEN 0 ELSE CHOOSE n \in ns : \A m \in ns : m <= n
Oldest(ns) == IF ns = {} THEN 0 ELSE CHOOSE n \in ns : \A m \in ns : n <= m
PickPR(i) ==
    IF PRsIn(i, "OPEN") # {} THEN Newest(PRsIn(i, "OPEN"))
    ELSE IF PRsIn(i, "MERGED") # {} THEN Newest(PRsIn(i, "MERGED"))
    ELSE Newest(DOMAIN recGH[i].prs)

(* recorder.append: one line at the end of the file, or nothing, or the    *)
(* part of a line that a kill left, which swallows the line appended after *)
(* it; none of it stops the shift.  Bound: one line is lost on its own.    *)
Torn == [kind |-> "torn"]
Spoiled == [kind |-> "spoiled"]
Swallows == recFile # <<>> /\ recFile[Len(recFile)] = Torn
Appends(rec) ==
    \/ /\ ~Swallows /\ Len(recFile) < RecLines
       /\ recFile' = Append(recFile, rec) /\ UNCHANGED recLost
    \/ /\ Swallows /\ recFile' = [recFile EXCEPT ![Len(recFile)] = Spoiled]
       /\ UNCHANGED recLost
    \/ /\ ~recLost /\ recLost' = TRUE /\ Len(recFile) < RecLines
       /\ recFile' \in {recFile, Append(recFile, Torn)}
RunRecord(s, pr) ==
    [kind |-> "run", shift |-> s, issue |-> recWork[s].issue, ts |-> recWork[s].from,
     end |-> recNow, pr |-> pr]
IssueRecord(s, outcome) ==
    [kind |-> "issue", shift |-> s, issue |-> recWork[s].issue, ts |-> recNow,
     outcome |-> outcome]
Busy(s, at) == recWork[s].at = at
Leaves(s, at) == recWork' = [recWork EXCEPT ![s] = [NotStarted EXCEPT !.at = at]]

(* A shift picks up an open issue: a branch with a pull request is         *)
(* watched, one without gets a run.  Bound: a shift's first pickup waits   *)
(* for those before it to have put theirs down.                            *)
ShiftPicks(s, i) ==
    /\ recWork[s].at \in {"new", "idle"} /\ recGH[i].queue = "open"
    /\ \A t \in RecShifts : t < s => recWork[t].at \in {"idle", "gone"}
    /\ recWork' = [recWork EXCEPT ![s] =
          [at |-> IF PickPR(i) = 0 THEN "run" ELSE "watch", issue |-> i, from |-> recNow,
           pr |-> PickPR(i)]]
    /\ UNCHANGED <<recNow, recFile, recGH, recLost>> /\ NotReported

(* A run ends and its record is written, with the pull request the branch  *)
(* then has, or none where the lookup failed.  A watch may start another   *)
(* run, on the pull request it watches.                                    *)
RunOpensPR(s) ==
    /\ Busy(s, "run") /\ PickPR(recWork[s].issue) = 0 /\ recGH[recWork[s].issue].queue = "open"
    /\ recGH' = [recGH EXCEPT ![recWork[s].issue].prs =
                   Append(@, [state |-> "OPEN", ended |-> 0])]
    /\ UNCHANGED <<recNow, recFile, recWork, recLost>> /\ NotReported
RunEnds(s) ==
    /\ Busy(s, "run")
    /\ LET found == PickPR(recWork[s].issue)
           watched == IF recWork[s].pr # 0 THEN recWork[s].pr ELSE found
       IN  /\ \/ /\ Appends(RunRecord(s, watched))
                 /\ recWork' = [recWork EXCEPT ![s].at = IF watched = 0 THEN "nothing" ELSE "watch",
                                               ![s].pr = watched]
              \/ /\ recWork[s].pr = 0 /\ Appends(RunRecord(s, 0))
                 /\ Leaves(s, "gone")
    /\ UNCHANGED <<recNow, recGH>> /\ NotReported
Remediates(s) ==
    /\ Busy(s, "watch") /\ recGH[recWork[s].issue].prs[recWork[s].pr].state = "OPEN"
    /\ recWork' = [recWork EXCEPT ![s].at = "run", ![s].from = recNow]
    /\ UNCHANGED <<recNow, recFile, recGH, recLost>> /\ NotReported

(* terminal: what the shift saw of the end of its issue is recorded, then  *)
(* acted on; a shift killed in between has recorded a park that no label   *)
(* shows.  A closed pull request is a park whose record says so.           *)
Records(s, outcome) == Appends(IssueRecord(s, outcome))
SeesTheEnd(s) ==
    /\ Busy(s, "watch")
    /\ LET state == recGH[recWork[s].issue].prs[recWork[s].pr].state
       IN  \/ /\ state = "MERGED" /\ Records(s, "merged")
              /\ recGH' = [recGH EXCEPT ![recWork[s].issue].queue = "done"] /\ Leaves(s, "idle")
           \/ /\ state = "CLOSED" /\ Records(s, "closed_unmerged")
              /\ recGH' = [recGH EXCEPT ![recWork[s].issue].queue = "parked"] /\ Leaves(s, "idle")
    /\ UNCHANGED <<recNow>> /\ NotReported
ParksIt(s) ==
    /\ recWork[s].at \in {"watch", "nothing"} /\ Records(s, "needs_human")
    /\ \/ /\ recGH' = [recGH EXCEPT ![recWork[s].issue].queue = IF @ = "open" THEN "parked" ELSE @]
          /\ Leaves(s, "idle")
       \/ UNCHANGED recGH /\ Leaves(s, "gone")
    /\ UNCHANGED <<recNow>> /\ NotReported
ClosesWithNoChange(s) ==
    /\ Busy(s, "nothing") /\ Records(s, "closed_no_change") /\ Leaves(s, "idle")
    /\ recGH' = [recGH EXCEPT ![recWork[s].issue].queue = "done"]
    /\ UNCHANGED <<recNow>> /\ NotReported
RunsAgain(s) ==
    /\ Busy(s, "nothing") /\ recGH[recWork[s].issue].queue = "open"
    /\ recWork' = [recWork EXCEPT ![s].at = "run", ![s].from = recNow]
    /\ UNCHANGED <<recNow, recFile, recGH, recLost>> /\ NotReported
ShiftKilled(s) ==
    /\ recWork[s].at \in {"run", "watch", "nothing"} /\ Leaves(s, "gone")
    /\ UNCHANGED <<recNow, recFile, recGH, recLost>> /\ NotReported

(* People: a pull request merged, which closes its issue, or closed; one   *)
(* of their own on the branch; a park taken off.                           *)
PersonEndsPR ==
    /\ recReport.at = "none" \/ recReport.at = "read"
    /\ \E i \in RecIssues : \E n \in PRsIn(i, "OPEN"), state \in {"MERGED", "CLOSED"} :
          recGH' = [recGH EXCEPT ![i] =
                      [queue |-> IF state = "MERGED" THEN "done" ELSE @.queue,
                       prs |-> [@.prs EXCEPT ![n] = [state |-> state, ended |-> recNow]]]]
    /\ UNCHANGED <<recNow, recFile, recWork, recLost, recReport>>
PersonOpensPR ==
    /\ \E i \in RecIssues :
          /\ Len(recGH[i].prs) \in 1..(RecPRs - 1) /\ PRsIn(i, "OPEN") = {}
          /\ recGH' = [recGH EXCEPT ![i].prs = Append(@, [state |-> "OPEN", ended |-> 0])]
    /\ UNCHANGED <<recNow, recFile, recWork, recLost>> /\ NotReported
PersonUnparks ==
    /\ \E i \in RecIssues :
          recGH[i].queue = "parked" /\ recGH' = [recGH EXCEPT ![i].queue = "open"]
    /\ UNCHANGED <<recNow, recFile, recWork, recLost>> /\ NotReported
RecTick ==
    /\ recNow < RecClock /\ recNow' = recNow + 1
    /\ UNCHANGED <<recFile, recGH, recWork, recLost>> /\ NotReported

(* loadRecords: what does not parse is skipped; -shift is applied before   *)
(* one terminal record per issue is kept, the latest, the last written of  *)
(* equals.  Records are line numbers, so that equals keep their order.     *)
Parses(rec) == rec.kind \in {"run", "issue"}
NoGroup == -1
SameShift(rec, shift) == shift = 0 \/ rec.shift = shift
RecordsOf(shift) == {k \in DOMAIN recFile : Parses(recFile[k]) /\ SameShift(recFile[k], shift)}
Lines(ks, kind, i) == {k \in ks : recFile[k].kind = kind /\ recFile[k].issue = i}
Latest(ks) == {k \in ks : \A n \in ks : recFile[n].ts <= recFile[k].ts}
NoRecord == [ts |-> 0, outcome |-> "in flight"]
Terminal(k) ==
    IF k = 0 THEN NoRecord ELSE [ts |-> recFile[k].ts, outcome |-> recFile[k].outcome]
DedupeFirst(ks, i) == Terminal(Oldest(Lines(ks, "issue", i)))
DedupeIssues(ks, i) == Terminal(Newest(Latest(Lines(ks, "issue", i))))

(* resolveShift: "last" is the shift that wrote the newest record, a run's *)
(* at its end; of equals a run's comes before an issue's.                  *)
Written(rec) == IF rec.kind = "run" THEN rec.end ELSE rec.ts
LastShift(ks) ==
    LET last == {k \in ks : \A n \in ks : Written(recFile[n]) <= Written(recFile[k])}
        runs == {k \in last : recFile[k].kind = "run"}
    IN  IF last = {} THEN NoGroup ELSE recFile[Oldest(IF runs # {} THEN runs ELSE last)].shift

(* rollUpIssues, with what resolveFromGitHub goes by: the first run and    *)
(* the last pull request a run recorded.                                   *)
FirstRun(ks, i) == Oldest({recFile[k].ts : k \in Lines(ks, "run", i)})
LastPR(ks, i) ==
    LET found == {k \in Lines(ks, "run", i) : recFile[k].pr # 0}
    IN  IF found = {} THEN 0 ELSE recFile[Newest(Latest(found))].pr
RollUp(ks) ==
    {[issue |-> i, end |-> DedupeIssues(ks, i), first |-> FirstRun(ks, i),
      last |-> LastPR(ks, i), resolved |-> FALSE] :
        i \in {recFile[k].issue : k \in ks}}
StatsReads ==
    /\ recReport.at = "none" /\ recFile # <<>> /\ recNow = RecClock
    /\ \E shift \in RecShifts \cup {0, LastShift(RecordsOf(0))} :
          recReport' = [NoReport EXCEPT !.at = IF shift = 0 THEN "read" ELSE "made",
                           !.shift = shift, !.rows = RollUp(RecordsOf(shift)), !.upTo = Len(recFile)]
    /\ UNCHANGED <<recNow, recFile, recGH, recWork, recLost>>

(* readLastShift and readParkReasons, for polako status: the newest shift  *)
(* as a report about it would roll it up, and the issues whose newest      *)
(* record is a park.                                                       *)
ParkReasons == {row.issue : row \in {r \in RollUp(RecordsOf(0)) : r.end.outcome = "needs_human"}}
StatusReadsRunData ==
    /\ recReport.at = "none" /\ recFile # <<>> /\ recNow = RecClock
    /\ recReport' = [NoReport EXCEPT !.at = "status", !.shift = LastShift(RecordsOf(0)),
                        !.rows = RollUp(RecordsOf(LastShift(RecordsOf(0)))), !.upTo = Len(recFile),
                        !.parks = ParkReasons]
    /\ UNCHANGED <<recNow, recFile, recGH, recWork, recLost>>

(* verdict: an issue in flight, or parked, whose recorded pull request or  *)
(* newest on its branch merged after it was parked or first run, merged; a *)
(* closed one settles an issue in flight unless the other is open.         *)
Unsettled(row) == row.end.outcome \in {"in flight", "needs_human"}
SettledSince(row) == IF row.end.outcome = "in flight" THEN row.first ELSE row.end.ts
Speaks(row, n) ==
    LET pr == recGH[row.issue].prs[n]
    IN  n # 0 /\ (pr.state = "OPEN" \/ pr.ended > SettledSince(row))
Speakers(row) == {n \in {row.last, Len(recGH[row.issue].prs)} : Speaks(row, n)}
Verdict(row) ==
    LET say == {recGH[row.issue].prs[n].state : n \in Speakers(row)}
    IN  CASE "MERGED" \in say -> "merged"
          [] say = {"CLOSED"} /\ row.end.outcome = "in flight" -> "closed_unmerged"
          [] OTHER -> "none"
Resolved(row) ==
    IF Unsettled(row) /\ Verdict(row) # "none"
    THEN [row EXCEPT !.end.outcome = Verdict(row), !.resolved = TRUE] ELSE row

(* statsReport: a report about one shift asks nothing; a query that is not *)
(* answered leaves its issues as they are.  Nothing is written back.       *)
StatsAsks ==
    /\ recReport.at = "read"
    /\ \E answered \in BOOLEAN :
          recReport' = [recReport EXCEPT !.at = "made", !.answered = answered,
             !.rows = IF answered THEN {Resolved(row) : row \in @} ELSE @]
    /\ UNCHANGED <<recNow, recFile, recGH, recWork, recLost>>

RecNext ==
    \/ \E s \in RecShifts :
          \/ \E i \in RecIssues : ShiftPicks(s, i)
          \/ RunOpensPR(s) \/ RunEnds(s) \/ Remediates(s) \/ SeesTheEnd(s) \/ ParksIt(s)
          \/ ClosesWithNoChange(s) \/ RunsAgain(s) \/ ShiftKilled(s)
    \/ PersonEndsPR \/ PersonOpensPR \/ PersonUnparks \/ RecTick \/ StatsReads
    \/ StatusReadsRunData \/ StatsAsks

PRType == [state : {"OPEN", "MERGED", "CLOSED"}, ended : Nat]
LineType ==
    {Torn, Spoiled}
    \cup [kind : {"run"}, shift : RecShifts, issue : RecIssues, ts : Nat, end : Nat, pr : Nat]
    \cup [kind : {"issue"}, shift : RecShifts, issue : RecIssues, ts : Nat,
          outcome : {"merged", "closed_unmerged", "needs_human", "closed_no_change"}]
WorkType ==
    [at : {"new", "idle", "run", "watch", "nothing", "gone"}, issue : RecIssues \cup {0},
     from : Nat, pr : Nat]

(* Every variable stays in the range the code gives it.                    *)
RecTypeOK ==
    /\ recNow \in Nat \ {0} /\ recLost \in BOOLEAN
    /\ recFile \in Seq(LineType)
    /\ recGH \in [RecIssues -> [queue : {"open", "done", "parked"}, prs : Seq(PRType)]]
    /\ recWork \in [RecShifts -> WorkType]
    /\ recReport.at \in {"none", "read", "made", "status"}

(* What a whole report says ended did end, and a merge it leaves out has a *)
(* reason: with GitHub's answer, an issue one of whose pull requests has   *)
(* merged reads as merged, unless the record says another end, the merge   *)
(* was not seen to follow the park or the first run, or a newer pull       *)
(* request and a later record hide it (statsresolve.go:3).                 *)
Merges(i) == PRsIn(i, "MERGED")
Whole == recReport.at = "made" /\ recReport.shift = 0
LinesOn(i, kind) ==
    {recFile[k] : k \in {k \in 1..recReport.upTo : recFile[k].kind = kind /\ recFile[k].issue = i}}
ReportIsTrue ==
    Whole => \A row \in recReport.rows :
       LET i == row.issue
           Before(n) == \E run \in LinesOn(i, "run") : run.ts < recGH[i].prs[n].ended
           Hidden(n) == /\ n < Len(recGH[i].prs)
                        /\ {run.pr : run \in LinesOn(i, "run")} \ {0} # {n}
           ParkedLater(n) == \E end \in LinesOn(i, "issue") : end.ts >= recGH[i].prs[n].ended
       IN  /\ row.end.outcome = "merged" => Merges(i) # {}
           /\ (recReport.answered /\ row.end.outcome = "in flight") =>
                 \A n \in Merges(i) : ~Before(n) \/ Hidden(n)
           /\ (recReport.answered /\ row.end.outcome = "needs_human") =>
                 \A n \in Merges(i) : ParkedLater(n) \/ Hidden(n)

(* A report about one shift is that shift's alone: what another recorded   *)
(* of the same issue neither shows in it nor hides what this one recorded, *)
(* and each issue ends in it as this shift last recorded it.  The one that *)
(* status shows is of a shift no other wrote after, and the parks it gives *)
(* a reason for are last records (statsrecords.go:220, 266).               *)
Read(kinds) == {k \in 1..recReport.upTo : recFile[k].kind \in kinds}
ByShift(kinds, i) ==
    {k \in Read(kinds) : recFile[k].issue = i /\ recFile[k].shift = recReport.shift}
ShiftReportIsItsOwn ==
    (recReport.at # "none" /\ recReport.shift # 0) =>
       /\ \A i \in RecIssues :
             IF ByShift({"run", "issue"}, i) = {} THEN \A row \in recReport.rows : row.issue # i
             ELSE \E row \in recReport.rows :
                /\ row.issue = i
                /\ row.end.outcome = IF ByShift({"issue"}, i) = {} THEN "in flight"
                                     ELSE recFile[Newest(ByShift({"issue"}, i))].outcome
       /\ recReport.at = "status" =>
             /\ \A k \in Read({"run", "issue"}) : \E n \in Read({"run", "issue"}) :
                   /\ recFile[n].shift = recReport.shift
                   /\ Written(recFile[n]) >= Written(recFile[k])
             /\ \A i \in recReport.parks : \E k \in Read({"issue"}) :
                   /\ recFile[k].outcome = "needs_human" /\ recFile[k].issue = i
                   /\ \A n \in Read({"issue"}) : recFile[n].issue = i => n <= k

(* What a report says, of all the shifts or of one, is what happened.      *)
ReportsHold == ReportIsTrue /\ ShiftReportIsItsOwn
=============================================================================
