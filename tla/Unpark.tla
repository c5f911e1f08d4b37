------------------------------- MODULE Unpark --------------------------------
(***************************************************************************)
(* polako unpark: the parked issues are listed, each with the reason and   *)
(* the tools its newest park comment names and with what its branch holds, *)
(* and -apply takes the label off one issue after the other.  Each issue   *)
(* is read in several GitHub calls, any of which may fail, while people    *)
(* and a running shift comment, push and open pull requests.               *)
(***************************************************************************)
EXTENDS Integers, Sequences

CONSTANTS
    UnparkIssues,   \* the issues of the repository
    UnparkWorlds,   \* what a call may find: a record per issue
    GrantEntries,   \* the tools a park comment may name
    UnparkMoves     \* bound: moves of people and shifts during the call

ParkCategories ==
    {"none", "budget", "retries", "nothing", "no skill", "auth", "permission", "conflicts",
     "checks", "review", "pr state", "closed", "unknown"}
ParkComment ==
    [mine : BOOLEAN, park : BOOLEAN, entries : SUBSET GrantEntries, malformed : BOOLEAN,
     category : ParkCategories]
ParkedRecord ==
    [parked : BOOLEAN, container : BOOLEAN, thread : Seq(ParkComment),
     pr : {"none", "OPEN", "MERGED", "CLOSED"}, red : BOOLEAN, ahead : Int, local : BOOLEAN]

ASSUME UnparkAssumption ==
    /\ UnparkIssues \subseteq Nat \ {0} /\ UnparkMoves \in Nat
    /\ "forged" \in GrantEntries
    /\ \A w \in UnparkWorlds, i \in UnparkIssues : w[i] \in ParkedRecord

VARIABLES
    unparkPc,     \* where the call stands
    unparkOpt,    \* -apply, -yes, a terminal on stdin, the one issue named, -repo
    parkedRepo,   \* each issue: label, thread, branch, pull request, local work
    unparkList,   \* the issues listed
    unparkTodo,   \* those the present loop has still to go through
    parkItem,     \* parkListItem: what has been read of each
    grants,       \* the union for the rerun line
    unparkHist    \* history only: the labels taken off, the moves made

unparkVars == <<unparkPc, unparkOpt, parkedRepo, unparkList, unparkTodo, parkItem, grants,
                unparkHist>>

Everyone == 0
NotOnOrigin == -1
NoItem == [entries |-> {}, ignored |-> FALSE, category |-> "none", work |-> "not read",
           local |-> FALSE]
UnparkInit ==
    /\ unparkPc = "rest"
    /\ unparkOpt = [apply |-> FALSE, yes |-> FALSE, tty |-> FALSE, only |-> Everyone,
                    repo |-> FALSE]
    /\ parkedRepo = [i \in UnparkIssues |-> [parked |-> FALSE]]
    /\ unparkList = {} /\ unparkTodo = {} /\ grants = {}
    /\ parkItem = [i \in UnparkIssues |-> NoItem]
    /\ unparkHist = [cleared |-> {}, moves |-> 0]

(* runUnpark: -apply without -yes needs a terminal to ask on.              *)
UnparkCalled ==
    /\ unparkPc = "rest"
    /\ \E w \in UnparkWorlds : parkedRepo' = [i \in UnparkIssues |-> w[i]]
    /\ unparkOpt' \in [apply : BOOLEAN, yes : BOOLEAN, tty : BOOLEAN,
                       only : UnparkIssues \cup {Everyone}, repo : BOOLEAN]
    /\ unparkPc' = IF unparkOpt'.apply /\ ~unparkOpt'.yes /\ ~unparkOpt'.tty
                   THEN "end" ELSE "list"
    /\ UNCHANGED <<unparkList, unparkTodo, parkItem, grants, unparkHist>>

UnparkAt(pc) == unparkPc = pc /\ UNCHANGED unparkOpt
UnparkLoop(pc, over) == unparkPc' = pc /\ unparkTodo' = over
InLoop(pc, i) == UnparkAt(pc) /\ i \in unparkTodo /\ \A o \in unparkTodo : i <= o

(* readParkedIssues: openQueues gives the parked issues; an issue named    *)
(* that is not one of them, or a listing that fails, ends the call.  Then  *)
(* the viewer's login, without which no comment can be told from a forged  *)
(* one.                                                                    *)
Parked == {i \in UnparkIssues : parkedRepo[i].parked /\ ~parkedRepo[i].container}
UnparkLists ==
    /\ UnparkAt("list") /\ UNCHANGED <<parkedRepo, parkItem, grants, unparkHist>>
    /\ \/ UnparkLoop("end", {}) /\ UNCHANGED unparkList
       \/ /\ unparkOpt.only \in Parked \cup {Everyone}
          /\ unparkList' = IF unparkOpt.only = Everyone THEN Parked ELSE {unparkOpt.only}
          /\ UnparkLoop("comments", unparkList')

(* readParkListItem: the newest comment that is the viewer's own and opens *)
(* the way a park does; of the entries its footer names, those a rerun can *)
(* use.  A thread that cannot be read leaves the item empty.               *)
AnyPark(c) == c.park
OwnPark(c) == c.mine /\ c.park
NewestPark(thread) ==
    LET own == {n \in DOMAIN thread : OwnPark(thread[n])}
    IN  IF own = {} THEN NoItem
        ELSE LET c == thread[CHOOSE n \in own : \A m \in own : m <= n]
             IN  [NoItem EXCEPT !.entries = c.entries, !.ignored = c.malformed,
                                !.category = c.category]
ReadsParkItem(i) ==
    /\ InLoop("comments", i)
    /\ UNCHANGED <<parkedRepo, unparkList, grants, unparkHist>>
    /\ UnparkLoop(unparkPc, unparkTodo \ {i})
    /\ \/ parkItem' = [parkItem EXCEPT ![i] = NewestPark(parkedRepo[i].thread)]
       \/ UNCHANGED parkItem
CommentsRead ==
    /\ UnparkAt("comments") /\ unparkTodo = {} /\ UnparkLoop("work", unparkList)
    /\ UNCHANGED <<parkedRepo, unparkList, parkItem, grants, unparkHist>>

(* readParkWork and nextShiftLine: what the next shift will do with the    *)
(* issue.  With a pull request it waits, whatever the state; a closed one  *)
(* parks it again; with none the commits on origin, compared with the      *)
(* default branch, and then the work on this machine decide.  The local    *)
(* work is read only where -dir is a checkout and one of the views that    *)
(* show it is asked for.                                                   *)
WaitsOnPR(r) == r.pr # "none"
LocalRead == ~unparkOpt.repo /\ (unparkOpt.only # Everyone \/ unparkOpt.apply)
NextShift(r, compared, local) ==
    CASE WaitsOnPR(r) /\ r.pr = "CLOSED" -> "parks again"
      [] WaitsOnPR(r) /\ r.pr = "OPEN" /\ r.red -> "remediates"
      [] WaitsOnPR(r) /\ r.pr # "CLOSED" /\ ~(r.pr = "OPEN" /\ r.red) -> "waits"
      [] ~WaitsOnPR(r) /\ ~compared -> "not read"
      [] ~WaitsOnPR(r) /\ compared /\ r.ahead > 0 -> "resumes"
      [] ~WaitsOnPR(r) /\ compared /\ r.ahead <= 0 /\ local -> "resumes here"
      [] OTHER -> "starts over"
ReadsParkWork(i) ==
    /\ InLoop("work", i)
    /\ UNCHANGED <<parkedRepo, unparkList, grants, unparkHist>>
    /\ UnparkLoop(unparkPc, unparkTodo \ {i})
    /\ \E compared \in BOOLEAN, local \in {FALSE, LocalRead /\ parkedRepo[i].local} :
          parkItem' = [parkItem EXCEPT ![i].local = local,
                          ![i].work = NextShift(parkedRepo[i], compared, local)]
WorkUnread(i) ==
    /\ InLoop("work", i) /\ UnparkLoop(unparkPc, unparkTodo \ {i})
    /\ UNCHANGED <<parkedRepo, unparkList, parkItem, grants, unparkHist>>
WorkRead ==
    /\ UnparkAt("work") /\ unparkTodo = {}
    /\ UnparkLoop(IF unparkOpt.apply THEN "apply" ELSE "end",
                  IF unparkOpt.apply THEN unparkList ELSE {})
    /\ UNCHANGED <<parkedRepo, unparkList, parkItem, grants, unparkHist>>

(* applyUnpark: the label is its only write, and what an issue named joins *)
(* the rerun line when its label is off and not before.                    *)
Declines(i) ==
    /\ InLoop("apply", i) /\ ~unparkOpt.yes
    /\ UnparkLoop(unparkPc, unparkTodo \ {i})
    /\ UNCHANGED <<parkedRepo, unparkList, parkItem, grants, unparkHist>>
LabelStays(i) ==
    /\ InLoop("apply", i) /\ UnparkLoop(unparkPc, unparkTodo \ {i})
    /\ UNCHANGED <<parkedRepo, unparkList, parkItem, grants, unparkHist>>
ClearsLabel(i) ==
    /\ InLoop("apply", i) /\ UnparkLoop(unparkPc, unparkTodo \ {i})
    /\ parkedRepo' = [parkedRepo EXCEPT ![i].parked = FALSE]
    /\ grants' = grants \cup parkItem[i].entries
    /\ unparkHist' = [unparkHist EXCEPT !.cleared = @ \cup {i}]
    /\ UNCHANGED <<unparkList, parkItem>>
UnparkEnds ==
    /\ UnparkAt("apply") /\ unparkTodo = {} /\ UnparkLoop("end", {})
    /\ UNCHANGED <<parkedRepo, unparkList, parkItem, grants, unparkHist>>

(* parkNextStep: only a permission park is told to grant something.        *)
NextStep(it) ==
    CASE it.category = "permission" /\ it.entries # {} -> "grant"
      [] it.category = "permission" /\ it.entries = {} /\ it.ignored -> "ungrantable"
      [] it.category = "permission" /\ it.entries = {} /\ ~it.ignored -> "check the log"
      [] it.category = "none" -> "read the thread"
      [] OTHER -> it.category

(* People and shifts: a comment, a pull request, a push.                   *)
UnparkMove(i, repo) ==
    /\ unparkPc \notin {"rest", "end"} /\ unparkHist.moves < UnparkMoves
    /\ parkedRepo' = [parkedRepo EXCEPT ![i] = repo]
    /\ unparkHist' = [unparkHist EXCEPT !.moves = @ + 1]
    /\ UNCHANGED <<unparkPc, unparkOpt, unparkList, unparkTodo, parkItem, grants>>
SomeoneForges(i) ==
    UnparkMove(i, [parkedRepo[i] EXCEPT !.thread = Append(@,
        [mine |-> FALSE, park |-> TRUE, entries |-> {"forged"}, malformed |-> FALSE,
         category |-> "permission"])])
ShiftParksAgain(i) ==
    /\ i \in unparkHist.cleared
    /\ UnparkMove(i, [parkedRepo[i] EXCEPT !.parked = TRUE, !.thread = Append(@,
        [mine |-> TRUE, park |-> TRUE, entries |-> {}, malformed |-> TRUE,
         category |-> "retries"])])
SomeonePushes(i) == UnparkMove(i, [parkedRepo[i] EXCEPT !.ahead = 1])

UnparkNext ==
    \/ UnparkCalled \/ UnparkLists \/ CommentsRead \/ WorkRead \/ UnparkEnds
    \/ \E i \in UnparkIssues :
          \/ ReadsParkItem(i) \/ ReadsParkWork(i) \/ WorkUnread(i)
          \/ Declines(i) \/ LabelStays(i) \/ ClearsLabel(i)
          \/ SomeoneForges(i) \/ ShiftParksAgain(i) \/ SomeonePushes(i)

UnparkTypeOK ==
    /\ unparkPc \in {"rest", "list", "comments", "work", "apply", "end"}
    /\ unparkList \subseteq UnparkIssues /\ unparkTodo \subseteq unparkList
    /\ \A i \in UnparkIssues : parkItem[i].ignored \in BOOLEAN /\ parkItem[i].local \in BOOLEAN
    /\ unparkHist.cleared \subseteq UnparkIssues /\ unparkHist.moves \in 0..UnparkMoves

(* The rerun line (unpark.go:337) carries what the cleared issues were     *)
(* told to grant, all of it, and nothing a comment of somebody else names  *)
(* (unpark.go:232): an issue whose label did not come off adds nothing.    *)
Granted(i) ==
    LET own == {m \in DOMAIN parkedRepo[i].thread : parkedRepo[i].thread[m].mine}
    IN  UNION {parkedRepo[i].thread[n].entries : n \in own}
GrantsMatchClears ==
    /\ grants \subseteq UNION {Granted(i) : i \in unparkHist.cleared}
    /\ \A i \in unparkHist.cleared :
          NextStep(parkItem[i]) = "grant" => parkItem[i].entries \subseteq grants
    /\ unparkHist.cleared # {} => unparkOpt.apply
=============================================================================
