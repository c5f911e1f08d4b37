------------------------------ MODULE ReplyWait -------------------------------
(***************************************************************************)
(* The two waits on a person's reply, and the free checks between their    *)
(* full polls.  A conditional request that GitHub answers 304 says nothing *)
(* moved since the etag kept; one that answers 200 keeps the new etag and  *)
(* has the wait read that thread.  Time is counted in peek intervals, of   *)
(* which a -poll holds Poll.  People and bots comment and edit all along,  *)
(* and every call may fail.                                                *)
(***************************************************************************)
EXTENDS Integers, FiniteSets

CONSTANTS
    Waiting,     \* the issues that wait on a person, as numbers
    Poll,        \* how many peek intervals a full poll lasts
    WaitMoves    \* bound: what happens on the threads

ASSUME WaitAssumption ==
    Waiting \subseteq Nat /\ Waiting # {} /\ Poll \in Nat \ {0} /\ WaitMoves \in Nat

VARIABLES
    waitPc,      \* where the wait stands
    waitMode,    \* waitForReply or awaitAnswer, and whether peeking is on
    threads,     \* GitHub: replies and bot comments past the baseline, the etag served
    watches,     \* etagWatch of each thread, and whether this shift flagged it
    waitLeft,    \* peek intervals until the deadline
    waitTodo,    \* the threads the loop in hand has still to go through
    waitWoke,    \* the threads that changed, none for the full check
    waitNotes,   \* the bot comments each thread last logged; whether one had new ones
    waitAnswer,  \* the issue the wait found to run
    waitHist     \* history only: how long replies went unread, deadlines set anew early

waitVars == <<waitPc, waitMode, threads, watches, waitLeft, waitTodo, waitWoke, waitNotes,
              waitAnswer, waitHist>>

NoThread == [replied |-> FALSE, bots |-> 0, version |-> 1]
NoEtag == 0
Quiet == [i \in Waiting |-> 0]

WaitInit ==
    /\ waitPc = "start" /\ waitMode = [one |-> FALSE, peek |-> FALSE]
    /\ threads = [i \in Waiting |-> NoThread]
    /\ watches = [i \in Waiting |-> [etag |-> NoEtag, off |-> FALSE, mine |-> TRUE]]
    /\ waitLeft = 0 /\ waitTodo = {} /\ waitWoke = {} /\ waitAnswer = 0
    /\ waitNotes = [bots |-> Quiet, new |-> FALSE]
    /\ waitHist = [unread |-> Quiet, rearmed |-> FALSE]

Watched == IF waitMode.one THEN {CHOOSE i \in Waiting : \A j \in Waiting : i <= j} ELSE Waiting
First(s) == CHOOSE i \in s : \A j \in s : i <= j

(* A shift, and which of the waiting issues it flagged itself.             *)
WaitBegins ==
    /\ waitPc = "start" /\ waitPc' = "rest"
    /\ waitMode' \in [one : BOOLEAN, peek : BOOLEAN]
    /\ watches' \in [Waiting -> [etag : {NoEtag}, off : {FALSE}, mine : BOOLEAN]]
    /\ UNCHANGED <<threads, waitLeft, waitTodo, waitWoke, waitNotes, waitAnswer, waitHist>>

(* The call sets its deadline.  awaitAnswer first runs an issue this shift *)
(* did not flag: the answer may be on the thread already.                  *)
WaitCalled ==
    /\ waitPc = "rest"
    /\ waitLeft' = Poll /\ waitNotes' = [bots |-> Quiet, new |-> FALSE] /\ waitWoke' = {}
    /\ LET strangers == {i \in Waiting : ~watches[i].mine}
       IN  IF ~waitMode.one /\ strangers # {}
           THEN waitPc' = "run" /\ waitAnswer' = First(strangers) /\ waitTodo' = {}
           ELSE waitPc' = "prime" /\ waitTodo' = Watched /\ UNCHANGED waitAnswer
    /\ UNCHANGED <<waitMode, threads, watches, waitHist>>

Peeking == waitMode.peek /\ \E i \in Watched : ~watches[i].off

(* etagWatch.check: nothing known, no etag to go on with, or one kept; the *)
(* thread changed only when another etag was there before.                 *)
Kept(i) == watches' = [watches EXCEPT ![i].etag = threads[i].version]
Moved(i) == watches[i].etag # NoEtag /\ watches[i].etag # threads[i].version
NotAnswered == UNCHANGED watches
SwitchedOff(i) == watches' = [watches EXCEPT ![i].off = TRUE]

WaitStays == UNCHANGED <<waitMode, threads, waitNotes, waitAnswer>>
Primes ==
    /\ waitPc = "prime" /\ WaitStays /\ UNCHANGED <<waitLeft, waitWoke, waitHist>>
    /\ LET bare == {i \in waitTodo : watches[i].etag = NoEtag /\ ~watches[i].off}
       IN  IF ~Peeking \/ bare = {}
           THEN waitPc' = "sleep" /\ waitTodo' = {} /\ UNCHANGED watches
           ELSE /\ waitTodo' = waitTodo \ {First(bare)} /\ UNCHANGED waitPc
                /\ Kept(First(bare)) \/ NotAnswered \/ SwitchedOff(First(bare))

(* waitForChange sleeps one interval, or to the deadline with nothing to   *)
(* peek at; at the deadline no thread changed, the cue for the full check. *)
Slept(n) == waitHist' = [waitHist EXCEPT !.unread = [i \in Waiting |->
               IF threads[i].replied /\ i \in Watched
               THEN IF @[i] + n > Poll THEN Poll + 1 ELSE @[i] + n ELSE 0]]
Sleeps ==
    /\ waitPc = "sleep" /\ WaitStays /\ UNCHANGED watches /\ waitWoke' = {}
    /\ LET n == IF Peeking THEN 1 ELSE waitLeft
       IN  /\ waitLeft' = waitLeft - n /\ Slept(n)
           /\ waitPc' = IF waitLeft = n THEN "full" ELSE "peek"
           /\ waitTodo' = IF waitLeft = n THEN {} ELSE Watched
Peeks ==
    /\ waitPc = "peek" /\ WaitStays /\ UNCHANGED <<waitLeft, waitHist>>
    /\ IF waitTodo # {}
       THEN LET i == First(waitTodo)
            IN  /\ waitTodo' = waitTodo \ {i} /\ UNCHANGED waitPc
                /\ \/ NotAnswered /\ UNCHANGED waitWoke
                   \/ ~watches[i].off /\ SwitchedOff(i) /\ UNCHANGED waitWoke
                   \/ /\ ~watches[i].off /\ Kept(i)
                      /\ waitWoke' = IF Moved(i) THEN waitWoke \cup {i} ELSE waitWoke
       ELSE /\ waitPc' = IF waitWoke = {} THEN "sleep" ELSE "read"
            /\ waitTodo' = waitWoke /\ UNCHANGED <<watches, waitWoke>>

(* The full check reads every thread; waitForReply sets its next deadline. *)
FullCheck ==
    /\ waitPc = "full" /\ waitPc' = "read" /\ waitTodo' = Watched
    /\ waitLeft' = IF waitMode.one THEN Poll ELSE 0
    /\ UNCHANGED <<waitMode, threads, watches, waitWoke, waitNotes, waitAnswer, waitHist>>

(* replyOn and the body of waitForReply, a thread at a time: a read that   *)
(* fails counts as news from a bot, a reply ends the wait.                 *)
Unanswered(i) == waitHist' = [waitHist EXCEPT !.unread[i] =
                    IF waitWoke = {} \/ ~threads[i].replied THEN 0 ELSE @]
Reads ==
    /\ waitPc = "read" /\ waitTodo # {}
    /\ UNCHANGED <<waitMode, threads, watches, waitLeft, waitWoke>>
    /\ LET i == First(waitTodo)
       IN  /\ waitTodo' = waitTodo \ {i} /\ Unanswered(i)
           /\ \/ waitNotes' = [waitNotes EXCEPT !.new = TRUE] /\ UNCHANGED <<waitPc, waitAnswer>>
              \/ /\ threads[i].replied /\ waitAnswer' = i /\ waitPc' = "run"
                 /\ UNCHANGED waitNotes
              \/ /\ ~threads[i].replied /\ UNCHANGED <<waitPc, waitAnswer>>
                 /\ waitNotes' = [bots |-> [waitNotes.bots EXCEPT ![i] = IF threads[i].bots = 0
                                    THEN @ ELSE threads[i].bots],
                                  new |-> waitNotes.new \/ threads[i].bots # waitNotes.bots[i]]

(* waitForReply goes on waiting; awaitAnswer does after news from a bot    *)
(* alone, and hands back to the drain, which calls it again.               *)
EveryWakeSetsIt(left) == Poll
KeepsDeadline(left) == left
GoesOn ==
    /\ waitPc = "read" /\ waitTodo = {}
    /\ LET back == ~waitMode.one /\ (waitWoke = {} \/ ~waitNotes.new)
       IN  /\ waitPc' = IF back THEN "rest" ELSE "prime"
           /\ waitTodo' = IF back THEN {} ELSE Watched
           /\ waitHist' = [waitHist EXCEPT !.rearmed = @ \/ (back /\ waitWoke # {})]
    /\ waitNotes' = [waitNotes EXCEPT !.new = FALSE]
    /\ waitLeft' = KeepsDeadline(waitLeft)
    /\ UNCHANGED <<waitMode, threads, watches, waitWoke, waitAnswer>>

(* The drain runs the issue, which asks again: a baseline of its own.      *)
RunFolds ==
    /\ waitPc = "run" /\ waitPc' = "rest" /\ waitAnswer' = 0
    /\ threads' = [threads EXCEPT ![waitAnswer].replied = FALSE, ![waitAnswer].bots = 0]
    /\ watches' = [watches EXCEPT ![waitAnswer].mine = TRUE]
    /\ waitHist' = [waitHist EXCEPT !.unread = Quiet]
    /\ UNCHANGED <<waitMode, waitLeft, waitTodo, waitWoke, waitNotes>>

(* What happens on the threads, each moving the etag GitHub serves.        *)
ThreadMoves(i, t) ==
    /\ waitPc # "start" /\ t.version < WaitMoves + 1
    /\ threads' = [threads EXCEPT ![i] = [t EXCEPT !.version = @ + 1]]
    /\ UNCHANGED <<waitPc, waitMode, watches, waitLeft, waitTodo, waitWoke, waitNotes,
                   waitAnswer, waitHist>>
PersonReplies == \E i \in Waiting : ThreadMoves(i, [threads[i] EXCEPT !.replied = TRUE])
BotComments == \E i \in Waiting : ThreadMoves(i, [threads[i] EXCEPT !.bots = @ + 1])
PersonEditsIssue == \E i \in Waiting : ThreadMoves(i, threads[i])

WaitNext ==
    \/ WaitBegins \/ WaitCalled \/ Primes \/ Sleeps \/ Peeks \/ FullCheck \/ Reads \/ GoesOn
    \/ RunFolds \/ PersonReplies \/ BotComments \/ PersonEditsIssue

WaitTypeOK ==
    /\ waitPc \in {"start", "rest", "prime", "sleep", "peek", "full", "read", "run"}
    /\ \A i \in Waiting : watches[i].etag <= threads[i].version
    /\ waitLeft \in 0..Poll /\ waitTodo \subseteq Waiting /\ waitWoke \subseteq Waiting
    /\ waitAnswer \in Waiting \cup {0} /\ \A i \in Waiting : waitHist.unread[i] \in 0..Poll + 1

(* A reply the etag swallowed, because it came before the watch was primed *)
(* or its thread could not be read, is found by the full check: nobody     *)
(* waits longer than a poll for it, however many early wakes there are,    *)
(* as long as the wait is the same call and the full check can be made     *)
(* (peek.go:86, replywait.go:99).                                          *)
ReplyWaitsOnePoll == \A i \in Waiting : waitHist.rearmed \/ waitHist.unread[i] <= Poll

(* The same over calls: "the full check still runs at least every -poll"   *)
(* (peek.go:86).                                                           *)
FullCheckEveryPoll == \A i \in Waiting : waitHist.unread[i] <= Poll
=============================================================================
