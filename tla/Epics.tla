-------------------------------- MODULE Epics --------------------------------
(***************************************************************************)
(* closeFinishedContainers and retireOrphanedDoc: on every pass of a shift *)
(* the containers whose children have all closed get a comment and are     *)
(* closed, and the last one to name a design document has an issue filed   *)
(* to retire that document.                                                *)
(*                                                                         *)
(* Five GitHub calls one after the other, each of which may fail before it *)
(* took effect or after, on a listing and a search that lag, while people  *)
(* close, reopen and hold, and the process is stopped and started again.   *)
(***************************************************************************)
EXTENDS Integers

CONSTANTS
    Epics,      \* the container issues
    Docs,       \* the design documents
    DocOf,      \* the document each container's footer names, or NoDoc
    NoDoc,      \* no footer, or one that names no design
    MaxReopens, \* bound: times people reopen an epic
    MaxHolds    \* bound: times people put needs-human on one, or take it off

ASSUME EpicsAssumption == Epics \subseteq Nat \ {0}
ASSUME DocsAssumption == NoDoc \notin Docs /\ DocOf \in [Epics -> Docs \cup {NoDoc}]
ASSUME BoundAssumption == MaxReopens \in Nat /\ MaxHolds \in Nat

VARIABLES
    epic,      \* each container on GitHub
    notes,     \* how often its thread carries finishedContainerMarker
    retire,    \* each document's retire issue: none, filed, in the search, done
    listed,    \* the containers as the listing would show them
    todo,      \* the containers this call has still to go through
    pc, cur,   \* where the call stands, and with which container
    commented, \* shift.commentedContainers
    tried,     \* shift.closedContainers
    filed,     \* retiredThisCall
    hist       \* history only: what the properties remember

github == <<epic, notes, retire, listed>>
memory == <<commented, tried, filed>>
vars == <<github, todo, pc, cur, memory, hist>>

(* containerInfo.finished: every child has closed.                         *)
Finished(c) == c.kids = 0
Due(e) == epic[e].open /\ Finished(epic[e]) /\ ~epic[e].held

(* The containers of a listing that are worth a step in this shift.        *)
Eligible(e) == listed[e].open /\ Finished(listed[e]) /\ ~listed[e].held /\ e \notin tried

(* The history: the notes that went out this shift, its close calls, and   *)
(* what one call of it filed; and what people did.                         *)
NoHist == [closes |-> [e \in Epics |-> 0], filed |-> [d \in Docs |-> 0],
           lost |-> FALSE, reopens |-> 0, holds |-> 0]

-----------------------------------------------------------------------------
Init ==
    /\ epic \in [Epics -> [open : {TRUE}, kids : {0, 1}, held : {FALSE}]]
    /\ notes = [e \in Epics |-> 0]
    /\ retire = [d \in Docs |-> "none"]
    /\ listed = epic
    /\ todo = {} /\ pc = "pass" /\ cur = 0
    /\ commented = {} /\ tried = {} /\ filed = {}
    /\ hist = NoHist

(* A pass lists the queue and goes through the containers in it.           *)
Pass ==
    /\ pc = "pass"
    /\ todo' = {e \in Epics : Eligible(e)} /\ pc' = "next" /\ filed' = {}
    /\ hist' = [hist EXCEPT !.filed = NoHist.filed, !.lost = FALSE]
    /\ UNCHANGED <<github, cur, commented, tried>>

GoesOn == pc' = "next" /\ cur' = 0
InHand(e) == pc = "next" /\ e \in todo /\ \A o \in todo : e <= o

PassOver ==
    /\ pc = "next" /\ todo = {} /\ pc' = "pass"
    /\ UNCHANGED <<github, todo, cur, memory, hist>>

Starts(e, at) ==
    /\ InHand(e) /\ todo' = todo \ {e} /\ cur' = e /\ pc' = at
    /\ UNCHANGED <<github, memory, hist>>

NotesUnread(e) == Starts(e, "comment")
SkipsNoted(e) == Starts(e, IF notes[e] > 0 THEN "next" ELSE "comment")

(* A container in the memo goes straight to its close; the thread of any   *)
(* other one is read.                                                      *)
ReadsThread(e) ==
    Starts(e, CASE e \in commented -> "close"
                [] e \notin commented /\ notes[e] > 0 -> "memo"
                [] OTHER -> "comment")

ThreadUnread(e) ==
    /\ e \notin commented /\ InHand(e)
    /\ todo' = todo \ {e} /\ UNCHANGED <<github, pc, cur, memory, hist>>

Memo ==
    /\ pc = "memo" /\ commented' = commented \cup {cur} /\ pc' = "close"
    /\ UNCHANGED <<github, todo, cur, tried, filed, hist>>

Noted == notes' = [notes EXCEPT ![cur] = @ + 1]

Comments ==
    /\ pc = "comment" /\ Noted /\ pc' = "memo"
    /\ UNCHANGED <<epic, retire, listed, todo, cur, memory, hist>>

CommentFailsThrough ==
    /\ pc = "comment" /\ (Noted \/ UNCHANGED notes)
    /\ pc' = "memo"
    /\ UNCHANGED <<epic, retire, listed, todo, cur, memory, hist>>

(* No close without the comment; the next pass reads the thread again.     *)
CommentFails ==
    /\ pc = "comment" /\ (Noted \/ UNCHANGED notes)
    /\ GoesOn
    /\ UNCHANGED <<epic, retire, listed, todo, memory, hist>>

-----------------------------------------------------------------------------
CloseCalled == hist' = [hist EXCEPT !.closes[cur] = @ + 1]
Shut == epic' = [epic EXCEPT ![cur].open = FALSE]

(* The close fires epic-done, and goes on to the document.                 *)
Closes ==
    /\ pc = "close" /\ Shut /\ CloseCalled
    /\ tried' = tried \cup {cur}
    /\ pc' = "body"
    /\ UNCHANGED <<notes, retire, listed, todo, cur, commented, filed>>

(* A close that failed is retried by the next shift, not the next pass.    *)
CloseFails ==
    /\ pc = "close" /\ (Shut \/ UNCHANGED epic) /\ CloseCalled
    /\ tried' = tried \cup {cur}
    /\ GoesOn
    /\ UNCHANGED <<notes, retire, listed, todo, commented, filed>>

-----------------------------------------------------------------------------
(* retireOrphanedDoc.                                                      *)

Doc == DocOf[cur]

(* Unreadable, no footer, or already filed a moment ago in this call.      *)
NothingToRetire ==
    /\ pc = "body" /\ GoesOn
    /\ UNCHANGED <<github, todo, memory, hist>>

ReadsBodyAgain ==
    /\ pc = "body" /\ Doc \in Docs
    /\ pc' = "search"
    /\ UNCHANGED <<github, todo, cur, memory, hist>>

ReadsBody ==
    /\ pc = "body" /\ Doc \in Docs /\ Doc \notin filed
    /\ pc' = "search"
    /\ UNCHANGED <<github, todo, cur, memory, hist>>

(* anyOtherOpenIssueNamesDoc: the search knows an issue some time after it *)
(* was filed; the state of one it knows is fresh.                          *)
StillNamed(d) ==
    \/ retire[d] = "found"
    \/ \E e \in Epics : DocOf[e] = d /\ epic[e].open

SearchFindsNone ==
    /\ pc = "search" /\ ~StillNamed(Doc)
    /\ pc' = "file"
    /\ UNCHANGED <<github, todo, cur, memory, hist>>

SearchEnds ==
    /\ pc = "search" /\ GoesOn
    /\ UNCHANGED <<github, todo, memory, hist>>

FiledOnGitHub ==
    /\ retire' = [retire EXCEPT ![Doc] = IF @ = "found" THEN @ ELSE "filed"]
    /\ hist' = [hist EXCEPT !.filed[Doc] = @ + 1]

Files ==
    /\ pc = "file" /\ FiledOnGitHub
    /\ filed' = filed \cup {Doc}
    /\ GoesOn
    /\ UNCHANGED <<epic, notes, listed, todo, commented, tried>>

(* The create was refused.                                                 *)
FilesNothing ==
    /\ pc = "file" /\ GoesOn
    /\ UNCHANGED <<github, todo, memory, hist>>

(* It went through and only the answer was lost.                           *)
FilesUnheard ==
    /\ pc = "file"
    /\ retire' = [retire EXCEPT ![Doc] = IF @ = "found" THEN @ ELSE "filed"]
    /\ hist' = [hist EXCEPT !.filed[Doc] = @ + 1, !.lost = TRUE]
    /\ GoesOn
    /\ UNCHANGED <<epic, notes, listed, todo, memory>>

-----------------------------------------------------------------------------
(* GitHub and people.                                                      *)

Outside == UNCHANGED <<todo, pc, cur, memory>>

ListingCatchesUp(e) ==
    /\ Outside /\ listed[e] # epic[e]
    /\ listed' = [listed EXCEPT ![e] = epic[e]]
    /\ UNCHANGED <<epic, notes, retire, hist>>

SearchCatchesUp(d) ==
    /\ Outside /\ retire[d] = "filed"
    /\ retire' = [retire EXCEPT ![d] = "found"]
    /\ UNCHANGED <<epic, notes, listed, hist>>

(* A person, or a merge, closes the last child.                            *)
ChildCloses(e) ==
    /\ Outside /\ epic[e].kids > 0
    /\ epic' = [epic EXCEPT ![e].kids = @ - 1]
    /\ UNCHANGED <<notes, retire, listed, hist>>

(* "If the children did not add up to the design, reopen it": the epic, or *)
(* the epic and a child.                                                   *)
PersonReopens(e) ==
    /\ Outside /\ ~epic[e].open /\ hist.reopens < MaxReopens
    /\ \E kids \in {epic[e].kids, 1} :
         epic' = [epic EXCEPT ![e].open = TRUE, ![e].kids = kids]
    /\ hist' = [hist EXCEPT !.reopens = @ + 1]
    /\ UNCHANGED <<notes, retire, listed>>

PersonHolds(e) ==
    /\ Outside /\ epic[e].open /\ hist.holds < MaxHolds
    /\ epic' = [epic EXCEPT ![e].held = ~@]
    /\ hist' = [hist EXCEPT !.holds = @ + 1]
    /\ UNCHANGED <<notes, retire, listed>>

(* The document is moved and its retire issue closed.                      *)
PersonRetires(d) ==
    /\ Outside /\ retire[d] \in {"filed", "found"}
    /\ retire' = [retire EXCEPT ![d] = "done"]
    /\ UNCHANGED <<epic, notes, listed, hist>>

(* The process ends or is stopped, anywhere, and a new shift starts.       *)
NewShift ==
    /\ pc' = "pass" /\ cur' = 0 /\ todo' = {}
    /\ commented' = {} /\ tried' = {} /\ filed' = {}
    /\ hist' = [NoHist EXCEPT !.reopens = hist.reopens, !.holds = hist.holds]
    /\ UNCHANGED github

-----------------------------------------------------------------------------
Shift ==
    \/ Pass \/ PassOver
    \/ \E e \in Epics : ReadsThread(e) \/ ThreadUnread(e)
    \/ Memo \/ Comments \/ CommentFails
    \/ Closes \/ CloseFails
    \/ NothingToRetire \/ ReadsBody \/ SearchFindsNone \/ SearchEnds
    \/ Files \/ FilesNothing \/ FilesUnheard

World ==
    \/ \E e \in Epics :
         ListingCatchesUp(e) \/ ChildCloses(e) \/ PersonReopens(e) \/ PersonHolds(e)
    \/ \E d \in Docs : SearchCatchesUp(d) \/ PersonRetires(d)

Next == Shift \/ World \/ NewShift

Spec == Init /\ [][Next]_vars

(* A shift keeps going and is followed by another; the listing catches up; *)
(* and GitHub does not refuse the same call for ever.                      *)
FairSpec ==
    /\ Spec /\ WF_vars(Shift) /\ WF_vars(NewShift)
    /\ SF_vars(Pass) /\ SF_vars(Memo) /\ SF_vars(Comments) /\ SF_vars(Closes)
    /\ \A e \in Epics :
         /\ WF_vars(ListingCatchesUp(e)) /\ SF_vars(ReadsThread(e))

-----------------------------------------------------------------------------
(* What holds.                                                             *)

EpicType == [open : BOOLEAN, kids : Nat, held : BOOLEAN]

HistType == [closes : [Epics -> Nat], filed : [Docs -> Nat], lost : BOOLEAN,
             reopens : Nat, holds : Nat]

(* Every variable stays in the range the code gives it, and a container is *)
(* in hand exactly while the call works on one.                            *)
TypeOK ==
    /\ epic \in [Epics -> EpicType] /\ listed \in [Epics -> EpicType]
    /\ notes \in [Epics -> Nat]
    /\ retire \in [Docs -> {"none", "filed", "found", "done"}]
    /\ todo \subseteq Epics
    /\ pc \in {"pass", "next", "comment", "memo", "close", "body", "search", "file"}
    /\ IF pc \in {"pass", "next"} THEN cur = 0 ELSE cur \in Epics
    /\ commented \subseteq Epics /\ tried \subseteq Epics /\ filed \subseteq Docs
    /\ hist \in HistType

(* The thread carries the explanation once, however often the comment or   *)
(* the close failed, a shift was restarted or the epic was reopened.       *)
OneNote == \A e \in Epics : notes[e] <= 1

(* Nothing is closed without the comment that says why: a comment that     *)
(* failed leaves the epic open.                                            *)
ClosedWithReason ==
    [][\A e \in Epics : epic[e].open /\ ~epic'[e].open => notes[e] > 0]_vars

(* A stale listing, or a close that keeps failing, costs one close call    *)
(* per shift, and so one epic-done at the most.                            *)
OneClosePerShift == \A e \in Epics : hist.closes[e] <= 1

(* Two containers of one document closing in the same call file one retire *)
(* issue, although the search cannot have seen the first one yet - as long *)
(* as no answer to a create was lost.                                      *)
OneRetirePerCall == hist.lost \/ \A d \in Docs : hist.filed[d] <= 1

(* A finished epic that nobody holds does not stay open: the close is      *)
(* retried whatever failed, and is not turned away by its own marker.      *)
FinishedIsClosed == \A e \in Epics : ~<>[]Due(e)
=============================================================================
