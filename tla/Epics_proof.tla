----------------------------- MODULE Epics_proof -----------------------------
(***************************************************************************)
(* Theorems of module Epics, for any containers, documents and footers.    *)
(*                                                                         *)
(*   TypeCorrect      every variable stays in its range                    *)
(*   NotesInductive   what a thread carries, in every state                *)
(*   NotedOnce        a thread carries the explanation at most once        *)
(*   ClosedExplained  nothing is closed without it                         *)
(*   ClosesInductive  the close calls of a shift, in every state           *)
(*   ClosedOnce       one close call per container and shift               *)
(*   MemoSpare        the memo of commented containers is never consulted  *)
(*                    to any effect                                        *)
(*   RetiredOnce      one retire issue per document and call               *)
(***************************************************************************)
EXTENDS Epics, TLAPS

-----------------------------------------------------------------------------
(* Type correctness.                                                       *)

(* A container that changes stays one.                                     *)
LEMMA EpicUpdate ==
    ASSUME epic \in [Epics -> EpicType], NEW e \in Epics,
           NEW o \in BOOLEAN, NEW k \in Nat, NEW h \in BOOLEAN
    PROVE  /\ [epic EXCEPT ![e].open = o] \in [Epics -> EpicType]
           /\ [epic EXCEPT ![e].kids = k] \in [Epics -> EpicType]
           /\ [epic EXCEPT ![e].held = h] \in [Epics -> EpicType]
           /\ [epic EXCEPT ![e].open = o, ![e].kids = k] \in [Epics -> EpicType]
  <1> DEFINE r == epic[e]
  <1>1. r \in EpicType OBVIOUS
  <1>2. /\ [r EXCEPT !.open = o] \in EpicType /\ [r EXCEPT !.kids = k] \in EpicType
        /\ [r EXCEPT !.held = h] \in EpicType
    BY <1>1 DEF EpicType
  <1>3. [[r EXCEPT !.open = o] EXCEPT !.kids = k] \in EpicType BY <1>2 DEF EpicType
  <1>4. [epic EXCEPT ![e].open = o] \in [Epics -> EpicType] BY <1>2
  <1>5. [epic EXCEPT ![e].kids = k] \in [Epics -> EpicType] BY <1>2
  <1>6. [epic EXCEPT ![e].held = h] \in [Epics -> EpicType] BY <1>2
  <1>7. [epic EXCEPT ![e].open = o, ![e].kids = k] \in [Epics -> EpicType]
    <2> DEFINE mid == [epic EXCEPT ![e].open = o]
    <2>1. mid \in [Epics -> EpicType] BY <1>4
    <2>2. [mid[e] EXCEPT !.kids = k] \in EpicType BY <2>1 DEF EpicType
    <2> HIDE DEF mid
    <2>3. [mid EXCEPT ![e].kids = k] \in [Epics -> EpicType] BY <2>1, <2>2
    <2> QED BY <2>3 DEF mid
  <1> QED BY <1>4, <1>5, <1>6, <1>7

(* So does the history.                                                    *)
LEMMA HistUpdate ==
    ASSUME hist \in HistType
    PROVE  /\ NoHist \in HistType
           /\ [hist EXCEPT !.filed = NoHist.filed, !.lost = FALSE] \in HistType
           /\ \A e \in Epics : [hist EXCEPT !.closes[e] = @ + 1] \in HistType
           /\ \A d \in Docs : /\ [hist EXCEPT !.filed[d] = @ + 1] \in HistType
                              /\ [hist EXCEPT !.filed[d] = @ + 1, !.lost = TRUE] \in HistType
           /\ [hist EXCEPT !.reopens = @ + 1] \in HistType
           /\ [hist EXCEPT !.holds = @ + 1] \in HistType
           /\ [NoHist EXCEPT !.reopens = hist.reopens, !.holds = hist.holds] \in HistType
  <1>1. /\ hist.closes \in [Epics -> Nat] /\ hist.filed \in [Docs -> Nat]
        /\ hist.lost \in BOOLEAN /\ hist.reopens \in Nat /\ hist.holds \in Nat
    BY DEF HistType
  <1>2. NoHist \in HistType BY DEF NoHist, HistType
  <1>3. NoHist.filed \in [Docs -> Nat] BY DEF NoHist
  <1>6. hist.reopens + 1 \in Nat /\ hist.holds + 1 \in Nat BY <1>1
  <1>7. [hist EXCEPT !.filed = NoHist.filed, !.lost = FALSE] \in HistType
    BY <1>3 DEF HistType
  <1>8. ASSUME NEW e \in Epics PROVE [hist EXCEPT !.closes[e] = @ + 1] \in HistType
    <2>1. [hist.closes EXCEPT ![e] = @ + 1] \in [Epics -> Nat] BY <1>1
    <2> QED BY <2>1 DEF HistType
  <1>9. ASSUME NEW d \in Docs
        PROVE  /\ [hist EXCEPT !.filed[d] = @ + 1] \in HistType
               /\ [hist EXCEPT !.filed[d] = @ + 1, !.lost = TRUE] \in HistType
    <2>1. [hist.filed EXCEPT ![d] = @ + 1] \in [Docs -> Nat] BY <1>1
    <2> QED BY <2>1 DEF HistType
  <1>11. [hist EXCEPT !.reopens = @ + 1] \in HistType BY <1>6 DEF HistType
  <1>12. [hist EXCEPT !.holds = @ + 1] \in HistType BY <1>6 DEF HistType
  <1>13. [NoHist EXCEPT !.reopens = hist.reopens, !.holds = hist.holds] \in HistType
    BY <1>1, <1>2 DEF HistType
  <1> QED BY <1>2, <1>7, <1>8, <1>9, <1>11, <1>12, <1>13

(* The steps of a pass, up to the close.                                   *)
LEMMA CloseType ==
    ASSUME EpicsAssumption, DocsAssumption, TypeOK,
           \/ Pass \/ PassOver \/ Memo \/ Comments \/ CommentFails \/ Closes \/ CloseFails
           \/ \E e \in Epics : ReadsThread(e) \/ ThreadUnread(e)
    PROVE  TypeOK'
  <1> USE DEF TypeOK, github, memory
  <1>1. CASE Pass
    <2>1. hist' \in HistType /\ todo' \subseteq Epics
      BY <1>1, HistUpdate DEF Pass, HistType, NoHist
    <2> QED BY <1>1, <2>1 DEF Pass
  <1>2. CASE PassOver BY <1>2 DEF PassOver
  <1>3. CASE \E e \in Epics : ReadsThread(e)
    <2>1. PICK e \in Epics, at \in {"close", "memo", "comment"} : Starts(e, at)
      BY <1>3 DEF ReadsThread
    <2> QED BY <2>1 DEF Starts
  <1>4. CASE \E e \in Epics : ThreadUnread(e) BY <1>4 DEF ThreadUnread, InHand
  <1>5. CASE Memo BY <1>5 DEF Memo
  <1>6. CASE Comments
    <2>1. cur \in Epics /\ notes' = [notes EXCEPT ![cur] = @ + 1] BY <1>6 DEF Comments, Noted
    <2>2. notes' \in [Epics -> Nat] BY <2>1
    <2> QED BY <1>6, <2>2 DEF Comments
  <1>7. CASE CommentFails
    <2>1. cur \in Epics /\ (notes' = [notes EXCEPT ![cur] = @ + 1] \/ notes' = notes)
      BY <1>7 DEF CommentFails, Noted
    <2>2. notes' \in [Epics -> Nat] BY <2>1
    <2> QED BY <1>7, <2>2 DEF CommentFails, GoesOn
  <1>8. CASE Closes \/ CloseFails
    <2>1. cur \in Epics BY <1>8 DEF Closes, CloseFails
    <2>2. epic' \in [Epics -> EpicType]
      <3>1. FALSE \in BOOLEAN /\ 0 \in Nat OBVIOUS
      <3>2. [epic EXCEPT ![cur].open = FALSE] \in [Epics -> EpicType]
        BY <2>1, <3>1, EpicUpdate
      <3> QED BY <1>8, <3>2 DEF Closes, CloseFails, Shut
    <2>3. hist' \in HistType BY <1>8, <2>1, HistUpdate DEF Closes, CloseFails, CloseCalled
    <2> QED BY <1>8, <2>1, <2>2, <2>3 DEF Closes, CloseFails, GoesOn
  <1> QED BY <1>1, <1>2, <1>3, <1>4, <1>5, <1>6, <1>7, <1>8

(* retireOrphanedDoc.                                                      *)
LEMMA RetireType ==
    ASSUME EpicsAssumption, DocsAssumption, TypeOK,
           \/ NothingToRetire \/ ReadsBody \/ SearchFindsNone \/ SearchEnds
           \/ Files \/ FilesNothing \/ FilesUnheard,
           pc = "file" => Doc \in Docs
    PROVE  TypeOK'
  <1> USE DEF TypeOK, github, memory
  <1>1. CASE NothingToRetire BY <1>1 DEF NothingToRetire, GoesOn
  <1>2. CASE ReadsBody BY <1>2 DEF ReadsBody
  <1>3. CASE SearchFindsNone BY <1>3 DEF SearchFindsNone
  <1>4. CASE SearchEnds BY <1>4 DEF SearchEnds, GoesOn
  <1>5. CASE FilesNothing BY <1>5 DEF FilesNothing, GoesOn
  <1>6. CASE Files \/ FilesUnheard
    <2>1. pc = "file" /\ Doc \in Docs BY <1>6 DEF Files, FilesUnheard
    <2>2. hist' \in HistType
      <3>1. \/ hist' = [hist EXCEPT !.filed[Doc] = @ + 1]
            \/ hist' = [hist EXCEPT !.filed[Doc] = @ + 1, !.lost = TRUE]
        BY <1>6 DEF Files, FilesUnheard, FiledOnGitHub
      <3>2. hist \in HistType OBVIOUS
      <3> HIDE DEF Doc, TypeOK
      <3>3. /\ [hist EXCEPT !.filed[Doc] = @ + 1] \in HistType
            /\ [hist EXCEPT !.filed[Doc] = @ + 1, !.lost = TRUE] \in HistType
        BY <2>1, <3>2, HistUpdate
      <3> QED BY <3>1, <3>3
    <2>3. retire' \in [Docs -> {"none", "filed", "found", "done"}]
      BY <1>6, <2>1 DEF Files, FilesUnheard, FiledOnGitHub
    <2> QED BY <1>6, <2>1, <2>2, <2>3 DEF Files, FilesUnheard, GoesOn, Doc
  <1> QED BY <1>1, <1>2, <1>3, <1>4, <1>5, <1>6

(* GitHub, people and a new shift.                                         *)
LEMMA WorldType ==
    ASSUME TypeOK, World \/ NewShift
    PROVE  TypeOK'
  <1> USE DEF TypeOK, github, memory, Outside
  <1>1. CASE \E e \in Epics : ListingCatchesUp(e) BY <1>1 DEF ListingCatchesUp
  <1>2. CASE \E e \in Epics : ChildCloses(e)
    <2>1. PICK e \in Epics : ChildCloses(e) BY <1>2
    <2>2. epic[e].kids \in Nat /\ epic[e].kids > 0 BY <2>1 DEF ChildCloses, EpicType
    <2>3. [epic[e] EXCEPT !.kids = @ - 1] \in EpicType BY <2>2 DEF EpicType
    <2>4. epic' \in [Epics -> EpicType] BY <2>1, <2>3 DEF ChildCloses
    <2> QED BY <2>1, <2>4 DEF ChildCloses
  <1>3. CASE \E e \in Epics : PersonReopens(e)
    <2>1. PICK e \in Epics : PersonReopens(e) BY <1>3
    <2>2. PICK kids \in {epic[e].kids, 1} :
            epic' = [epic EXCEPT ![e].open = TRUE, ![e].kids = kids]
      BY <2>1 DEF PersonReopens
    <2>3. kids \in Nat /\ TRUE \in BOOLEAN BY DEF EpicType
    <2>4. [epic EXCEPT ![e].open = TRUE, ![e].kids = kids] \in [Epics -> EpicType]
      BY <2>3, EpicUpdate
    <2>5. hist' \in HistType BY <2>1, HistUpdate DEF PersonReopens
    <2> QED BY <2>1, <2>2, <2>4, <2>5 DEF PersonReopens
  <1>4. CASE \E e \in Epics : PersonHolds(e)
    <2>1. PICK e \in Epics : PersonHolds(e) BY <1>4
    <2>2. [epic[e] EXCEPT !.held = ~@] \in EpicType BY DEF EpicType
    <2>3. epic' \in [Epics -> EpicType] BY <2>1, <2>2 DEF PersonHolds
    <2>4. hist' \in HistType BY <2>1, HistUpdate DEF PersonHolds
    <2> QED BY <2>1, <2>3, <2>4 DEF PersonHolds
  <1>5. CASE \E d \in Docs : SearchCatchesUp(d) BY <1>5 DEF SearchCatchesUp
  <1>6. CASE \E d \in Docs : PersonRetires(d) BY <1>6 DEF PersonRetires
  <1>7. CASE NewShift
    <2>1. hist' \in HistType BY <1>7, HistUpdate DEF NewShift
    <2> QED BY <1>7, <2>1 DEF NewShift
  <1> QED BY <1>1, <1>2, <1>3, <1>4, <1>5, <1>6, <1>7 DEF World

(* The document in hand is one, and not yet filed in this call.            *)
DocInHand == pc \in {"search", "file"} => Doc \in Docs /\ Doc \notin filed

LEMMA DocKept ==
    ASSUME EpicsAssumption, DocsAssumption, TypeOK, DocInHand, [Next]_vars
    PROVE  DocInHand'
  <1> USE DEF TypeOK, DocInHand, github, memory, Doc
  <1>1. CASE Shift
    <2>1. CASE Pass \/ PassOver \/ Memo \/ Comments \/ CommentFails \/ Closes \/ CloseFails
      BY <1>1, <2>1 DEF Pass, PassOver, Memo, Comments, CommentFails, Closes, CloseFails, GoesOn
    <2>2. CASE \E e \in Epics : ReadsThread(e)
      <3>1. PICK e \in Epics, at \in {"close", "memo", "comment"} : Starts(e, at)
        BY <2>2 DEF ReadsThread
      <3> QED BY <3>1 DEF Starts
    <2>3. CASE \E e \in Epics : ThreadUnread(e)
      <3>1. pc' = "next" BY <2>3 DEF ThreadUnread, InHand
      <3> QED BY <3>1
    <2>4. CASE NothingToRetire \/ ReadsBody \/ SearchFindsNone \/ SearchEnds
      BY <2>4 DEF NothingToRetire, ReadsBody, SearchFindsNone, SearchEnds, GoesOn
    <2>5. CASE Files \/ FilesNothing \/ FilesUnheard
      <3>1. pc' = "next" BY <2>5 DEF Files, FilesNothing, FilesUnheard, GoesOn
      <3> QED BY <3>1
    <2> QED BY <1>1, <2>1, <2>2, <2>3, <2>4, <2>5 DEF Shift
  <1>2. CASE World
    <2>1. pc' = pc /\ cur' = cur /\ filed' = filed
      BY <1>2 DEF World, Outside, ListingCatchesUp, ChildCloses, PersonReopens, PersonHolds,
                  SearchCatchesUp, PersonRetires
    <2> QED BY <2>1
  <1>3. CASE NewShift BY <1>3 DEF NewShift
  <1>4. CASE UNCHANGED vars BY <1>4 DEF vars
  <1> QED BY <1>1, <1>2, <1>3, <1>4 DEF Next

TypeInv == TypeOK /\ DocInHand

(* Every variable stays in its range, whatever fails and whoever steps in; *)
(* and the retire issue a call files is for a design document.             *)
THEOREM TypeCorrect == Spec => [](TypeOK /\ DocInHand)
  <1> USE EpicsAssumption, DocsAssumption
  <1>1. Init => TypeInv
    <2> SUFFICES ASSUME Init PROVE TypeInv OBVIOUS
    <2>1. epic \in [Epics -> EpicType]
      <3> DEFINE New == [open : {TRUE}, kids : {0, 1}, held : {FALSE}]
      <3>1. epic \in [Epics -> New] BY DEF Init
      <3>2. ASSUME NEW c \in New PROVE c \in EpicType
        <4>1. PICK o \in {TRUE}, k \in {0, 1}, h \in {FALSE} :
                c = [open |-> o, kids |-> k, held |-> h]
          OBVIOUS
        <4>2. o \in BOOLEAN /\ k \in Nat /\ h \in BOOLEAN OBVIOUS
        <4> QED BY <4>1, <4>2 DEF EpicType
      <3> HIDE DEF New
      <3> QED BY <3>1, <3>2
    <2>2. hist \in HistType BY DEF Init, NoHist, HistType
    <2>3. retire \in [Docs -> {"none", "filed", "found", "done"}] BY DEF Init
    <2>4. TypeOK BY <2>1, <2>2, <2>3 DEF Init, TypeOK
    <2>5. DocInHand BY DEF Init, DocInHand
    <2> QED BY <2>4, <2>5 DEF TypeInv
  <1>2. TypeInv /\ [Next]_vars => TypeInv'
    <2> SUFFICES ASSUME TypeInv, [Next]_vars PROVE TypeInv' OBVIOUS
    <2>1. DocInHand' BY DocKept DEF TypeInv
    <2>2. TypeOK'
      <3>1. pc = "file" => Doc \in Docs BY DEF TypeInv, DocInHand
      <3>2. CASE \/ Pass \/ PassOver \/ Memo \/ Comments \/ CommentFails \/ Closes \/ CloseFails
                 \/ \E e \in Epics : ReadsThread(e) \/ ThreadUnread(e)
        BY <3>2, CloseType DEF TypeInv
      <3>3. CASE \/ NothingToRetire \/ ReadsBody \/ SearchFindsNone \/ SearchEnds
                 \/ Files \/ FilesNothing \/ FilesUnheard
        BY <3>1, <3>3, RetireType DEF TypeInv
      <3>4. CASE World \/ NewShift BY <3>4, WorldType DEF TypeInv
      <3>5. CASE UNCHANGED vars BY <3>5 DEF vars, github, memory, TypeInv, TypeOK
      <3> QED BY <3>2, <3>3, <3>4, <3>5 DEF Next, Shift
    <2> QED BY <2>1, <2>2 DEF TypeInv
  <1> QED BY <1>1, <1>2, PTL DEF Spec, TypeInv

-----------------------------------------------------------------------------
(* The explanation.                                                        *)

(* The call comments only on a thread it has just read and found without   *)
(* the marker; it closes only one that has it, and its memory of which do  *)
(* is right.                                                               *)
NoteInv ==
    /\ OneNote
    /\ pc = "comment" => notes[cur] = 0
    /\ pc \in {"memo", "close"} => notes[cur] > 0
    /\ \A e \in commented : notes[e] > 0

LEMMA NoteStep ==
    ASSUME EpicsAssumption, DocsAssumption, TypeOK, NoteInv, [Next]_vars
    PROVE  NoteInv'
  <1> USE DEF NoteInv, OneNote
  <1>0. /\ notes \in [Epics -> Nat] /\ commented \subseteq Epics
        /\ pc \in {"comment", "memo", "close"} => cur \in Epics
    BY DEF TypeOK
  <1>1. CASE \E e \in Epics : ReadsThread(e)
    <2>1. PICK e \in Epics : ReadsThread(e) BY <1>1
    <2>2. /\ notes' = notes /\ commented' = commented /\ cur' = e
          /\ \/ pc' = "close" /\ e \in commented
             \/ pc' = "memo" /\ notes[e] > 0
             \/ pc' = "comment" /\ ~(notes[e] > 0)
      BY <2>1 DEF ReadsThread, Starts, github, memory
    <2>3. notes[e] \in Nat BY <1>0
    <2> QED BY <2>2, <2>3
  <1>2. CASE Memo
    <2>1. notes' = notes /\ cur' = cur /\ commented' = commented \cup {cur} /\ pc' = "close"
          /\ pc = "memo"
      BY <1>2 DEF Memo, github
    <2> QED BY <2>1
  <1>3. CASE Comments \/ CommentFails
    <2>1. /\ pc = "comment" /\ cur \in Epics /\ notes[cur] = 0 /\ commented' = commented
          /\ \/ notes' = [notes EXCEPT ![cur] = @ + 1]
             \/ notes' = notes /\ pc' = "next"
          /\ \/ pc' = "memo" /\ cur' = cur
             \/ pc' = "next"
      <3>1. pc = "comment" /\ cur \in Epics /\ notes[cur] = 0
        BY <1>0, <1>3 DEF Comments, CommentFails
      <3>2. CASE Comments BY <3>1, <3>2 DEF Comments, Noted, memory
      <3>3. CASE CommentFails BY <3>1, <3>3 DEF CommentFails, Noted, GoesOn, memory
      <3> QED BY <1>3, <3>2, <3>3
    <2>2. CASE notes' = [notes EXCEPT ![cur] = @ + 1]
      <3>1. \A e \in Epics : notes'[e] = IF e = cur THEN 1 ELSE notes[e] BY <1>0, <2>1, <2>2
      <3> QED BY <1>0, <2>1, <3>1
    <2> QED BY <2>1, <2>2
  <1>4. CASE Pass \/ PassOver \/ Closes \/ CloseFails \/ \E e \in Epics : ThreadUnread(e)
    <2>1. /\ notes' = notes /\ commented' = commented
          /\ pc' \in {"next", "pass", "body"}
      BY <1>4 DEF Pass, PassOver, Closes, CloseFails, ThreadUnread, InHand, GoesOn, github, memory
    <2> QED BY <2>1
  <1>5. CASE \/ NothingToRetire \/ ReadsBody \/ SearchFindsNone \/ SearchEnds
             \/ Files \/ FilesNothing \/ FilesUnheard
    <2>1. /\ notes' = notes /\ commented' = commented
          /\ pc' \in {"next", "search", "file"}
      BY <1>5 DEF NothingToRetire, ReadsBody, SearchFindsNone, SearchEnds, Files, FilesNothing,
                  FilesUnheard, GoesOn, github, memory
    <2> QED BY <2>1
  <1>6. CASE World
    <2>1. /\ notes' = notes /\ commented' = commented /\ pc' = pc /\ cur' = cur
      BY <1>6 DEF World, Outside, ListingCatchesUp, ChildCloses, PersonReopens, PersonHolds,
                  SearchCatchesUp, PersonRetires, memory
    <2> QED BY <2>1
  <1>7. CASE NewShift BY <1>7 DEF NewShift, github
  <1>8. CASE UNCHANGED vars BY <1>8 DEF vars, github, memory
  <1> QED BY <1>1, <1>2, <1>3, <1>4, <1>5, <1>6, <1>7, <1>8 DEF Next, Shift

(* What a thread carries, in every state.                                  *)
THEOREM NotesInductive == Spec => []NoteInv
  <1> USE EpicsAssumption, DocsAssumption
  <1>1. Init => NoteInv
    <2> SUFFICES ASSUME Init PROVE NoteInv OBVIOUS
    <2>1. \A e \in Epics : notes[e] = 0 BY DEF Init
    <2> QED BY <2>1 DEF Init, NoteInv, OneNote
  <1>2. TypeOK /\ NoteInv /\ [Next]_vars => NoteInv' BY NoteStep
  <1> QED BY <1>1, <1>2, TypeCorrect, PTL DEF Spec

(* However the comment or the close failed, a shift was restarted or the   *)
(* epic was reopened, the thread carries the explanation once.             *)
THEOREM NotedOnce == Spec => []OneNote
  <1>1. NoteInv => OneNote BY DEF NoteInv
  <1> QED BY <1>1, NotesInductive, PTL

(* Nothing is closed without the comment that says why.                    *)
THEOREM ClosedExplained == Spec => ClosedWithReason
  <1>1. ASSUME TypeOK, NoteInv, [Next]_vars, NEW e \in Epics, epic[e].open, ~epic'[e].open
        PROVE  notes[e] > 0
    <2>1. CASE Closes \/ CloseFails
      <3>1. pc = "close" /\ cur \in Epics BY <1>1, <2>1 DEF Closes, CloseFails, TypeOK
      <3>2. epic' = epic \/ epic' = [epic EXCEPT ![cur].open = FALSE]
        BY <2>1 DEF Closes, CloseFails, Shut
      <3>3. e = cur BY <1>1, <3>1, <3>2 DEF TypeOK
      <3> QED BY <1>1, <3>1, <3>3 DEF NoteInv
    <2>2. CASE World
      <3>1. CASE \E x \in Epics : ChildCloses(x)
        <4>1. PICK x \in Epics : ChildCloses(x) BY <3>1
        <4>2. epic'[e].open = epic[e].open BY <1>1, <4>1 DEF ChildCloses, TypeOK, EpicType
        <4> QED BY <1>1, <4>2
      <3>2. CASE \E x \in Epics : PersonHolds(x)
        <4>1. PICK x \in Epics : PersonHolds(x) BY <3>2
        <4>2. epic'[e].open = epic[e].open BY <1>1, <4>1 DEF PersonHolds, TypeOK, EpicType
        <4> QED BY <1>1, <4>2
      <3>3. CASE \E x \in Epics : PersonReopens(x)
        <4>1. PICK x \in Epics : PersonReopens(x) BY <3>3
        <4>2. PICK k \in {epic[x].kids, 1} : epic' = [epic EXCEPT ![x].open = TRUE, ![x].kids = k]
          BY <4>1 DEF PersonReopens
        <4>3. epic[x] \in EpicType BY <1>1 DEF TypeOK
        <4>4. [[epic[x] EXCEPT !.open = TRUE] EXCEPT !.kids = k].open = TRUE
          BY <4>3 DEF EpicType
        <4>5. epic'[e] = IF e = x THEN [[epic[x] EXCEPT !.open = TRUE] EXCEPT !.kids = k]
                                  ELSE epic[e]
          BY <1>1, <4>2 DEF TypeOK
        <4> QED BY <1>1, <4>4, <4>5
      <3>4. CASE \/ \E x \in Epics : ListingCatchesUp(x)
                 \/ \E d \in Docs : SearchCatchesUp(d) \/ PersonRetires(d)
        BY <1>1, <3>4 DEF ListingCatchesUp, SearchCatchesUp, PersonRetires
      <3> QED BY <2>2, <3>1, <3>2, <3>3, <3>4 DEF World
    <2>3. CASE Pass \/ PassOver \/ Memo \/ Comments \/ CommentFails
      BY <1>1, <2>3 DEF Pass, PassOver, Memo, Comments, CommentFails, github
    <2>4. CASE \E x \in Epics : ReadsThread(x) \/ ThreadUnread(x)
      BY <1>1, <2>4 DEF ReadsThread, ThreadUnread, Starts, github
    <2>5. CASE \/ NothingToRetire \/ ReadsBody \/ SearchFindsNone \/ SearchEnds
               \/ Files \/ FilesNothing \/ FilesUnheard
      BY <1>1, <2>5 DEF NothingToRetire, ReadsBody, SearchFindsNone, SearchEnds, Files,
                        FilesNothing, FilesUnheard, github
    <2>6. CASE NewShift \/ UNCHANGED vars BY <1>1, <2>6 DEF NewShift, vars, github
    <2> QED BY <1>1, <2>1, <2>2, <2>3, <2>4, <2>5, <2>6 DEF Next, Shift
  <1>2. TypeOK /\ NoteInv /\ [Next]_vars
          => [\A e \in Epics : epic[e].open /\ ~epic'[e].open => notes[e] > 0]_vars
    BY <1>1
  <1> QED BY <1>2, TypeCorrect, NotesInductive, PTL DEF Spec, ClosedWithReason

-----------------------------------------------------------------------------
(* The close.                                                              *)

(* A container still to come, or in hand before its close, has not been    *)
(* closed by this shift; one not tried has had no close call at all; and   *)
(* what the memo holds has been tried, or is being closed.                 *)
CloseInv ==
    /\ \A e \in Epics : hist.closes[e] <= (IF e \in tried THEN 1 ELSE 0)
    /\ todo \cap tried = {}
    /\ pc \in {"comment", "memo", "close"} => cur \notin todo /\ cur \notin tried
    /\ commented \subseteq tried \cup (IF pc = "close" THEN {cur} ELSE {})

LEMMA CloseStep ==
    ASSUME EpicsAssumption, DocsAssumption, TypeOK, CloseInv, [Next]_vars
    PROVE  CloseInv'
  <1> USE DEF CloseInv
  <1>0. hist \in HistType /\ hist.closes \in [Epics -> Nat] BY DEF TypeOK, HistType
  <1>1. CASE Pass
    <2>1. hist'.closes = hist.closes BY <1>0, <1>1 DEF Pass, HistType
    <2>2. /\ tried' = tried /\ pc' = "next" /\ todo' = {e \in Epics : Eligible(e)}
          /\ commented' = commented /\ pc = "pass"
      BY <1>1 DEF Pass
    <2>3. todo' \cap tried' = {} BY <2>2 DEF Eligible
    <2> QED BY <2>1, <2>2, <2>3
  <1>2. CASE \E e \in Epics : ReadsThread(e)
    <2>1. PICK e \in Epics, at \in {"close", "memo", "comment"} : Starts(e, at)
      BY <1>2 DEF ReadsThread
    <2>2. /\ e \in todo /\ todo' = todo \ {e} /\ cur' = e /\ pc = "next"
          /\ hist' = hist /\ tried' = tried /\ commented' = commented
      BY <2>1 DEF Starts, InHand, memory
    <2> QED BY <2>2
  <1>3. CASE Closes \/ CloseFails
    <2>1. pc = "close" /\ cur \in Epics BY <1>3 DEF Closes, CloseFails, TypeOK
    <2>2. hist'.closes = [hist.closes EXCEPT ![cur] = @ + 1]
      BY <1>0, <1>3 DEF Closes, CloseFails, CloseCalled, HistType
    <2>3. /\ tried' = tried \cup {cur} /\ todo' = todo /\ pc' \in {"body", "next"}
          /\ commented' = commented
      BY <1>3 DEF Closes, CloseFails, GoesOn
    <2>4. hist.closes[cur] = 0 BY <1>0, <2>1
    <2>5. \A e \in Epics : hist'.closes[e] = IF e = cur THEN 1 ELSE hist.closes[e]
      BY <1>0, <2>1, <2>2, <2>4
    <2>6. \A e \in Epics : hist'.closes[e] <= (IF e \in tried' THEN 1 ELSE 0)
      <3>1. \A e \in Epics : hist.closes[e] <= (IF e \in tried THEN 1 ELSE 0) OBVIOUS
      <3> HIDE DEF CloseInv
      <3> QED BY <1>0, <2>3, <2>5, <3>1
    <2> QED BY <2>1, <2>3, <2>6
  <1>4. CASE PassOver \/ Comments \/ CommentFails
    <2>1. /\ hist' = hist /\ tried' = tried /\ todo' = todo /\ commented' = commented
          /\ pc \in {"next", "comment"}
          /\ \/ pc' \in {"next", "pass"}
             \/ cur' = cur /\ pc = "comment" /\ pc' = "memo"
      BY <1>4 DEF PassOver, Comments, CommentFails, GoesOn, memory
    <2> QED BY <2>1
  <1>10. CASE Memo
    <2>1. /\ hist' = hist /\ tried' = tried /\ todo' = todo /\ cur' = cur
          /\ pc = "memo" /\ pc' = "close" /\ commented' = commented \cup {cur}
      BY <1>10 DEF Memo
    <2> QED BY <2>1
  <1>9. CASE \E e \in Epics : ThreadUnread(e)
    <2>1. /\ hist' = hist /\ tried' = tried /\ todo' \subseteq todo
          /\ pc = "next" /\ pc' = "next" /\ commented' = commented
      BY <1>9 DEF ThreadUnread, InHand, memory
    <2> QED BY <2>1
  <1>5. CASE \/ NothingToRetire \/ ReadsBody \/ SearchFindsNone \/ SearchEnds
             \/ Files \/ FilesNothing \/ FilesUnheard
    <2>1. /\ tried' = tried /\ todo' = todo /\ commented' = commented
          /\ pc \in {"body", "search", "file"} /\ pc' \in {"next", "search", "file"}
      BY <1>5 DEF NothingToRetire, ReadsBody, SearchFindsNone, SearchEnds, Files, FilesNothing,
                  FilesUnheard, GoesOn, memory
    <2>2. hist'.closes = hist.closes
      BY <1>0, <1>5 DEF NothingToRetire, ReadsBody, SearchFindsNone, SearchEnds, Files,
                        FilesNothing, FilesUnheard, FiledOnGitHub, HistType
    <2> QED BY <2>1, <2>2
  <1>6. CASE World
    <2>1. /\ pc' = pc /\ cur' = cur /\ tried' = tried /\ todo' = todo
          /\ commented' = commented
      BY <1>6 DEF World, Outside, ListingCatchesUp, ChildCloses, PersonReopens, PersonHolds,
                  SearchCatchesUp, PersonRetires, memory
    <2>2. hist'.closes = hist.closes
      BY <1>0, <1>6 DEF World, ListingCatchesUp, ChildCloses, PersonReopens, PersonHolds,
                        SearchCatchesUp, PersonRetires, HistType
    <2> QED BY <2>1, <2>2
  <1>7. CASE NewShift
    <2>1. hist'.closes = NoHist.closes BY <1>7 DEF NewShift, NoHist
    <2>2. \A e \in Epics : hist'.closes[e] = 0 BY <2>1 DEF NoHist
    <2> QED BY <1>7, <2>2 DEF NewShift
  <1>8. CASE UNCHANGED vars BY <1>8 DEF vars, github, memory
  <1> QED BY <1>1, <1>2, <1>3, <1>4, <1>5, <1>6, <1>7, <1>8, <1>9, <1>10
      DEF Next, Shift

(* The close calls a shift has made, in every state.                       *)
THEOREM ClosesInductive == Spec => []CloseInv
  <1> USE EpicsAssumption, DocsAssumption
  <1>1. Init => CloseInv
    <2> SUFFICES ASSUME Init PROVE CloseInv OBVIOUS
    <2>1. \A e \in Epics : hist.closes[e] = 0 BY DEF Init, NoHist
    <2> QED BY <2>1 DEF Init, CloseInv
  <1>2. TypeOK /\ CloseInv /\ [Next]_vars => CloseInv' BY CloseStep
  <1> QED BY <1>1, <1>2, TypeCorrect, PTL DEF Spec

(* A stale listing, or a close that keeps failing, costs one close call    *)
(* per shift and container.                                                *)
THEOREM ClosedOnce == Spec => []OneClosePerShift
  <1>1. TypeOK /\ CloseInv => OneClosePerShift
    <2> SUFFICES ASSUME TypeOK, CloseInv, NEW e \in Epics PROVE hist.closes[e] <= 1
      BY DEF OneClosePerShift
    <2>1. hist.closes[e] \in Nat BY DEF TypeOK, HistType
    <2> QED BY <2>1 DEF CloseInv
  <1> QED BY <1>1, ClosesInductive, TypeCorrect, PTL

(* The memo saves no read: a container in it is not gone through again by  *)
(* the same shift, because the record of the closes it tried is the wider. *)
MemoUnread == \A e \in Epics : InHand(e) => e \notin commented

(* The memo's own arm is never taken.                                      *)
THEOREM MemoSpare == Spec => []MemoUnread
  <1>1. CloseInv => MemoUnread BY DEF CloseInv, MemoUnread, InHand
  <1> QED BY <1>1, ClosesInductive, PTL

-----------------------------------------------------------------------------
(* The retire issue.                                                       *)

(* Unless an answer was lost, what this call filed is what it remembers.   *)
RetireInv ==
    hist.lost \/ \A d \in Docs : hist.filed[d] <= (IF d \in filed THEN 1 ELSE 0)

LEMMA RetireStep ==
    ASSUME EpicsAssumption, DocsAssumption, TypeOK, DocInHand, RetireInv, [Next]_vars
    PROVE  RetireInv'
  <1> USE DEF RetireInv
  <1>0. hist \in HistType /\ hist.filed \in [Docs -> Nat] BY DEF TypeOK, HistType
  <1>1. CASE Pass \/ NewShift
    <2>1. hist'.filed = NoHist.filed
      BY <1>0, <1>1 DEF Pass, NewShift, HistType, NoHist
    <2>2. \A d \in Docs : hist'.filed[d] = 0 BY <2>1 DEF NoHist
    <2> QED BY <2>2
  <1>2. CASE Files
    <2>1. Doc \in Docs /\ Doc \notin filed BY <1>2 DEF Files, DocInHand
    <2> HIDE DEF Doc
    <2>2. hist' = [hist EXCEPT !.filed[Doc] = @ + 1] /\ filed' = filed \cup {Doc}
      BY <1>2 DEF Files, FiledOnGitHub
    <2>3. hist'.filed = [hist.filed EXCEPT ![Doc] = @ + 1] /\ hist'.lost = hist.lost
      BY <1>0, <2>2 DEF HistType
    <2>4. CASE ~hist.lost
      <3>1. hist.filed[Doc] = 0 BY <1>0, <2>1, <2>4
      <3>2. \A d \in Docs : hist'.filed[d] = IF d = Doc THEN 1 ELSE hist.filed[d]
        BY <1>0, <2>1, <2>3, <3>1
      <3>3. \A d \in Docs : hist.filed[d] <= (IF d \in filed THEN 1 ELSE 0) BY <2>4
      <3>4. \A d \in Docs : hist'.filed[d] <= (IF d \in filed' THEN 1 ELSE 0)
        BY <2>2, <3>2, <3>3
      <3> QED BY <3>4
    <2> QED BY <2>3, <2>4
  <1>3. CASE FilesUnheard
    <2>1. hist'.lost BY <1>0, <1>3 DEF FilesUnheard, HistType
    <2> QED BY <2>1
  <1>4. CASE \/ PassOver \/ Memo \/ Comments \/ CommentFails \/ Closes \/ CloseFails
             \/ NothingToRetire \/ ReadsBody \/ SearchFindsNone \/ SearchEnds \/ FilesNothing
             \/ \E e \in Epics : ReadsThread(e) \/ ThreadUnread(e)
             \/ World
    <2>1. filed' = filed
      BY <1>4 DEF PassOver, Memo, Comments, CommentFails, Closes, CloseFails, NothingToRetire,
           ReadsBody, SearchFindsNone, SearchEnds, FilesNothing, ReadsThread,
           ThreadUnread, Starts, World, Outside, ListingCatchesUp, ChildCloses, PersonReopens,
           PersonHolds, SearchCatchesUp, PersonRetires, memory
    <2>2. hist'.filed = hist.filed /\ hist'.lost = hist.lost
      BY <1>0, <1>4 DEF PassOver, Memo, Comments, CommentFails, Closes, CloseFails, CloseCalled,
           NothingToRetire, ReadsBody, SearchFindsNone, SearchEnds, FilesNothing,
           ReadsThread, ThreadUnread, Starts, World, ListingCatchesUp, ChildCloses,
           PersonReopens, PersonHolds, SearchCatchesUp, PersonRetires, HistType
    <2> QED BY <2>1, <2>2
  <1>5. CASE UNCHANGED vars BY <1>5 DEF vars, github, memory
  <1> QED BY <1>1, <1>2, <1>3, <1>4, <1>5 DEF Next, Shift

(* Containers of one document that close in the same call file one retire  *)
(* issue, as long as no answer to a create was lost.                       *)
THEOREM RetiredOnce == Spec => []OneRetirePerCall
  <1> USE EpicsAssumption, DocsAssumption
  <1>1. Init => RetireInv
    <2> SUFFICES ASSUME Init PROVE RetireInv OBVIOUS
    <2>1. \A d \in Docs : hist.filed[d] = 0 BY DEF Init, NoHist
    <2> QED BY <2>1 DEF RetireInv
  <1>2. TypeOK /\ DocInHand /\ RetireInv /\ [Next]_vars => RetireInv' BY RetireStep
  <1>3. TypeOK /\ RetireInv => OneRetirePerCall
    <2> SUFFICES ASSUME TypeOK, RetireInv, ~hist.lost, NEW d \in Docs PROVE hist.filed[d] <= 1
      BY DEF OneRetirePerCall
    <2>1. hist.filed[d] \in Nat BY DEF TypeOK, HistType
    <2> QED BY <2>1 DEF RetireInv
  <1> QED BY <1>1, <1>2, <1>3, TypeCorrect, PTL DEF Spec
=============================================================================
