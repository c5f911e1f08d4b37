----------------------------- MODULE Verbs_proof ------------------------------
(***************************************************************************)
(* Proofs about the small verbs and the parts of a shift beside its loop,  *)
(* each as a behaviour of its own and for every value of its constants:    *)
(* what unpark grants, which voice chooses a model, what a dry run         *)
(* foresees, how long a reply waits, what keeps design and code apart,     *)
(* what setup strands, which issues the label pass of plan and health      *)
(* touches, how long the usage gate sleeps, and what status reports; and,  *)
(* with tidy, update and the run data, the same of the process that runs   *)
(* one of them, and the types of all that it keeps.                        *)
(***************************************************************************)
EXTENDS MCVerbs, TidyUpdate_proof, RunData_proof, FiniteSetTheorems, TLAPS

-----------------------------------------------------------------------------
(*                              polako unpark                              *)

UnparkSpec == UnparkInit /\ [][UnparkNext]_unparkVars

UnparkOptions ==
    [apply : BOOLEAN, yes : BOOLEAN, tty : BOOLEAN, only : UnparkIssues \cup {Everyone},
     repo : BOOLEAN]
ParkWorks ==
    {"not read", "parks again", "remediates", "waits", "resumes", "resumes here", "starts over"}
ParkItems ==
    [entries : SUBSET GrantEntries, ignored : BOOLEAN, category : ParkCategories,
     work : ParkWorks, local : BOOLEAN]

(* What the variables hold; before the call the repository is unknown.     *)
UnparkTypes ==
    /\ UnparkTypeOK
    /\ unparkOpt \in UnparkOptions /\ parkItem \in [UnparkIssues -> ParkItems]
    /\ unparkHist \in [cleared : SUBSET UnparkIssues, moves : 0..UnparkMoves]
    /\ unparkPc # "rest" => parkedRepo \in [UnparkIssues -> ParkedRecord]

(* What was read of an issue is of its own comments, and stays so however  *)
(* the thread grows.                                                       *)
ItemInv ==
    \A i \in UnparkIssues :
        IF unparkPc = "rest" THEN parkItem[i].entries = {}
        ELSE parkItem[i].entries \subseteq Granted(i)

(* The rerun line grows with the label that comes off and only then, which *)
(* is when -apply has read every item for good.                            *)
ClearInv ==
    /\ unparkPc = "apply" => unparkOpt.apply
    /\ unparkPc \in {"rest", "list", "comments", "work"} => unparkHist.cleared = {}
    /\ unparkHist.cleared # {} => unparkOpt.apply
    /\ unparkHist.cleared = {} => grants = {}
    /\ \A i \in unparkHist.cleared : parkItem[i].entries \subseteq grants
    /\ \A g \in grants : \E i \in unparkHist.cleared : g \in Granted(i)

UnparkInv == UnparkTypes /\ ItemInv /\ ClearInv

LEMMA NoItemType == NoItem \in ParkItems /\ NoItem.entries = {}
  <1>1. {} \in SUBSET GrantEntries OBVIOUS
  <1> QED BY <1>1 DEF NoItem, ParkItems, ParkCategories, ParkWorks

LEMMA UnparkInitInv == UnparkInit => UnparkInv
  <1> SUFFICES ASSUME UnparkInit PROVE UnparkInv
    OBVIOUS
  <1>1. NoItem \in ParkItems /\ NoItem.entries = {} BY NoItemType
  <1>2. \A i \in UnparkIssues : parkItem[i] = NoItem BY DEF UnparkInit
  <1>3. parkItem \in [UnparkIssues -> ParkItems] BY <1>1 DEF UnparkInit
  <1>4. unparkHist \in [cleared : SUBSET UnparkIssues, moves : 0..UnparkMoves]
    BY UnparkAssumption DEF UnparkInit
  <1>5. unparkOpt \in UnparkOptions BY DEF UnparkInit, UnparkOptions
  <1>6. UnparkTypeOK
    BY <1>3, <1>4 DEF UnparkInit, UnparkTypeOK, ParkItems
  <1>7. UnparkTypes BY <1>3, <1>4, <1>5, <1>6 DEF UnparkInit, UnparkTypes
  <1>8. ItemInv BY <1>1, <1>2 DEF UnparkInit, ItemInv
  <1>9. ClearInv BY DEF UnparkInit, ClearInv
  <1> QED BY <1>7, <1>8, <1>9 DEF UnparkInv

(* A thread only grows, so what its own comments name does too.            *)
LEMMA GrantedGrows ==
  ASSUME NEW i \in UnparkIssues, parkedRepo[i] \in ParkedRecord, NEW c \in ParkComment,
         parkedRepo'[i].thread \in {parkedRepo[i].thread, Append(parkedRepo[i].thread, c)}
  PROVE  Granted(i) \subseteq Granted(i)'
  <1> DEFINE t == parkedRepo[i].thread
             t2 == parkedRepo'[i].thread
  <1>1. t \in Seq(ParkComment) BY DEF ParkedRecord
  <1>2. \A n \in DOMAIN t : n \in DOMAIN t2 /\ t2[n] = t[n]
    <2>1. CASE t2 = t BY <2>1
    <2>2. CASE t2 = Append(t, c)
      <3> HIDE DEF t, t2
      <3> QED BY <1>1, <2>2
    <2> QED BY <2>1, <2>2
  <1>3. \A n \in DOMAIN t : t[n].mine => t[n].entries \subseteq Granted(i)'
    <2> SUFFICES ASSUME NEW n \in DOMAIN t, t[n].mine PROVE t[n].entries \subseteq Granted(i)'
      OBVIOUS
    <2>1. n \in {m \in DOMAIN t2 : t2[m].mine} BY <1>2
    <2>2. t2[n].entries \subseteq Granted(i)' BY <2>1 DEF Granted
    <2> QED BY <1>2, <2>2
  <1> QED BY <1>3 DEF Granted

(* The newest of the account's own park comments is one of its own.        *)
LEMMA NewestParkIsOwn ==
  ASSUME NEW i \in UnparkIssues, parkedRepo[i] \in ParkedRecord
  PROVE  /\ NewestPark(parkedRepo[i].thread) \in ParkItems
         /\ NewestPark(parkedRepo[i].thread).entries \subseteq Granted(i)
  <1> DEFINE t == parkedRepo[i].thread
             own == {n \in DOMAIN t : OwnPark(t[n])}
  <1>1. t \in Seq(ParkComment) BY DEF ParkedRecord
  <1>2. NoItem \in ParkItems /\ NoItem.entries = {} BY NoItemType
  <1>3. CASE own = {}
    <2>1. NewestPark(t) = NoItem BY <1>3 DEF NewestPark
    <2> QED BY <1>2, <2>1
  <1>4. CASE own # {}
    <2>1. own \in SUBSET Int /\ IsFiniteSet(own)
      <3>1. DOMAIN t = 1..Len(t) /\ Len(t) \in Nat BY <1>1
      <3>2. IsFiniteSet(1..Len(t)) BY <3>1, FS_Interval
      <3>3. own \subseteq 1..Len(t) BY <3>1
      <3>4. IsFiniteSet(own)
        <4> HIDE DEF own
        <4> QED BY <3>2, <3>3, FS_Subset
      <3> QED BY <3>1, <3>4
    <2> DEFINE n == CHOOSE n \in own : \A m \in own : m <= n
    <2>2. n \in own
      <3> HIDE DEF own
      <3>1. \E m \in own : \A x \in own : x <= m BY <1>4, <2>1, Largest
      <3> QED BY <3>1
    <2>3. t[n] \in ParkComment /\ t[n].mine
      <3>1. n \in DOMAIN t /\ OwnPark(t[n]) BY <2>2
      <3>2. t[n] \in ParkComment
        <4> HIDE DEF t, n
        <4> QED BY <1>1, <3>1
      <3> QED BY <3>1, <3>2 DEF OwnPark
    <2>4. NewestPark(t) = [NoItem EXCEPT !.entries = t[n].entries, !.ignored = t[n].malformed,
                                         !.category = t[n].category]
      BY <1>4 DEF NewestPark
    <2>5. NewestPark(t) \in ParkItems /\ NewestPark(t).entries = t[n].entries
      <3> HIDE DEF n, t
      <3> QED BY <1>2, <2>3, <2>4 DEF ParkItems, ParkComment
    <2>6. t[n].entries \subseteq Granted(i) BY <2>2, <2>3 DEF Granted
    <2> QED BY <2>5, <2>6
  <1> QED BY <1>3, <1>4

LEMMA UnparkCalledKeeps == UnparkInv /\ UnparkCalled => UnparkInv'
  <1> SUFFICES ASSUME UnparkInv, UnparkCalled PROVE UnparkInv'
    OBVIOUS
  <1>1. /\ unparkPc = "rest" /\ unparkPc' \in {"end", "list"} /\ unparkOpt' \in UnparkOptions
        /\ UNCHANGED <<unparkList, unparkTodo, parkItem, grants, unparkHist>>
    BY DEF UnparkCalled, UnparkOptions
  <1>2. parkedRepo' \in [UnparkIssues -> ParkedRecord]
    BY UnparkAssumption DEF UnparkCalled
  <1>3. unparkHist.cleared = {} /\ grants = {}
        /\ \A i \in UnparkIssues : parkItem[i].entries = {}
    BY <1>1 DEF UnparkInv, ClearInv, ItemInv
  <1>4. UnparkTypes' BY <1>1, <1>2 DEF UnparkInv, UnparkTypes, UnparkTypeOK
  <1>5. ItemInv' BY <1>1, <1>3 DEF ItemInv
  <1>6. ClearInv' BY <1>1, <1>3 DEF ClearInv
  <1> QED BY <1>4, <1>5, <1>6 DEF UnparkInv

(* A step that only moves the call on, past what a loop has gone through.  *)
LEMMA UnparkGoesOnKeeps ==
  ASSUME UnparkInv, unparkPc # "rest", unparkPc' \in {"list", "comments", "work", "apply", "end"},
         unparkPc \in {"apply", "end"} => unparkPc' \in {"apply", "end"},
         unparkPc' = "apply" => unparkOpt.apply,
         UNCHANGED <<unparkOpt, parkedRepo, parkItem, grants, unparkHist>>,
         unparkList' \subseteq UnparkIssues, unparkTodo' \subseteq unparkList'
  PROVE  UnparkInv'
  <1>1. UnparkTypes' BY DEF UnparkInv, UnparkTypes, UnparkTypeOK
  <1>2. \A i \in UnparkIssues : Granted(i)' = Granted(i) BY DEF Granted
  <1>3. ItemInv' BY <1>2 DEF UnparkInv, ItemInv
  <1>4. unparkHist.cleared \subseteq UnparkIssues BY DEF UnparkInv, UnparkTypes, UnparkTypeOK
  <1>5. ClearInv'
    <2>1. unparkPc \in {"list", "comments", "work", "apply", "end"}
      BY DEF UnparkInv, UnparkTypes, UnparkTypeOK
    <2>2. /\ unparkPc' = "apply" => unparkOpt'.apply
          /\ unparkPc' \in {"rest", "list", "comments", "work"} => unparkHist'.cleared = {}
          /\ unparkHist'.cleared # {} => unparkOpt'.apply
          /\ unparkHist'.cleared = {} => grants' = {}
          /\ \A i \in unparkHist'.cleared : parkItem'[i].entries \subseteq grants'
      BY <2>1 DEF UnparkInv, ClearInv
    <2>3. \A g \in grants : \E i \in unparkHist.cleared : g \in Granted(i)'
      BY <1>2, <1>4 DEF UnparkInv, ClearInv
    <2> QED BY <2>2, <2>3 DEF ClearInv
  <1> QED BY <1>1, <1>3, <1>5 DEF UnparkInv

LEMMA UnparkStepsKeep ==
  ASSUME UnparkInv,
         \/ UnparkLists \/ CommentsRead \/ WorkRead \/ UnparkEnds
         \/ \E i \in UnparkIssues : WorkUnread(i) \/ Declines(i) \/ LabelStays(i)
  PROVE  UnparkInv'
  <1>1. unparkList \subseteq UnparkIssues /\ unparkTodo \subseteq unparkList
    BY DEF UnparkInv, UnparkTypes, UnparkTypeOK
  <1>2. CASE UnparkLists
    <2>1. Parked \subseteq UnparkIssues BY DEF Parked
    <2>2. /\ unparkPc = "list" /\ unparkPc' \in {"end", "comments"}
          /\ UNCHANGED <<unparkOpt, parkedRepo, parkItem, grants, unparkHist>>
      BY <1>2 DEF UnparkLists, UnparkAt, UnparkLoop
    <2>3. unparkList' \subseteq UnparkIssues /\ unparkTodo' \subseteq unparkList'
      BY <1>1, <1>2, <2>1 DEF UnparkLists, UnparkLoop
    <2> QED BY <2>2, <2>3, UnparkGoesOnKeeps
  <1>3. CASE CommentsRead
    BY <1>1, <1>3, UnparkGoesOnKeeps DEF CommentsRead, UnparkAt, UnparkLoop
  <1>4. CASE WorkRead
    <2>1. /\ unparkPc = "work" /\ unparkPc' = (IF unparkOpt.apply THEN "apply" ELSE "end")
          /\ unparkTodo' \in {unparkList, {}}
          /\ UNCHANGED <<unparkOpt, parkedRepo, unparkList, parkItem, grants, unparkHist>>
      BY <1>4 DEF WorkRead, UnparkAt, UnparkLoop
    <2> QED BY <1>1, <2>1, UnparkGoesOnKeeps
  <1>5. CASE UnparkEnds
    BY <1>1, <1>5, UnparkGoesOnKeeps DEF UnparkEnds, UnparkAt, UnparkLoop
  <1>6. ASSUME NEW i \in UnparkIssues, WorkUnread(i) \/ Declines(i) \/ LabelStays(i)
        PROVE  UnparkInv'
    <2>1. /\ unparkPc \in {"work", "apply"} /\ unparkPc' = unparkPc
          /\ unparkTodo' = unparkTodo \ {i}
          /\ UNCHANGED <<unparkOpt, parkedRepo, unparkList, parkItem, grants, unparkHist>>
      BY <1>6 DEF WorkUnread, Declines, LabelStays, InLoop, UnparkAt, UnparkLoop
    <2>2. unparkPc = "apply" => unparkOpt.apply BY DEF UnparkInv, ClearInv
    <2> QED BY <1>1, <2>1, <2>2, UnparkGoesOnKeeps
  <1> QED BY <1>2, <1>3, <1>4, <1>5, <1>6

LEMMA NextShiftType ==
  ASSUME NEW r \in ParkedRecord, NEW compared \in BOOLEAN, NEW local \in BOOLEAN
  PROVE  NextShift(r, compared, local) \in ParkWorks
  BY DEF NextShift, ParkWorks, WaitsOnPR, ParkedRecord

(* Reading an item, its thread or its branch.                              *)
LEMMA ItemReadKeeps ==
  ASSUME UnparkInv, NEW i \in UnparkIssues, NEW it \in ParkItems,
         unparkPc \in {"comments", "work"}, UNCHANGED unparkPc,
         it.entries \subseteq Granted(i), parkItem' = [parkItem EXCEPT ![i] = it],
         unparkTodo' = unparkTodo \ {i},
         UNCHANGED <<unparkOpt, parkedRepo, unparkList, grants, unparkHist>>
  PROVE  UnparkInv'
  <1>1. parkItem \in [UnparkIssues -> ParkItems] BY DEF UnparkInv, UnparkTypes
  <1>2. parkItem' \in [UnparkIssues -> ParkItems] BY <1>1
  <1>3. UnparkTypes' BY <1>2 DEF UnparkInv, UnparkTypes, UnparkTypeOK, ParkItems
  <1>4. \A j \in UnparkIssues : Granted(j)' = Granted(j) BY DEF Granted
  <1>5. ItemInv'
    <2>1. ASSUME NEW j \in UnparkIssues PROVE parkItem'[j].entries \subseteq Granted(j)
      <3>1. CASE j = i BY <1>1, <3>1
      <3>2. CASE j # i BY <1>1, <3>2 DEF UnparkInv, ItemInv
      <3> QED BY <3>1, <3>2
    <2> QED BY <1>4, <2>1 DEF ItemInv
  <1>6. unparkHist.cleared = {} /\ grants = {} BY DEF UnparkInv, ClearInv
  <1>7. ClearInv' BY <1>6 DEF ClearInv
  <1> QED BY <1>3, <1>5, <1>7 DEF UnparkInv

LEMMA UnparkReadsKeep ==
  ASSUME UnparkInv, NEW i \in UnparkIssues, ReadsParkItem(i) \/ ReadsParkWork(i)
  PROVE  UnparkInv'
  <1>1. /\ unparkPc \in {"comments", "work"} /\ UNCHANGED unparkPc
        /\ unparkTodo' = unparkTodo \ {i}
        /\ UNCHANGED <<unparkOpt, parkedRepo, unparkList, grants, unparkHist>>
    BY DEF ReadsParkItem, ReadsParkWork, InLoop, UnparkAt, UnparkLoop
  <1>2. parkedRepo[i] \in ParkedRecord /\ parkItem[i] \in ParkItems
        /\ parkItem[i].entries \subseteq Granted(i) /\ unparkOpt \in UnparkOptions
        /\ parkItem \in [UnparkIssues -> ParkItems]
    BY <1>1 DEF UnparkInv, UnparkTypes, ItemInv
  <1>3. CASE ReadsParkItem(i)
    <2>1. CASE parkItem' = parkItem
      <3>1. parkItem' = [parkItem EXCEPT ![i] = parkItem[i]] BY <1>2, <2>1
      <3> QED BY <1>1, <1>2, <3>1, ItemReadKeeps
    <2>2. CASE parkItem' = [parkItem EXCEPT ![i] = NewestPark(parkedRepo[i].thread)]
      BY <1>1, <1>2, <2>2, NewestParkIsOwn, ItemReadKeeps
    <2> QED BY <1>3, <2>1, <2>2 DEF ReadsParkItem
  <1>4. CASE ReadsParkWork(i)
    <2>1. PICK compared \in BOOLEAN, local \in {FALSE, LocalRead /\ parkedRepo[i].local} :
              parkItem' = [parkItem EXCEPT ![i].local = local,
                              ![i].work = NextShift(parkedRepo[i], compared, local)]
      BY <1>4 DEF ReadsParkWork
    <2>2. local \in BOOLEAN BY <1>2 DEF ParkedRecord, LocalRead, UnparkOptions
    <2> DEFINE work == NextShift(parkedRepo[i], compared, local)
               it == [parkItem[i] EXCEPT !.local = local, !.work = work]
    <2>3. work \in ParkWorks BY <1>2, <2>2, NextShiftType
    <2>4. it \in ParkItems /\ it.entries = parkItem[i].entries
      <3> HIDE DEF work
      <3> QED BY <1>2, <2>2, <2>3 DEF ParkItems
    <2>5. parkItem' = [parkItem EXCEPT ![i] = it]
      <3> HIDE DEF work
      <3>1. parkItem' = [parkItem EXCEPT ![i].local = local, ![i].work = work] BY <2>1 DEF work
      <3> QED BY <1>2, <3>1
    <2> HIDE DEF it
    <2> QED BY <1>1, <1>2, <2>4, <2>5, ItemReadKeeps
  <1> QED BY <1>3, <1>4

LEMMA ClearsKeeps ==
  ASSUME UnparkInv, NEW i \in UnparkIssues, ClearsLabel(i)
  PROVE  UnparkInv'
  <1>1. /\ unparkPc = "apply" /\ unparkPc' = "apply" /\ unparkTodo' = unparkTodo \ {i}
        /\ parkedRepo' = [parkedRepo EXCEPT ![i].parked = FALSE]
        /\ grants' = grants \cup parkItem[i].entries
        /\ unparkHist' = [unparkHist EXCEPT !.cleared = @ \cup {i}]
        /\ UNCHANGED <<unparkOpt, unparkList, parkItem>>
    BY DEF ClearsLabel, InLoop, UnparkAt, UnparkLoop
  <1>2. /\ parkedRepo \in [UnparkIssues -> ParkedRecord]
        /\ unparkHist \in [cleared : SUBSET UnparkIssues, moves : 0..UnparkMoves]
    BY <1>1 DEF UnparkInv, UnparkTypes
  <1>3. /\ parkedRepo' \in [UnparkIssues -> ParkedRecord]
        /\ \A j \in UnparkIssues : parkedRepo'[j].thread = parkedRepo[j].thread
    BY <1>1, <1>2 DEF ParkedRecord
  <1>4. /\ unparkHist' \in [cleared : SUBSET UnparkIssues, moves : 0..UnparkMoves]
        /\ unparkHist'.cleared = unparkHist.cleared \cup {i}
    BY <1>1, <1>2
  <1>5. \A j \in UnparkIssues : Granted(j)' = Granted(j) BY <1>3 DEF Granted
  <1>6. UnparkTypes' BY <1>1, <1>3, <1>4 DEF UnparkInv, UnparkTypes, UnparkTypeOK
  <1>7. ItemInv' BY <1>1, <1>5 DEF UnparkInv, ItemInv
  <1>8. parkItem[i].entries \subseteq Granted(i) BY <1>1 DEF UnparkInv, ItemInv
  <1>9. ClearInv' BY <1>1, <1>2, <1>4, <1>5, <1>8 DEF UnparkInv, ClearInv
  <1> QED BY <1>6, <1>7, <1>9 DEF UnparkInv

(* What people and shifts do meanwhile changes one thread by a comment.    *)
LEMMA UnparkMoveKeeps ==
  ASSUME UnparkInv, NEW i \in UnparkIssues, NEW r \in ParkedRecord, NEW c \in ParkComment,
         UnparkMove(i, r), r.thread \in {parkedRepo[i].thread, Append(parkedRepo[i].thread, c)}
  PROVE  UnparkInv'
  <1>1. /\ unparkPc \notin {"rest", "end"} /\ unparkHist.moves < UnparkMoves
        /\ parkedRepo' = [parkedRepo EXCEPT ![i] = r]
        /\ unparkHist' = [unparkHist EXCEPT !.moves = @ + 1]
        /\ UNCHANGED <<unparkPc, unparkOpt, unparkList, unparkTodo, parkItem, grants>>
    BY DEF UnparkMove
  <1>2. /\ parkedRepo \in [UnparkIssues -> ParkedRecord]
        /\ unparkHist \in [cleared : SUBSET UnparkIssues, moves : 0..UnparkMoves]
    BY <1>1 DEF UnparkInv, UnparkTypes
  <1>3. parkedRepo' \in [UnparkIssues -> ParkedRecord] /\ parkedRepo'[i] = r
        /\ \A j \in UnparkIssues \ {i} : parkedRepo'[j] = parkedRepo[j]
    BY <1>1, <1>2
  <1>4. /\ unparkHist' \in [cleared : SUBSET UnparkIssues, moves : 0..UnparkMoves]
        /\ unparkHist'.cleared = unparkHist.cleared
    <2>1. unparkHist.moves + 1 \in 0..UnparkMoves BY <1>1, <1>2, UnparkAssumption
    <2> QED BY <1>1, <1>2, <2>1
  <1>5. \A j \in UnparkIssues : Granted(j) \subseteq Granted(j)'
    <2> TAKE j \in UnparkIssues
    <2>1. parkedRepo[j] \in ParkedRecord BY <1>2
    <2>2. parkedRepo'[j].thread \in {parkedRepo[j].thread, Append(parkedRepo[j].thread, c)}
      BY <1>3
    <2> QED BY <2>1, <2>2, GrantedGrows
  <1>6. UnparkTypes' BY <1>1, <1>3, <1>4 DEF UnparkInv, UnparkTypes, UnparkTypeOK
  <1>7. ItemInv' BY <1>1, <1>5 DEF UnparkInv, ItemInv
  <1>8. ClearInv' BY <1>1, <1>2, <1>4, <1>5 DEF UnparkInv, ClearInv
  <1> QED BY <1>6, <1>7, <1>8 DEF UnparkInv

LEMMA UnparkPeopleKeep ==
  ASSUME UnparkInv, NEW i \in UnparkIssues,
         SomeoneForges(i) \/ ShiftParksAgain(i) \/ SomeonePushes(i)
  PROVE  UnparkInv'
  <1>1. unparkPc # "rest"
    BY DEF SomeoneForges, ShiftParksAgain, SomeonePushes, UnparkMove
  <1>2. parkedRepo \in [UnparkIssues -> ParkedRecord] /\ parkedRepo[i] \in ParkedRecord
        /\ parkedRepo[i].thread \in Seq(ParkComment)
    BY <1>1 DEF UnparkInv, UnparkTypes, ParkedRecord
  <1>3. CASE SomeoneForges(i)
    <2> DEFINE c == [mine |-> FALSE, park |-> TRUE, entries |-> {"forged"}, malformed |-> FALSE,
                     category |-> "permission"]
               t == Append(parkedRepo[i].thread, c)
               r == [parkedRepo[i] EXCEPT !.thread = t]
    <2>1. c \in ParkComment
      <3>1. {"forged"} \in SUBSET GrantEntries BY UnparkAssumption
      <3> QED BY <3>1 DEF ParkComment, ParkCategories
    <2>2. t \in Seq(ParkComment)
      <3> HIDE DEF c
      <3> QED BY <1>2, <2>1
    <2>3. r \in ParkedRecord /\ r.thread = t
      <3> HIDE DEF t
      <3> QED BY <1>2, <2>2 DEF ParkedRecord
    <2>4. UnparkMove(i, r) BY <1>3 DEF SomeoneForges
    <2> HIDE DEF c, r
    <2> QED BY <2>1, <2>3, <2>4, UnparkMoveKeeps
  <1>4. CASE ShiftParksAgain(i)
    <2> DEFINE c == [mine |-> TRUE, park |-> TRUE, entries |-> {}, malformed |-> TRUE,
                     category |-> "retries"]
               t == Append(parkedRepo[i].thread, c)
               r == [parkedRepo[i] EXCEPT !.parked = TRUE, !.thread = t]
    <2>1. c \in ParkComment
      <3>1. {} \in SUBSET GrantEntries OBVIOUS
      <3> QED BY <3>1 DEF ParkComment, ParkCategories
    <2>2. t \in Seq(ParkComment)
      <3> HIDE DEF c
      <3> QED BY <1>2, <2>1
    <2>3. r \in ParkedRecord /\ r.thread = t
      <3> HIDE DEF t
      <3> QED BY <1>2, <2>2 DEF ParkedRecord
    <2>4. UnparkMove(i, r) BY <1>4 DEF ShiftParksAgain
    <2> HIDE DEF c, r
    <2> QED BY <2>1, <2>3, <2>4, UnparkMoveKeeps
  <1>5. CASE SomeonePushes(i)
    <2> DEFINE r == [parkedRepo[i] EXCEPT !.ahead = 1]
               c == [mine |-> TRUE, park |-> FALSE, entries |-> {}, malformed |-> FALSE,
                     category |-> "none"]
    <2>1. r \in ParkedRecord /\ r.thread = parkedRepo[i].thread
      BY <1>2 DEF ParkedRecord
    <2>2. UnparkMove(i, r) BY <1>5 DEF SomeonePushes
    <2>3. c \in ParkComment
      <3>1. {} \in SUBSET GrantEntries OBVIOUS
      <3> QED BY <3>1 DEF ParkComment, ParkCategories
    <2> HIDE DEF r, c
    <2> QED BY <2>1, <2>2, <2>3, UnparkMoveKeeps
  <1> QED BY <1>3, <1>4, <1>5

LEMMA UnparkNextInv == UnparkInv /\ [UnparkNext]_unparkVars => UnparkInv'
  <1> SUFFICES ASSUME UnparkInv, [UnparkNext]_unparkVars PROVE UnparkInv'
    OBVIOUS
  <1>1. CASE UNCHANGED unparkVars
    <2>1. \A i \in UnparkIssues : Granted(i)' = Granted(i) BY <1>1 DEF unparkVars, Granted
    <2>2. UnparkTypes' BY <1>1 DEF unparkVars, UnparkInv, UnparkTypes, UnparkTypeOK
    <2>3. ItemInv' BY <1>1, <2>1 DEF unparkVars, UnparkInv, ItemInv
    <2>4. unparkHist.cleared \subseteq UnparkIssues BY DEF UnparkInv, UnparkTypes, UnparkTypeOK
    <2>5. ClearInv' BY <1>1, <2>1, <2>4 DEF unparkVars, UnparkInv, ClearInv
    <2> QED BY <2>2, <2>3, <2>5 DEF UnparkInv
  <1>2. CASE UnparkNext
    BY <1>2, UnparkCalledKeeps, UnparkStepsKeep, UnparkReadsKeep, ClearsKeeps, UnparkPeopleKeep
    DEF UnparkNext
  <1> QED BY <1>1, <1>2

(* The invariant, in every state of every call of the verb.                *)
THEOREM UnparkInductive == UnparkSpec => []UnparkInv
  BY UnparkInitInv, UnparkNextInv, PTL DEF UnparkSpec

(* unpark.go:232, 337: the rerun line grants what the issues whose label   *)
(* came off were told to grant, and nothing a forged comment names.        *)
THEOREM GrantsMatch == UnparkSpec => []GrantsMatchClears
  <1>1. UnparkInv => GrantsMatchClears BY DEF UnparkInv, ClearInv, GrantsMatchClears
  <1> QED BY <1>1, UnparkInductive, PTL

-----------------------------------------------------------------------------
(*                       the model and effort of a run                     *)

PolicySpec == PolicyInit /\ [][PolicyNext]_policyVars

KnobNames == {"flag", "remediation", "size"}
VoiceChoices == [set : BOOLEAN, value : {"", "label"}, epic : BOOLEAN]

(* The knobs are those an operator has; a run is of the leg that is under  *)
(* way, which nothing rereads before the run is over.                      *)
PolicyInv ==
    /\ policyPc \in {"rest", "pickup", "leg"}
    /\ policyIssue = [labels |-> policyIssue.labels, epic |-> policyIssue.epic,
                      size |-> policyIssue.size, knobs |-> policyIssue.knobs]
    /\ policyIssue.knobs \subseteq KnobNames /\ policyIssue.size \in Letter
    /\ policyLeg.choice \in VoiceChoices /\ policyLeg.size \in Letter
    /\ policyRun # NoRunYet => policyPc = "leg"
    /\ StrongestVoice

LEMMA LabelPolicyType ==
  ASSUME NEW labels PROVE LabelPolicy(labels) \in VoiceChoices
  BY DEF LabelPolicy, Unset, VoiceChoices

(* What is picked is what the rule says, for every reason a run has.       *)
LEMMA ChoiceFollowsRule ==
  ASSUME policyIssue.knobs \subseteq KnobNames, policyLeg.choice \in VoiceChoices,
         NEW r \in Remediations \cup Implementations
  PROVE  LET v == Voices(r)
             strongest == IF v \ {"flag"} # {} THEN CHOOSE x \in v : x # "flag"
                          ELSE IF v # {} THEN "flag" ELSE ""
         IN  Choose(r).value =
                IF policyLeg.choice.set THEN policyLeg.choice.value ELSE strongest
  <1> DEFINE v == Voices(r)
             other == IF r \in Remediations THEN "remediation" ELSE "size"
             strongest == IF v \ {"flag"} # {} THEN CHOOSE x \in v : x # "flag"
                          ELSE IF v # {} THEN "flag" ELSE ""
  <1>1. v \subseteq {"flag", other}
    BY DEF Voices, KnobNames
  <1>2. strongest = IF other \in v THEN other ELSE IF "flag" \in v THEN "flag" ELSE ""
    <2>1. other # "flag" OBVIOUS
    <2> HIDE DEF v, other
    <2>2. CASE other \in v
      <3>1. \A x \in v : x # "flag" <=> x = other BY <1>1, <2>1
      <3>2. (CHOOSE x \in v : x # "flag") = other BY <2>2, <3>1
      <3> QED BY <2>1, <2>2, <3>2
    <2>3. CASE other \notin v
      <3>1. v \ {"flag"} = {} BY <1>1, <2>3
      <3> QED BY <1>1, <2>3, <3>1
    <2> QED BY <2>2, <2>3
  <1>3. CASE policyLeg.choice.set
    BY <1>3 DEF Choose, BySize, Pick, VoiceChoices
  <1>4. CASE ~policyLeg.choice.set
    <2>1. CASE r \in Remediations
      <3>1. other = "remediation" BY <2>1
      <3>2. \A k \in {"flag", "remediation"} : k \in v <=> k \in policyIssue.knobs
        BY <2>1 DEF Voices
      <3>3. Choose(r).value = IF other \in v THEN other ELSE IF "flag" \in v THEN "flag" ELSE ""
        BY <1>4, <2>1, <3>1, <3>2 DEF Choose, BySize, Pick
      <3> QED BY <1>2, <1>4, <3>3
    <2>2. CASE r \notin Remediations
      <3>1. other = "size" BY <2>2
      <3>2. /\ "flag" \in v <=> "flag" \in policyIssue.knobs
            /\ "size" \in v <=> ("size" \in policyIssue.knobs /\ policyLeg.size = "hit")
        BY <2>2 DEF Voices
      <3>3. Choose(r).value = IF other \in v THEN other ELSE IF "flag" \in v THEN "flag" ELSE ""
        BY <1>4, <2>2, <3>1, <3>2 DEF Choose, BySize, Pick
      <3> QED BY <1>2, <1>4, <3>3
    <2> QED BY <2>1, <2>2
  <1> QED BY <1>3, <1>4

LEMMA PolicyInitInv == PolicyInit => PolicyInv
  <1> SUFFICES ASSUME PolicyInit PROVE PolicyInv
    OBVIOUS
  <1>1. StrongestVoice BY DEF PolicyInit, StrongestVoice
  <1>2. policyLeg.choice \in VoiceChoices BY DEF PolicyInit, Unset, VoiceChoices
  <1> QED BY <1>1, <1>2 DEF PolicyInit, PolicyInv, Letter

LEMMA PolicyNextInv == PolicyInv /\ [PolicyNext]_policyVars => PolicyInv'
  <1> SUFFICES ASSUME PolicyInv, [PolicyNext]_policyVars PROVE PolicyInv'
    OBVIOUS
  <1>1. CASE IssueComes
    <2>1. policyRun' = NoRunYet BY <1>1 DEF IssueComes, PolicyInv
    <2>2. policyIssue'.knobs \in Knobs /\ policyIssue'.size \in Letter
      BY <1>1 DEF IssueComes
    <2>3. policyIssue'.knobs \subseteq KnobNames BY <2>2, PolicyAssumption DEF KnobNames
    <2>4. policyIssue' = [labels |-> policyIssue'.labels, epic |-> policyIssue'.epic,
                          size |-> policyIssue'.size, knobs |-> policyIssue'.knobs]
      BY <1>1 DEF IssueComes
    <2> QED BY <1>1, <2>1, <2>2, <2>3, <2>4 DEF IssueComes, PolicyInv, StrongestVoice
  <1>2. CASE PicksUp
    <2>1. policyRun' = NoRunYet BY <1>2 DEF PicksUp, PolicyInv
    <2>2. policyLeg'.choice \in VoiceChoices /\ policyLeg'.size \in Letter
      <3>1. Unset \in VoiceChoices BY DEF Unset, VoiceChoices
      <3>2. CASE policyLeg' = [choice |-> Unset, size |-> ""] BY <3>1, <3>2 DEF Letter
      <3>3. CASE policyLeg' = [choice |-> LabelPolicy(policyIssue.labels),
                               size |-> policyIssue.size]
        BY <3>3, LabelPolicyType DEF PolicyInv
      <3>4. CASE policyLeg' = [choice |-> InheritFrom(Unset, LabelPolicy(policyIssue.epic)),
                               size |-> policyIssue.size]
        <4>1. LabelPolicy(policyIssue.epic) \in VoiceChoices BY LabelPolicyType
        <4>2. InheritFrom(Unset, LabelPolicy(policyIssue.epic)) \in VoiceChoices
          BY <3>1, <4>1 DEF InheritFrom, VoiceChoices
        <4> QED BY <3>4, <4>2 DEF PolicyInv
      <3> QED BY <1>2, <3>2, <3>3, <3>4 DEF PicksUp
    <2> QED BY <1>2, <2>1, <2>2 DEF PicksUp, PolicyInv, StrongestVoice
  <1>3. CASE Dispatches
    <2>1. PICK r \in Remediations \cup Implementations :
             policyRun' = [reason |-> r, value |-> Choose(r).value, source |-> Choose(r).source]
      BY <1>3 DEF Dispatches
    <2>2. UNCHANGED <<policyPc, policyIssue, policyLeg>> /\ policyPc = "leg"
      BY <1>3 DEF Dispatches
    <2>3. policyRun'.reason = r /\ policyRun'.value = Choose(r).value BY <2>1
    <2>4. policyIssue.knobs \subseteq KnobNames /\ policyLeg.choice \in VoiceChoices
      BY DEF PolicyInv
    <2>5. StrongestVoice'
      <3>1. Voices(policyRun.reason)' = Voices(r) BY <2>2, <2>3 DEF Voices
      <3>2. LET v == Voices(r)
                strongest == IF v \ {"flag"} # {} THEN CHOOSE x \in v : x # "flag"
                             ELSE IF v # {} THEN "flag" ELSE ""
            IN  policyRun'.value =
                   IF policyLeg.choice.set THEN policyLeg.choice.value ELSE strongest
        BY <2>3, <2>4, ChoiceFollowsRule
      <3> QED BY <2>2, <3>1, <3>2 DEF StrongestVoice
    <2> QED BY <2>2, <2>5 DEF PolicyInv
  <1>4. CASE LegEndsForPolicy
    <2>1. policyRun' = NoRunYet BY <1>4 DEF LegEndsForPolicy
    <2>2. PICK l \in LabelSets : policyIssue' = [policyIssue EXCEPT !.labels = l]
      BY <1>4 DEF LegEndsForPolicy
    <2>3. policyIssue' = [labels |-> l, epic |-> policyIssue.epic, size |-> policyIssue.size,
                          knobs |-> policyIssue.knobs]
      BY <2>2 DEF PolicyInv
    <2> QED BY <1>4, <2>1, <2>3 DEF LegEndsForPolicy, PolicyInv, StrongestVoice
  <1>5. CASE UNCHANGED policyVars
    <2>1. Voices(policyRun.reason)' = Voices(policyRun.reason)
      BY <1>5 DEF policyVars, Voices
    <2>2. StrongestVoice' BY <1>5, <2>1 DEF policyVars, PolicyInv, StrongestVoice
    <2> QED BY <1>5, <2>2 DEF policyVars, PolicyInv
  <1> QED BY <1>1, <1>2, <1>3, <1>4, <1>5 DEF PolicyNext

(* policy.go:207: of what speaks for a run the strongest voice wins, for   *)
(* every mix of the operator's cells and of the labels of an issue and its *)
(* epic, whatever is edited while the issue waits.                         *)
THEOREM StrongestWins == PolicySpec => []StrongestVoice
  <1>1. PolicyInv => StrongestVoice BY DEF PolicyInv
  <1> QED BY <1>1, PolicyInitInv, PolicyNextInv, PTL DEF PolicySpec

-----------------------------------------------------------------------------
(*                    what a call checks before it runs                    *)

PreSpec == PreInit /\ [][PreNext]_preVars

(* The gates a call has been through when it stands at a check.            *)
Passed ==
    CASE prePc = "label" -> {"queue"}
      [] prePc = "declare" -> {"queue", "label"}
      [] prePc = "effort" -> {"queue", "label"}
      [] prePc \in {"versions", "skew"} -> {"queue", "label", "effort"}
      [] prePc = "checked" -> {"queue", "label", "effort", "skew"}
      [] OTHER -> {}
PreSteps ==
    {"rest", "tools", "queue", "label", "declare", "effort", "versions", "skew", "checked"}

(* Of the gates a call has been through, a dry run has noted those that    *)
(* are shut, and a real one has found none of them shut; nothing is known  *)
(* of a version until it is read, and what is read then is the copies'.    *)
PreGoing ==
    /\ preEnd = NothingYet
    /\ Given.dry => preNotes = ShutOut \cap Passed
    /\ ~Given.dry => ShutOut \cap Passed = {}
    /\ prePc \in {"queue", "label", "declare"} => Given.verb = "work"
    /\ prePc = "label" => Given.label # "none"
PreEnded ==
    /\ Given.dry => preEnd.how \in {"io", "empty", "printed"}
    /\ Given.dry /\ preEnd.how \in {"empty", "printed"} => preNotes = ShutOut
    /\ ~Given.dry => preEnd.how \in {"io"} \cup (IF ShutOut = {} THEN {"started"} ELSE ShutOut)
PreInv ==
    /\ prePc \in PreSteps \cup {"end"}
    /\ prePc \in {"rest", "tools"} => preNotes = {} /\ preWrote = {}
    /\ prePc = "rest" => ~Given.dry
    /\ prePc # "rest" =>
          /\ Given.dry \in BOOLEAN /\ Given.binary \in Nat
          /\ IsFiniteSet(preEnv.copies) /\ \A c \in preEnv.copies : c.version \in Nat
    /\ prePc \notin {"skew", "checked", "end"} => preSeen.plugin = NoRelease
    /\ preSeen.plugin \in {NoRelease, InstalledVersion}
    /\ Given.dry => preWrote = {}
    /\ IF prePc = "end" THEN PreEnded ELSE PreGoing

(* What a session loads, said by quantifiers in the property and by counts *)
(* in the code, is one set of copies.                                      *)
LEMMA CandidatesAreOwn ==
  ASSUME IsFiniteSet(preEnv.copies)
  PROVE  Candidates = {c \in Loadable : c.scope = "session"
                                        \/ \A d \in Loadable : d.scope # "session"}
  <1> DEFINE session == {c \in Loadable : c.scope = "session"}
             own == {c \in Loadable : c.scope = "session"
                                      \/ \A d \in Loadable : d.scope # "session"}
  <1>1. IsFiniteSet(Loadable) /\ Cardinality(Loadable) \in Nat
    <2>1. Loadable \subseteq preEnv.copies BY DEF Loadable
    <2> QED BY <2>1, FS_Subset, FS_CardinalityType
  <1>2. Candidates = IF Cardinality(Loadable) > 1 /\ session # {} THEN session ELSE Loadable
    BY DEF Candidates
  <1>3. CASE session = {}
    <2>1. own = Loadable BY <1>3
    <2> QED BY <1>2, <1>3, <2>1
  <1>4. CASE session # {}
    <2>1. own = session BY <1>4
    <2>2. CASE Cardinality(Loadable) > 1 BY <1>2, <1>4, <2>1, <2>2
    <2>3. CASE ~(Cardinality(Loadable) > 1)
      <3>1. Cardinality(Loadable) = 0 \/ Cardinality(Loadable) = 1 BY <1>1, <2>3
      <3>2. Loadable # {} BY <1>4
      <3>3. Cardinality(Loadable) # 0 BY <1>1, <3>2, FS_EmptySet
      <3>4. PICK v : Loadable = {v} BY <1>1, <3>1, <3>3, FS_Singleton
      <3>5. session = Loadable BY <1>4, <3>4
      <3> QED BY <1>2, <2>1, <3>5
    <2> QED BY <2>2, <2>3
  <1> QED BY <1>3, <1>4

(* So the skew gate is shut just when an older copy of ours is loaded.     *)
LEMMA BehindIsOlder ==
  ASSUME IsFiniteSet(preEnv.copies), \A c \in preEnv.copies : c.version \in Nat,
         Given.binary \in Nat, preSeen.plugin \in {NoRelease, InstalledVersion}
  PROVE  (Behind /\ ~Given.ignoreSkew) <=> OlderCopyLoads
  <1>1. CASE preSeen.plugin = NoRelease
    BY <1>1 DEF Behind, Comparable, OlderCopyLoads
  <1>2. CASE preSeen.plugin # NoRelease
    <2> DEFINE versions == {c.version : c \in Candidates}
    <2>1. Candidates \subseteq preEnv.copies BY DEF Candidates, Loadable
    <2>2. Cardinality(versions) = 1 BY <1>2 DEF InstalledVersion
    <2>3. IsFiniteSet(versions)
      <3> DEFINE f == [c \in Candidates |-> c.version]
      <3>1. IsFiniteSet(Candidates) BY <2>1, FS_Subset
      <3>2. f \in Surjection(Candidates, versions) BY DEF Surjection
      <3> HIDE DEF f, versions
      <3> QED BY <3>1, <3>2, FS_Surjection
    <2>4. PICK v : versions = {v}
      <3> HIDE DEF versions
      <3> QED BY <2>2, <2>3, FS_Singleton
    <2>5. (\A c \in Candidates : c.version = v) /\ Candidates # {} BY <2>4
    <2>6. preSeen.plugin = v
      <3>1. InstalledVersion = (CHOOSE c \in Candidates : TRUE).version
        BY <2>2 DEF InstalledVersion
      <3>2. (CHOOSE c \in Candidates : TRUE) \in Candidates BY <2>5
      <3> QED BY <1>2, <2>5, <3>1, <3>2
    <2>7. v \in Nat /\ v # 0 BY <1>2, <2>1, <2>5, <2>6 DEF NoRelease
    <2>8. Behind <=> Given.skill = "ours" /\ Given.binary # NoRelease /\ v < Given.binary
      BY <1>2, <2>6 DEF Behind, Comparable
    <2>9. v < Given.binary <=> v \in 1..Given.binary - 1 BY <2>7
    <2>10. OlderCopyLoads <=>
             /\ Given.skill = "ours" /\ Given.binary # NoRelease /\ ~Given.ignoreSkew
             /\ Loadable # {} /\ \A c \in Candidates : c.version \in 1..Given.binary - 1
      BY <1>2, CandidatesAreOwn DEF OlderCopyLoads, Loadable
    <2>11. Loadable # {} BY <2>5 DEF Candidates
    <2> QED BY <2>5, <2>8, <2>9, <2>10, <2>11
  <1> QED BY <1>1, <1>2

LEMMA PreInitInv == PreInit => PreInv
  <1> SUFFICES ASSUME PreInit PROVE PreInv
    OBVIOUS
  <1>1. Given.dry = FALSE /\ Passed = {} BY DEF PreInit, Given, Passed
  <1>2. PreGoing BY <1>1 DEF PreInit, PreGoing
  <1> QED BY <1>1, <1>2 DEF PreInit, PreInv, PreSteps

(* ShutOut and the copies depend on the settings and on what was read of   *)
(* the versions, Given on the settings alone.                              *)
LEMMA SameSettings ==
  ASSUME UNCHANGED <<preEnv, preSeen>>
  PROVE  ShutOut' = ShutOut /\ InstalledVersion' = InstalledVersion /\ Given' = Given
  BY DEF ShutOut, OlderCopyLoads, InstalledVersion, Candidates, Loadable, Given

(* A gate: shut, it is one that shuts a real run out.                      *)
LEMMA GateKeeps ==
  ASSUME PreInv, prePc \in PreSteps \ {"rest"}, UNCHANGED <<preEnv, preSeen, preWrote>>,
         NEW shut, NEW gate, NEW pc, RefuseOrNote(shut, gate, pc),
         shut <=> gate \in ShutOut,
         prePc' = pc => pc \in PreSteps \ {"rest", "tools", "queue"}
                        /\ ShutOut \cap Passed' = ShutOut \cap (Passed \cup {gate}),
         prePc' = pc => (pc \in {"label", "declare"} => Given.verb = "work")
                        /\ (pc = "label" => Given.label # "none"),
         pc \notin {"skew", "checked", "end"} => preSeen.plugin = NoRelease,
         pc # "end"
  PROVE  PreInv'
  <1>1. ShutOut' = ShutOut /\ InstalledVersion' = InstalledVersion /\ Given' = Given
    BY SameSettings
  <1>2. PreGoing /\ Given.dry \in BOOLEAN BY DEF PreInv, PreSteps
  <1>3. CASE ~shut
    <2>1. prePc' = pc /\ UNCHANGED <<preEnd, preNotes>> BY <1>3 DEF RefuseOrNote, PreGoes
    <2>2. ShutOut \cap Passed' = ShutOut \cap Passed BY <1>3, <2>1
    <2>3. PreGoing' BY <1>1, <1>2, <2>1, <2>2 DEF PreGoing
    <2> QED BY <1>1, <2>1, <2>3 DEF PreInv, PreSteps
  <1>4. CASE shut /\ ~Given.dry
    <2>1. prePc' = "end" /\ preEnd' = [preEnd EXCEPT !.how = gate]
      BY <1>4 DEF RefuseOrNote, Refuses
    <2>2. preEnd'.how = gate BY <1>2, <2>1 DEF PreGoing, NothingYet
    <2>3. PreEnded' BY <1>1, <1>4, <2>2 DEF PreEnded
    <2> QED BY <1>1, <1>4, <2>1, <2>3 DEF PreInv, PreSteps
  <1>5. CASE shut /\ Given.dry
    <2>1. prePc' = pc /\ UNCHANGED preEnd /\ preNotes' = preNotes \cup {gate}
      BY <1>5 DEF RefuseOrNote, PreGoes
    <2>2. preNotes' = ShutOut \cap Passed' BY <1>2, <1>5, <2>1 DEF PreGoing
    <2>3. PreGoing' BY <1>1, <1>2, <1>5, <2>1, <2>2 DEF PreGoing
    <2> QED BY <1>1, <2>1, <2>3 DEF PreInv, PreSteps
  <1> QED BY <1>2, <1>3, <1>4, <1>5

LEMMA PreCalledKeeps == PreInv /\ PreCalled => PreInv'
  <1> SUFFICES ASSUME PreInv, PreCalled PROVE PreInv'
    OBVIOUS
  <1>1. PICK s \in Settings, c \in PluginCopies : preEnv' = [s |-> s, copies |-> c]
    BY DEF PreCalled
  <1>2. /\ prePc = "rest" /\ prePc' = "tools"
        /\ UNCHANGED <<preSeen, preNotes, preWrote, preEnd>>
    BY DEF PreCalled
  <1>3. /\ Given'.dry \in BOOLEAN /\ Given'.binary \in Nat
        /\ IsFiniteSet(preEnv'.copies) /\ \A k \in preEnv'.copies : k.version \in Nat
    BY <1>1, PreAssumption DEF Given
  <1>4. Passed' = {} BY <1>2 DEF Passed
  <1>5. preEnd = NothingYet /\ preNotes = {} /\ preWrote = {} /\ preSeen.plugin = NoRelease
    BY <1>2 DEF PreInv, PreGoing
  <1>6. PreGoing' BY <1>2, <1>4, <1>5 DEF PreGoing
  <1> QED BY <1>2, <1>3, <1>5, <1>6 DEF PreInv, PreSteps

(* A call that ends on an error of git, gh or claude itself.               *)
LEMMA PreFails ==
  ASSUME PreInv, prePc \notin {"rest", "end"}, Refuses("io"),
         UNCHANGED <<preEnv, preSeen, preNotes, preWrote>>
  PROVE  PreInv'
  <1>1. ShutOut' = ShutOut /\ InstalledVersion' = InstalledVersion /\ Given' = Given
    BY SameSettings
  <1>2. preEnd'.how = "io" /\ prePc' = "end"
    BY DEF Refuses, PreInv, PreGoing, NothingYet
  <1>3. PreEnded' BY <1>1, <1>2 DEF PreEnded
  <1> QED BY <1>1, <1>2, <1>3 DEF PreInv

LEMMA PreReadsKeeps == PreInv /\ PreReads => PreInv'
  <1> SUFFICES ASSUME PreInv, PreReads PROVE PreInv'
    OBVIOUS
  <1>1. prePc = "tools" /\ UNCHANGED <<preEnv, preSeen, preNotes>>
    BY DEF PreReads, PreAt
  <1>2. CASE Refuses("io") /\ UNCHANGED preWrote BY <1>1, <1>2, PreFails
  <1>3. CASE /\ PreGoes(IF Given.verb = "work" THEN "queue" ELSE "effort")
             /\ preWrote' \in {preWrote, preWrote \cup (IF Given.dry THEN {} ELSE {"shift log"})}
    <2>1. ShutOut' = ShutOut /\ InstalledVersion' = InstalledVersion /\ Given' = Given
      BY <1>1, SameSettings
    <2>2. preNotes = {} /\ preEnd = NothingYet /\ Passed = {}
      BY <1>1 DEF PreInv, PreGoing, Passed
    <2>3. preEnd' = preEnd /\ prePc' = (IF Given.verb = "work" THEN "queue" ELSE "effort")
      BY <1>3 DEF PreGoes
    <2>4. ShutOut \cap Passed' = {}
      <3>1. CASE Given.verb = "work"
        <4>1. Passed' = {} BY <2>3, <3>1 DEF Passed
        <4> QED BY <4>1
      <3>2. CASE Given.verb # "work"
        <4>1. Passed' = {"queue", "label"} BY <2>3, <3>2 DEF Passed
        <4> QED BY <3>2, <4>1 DEF ShutOut
      <3> QED BY <3>1, <3>2
    <2>5. PreGoing' BY <1>1, <2>1, <2>2, <2>3, <2>4 DEF PreGoing
    <2> QED BY <1>1, <1>3, <2>1, <2>3, <2>5 DEF PreInv, PreSteps
  <1> QED BY <1>2, <1>3 DEF PreReads

LEMMA GatesKeep ==
  ASSUME PreInv, QueueGate \/ LabelGate \/ EffortGate \/ SkewGate PROVE PreInv'
  <1>1. CASE QueueGate
    <2> DEFINE pc == IF Given.label = "none" THEN "declare" ELSE "label"
    <2>1. /\ prePc = "queue" /\ UNCHANGED <<preEnv, preSeen, preWrote>>
          /\ RefuseOrNote(QueueGateShut, "queue", pc)
      BY <1>1 DEF QueueGate, PreAt
    <2>2. Given.verb = "work" /\ preSeen.plugin = NoRelease BY <2>1 DEF PreInv, PreGoing
    <2>3. QueueGateShut <=> "queue" \in ShutOut BY <2>2 DEF QueueGateShut, ShutOut
    <2>4. prePc' = pc => ShutOut \cap Passed' = ShutOut \cap (Passed \cup {"queue"})
      <3>1. Passed = {} BY <2>1 DEF Passed
      <3>2. CASE Given.label = "none"
        <4>1. prePc' = pc => Passed' = {"queue", "label"} BY <3>2 DEF Passed
        <4>2. "label" \notin ShutOut BY <3>2 DEF ShutOut
        <4> QED BY <3>1, <4>1, <4>2
      <3>3. CASE Given.label # "none"
        <4>1. prePc' = pc => Passed' = {"queue"} BY <3>3 DEF Passed
        <4> QED BY <3>1, <4>1
      <3> QED BY <3>2, <3>3
    <2>5. pc \in {"declare", "label"} /\ (pc = "label" => Given.label # "none") OBVIOUS
    <2> HIDE DEF pc
    <2> QED BY <2>1, <2>2, <2>3, <2>4, <2>5, GateKeeps DEF PreSteps
  <1>2. CASE LabelGate
    <2>1. prePc = "label" /\ UNCHANGED <<preEnv, preSeen, preWrote>>
      BY <1>2 DEF LabelGate, PreAt
    <2>2. CASE Refuses("io") /\ UNCHANGED preNotes BY <2>1, <2>2, PreFails
    <2>3. CASE RefuseOrNote(Given.label = "missing", "label", "declare")
      <3>1. Given.verb = "work" /\ preSeen.plugin = NoRelease BY <2>1 DEF PreInv, PreGoing
      <3>2. Given.label = "missing" <=> "label" \in ShutOut BY <3>1 DEF ShutOut
      <3>3. prePc' = "declare" => ShutOut \cap Passed' = ShutOut \cap (Passed \cup {"label"})
        BY <2>1 DEF Passed
      <3> QED BY <2>1, <2>3, <3>1, <3>2, <3>3, GateKeeps DEF PreSteps
    <2> QED BY <1>2, <2>2, <2>3 DEF LabelGate
  <1>3. CASE EffortGate
    <2>1. /\ prePc = "effort" /\ UNCHANGED <<preEnv, preSeen, preWrote>>
          /\ RefuseOrNote(EffortGateShut, "effort", "versions")
      BY <1>3 DEF EffortGate, PreAt
    <2>2. EffortGateShut <=> "effort" \in ShutOut BY DEF EffortGateShut, ShutOut
    <2>3. prePc' = "versions" => ShutOut \cap Passed' = ShutOut \cap (Passed \cup {"effort"})
      BY <2>1 DEF Passed
    <2>4. preSeen.plugin = NoRelease BY <2>1 DEF PreInv
    <2> QED BY <2>1, <2>2, <2>3, <2>4, GateKeeps DEF PreSteps
  <1>4. CASE SkewGate
    <2>1. /\ prePc = "skew" /\ UNCHANGED <<preEnv, preSeen, preWrote>>
          /\ RefuseOrNote(Behind /\ ~Given.ignoreSkew, "skew", "checked")
      BY <1>4 DEF SkewGate, PreAt
    <2>2. Behind /\ ~Given.ignoreSkew <=> OlderCopyLoads
      BY <2>1, BehindIsOlder DEF PreInv
    <2>3. Behind /\ ~Given.ignoreSkew <=> "skew" \in ShutOut BY <2>2 DEF ShutOut
    <2>4. prePc' = "checked" => ShutOut \cap Passed' = ShutOut \cap (Passed \cup {"skew"})
      BY <2>1 DEF Passed
    <2> QED BY <2>1, <2>3, <2>4, GateKeeps DEF PreSteps
  <1> QED BY <1>1, <1>2, <1>3, <1>4

LEMMA DeclaresKeeps == PreInv /\ Declares => PreInv'
  <1> SUFFICES ASSUME PreInv, Declares PROVE PreInv'
    OBVIOUS
  <1>1. /\ prePc = "declare" /\ prePc' = "effort"
        /\ UNCHANGED <<preEnv, preSeen, preNotes, preEnd>>
        /\ preWrote' \in {preWrote, preWrote \cup (IF Given.dry THEN {} ELSE {"label"})}
    BY DEF Declares, PreAt, PreGoes
  <1>2. ShutOut' = ShutOut /\ InstalledVersion' = InstalledVersion /\ Given' = Given
    BY <1>1, SameSettings
  <1>3. Passed' = Passed BY <1>1 DEF Passed
  <1>4. PreGoing' BY <1>1, <1>2, <1>3 DEF PreInv, PreGoing
  <1> QED BY <1>1, <1>2, <1>4 DEF PreInv, PreSteps

(* Reading the versions tells of one gate, which the call comes to next.   *)
LEMMA ReadsVersionsKeeps == PreInv /\ ReadsVersions => PreInv'
  <1> SUFFICES ASSUME PreInv, ReadsVersions PROVE PreInv'
    OBVIOUS
  <1>1. /\ prePc = "versions" /\ prePc' = "skew" /\ UNCHANGED <<preEnv, preNotes, preWrote, preEnd>>
        /\ preSeen'.plugin \in {InstalledVersion, NoRelease}
    BY DEF ReadsVersions
  <1>2. InstalledVersion' = InstalledVersion /\ Given' = Given
    BY <1>1 DEF InstalledVersion, Candidates, Loadable, Given
  <1>3. Passed = {"queue", "label", "effort"} /\ Passed' = Passed BY <1>1 DEF Passed
  <1>4. ShutOut' \cap Passed' = ShutOut \cap Passed BY <1>2, <1>3 DEF ShutOut
  <1>5. PreGoing' BY <1>1, <1>2, <1>4 DEF PreInv, PreGoing
  <1> QED BY <1>1, <1>2, <1>5 DEF PreInv, PreSteps

LEMMA PreStartsKeeps == PreInv /\ (Starts \/ DryRuns) => PreInv'
  <1> SUFFICES ASSUME PreInv, Starts \/ DryRuns PROVE PreInv'
    OBVIOUS
  <1>1. /\ prePc = "checked" /\ prePc' = "end"
        /\ UNCHANGED <<preEnv, preSeen, preNotes, preWrote>>
        /\ preEnd = NothingYet
    BY DEF Starts, DryRuns, PreAt, PreInv, PreGoing
  <1>2. ShutOut' = ShutOut /\ InstalledVersion' = InstalledVersion /\ Given' = Given
    BY <1>1, SameSettings
  <1>3. ShutOut \subseteq Passed BY <1>1 DEF ShutOut, Passed
  <1>4. CASE Starts
    <2>1. ~Given.dry /\ preEnd'.how = "started" BY <1>1, <1>4 DEF Starts, NothingYet
    <2>2. ShutOut = {} BY <1>1, <1>3, <2>1 DEF PreInv, PreGoing
    <2>3. PreEnded' BY <1>2, <2>1, <2>2 DEF PreEnded
    <2> QED BY <1>1, <1>2, <2>3 DEF PreInv
  <1>5. CASE DryRuns
    <2>1. Given.dry /\ preEnd'.how \in {"io", "empty", "printed"}
      BY <1>1, <1>5 DEF DryRuns, NothingYet
    <2>2. preNotes = ShutOut BY <1>1, <1>3, <2>1 DEF PreInv, PreGoing
    <2>3. PreEnded' BY <1>1, <1>2, <2>1, <2>2 DEF PreEnded
    <2> QED BY <1>1, <1>2, <2>3 DEF PreInv
  <1> QED BY <1>4, <1>5

LEMMA PreNextInv == PreInv /\ [PreNext]_preVars => PreInv'
  <1> SUFFICES ASSUME PreInv, [PreNext]_preVars PROVE PreInv'
    OBVIOUS
  <1>1. CASE UNCHANGED preVars
    <2>1. ShutOut' = ShutOut /\ InstalledVersion' = InstalledVersion /\ Given' = Given
      BY <1>1, SameSettings DEF preVars
    <2>2. Passed' = Passed BY <1>1 DEF preVars, Passed
    <2>3. PreGoing => PreGoing' BY <1>1, <2>1, <2>2 DEF preVars, PreGoing
    <2>4. PreEnded => PreEnded' BY <1>1, <2>1 DEF preVars, PreEnded
    <2> QED BY <1>1, <2>1, <2>3, <2>4 DEF preVars, PreInv
  <1>2. CASE PreNext
    BY <1>2, PreCalledKeeps, PreReadsKeeps, GatesKeep, DeclaresKeeps, ReadsVersionsKeeps,
       PreStartsKeeps
    DEF PreNext
  <1> QED BY <1>1, <1>2

(* gate.go:61, preflight.go:30: a dry run writes nothing and has said what *)
(* shuts a real run out; a real run ends at a gate that is shut and starts *)
(* when none is, for every setting and every mix of installed copies.      *)
THEOREM ForeseenByDryRun == PreSpec => []DryRunForesees
  <1>1. PreInv => DryRunForesees
    <2> SUFFICES ASSUME PreInv PROVE DryRunForesees
      OBVIOUS
    <2>1. CASE prePc = "end"
      <3>1. PreEnded /\ (Given.dry => preWrote = {}) BY <2>1 DEF PreInv
      <3>2. CASE Given.dry BY <3>1, <3>2 DEF PreEnded, DryRunForesees
      <3>3. CASE ~Given.dry
        <4>1. ~(preEnd.how \in {"empty", "printed"})
          BY <3>1, <3>3 DEF PreEnded, ShutOut
        <4> QED BY <3>1, <3>3, <4>1 DEF PreEnded, DryRunForesees
      <3> QED BY <3>2, <3>3
    <2>2. CASE prePc # "end"
      <3>1. preEnd.how = "none" BY <2>2 DEF PreInv, PreGoing, NothingYet
      <3> QED BY <2>2, <3>1 DEF PreInv, DryRunForesees
    <2> QED BY <2>1, <2>2
  <1> QED BY <1>1, PreInitInv, PreNextInv, PTL DEF PreSpec

-----------------------------------------------------------------------------
(*                        waiting for a person's reply                     *)

WaitSpec == WaitInit /\ [][WaitNext]_waitVars

UnreadFor == waitHist.unread

WaitTypes ==
    /\ waitPc \in {"start", "rest", "prime", "sleep", "peek", "full", "read", "run"}
    /\ waitMode.one \in BOOLEAN /\ waitLeft \in 0..Poll
    /\ waitHist \in [unread : [Waiting -> 0..Poll + 1], rearmed : BOOLEAN]

(* The deadline is ahead wherever the wait goes back to sleep, and reached *)
(* where the full check is made; what has been read there is not unread,   *)
(* and what the call does not watch never is.                              *)
DeadlineInv ==
    /\ waitPc \in {"prime", "sleep", "peek"} => waitLeft # 0
    /\ waitPc = "read" /\ waitWoke # {} => waitLeft # 0
    /\ waitPc = "full" => waitWoke = {} /\ waitLeft = 0
    /\ waitPc = "read" /\ waitWoke = {} =>
          /\ waitMode.one => waitLeft = Poll
          /\ \A i \in Waiting : i \in Watched \ waitTodo => UnreadFor[i] = 0
    /\ \A i \in Waiting : i \notin Watched \/ waitPc = "start" => UnreadFor[i] = 0

(* A reply has been unread no longer than the time slept since the call    *)
(* set its deadline, unless a deadline was set anew early.                 *)
SinceDeadline ==
    waitHist.rearmed \/
    \A i \in Waiting :
       /\ UnreadFor[i] <= Poll
       /\ waitPc = "rest" => UnreadFor[i] = 0
       /\ waitPc \in {"prime", "sleep", "peek", "full"} \/ (waitPc = "read" /\ waitWoke # {}) =>
             UnreadFor[i] <= Poll - waitLeft

WaitInv == WaitTypes /\ DeadlineInv /\ SinceDeadline

LEMMA WaitInitInv == WaitInit => WaitInv
  <1> SUFFICES ASSUME WaitInit PROVE WaitInv
    OBVIOUS
  <1>1. Poll \in Nat /\ Poll # 0 BY WaitAssumption
  <1>2. Quiet \in [Waiting -> 0..Poll + 1] /\ \A i \in Waiting : Quiet[i] = 0
    BY <1>1 DEF Quiet
  <1>3. waitHist \in [unread : [Waiting -> 0..Poll + 1], rearmed : BOOLEAN] /\ UnreadFor = Quiet
    BY <1>2 DEF WaitInit, UnreadFor
  <1> QED BY <1>1, <1>2, <1>3 DEF WaitInit, WaitInv, WaitTypes, DeadlineInv, SinceDeadline

(* A step that leaves the books on the replies alone.                      *)
LEMMA WaitQuietStep ==
  ASSUME WaitInv, UNCHANGED <<waitMode, waitHist>>, WaitTypes', DeadlineInv',
         waitPc' \in {"prime", "sleep", "peek", "full"} \/ (waitPc' = "read" /\ waitWoke' # {})
            => \/ waitPc = "rest" /\ waitLeft' = Poll
               \/ /\ waitPc \in {"prime", "sleep", "peek", "full"}
                     \/ (waitPc = "read" /\ waitWoke # {})
                  /\ waitLeft' = waitLeft
               \/ \A i \in Waiting : UnreadFor[i] = 0,
         waitPc' = "rest" => waitPc \in {"rest", "start"} \/ \A i \in Waiting : UnreadFor[i] = 0
  PROVE  WaitInv'
  <1>1. UnreadFor' = UnreadFor /\ waitHist'.rearmed = waitHist.rearmed BY DEF UnreadFor
  <1>2. Poll \in Nat BY WaitAssumption
  <1>3. \A i \in Waiting : UnreadFor[i] \in 0..Poll + 1 BY DEF WaitInv, WaitTypes, UnreadFor
  <1>4. waitLeft' \in 0..Poll BY DEF WaitTypes
  <1>5. waitPc = "start" => \A i \in Waiting : UnreadFor[i] = 0 BY DEF WaitInv, DeadlineInv
  <1>6. SinceDeadline'
    <2> SUFFICES ASSUME ~waitHist.rearmed, NEW i \in Waiting
                 PROVE  /\ UnreadFor[i] <= Poll
                        /\ waitPc' = "rest" => UnreadFor[i] = 0
                        /\ waitPc' \in {"prime", "sleep", "peek", "full"}
                              \/ (waitPc' = "read" /\ waitWoke' # {}) =>
                                 UnreadFor[i] <= Poll - waitLeft'
      BY <1>1 DEF SinceDeadline
    <2>1. /\ UnreadFor[i] <= Poll
          /\ waitPc = "rest" => UnreadFor[i] = 0
          /\ waitPc \in {"prime", "sleep", "peek", "full"} \/ (waitPc = "read" /\ waitWoke # {}) =>
                UnreadFor[i] <= Poll - waitLeft
      BY DEF WaitInv, SinceDeadline
    <2>2. waitPc' = "rest" => UnreadFor[i] = 0 BY <1>5, <2>1
    <2> QED BY <1>2, <1>3, <1>4, <2>1, <2>2
  <1> QED BY <1>6 DEF WaitInv

LEMMA WaitCalledKeeps == WaitInv /\ (WaitBegins \/ WaitCalled) => WaitInv'
  <1> SUFFICES ASSUME WaitInv, WaitBegins \/ WaitCalled PROVE WaitInv'
    OBVIOUS
  <1>1. Poll \in Nat /\ Poll # 0 BY WaitAssumption
  <1>2. CASE WaitBegins
    <2>1. /\ waitPc = "start" /\ waitPc' = "rest" /\ waitMode'.one \in BOOLEAN
          /\ UNCHANGED <<waitLeft, waitTodo, waitWoke, waitHist>>
      BY <1>2 DEF WaitBegins
    <2>2. \A i \in Waiting : UnreadFor'[i] = 0
      BY <2>1 DEF WaitInv, DeadlineInv, UnreadFor
    <2>3. WaitTypes' BY <2>1 DEF WaitInv, WaitTypes
    <2>4. DeadlineInv' BY <2>1, <2>2 DEF DeadlineInv
    <2>5. SinceDeadline' BY <1>1, <2>1, <2>2 DEF SinceDeadline
    <2> QED BY <2>3, <2>4, <2>5 DEF WaitInv
  <1>3. CASE WaitCalled
    <2>1. /\ waitPc = "rest" /\ waitPc' \in {"run", "prime"} /\ waitLeft' = Poll
          /\ waitWoke' = {} /\ UNCHANGED <<waitMode, waitHist>>
      BY <1>3 DEF WaitCalled
    <2>2. WaitTypes' BY <1>1, <2>1 DEF WaitInv, WaitTypes
    <2>3. Watched' = Watched /\ UnreadFor' = UnreadFor BY <2>1 DEF Watched, UnreadFor
    <2>4. DeadlineInv' BY <1>1, <2>1, <2>3 DEF WaitInv, DeadlineInv
    <2> QED BY <2>1, <2>2, <2>4, WaitQuietStep
  <1> QED BY <1>2, <1>3

LEMMA WaitLoopsKeep == WaitInv /\ (Primes \/ Peeks \/ FullCheck \/ GoesOn) => WaitInv'
  <1> SUFFICES ASSUME WaitInv, Primes \/ Peeks \/ FullCheck \/ GoesOn PROVE WaitInv'
    OBVIOUS
  <1>1. Poll \in Nat /\ Poll # 0 BY WaitAssumption
  <1>2. CASE Primes
    <2>1. /\ waitPc = "prime" /\ waitPc' \in {"prime", "sleep"}
          /\ UNCHANGED <<waitMode, waitLeft, waitWoke, waitHist>>
      BY <1>2 DEF Primes, WaitStays
    <2>2. WaitTypes' BY <2>1 DEF WaitInv, WaitTypes
    <2>3. Watched' = Watched /\ UnreadFor' = UnreadFor BY <2>1 DEF Watched, UnreadFor
    <2>4. DeadlineInv' BY <2>1, <2>3 DEF WaitInv, DeadlineInv
    <2> QED BY <2>1, <2>2, <2>4, WaitQuietStep
  <1>3. CASE Peeks
    <2>1. /\ waitPc = "peek" /\ UNCHANGED <<waitMode, waitLeft, waitHist>>
          /\ waitPc' \in {"peek", "sleep"} \/ (waitPc' = "read" /\ waitWoke' # {})
      BY <1>3 DEF Peeks, WaitStays
    <2>2. WaitTypes' BY <2>1 DEF WaitInv, WaitTypes
    <2>3. Watched' = Watched /\ UnreadFor' = UnreadFor BY <2>1 DEF Watched, UnreadFor
    <2>4. DeadlineInv' BY <2>1, <2>3 DEF WaitInv, DeadlineInv
    <2> QED BY <2>1, <2>2, <2>4, WaitQuietStep
  <1>4. CASE FullCheck
    <2>1. /\ waitPc = "full" /\ waitPc' = "read" /\ waitTodo' = Watched
          /\ waitLeft' = IF waitMode.one THEN Poll ELSE 0
          /\ UNCHANGED <<waitMode, waitWoke, waitHist>>
      BY <1>4 DEF FullCheck
    <2>2. WaitTypes' BY <1>1, <2>1 DEF WaitInv, WaitTypes
    <2>3. Watched' = Watched /\ UnreadFor' = UnreadFor BY <2>1 DEF Watched, UnreadFor
    <2>4. waitWoke = {} BY <2>1 DEF WaitInv, DeadlineInv
    <2>5. DeadlineInv' BY <2>1, <2>3, <2>4 DEF WaitInv, DeadlineInv
    <2> QED BY <2>1, <2>2, <2>4, <2>5, WaitQuietStep
  <1>5. CASE GoesOn
    <2> DEFINE back == ~waitMode.one /\ (waitWoke = {} \/ ~waitNotes.new)
    <2>1. /\ waitPc = "read" /\ waitTodo = {} /\ waitLeft' = waitLeft
          /\ waitPc' = IF back THEN "rest" ELSE "prime"
          /\ waitHist' = [waitHist EXCEPT !.rearmed = @ \/ (back /\ waitWoke # {})]
          /\ UNCHANGED <<waitMode, waitWoke>>
      BY <1>5 DEF GoesOn, KeepsDeadline
    <2>2. /\ waitHist'.unread = waitHist.unread
          /\ waitHist'.rearmed = (waitHist.rearmed \/ (back /\ waitWoke # {}))
          /\ waitHist' \in [unread : [Waiting -> 0..Poll + 1], rearmed : BOOLEAN]
      <3> HIDE DEF back
      <3>1. (back /\ waitWoke # {}) \in BOOLEAN OBVIOUS
      <3> QED BY <2>1, <3>1 DEF WaitInv, WaitTypes
    <2>3. WaitTypes' BY <2>1, <2>2 DEF WaitInv, WaitTypes
    <2>4. Watched' = Watched /\ UnreadFor' = UnreadFor BY <2>1, <2>2 DEF Watched, UnreadFor
    <2>5. waitWoke = {} => \A i \in Waiting : UnreadFor[i] = 0
      BY <2>1 DEF WaitInv, DeadlineInv
    <2>6. waitPc' = "prime" => waitLeft # 0 /\ (waitWoke = {} => waitLeft = Poll)
      BY <1>1, <2>1 DEF WaitInv, WaitTypes, DeadlineInv
    <2>7. DeadlineInv' BY <2>1, <2>4, <2>6 DEF WaitInv, DeadlineInv
    <2>8. SinceDeadline'
      <3>1. CASE waitHist.rearmed BY <2>2, <3>1 DEF SinceDeadline
      <3>2. CASE waitWoke = {}
        BY <1>1, <2>1, <2>3, <2>4, <2>5, <3>2 DEF SinceDeadline, WaitTypes
      <3>3. CASE waitWoke # {} /\ ~waitHist.rearmed
        <4>1. CASE back BY <2>2, <3>3, <4>1 DEF SinceDeadline
        <4>2. CASE ~back
          <5>1. \A i \in Waiting : UnreadFor[i] <= Poll /\ UnreadFor[i] <= Poll - waitLeft
            BY <2>1, <3>3 DEF WaitInv, SinceDeadline
          <5> QED BY <2>1, <2>4, <4>2, <5>1 DEF SinceDeadline
        <4> QED BY <4>1, <4>2
      <3> QED BY <3>1, <3>2, <3>3
    <2> QED BY <2>3, <2>7, <2>8 DEF WaitInv
  <1> QED BY <1>2, <1>3, <1>4, <1>5

(* Sleeping brings the deadline nearer by what it adds to each reply.      *)
LEMMA SleepsKeeps == WaitInv /\ Sleeps => WaitInv'
  <1> SUFFICES ASSUME WaitInv, Sleeps PROVE WaitInv'
    OBVIOUS
  <1> DEFINE n == IF Peeking THEN 1 ELSE waitLeft
             Added(i) == IF threads[i].replied /\ i \in Watched
                         THEN IF UnreadFor[i] + n > Poll THEN Poll + 1 ELSE UnreadFor[i] + n ELSE 0
  <1>1. Poll \in Nat /\ Poll # 0 BY WaitAssumption
  <1>2. /\ waitPc = "sleep" /\ waitWoke' = {} /\ waitLeft' = waitLeft - n
        /\ UNCHANGED waitMode
        /\ waitPc' = IF waitLeft = n THEN "full" ELSE "peek"
    BY DEF Sleeps, WaitStays
  <1>3. waitHist' = [waitHist EXCEPT !.unread = [i \in Waiting |-> Added(i)]]
    BY DEF Sleeps, Slept, UnreadFor
  <1>4. /\ waitHist \in [unread : [Waiting -> 0..Poll + 1], rearmed : BOOLEAN]
        /\ waitLeft \in 1..Poll /\ \A i \in Waiting : UnreadFor[i] \in 0..Poll + 1
    BY <1>1, <1>2 DEF WaitInv, WaitTypes, DeadlineInv, UnreadFor
  <1>5. n \in 1..waitLeft BY <1>4
  <1> HIDE DEF n
  <1>6. \A i \in Waiting : /\ Added(i) \in 0..Poll + 1
                           /\ i \notin Watched => Added(i) = 0
                           /\ Added(i) = 0 \/ Added(i) <= UnreadFor[i] + n
    BY <1>1, <1>4, <1>5
  <1>7. /\ \A i \in Waiting : UnreadFor'[i] = Added(i)
        /\ waitHist' \in [unread : [Waiting -> 0..Poll + 1], rearmed : BOOLEAN]
        /\ waitHist'.rearmed = waitHist.rearmed
    <2> HIDE DEF Added
    <2>1. [i \in Waiting |-> Added(i)] \in [Waiting -> 0..Poll + 1] BY <1>6
    <2>2. UnreadFor' = [i \in Waiting |-> Added(i)] BY <1>3, <1>4 DEF UnreadFor
    <2> QED BY <1>3, <1>4, <2>1, <2>2
  <1> HIDE DEF Added
  <1>8. WaitTypes' BY <1>1, <1>2, <1>4, <1>5, <1>7 DEF WaitInv, WaitTypes
  <1>9. Watched' = Watched BY <1>2 DEF Watched
  <1>10. DeadlineInv' BY <1>2, <1>4, <1>5, <1>6, <1>7, <1>9 DEF DeadlineInv
  <1>11. SinceDeadline'
    <2> SUFFICES ASSUME ~waitHist.rearmed, NEW i \in Waiting
                 PROVE  UnreadFor'[i] <= Poll /\ UnreadFor'[i] <= Poll - waitLeft'
      BY <1>2, <1>7 DEF SinceDeadline
    <2>1. UnreadFor[i] <= Poll - waitLeft BY <1>2 DEF WaitInv, SinceDeadline
    <2> QED BY <1>1, <1>2, <1>4, <1>5, <1>6, <1>7, <2>1
  <1> QED BY <1>8, <1>10, <1>11 DEF WaitInv

(* Reading a thread can only take a reply off the books.                   *)
LEMMA WaitReadsKeep == WaitInv /\ Reads => WaitInv'
  <1> SUFFICES ASSUME WaitInv, Reads PROVE WaitInv'
    OBVIOUS
  <1>1. Poll \in Nat /\ Poll # 0 BY WaitAssumption
  <1> DEFINE i == First(waitTodo)
             now == IF waitWoke = {} \/ ~threads[i].replied THEN 0 ELSE UnreadFor[i]
  <1>2. /\ waitPc = "read" /\ waitPc' \in {"read", "run"} /\ waitTodo' = waitTodo \ {i}
        /\ waitHist' = [waitHist EXCEPT !.unread[i] = now]
        /\ UNCHANGED <<waitMode, waitLeft, waitWoke>>
    BY DEF Reads, Unanswered, UnreadFor
  <1>3. waitHist \in [unread : [Waiting -> 0..Poll + 1], rearmed : BOOLEAN]
    BY DEF WaitInv, WaitTypes
  <1>4. waitWoke = {} => now = 0 OBVIOUS
  <1>5. now = 0 \/ now = UnreadFor[i] OBVIOUS
  <1> HIDE DEF i, now
  <1>6. /\ UnreadFor' = [UnreadFor EXCEPT ![i] = now] /\ waitHist'.rearmed = waitHist.rearmed
        /\ waitHist' = [unread |-> UnreadFor', rearmed |-> waitHist.rearmed]
    BY <1>2, <1>3 DEF UnreadFor
  <1>7. UnreadFor \in [Waiting -> 0..Poll + 1] BY <1>3 DEF UnreadFor
  <1>8. \A j \in Waiting : UnreadFor'[j] = IF j = i THEN now ELSE UnreadFor[j] BY <1>6, <1>7
  <1>9. \A j \in Waiting : UnreadFor'[j] = 0 \/ UnreadFor'[j] = UnreadFor[j] BY <1>5, <1>8
  <1>10. UnreadFor' \in [Waiting -> 0..Poll + 1]
    <2>1. DOMAIN UnreadFor' = Waiting /\ UnreadFor' = [j \in Waiting |-> UnreadFor'[j]] BY <1>6, <1>7
    <2>2. \A j \in Waiting : UnreadFor'[j] \in 0..Poll + 1 BY <1>1, <1>7, <1>9
    <2> QED BY <2>1, <2>2
  <1>11. WaitTypes' BY <1>2, <1>3, <1>6, <1>10 DEF WaitInv, WaitTypes
  <1>12. Watched' = Watched BY <1>2 DEF Watched
  <1>13. DeadlineInv'
    <2>1. waitWoke = {} => \A j \in Waiting : j \in Watched \ waitTodo' => UnreadFor'[j] = 0
      BY <1>2, <1>4, <1>8, <1>9 DEF WaitInv, DeadlineInv
    <2> QED BY <1>2, <1>9, <1>12, <2>1 DEF WaitInv, DeadlineInv
  <1>14. SinceDeadline'
    <2> SUFFICES ASSUME ~waitHist.rearmed, NEW j \in Waiting
                 PROVE  UnreadFor'[j] <= Poll /\ (waitWoke # {} => UnreadFor'[j] <= Poll - waitLeft)
      BY <1>2, <1>6 DEF SinceDeadline
    <2>1. UnreadFor[j] <= Poll /\ (waitWoke # {} => UnreadFor[j] <= Poll - waitLeft)
      BY <1>2 DEF WaitInv, SinceDeadline
    <2>2. waitLeft \in 0..Poll BY DEF WaitInv, WaitTypes
    <2> QED BY <1>1, <1>9, <2>1, <2>2
  <1> QED BY <1>11, <1>13, <1>14 DEF WaitInv

LEMMA FoldsKeeps == WaitInv /\ RunFolds => WaitInv'
  <1> SUFFICES ASSUME WaitInv, RunFolds PROVE WaitInv'
    OBVIOUS
  <1>1. Poll \in Nat /\ Poll # 0 BY WaitAssumption
  <1>2. /\ waitPc = "run" /\ waitPc' = "rest" /\ UNCHANGED <<waitMode, waitLeft, waitWoke>>
        /\ waitHist' = [waitHist EXCEPT !.unread = Quiet]
    BY DEF RunFolds
  <1>3. Quiet \in [Waiting -> 0..Poll + 1] /\ \A i \in Waiting : Quiet[i] = 0
    BY <1>1 DEF Quiet
  <1>4. /\ waitHist' \in [unread : [Waiting -> 0..Poll + 1], rearmed : BOOLEAN]
        /\ UnreadFor' = Quiet
    <2> HIDE DEF Quiet
    <2> QED BY <1>2, <1>3 DEF WaitInv, WaitTypes, UnreadFor
  <1>5. WaitTypes' BY <1>2, <1>4 DEF WaitInv, WaitTypes
  <1>6. DeadlineInv' BY <1>2, <1>3, <1>4 DEF DeadlineInv
  <1>7. SinceDeadline' BY <1>1, <1>2, <1>3, <1>4 DEF SinceDeadline
  <1> QED BY <1>5, <1>6, <1>7 DEF WaitInv

(* What happens on the threads moves nothing of the wait itself.           *)
LEMMA WaitSame ==
  ASSUME WaitInv, UNCHANGED <<waitPc, waitMode, waitLeft, waitTodo, waitWoke, waitHist>>
  PROVE  WaitInv'
  <1>1. Watched' = Watched /\ UnreadFor' = UnreadFor BY DEF Watched, UnreadFor
  <1>2. WaitTypes' BY DEF WaitInv, WaitTypes
  <1>3. DeadlineInv' BY <1>1 DEF WaitInv, DeadlineInv
  <1>4. SinceDeadline' BY <1>1 DEF WaitInv, SinceDeadline
  <1> QED BY <1>2, <1>3, <1>4 DEF WaitInv

LEMMA WaitNextInv == WaitInv /\ [WaitNext]_waitVars => WaitInv'
  <1> SUFFICES ASSUME WaitInv, [WaitNext]_waitVars PROVE WaitInv'
    OBVIOUS
  <1>1. CASE PersonReplies \/ BotComments \/ PersonEditsIssue \/ UNCHANGED waitVars
    <2>1. UNCHANGED <<waitPc, waitMode, waitLeft, waitTodo, waitWoke, waitHist>>
      BY <1>1 DEF PersonReplies, BotComments, PersonEditsIssue, ThreadMoves, waitVars
    <2> QED BY <2>1, WaitSame
  <1>2. CASE /\ WaitNext /\ ~PersonReplies /\ ~BotComments /\ ~PersonEditsIssue
    BY <1>2, WaitCalledKeeps, WaitLoopsKeep, SleepsKeeps, WaitReadsKeep, FoldsKeeps DEF WaitNext
  <1> QED BY <1>1, <1>2

(* The invariant, in every state of every wait.                            *)
THEOREM WaitInductive == WaitSpec => []WaitInv
  BY WaitInitInv, WaitNextInv, PTL DEF WaitSpec

(* peek.go:86, replywait.go:99: a reply its free checks missed is found by *)
(* the full check within one poll of the call that set the deadline, for   *)
(* every poll, set of threads and mode of the wait.                        *)
THEOREM OnePollAtMost == WaitSpec => []ReplyWaitsOnePoll
  <1>1. WaitInv => ReplyWaitsOnePoll
    BY DEF WaitInv, WaitTypes, SinceDeadline, UnreadFor, ReplyWaitsOnePoll
  <1> QED BY <1>1, WaitInductive, PTL

-----------------------------------------------------------------------------
(*                           one design request                            *)

DesSpec == DesignInit /\ [][DesignNext]_desVars

DesLabels == {"design", "needs-human", "proposed", "awaiting-answer"}
DesThreads ==
    [state : {"none", "OPEN", "CLOSED"}, labels : SUBSET DesLabels, container : BOOLEAN,
     brief : BOOLEAN, pr : {"none", "plan", "code"}, merged : BOOLEAN]
DesLooked == {"labels", "pickup", "run", "answer", "supervise"}

DesTypes ==
    /\ desPc \in {"rest", "file", "declare", "check", "look", "end"} \cup DesLooked
    /\ desCall \in [issue : Requests \cup {0}, wait : BOOLEAN, dry : BOOLEAN, again : BOOLEAN]
    /\ desPc \in {"check", "look"} \cup DesLooked => desCall.issue # 0
    /\ desHub \in [Requests -> DesThreads] /\ desShift \in Requests \cup {0}
    /\ desHist \in [calls : Nat, moves : Nat, late : SUBSET Requests, hands : SUBSET Requests]

(* Nobody works what is not filed; a brief nobody relabelled is labelled,  *)
(* not in the shift's hands and not code; and code on an issue that has    *)
(* the label, or whose branch the call has looked at, came too late to be  *)
(* seen or after a person moved the label.                                 *)
FiledInv ==
    \A n \in Requests : desHub[n].state = "none" =>
        desHub[n].pr = "none" /\ desShift # n /\ desCall.issue # n
BriefInv ==
    \A n \in Requests : desHub[n].brief /\ n \notin desHist.hands =>
        "design" \in desHub[n].labels /\ desHub[n].pr # "code" /\ desShift # n
CodeInv ==
    \A n \in Requests :
        desHub[n].pr = "code"
        /\ ("design" \in desHub[n].labels \/ (desCall.issue = n /\ desPc \in DesLooked)) =>
           n \in desHist.late \cup desHist.hands

DesInv == DesTypes /\ FiledInv /\ BriefInv /\ CodeInv

LEMMA DesInitInv == DesignInit => DesInv
  <1> SUFFICES ASSUME DesignInit PROVE DesInv
    OBVIOUS
  <1>1. \A n \in Requests : desHub[n] \in {Unfiled, [Unfiled EXCEPT !.state = "OPEN"]}
    BY DEF DesignInit
  <1>2. /\ Unfiled \in DesThreads /\ [Unfiled EXCEPT !.state = "OPEN"] \in DesThreads
        /\ \A t \in {Unfiled, [Unfiled EXCEPT !.state = "OPEN"]} : t.pr = "none" /\ ~t.brief
    <2> DEFINE filed == [Unfiled EXCEPT !.state = "OPEN"]
    <2>1. {} \in SUBSET DesLabels OBVIOUS
    <2>2. Unfiled \in DesThreads /\ Unfiled.pr = "none" /\ Unfiled.brief = FALSE
      BY <2>1 DEF Unfiled, DesThreads
    <2>3. filed \in DesThreads /\ filed.pr = "none" /\ filed.brief = FALSE
      BY <2>2 DEF DesThreads
    <2> QED BY <2>2, <2>3
  <1>3. desHub \in [Requests -> DesThreads] BY <1>2 DEF DesignInit
  <1>4. desShift = 0 /\ desCall.issue = 0 /\ \A n \in Requests : n # 0
    BY DesignAssumption DEF DesignInit
  <1>5. DesTypes
    <2>1. desHist \in [calls : Nat, moves : Nat, late : SUBSET Requests, hands : SUBSET Requests]
      <3>1. {} \in SUBSET Requests OBVIOUS
      <3> QED BY <3>1 DEF DesignInit
    <2> QED BY <1>3, <2>1 DEF DesignInit, DesTypes, DesLooked
  <1> QED BY <1>1, <1>2, <1>4, <1>5 DEF DesInv, FiledInv, BriefInv, CodeInv

(* A step that changes one thread at most: what the invariant asks is      *)
(* asked of that thread, and of the call when it comes past its look.      *)
LEMMA DesThreadStep ==
  ASSUME DesInv, DesTypes', NEW n \in Requests, NEW t \in DesThreads,
         desHub' = [desHub EXCEPT ![n] = t], t.state # "none",
         desShift' \in {desShift, 0}, desCall'.issue \in {desCall.issue, n, 0},
         desHist.late \subseteq desHist'.late, desHist.hands \subseteq desHist'.hands,
         desPc' \in DesLooked => desCall'.issue = desCall.issue /\ desPc \in DesLooked,
         t.brief /\ n \notin desHist'.hands =>
            "design" \in t.labels /\ t.pr # "code" /\ desShift' # n,
         t.pr = "code" /\ ("design" \in t.labels \/ (desCall'.issue = n /\ desPc' \in DesLooked))
            => n \in desHist'.late \cup desHist'.hands
  PROVE  DesInv'
  <1>1. /\ desHub'[n] = t /\ \A m \in Requests \ {n} : desHub'[m] = desHub[m]
    BY DEF DesInv, DesTypes
  <1>2. \A m \in Requests : m # 0 BY DesignAssumption
  <1>3. FiledInv' BY <1>1, <1>2 DEF DesInv, FiledInv
  <1>4. BriefInv' BY <1>1, <1>2 DEF DesInv, BriefInv
  <1>5. CodeInv' BY <1>1 DEF DesInv, CodeInv
  <1> QED BY <1>3, <1>4, <1>5 DEF DesInv

(* A step that changes none.                                               *)
LEMMA DesCallStep ==
  ASSUME DesInv, DesTypes', UNCHANGED desHub,
         desShift' \in {desShift, 0},
         desCall'.issue \in {desCall.issue, 0} \cup {n \in Requests : desHub[n].state # "none"},
         desHist'.late = desHist.late, desHist'.hands = desHist.hands,
         desPc' \in DesLooked =>
            desCall' = desCall /\ (desPc \in DesLooked \/ "design" \in DesThread.labels
                                   \/ DesThread.pr = "none")
  PROVE  DesInv'
  <1>1. \A m \in Requests : m # 0 BY DesignAssumption
  <1>2. FiledInv' BY <1>1 DEF DesInv, FiledInv
  <1>3. BriefInv' BY <1>1 DEF DesInv, BriefInv
  <1>4. CodeInv' BY DEF DesInv, CodeInv, DesThread
  <1> QED BY <1>2, <1>3, <1>4 DEF DesInv

LEMMA DesCallKeeps ==
  ASSUME DesInv,
         \/ DesignCalled \/ DesignNotFiled \/ DesignChecks \/ DesignLooks \/ DesignPicksUp
         \/ DesignAnswered \/ DesignHandsOff \/ DesignStops \/ ShiftLeaves
  PROVE  DesInv'
  <1>1. CASE DesignCalled
    <2>1. PICK n \in {0} \cup {i \in Requests : desHub[i].state # "none"}, wait, dry \in BOOLEAN :
             /\ desCall' = [issue |-> n, wait |-> wait, dry |-> dry, again |-> FALSE]
             /\ desPc' = IF n # 0 THEN "check" ELSE IF dry THEN "end" ELSE "file"
      BY <1>1 DEF DesignCalled, DesGoes
    <2>2. desHist' = [desHist EXCEPT !.calls = @ + 1] /\ UNCHANGED <<desHub, desRepo, desShift>>
      BY <1>1 DEF DesignCalled
    <2>3. /\ desHist' \in [calls : Nat, moves : Nat, late : SUBSET Requests,
                           hands : SUBSET Requests]
          /\ desHist'.late = desHist.late /\ desHist'.hands = desHist.hands
      BY <2>2 DEF DesInv, DesTypes
    <2>4. DesTypes' BY <2>1, <2>2, <2>3 DEF DesInv, DesTypes, DesLooked
    <2> QED BY <2>1, <2>2, <2>3, <2>4, DesCallStep DEF DesLooked
  <1>2. CASE DesignNotFiled \/ DesignHandsOff \/ DesignStops
    <2>1. desPc' \in {"end", "declare"} /\ UNCHANGED <<desCall, desHub, desRepo, desShift, desHist>>
      BY <1>2 DEF DesignNotFiled, DesignHandsOff, DesignStops, DesEnds, DesGoes
    <2>2. DesTypes' BY <2>1 DEF DesInv, DesTypes, DesLooked
    <2> QED BY <2>1, <2>2, DesCallStep DEF DesLooked
  <1>3. CASE DesignChecks \/ DesignLooks
    <2>1. /\ UNCHANGED <<desCall, desHub, desRepo, desShift, desHist>>
          /\ desPc \in {"check", "look"} /\ desPc' \in {"end", "labels", "look"}
          /\ desPc' = "labels" => "design" \in DesThread.labels \/ DesThread.pr = "none"
      BY <1>3 DEF DesignChecks, DesignLooks, DesGoes, DesAt, RefusesCode
    <2>2. DesTypes' BY <2>1 DEF DesInv, DesTypes, DesLooked
    <2> QED BY <2>1, <2>2, DesCallStep DEF DesLooked
  <1>4. CASE DesignPicksUp \/ DesignAnswered
    <2>1. /\ UNCHANGED <<desCall, desHub, desRepo, desShift, desHist>>
          /\ desPc \in DesLooked /\ desPc' \in DesLooked
      BY <1>4 DEF DesignPicksUp, DesignAnswered, DesGoes, DesAt, DesLooked
    <2>2. DesTypes' BY <2>1 DEF DesInv, DesTypes
    <2> QED BY <2>1, <2>2, DesCallStep
  <1>5. CASE ShiftLeaves
    <2>1. desShift' = 0 /\ UNCHANGED <<desPc, desCall, desHub, desRepo, desHist>>
      BY <1>5 DEF ShiftLeaves
    <2>2. DesTypes' BY <2>1 DEF DesInv, DesTypes
    <2> QED BY <2>1, <2>2, DesCallStep
  <1> QED BY <1>1, <1>2, <1>3, <1>4, <1>5

LEMMA DesDeclaresKeeps == DesInv /\ DesignDeclares => DesInv'
  <1> SUFFICES ASSUME DesInv, DesignDeclares PROVE DesInv'
    OBVIOUS
  <1>1. /\ UNCHANGED <<desHub, desShift, desHist>> /\ desPc' \in {"file", "end"}
        /\ desCall' \in {desCall, [desCall EXCEPT !.again = TRUE]}
    BY DEF DesignDeclares, DesGoes
  <1>2. /\ desCall' \in [issue : Requests \cup {0}, wait : BOOLEAN, dry : BOOLEAN, again : BOOLEAN]
        /\ desCall'.issue = desCall.issue
    BY <1>1 DEF DesInv, DesTypes
  <1>3. DesTypes' BY <1>1, <1>2 DEF DesInv, DesTypes, DesLooked
  <1> QED BY <1>1, <1>2, <1>3, DesCallStep DEF DesLooked

(* The brief is filed with its label in the one create.                    *)
LEMMA DesFilesKeeps == DesInv /\ DesignFiles => DesInv'
  <1> SUFFICES ASSUME DesInv, DesignFiles PROVE DesInv'
    OBVIOUS
  <1>1. PICK n \in Requests :
           /\ desHub[n].state = "none" /\ Creates(n)
           /\ \/ desPc' = "check" /\ desCall' = [desCall EXCEPT !.issue = n]
              \/ desPc' \in {"end", "declare"} /\ UNCHANGED desCall
    BY DEF DesignFiles, DesGoes
  <1>2. UNCHANGED <<desRepo, desShift, desHist>> BY DEF DesignFiles
  <1> DEFINE t == [desHub[n] EXCEPT !.state = "OPEN", !.labels = {"design"}, !.brief = TRUE]
  <1>3. desHub[n] \in DesThreads BY DEF DesInv, DesTypes
  <1>4. {"design"} \in SUBSET DesLabels BY DEF DesLabels
  <1>5. /\ t \in DesThreads /\ t.state = "OPEN" /\ t.labels = {"design"} /\ t.pr = desHub[n].pr
    BY <1>3, <1>4 DEF DesThreads
  <1>6. desHub' = [desHub EXCEPT ![n] = t] BY <1>1 DEF Creates, BriefLabels
  <1> HIDE DEF t
  <1>7. t.pr = "none" /\ desShift # n BY <1>1, <1>5 DEF DesInv, FiledInv
  <1>8. desHub' \in [Requests -> DesThreads] BY <1>5, <1>6 DEF DesInv, DesTypes
  <1>9. /\ desCall' \in [issue : Requests \cup {0}, wait : BOOLEAN, dry : BOOLEAN, again : BOOLEAN]
        /\ desCall'.issue \in {desCall.issue, n}
        /\ desPc' = "check" => desCall'.issue # 0
    BY <1>1, DesignAssumption DEF DesInv, DesTypes
  <1>10. DesTypes' BY <1>1, <1>2, <1>8, <1>9 DEF DesInv, DesTypes, DesLooked
  <1> QED BY <1>1, <1>2, <1>5, <1>6, <1>7, <1>9, <1>10, DesThreadStep DEF DesLooked

(* The call's own writes, to the thread it is about and past its look: no  *)
(* label but the question's comes off, and what it opens is a plan.        *)
LEMMA DesOwnWrite ==
  ASSUME DesInv, DesTypes', desPc \in DesLooked, UNCHANGED <<desCall, desShift, desHist>>,
         NEW t \in DesThreads, desHub' = [desHub EXCEPT ![desCall.issue] = t],
         DesThread.labels \ {"awaiting-answer"} \subseteq t.labels,
         t.pr \in {DesThread.pr, "plan"},
         t.brief = DesThread.brief, t.state # "none"
  PROVE  DesInv'
  <1>1. desCall.issue \in Requests BY DEF DesInv, DesTypes
  <1>2. t.brief /\ desCall.issue \notin desHist'.hands =>
           "design" \in t.labels /\ t.pr # "code" /\ desShift' # desCall.issue
    BY <1>1 DEF DesInv, BriefInv, DesThread
  <1>3. t.pr = "code" => desCall.issue \in desHist'.late \cup desHist'.hands
    BY <1>1 DEF DesInv, CodeInv, DesThread
  <1> QED BY <1>1, <1>2, <1>3, DesThreadStep

LEMMA DesWritesKeep ==
  DesInv /\ (DesignLabels \/ DesignRunEnds \/ DesignRunClears \/ DesignParks) => DesInv'
  <1> SUFFICES ASSUME DesInv, DesignLabels \/ DesignRunEnds \/ DesignRunClears \/ DesignParks
               PROVE  DesInv'
    OBVIOUS
  <1>1. /\ desPc \in DesLooked /\ desPc' \in DesLooked \cup {"end"}
        /\ UNCHANGED <<desCall, desShift, desHist>>
    BY DEF DesignLabels, DesignRunEnds, DesignRunClears, DesignParks, DesAt, DesGoes, DesLooked
  <1>2. desCall.issue \in Requests /\ DesThread \in DesThreads
    BY <1>1 DEF DesInv, DesTypes, DesThread
  <1>3. DesThread.state # "none" BY <1>2 DEF DesInv, FiledInv, DesThread
  <1> DEFINE labelled(l) == [DesThread EXCEPT !.labels = @ \cup {l}]
             plan == [DesThread EXCEPT !.pr = "plan"]
             closed == [DesThread EXCEPT !.state = "CLOSED"]
             cleared == [DesThread EXCEPT !.labels = @ \ {"awaiting-answer"}]
  <1>4. \/ UNCHANGED desHub
        \/ \E l \in DesLabels : desHub' = [desHub EXCEPT ![desCall.issue] = labelled(l)]
        \/ desHub' = [desHub EXCEPT ![desCall.issue] = plan]
        \/ desHub' = [desHub EXCEPT ![desCall.issue] = closed]
        \/ desHub' = [desHub EXCEPT ![desCall.issue] = cleared]
    <2>1. CASE DesignLabels
      <3>1. CASE desHub' = [desHub EXCEPT ![desCall.issue].labels = @ \cup {"design"}]
        <4>1. desHub' = [desHub EXCEPT ![desCall.issue] = labelled("design")]
          BY <3>1 DEF DesThread
        <4> QED BY <4>1 DEF DesLabels
      <3> QED BY <2>1, <3>1 DEF DesignLabels
    <2>2. CASE DesignRunEnds \/ DesignRunClears \/ DesignParks
      BY <2>2 DEF DesignRunEnds, DesignRunClears, DesignParks, Thread, DesLabels
    <2> QED BY <2>1, <2>2
  <1>5. \A l \in DesLabels : labelled(l) \in DesThreads /\ labelled(l).labels = DesThread.labels \cup {l}
                             /\ labelled(l).pr = DesThread.pr /\ labelled(l).brief = DesThread.brief
                             /\ labelled(l).state = DesThread.state
    BY <1>2 DEF DesThreads
  <1>6. /\ plan \in DesThreads /\ plan.labels = DesThread.labels /\ plan.pr = "plan"
        /\ plan.brief = DesThread.brief /\ plan.state = DesThread.state
    BY <1>2 DEF DesThreads
  <1>7. /\ closed \in DesThreads /\ closed.labels = DesThread.labels /\ closed.pr = DesThread.pr
        /\ closed.brief = DesThread.brief /\ closed.state = "CLOSED"
    BY <1>2 DEF DesThreads
  <1>13. /\ cleared \in DesThreads /\ cleared.pr = DesThread.pr
         /\ cleared.labels = DesThread.labels \ {"awaiting-answer"}
         /\ cleared.brief = DesThread.brief /\ cleared.state = DesThread.state
    BY <1>2 DEF DesThreads
  <1> HIDE DEF labelled, plan, closed, cleared
  <1>8. ASSUME NEW t \in DesThreads, desHub' = [desHub EXCEPT ![desCall.issue] = t]
        PROVE  DesTypes'
    <2>1. desHub' \in [Requests -> DesThreads] BY <1>8 DEF DesInv, DesTypes
    <2> QED BY <1>1, <2>1 DEF DesInv, DesTypes, DesLooked
  <1>9. CASE UNCHANGED desHub
    <2>1. desHub' = [desHub EXCEPT ![desCall.issue] = DesThread]
      BY <1>2, <1>9 DEF DesThread, DesInv, DesTypes
    <2>2. DesTypes' BY <1>2, <1>8, <2>1
    <2> QED BY <1>1, <1>2, <1>3, <2>1, <2>2, DesOwnWrite
  <1>10. ASSUME NEW l \in DesLabels, desHub' = [desHub EXCEPT ![desCall.issue] = labelled(l)]
         PROVE  DesInv'
    BY <1>1, <1>3, <1>5, <1>8, <1>10, DesOwnWrite
  <1>11. CASE desHub' = [desHub EXCEPT ![desCall.issue] = plan]
    BY <1>1, <1>3, <1>6, <1>8, <1>11, DesOwnWrite
  <1>12. CASE desHub' = [desHub EXCEPT ![desCall.issue] = closed]
    BY <1>1, <1>7, <1>8, <1>12, DesOwnWrite
  <1>14. CASE desHub' = [desHub EXCEPT ![desCall.issue] = cleared]
    BY <1>1, <1>3, <1>8, <1>13, <1>14, DesOwnWrite
  <1> QED BY <1>4, <1>9, <1>10, <1>11, <1>12, <1>14

(* The shift takes what is not labelled, and opens code late or unseen.    *)
LEMMA DesShiftKeeps == DesInv /\ (DrainPicks \/ ShiftOpens) => DesInv'
  <1> SUFFICES ASSUME DesInv, DrainPicks \/ ShiftOpens PROVE DesInv'
    OBVIOUS
  <1>1. CASE DrainPicks
    <2>1. PICK n \in Requests : Ready(desHub[n]) /\ desShift' = n
      BY <1>1 DEF DrainPicks
    <2>2. UNCHANGED <<desPc, desCall, desHub, desRepo, desHist>> BY <1>1 DEF DrainPicks
    <2>3. desHub[n].state = "OPEN" /\ "design" \notin desHub[n].labels BY <2>1 DEF Ready
    <2>4. DesTypes' BY <2>1, <2>2 DEF DesInv, DesTypes
    <2>5. FiledInv' BY <2>1, <2>2, <2>3 DEF DesInv, FiledInv
    <2>6. BriefInv' BY <2>1, <2>2, <2>3 DEF DesInv, BriefInv
    <2>7. CodeInv' BY <2>2 DEF DesInv, CodeInv
    <2> QED BY <2>4, <2>5, <2>6, <2>7 DEF DesInv
  <1>2. CASE ShiftOpens
    <2> DEFINE n == desShift
               seen == Beyond(n) \/ "design" \in desHub[n].labels
               t == [desHub[n] EXCEPT !.pr = "code"]
    <2>1. /\ n # 0 /\ desHub' = [desHub EXCEPT ![n].pr = "code"] /\ desShift' = 0
          /\ UNCHANGED <<desPc, desCall>>
          /\ desHist' = [desHist EXCEPT !.late = IF seen THEN @ \cup {n} ELSE @]
      BY <1>2 DEF ShiftOpens
    <2>2. n \in Requests /\ desHub[n] \in DesThreads BY <2>1 DEF DesInv, DesTypes
    <2>3. /\ t \in DesThreads /\ t.labels = desHub[n].labels /\ t.pr = "code"
          /\ t.brief = desHub[n].brief /\ t.state = desHub[n].state
      BY <2>2 DEF DesThreads
    <2>4. desHub' = [desHub EXCEPT ![n] = t] BY <2>1
    <2>5. Beyond(n) <=> desCall.issue = n /\ desPc \notin {"rest", "end", "check", "look"}
      BY DEF Beyond
    <2> HIDE DEF t, seen
    <2>6. /\ desHist' \in [calls : Nat, moves : Nat, late : SUBSET Requests,
                           hands : SUBSET Requests]
          /\ desHist'.hands = desHist.hands
          /\ desHist'.late = IF seen THEN desHist.late \cup {n} ELSE desHist.late
      BY <2>1, <2>2 DEF DesInv, DesTypes
    <2>7. desHub' \in [Requests -> DesThreads] BY <2>3, <2>4 DEF DesInv, DesTypes
    <2>8. DesTypes' BY <2>1, <2>6, <2>7 DEF DesInv, DesTypes
    <2>9. t.state # "none" BY <2>2, <2>3 DEF DesInv, FiledInv
    <2>10. t.brief => n \in desHist.hands BY <2>2, <2>3 DEF DesInv, BriefInv
    <2>11. "design" \in t.labels \/ (desCall.issue = n /\ desPc \in DesLooked) =>
              n \in desHist'.late
      BY <2>3, <2>5, <2>6 DEF seen, DesLooked
    <2> HIDE DEF n
    <2> QED BY <2>1, <2>2, <2>3, <2>4, <2>6, <2>8, <2>9, <2>10, <2>11, DesThreadStep
  <1> QED BY <1>1, <1>2

LEMMA DesPeopleKeep == DesInv /\ (PersonRelabels \/ PersonMerges) => DesInv'
  <1> SUFFICES ASSUME DesInv, PersonRelabels \/ PersonMerges PROVE DesInv'
    OBVIOUS
  <1>1. CASE PersonRelabels
    <2>1. PICK n \in Requests, l \in DesLabels :
             /\ Touches(n, [desHub[n] EXCEPT !.labels = Toggled(n, l)])
             /\ desHist' = [desHist EXCEPT !.moves = @ + 1,
                                           !.hands = IF l = "design" THEN @ \cup {n} ELSE @]
      BY <1>1 DEF PersonRelabels, DesLabels
    <2> DEFINE t == [desHub[n] EXCEPT !.labels = Toggled(n, l)]
    <2>2. /\ desHub[n].state # "none" /\ desHub' = [desHub EXCEPT ![n] = t]
          /\ UNCHANGED <<desPc, desCall, desRepo, desShift>>
      BY <2>1 DEF Touches
    <2>3. desHub[n] \in DesThreads BY DEF DesInv, DesTypes
    <2>4. /\ Toggled(n, l) \in SUBSET DesLabels
          /\ l # "design" => ("design" \in Toggled(n, l) <=> "design" \in desHub[n].labels)
      BY <2>3 DEF Toggled, DesThreads
    <2>5. /\ t \in DesThreads /\ t.labels = Toggled(n, l) /\ t.pr = desHub[n].pr
          /\ t.brief = desHub[n].brief /\ t.state = desHub[n].state
      BY <2>3, <2>4 DEF DesThreads
    <2> HIDE DEF t
    <2>6. /\ desHist' \in [calls : Nat, moves : Nat, late : SUBSET Requests,
                           hands : SUBSET Requests]
          /\ desHist'.late = desHist.late
          /\ desHist'.hands = IF l = "design" THEN desHist.hands \cup {n} ELSE desHist.hands
      <3> DEFINE hands == IF l = "design" THEN desHist.hands \cup {n} ELSE desHist.hands
      <3>1. hands \in SUBSET Requests
        <4>1. desHist.hands \in SUBSET Requests BY DEF DesInv, DesTypes
        <4> QED BY <4>1
      <3>2. desHist' = [desHist EXCEPT !.moves = @ + 1, !.hands = hands] BY <2>1
      <3> HIDE DEF hands
      <3> DEFINE moved == [desHist EXCEPT !.moves = @ + 1]
      <3>3. desHist' = [moved EXCEPT !.hands = hands] BY <3>2
      <3>4. /\ moved \in [calls : Nat, moves : Nat, late : SUBSET Requests,
                          hands : SUBSET Requests]
            /\ moved.late = desHist.late
        BY DEF DesInv, DesTypes
      <3> HIDE DEF moved
      <3>5. /\ desHist' \in [calls : Nat, moves : Nat, late : SUBSET Requests,
                             hands : SUBSET Requests]
            /\ desHist'.late = desHist.late /\ desHist'.hands = hands
        BY <3>1, <3>3, <3>4
      <3> QED BY <3>5 DEF hands
    <2>7. desHub' \in [Requests -> DesThreads] BY <2>2, <2>5 DEF DesInv, DesTypes
    <2>8. DesTypes' BY <2>2, <2>6, <2>7 DEF DesInv, DesTypes
    <2>9. t.brief /\ n \notin desHist'.hands =>
             "design" \in t.labels /\ t.pr # "code" /\ desShift # n
      BY <2>4, <2>5, <2>6 DEF DesInv, BriefInv
    <2>10. t.pr = "code" /\ ("design" \in t.labels \/ (desCall.issue = n /\ desPc \in DesLooked))
              => n \in desHist'.late \cup desHist'.hands
      BY <2>4, <2>5, <2>6 DEF DesInv, CodeInv
    <2> QED BY <2>2, <2>5, <2>6, <2>8, <2>9, <2>10, DesThreadStep
  <1>2. CASE PersonMerges
    <2>1. PICK n \in Requests, merged \in BOOLEAN :
             /\ Touches(n, [desHub[n] EXCEPT !.merged = @ \/ merged,
                                             !.container = @ \/ ~merged,
                                             !.state = IF merged THEN "CLOSED" ELSE @])
             /\ desHist' = [desHist EXCEPT !.moves = @ + 1]
      BY <1>2 DEF PersonMerges
    <2> DEFINE t == [desHub[n] EXCEPT !.merged = @ \/ merged, !.container = @ \/ ~merged,
                                      !.state = IF merged THEN "CLOSED" ELSE @]
    <2>2. /\ desHub[n].state # "none" /\ desHub' = [desHub EXCEPT ![n] = t]
          /\ UNCHANGED <<desPc, desCall, desRepo, desShift>>
      BY <2>1 DEF Touches
    <2>3. desHub[n] \in DesThreads BY DEF DesInv, DesTypes
    <2>4. /\ t \in DesThreads /\ t.labels = desHub[n].labels /\ t.pr = desHub[n].pr
          /\ t.brief = desHub[n].brief /\ t.state \in {desHub[n].state, "CLOSED"}
      BY <2>3 DEF DesThreads
    <2> HIDE DEF t
    <2>5. /\ desHist' \in [calls : Nat, moves : Nat, late : SUBSET Requests,
                           hands : SUBSET Requests]
          /\ desHist'.late = desHist.late /\ desHist'.hands = desHist.hands
      BY <2>1 DEF DesInv, DesTypes
    <2>6. desHub' \in [Requests -> DesThreads] BY <2>2, <2>4 DEF DesInv, DesTypes
    <2>7. DesTypes' BY <2>2, <2>5, <2>6 DEF DesInv, DesTypes
    <2>8. t.brief /\ n \notin desHist'.hands =>
             "design" \in t.labels /\ t.pr # "code" /\ desShift # n
      BY <2>4, <2>5 DEF DesInv, BriefInv
    <2>9. t.pr = "code" /\ ("design" \in t.labels \/ (desCall.issue = n /\ desPc \in DesLooked))
             => n \in desHist'.late \cup desHist'.hands
      BY <2>4, <2>5 DEF DesInv, CodeInv
    <2> QED BY <2>2, <2>4, <2>5, <2>7, <2>8, <2>9, DesThreadStep
  <1> QED BY <1>1, <1>2

LEMMA DesNextInv == DesInv /\ [DesignNext]_desVars => DesInv'
  <1> SUFFICES ASSUME DesInv, [DesignNext]_desVars PROVE DesInv'
    OBVIOUS
  <1>1. CASE UNCHANGED desVars
    BY <1>1 DEF desVars, DesInv, DesTypes, FiledInv, BriefInv, CodeInv
  <1>2. CASE DesignNext
    BY <1>2, DesCallKeeps, DesDeclaresKeeps, DesFilesKeeps, DesWritesKeep, DesShiftKeeps,
       DesPeopleKeep
    DEF DesignNext
  <1> QED BY <1>1, <1>2

(* The invariant, in every state of every call and of the shift beside it. *)
THEOREM DesInductive == DesSpec => []DesInv
  BY DesInitInv, DesNextInv, PTL DEF DesSpec

(* design.go:211: what -brief files is never worked into code, and a       *)
(* design run supervises no code but what was opened after it had looked   *)
(* or after a person moved the label, for every interleaving of the call   *)
(* with the shift and with people.                                         *)
THEOREM DesignIsNotCode == DesSpec => []CodeIsNotDesign
  <1>1. DesInv => CodeIsNotDesign
    <2> SUFFICES ASSUME DesInv PROVE CodeIsNotDesign
      OBVIOUS
    <2>1. \A n \in Requests : desHub[n].brief /\ desHub[n].pr = "code" => n \in desHist.hands
      BY DEF DesInv, BriefInv
    <2>2. desPc = "supervise" => desCall.issue \in Requests
      BY DEF DesInv, DesTypes, DesLooked
    <2> QED BY <2>1, <2>2 DEF DesInv, CodeInv, DesLooked, DesThread, CodeIsNotDesign
  <1> QED BY <1>1, DesInductive, PTL

-----------------------------------------------------------------------------
(*                            the files of setup                           *)

SetSpec == SetupInit /\ [][SetupNext]_setVars

SetRowStates ==
    {"unread", "ok", "missing", "unmarked", "marked", "unknown", "waiting", "already", "proposed"}
SetBuilds == {"write", "stage"}
SetOffers == {"count", "push", "create"}
SetUnderWay == {"tree"} \cup SetBuilds \cup SetOffers
SetCalls ==
    [want : SUBSET Items, wrote : SUBSET Items, base : SUBSET Items,
     todo : SUBSET DOMAIN SetupItems, proposed : SUBSET Items]
SetHomes ==
    [dir : SUBSET Items, worktree : BOOLEAN, branch : BOOLEAN, tree : SUBSET Items,
     staged : SUBSET Items, head : SUBSET Items, ahead : BOOLEAN]
SetPRs == [state : {"OPEN", "MERGED", "CLOSED"}, names : SUBSET Items]
SetHubs ==
    [main : SUBSET Items, branch : BOOLEAN, head : SUBSET Items, ahead : BOOLEAN,
     prs : Seq(SetPRs), gate : {"missing", "marked", "unmarked"}]
SetHists == [calls : Nat, moves : Nat, left : SUBSET Items, gone : SUBSET Items]

SetTypes ==
    /\ setPc \in {"rest", "labels", "ask", "look", "fetch", "end"} \cup SetUnderWay
    /\ setCall \in SetCalls /\ setHome \in SetHomes /\ setHub \in SetHubs /\ setHist \in SetHists
    /\ setRows \in [Items \cup {"gate"} -> SetRowStates]

(* What a worktree holds and no commit does was left by a call that        *)
(* stopped or is this call's, which stages all it writes.                  *)
HeldInv ==
    /\ setHome.tree \subseteq
          setHome.head \cup setHist.left
          \cup (IF setPc \in SetBuilds THEN setCall.wrote ELSE {})
          \cup (IF setPc = "stage" THEN {NextItem} ELSE {})
    /\ setPc \notin SetBuilds \cup SetOffers \cup {"end"} => setCall.wrote = {}
    /\ setPc \in SetBuilds => setCall.wrote \subseteq setHome.staged

(* What a call wants it has in its worktree or still to do, and has in its *)
(* commits when it makes its offer.                                        *)
WantInv ==
    /\ setPc \in SetBuilds =>
          \A i \in setCall.want :
              i \in setHome.tree \/ \E k \in setCall.todo : SetupItems[k] = i
    /\ setPc = "stage" => NextItem \in setHome.tree
    /\ setPc \in SetOffers => setCall.want \subseteq setHome.head \cup setHist.left

(* A branch with nothing ahead holds what the default branch has or had,   *)
(* and so did the base this call has read: no pull request is open that    *)
(* could be merged behind its back.                                        *)
AheadInv ==
    /\ ~setHome.ahead => setHome.head \subseteq setHub.main \cup setHist.gone
    /\ ~setHub.ahead => setHub.head \subseteq setHub.main \cup setHist.gone
    /\ setPc \in SetUnderWay =>
          /\ setCall.base \subseteq setHub.main \cup setHist.gone
          /\ ~setHome.ahead => setHome.head \subseteq setCall.base \cup setHist.gone
          /\ ~setHub.ahead => setHub.head \subseteq setCall.base \cup setHist.gone
    /\ setPc \in {"fetch"} \cup SetUnderWay => ~HasPR("OPEN")

(* What is offered is what differs, and it is pushed before it is offered. *)
OfferInv ==
    /\ setPc \in {"push", "create"} => setCall.proposed = setCall.want \cap Differs
    /\ setPc = "create" => setHub.head = setHome.head

RowInv ==
    IF setPc = "end" THEN NothingStranded
    ELSE \A i \in Items : setRows[i] \notin {"proposed", "already"}

SetInv ==
    SetTypes /\ HeldInv /\ WantInv /\ AheadInv /\ OfferInv /\ RowInv

LEMMA SetInitInv == SetupInit => SetInv
  <1> SUFFICES ASSUME SetupInit PROVE SetInv
    OBVIOUS
  <1>1. {} \in SUBSET Items /\ {} \in SUBSET DOMAIN SetupItems /\ <<>> \in Seq(SetPRs)
    OBVIOUS
  <1>2. setCall \in SetCalls BY <1>1 DEF SetupInit, NoCall, SetCalls
  <1>3. setHome \in SetHomes BY <1>1 DEF SetupInit, SetHomes
  <1>4. setHub \in SetHubs BY <1>1 DEF SetupInit, SetHubs
  <1>5. setHist \in SetHists BY <1>1 DEF SetupInit, SetHists
  <1>6. setRows \in [Items \cup {"gate"} -> SetRowStates] /\ \A i \in Items : setRows[i] = "unread"
    BY DEF SetupInit, SetRowStates
  <1>7. SetTypes BY <1>2, <1>3, <1>4, <1>5, <1>6 DEF SetupInit, SetTypes
  <1>8. HeldInv BY DEF SetupInit, HeldInv, SetBuilds, SetOffers, NoCall
  <1>9. WantInv BY DEF SetupInit, WantInv, SetBuilds, SetOffers
  <1>10. AheadInv BY DEF SetupInit, AheadInv, SetUnderWay, SetBuilds, SetOffers
  <1>11. OfferInv BY DEF SetupInit, OfferInv
  <1>12. RowInv BY <1>6 DEF SetupInit, RowInv
  <1> QED BY <1>7, <1>8, <1>9, <1>10, <1>11, <1>12 DEF SetInv

LEMMA NextItemType ==
  ASSUME SetTypes, setCall.todo # {} PROVE NextToDo \in setCall.todo /\ NextItem \in Items
  <1>1. setCall.todo \in SUBSET Nat
    <2>1. DOMAIN SetupItems = 1..Len(SetupItems) BY SetupAssumption
    <2> QED BY <2>1 DEF SetTypes, SetCalls
  <1>2. \E k \in setCall.todo : \A l \in setCall.todo : k <= l BY <1>1, Smallest
  <1>3. NextToDo \in setCall.todo BY <1>2 DEF NextToDo
  <1>4. NextToDo \in DOMAIN SetupItems BY <1>3 DEF SetTypes, SetCalls
  <1> QED BY <1>3, <1>4 DEF NextItem, Items

(* A call that stops leaves what it had not committed, and its rows are    *)
(* those it read.                                                          *)
LEMMA StopsKeeps ==
  ASSUME SetInv, setPc \notin {"rest", "end"}, Stops,
         UNCHANGED <<setCall, setRows, setHome, setHub>>
  PROVE  SetInv'
  <1>1. /\ setPc' = "end"
        /\ setHist' = [setHist EXCEPT !.left = @ \cup (setHome.tree \ setHome.head)]
    BY DEF Stops
  <1>2. /\ setHist' \in SetHists /\ setHist'.gone = setHist.gone
        /\ setHist'.left = setHist.left \cup (setHome.tree \ setHome.head)
    <2>1. setHome.tree \in SUBSET Items BY DEF SetInv, SetTypes, SetHomes
    <2> QED BY <1>1, <2>1 DEF SetInv, SetTypes, SetHists
  <1>3. SetTypes' BY <1>1, <1>2 DEF SetInv, SetTypes
  <1>4. HeldInv' BY <1>1, <1>2 DEF HeldInv, SetBuilds
  <1>5. WantInv' BY <1>1 DEF WantInv, SetBuilds, SetOffers
  <1>6. AheadInv' BY <1>1, <1>2 DEF SetInv, AheadInv, SetUnderWay, SetBuilds, SetOffers
  <1>7. OfferInv' BY <1>1 DEF OfferInv
  <1>8. RowInv' BY <1>1 DEF SetInv, RowInv, NothingStranded
  <1> QED BY <1>3, <1>4, <1>5, <1>6, <1>7, <1>8 DEF SetInv

(* The report starts afresh, and the next questions change rows alone.     *)
LEMMA SetupReadsKeeps == SetInv /\ SetupReads => SetInv'
  <1> SUFFICES ASSUME SetInv, SetupReads PROVE SetInv'
    OBVIOUS
  <1>1. /\ setPc \in {"rest", "end"} /\ setPc' \in {"end", "labels"} /\ setCall' = NoCall
        /\ setHist' = [setHist EXCEPT !.calls = @ + 1] /\ UNCHANGED <<setHome, setHub>>
    BY DEF SetupReads
  <1>2. PICK gate \in {setHub.gate, "unknown"} :
           setRows' = [i \in DOMAIN setRows |->
              IF i = "gate" THEN gate ELSE IF i \in setHome.dir THEN "ok" ELSE "missing"]
    BY DEF SetupReads
  <1>3. gate \in {"missing", "marked", "unmarked", "unknown"}
    BY <1>2 DEF SetInv, SetTypes, SetHubs
  <1>4. DOMAIN setRows = Items \cup {"gate"} BY DEF SetInv, SetTypes
  <1>5. \A i \in Items \cup {"gate"} : setRows'[i] \in SetRowStates \ {"proposed", "already"}
    BY <1>2, <1>3, <1>4 DEF SetRowStates
  <1>6. setRows' \in [Items \cup {"gate"} -> SetRowStates] BY <1>2, <1>4, <1>5
  <1>7. setCall' \in SetCalls /\ setCall'.wrote = {}
    <2>1. {} \in SUBSET Items /\ {} \in SUBSET DOMAIN SetupItems OBVIOUS
    <2> QED BY <1>1, <2>1 DEF NoCall, SetCalls
  <1>8. setHist' \in SetHists /\ setHist'.left = setHist.left /\ setHist'.gone = setHist.gone
    BY <1>1 DEF SetInv, SetTypes, SetHists
  <1>9. SetTypes' BY <1>1, <1>6, <1>7, <1>8 DEF SetInv, SetTypes
  <1>10. HeldInv' BY <1>1, <1>7, <1>8 DEF SetInv, HeldInv, SetBuilds, SetOffers
  <1>11. WantInv' BY <1>1 DEF WantInv, SetBuilds, SetOffers
  <1>12. AheadInv' BY <1>1, <1>8 DEF SetInv, AheadInv, SetUnderWay, SetBuilds, SetOffers
  <1>13. OfferInv' BY <1>1 DEF OfferInv
  <1>14. RowInv' BY <1>5 DEF RowInv, NothingStranded
  <1> QED BY <1>9, <1>10, <1>11, <1>12, <1>13, <1>14 DEF SetInv

LEMMA SetupLabelsKeeps == SetInv /\ SetupLabels => SetInv'
  <1> SUFFICES ASSUME SetInv, SetupLabels PROVE SetInv'
    OBVIOUS
  <1>1. /\ setPc = "labels" /\ setPc' = "ask" /\ UNCHANGED <<setCall, setHome, setHist>>
        /\ setRows' \in {setRows, [setRows EXCEPT !["gate"] = "ok"]}
        /\ \/ UNCHANGED setHub
           \/ setHub' = [setHub EXCEPT !.gate = IF @ = "missing" THEN "marked" ELSE @]
           \/ setHub' = [setHub EXCEPT !.gate = "marked"]
    <2>1. CASE UNCHANGED <<setRows, setHub>>
      BY <2>1 DEF SetupLabels, SetAt, SetGoes, Stays
    <2>2. CASE ~UNCHANGED <<setRows, setHub>>
      BY <2>2 DEF SetupLabels, SetAt, SetGoes, Stays
    <2> QED BY <2>1, <2>2
  <1>2. /\ setHub' \in SetHubs /\ setHub'.main = setHub.main /\ setHub'.head = setHub.head
        /\ setHub'.ahead = setHub.ahead /\ setHub'.prs = setHub.prs
    <2>1. setHub \in SetHubs BY DEF SetInv, SetTypes
    <2> QED BY <1>1, <2>1 DEF SetHubs
  <1>3. /\ setRows' \in [Items \cup {"gate"} -> SetRowStates]
        /\ \A i \in Items : setRows'[i] = setRows[i]
    <2>1. setRows \in [Items \cup {"gate"} -> SetRowStates] /\ "gate" \notin Items
      BY SetupAssumption DEF SetInv, SetTypes
    <2> QED BY <1>1, <2>1 DEF SetRowStates
  <1>4. SetTypes' BY <1>1, <1>2, <1>3 DEF SetInv, SetTypes
  <1>5. HeldInv' BY <1>1 DEF SetInv, HeldInv, SetBuilds, SetOffers
  <1>6. WantInv' BY <1>1 DEF WantInv, SetBuilds, SetOffers
  <1>7. AheadInv' BY <1>1, <1>2 DEF SetInv, AheadInv, SetUnderWay, SetBuilds, SetOffers
  <1>8. OfferInv' BY <1>1 DEF OfferInv
  <1>9. RowInv' BY <1>1, <1>3 DEF SetInv, RowInv
  <1> QED BY <1>4, <1>5, <1>6, <1>7, <1>8, <1>9 DEF SetInv

LEMMA SetupAsksKeeps == SetInv /\ SetupAsks => SetInv'
  <1> SUFFICES ASSUME SetInv, SetupAsks PROVE SetInv'
    OBVIOUS
  <1>1. PICK want \in SUBSET Items : setCall' = [setCall EXCEPT !.want = want]
    BY DEF SetupAsks
  <1>2. /\ setPc = "ask" /\ setPc' \in {"end", "look"}
        /\ UNCHANGED <<setRows, setHome, setHub, setHist>>
    BY DEF SetupAsks, SetAt, SetGoes, Stays
  <1>3. setCall' \in SetCalls /\ setCall'.wrote = setCall.wrote
    BY <1>1 DEF SetInv, SetTypes, SetCalls
  <1>4. SetTypes' BY <1>2, <1>3 DEF SetInv, SetTypes
  <1>5. HeldInv' BY <1>2, <1>3 DEF SetInv, HeldInv, SetBuilds, SetOffers
  <1>6. WantInv' BY <1>2 DEF WantInv, SetBuilds, SetOffers
  <1>7. AheadInv' BY <1>2 DEF SetInv, AheadInv, SetUnderWay, SetBuilds, SetOffers
  <1>8. OfferInv' BY <1>2 DEF OfferInv
  <1>9. RowInv' BY <1>2 DEF SetInv, RowInv, NothingStranded
  <1> QED BY <1>4, <1>5, <1>6, <1>7, <1>8, <1>9 DEF SetInv

LEMMA SetupLooksKeeps == SetInv /\ SetupLooks => SetInv'
  <1> SUFFICES ASSUME SetInv, SetupLooks PROVE SetInv'
    OBVIOUS
  <1>1. setPc = "look" /\ UNCHANGED <<setCall, setHome, setHub>>
    BY DEF SetupLooks, SetAt
  <1>2. CASE Stops /\ UNCHANGED setRows BY <1>1, <1>2, StopsKeeps
  <1>3. CASE ~(Stops /\ UNCHANGED setRows)
    <2>1. /\ UNCHANGED setHist
          /\ \/ /\ setPc' = "end"
                /\ setRows' = [i \in DOMAIN setRows |->
                                 IF i \in setCall.want THEN "waiting" ELSE setRows[i]]
             \/ SetupPR \in {"none", "MERGED"} /\ setPc' = "fetch" /\ UNCHANGED setRows
      BY <1>3 DEF SetupLooks, SetGoes, Stays
    <2>2. SetupPR \in {"none", "MERGED"} => ~HasPR("OPEN") BY DEF SetupPR
    <2>3. HasPR("OPEN")' <=> HasPR("OPEN") BY <1>1 DEF HasPR
    <2>4. setRows \in [Items \cup {"gate"} -> SetRowStates] BY DEF SetInv, SetTypes
    <2>5. \A i \in Items : setRows[i] \notin {"proposed", "already"} BY <1>1 DEF SetInv, RowInv
    <2>6. /\ setRows' \in [Items \cup {"gate"} -> SetRowStates]
          /\ \A i \in Items : setRows'[i] \notin {"proposed", "already"}
      <3>1. CASE UNCHANGED setRows BY <2>4, <2>5, <3>1
      <3>2. CASE setRows' = [i \in DOMAIN setRows |->
                               IF i \in setCall.want THEN "waiting" ELSE setRows[i]]
        BY <2>4, <2>5, <3>2 DEF SetRowStates
      <3> QED BY <2>1, <3>1, <3>2
    <2>7. SetTypes' BY <1>1, <2>1, <2>6 DEF SetInv, SetTypes
    <2>8. HeldInv' BY <1>1, <2>1 DEF SetInv, HeldInv, SetBuilds, SetOffers
    <2>9. WantInv' BY <2>1 DEF WantInv, SetBuilds, SetOffers
    <2>10. AheadInv'
      BY <1>1, <2>1, <2>2, <2>3 DEF SetInv, AheadInv, SetUnderWay, SetBuilds, SetOffers
    <2>11. OfferInv' BY <2>1 DEF OfferInv
    <2>12. RowInv' BY <2>6 DEF RowInv, NothingStranded
    <2> QED BY <2>7, <2>8, <2>9, <2>10, <2>11, <2>12 DEF SetInv
  <1> QED BY <1>2, <1>3

LEMMA SetupFetchesKeeps == SetInv /\ SetupFetches => SetInv'
  <1> SUFFICES ASSUME SetInv, SetupFetches PROVE SetInv'
    OBVIOUS
  <1>1. setPc = "fetch" /\ UNCHANGED <<setRows, setHome, setHub>>
    BY DEF SetupFetches, SetAt
  <1>2. CASE Stops /\ UNCHANGED setCall BY <1>1, <1>2, StopsKeeps
  <1>3. CASE setPc' = "tree" /\ UNCHANGED setHist /\ setCall' = [setCall EXCEPT !.base = setHub.main]
    <2>1. /\ setCall' \in SetCalls /\ setCall'.wrote = setCall.wrote
          /\ setCall'.base = setHub.main
      <3>1. setHub.main \in SUBSET Items /\ setCall \in SetCalls
        BY DEF SetInv, SetTypes, SetHubs
      <3> QED BY <1>3, <3>1 DEF SetCalls
    <2>2. SetTypes' BY <1>1, <1>3, <2>1 DEF SetInv, SetTypes, SetUnderWay
    <2>3. HeldInv' BY <1>1, <1>3, <2>1 DEF SetInv, HeldInv, SetBuilds, SetOffers
    <2>4. WantInv' BY <1>3 DEF WantInv, SetBuilds, SetOffers
    <2>5. AheadInv' BY <1>1, <1>3, <2>1 DEF SetInv, AheadInv, HasPR
    <2>6. OfferInv' BY <1>3 DEF OfferInv
    <2>7. RowInv' BY <1>1, <1>3 DEF SetInv, RowInv
    <2> QED BY <2>2, <2>3, <2>4, <2>5, <2>6, <2>7 DEF SetInv
  <1> QED BY <1>2, <1>3 DEF SetupFetches, SetGoes, Stays

(* The worktree is opened on what its branch holds, if it is not there.    *)
LEMMA SetupOpensTreeKeeps == SetInv /\ SetupOpensTree => SetInv'
  <1> SUFFICES ASSUME SetInv, SetupOpensTree PROVE SetInv'
    OBVIOUS
  <1>1. setPc = "tree" /\ UNCHANGED <<setRows, setHub>>
    BY DEF SetupOpensTree, SetAt
  <1>2. CASE Stops /\ UNCHANGED <<setCall, setHome>> BY <1>1, <1>2, StopsKeeps
  <1>3. CASE /\ setPc' = "write" /\ UNCHANGED setHist /\ setHome' = SetupWorktree
             /\ setCall' = [setCall EXCEPT
                   !.todo = {k \in DOMAIN SetupItems : SetupItems[k] \in setCall.want}]
    <2>1. setHome \in SetHomes /\ setHub \in SetHubs /\ setCall \in SetCalls
      BY DEF SetInv, SetTypes
    <2>2. /\ setCall' \in SetCalls /\ setCall'.wrote = {} /\ setCall'.want = setCall.want
          /\ setCall'.base = setCall.base
          /\ setCall'.todo = {k \in DOMAIN SetupItems : SetupItems[k] \in setCall.want}
      BY <1>1, <1>3, <2>1 DEF SetInv, HeldInv, SetBuilds, SetOffers, SetCalls
    <2>3. /\ setHome' \in SetHomes
          /\ setHome' = setHome \/ setHome'.tree = setHome'.head
          /\ \/ setHome'.head = setHome.head /\ setHome'.ahead = setHome.ahead
             \/ setHome'.head = setHub.head /\ setHome'.ahead = setHub.ahead
             \/ setHome'.head = setCall.base /\ setHome'.ahead = FALSE
      <3>1. {} \in SUBSET Items OBVIOUS
      <3>2. CASE setHome.worktree BY <1>3, <2>1, <3>2 DEF SetupWorktree
      <3>3. CASE ~setHome.worktree /\ setHome.branch
        BY <1>3, <2>1, <3>1, <3>3 DEF SetupWorktree, SetHomes
      <3>4. CASE ~setHome.worktree /\ ~setHome.branch /\ setHub.branch
        BY <1>3, <2>1, <3>1, <3>4 DEF SetupWorktree, SetHomes, SetHubs
      <3>5. CASE ~setHome.worktree /\ ~setHome.branch /\ ~setHub.branch
        BY <1>3, <2>1, <3>1, <3>5 DEF SetupWorktree, SetHomes, SetCalls
      <3> QED BY <3>2, <3>3, <3>4, <3>5
    <2>4. /\ setHome.tree \subseteq setHome.head \cup setHist.left
          /\ ~setHome.ahead => setHome.head \subseteq setHub.main \cup setHist.gone
          /\ ~setHub.ahead => setHub.head \subseteq setHub.main \cup setHist.gone
          /\ ~setHome.ahead => setHome.head \subseteq setCall.base \cup setHist.gone
          /\ ~setHub.ahead => setHub.head \subseteq setCall.base \cup setHist.gone
          /\ ~HasPR("OPEN")
      BY <1>1 DEF SetInv, HeldInv, AheadInv, SetBuilds, SetUnderWay
    <2>5. SetTypes' BY <1>1, <1>3, <2>2, <2>3 DEF SetInv, SetTypes, SetUnderWay, SetBuilds
    <2>6. HeldInv' BY <1>3, <2>2, <2>3, <2>4 DEF HeldInv
    <2>7. WantInv'
      <3>1. ASSUME NEW i \in setCall.want PROVE \E k \in setCall'.todo : SetupItems[k] = i
        <4>1. i \in Items BY <2>1, <3>1 DEF SetCalls
        <4>2. PICK k \in DOMAIN SetupItems : SetupItems[k] = i BY <4>1 DEF Items
        <4> QED BY <2>2, <3>1, <4>2
      <3> QED BY <1>3, <2>2, <3>1 DEF WantInv, SetOffers
    <2>8. setCall.base \subseteq setHub.main \cup setHist.gone
      BY <1>1 DEF SetInv, AheadInv, SetUnderWay
    <2>9. AheadInv' BY <1>1, <1>3, <2>2, <2>3, <2>4, <2>8 DEF AheadInv, HasPR
    <2>10. OfferInv' BY <1>3 DEF OfferInv
    <2>11. RowInv' BY <1>1, <1>3 DEF SetInv, RowInv
    <2> QED BY <2>5, <2>6, <2>7, <2>9, <2>10, <2>11 DEF SetInv
  <1> QED BY <1>2, <1>3 DEF SetupOpensTree, SetGoes, Stays

LEMMA SetupWritesKeeps == SetInv /\ SetupWrites => SetInv'
  <1> SUFFICES ASSUME SetInv, SetupWrites PROVE SetInv'
    OBVIOUS
  <1>1. setPc = "write" /\ setCall.todo # {} /\ UNCHANGED <<setRows, setHub, setHist>>
    BY DEF SetupWrites, SetAt, Stays
  <1>2. NextItem \in Items /\ setHome \in SetHomes /\ setCall \in SetCalls
    BY <1>1, NextItemType DEF SetInv, SetTypes
  <1>3. CASE NextItem \in setHome.tree
    <2>1. /\ UNCHANGED <<setHome, setPc>>
          /\ setCall' = [setCall EXCEPT !.todo = @ \ {NextToDo}]
      BY <1>3 DEF SetupWrites
    <2>2. /\ setCall' \in SetCalls /\ setCall'.wrote = setCall.wrote
          /\ setCall'.want = setCall.want /\ setCall'.base = setCall.base
          /\ setCall'.todo = setCall.todo \ {NextToDo}
      BY <1>2, <2>1 DEF SetCalls
    <2>3. SetTypes' BY <1>1, <2>1, <2>2 DEF SetInv, SetTypes
    <2>4. HeldInv' BY <1>1, <2>1, <2>2 DEF SetInv, HeldInv
    <2>5. WantInv' BY <1>1, <1>3, <2>1, <2>2 DEF SetInv, WantInv, SetOffers, NextItem
    <2>6. AheadInv' BY <1>1, <2>1, <2>2 DEF SetInv, AheadInv, HasPR
    <2>7. OfferInv' BY <1>1, <2>1 DEF OfferInv
    <2>8. RowInv' BY <1>1, <2>1 DEF SetInv, RowInv
    <2> QED BY <2>3, <2>4, <2>5, <2>6, <2>7, <2>8 DEF SetInv
  <1>4. CASE NextItem \notin setHome.tree
    <2>1. /\ setPc' = "stage" /\ UNCHANGED setCall
          /\ setHome' = [setHome EXCEPT !.tree = @ \cup {NextItem}]
      BY <1>4 DEF SetupWrites, SetGoes
    <2>2. /\ setHome' \in SetHomes /\ setHome'.tree = setHome.tree \cup {NextItem}
          /\ setHome'.head = setHome.head /\ setHome'.staged = setHome.staged
          /\ setHome'.ahead = setHome.ahead
      BY <1>2, <2>1 DEF SetHomes
    <2>3. NextItem' = NextItem BY <2>1 DEF NextItem, NextToDo
    <2>4. SetTypes' BY <1>1, <2>1, <2>2 DEF SetInv, SetTypes, SetUnderWay, SetBuilds
    <2>5. HeldInv' BY <1>1, <2>1, <2>2, <2>3 DEF SetInv, HeldInv, SetBuilds
    <2>6. WantInv' BY <1>1, <2>1, <2>2, <2>3 DEF SetInv, WantInv, SetBuilds, SetOffers
    <2>7. AheadInv' BY <1>1, <2>1, <2>2 DEF SetInv, AheadInv, HasPR, SetUnderWay, SetBuilds
    <2>8. OfferInv' BY <2>1 DEF OfferInv
    <2>9. RowInv' BY <1>1, <2>1 DEF SetInv, RowInv
    <2> QED BY <2>4, <2>5, <2>6, <2>7, <2>8, <2>9 DEF SetInv
  <1> QED BY <1>3, <1>4

LEMMA SetupStagesKeeps == SetInv /\ SetupStages => SetInv'
  <1> SUFFICES ASSUME SetInv, SetupStages PROVE SetInv'
    OBVIOUS
  <1>1. setPc = "stage" /\ UNCHANGED <<setRows, setHub>>
    BY DEF SetupStages, SetAt
  <1>2. CASE Stops /\ UNCHANGED <<setCall, setHome>> BY <1>1, <1>2, StopsKeeps
  <1>3. CASE /\ setPc' = "write" /\ UNCHANGED setHist
             /\ setHome' = [setHome EXCEPT !.staged = @ \cup {NextItem}]
             /\ setCall' = [setCall EXCEPT !.todo = @ \ {NextToDo}, !.wrote = @ \cup {NextItem}]
    <2>1. setHome \in SetHomes /\ setCall \in SetCalls /\ NextItem \in setHome.tree
      BY <1>1 DEF SetInv, SetTypes, WantInv
    <2>2. NextItem \in Items BY <2>1 DEF SetHomes
    <2>3. /\ setHome' \in SetHomes /\ setHome'.tree = setHome.tree /\ setHome'.head = setHome.head
          /\ setHome'.staged = setHome.staged \cup {NextItem} /\ setHome'.ahead = setHome.ahead
      BY <1>3, <2>1, <2>2 DEF SetHomes
    <2>4. /\ setCall' \in SetCalls /\ setCall'.want = setCall.want /\ setCall'.base = setCall.base
          /\ setCall'.todo = setCall.todo \ {NextToDo}
          /\ setCall'.wrote = setCall.wrote \cup {NextItem}
      BY <1>3, <2>1, <2>2 DEF SetCalls
    <2>5. SetTypes' BY <1>1, <1>3, <2>3, <2>4 DEF SetInv, SetTypes, SetUnderWay, SetBuilds
    <2>6. HeldInv' BY <1>1, <1>3, <2>3, <2>4 DEF SetInv, HeldInv, SetBuilds
    <2>7. WantInv'
      BY <1>1, <1>3, <2>1, <2>3, <2>4 DEF SetInv, WantInv, SetBuilds, SetOffers, NextItem
    <2>8. AheadInv' BY <1>1, <1>3, <2>3, <2>4 DEF SetInv, AheadInv, HasPR, SetUnderWay, SetBuilds
    <2>9. OfferInv' BY <1>3 DEF OfferInv
    <2>10. RowInv' BY <1>1, <1>3 DEF SetInv, RowInv
    <2> QED BY <2>5, <2>6, <2>7, <2>8, <2>9, <2>10 DEF SetInv
  <1> QED BY <1>2, <1>3 DEF SetupStages, SetGoes, Stays

LEMMA SetupCommitsKeeps == SetInv /\ SetupCommits => SetInv'
  <1> SUFFICES ASSUME SetInv, SetupCommits PROVE SetInv'
    OBVIOUS
  <1>1. setPc = "write" /\ setCall.todo = {} /\ UNCHANGED <<setCall, setRows, setHub>>
    BY DEF SetupCommits, SetAt
  <1>2. /\ setHome \in SetHomes
        /\ setHome.tree \subseteq setHome.head \cup setHist.left \cup setCall.wrote
        /\ setCall.wrote \subseteq setHome.staged /\ setCall.want \subseteq setHome.tree
    BY <1>1 DEF SetInv, SetTypes, HeldInv, WantInv, SetBuilds
  <1>3. CASE Stops /\ UNCHANGED setHome BY <1>1, <1>3, StopsKeeps
  <1>4. CASE setPc' = "count" /\ UNCHANGED setHist
             /\ \/ setCall.wrote = {} /\ UNCHANGED setHome
                \/ setHome' = [setHome EXCEPT !.head = @ \cup setHome.staged, !.staged = {},
                                              !.ahead = TRUE]
    <2>1. /\ setHome' \in SetHomes /\ setHome'.tree = setHome.tree
          /\ setHome'.tree \subseteq setHome'.head \cup setHist.left
          /\ ~setHome'.ahead => ~setHome.ahead /\ setHome'.head = setHome.head
      <3>1. CASE setCall.wrote = {} /\ UNCHANGED setHome BY <1>2, <3>1
      <3>2. CASE setHome' = [setHome EXCEPT !.head = @ \cup setHome.staged, !.staged = {},
                                            !.ahead = TRUE]
        <4>1. {} \in SUBSET Items /\ setHome.head \cup setHome.staged \in SUBSET Items
          BY <1>2 DEF SetHomes
        <4> QED BY <1>2, <3>2, <4>1 DEF SetHomes
      <3> QED BY <1>4, <3>1, <3>2
    <2>2. SetTypes' BY <1>1, <1>4, <2>1 DEF SetInv, SetTypes, SetUnderWay, SetOffers
    <2>3. HeldInv' BY <1>4, <2>1 DEF HeldInv, SetBuilds, SetOffers
    <2>4. WantInv' BY <1>1, <1>2, <1>4, <2>1 DEF WantInv, SetBuilds
    <2>5. AheadInv'
      BY <1>1, <1>4, <2>1 DEF SetInv, AheadInv, HasPR, SetUnderWay, SetBuilds
    <2>6. OfferInv' BY <1>4 DEF OfferInv
    <2>7. RowInv' BY <1>1, <1>4 DEF SetInv, RowInv
    <2> QED BY <2>2, <2>3, <2>4, <2>5, <2>6, <2>7 DEF SetInv
  <1> QED BY <1>3, <1>4 DEF SetupCommits, SetGoes, Stays

(* Nothing ahead is on the default branch, or was; and else the offer.     *)
LEMMA SetupCountsKeeps == SetInv /\ SetupCounts => SetInv'
  <1> SUFFICES ASSUME SetInv, SetupCounts PROVE SetInv'
    OBVIOUS
  <1>1. setPc = "count" /\ UNCHANGED <<setHome, setHub>>
    BY DEF SetupCounts, SetAt
  <1>2. /\ setCall \in SetCalls /\ setRows \in [Items \cup {"gate"} -> SetRowStates]
        /\ setCall.want \subseteq setHome.head \cup setHist.left
        /\ ~setHome.ahead => setHome.head \subseteq setCall.base \cup setHist.gone
        /\ \A i \in Items : setRows[i] \notin {"proposed", "already"}
    BY <1>1 DEF SetInv, SetTypes, WantInv, AheadInv, RowInv, SetOffers, SetUnderWay
  <1>3. CASE Stops /\ UNCHANGED <<setCall, setRows>> BY <1>1, <1>3, StopsKeeps
  <1>4. CASE /\ ~setHome.ahead /\ setPc' = "end" /\ UNCHANGED <<setHist, setCall>>
             /\ setRows' = [i \in DOMAIN setRows |->
                              IF i \in setCall.want THEN "already" ELSE setRows[i]]
    <2>1. /\ setRows' \in [Items \cup {"gate"} -> SetRowStates]
          /\ \A i \in Items : /\ setRows'[i] # "proposed"
                              /\ setRows'[i] = "already" => i \in setCall.want
      BY <1>2, <1>4 DEF SetRowStates
    <2>2. SetTypes' BY <1>1, <1>4, <2>1 DEF SetInv, SetTypes
    <2>3. HeldInv' BY <1>1, <1>4 DEF SetInv, HeldInv, SetBuilds, SetOffers
    <2>4. WantInv' BY <1>4 DEF WantInv, SetBuilds, SetOffers
    <2>5. AheadInv' BY <1>1, <1>4 DEF SetInv, AheadInv, SetUnderWay, SetBuilds, SetOffers
    <2>6. OfferInv' BY <1>4 DEF OfferInv
    <2>7. RowInv' BY <1>2, <1>4, <2>1 DEF RowInv, NothingStranded
    <2> QED BY <2>2, <2>3, <2>4, <2>5, <2>6, <2>7 DEF SetInv
  <1>5. CASE /\ setPc' = "push" /\ UNCHANGED <<setHist, setRows>>
             /\ setCall' = [setCall EXCEPT !.proposed = setCall.want \cap Differs]
    <2>1. /\ setCall' \in SetCalls /\ setCall'.want = setCall.want /\ setCall'.base = setCall.base
          /\ setCall'.proposed = setCall.want \cap Differs
      BY <1>2, <1>5 DEF SetCalls
    <2>2. Differs' = Differs BY <1>1, <2>1 DEF Differs
    <2>3. SetTypes' BY <1>1, <1>5, <2>1 DEF SetInv, SetTypes, SetUnderWay, SetOffers
    <2>4. HeldInv' BY <1>1, <1>5 DEF SetInv, HeldInv, SetBuilds, SetOffers
    <2>5. WantInv' BY <1>1, <1>2, <1>5, <2>1 DEF WantInv, SetBuilds
    <2>6. AheadInv' BY <1>1, <1>5, <2>1 DEF SetInv, AheadInv, HasPR, SetUnderWay, SetOffers
    <2>7. OfferInv' BY <1>5, <2>1, <2>2 DEF OfferInv
    <2>8. RowInv' BY <1>2, <1>5 DEF RowInv
    <2> QED BY <2>3, <2>4, <2>5, <2>6, <2>7, <2>8 DEF SetInv
  <1> QED BY <1>3, <1>4, <1>5 DEF SetupCounts, SetGoes, Stays, NothingAhead

LEMMA SetupPushesKeeps == SetInv /\ SetupPushes => SetInv'
  <1> SUFFICES ASSUME SetInv, SetupPushes PROVE SetInv'
    OBVIOUS
  <1>1. setPc = "push" /\ UNCHANGED <<setCall, setRows, setHome>>
    BY DEF SetupPushes, SetAt
  <1>2. CASE Stops /\ UNCHANGED setHub BY <1>1, <1>2, StopsKeeps
  <1>3. CASE /\ setHub' = [setHub EXCEPT !.branch = TRUE, !.head = setHome.head, !.ahead = TRUE]
             /\ setPc' = "create" /\ UNCHANGED setHist
    <2>1. /\ setHub' \in SetHubs /\ setHub'.head = setHome.head /\ setHub'.ahead = TRUE
          /\ setHub'.main = setHub.main /\ setHub'.prs = setHub.prs
      <3>1. setHub \in SetHubs /\ setHome.head \in SUBSET Items
        BY DEF SetInv, SetTypes, SetHomes
      <3> QED BY <1>3, <3>1 DEF SetHubs
    <2>2. SetTypes' BY <1>1, <1>3, <2>1 DEF SetInv, SetTypes, SetUnderWay, SetOffers
    <2>3. HeldInv' BY <1>1, <1>3 DEF SetInv, HeldInv, SetBuilds, SetOffers
    <2>4. WantInv' BY <1>1, <1>3 DEF SetInv, WantInv, SetBuilds, SetOffers
    <2>5. AheadInv'
      BY <1>1, <1>3, <2>1 DEF SetInv, AheadInv, HasPR, SetUnderWay, SetOffers
    <2>6. OfferInv' BY <1>1, <1>3, <2>1 DEF SetInv, OfferInv, Differs
    <2>7. RowInv' BY <1>1, <1>3 DEF SetInv, RowInv
    <2> QED BY <2>2, <2>3, <2>4, <2>5, <2>6, <2>7 DEF SetInv
  <1> QED BY <1>2, <1>3 DEF SetupPushes, SetGoes, Stays

LEMMA SetupCreatesKeeps == SetInv /\ SetupCreates => SetInv'
  <1> SUFFICES ASSUME SetInv, SetupCreates PROVE SetInv'
    OBVIOUS
  <1>1. setPc = "create" /\ UNCHANGED <<setCall, setHome>>
    BY DEF SetupCreates, SetAt
  <1>2. CASE Stops /\ UNCHANGED <<setRows, setHub>> BY <1>1, <1>2, StopsKeeps
  <1>3. CASE ~(Stops /\ UNCHANGED <<setRows, setHub>>)
    <2> DEFINE new == [state |-> "OPEN", names |-> setCall.proposed]
    <2>1. /\ setPc' = "end" /\ UNCHANGED setHist
          /\ setHub' = [setHub EXCEPT !.prs = Append(@, new)]
          /\ setRows' = [i \in DOMAIN setRows |->
                           CASE i \in setCall.proposed -> "proposed"
                             [] i \in setCall.want \ setCall.proposed -> "already"
                             [] OTHER -> setRows[i]]
      BY <1>3 DEF SetupCreates, SetGoes, Stays
    <2>2. /\ setCall \in SetCalls /\ setHub \in SetHubs
          /\ setRows \in [Items \cup {"gate"} -> SetRowStates]
          /\ setCall.want \subseteq setHome.head \cup setHist.left
          /\ setCall.proposed = setCall.want \cap Differs /\ setHub.head = setHome.head
          /\ \A i \in Items : setRows[i] \notin {"proposed", "already"}
      BY <1>1 DEF SetInv, SetTypes, WantInv, OfferInv, RowInv, SetOffers
    <2>3. new \in SetPRs /\ setHub.prs \in Seq(SetPRs) BY <2>2 DEF SetPRs, SetCalls, SetHubs
    <2>4. /\ setHub' \in SetHubs /\ setHub'.prs = Append(setHub.prs, new)
          /\ setHub'.head = setHub.head /\ setHub'.main = setHub.main
          /\ setHub'.ahead = setHub.ahead
      <3> HIDE DEF new
      <3>1. Append(setHub.prs, new) \in Seq(SetPRs) BY <2>3
      <3> QED BY <2>1, <2>2, <3>1 DEF SetHubs
    <2>5. \E n \in DOMAIN setHub'.prs : setHub'.prs[n] = new
      <3> HIDE DEF new
      <3>1. /\ Len(setHub.prs) + 1 \in DOMAIN Append(setHub.prs, new)
            /\ Append(setHub.prs, new)[Len(setHub.prs) + 1] = new
        BY <2>3
      <3> QED BY <2>4, <3>1
    <2>6. /\ setRows' \in [Items \cup {"gate"} -> SetRowStates]
          /\ \A i \in Items :
                /\ setRows'[i] = "proposed" => i \in setCall.proposed
                /\ setRows'[i] = "already" => i \in setCall.want \ setCall.proposed
      BY <2>1, <2>2 DEF SetRowStates
    <2>7. SetTypes' BY <1>1, <2>1, <2>4, <2>6 DEF SetInv, SetTypes
    <2>8. HeldInv' BY <1>1, <2>1 DEF SetInv, HeldInv, SetBuilds, SetOffers
    <2>9. WantInv' BY <2>1 DEF WantInv, SetBuilds, SetOffers
    <2>10. AheadInv' BY <1>1, <2>1, <2>4 DEF SetInv, AheadInv, SetUnderWay, SetBuilds, SetOffers
    <2>11. OfferInv' BY <2>1 DEF OfferInv
    <2>12. \A i \in setCall.want \ setCall.proposed : i \in setCall.base \cup setHist.left
      BY <2>2 DEF Differs
    <2>13. \A i \in setCall.proposed :
              i \in setHub.head \cup setHist.left
              /\ \E n \in DOMAIN setHub'.prs : i \in setHub'.prs[n].names
      BY <2>2, <2>5
    <2>14. RowInv' BY <1>1, <2>1, <2>4, <2>6, <2>12, <2>13 DEF RowInv, NothingStranded
    <2> QED BY <2>7, <2>8, <2>9, <2>10, <2>11, <2>14 DEF SetInv
  <1> QED BY <1>2, <1>3

(* People change what a call is not at work on: GitHub and the checkout,   *)
(* the worktree between calls alone.  What an item taken away was on stays *)
(* known, and a pull request keeps the names it was opened with.           *)
LEMMA SetPeopleKeep ==
  ASSUME SetInv, UNCHANGED <<setPc, setCall, setRows>>,
         setHome' \in SetHomes, setHub' \in SetHubs, setHist' \in SetHists,
         setHist'.left = setHist.left, setHist.gone \subseteq setHist'.gone,
         setHub.main \subseteq setHub'.main \cup setHist'.gone, setHub'.head = setHub.head,
         DOMAIN setHub'.prs = DOMAIN setHub.prs,
         \A n \in DOMAIN setHub.prs :
            /\ setHub'.prs[n].names = setHub.prs[n].names
            /\ setHub'.prs[n].state = "OPEN" => setHub.prs[n].state = "OPEN",
         \/ setHome'.tree = setHome.tree /\ setHome'.head = setHome.head
            /\ setHome'.staged = setHome.staged
         \/ setPc \in {"rest", "end"} /\ setHome'.tree = {},
         ~setHome'.ahead => setHome'.head \subseteq setHub'.main \cup setHist'.gone,
         ~setHub'.ahead => setHub'.head \subseteq setHub'.main \cup setHist'.gone,
         setPc \in SetUnderWay => setHome'.ahead = setHome.ahead /\ setHub'.ahead = setHub.ahead
  PROVE  SetInv'
  <1>1. SetTypes' BY DEF SetInv, SetTypes
  <1>2. NextItem' = NextItem BY DEF NextItem, NextToDo
  <1>3. HeldInv' BY <1>2 DEF SetInv, HeldInv, SetBuilds, SetOffers
  <1>4. WantInv' BY <1>2 DEF SetInv, WantInv, SetBuilds, SetOffers
  <1>5. HasPR("OPEN")' => HasPR("OPEN") BY DEF HasPR
  <1>6. AheadInv' BY <1>5 DEF SetInv, AheadInv, SetUnderWay, SetBuilds, SetOffers
  <1>7. OfferInv' BY DEF SetInv, OfferInv, Differs
  <1>8. RowInv' BY DEF SetInv, RowInv, NothingStranded
  <1> QED BY <1>1, <1>3, <1>4, <1>6, <1>7, <1>8 DEF SetInv

LEMMA SetupDiesKeeps == SetInv /\ SetupDies => SetInv'
  BY StopsKeeps DEF SetupDies

LEMMA SetMoves ==
  ASSUME SetInv, NEW gone \in SUBSET Items, Moves(gone)
  PROVE  /\ UNCHANGED <<setPc, setCall, setRows>> /\ setHist' \in SetHists
         /\ setHist'.left = setHist.left /\ setHist'.gone = setHist.gone \cup gone
  <1>1. /\ setHist' = [setHist EXCEPT !.moves = @ + 1, !.gone = @ \cup gone]
        /\ UNCHANGED <<setPc, setCall, setRows>>
    BY DEF Moves
  <1> DEFINE moved == [setHist EXCEPT !.moves = @ + 1]
  <1>2. moved \in SetHists /\ moved.left = setHist.left /\ moved.gone = setHist.gone
    BY DEF SetInv, SetTypes, SetHists
  <1>3. setHist' = [moved EXCEPT !.gone = @ \cup gone] BY <1>1
  <1> HIDE DEF moved
  <1> QED BY <1>1, <1>2, <1>3 DEF SetHists

(* A pull request that a person decides stays what it was otherwise.       *)
Decided(prs, n, state) == [prs EXCEPT ![n].state = state]
LEMMA OneIsDecided ==
  ASSUME NEW prs \in Seq(SetPRs), NEW n \in DOMAIN prs, NEW state \in {"MERGED", "CLOSED"}
  PROVE  /\ Decided(prs, n, state) \in Seq(SetPRs)
         /\ DOMAIN Decided(prs, n, state) = DOMAIN prs
         /\ \A m \in DOMAIN prs :
               /\ Decided(prs, n, state)[m].names = prs[m].names
               /\ Decided(prs, n, state)[m].state = "OPEN" => prs[m].state = "OPEN"
  <1> DEFINE decided == Decided(prs, n, state)
  <1> DEFINE pr == [prs[n] EXCEPT !.state = state]
  <1>1. pr \in SetPRs /\ pr.names = prs[n].names /\ pr.state # "OPEN"
    <2>1. prs[n] \in SetPRs OBVIOUS
    <2> QED BY <2>1 DEF SetPRs
  <1>2. decided = [prs EXCEPT ![n] = pr] BY DEF Decided
  <1> HIDE DEF pr
  <1>3. decided \in Seq(SetPRs) /\ DOMAIN decided = DOMAIN prs BY <1>1, <1>2
  <1>4. \A m \in DOMAIN prs : decided[m] = IF m = n THEN pr ELSE prs[m] BY <1>2
  <1> QED BY <1>1, <1>3, <1>4

LEMMA PersonMergesSetupKeeps == SetInv /\ PersonMergesSetup => SetInv'
  <1> SUFFICES ASSUME SetInv, PersonMergesSetup PROVE SetInv'
    OBVIOUS
  <1>1. PICK n \in DOMAIN setHub.prs, squash \in BOOLEAN, kept \in BOOLEAN :
           /\ setHub.prs[n].state = "OPEN"
           /\ setHub' = [setHub EXCEPT !.prs[n].state = "MERGED", !.main = @ \cup setHub.head,
                                       !.ahead = squash, !.branch = kept]
           /\ setHome' = [setHome EXCEPT !.ahead = @ /\ (squash \/ setHome.head # setHub.head)]
    BY DEF PersonMergesSetup
  <1>2. /\ UNCHANGED <<setPc, setCall, setRows>> /\ setHist' \in SetHists
        /\ setHist'.left = setHist.left /\ setHist'.gone = setHist.gone
    <2>1. Moves({}) BY DEF PersonMergesSetup
    <2> QED BY <2>1, SetMoves
  <1>3. setHub \in SetHubs /\ setHome \in SetHomes BY DEF SetInv, SetTypes
  <1> DEFINE decided == Decided(setHub.prs, n, "MERGED")
  <1>4. /\ decided \in Seq(SetPRs) /\ DOMAIN decided = DOMAIN setHub.prs
        /\ \A m \in DOMAIN setHub.prs :
              /\ decided[m].names = setHub.prs[m].names
              /\ decided[m].state = "OPEN" => setHub.prs[m].state = "OPEN"
    <2>1. setHub.prs \in Seq(SetPRs) BY <1>3 DEF SetHubs
    <2> QED BY <2>1, OneIsDecided
  <1>5. setHub' = [setHub EXCEPT !.prs = decided, !.main = @ \cup setHub.head,
                                 !.ahead = squash, !.branch = kept]
    BY <1>1 DEF Decided
  <1> HIDE DEF decided
  <1>6. /\ setHub' \in SetHubs /\ setHub'.prs = decided /\ setHub'.head = setHub.head
        /\ setHub'.main = setHub.main \cup setHub.head /\ setHub'.ahead = squash
    <2> DEFINE landed == [setHub EXCEPT !.prs = decided, !.main = @ \cup setHub.head]
    <2>1. /\ landed \in SetHubs /\ landed.prs = decided /\ landed.head = setHub.head
          /\ landed.main = setHub.main \cup setHub.head
      BY <1>3, <1>4 DEF SetHubs
    <2>2. setHub' = [landed EXCEPT !.ahead = squash, !.branch = kept] BY <1>5
    <2> HIDE DEF landed
    <2> QED BY <2>1, <2>2 DEF SetHubs
  <1>7. /\ setHome' \in SetHomes /\ setHome'.tree = setHome.tree
        /\ setHome'.head = setHome.head /\ setHome'.staged = setHome.staged
        /\ setHome'.ahead = (setHome.ahead /\ (squash \/ setHome.head # setHub.head))
    BY <1>1, <1>3 DEF SetHomes
  <1>8. setPc \notin SetUnderWay BY <1>1 DEF SetInv, AheadInv, HasPR
  <1>9. ~setHome'.ahead => setHome'.head \subseteq setHub'.main \cup setHist'.gone
    BY <1>2, <1>6, <1>7 DEF SetInv, AheadInv
  <1>10. ~setHub'.ahead => setHub'.head \subseteq setHub'.main \cup setHist'.gone
    BY <1>6
  <1> QED BY <1>2, <1>4, <1>6, <1>7, <1>8, <1>9, <1>10, SetPeopleKeep

LEMMA PersonClosesSetupKeeps == SetInv /\ PersonClosesSetup => SetInv'
  <1> SUFFICES ASSUME SetInv, PersonClosesSetup PROVE SetInv'
    OBVIOUS
  <1>1. PICK n \in DOMAIN setHub.prs :
           /\ setHub.prs[n].state = "OPEN"
           /\ setHub' = [setHub EXCEPT !.prs[n].state = "CLOSED"] /\ UNCHANGED setHome
    BY DEF PersonClosesSetup
  <1>2. /\ UNCHANGED <<setPc, setCall, setRows>> /\ setHist' \in SetHists
        /\ setHist'.left = setHist.left /\ setHist'.gone = setHist.gone
    <2>1. Moves({}) BY DEF PersonClosesSetup
    <2> QED BY <2>1, SetMoves
  <1>3. setHub \in SetHubs /\ setHome \in SetHomes BY DEF SetInv, SetTypes
  <1> DEFINE decided == Decided(setHub.prs, n, "CLOSED")
  <1>4. /\ decided \in Seq(SetPRs) /\ DOMAIN decided = DOMAIN setHub.prs
        /\ \A m \in DOMAIN setHub.prs :
              /\ decided[m].names = setHub.prs[m].names
              /\ decided[m].state = "OPEN" => setHub.prs[m].state = "OPEN"
    <2>1. setHub.prs \in Seq(SetPRs) BY <1>3 DEF SetHubs
    <2> QED BY <2>1, OneIsDecided
  <1>5. setHub' = [setHub EXCEPT !.prs = decided] BY <1>1 DEF Decided
  <1> HIDE DEF decided
  <1>6. /\ setHub' \in SetHubs /\ setHub'.prs = decided /\ setHub'.head = setHub.head
        /\ setHub'.main = setHub.main /\ setHub'.ahead = setHub.ahead
    BY <1>3, <1>4, <1>5 DEF SetHubs
  <1>7. /\ setHome'.tree = setHome.tree /\ setHome'.head = setHome.head
        /\ setHome'.staged = setHome.staged /\ setHome'.ahead = setHome.ahead
        /\ setHome' \in SetHomes
    BY <1>1, <1>3
  <1>8. ~setHome'.ahead => setHome'.head \subseteq setHub'.main \cup setHist'.gone
    BY <1>2, <1>6, <1>7 DEF SetInv, AheadInv
  <1>9. ~setHub'.ahead => setHub'.head \subseteq setHub'.main \cup setHist'.gone
    BY <1>2, <1>6 DEF SetInv, AheadInv
  <1> QED BY <1>2, <1>4, <1>6, <1>7, <1>8, <1>9, SetPeopleKeep

LEMMA PersonTidiesSetupKeeps ==
  SetInv /\ (PersonPulls \/ PersonRemovesTree \/ PersonMakesGate) => SetInv'
  <1> SUFFICES ASSUME SetInv, PersonPulls \/ PersonRemovesTree \/ PersonMakesGate PROVE SetInv'
    OBVIOUS
  <1>1. /\ UNCHANGED <<setPc, setCall, setRows>> /\ setHist' \in SetHists
        /\ setHist'.left = setHist.left /\ setHist'.gone = setHist.gone
    <2>1. Moves({}) BY DEF PersonPulls, PersonRemovesTree, PersonMakesGate
    <2> QED BY <2>1, SetMoves
  <1>2. /\ setHub \in SetHubs /\ setHome \in SetHomes /\ {} \in SUBSET Items
        /\ ~setHome.ahead => setHome.head \subseteq setHub.main \cup setHist.gone
        /\ ~setHub.ahead => setHub.head \subseteq setHub.main \cup setHist.gone
    BY DEF SetInv, SetTypes, AheadInv
  <1>3. CASE PersonPulls
    <2>1. setHub' = setHub /\ setHome' = [setHome EXCEPT !.dir = setHub.main]
      BY <1>3 DEF PersonPulls
    <2>2. /\ setHome' \in SetHomes /\ setHome'.tree = setHome.tree
          /\ setHome'.head = setHome.head /\ setHome'.staged = setHome.staged
          /\ setHome'.ahead = setHome.ahead
      BY <1>2, <2>1 DEF SetHomes, SetHubs
    <2> QED BY <1>1, <1>2, <2>1, <2>2, SetPeopleKeep
  <1>4. CASE PersonRemovesTree
    <2> DEFINE bare == [setHome EXCEPT !.worktree = FALSE, !.tree = {}, !.staged = {}]
    <2>1. /\ setPc \in {"rest", "end"} /\ setHub' = setHub
          /\ setHome' \in {bare, [bare EXCEPT !.branch = FALSE, !.head = {}, !.ahead = FALSE]}
      BY <1>4 DEF PersonRemovesTree
    <2>2. /\ bare \in SetHomes /\ bare.tree = {} /\ bare.head = setHome.head
          /\ bare.ahead = setHome.ahead
      BY <1>2 DEF SetHomes
    <2> HIDE DEF bare
    <2>3. /\ setHome' \in SetHomes /\ setHome'.tree = {}
          /\ \/ setHome'.head = setHome.head /\ setHome'.ahead = setHome.ahead
             \/ setHome'.head = {}
      BY <1>2, <2>1, <2>2 DEF SetHomes
    <2>4. setPc \notin SetUnderWay BY <2>1 DEF SetUnderWay, SetBuilds, SetOffers
    <2> QED BY <1>1, <1>2, <2>1, <2>3, <2>4, SetPeopleKeep
  <1>5. CASE PersonMakesGate
    <2>1. setHome' = setHome /\ setHub' = [setHub EXCEPT !.gate = "unmarked"]
      BY <1>5 DEF PersonMakesGate
    <2>2. /\ setHub' \in SetHubs /\ setHub'.main = setHub.main /\ setHub'.head = setHub.head
          /\ setHub'.ahead = setHub.ahead /\ setHub'.prs = setHub.prs
      BY <1>2, <2>1 DEF SetHubs
    <2> QED BY <1>1, <1>2, <2>1, <2>2, SetPeopleKeep
  <1> QED BY <1>3, <1>4, <1>5

LEMMA PersonDropsItemKeeps == SetInv /\ PersonDropsItem => SetInv'
  <1> SUFFICES ASSUME SetInv, PersonDropsItem PROVE SetInv'
    OBVIOUS
  <1>1. PICK i \in setHub.main :
           Moves({i}) /\ setHub' = [setHub EXCEPT !.main = @ \ {i}] /\ UNCHANGED setHome
    BY DEF PersonDropsItem
  <1>2. /\ setHub \in SetHubs /\ setHome \in SetHomes /\ {i} \in SUBSET Items
        /\ ~setHome.ahead => setHome.head \subseteq setHub.main \cup setHist.gone
        /\ ~setHub.ahead => setHub.head \subseteq setHub.main \cup setHist.gone
    BY DEF SetInv, SetTypes, SetHubs, AheadInv
  <1>3. /\ UNCHANGED <<setPc, setCall, setRows>> /\ setHist' \in SetHists
        /\ setHist'.left = setHist.left /\ setHist'.gone = setHist.gone \cup {i}
    BY <1>1, <1>2, SetMoves
  <1>4. /\ setHub' \in SetHubs /\ setHub'.main = setHub.main \ {i}
        /\ setHub'.head = setHub.head /\ setHub'.ahead = setHub.ahead /\ setHub'.prs = setHub.prs
    BY <1>1, <1>2 DEF SetHubs
  <1> QED BY <1>1, <1>2, <1>3, <1>4, SetPeopleKeep

LEMMA SetNextInv == SetInv /\ [SetupNext]_setVars => SetInv'
  <1> SUFFICES ASSUME SetInv, [SetupNext]_setVars PROVE SetInv'
    OBVIOUS
  <1>1. CASE UNCHANGED setVars
    <2>1. UNCHANGED <<setPc, setCall, setRows, setHome, setHub, setHist>> BY <1>1 DEF setVars
    <2>2. NextItem' = NextItem BY <2>1 DEF NextItem, NextToDo
    <2> QED
      BY <2>1, <2>2
      DEF SetInv, SetTypes, HeldInv, WantInv, AheadInv, OfferInv, RowInv, NothingStranded,
          HasPR, Differs
  <1>2. CASE SetupNext
    BY <1>2, SetupReadsKeeps, SetupLabelsKeeps, SetupAsksKeeps, SetupLooksKeeps,
       SetupFetchesKeeps, SetupOpensTreeKeeps, SetupWritesKeeps, SetupStagesKeeps,
       SetupCommitsKeeps, SetupCountsKeeps, SetupPushesKeeps, SetupCreatesKeeps,
       SetupDiesKeeps, PersonMergesSetupKeeps, PersonClosesSetupKeeps,
       PersonTidiesSetupKeeps, PersonDropsItemKeeps
    DEF SetupNext
  <1> QED BY <1>1, <1>2

(* The invariant, wherever a call is, dies or is run again.                *)
THEOREM SetInductive == SetSpec => []SetInv
  BY SetInitInv, SetNextInv, PTL DEF SetSpec

(* setup_files.go:282: after any number of calls, deaths and deeds of      *)
(* people, an item that the report says is proposed is on the pushed       *)
(* branch under a pull request that names it, and one that it says landed  *)
(* already is on the default branch the call had fetched, unless a stopped *)
(* call left it uncommitted or a person took it away.                      *)
THEOREM NothingIsStranded == SetSpec => []NothingStranded
  <1>1. SetInv => NothingStranded
    BY DEF SetInv, RowInv, NothingStranded
  <1> QED BY <1>1, SetInductive, PTL

-----------------------------------------------------------------------------
(*                   the label pass of plan and health                     *)

IntSpec == IntakeInit /\ [][IntakeNext]_intakeVars

IntLabels == StrayLabels \cup {"proposed"}
IntIssues ==
    [author : {"me", "other", "run"}, labels : SUBSET IntLabels, milestone : BOOLEAN,
     open : BOOLEAN]
IntRows ==
    [n : Nat \ {0}, clean : BOOLEAN, strip : SUBSET IntLabels, add : BOOLEAN, attach : BOOLEAN]
IntEnds ==
    [run : {"none", "clean", "capped", "crashed", "interrupted"},
     exit : {"none", "refused", "ok", "label pass", "interrupted", "run failed"},
     recorded : Nat, notified : Nat]
IntHists ==
    [touched : SUBSET Nat, moves : Nat, stood : SUBSET DOMAIN backlog,
     open : SUBSET DOMAIN backlog, reopened : SUBSET Nat]
IntStarts == {"rest", "preflight", "snapshot"}
IntLeaves == {"name", "pass", "row", "traces"}

IntTypes ==
    /\ intakePc \in IntStarts \cup {"run"} \cup IntLeaves \cup {"end"}
    /\ \E k \in Nat : StandingIssues <= k /\ DOMAIN backlog = 1..k
    /\ backlog \in [DOMAIN backlog -> IntIssues]
    /\ before \in [seen : SUBSET DOMAIN backlog, max : {0} \cup DOMAIN backlog]
    /\ intakePass \in [created : SUBSET DOMAIN backlog, labelled : SUBSET Nat, failures : Nat,
                       unlisted : BOOLEAN, title : BOOLEAN]
    /\ intakeTodo \in [DOMAIN intakeTodo -> IntIssues]
    /\ DOMAIN intakeTodo \subseteq intakePass.created
    /\ intakeRow.n # NoRow =>
          /\ intakeRow \in IntRows /\ intakeRow.n \in intakePass.created
          /\ intakeRow.n \notin DOMAIN intakeTodo
    /\ intakeEnd \in IntEnds
    /\ intakeHist \in IntHists

(* What the run filed was not in the listing before it, and what stood     *)
(* there before is closed since, unless it was listed or somebody reopened *)
(* it; so what the pass goes through is of this account, later than all    *)
(* that was open, and new or reopened.                                     *)
IsLate(n) ==
    /\ \A m \in intakeHist.open : m < n
    /\ n \in intakeHist.stood => n \in intakeHist.reopened
NewInv ==
    /\ intakePc \in IntStarts \/ (intakePc = "end" /\ intakeEnd.run = "none") =>
          \A n \in DOMAIN backlog : backlog[n].author # "run"
    /\ \A n \in DOMAIN backlog : backlog[n].author = "run" => IsNew(n)
    /\ intakePc \in IntStarts => intakePass.created = {}
    /\ intakePc \in {"run"} \cup IntLeaves =>
          /\ \A n \in intakeHist.open : n <= before.max
          /\ \A n \in intakeHist.stood :
                backlog[n].open => n \in intakeHist.open \cup intakeHist.reopened
    /\ \A n \in intakePass.created : Ours(n) /\ IsLate(n)

TraceInv ==
    /\ intakePc \in IntStarts \cup {"run"} => intakeEnd.run = "none"
    /\ intakePc \in IntLeaves => intakeEnd.run # "none"
    /\ intakeEnd.recorded = IF intakePc = "end" /\ intakeEnd.run # "none" THEN 1 ELSE 0
    /\ intakeEnd.notified <= intakeEnd.recorded

(* Of an issue nobody else touched, the listing and the row in hand know   *)
(* the labels; the rows behind it are as they should be, unless an edit    *)
(* failed.                                                                 *)
RunsOwn == {n \in Open \ intakeHist.touched : backlog[n].author = "run"}
InHand(n) ==
    /\ intakeRow.strip = backlog[n].labels \ {"proposed"}
    /\ intakeRow.add <=> "proposed" \notin backlog[n].labels
Known(n) ==
    IF n \in DOMAIN intakeTodo THEN intakeTodo[n].labels = backlog[n].labels
    ELSE IF n = intakeRow.n THEN InHand(n) ELSE Guarded(n)
PassInv ==
    /\ intakePc # "row" => intakeRow.n = NoRow
    /\ intakePc = "row" /\ intakePass.failures = 0 => \A n \in RunsOwn : Known(n)
    /\ intakePc = "traces" /\ ~PassErr => \A n \in RunsOwn : Guarded(n)
    /\ intakePc = "end" /\ intakeEnd.exit \in {"ok", "interrupted", "run failed"} =>
          \A n \in RunsOwn : Guarded(n)

IntInv == IntTypes /\ NewInv /\ TraceInv /\ PassInv

LEMMA IntInitInv == IntakeInit => IntInv
  <1> SUFFICES ASSUME IntakeInit PROVE IntInv
    OBVIOUS
  <1> USE IntakeAssumption
  <1>1. Standing \in IntIssues BY DEF Standing, IntIssues, IntLabels
  <1>2. backlog \in [1..StandingIssues -> IntIssues] /\ DOMAIN backlog = 1..StandingIssues
    BY <1>1 DEF IntakeInit
  <1>3. \A n \in DOMAIN backlog : backlog[n].author # "run" BY DEF IntakeInit, Standing
  <1>4. before \in [seen : SUBSET DOMAIN backlog, max : {0} \cup DOMAIN backlog]
    <2>1. {} \in SUBSET DOMAIN backlog OBVIOUS
    <2> QED BY <2>1 DEF IntakeInit
  <1>5. intakePass \in [created : SUBSET DOMAIN backlog, labelled : SUBSET Nat, failures : Nat,
                        unlisted : BOOLEAN, title : BOOLEAN] /\ intakePass.created = {}
    <2>1. {} \in SUBSET DOMAIN backlog /\ {} \in SUBSET Nat OBVIOUS
    <2> QED BY <2>1 DEF IntakeInit, NoPass
  <1>6. intakeHist \in IntHists
    <2>1. {} \in SUBSET Nat /\ {} \in SUBSET DOMAIN backlog OBVIOUS
    <2> QED BY <2>1 DEF IntakeInit, IntHists
  <1>7. IntTypes
    <2>1. DOMAIN intakeTodo = {} /\ intakeTodo \in [DOMAIN intakeTodo -> IntIssues]
      BY DEF IntakeInit, NoRows
    <2> QED
      BY <1>2, <1>4, <1>5, <1>6, <2>1 DEF IntakeInit, IntTypes, IntEnds, IntStarts, NoRow, NoTraces
  <1>8. NewInv BY <1>3, <1>5 DEF IntakeInit, NewInv, IntLeaves
  <1>9. TraceInv BY DEF IntakeInit, TraceInv, NoTraces, IntLeaves
  <1>10. PassInv BY DEF IntakeInit, PassInv, NoRow
  <1> QED BY <1>7, <1>8, <1>9, <1>10 DEF IntInv

(* A call that changes no issue and is not at the rows keeps what it needs.*)
LEMMA IntCalledKeeps == IntInv /\ (IntakeCalled \/ IntakePreflight) => IntInv'
  <1> SUFFICES ASSUME IntInv, IntakeCalled \/ IntakePreflight PROVE IntInv'
    OBVIOUS
  <1>1. /\ UNCHANGED <<backlog, before, intakeTodo, intakeRow, intakeHist>>
        /\ intakePc \in IntStarts /\ intakePc' \in IntStarts \cup {"end"}
        /\ intakeEnd' \in {intakeEnd, [intakeEnd EXCEPT !.exit = "refused"],
                           [intakeEnd EXCEPT !.exit = "ok"]}
        /\ \/ UNCHANGED intakePass
           \/ intakePass' = [intakePass EXCEPT !.title = intakeOpt.milestone = "given"]
    BY DEF IntakeCalled, IntakePreflight, IntakeAt, IntakeStays, Returns, IntStarts
  <1>2. /\ intakePass' \in [created : SUBSET DOMAIN backlog, labelled : SUBSET Nat,
                            failures : Nat, unlisted : BOOLEAN, title : BOOLEAN]
        /\ intakePass'.created = intakePass.created
    <2>1. (intakeOpt.milestone = "given") \in BOOLEAN OBVIOUS
    <2> QED BY <1>1, <2>1 DEF IntInv, IntTypes
  <1>3. /\ intakeEnd' \in IntEnds
        /\ intakeEnd'.run = intakeEnd.run /\ intakeEnd'.recorded = intakeEnd.recorded
        /\ intakeEnd'.notified = intakeEnd.notified
    BY <1>1 DEF IntInv, IntTypes, IntEnds
  <1>4. IntTypes' BY <1>1, <1>2, <1>3 DEF IntInv, IntTypes, IntHists
  <1>5. NewInv'
    BY <1>1, <1>2, <1>3
    DEF IntInv, NewInv, TraceInv, IsNew, IsLate, Ours, IntStarts, IntLeaves
  <1>6. TraceInv' BY <1>1, <1>3 DEF IntInv, TraceInv, IntStarts, IntLeaves
  <1>7. PassInv'
    <2>1. \A n \in DOMAIN backlog : backlog'[n].author # "run" BY <1>1 DEF IntInv, NewInv
    <2>2. RunsOwn' = {} BY <1>1, <2>1 DEF RunsOwn, Open
    <2>3. intakeRow'.n = NoRow BY <1>1 DEF IntInv, PassInv, IntStarts
    <2> QED BY <2>2, <2>3 DEF PassInv
  <1> QED BY <1>4, <1>5, <1>6, <1>7 DEF IntInv

(* The listing before the run has the highest number that is open.         *)
LEMMA IntSnapshotsKeeps == IntInv /\ IntakeSnapshots => IntInv'
  <1> SUFFICES ASSUME IntInv, IntakeSnapshots PROVE IntInv'
    OBVIOUS
  <1>1. /\ UNCHANGED <<backlog, intakeTodo, intakeRow, intakePass>>
        /\ intakePc = "snapshot"
        /\ \/ /\ UNCHANGED <<before, intakeHist>> /\ intakePc' = "end"
              /\ intakeEnd' = [intakeEnd EXCEPT !.exit = "refused"]
           \/ /\ \E page \in Pages : before' = [seen |-> page, max |-> Highest(page)]
              /\ intakePc' = "run" /\ UNCHANGED intakeEnd
              /\ intakeHist' = [intakeHist EXCEPT !.stood = DOMAIN backlog, !.open = Open,
                                                  !.reopened = {}]
    BY DEF IntakeSnapshots, IntakeAt, Returns
  <1>2. PICK k \in Nat : StandingIssues <= k /\ DOMAIN backlog = 1..k
    BY DEF IntInv, IntTypes
  <1>3. ASSUME NEW s \in SUBSET DOMAIN backlog, s # {}
        PROVE  Highest(s) \in s /\ \A n \in s : n <= Highest(s)
    <2>1. s \in SUBSET Int /\ IsFiniteSet(s)
      <3>1. IsFiniteSet(1..k) BY FS_Interval
      <3> QED BY <1>2, <3>1, FS_Subset
    <2>2. \E n \in s : \A m \in s : m <= n BY <1>3, <2>1, Largest
    <2> QED BY <1>3, <2>2 DEF Highest
  <1>4. ASSUME NEW page \in Pages
        PROVE  /\ page \in SUBSET DOMAIN backlog /\ Highest(page) \in {0} \cup DOMAIN backlog
               /\ \A n \in Open : n <= Highest(page)
    <2>1. Open \in SUBSET DOMAIN backlog BY DEF Open
    <2>2. page \in SUBSET DOMAIN backlog BY <1>4, <2>1 DEF Pages
    <2>3. Highest(page) \in {0} \cup DOMAIN backlog
      <3>1. CASE page = {} BY <3>1 DEF Highest
      <3>2. CASE page # {} BY <2>2, <3>2, <1>3
      <3> QED BY <3>1, <3>2
    <2>4. ASSUME NEW n \in Open PROVE n <= Highest(page)
      <3>1. Highest(Open) \in Open /\ n <= Highest(Open) BY <1>3, <2>1
      <3>2. Highest(Open) \in page
        <4>1. page = Open \/ \E m \in Open : m < Highest(Open) /\ page = Open \ {m}
          BY <1>4 DEF Pages
        <4> QED BY <1>2, <2>1, <3>1, <4>1
      <3>3. Highest(Open) <= Highest(page) BY <1>3, <2>2, <3>2
      <3>4. n \in Int /\ Highest(Open) \in Int /\ Highest(page) \in Int
        BY <1>2, <2>1, <2>3, <3>1
      <3> QED BY <3>1, <3>3, <3>4
    <2> QED BY <2>2, <2>3, <2>4
  <1>5. \A n \in DOMAIN backlog : backlog[n].author # "run"
    BY <1>1 DEF IntInv, NewInv, IntStarts
  <1>6. /\ before' \in [seen : SUBSET DOMAIN backlog, max : {0} \cup DOMAIN backlog]
        /\ intakePc' = "run" => \A n \in Open : n <= before'.max
    <2>1. CASE UNCHANGED before /\ intakePc' = "end" BY <2>1 DEF IntInv, IntTypes
    <2>2. CASE \E page \in Pages : before' = [seen |-> page, max |-> Highest(page)]
      <3>1. PICK page \in Pages : before' = [seen |-> page, max |-> Highest(page)] BY <2>2
      <3>2. before'.max = Highest(page) BY <3>1
      <3> QED BY <3>1, <3>2, <1>4
    <2> QED BY <1>1, <2>1, <2>2
  <1>7. /\ intakeEnd' \in IntEnds
        /\ intakeEnd'.run = intakeEnd.run /\ intakeEnd'.recorded = intakeEnd.recorded
        /\ intakeEnd'.notified = intakeEnd.notified
    BY <1>1 DEF IntInv, IntTypes, IntEnds
  <1>8. /\ intakeHist' \in IntHists
        /\ intakePc' = "run" => intakeHist'.stood = DOMAIN backlog /\ intakeHist'.open = Open
    <2>1. CASE UNCHANGED intakeHist /\ intakePc' = "end"
      BY <1>1, <2>1 DEF IntInv, IntTypes, IntHists
    <2>2. CASE intakeHist' = [intakeHist EXCEPT !.stood = DOMAIN backlog, !.open = Open,
                                                !.reopened = {}]
      <3>1. /\ intakeHist \in IntHists /\ Open \in SUBSET DOMAIN backlog
            /\ DOMAIN backlog \in SUBSET DOMAIN backlog /\ {} \in SUBSET Nat
        BY DEF IntInv, IntTypes, Open
      <3> DEFINE stood == [intakeHist EXCEPT !.stood = DOMAIN backlog]
                 open == [stood EXCEPT !.open = Open]
      <3>2. stood \in IntHists /\ stood.stood = DOMAIN backlog BY <3>1 DEF IntHists
      <3>3. intakeHist' = [open EXCEPT !.reopened = {}] BY <2>2
      <3> HIDE DEF stood
      <3>4. open \in IntHists /\ open.stood = DOMAIN backlog /\ open.open = Open
        BY <3>1, <3>2 DEF IntHists
      <3> HIDE DEF open
      <3>5. /\ intakeHist' \in [touched : SUBSET Nat, moves : Nat, stood : SUBSET DOMAIN backlog,
                                open : SUBSET DOMAIN backlog, reopened : SUBSET Nat]
            /\ intakeHist'.stood = DOMAIN backlog /\ intakeHist'.open = Open
        BY <3>1, <3>3, <3>4 DEF IntHists
      <3> QED BY <1>1, <3>5 DEF IntHists
    <2> QED BY <1>1, <2>1, <2>2
  <1>9. IntTypes' BY <1>1, <1>6, <1>7, <1>8 DEF IntInv, IntTypes, IntHists
  <1>12. NewInv'
    <2>1. intakePass.created = {} BY <1>1 DEF IntInv, NewInv, IntStarts
    <2>2. \A n \in DOMAIN backlog : backlog[n].open => n \in Open BY DEF Open
    <2> QED BY <1>1, <1>5, <1>6, <1>8, <2>1, <2>2 DEF NewInv, IntStarts, IntLeaves
  <1>10. TraceInv' BY <1>1, <1>7 DEF IntInv, TraceInv, IntStarts, IntLeaves
  <1>11. PassInv'
    <2>1. RunsOwn' = {} BY <1>1, <1>5 DEF RunsOwn, Open
    <2>2. intakeRow'.n = NoRow BY <1>1 DEF IntInv, PassInv
    <2> QED BY <2>1, <2>2 DEF PassInv
  <1> QED BY <1>9, <1>10, <1>11, <1>12 DEF IntInv

(* A new issue has the number after the last, so no listing knew it.       *)
LEMMA IntFiled ==
  ASSUME IntTypes, NEW author \in {"me", "other", "run"}, NEW labels \in SUBSET IntLabels,
         Filed(author, labels)
  PROVE  /\ NextIssue \notin DOMAIN backlog /\ NextIssue \in Nat \ {0}
         /\ StandingIssues < NextIssue /\ \A n \in DOMAIN backlog : n < NextIssue
         /\ DOMAIN backlog' = DOMAIN backlog \cup {NextIssue}
         /\ \E k \in Nat : StandingIssues <= k /\ DOMAIN backlog' = 1..k
         /\ backlog' \in [DOMAIN backlog' -> IntIssues]
         /\ \A n \in DOMAIN backlog : backlog'[n] = backlog[n]
         /\ backlog'[NextIssue].author = author
  <1> USE IntakeAssumption
  <1>1. PICK k \in Nat : StandingIssues <= k /\ DOMAIN backlog = 1..k BY DEF IntTypes
  <1>2. NextIssue = k + 1
    <2>1. Cardinality(1..k) = k BY FS_Interval
    <2> QED BY <1>1, <2>1 DEF NextIssue
  <1> DEFINE new == [author |-> author, labels |-> labels, milestone |-> FALSE, open |-> TRUE]
  <1>3. new \in IntIssues /\ new.author = author BY DEF IntIssues
  <1>4. backlog' = [n \in 1..(k + 1) |-> IF n = k + 1 THEN new ELSE backlog[n]]
    BY <1>2 DEF Filed
  <1> HIDE DEF new
  <1>5. DOMAIN backlog' = 1..(k + 1) /\ 1..(k + 1) = 1..k \cup {k + 1} BY <1>4
  <1>6. backlog' \in [1..(k + 1) -> IntIssues] BY <1>1, <1>3, <1>4, <1>5 DEF IntTypes
  <1>7. /\ \A n \in 1..k : backlog'[n] = backlog[n]
        /\ backlog'[k + 1] = new
    BY <1>4
  <1> QED BY <1>1, <1>2, <1>3, <1>5, <1>6, <1>7

LEMMA IntRunFilesKeeps == IntInv /\ RunFilesIssue => IntInv'
  <1> SUFFICES ASSUME IntInv, RunFilesIssue PROVE IntInv'
    OBVIOUS
  <1>1. /\ intakePc = "run" /\ intakePc' = "run"
        /\ UNCHANGED <<before, intakeTodo, intakeRow, intakePass, intakeEnd, intakeHist>>
    BY DEF RunFilesIssue, IntakeAt
  <1>2. PICK l \in SUBSET IntLabels : Filed("run", l) BY DEF RunFilesIssue, IntLabels
  <1>3. /\ NextIssue \notin DOMAIN backlog /\ NextIssue \in Nat \ {0}
        /\ StandingIssues < NextIssue /\ \A n \in DOMAIN backlog : n < NextIssue
        /\ DOMAIN backlog' = DOMAIN backlog \cup {NextIssue}
        /\ \E k \in Nat : StandingIssues <= k /\ DOMAIN backlog' = 1..k
        /\ backlog' \in [DOMAIN backlog' -> IntIssues]
        /\ \A n \in DOMAIN backlog : backlog'[n] = backlog[n]
        /\ backlog'[NextIssue].author = "run"
    BY <1>2, IntFiled DEF IntInv
  <1>4. IntTypes'
    <2>1. intakeHist \in IntHists' BY <1>3 DEF IntInv, IntTypes, IntHists
    <2> QED BY <1>1, <1>3, <2>1 DEF IntInv, IntTypes
  <1>5. NewInv'
    <2>1. before.seen \subseteq DOMAIN backlog /\ before.max \in {0} \cup DOMAIN backlog
      BY DEF IntInv, IntTypes
    <2>2. IsNew(NextIssue) BY <1>3, <2>1 DEF IsNew
    <2>3. \A n \in intakePass.created : n \in DOMAIN backlog /\ Ours(n) /\ IsLate(n)
      BY DEF IntInv, IntTypes, NewInv
    <2>4. \A n \in intakePass.created : Ours(n)' /\ IsLate(n)'
      BY <1>1, <1>3, <2>3 DEF Ours, IsLate
    <2>5. intakeHist.stood \subseteq DOMAIN backlog BY DEF IntInv, IntTypes, IntHists
    <2>6. /\ \A n \in intakeHist.open : n <= before.max
          /\ \A n \in intakeHist.stood :
                backlog'[n].open => n \in intakeHist.open \cup intakeHist.reopened
      BY <1>1, <1>3, <2>5 DEF IntInv, NewInv
    <2>7. \A n \in DOMAIN backlog' : backlog'[n].author = "run" => IsNew(n)'
      BY <1>1, <1>3, <2>2 DEF IntInv, NewInv, IsNew
    <2> QED BY <1>1, <2>4, <2>6, <2>7 DEF NewInv, IntStarts
  <1>6. TraceInv' BY <1>1 DEF IntInv, TraceInv, IntStarts, IntLeaves
  <1>7. PassInv' BY <1>1 DEF IntInv, PassInv
  <1> QED BY <1>4, <1>5, <1>6, <1>7 DEF IntInv

(* The steps from the run's end to the rows change no issue.               *)
LEMMA IntRunEndsKeeps == IntInv /\ (IntakeRunEnds \/ NamesMilestone \/ PassLists) => IntInv'
  <1> SUFFICES ASSUME IntInv, IntakeRunEnds \/ NamesMilestone \/ PassLists PROVE IntInv'
    OBVIOUS
  <1>1. intakeRow'.n = NoRow /\ UNCHANGED <<backlog, before, intakeRow, intakeHist>>
    BY DEF IntakeRunEnds, NamesMilestone, PassLists, IntakeStays, IntakeAt, IntInv, PassInv
  <1>2. CASE IntakeRunEnds \/ NamesMilestone
    <2>1. /\ UNCHANGED intakeTodo
          /\ \/ /\ intakePc = "run" /\ intakePc' = "name" /\ UNCHANGED intakePass
                /\ \E e \in {"clean", "capped", "crashed", "interrupted"} :
                      intakeEnd' = [intakeEnd EXCEPT !.run = e]
             \/ /\ intakePc = "name" /\ intakePc' = "pass" /\ UNCHANGED intakeEnd
                /\ \/ UNCHANGED intakePass
                   \/ intakePass' = [intakePass EXCEPT !.title = TRUE]
      BY <1>2 DEF IntakeRunEnds, NamesMilestone, IntakeStays, IntakeAt
    <2>2. /\ intakePass' \in [created : SUBSET DOMAIN backlog, labelled : SUBSET Nat,
                              failures : Nat, unlisted : BOOLEAN, title : BOOLEAN]
          /\ intakePass'.created = intakePass.created
      BY <2>1 DEF IntInv, IntTypes
    <2>3. /\ intakeEnd' \in IntEnds
          /\ intakeEnd'.run # "none" /\ intakeEnd'.recorded = intakeEnd.recorded
          /\ intakeEnd'.notified = intakeEnd.notified
      BY <2>1 DEF IntInv, IntTypes, IntEnds, TraceInv, IntLeaves
    <2>4. IntTypes' BY <1>1, <2>1, <2>2, <2>3 DEF IntInv, IntTypes, IntHists, IntLeaves
    <2>5. NewInv'
      BY <1>1, <2>1, <2>2 DEF IntInv, NewInv, IsNew, IsLate, Ours, IntStarts, IntLeaves
    <2>6. TraceInv' BY <2>1, <2>3 DEF IntInv, TraceInv, IntStarts, IntLeaves
    <2>7. PassInv' BY <1>1, <2>1 DEF PassInv
    <2> QED BY <2>4, <2>5, <2>6, <2>7 DEF IntInv
  <1>3. CASE PassLists
    <2> DEFINE new == {m \in Open : Ours(m) /\ IsNew(m)}
    <2>1. /\ intakePc = "pass" /\ UNCHANGED intakeEnd
          /\ \/ /\ intakePass' = [intakePass EXCEPT !.unlisted = TRUE]
                /\ intakeTodo' = NoRows /\ intakePc' = "traces"
             \/ /\ intakeTodo' = [n \in new |-> backlog[n]]
                /\ intakePass' = [intakePass EXCEPT !.created = DOMAIN intakeTodo']
                /\ intakePc' = "row"
      BY <1>3 DEF PassLists, IntakeAt
    <2>2. \A n \in new : n \in DOMAIN backlog /\ Ours(n) /\ IsLate(n)
      <3> SUFFICES ASSUME NEW n \in Open, Ours(n), IsNew(n)
                   PROVE  n \in DOMAIN backlog /\ IsLate(n)
        OBVIOUS
      <3>1. n \in DOMAIN backlog /\ backlog[n].open BY DEF Open
      <3>2. /\ n \in Nat /\ before.max \in Nat
            /\ intakeHist.open \subseteq Nat
        <4>1. PICK k \in Nat : DOMAIN backlog = 1..k BY DEF IntInv, IntTypes
        <4>2. before.max \in {0} \cup DOMAIN backlog BY DEF IntInv, IntTypes
        <4>3. intakeHist.open \subseteq DOMAIN backlog BY DEF IntInv, IntTypes, IntHists
        <4> QED BY <3>1, <4>1, <4>2, <4>3
      <3>3. /\ \A m \in intakeHist.open : m <= before.max
            /\ n \in intakeHist.stood => n \in intakeHist.open \cup intakeHist.reopened
        BY <2>1, <3>1 DEF IntInv, NewInv, IntLeaves
      <3>4. \A m \in intakeHist.open : m < n BY <3>2, <3>3 DEF IsNew
      <3>5. n \notin intakeHist.open BY <3>2, <3>4
      <3> QED BY <3>1, <3>3, <3>4, <3>5 DEF IsLate
    <2>3. /\ intakePass' \in [created : SUBSET DOMAIN backlog, labelled : SUBSET Nat,
                              failures : Nat, unlisted : BOOLEAN, title : BOOLEAN]
          /\ intakeTodo' \in [DOMAIN intakeTodo' -> IntIssues]
          /\ DOMAIN intakeTodo' \subseteq intakePass'.created
          /\ \A n \in intakePass'.created : Ours(n) /\ IsLate(n)
      <3>1. CASE intakePc' = "traces"
        <4>1. DOMAIN intakeTodo' = {} /\ intakeTodo' \in [DOMAIN intakeTodo' -> IntIssues]
          BY <2>1, <3>1 DEF NoRows
        <4>2. intakePass' = [intakePass EXCEPT !.unlisted = TRUE] BY <2>1, <3>1
        <4> QED BY <4>1, <4>2 DEF IntInv, IntTypes, NewInv
      <3>2. CASE intakePc' = "row"
        <4>1. intakeTodo' = [n \in new |-> backlog[n]] /\ new \in SUBSET DOMAIN backlog
          BY <2>1, <2>2, <3>2
        <4>2. DOMAIN intakeTodo' = new /\ intakeTodo' \in [new -> IntIssues]
          BY <4>1 DEF IntInv, IntTypes
        <4>3. intakePass' = [intakePass EXCEPT !.created = new] BY <2>1, <3>2, <4>2
        <4>4. /\ intakePass' \in [created : SUBSET DOMAIN backlog, labelled : SUBSET Nat,
                                  failures : Nat, unlisted : BOOLEAN, title : BOOLEAN]
              /\ intakePass'.created = new
          BY <4>1, <4>3 DEF IntInv, IntTypes
        <4> QED BY <2>2, <4>2, <4>4
      <3> QED BY <2>1, <3>1, <3>2
    <2>4. IntTypes' BY <1>1, <2>1, <2>3 DEF IntInv, IntTypes, IntHists, IntLeaves
    <2>5. NewInv'
      BY <1>1, <2>1, <2>3 DEF IntInv, NewInv, IsNew, IsLate, Ours, IntStarts, IntLeaves
    <2>6. TraceInv' BY <2>1 DEF IntInv, TraceInv, IntStarts, IntLeaves
    <2>7. PassInv'
      <3>1. CASE intakePc' = "traces"
        <4>1. intakePass'.unlisted BY <2>1, <3>1 DEF IntInv, IntTypes
        <4> QED BY <1>1, <3>1, <4>1 DEF PassInv, PassErr
      <3>2. CASE intakePc' = "row"
        <4>1. \A n \in RunsOwn : Ours(n) /\ IsNew(n) /\ n \in Open
          BY DEF RunsOwn, Ours, IntInv, NewInv, Open
        <4>2. RunsOwn' = RunsOwn BY <1>1 DEF RunsOwn, Open
        <4>3. \A n \in RunsOwn : Known(n)'
          <5>1. intakeTodo' = [n \in new |-> backlog[n]] BY <2>1, <3>2
          <5> QED BY <1>1, <4>1, <5>1 DEF Known
        <4> QED BY <3>2, <4>2, <4>3 DEF PassInv
      <3> QED BY <2>1, <3>1, <3>2
    <2> QED BY <2>4, <2>5, <2>6, <2>7 DEF IntInv
  <1> QED BY <1>2, <1>3

(* One row: each edit brings the issue nearer to what the row still has to *)
(* do, or counts as failed.                                                *)
LEMMA IntTakesKeeps == IntInv /\ PassTakes => IntInv'
  <1> SUFFICES ASSUME IntInv, PassTakes PROVE IntInv'
    OBVIOUS
  <1>1. /\ intakePc = "row" /\ intakeRow.n = NoRow
        /\ UNCHANGED <<backlog, before, intakePass, intakeEnd, intakeHist>>
    BY DEF PassTakes, IntakeAt
  <1>2. NewInv' /\ TraceInv' /\ RunsOwn' = RunsOwn
    <2>1. intakePc' \in {"row", "traces"} BY DEF PassTakes
    <2> QED
      BY <1>1, <2>1
      DEF IntInv, NewInv, TraceInv, IsNew, IsLate, Ours, RunsOwn, Open, IntStarts, IntLeaves
  <1>3. CASE DOMAIN intakeTodo = {}
    <2>1. intakePc' = "traces" /\ UNCHANGED <<intakeTodo, intakeRow>>
      BY <1>3 DEF PassTakes
    <2>2. IntTypes' BY <1>1, <2>1 DEF IntInv, IntTypes, IntHists, IntLeaves
    <2>3. intakePass.failures \in Nat BY DEF IntInv, IntTypes
    <2>4. \A n \in RunsOwn : n # NoRow
      <3>1. PICK k \in Nat : DOMAIN backlog = 1..k BY DEF IntInv, IntTypes
      <3> QED BY <3>1 DEF RunsOwn, Open, NoRow
    <2>5. PassInv' BY <1>1, <1>2, <1>3, <2>1, <2>3, <2>4 DEF IntInv, PassInv, PassErr, Guarded, Known
    <2> QED BY <1>2, <2>2, <2>5 DEF IntInv
  <1>4. CASE DOMAIN intakeTodo # {}
    <2> DEFINE row(n) == [n |-> n, clean |-> TRUE, strip |-> intakeTodo[n].labels \ {"proposed"},
                          add |-> "proposed" \notin intakeTodo[n].labels,
                          attach |-> intakePass.title /\ ~intakeTodo[n].milestone]
    <2>1. PICK n \in DOMAIN intakeTodo :
             /\ intakeTodo' = [m \in DOMAIN intakeTodo \ {n} |-> intakeTodo[m]]
             /\ intakePc' = "row" /\ intakeRow' = row(n)
      BY <1>4 DEF PassTakes
    <2>2. n \in intakePass.created /\ n \in DOMAIN backlog /\ n \in Nat \ {0}
      <3>1. PICK k \in Nat : DOMAIN backlog = 1..k BY DEF IntInv, IntTypes
      <3>2. DOMAIN intakeTodo \subseteq intakePass.created /\ intakePass.created \subseteq DOMAIN backlog
        BY DEF IntInv, IntTypes
      <3> QED BY <3>1, <3>2
    <2>3. row(n) \in IntRows
      <3>1. intakeTodo[n] \in IntIssues BY DEF IntInv, IntTypes
      <3>2. (intakePass.title /\ ~intakeTodo[n].milestone) \in BOOLEAN
            /\ ("proposed" \notin intakeTodo[n].labels) \in BOOLEAN
        OBVIOUS
      <3> QED BY <2>2, <3>1, <3>2 DEF IntIssues, IntRows
    <2>8. /\ DOMAIN intakeTodo' = DOMAIN intakeTodo \ {n}
          /\ \A m \in DOMAIN intakeTodo' : intakeTodo'[m] = intakeTodo[m]
          /\ intakeTodo' \in [DOMAIN intakeTodo' -> IntIssues]
      BY <2>1 DEF IntInv, IntTypes
    <2>4. IntTypes'
      <3>1. intakeRow'.n = n BY <2>1
      <3> HIDE DEF row
      <3> QED BY <1>1, <2>1, <2>2, <2>3, <2>8, <3>1 DEF IntInv, IntTypes, IntHists, IntLeaves
    <2>5. \A m \in RunsOwn : m # NoRow
      <3>1. PICK k \in Nat : DOMAIN backlog = 1..k BY DEF IntInv, IntTypes
      <3> QED BY <3>1 DEF RunsOwn, Open, NoRow
    <2>6. /\ intakeRow'.n = n /\ intakeRow'.strip = intakeTodo[n].labels \ {"proposed"}
          /\ intakeRow'.add <=> "proposed" \notin intakeTodo[n].labels
      BY <2>1
    <2> HIDE DEF row
    <2>7. PassInv'
      <3>1. ASSUME intakePass.failures = 0, NEW m \in RunsOwn
            PROVE  Known(m)'
        <4>1. IF m \in DOMAIN intakeTodo THEN intakeTodo[m].labels = backlog[m].labels
              ELSE Guarded(m)
          BY <1>1, <2>5, <3>1 DEF IntInv, PassInv, Known
        <4>2. CASE m = n
          <5>1. m \notin DOMAIN intakeTodo' /\ intakeTodo[m].labels = backlog[m].labels
            BY <2>8, <4>1, <4>2
          <5> QED BY <1>1, <2>6, <4>2, <5>1 DEF Known, InHand
        <4>3. CASE m # n BY <1>1, <2>6, <2>8, <4>1, <4>3 DEF Known, Guarded
        <4> QED BY <4>2, <4>3
      <3> QED BY <1>1, <1>2, <2>1, <3>1 DEF PassInv
    <2> QED BY <1>2, <2>4, <2>7 DEF IntInv
  <1> QED BY <1>3, <1>4

(* What an edit does to the issue in hand, and to no other.                *)
LEMMA IntEdit ==
  ASSUME IntTypes, intakeRow.n # NoRow, NEW b \in IntIssues, Edited(b),
         b.author = backlog[intakeRow.n].author, b.open = backlog[intakeRow.n].open
  PROVE  /\ DOMAIN backlog' = DOMAIN backlog /\ backlog' \in [DOMAIN backlog -> IntIssues]
         /\ intakeRow.n \in DOMAIN backlog /\ backlog'[intakeRow.n] = b /\ UNCHANGED intakePass
         /\ \A n \in DOMAIN backlog : n # intakeRow.n => backlog'[n] = backlog[n]
         /\ \A n \in DOMAIN backlog :
               backlog'[n].author = backlog[n].author /\ backlog'[n].open = backlog[n].open
  <1>1. intakeRow.n \in DOMAIN backlog BY DEF IntTypes
  <1>2. backlog' = [backlog EXCEPT ![intakeRow.n] = b] /\ UNCHANGED intakePass BY DEF Edited
  <1> QED BY <1>1, <1>2 DEF IntTypes

(* A step on the row in hand: the row may change as its types allow, the   *)
(* issue in hand keeps who filed it, and either an edit failed or the row  *)
(* knows the new labels.                                                   *)
LEMMA IntRowKeeps ==
  ASSUME IntInv, RowStep, UNCHANGED intakeTodo, NEW h, h = intakeRow.n,
         DOMAIN backlog' = DOMAIN backlog, backlog' \in [DOMAIN backlog -> IntIssues],
         \A n \in DOMAIN backlog : n # intakeRow.n => backlog'[n] = backlog[n],
         \A n \in DOMAIN backlog :
            backlog'[n].author = backlog[n].author /\ backlog'[n].open = backlog[n].open,
         intakePass' \in [created : SUBSET DOMAIN backlog, labelled : SUBSET Nat,
                          failures : Nat, unlisted : BOOLEAN, title : BOOLEAN],
         intakePass'.created = intakePass.created,
         \/ intakeRow' \in IntRows /\ intakeRow'.n = intakeRow.n
         \/ intakeRow'.n = NoRow,
         intakePass'.failures = 0 =>
            /\ intakePass.failures = 0
            /\ InHand(h) => IF intakeRow'.n = NoRow THEN Guarded(h)' ELSE InHand(h)'
  PROVE  IntInv'
  <1>1. /\ intakePc = "row" /\ intakePc' = "row" /\ intakeRow.n # NoRow
        /\ UNCHANGED <<before, intakeTodo, intakeEnd, intakeHist>>
    BY DEF RowStep, IntakeAt
  <1>2. intakeRow \in IntRows /\ intakeRow.n \in intakePass.created
    BY <1>1 DEF IntInv, IntTypes
  <1>3. IntTypes' BY <1>1, <1>2 DEF IntInv, IntTypes, IntHists, IntLeaves
  <1>4. NewInv'
    BY <1>1 DEF IntInv, IntTypes, IntHists, NewInv, IsNew, IsLate, Ours, IntStarts, IntLeaves
  <1>5. TraceInv' BY <1>1 DEF IntInv, TraceInv
  <1>6. PassInv'
    <2>1. RunsOwn' = RunsOwn BY <1>1 DEF RunsOwn, Open
    <2>2. ASSUME intakePass'.failures = 0, NEW n \in RunsOwn
          PROVE  Known(n)'
      <3>1. Known(n) /\ intakeRow.n \notin DOMAIN intakeTodo
        BY <1>1, <2>2 DEF IntInv, IntTypes, PassInv
      <3>2. n \in DOMAIN backlog /\ n # NoRow
        <4>1. PICK k \in Nat : DOMAIN backlog = 1..k BY DEF IntInv, IntTypes
        <4> QED BY <4>1 DEF RunsOwn, Open, NoRow
      <3>3. CASE n = h
        <4>1. InHand(n) /\ n \notin DOMAIN intakeTodo' BY <1>1, <3>1, <3>3 DEF Known
        <4>2. IF intakeRow'.n = NoRow THEN Guarded(n)' ELSE InHand(n)' BY <2>2, <3>3, <4>1
        <4>3. intakeRow'.n = NoRow \/ intakeRow'.n = n BY <3>3
        <4> QED BY <3>2, <4>1, <4>2, <4>3 DEF Known
      <3>4. CASE n # h
        <4>1. backlog'[n] = backlog[n] /\ n # intakeRow.n /\ n # intakeRow'.n
          BY <3>2, <3>4
        <4> QED BY <1>1, <3>1, <4>1 DEF Known, Guarded
      <3> QED BY <3>3, <3>4
    <2> QED BY <1>1, <2>1, <2>2 DEF PassInv
  <1> QED BY <1>3, <1>4, <1>5, <1>6 DEF IntInv

(* The issue in hand, the row and what either may become.                  *)
LEMMA IntHand ==
  ASSUME IntInv, RowStep
  PROVE  /\ intakeRow \in IntRows /\ intakeRow.n # NoRow /\ intakeRow.n \in DOMAIN backlog
         /\ backlog[intakeRow.n] \in IntIssues /\ backlog \in [DOMAIN backlog -> IntIssues]
         /\ intakePass \in [created : SUBSET DOMAIN backlog, labelled : SUBSET Nat,
                            failures : Nat, unlisted : BOOLEAN, title : BOOLEAN]
  BY DEF IntInv, IntTypes, RowStep

(* A failed edit is counted.                                               *)
LEMMA IntEditFails ==
  ASSUME IntInv, RowStep, UNCHANGED intakeTodo, NEW row \in IntRows, row.n = intakeRow.n,
         EditFails(row)
  PROVE  IntInv'
  <1>1. /\ UNCHANGED backlog /\ intakeRow' = row
        /\ intakePass' = [intakePass EXCEPT !.failures = @ + 1]
    BY DEF EditFails
  <1>2. /\ intakePass' \in [created : SUBSET DOMAIN backlog, labelled : SUBSET Nat,
                            failures : Nat, unlisted : BOOLEAN, title : BOOLEAN]
        /\ intakePass'.created = intakePass.created /\ intakePass'.failures # 0
    BY <1>1, IntHand
  <1>3. PICK h : h = intakeRow.n OBVIOUS
  <1> QED BY <1>1, <1>2, <1>3, IntHand, IntRowKeeps

(* An edit that was made: the labels that the row now names are the        *)
(* issue's.                                                                *)
LEMMA IntEditMade ==
  ASSUME IntInv, RowStep, UNCHANGED intakeTodo, NEW row \in IntRows, row.n = intakeRow.n,
         intakeRow' = row, NEW b \in IntIssues, Edited(b),
         b.author = backlog[intakeRow.n].author, b.open = backlog[intakeRow.n].open,
         InHand(intakeRow.n) =>
            /\ row.strip = b.labels \ {"proposed"}
            /\ row.add <=> "proposed" \notin b.labels
  PROVE  IntInv'
  <1>1. IntTypes /\ intakeRow.n # NoRow BY IntHand DEF IntInv
  <1>2. /\ DOMAIN backlog' = DOMAIN backlog /\ backlog' \in [DOMAIN backlog -> IntIssues]
        /\ backlog'[intakeRow.n] = b /\ UNCHANGED intakePass
        /\ \A n \in DOMAIN backlog : n # intakeRow.n => backlog'[n] = backlog[n]
        /\ \A n \in DOMAIN backlog :
              backlog'[n].author = backlog[n].author /\ backlog'[n].open = backlog[n].open
    BY <1>1, IntEdit
  <1>3. PICK h : h = intakeRow.n OBVIOUS
  <1>4. InHand(h) => InHand(h)' BY <1>2, <1>3 DEF InHand
  <1> QED BY <1>1, <1>2, <1>3, <1>4, IntHand, IntRowKeeps

LEMMA IntStripsKeeps == IntInv /\ Strips => IntInv'
  <1> SUFFICES ASSUME IntInv, Strips PROVE IntInv'
    OBVIOUS
  <1>1. RowStep /\ UNCHANGED intakeTodo BY DEF Strips, RowStep
  <1>2. PICK l \in intakeRow.strip :
           LET row == [intakeRow EXCEPT !.strip = @ \ {l}]
           IN  \/ EditFails([row EXCEPT !.clean = FALSE])
               \/ intakeRow' = row /\ Edited([backlog[intakeRow.n] EXCEPT !.labels = @ \ {l}])
    BY DEF Strips
  <1> DEFINE row == [intakeRow EXCEPT !.strip = @ \ {l}]
             b == [backlog[intakeRow.n] EXCEPT !.labels = @ \ {l}]
  <1>3. /\ intakeRow \in IntRows /\ backlog[intakeRow.n] \in IntIssues
    BY <1>1, IntHand
  <1>4. /\ row \in IntRows /\ row.n = intakeRow.n /\ row.add = intakeRow.add
        /\ row.strip = intakeRow.strip \ {l}
    BY <1>3 DEF IntRows
  <1>5. /\ b \in IntIssues /\ b.author = backlog[intakeRow.n].author
        /\ b.open = backlog[intakeRow.n].open /\ b.labels = backlog[intakeRow.n].labels \ {l}
    BY <1>3 DEF IntIssues
  <1>6. CASE EditFails([row EXCEPT !.clean = FALSE])
    <2> DEFINE failed == [row EXCEPT !.clean = FALSE]
    <2>1. failed \in IntRows /\ failed.n = intakeRow.n
      <3> HIDE DEF row
      <3> QED BY <1>4 DEF IntRows
    <2> HIDE DEF failed, row
    <2>2. EditFails(failed) BY <1>6 DEF failed
    <2> QED BY <1>1, <2>1, <2>2, IntEditFails
  <1>7. CASE intakeRow' = row /\ Edited(b)
    <2>1. InHand(intakeRow.n) =>
             /\ row.strip = b.labels \ {"proposed"}
             /\ row.add <=> "proposed" \notin b.labels
      BY <1>2, <1>4, <1>5 DEF InHand
    <2> HIDE DEF row, b
    <2> QED BY <1>1, <1>4, <1>5, <1>7, <2>1, IntEditMade
  <1> QED BY <1>2, <1>6, <1>7

LEMMA IntAddsKeeps == IntInv /\ AddsProposed => IntInv'
  <1> SUFFICES ASSUME IntInv, AddsProposed PROVE IntInv'
    OBVIOUS
  <1> DEFINE row == [intakeRow EXCEPT !.add = FALSE]
             b == [backlog[intakeRow.n] EXCEPT !.labels = @ \cup {"proposed"}]
  <1>1. /\ RowStep /\ UNCHANGED intakeTodo /\ intakeRow.strip = {}
        /\ \/ EditFails([row EXCEPT !.clean = FALSE])
           \/ intakeRow' = row /\ Edited(b)
    BY DEF AddsProposed, RowStep
  <1>2. intakeRow \in IntRows /\ backlog[intakeRow.n] \in IntIssues BY <1>1, IntHand
  <1>3. row \in IntRows /\ row.n = intakeRow.n /\ row.strip = intakeRow.strip /\ row.add = FALSE
    BY <1>2 DEF IntRows
  <1>4. /\ b \in IntIssues /\ b.author = backlog[intakeRow.n].author
        /\ b.open = backlog[intakeRow.n].open
        /\ b.labels = backlog[intakeRow.n].labels \cup {"proposed"}
    BY <1>2 DEF IntIssues, IntLabels
  <1>5. CASE EditFails([row EXCEPT !.clean = FALSE])
    <2> DEFINE failed == [row EXCEPT !.clean = FALSE]
    <2>1. failed \in IntRows /\ failed.n = intakeRow.n
      <3> HIDE DEF row
      <3> QED BY <1>3 DEF IntRows
    <2> HIDE DEF failed, row
    <2>2. EditFails(failed) BY <1>5 DEF failed
    <2> QED BY <1>1, <2>1, <2>2, IntEditFails
  <1>6. CASE intakeRow' = row /\ Edited(b)
    <2>1. InHand(intakeRow.n) =>
             /\ row.strip = b.labels \ {"proposed"}
             /\ row.add <=> "proposed" \notin b.labels
      BY <1>1, <1>3, <1>4 DEF InHand
    <2> HIDE DEF row, b
    <2> QED BY <1>1, <1>3, <1>4, <1>6, <2>1, IntEditMade
  <1> QED BY <1>1, <1>5, <1>6

LEMMA IntAttachesKeeps == IntInv /\ Attaches => IntInv'
  <1> SUFFICES ASSUME IntInv, Attaches PROVE IntInv'
    OBVIOUS
  <1> DEFINE row == [intakeRow EXCEPT !.attach = FALSE]
             b == [backlog[intakeRow.n] EXCEPT !.milestone = TRUE]
  <1>1. /\ RowStep /\ UNCHANGED intakeTodo
        /\ \/ EditFails(row)
           \/ intakeRow' = row /\ Edited(b)
    BY DEF Attaches, RowStep
  <1>2. intakeRow \in IntRows /\ backlog[intakeRow.n] \in IntIssues BY <1>1, IntHand
  <1>3. /\ row \in IntRows /\ row.n = intakeRow.n /\ row.strip = intakeRow.strip
        /\ row.add = intakeRow.add
    BY <1>2 DEF IntRows
  <1>4. /\ b \in IntIssues /\ b.author = backlog[intakeRow.n].author
        /\ b.open = backlog[intakeRow.n].open /\ b.labels = backlog[intakeRow.n].labels
    BY <1>2 DEF IntIssues
  <1> HIDE DEF row, b
  <1>5. CASE EditFails(row) BY <1>1, <1>3, <1>5, IntEditFails
  <1>6. CASE intakeRow' = row /\ Edited(b)
    BY <1>1, <1>3, <1>4, <1>6, IntEditMade DEF InHand
  <1> QED BY <1>1, <1>5, <1>6

LEMMA IntRowDoneKeeps == IntInv /\ RowDone => IntInv'
  <1> SUFFICES ASSUME IntInv, RowDone PROVE IntInv'
    OBVIOUS
  <1> DEFINE labelled == IF intakeRow.clean THEN intakePass.labelled \cup {intakeRow.n}
                         ELSE intakePass.labelled
  <1>1. /\ RowStep /\ intakeRow.strip = {} /\ ~intakeRow.add
        /\ intakePass' = [intakePass EXCEPT !.labelled = labelled]
        /\ intakeRow' = [n |-> NoRow] /\ UNCHANGED <<backlog, intakeTodo>>
    BY DEF RowDone, RowStep
  <1>2. /\ intakeRow \in IntRows /\ backlog \in [DOMAIN backlog -> IntIssues]
        /\ backlog[intakeRow.n] \in IntIssues
        /\ intakePass \in [created : SUBSET DOMAIN backlog, labelled : SUBSET Nat,
                           failures : Nat, unlisted : BOOLEAN, title : BOOLEAN]
    BY <1>1, IntHand
  <1>3. labelled \in SUBSET Nat BY <1>2 DEF IntRows
  <1> HIDE DEF labelled
  <1>4. /\ intakePass' \in [created : SUBSET DOMAIN backlog, labelled : SUBSET Nat,
                            failures : Nat, unlisted : BOOLEAN, title : BOOLEAN]
        /\ intakePass'.created = intakePass.created
        /\ intakePass'.failures = intakePass.failures
    BY <1>1, <1>2, <1>3
  <1>5. PICK h : h = intakeRow.n OBVIOUS
  <1>6. InHand(h) => Guarded(h)' BY <1>1, <1>2, <1>5 DEF InHand, Guarded
  <1>7. intakeRow'.n = NoRow BY <1>1
  <1> QED BY <1>1, <1>2, <1>4, <1>5, <1>6, <1>7, IntRowKeeps

(* The exit says so if the pass failed, and a run leaves one record.       *)
LEMMA IntLeavesKeeps == IntInv /\ IntakeLeaves => IntInv'
  <1> SUFFICES ASSUME IntInv, IntakeLeaves PROVE IntInv'
    OBVIOUS
  <1> DEFINE notified == IF intakePass.created # {} THEN intakeEnd.notified + 1
                         ELSE intakeEnd.notified
  <1>1. /\ intakePc = "traces" /\ intakePc' = "end"
        /\ UNCHANGED <<backlog, before, intakeTodo, intakeRow, intakeHist, intakePass>>
        /\ intakeEnd' = [intakeEnd EXCEPT !.exit = IntakeExit, !.recorded = @ + 1,
                                          !.notified = notified]
    BY DEF IntakeLeaves, IntakeAt, IntakeStays
  <1>2. /\ intakeEnd.run # "none" /\ intakeEnd.recorded = 0 /\ intakeEnd.notified = 0
    <2>1. intakeEnd.recorded = 0 /\ intakeEnd.notified \in Nat
          /\ intakeEnd.notified <= intakeEnd.recorded
      BY <1>1 DEF IntInv, IntTypes, IntEnds, TraceInv
    <2> QED BY <1>1, <2>1 DEF IntInv, TraceInv, IntLeaves
  <1>3. IntakeExit \in {"label pass", "interrupted", "run failed", "ok"}
    BY DEF IntakeExit
  <1>4. PassErr => IntakeExit = "label pass" BY DEF IntakeExit
  <1>5. notified \in {0, 1} BY <1>2
  <1> HIDE DEF notified
  <1>6. /\ intakeEnd' \in IntEnds
        /\ intakeEnd'.run = intakeEnd.run /\ intakeEnd'.recorded = 1
        /\ intakeEnd'.notified <= 1 /\ intakeEnd'.exit = IntakeExit
    <2>1. intakeEnd \in IntEnds BY DEF IntInv, IntTypes
    <2>2. PICK x : x = IntakeExit OBVIOUS
    <2> DEFINE marked == [intakeEnd EXCEPT !.exit = x]
               counted == [marked EXCEPT !.recorded = 1]
    <2>3. /\ marked \in IntEnds /\ marked.run = intakeEnd.run /\ marked.exit = x
          /\ marked.notified = 0
      BY <1>2, <1>3, <2>1, <2>2 DEF IntEnds
    <2>4. intakeEnd' = [counted EXCEPT !.notified = notified]
      <3>1. intakeEnd.recorded + 1 = 1 BY <1>2
      <3> QED BY <1>1, <2>2, <3>1
    <2> HIDE DEF marked
    <2>5. /\ counted \in IntEnds /\ counted.run = intakeEnd.run /\ counted.exit = x
          /\ counted.recorded = 1 /\ counted.notified = 0
      BY <2>3 DEF IntEnds
    <2> HIDE DEF counted
    <2>6. notified \in Nat /\ notified <= 1 BY <1>5
    <2>7. /\ intakeEnd' \in IntEnds /\ intakeEnd'.run = counted.run /\ intakeEnd'.exit = counted.exit
          /\ intakeEnd'.recorded = counted.recorded /\ intakeEnd'.notified = notified
      BY <2>4, <2>5, <2>6 DEF IntEnds
    <2> QED BY <2>2, <2>5, <2>6, <2>7
  <1>7. IntTypes' BY <1>1, <1>6 DEF IntInv, IntTypes, IntHists
  <1>8. NewInv'
    BY <1>1, <1>2, <1>6 DEF IntInv, NewInv, IsNew, IsLate, Ours, IntStarts, IntLeaves
  <1>9. TraceInv' BY <1>1, <1>2, <1>6 DEF TraceInv, IntStarts, IntLeaves
  <1>10. PassInv'
    <2>1. RunsOwn' = RunsOwn BY <1>1 DEF RunsOwn, Open
    <2>2. ~PassErr => \A n \in RunsOwn : Guarded(n)' BY <1>1 DEF IntInv, PassInv, Guarded
    <2> QED BY <1>1, <1>4, <1>6, <2>1, <2>2 DEF IntInv, PassInv
  <1> QED BY <1>7, <1>8, <1>9, <1>10 DEF IntInv

(* People touch what they file, label, shut and reopen, and an issue that  *)
(* is shut stays so until it is reopened.                                  *)
LEMMA IntMoveKeeps ==
  ASSUME IntInv, NEW h, NEW r \in SUBSET {h}, IntakeMove(h, r), h \in Nat,
         \E k \in Nat : StandingIssues <= k /\ DOMAIN backlog' = 1..k,
         backlog' \in [DOMAIN backlog' -> IntIssues],
         DOMAIN backlog \subseteq DOMAIN backlog', DOMAIN backlog' \subseteq DOMAIN backlog \cup {h},
         \A n \in DOMAIN backlog : n # h => backlog'[n] = backlog[n],
         h \in DOMAIN backlog => /\ backlog'[h].author = backlog[h].author
                                 /\ backlog'[h].open => backlog[h].open \/ h \in r,
         h \notin DOMAIN backlog => backlog'[h].author # "run" /\ StandingIssues < h
  PROVE  IntInv'
  <1>1. /\ intakeHist' = [intakeHist EXCEPT !.touched = @ \cup {h}, !.moves = @ + 1,
                                           !.reopened = @ \cup r]
        /\ UNCHANGED <<intakePc, before, intakeTodo, intakeRow, intakePass, intakeEnd>>
    BY DEF IntakeMove
  <1>2. /\ intakeHist' \in IntHists'
        /\ intakeHist'.touched = intakeHist.touched \cup {h}
        /\ intakeHist'.reopened = intakeHist.reopened \cup r
        /\ UNCHANGED <<intakeHist.stood, intakeHist.open>>
        /\ intakeHist.stood \subseteq DOMAIN backlog
    <2>1. intakeHist \in IntHists BY DEF IntInv, IntTypes
    <2> DEFINE moved == [intakeHist EXCEPT !.moves = @ + 1]
               again == [moved EXCEPT !.reopened = @ \cup r]
    <2>2. /\ moved \in IntHists /\ moved.touched = intakeHist.touched
          /\ moved.reopened = intakeHist.reopened /\ moved.stood = intakeHist.stood
          /\ moved.open = intakeHist.open
      BY <2>1 DEF IntHists
    <2>3. intakeHist' = [again EXCEPT !.touched = @ \cup {h}] BY <1>1
    <2> HIDE DEF moved
    <2>4. /\ again \in IntHists /\ again.touched = intakeHist.touched
          /\ again.reopened = intakeHist.reopened \cup r /\ again.stood = intakeHist.stood
          /\ again.open = intakeHist.open
      BY <2>2 DEF IntHists
    <2> HIDE DEF again
    <2>5. /\ intakeHist' \in [touched : SUBSET Nat, moves : Nat, stood : SUBSET DOMAIN backlog,
                              open : SUBSET DOMAIN backlog, reopened : SUBSET Nat]
          /\ intakeHist'.touched = again.touched \cup {h}
          /\ intakeHist'.reopened = again.reopened
          /\ intakeHist'.stood = again.stood /\ intakeHist'.open = again.open
      BY <2>3, <2>4 DEF IntHists
    <2>6. SUBSET DOMAIN backlog \subseteq SUBSET DOMAIN backlog' OBVIOUS
    <2> QED BY <2>1, <2>4, <2>5, <2>6 DEF IntHists
  <1>3. IntTypes'
    <2>1. /\ before \in [seen : SUBSET DOMAIN backlog, max : {0} \cup DOMAIN backlog]
          /\ intakePass \in [created : SUBSET DOMAIN backlog, labelled : SUBSET Nat,
                             failures : Nat, unlisted : BOOLEAN, title : BOOLEAN]
      BY DEF IntInv, IntTypes
    <2>2. before \in [seen : SUBSET DOMAIN backlog', max : {0} \cup DOMAIN backlog']
      BY <2>1
    <2>3. intakePass \in [created : SUBSET DOMAIN backlog', labelled : SUBSET Nat,
                          failures : Nat, unlisted : BOOLEAN, title : BOOLEAN]
      BY <2>1
    <2> QED BY <1>1, <1>2, <2>2, <2>3 DEF IntInv, IntTypes
  <1>4. \A n \in DOMAIN backlog' :
           /\ n \in DOMAIN backlog => /\ backlog'[n].author = backlog[n].author
                                      /\ backlog'[n].open => backlog[n].open \/ n \in r
           /\ n \notin DOMAIN backlog => backlog'[n].author # "run" /\ StandingIssues < n
    OBVIOUS
  <1>5. NewInv'
    <2>1. \A n \in DOMAIN backlog' : backlog'[n].author = "run" => IsNew(n)'
      BY <1>1, <1>4 DEF IntInv, NewInv, IsNew
    <2>2. \A n \in intakePass.created : Ours(n)' /\ IsLate(n)'
      <3>1. intakePass.created \subseteq DOMAIN backlog BY DEF IntInv, IntTypes
      <3> QED BY <1>2, <1>4, <3>1 DEF IntInv, NewInv, Ours, IsLate
    <2>3. intakePc \in {"run"} \cup IntLeaves =>
             /\ \A n \in intakeHist'.open : n <= before.max
             /\ \A n \in intakeHist'.stood :
                   backlog'[n].open => n \in intakeHist'.open \cup intakeHist'.reopened
      BY <1>2, <1>4 DEF IntInv, NewInv
    <2>4. intakePc \in IntStarts \/ (intakePc = "end" /\ intakeEnd.run = "none") =>
             \A n \in DOMAIN backlog' : backlog'[n].author # "run"
      BY <1>4 DEF IntInv, NewInv
    <2>5. intakePc \in IntStarts => intakePass.created = {} BY DEF IntInv, NewInv
    <2> QED BY <1>1, <2>1, <2>2, <2>3, <2>4, <2>5 DEF NewInv
  <1>6. TraceInv' BY <1>1 DEF IntInv, TraceInv
  <1>7. PassInv'
    <2>1. \A n \in RunsOwn' : n \in RunsOwn /\ n # h
      BY <1>2, <1>4 DEF RunsOwn, Open
    <2>2. \A n \in RunsOwn' : backlog'[n] = backlog[n] BY <2>1 DEF RunsOwn, Open
    <2>3. \A n \in RunsOwn' : (Guarded(n) => Guarded(n)') /\ (Known(n) => Known(n)')
      BY <1>1, <2>2 DEF Guarded, InHand, Known
    <2> QED BY <1>1, <2>1, <2>3 DEF IntInv, PassInv, PassErr
  <1> QED BY <1>3, <1>5, <1>6, <1>7 DEF IntInv

LEMMA IntPeopleKeep ==
  IntInv /\ (PersonFiles \/ PersonLabels \/ PersonShuts \/ PersonReopens) => IntInv'
  <1> SUFFICES ASSUME IntInv, PersonFiles \/ PersonLabels \/ PersonShuts \/ PersonReopens
               PROVE  IntInv'
    OBVIOUS
  <1>1. CASE PersonFiles
    <2>1. PICK a \in {"me", "other"} : Filed(a, {}) BY <1>1 DEF PersonFiles
    <2>2. IntTypes /\ {} \in SUBSET IntLabels /\ IntakeMove(NextIssue, {})
      BY <1>1 DEF IntInv, PersonFiles
    <2>3. /\ NextIssue \notin DOMAIN backlog /\ NextIssue \in Nat \ {0}
          /\ StandingIssues < NextIssue
          /\ DOMAIN backlog' = DOMAIN backlog \cup {NextIssue}
          /\ \E k \in Nat : StandingIssues <= k /\ DOMAIN backlog' = 1..k
          /\ backlog' \in [DOMAIN backlog' -> IntIssues]
          /\ \A n \in DOMAIN backlog : backlog'[n] = backlog[n]
          /\ backlog'[NextIssue].author = a
      BY <2>1, <2>2, IntFiled
    <2>4. PICK h : h = NextIssue OBVIOUS
    <2>5. /\ IntakeMove(h, {}) /\ {} \in SUBSET {h} /\ h \notin DOMAIN backlog /\ h \in Nat /\ StandingIssues < h
          /\ DOMAIN backlog' = DOMAIN backlog \cup {h} /\ backlog'[h].author # "run"
      BY <2>2, <2>3, <2>4
    <2> QED BY <2>3, <2>5, IntMoveKeeps
  <1>2. ASSUME NEW h \in DOMAIN backlog, NEW r \in SUBSET {h}, IntakeMove(h, r),
               NEW b \in IntIssues, backlog' = [backlog EXCEPT ![h] = b],
               b.author = backlog[h].author, b.open => backlog[h].open \/ h \in r
        PROVE  IntInv'
    <2>1. h \in DOMAIN backlog OBVIOUS
    <2>2. PICK k \in Nat : StandingIssues <= k /\ DOMAIN backlog = 1..k
      BY DEF IntInv, IntTypes
    <2>3. /\ DOMAIN backlog' = DOMAIN backlog /\ backlog' \in [DOMAIN backlog -> IntIssues]
          /\ backlog'[h] = b /\ \A n \in DOMAIN backlog : n # h => backlog'[n] = backlog[n]
      BY <1>2, <2>1 DEF IntInv, IntTypes
    <2> QED BY <1>2, <2>1, <2>2, <2>3, IntMoveKeeps
  <1>3. CASE PersonLabels
    <2>1. PICK n \in Open, l \in IntLabels :
             /\ IntakeMove(n, {})
             /\ backlog' = [backlog EXCEPT ![n].labels = IF l \in @ THEN @ \ {l} ELSE @ \cup {l}]
      BY <1>3 DEF PersonLabels, IntLabels
    <2> DEFINE labels == IF l \in backlog[n].labels THEN backlog[n].labels \ {l}
                         ELSE backlog[n].labels \cup {l}
               b == [backlog[n] EXCEPT !.labels = labels]
    <2>2. backlog[n] \in IntIssues BY DEF IntInv, IntTypes, Open
    <2>3. labels \in SUBSET IntLabels BY <2>2 DEF IntIssues
    <2>4. backlog' = [backlog EXCEPT ![n] = b] BY <2>1
    <2> HIDE DEF labels
    <2>5. b \in IntIssues /\ b.author = backlog[n].author /\ b.open = backlog[n].open
      BY <2>2, <2>3 DEF IntIssues
    <2> HIDE DEF b
    <2>6. n \in DOMAIN backlog /\ {} \in SUBSET {n} BY DEF Open
    <2> QED BY <1>2, <2>1, <2>4, <2>5, <2>6
  <1>4. CASE PersonShuts
    <2>1. PICK n \in Open :
             IntakeMove(n, {}) /\ backlog' = [backlog EXCEPT ![n].open = FALSE]
      BY <1>4 DEF PersonShuts
    <2> DEFINE b == [backlog[n] EXCEPT !.open = FALSE]
    <2>2. backlog[n] \in IntIssues BY DEF IntInv, IntTypes, Open
    <2>3. b \in IntIssues /\ b.author = backlog[n].author /\ b.open = FALSE
      BY <2>2 DEF IntIssues
    <2>4. backlog' = [backlog EXCEPT ![n] = b] BY <2>1
    <2> HIDE DEF b
    <2>5. n \in DOMAIN backlog /\ {} \in SUBSET {n} BY DEF Open
    <2> QED BY <1>2, <2>1, <2>3, <2>4, <2>5
  <1>5. CASE PersonReopens
    <2>1. PICK n \in DOMAIN backlog \ Open :
             IntakeMove(n, {n}) /\ backlog' = [backlog EXCEPT ![n].open = TRUE]
      BY <1>5 DEF PersonReopens
    <2> DEFINE b == [backlog[n] EXCEPT !.open = TRUE]
    <2>2. backlog[n] \in IntIssues BY DEF IntInv, IntTypes
    <2>3. b \in IntIssues /\ b.author = backlog[n].author BY <2>2 DEF IntIssues
    <2>4. backlog' = [backlog EXCEPT ![n] = b] BY <2>1
    <2> HIDE DEF b
    <2>5. n \in DOMAIN backlog /\ n \in {n} OBVIOUS
    <2> QED BY <1>2, <2>1, <2>3, <2>4, <2>5
  <1> QED BY <1>1, <1>3, <1>4, <1>5

LEMMA IntNextInv == IntInv /\ [IntakeNext]_intakeVars => IntInv'
  <1> SUFFICES ASSUME IntInv, [IntakeNext]_intakeVars PROVE IntInv'
    OBVIOUS
  <1>1. CASE UNCHANGED intakeVars
    <2>1. UNCHANGED <<intakePc, intakeOpt, backlog, before, intakeTodo, intakeRow, intakePass,
                      intakeEnd, intakeHist>>
      BY <1>1 DEF intakeVars
    <2>2. IntTypes' /\ TraceInv' BY <2>1 DEF IntInv, IntTypes, IntHists, TraceInv
    <2>3. NewInv' BY <2>1 DEF IntInv, NewInv, IsNew, IsLate, Ours
    <2>4. PassInv' BY <2>1 DEF IntInv, PassInv, RunsOwn, Known, InHand, Open, Guarded, PassErr
    <2> QED BY <2>2, <2>3, <2>4 DEF IntInv
  <1>2. CASE IntakeNext
    BY <1>2, IntCalledKeeps, IntSnapshotsKeeps, IntRunFilesKeeps, IntRunEndsKeeps,
       IntTakesKeeps, IntStripsKeeps, IntAddsKeeps, IntAttachesKeeps, IntRowDoneKeeps,
       IntLeavesKeeps, IntPeopleKeep
    DEF IntakeNext
  <1> QED BY <1>1, <1>2

(* The invariant, whatever the run files and however the edits fail.       *)
THEOREM IntInductive == IntSpec => []IntInv
  BY IntInitInv, IntNextInv, PTL DEF IntSpec

(* labelpass.go:63, 70 and intake.go:226: a call that does not end saying  *)
(* that its label pass failed leaves no open issue of the run unlabelled   *)
(* that nobody else touched, leaves one record of a run, and no step of    *)
(* its own changes an issue of another account, one numbered at or below   *)
(* what was open before the run, or one that was closed then and nobody    *)
(* reopened since.                                                         *)
THEOREM PassSpares == IntSpec => PassSparesTheRest
  <1> DEFINE A == /\ UnguardedIsLoud'
                  /\ \A n \in DOMAIN backlog :
                        backlog'[n] # backlog[n] /\ intakeHist' = intakeHist =>
                           /\ Ours(n) /\ \A m \in intakeHist.open : m < n
                           /\ n \in intakeHist.stood => n \in intakeHist.reopened
  <1>1. IntInv => UnguardedIsLoud
    <2> SUFFICES ASSUME IntInv, intakePc = "end"
                 PROVE  /\ intakeEnd.exit \in {"ok", "interrupted", "run failed"} =>
                              \A n \in Open \ intakeHist.touched :
                                 backlog[n].author = "run" => Guarded(n)
                        /\ intakeEnd.recorded = (IF intakeEnd.run = "none" THEN 0 ELSE 1)
                        /\ intakeEnd.notified <= intakeEnd.recorded
      BY DEF UnguardedIsLoud
    <2> QED BY DEF IntInv, TraceInv, PassInv, RunsOwn
  <1>2. ASSUME IntInv, IntakeNext, NEW n \in DOMAIN backlog, backlog'[n] # backlog[n],
               intakeHist' = intakeHist
        PROVE  Ours(n) /\ IsLate(n)
    <2>1. CASE RunFilesIssue
      <3>1. PICK l \in SUBSET IntLabels : Filed("run", l) BY <2>1 DEF RunFilesIssue, IntLabels
      <3>2. backlog'[n] = backlog[n] BY <1>2, <3>1, IntFiled DEF IntInv
      <3> QED BY <1>2, <3>2
    <2>2. CASE Strips \/ AddsProposed \/ Attaches
      <3>1. RowStep /\ (UNCHANGED backlog \/ \E b : Edited(b))
        BY <2>2 DEF Strips, AddsProposed, Attaches, EditFails
      <3>2. n = intakeRow.n BY <1>2, <3>1 DEF Edited
      <3>3. n \in intakePass.created BY <1>2, <3>1, <3>2 DEF RowStep, IntInv, IntTypes
      <3> QED BY <1>2, <3>3 DEF IntInv, NewInv
    <2>3. CASE PersonFiles \/ PersonLabels \/ PersonShuts \/ PersonReopens
      <3>1. \E h, r : IntakeMove(h, r)
        BY <2>3 DEF PersonFiles, PersonLabels, PersonShuts, PersonReopens
      <3>2. intakeHist'.moves = intakeHist.moves + 1 /\ intakeHist.moves \in Nat
        BY <1>2, <3>1 DEF IntakeMove, IntInv, IntTypes, IntHists
      <3> QED BY <1>2, <3>2
    <2>4. CASE UNCHANGED backlog BY <1>2, <2>4
    <2> QED
      BY <1>2, <2>1, <2>2, <2>3, <2>4
      DEF IntakeNext, IntakeCalled, IntakePreflight, IntakeSnapshots, IntakeRunEnds,
          NamesMilestone, PassLists, PassTakes, RowDone, IntakeLeaves, IntakeStays
  <1>3. IntInv /\ IntInv' /\ [IntakeNext]_intakeVars => [A]_intakeVars
    <2> SUFFICES ASSUME IntInv, IntInv', IntakeNext PROVE A
      OBVIOUS
    <2>1. UnguardedIsLoud' BY <1>1, PTL
    <2> QED BY <2>1, <1>2 DEF IsLate
  <1> QED BY <1>3, IntInductive, PTL DEF IntSpec, PassSparesTheRest

-----------------------------------------------------------------------------
(*                             the usage gate                              *)

UseSpec == UsageInit /\ [][UsageNext]_usageVars

(* The calendar is what it is defined to be: some function satisfies its   *)
(* recursion, the one that counts the years with a leap day by halves.     *)
Counts(f) == f = [y \in Nat |-> IF y <= 1 THEN 0 ELSE f[y - 1] + YearLength(y - 1)]
LEMMA CalendarExists == \E f : Counts(f)
  <1> USE UsageAssumption
  <1> DEFINE g == [y \in Nat |-> IF y <= 1 THEN 0 ELSE (y - 1) * Dates - (y \div 2)]
  <1>1. ASSUME NEW y \in Nat, ~(y <= 1)
        PROVE  (y - 1) * Dates - (y \div 2) = g[y - 1] + YearLength(y - 1)
    <2>1. y - 1 \in Nat /\ Dates \in Int BY <1>1
    <2>2. (y - 1) * Dates = (y - 2) * Dates + Dates
      <3> DEFINE w == y - 2
      <3>1. w \in Int /\ y - 1 = w + 1 BY <1>1
      <3> HIDE DEF w
      <3>2. (w + 1) * Dates = w * Dates + Dates BY <2>1, <3>1
      <3> QED BY <3>1, <3>2 DEF w
    <2>3. (y \div 2) - ((y - 1) \div 2) = IF (y - 1) % 2 = 0 THEN 0 ELSE 1 BY <1>1
    <2>4. y = 2 => 0 * Dates = 0 /\ y \div 2 = 1 /\ (y - 1) \div 2 = 0 BY <2>1
    <2>5. g[y - 1] = (y - 2) * Dates - ((y - 1) \div 2)
      <3>1. CASE y = 2
        <4>1. g[y - 1] = 0 BY <3>1
        <4> QED BY <2>4, <3>1, <4>1
      <3>2. CASE y # 2
        <4>1. ~(y - 1 <= 1) /\ (y - 1) - 1 = y - 2 BY <1>1, <3>2
        <4> QED BY <2>1, <4>1
      <3> QED BY <3>1, <3>2
    <2>6. (y - 2) * Dates \in Int /\ (y \div 2) \in Int /\ ((y - 1) \div 2) \in Int
      BY <1>1, <2>1
    <2> QED BY <2>1, <2>2, <2>3, <2>5, <2>6 DEF YearLength
  <1>2. Counts(g)
    <2>1. g = [y \in Nat |-> IF y <= 1 THEN 0 ELSE g[y - 1] + YearLength(y - 1)]
      <3>1. \A y \in Nat :
               g[y] = IF y <= 1 THEN 0 ELSE g[y - 1] + YearLength(y - 1)
        BY <1>1
      <3> QED BY <3>1
    <2> QED BY <2>1 DEF Counts
  <1> QED BY <1>2

(* so YearStart is that function.                                          *)
LEMMA YearStartIs ==
  \A y \in Nat : YearStart[y] = IF y <= 1 THEN 0 ELSE YearStart[y - 1] + YearLength(y - 1)
  <1>1. YearStart = CHOOSE f : Counts(f) BY DEF YearStart, Counts
  <1>2. Counts(YearStart) BY <1>1, CalendarExists
  <1> QED BY <1>2 DEF Counts

(* A year has a day at least.                                              *)
LEMMA YearLengthType == \A y \in Nat : YearLength(y) \in Nat \ {0}
  BY UsageAssumption DEF YearLength

(* Years follow one another, and no later one starts before an earlier.    *)
LEMMA YearsFollow ==
  /\ \A y \in Nat : YearStart[y] \in Nat
  /\ YearStart[1] = 0
  /\ \A y \in Nat \ {0} : YearStart[y + 1] = YearStart[y] + YearLength(y)
  <1>1. ASSUME NEW y \in Nat PROVE YearStart[y] \in Nat
    <2> DEFINE Not == {n \in Nat : YearStart[n] \notin Nat}
    <2>1. SUFFICES ASSUME Not # {} PROVE FALSE OBVIOUS
    <2>2. PICK n \in Not : \A m \in Not : n <= m
      <3>1. Not \in SUBSET Nat OBVIOUS
      <3> HIDE DEF Not
      <3> QED BY <2>1, <3>1, Smallest
    <2>3. n \in Nat /\ ~(n <= 1) BY <2>2, YearStartIs
    <2>4. n - 1 \in Nat /\ ~(n <= n - 1) BY <2>3
    <2>5. YearStart[n - 1] \in Nat BY <2>2, <2>4
    <2>6. YearStart[n] \in Nat BY <2>3, <2>4, <2>5, YearStartIs, YearLengthType
    <2> QED BY <2>2, <2>6
  <1>2. YearStart[1] = 0 BY YearStartIs
  <1>3. ASSUME NEW y \in Nat \ {0} PROVE YearStart[y + 1] = YearStart[y] + YearLength(y)
    <2>1. y + 1 \in Nat /\ ~(y + 1 <= 1) /\ (y + 1) - 1 = y OBVIOUS
    <2> QED BY <2>1, YearStartIs
  <1> QED BY <1>1, <1>2, <1>3

LEMMA YearsGrow ==
  ASSUME NEW a \in Nat \ {0}, NEW b \in Nat, a <= b
  PROVE  YearStart[a] <= YearStart[b]
  <1> DEFINE Less == {n \in Nat : a <= n /\ YearStart[n] < YearStart[a]}
  <1>1. SUFFICES ASSUME Less # {} PROVE FALSE
    <2>1. b \notin Less => ~(YearStart[b] < YearStart[a]) OBVIOUS
    <2>2. YearStart[a] \in Nat /\ YearStart[b] \in Nat BY YearsFollow
    <2> QED BY <2>1, <2>2
  <1>2. PICK n \in Less : \A m \in Less : n <= m
    <2>1. Less \in SUBSET Nat OBVIOUS
    <2> HIDE DEF Less
    <2> QED BY <1>1, <2>1, Smallest
  <1>3. n \in Nat /\ a <= n /\ YearStart[n] < YearStart[a] BY <1>2
  <1>4. n # a /\ YearStart[a] \in Nat
    <2>1. YearStart[a] \in Nat BY YearsFollow
    <2>2. ~(YearStart[a] < YearStart[a]) BY <2>1
    <2> QED BY <1>3, <2>1, <2>2
  <1>5. n - 1 \in Nat \ {0} /\ a <= n - 1 /\ ~(n <= n - 1) /\ (n - 1) + 1 = n BY <1>3, <1>4
  <1>6. ~(YearStart[n - 1] < YearStart[a]) BY <1>2, <1>5
  <1>7. YearStart[n] = YearStart[n - 1] + YearLength(n - 1) BY <1>5, YearsFollow
  <1>8. YearLength(n - 1) \in Nat /\ YearStart[n - 1] \in Nat BY <1>5, YearLengthType, YearsFollow
  <1> QED BY <1>3, <1>4, <1>6, <1>7, <1>8

(* Every instant up to the horizon lies in one year,                       *)
LEMMA YearAtIs ==
  ASSUME NEW day \in 0..Horizon
  PROVE  /\ YearAt(day) \in 1..Years + 1
         /\ YearStart[YearAt(day)] <= day /\ day < YearStart[YearAt(day) + 1]
  <1> USE UsageAssumption
  <1> DEFINE After == {y \in Nat \ {0} : day < YearStart[y + 1]}
  <1>1. Years \in After
    <2>1. YearStart[Years + 1] \in Nat BY YearsFollow
    <2> QED BY <2>1 DEF Horizon
  <1>2. PICK y \in After : \A z \in After : y <= z
    <2>1. After \in SUBSET Nat OBVIOUS
    <2> HIDE DEF After
    <2> QED BY <1>1, <2>1, Smallest
  <1>3. y \in 1..Years + 1 /\ day < YearStart[y + 1] BY <1>1, <1>2
  <1>4. YearStart[y] <= day
    <2>1. day \in Nat BY YearsFollow DEF Horizon
    <2>2. CASE y = 1 BY <2>1, <2>2, YearsFollow
    <2>3. CASE y # 1
      <3>1. y - 1 \in Nat \ {0} /\ ~(y <= y - 1) /\ (y - 1) + 1 = y BY <1>3, <2>3
      <3>2. ~(day < YearStart[y]) BY <1>2, <3>1
      <3>3. YearStart[y] \in Nat BY <1>3, YearsFollow
      <3> QED BY <2>1, <3>2, <3>3
    <2> QED BY <2>2, <2>3
  <1> QED BY <1>3, <1>4 DEF YearAt

(* a date that exists in a year lies in that year,                         *)
LEMMA DayOfIs ==
  ASSUME NEW y \in Nat \ {0}, NEW d \in 1..Dates
  PROVE  /\ DayOf(y, d) \in Int
         /\ Exists(y, d) => YearStart[y] <= DayOf(y, d) /\ DayOf(y, d) < YearStart[y + 1]
  <1>1. /\ YearStart[y] \in Nat
        /\ YearStart[y + 1] = YearStart[y] + (IF y % 2 = 0 THEN Dates ELSE Dates - 1)
    BY YearsFollow DEF YearLength
  <1> QED BY <1>1, UsageAssumption DEF DayOf, Exists, LeapDate

(* and every instant has the date by which the CLI names it.               *)
LEMMA DateAtIs ==
  ASSUME NEW day \in 0..Horizon
  PROVE  /\ DateAt(day) \in 1..Dates
         /\ Exists(YearAt(day), DateAt(day)) /\ DayOf(YearAt(day), DateAt(day)) = day
  <1> USE UsageAssumption
  <1> DEFINE y == YearAt(day)
             o == day - YearStart[y]
             d == IF y % 2 # 0 /\ o # 0 THEN o + 2 ELSE o + 1
  <1>1. y \in Nat \ {0} /\ YearStart[y] <= day /\ day < YearStart[y + 1] BY YearAtIs
  <1> HIDE DEF y
  <1>2. /\ YearStart[y] \in Nat
        /\ YearStart[y + 1] = YearStart[y] + (IF y % 2 = 0 THEN Dates ELSE Dates - 1)
    BY <1>1, YearsFollow DEF YearLength
  <1>3. day \in Int /\ y \in Int BY <1>1, YearsFollow DEF Horizon
  <1>4. d \in 1..Dates /\ Exists(y, d) /\ DayOf(y, d) = day
    <2>1. CASE y % 2 = 0 BY <1>1, <1>2, <1>3, <2>1 DEF Exists, DayOf, LeapDate
    <2>2. CASE y % 2 # 0 /\ o = 0
      <3>1. d = 1 /\ day = YearStart[y] BY <1>2, <1>3, <2>2
      <3>2. DayOf(y, 1) = YearStart[y] BY <1>2 DEF DayOf, LeapDate
      <3>3. Exists(y, 1) BY DEF Exists, LeapDate
      <3>4. 1 \in 1..Dates OBVIOUS
      <3> QED BY <3>1, <3>2, <3>3, <3>4
    <2>3. CASE y % 2 # 0 /\ o # 0 BY <1>1, <1>2, <1>3, <2>3 DEF Exists, DayOf, LeapDate
    <2> QED BY <2>1, <2>2, <2>3
  <1> HIDE DEF d
  <1> QED BY <1>4 DEF y, DateAt

(* The wait the gate chooses for a reset the meters can be at: while the   *)
(* grace covers the lag, the year it is read into is never a later one.    *)
LEMMA WaitIsShort ==
  ASSUME today \in 0..Horizon,
         NEW p, NEW readable \in BOOLEAN, NEW r \in 0..Horizon,
         meters[p].reset = r, today <= r + MeterLag
  PROVE  /\ WaitFor(p, readable) \in Nat
         /\ MeterLag <= Grace =>
               \/ today + WaitFor(p, readable) <= r + Slack
               \/ today + WaitFor(p, readable) <= today + UsagePoll
               \/ YearAt(r) < YearAt(today)
  <1> USE UsageAssumption
  <1> DEFINE d == DateAt(r)
             y == YearAt(today)
             z == YearAt(r)
             at == IF readable THEN UsageReset(d) ELSE NoReset
  <1>1. today \in Int /\ r \in Int BY YearsFollow DEF Horizon
  <1>2. d \in 1..Dates /\ Exists(z, d) /\ DayOf(z, d) = r BY DateAtIs
  <1>3. /\ y \in Nat \ {0} /\ z \in Nat \ {0}
        /\ YearStart[z] <= r /\ r < YearStart[z + 1]
    BY YearAtIs
  <1>4. WaitFor(p, readable) = IF at > today THEN at - today + Slack ELSE UsagePoll
    BY DEF WaitFor
  <1>5. UsageReset(d) = CASE Candidate(y, d) -> DayOf(y, d)
                          [] ~Candidate(y, d) /\ Candidate(y + 1, d) -> DayOf(y + 1, d)
                          [] OTHER -> NoReset
    BY DEF UsageReset
  <1> HIDE DEF d, y, z
  <1>6. DayOf(y, d) \in Int /\ DayOf(y + 1, d) \in Int BY <1>2, <1>3, DayOfIs
  <1>7. at \in Int BY <1>5, <1>6 DEF NoReset
  <1>8. WaitFor(p, readable) \in Nat BY <1>1, <1>4, <1>7 DEF Slack, UsagePoll
  <1>9. ASSUME NEW x \in Nat \ {0}, x <= z, Candidate(x, d) PROVE DayOf(x, d) <= r
    <2>1. CASE x = z BY <2>1, <1>1, <1>2
    <2>2. CASE x # z
      <3>1. Exists(x, d) BY <1>9 DEF Candidate
      <3>2. DayOf(x, d) \in Int /\ DayOf(x, d) < YearStart[x + 1] BY <1>2, <3>1, DayOfIs
      <3>3. x + 1 \in Nat \ {0} /\ x + 1 <= z BY <1>3, <1>9, <2>2
      <3>4. YearStart[x + 1] <= YearStart[z] BY <1>3, <3>3, YearsGrow
      <3>5. YearStart[x + 1] \in Nat /\ YearStart[z] \in Nat BY <1>3, <3>3, YearsFollow
      <3> QED BY <1>1, <1>3, <3>2, <3>4, <3>5
    <2> QED BY <2>1, <2>2
  <1>a. SUFFICES ASSUME MeterLag <= Grace
                 PROVE  \/ today + WaitFor(p, readable) <= r + Slack
                        \/ today + WaitFor(p, readable) <= today + UsagePoll
                        \/ z < y
    BY <1>8 DEF y, z
  <1>11. CASE y = z
    <2>1. Candidate(y, d) BY <1>1, <1>2, <1>a, <1>11 DEF Candidate
    <2>2. UsageReset(d) = r BY <1>2, <1>5, <1>11, <2>1
    <2> QED BY <1>1, <1>4, <1>8, <2>2 DEF Slack, UsagePoll, NoReset
  <1>12. CASE y < z
    <2>1. y + 1 \in Nat \ {0} /\ y + 1 <= z /\ y <= z BY <1>3, <1>12
    <2>2. UsageReset(d) <= r \/ UsageReset(d) = NoReset
      BY <1>3, <1>5, <1>9, <2>1
    <2>3. at <= r \/ at = NoReset BY <2>2
    <2> QED BY <1>1, <1>4, <1>7, <1>8, <2>3 DEF Slack, UsagePoll, NoReset
  <1> QED BY <1>3, <1>11, <1>12

(* A meter that reads over is one a shift can still be told about.         *)
UseMeters ==
    /\ meters \in [Pools -> [over : BOOLEAN, reset : 0..Horizon]]
    /\ \A p \in Pools : meters[p].over => today <= meters[p].reset + MeterLag
UseInv ==
    UsageTypeOK /\ UseMeters /\ (MeterLag <= Grace => SleepsNoLongerThanNeeded)

(* The gate never sleeps longer than the pool it waits for needs, across   *)
(* New Year and leap days, as long as the grace of usageReset is at least  *)
(* what a meter lags: the one case left is a reset in the old year, read   *)
(* in the new (usage.go:162).                                              *)
THEOREM UseInductive == UseSpec => []UseInv
  <1> USE UsageAssumption
  <1>0. Horizon \in Nat
    <2>1. YearStart[Years + 1] \in Nat /\ YearStart[1] = 0 BY YearsFollow
    <2>2. YearStart[2] <= YearStart[Years + 1] BY YearsGrow
    <2>3. YearStart[1 + 1] = YearStart[1] + YearLength(1) BY YearsFollow
    <2>4. YearLength(1) \in Nat \ {0} BY YearLengthType
    <2>5. YearStart[2] \in Nat \ {0} BY <2>1, <2>3, <2>4
    <2> QED BY <2>1, <2>2, <2>5 DEF Horizon
  <1>1. UsageInit => UseInv
    BY <1>0 DEF UsageInit, UseInv, UsageTypeOK, UseMeters, SleepsNoLongerThanNeeded
  <1>2. UseInv /\ [UsageNext]_usageVars => UseInv'
    <2> SUFFICES ASSUME UseInv, [UsageNext]_usageVars PROVE UseInv'
      OBVIOUS
    <2> USE DEF UseInv, UsageTypeOK, SleepsNoLongerThanNeeded
    <2>1. CASE ShiftStarts BY <2>1 DEF ShiftStarts, UseMeters
    <2>2. CASE Passes BY <2>2 DEF Passes, UseMeters
    <2>3. CASE ProbeIsBlind BY <2>3 DEF ProbeIsBlind, UseMeters
    <2>4. CASE ProbeAnswers
      <3>1. UNCHANGED <<usageCaps, meters, today>> BY <2>4 DEF ProbeAnswers
      <3>2. PICK shown \in SUBSET Pools \ {{}}, readable \in BOOLEAN :
               LET over == {p \in shown \cap usageCaps : meters[p].over}
                   first == IF "session" \in over THEN "session" ELSE "week"
               IN  IF over = {}
                   THEN usagePc' = "issue" /\ UNCHANGED <<sleepUntil, usageHist>>
                   ELSE /\ usagePc' = "sleep"
                        /\ usageHist' = [at |-> today, reset |-> meters[first].reset]
                        /\ sleepUntil' = today + WaitFor(first, readable)
        BY <2>4 DEF ProbeAnswers
      <3> DEFINE over == {p \in shown \cap usageCaps : meters[p].over}
                 first == IF "session" \in over THEN "session" ELSE "week"
      <3>3. CASE over = {} BY <3>1, <3>2, <3>3 DEF UseMeters
      <3>4. CASE over # {}
        <4>1. /\ usagePc' = "sleep"
              /\ usageHist' = [at |-> today, reset |-> meters[first].reset]
              /\ sleepUntil' = today + WaitFor(first, readable)
          BY <3>2, <3>4
        <4>2. first \in over BY <3>4 DEF Pools
        <4> HIDE DEF first
        <4> DEFINE r == meters[first].reset
        <4>3. r \in 0..Horizon /\ today <= r + MeterLag BY <4>2 DEF UseMeters
        <4> HIDE DEF r
        <4>4. meters[first].reset = r BY DEF r
        <4>5. /\ WaitFor(first, readable) \in Nat
              /\ MeterLag <= Grace =>
                    \/ today + WaitFor(first, readable) <= r + Slack
                    \/ today + WaitFor(first, readable) <= today + UsagePoll
                    \/ YearAt(r) < YearAt(today)
          BY <4>3, <4>4, WaitIsShort
        <4>6. usageHist'.at = today /\ usageHist'.reset = r BY <4>1, <4>4
        <4>7. MeterLag <= Grace =>
                 NoLongerThanNeeded' \/ YearAt(usageHist'.reset) < YearAt(usageHist'.at)
          BY <4>1, <4>5, <4>6 DEF NoLongerThanNeeded, Slack, UsagePoll
        <4>8. sleepUntil' \in Nat BY <1>0, <4>1, <4>5
        <4> QED BY <3>1, <4>1, <4>7, <4>8 DEF UseMeters, YearAt
      <3> QED BY <3>3, <3>4
    <2>5. CASE WakesUp BY <2>5 DEF WakesUp, UseMeters
    <2>6. CASE WorksIssue BY <2>6 DEF WorksIssue, UseMeters
    <2>7. CASE PoolFills
      <3>1. PICK p \in Pools, ahead \in 1..PoolSpan :
               /\ today + ahead <= Horizon
               /\ meters' = [meters EXCEPT ![p] = [over |-> TRUE, reset |-> today + ahead]]
               /\ UNCHANGED <<usagePc, usageCaps, today, sleepUntil, usageHist>>
        BY <2>7 DEF PoolFills
      <3>2. today + ahead \in 0..Horizon BY <1>0, <3>1
      <3>3. UseMeters'
        <4>1. meters' \in [Pools -> [over : BOOLEAN, reset : 0..Horizon]]
          BY <3>1, <3>2 DEF UseMeters
        <4>2. ASSUME NEW q \in Pools, meters'[q].over
              PROVE  today <= meters'[q].reset + MeterLag
          <5>1. CASE q = p
            <6>1. meters'[q].reset = today + ahead BY <3>1, <5>1 DEF UseMeters
            <6> QED BY <1>0, <3>2, <6>1
          <5>2. CASE q # p BY <3>1, <4>2, <5>2 DEF UseMeters
          <5> QED BY <5>1, <5>2
        <4> QED BY <3>1, <4>1, <4>2 DEF UseMeters
      <3>4. \A q \in Pools : meters'[q].reset \in 0..Horizon
        <4>1. meters' \in [Pools -> [over : BOOLEAN, reset : 0..Horizon]]
          BY <3>3 DEF UseMeters
        <4> QED BY <4>1
      <3> QED BY <3>1, <3>3, <3>4 DEF NoLongerThanNeeded
    <2>8. CASE PoolResets
      <3>1. PICK p \in Pools :
               /\ meters' = [meters EXCEPT ![p] = [over |-> FALSE, reset |-> 0]]
               /\ UNCHANGED <<usagePc, usageCaps, today, sleepUntil, usageHist>>
        BY <2>8 DEF PoolResets
      <3>2. UseMeters' BY <1>0, <3>1 DEF UseMeters
      <3>3. \A q \in Pools : meters'[q].reset \in 0..Horizon
        <4>1. meters' \in [Pools -> [over : BOOLEAN, reset : 0..Horizon]]
          BY <3>2 DEF UseMeters
        <4> QED BY <4>1
      <3> QED BY <3>1, <3>2, <3>3 DEF NoLongerThanNeeded
    <2>9. CASE DayPasses
      <3>1. /\ today < Horizon /\ today' = today + 1
            /\ \A p \in Pools : meters[p].over => today < meters[p].reset + MeterLag
            /\ UNCHANGED <<usagePc, usageCaps, meters, sleepUntil, usageHist>>
        BY <2>9 DEF DayPasses
      <3>2. today' \in 0..Horizon BY <1>0, <3>1
      <3>3. ASSUME NEW p \in Pools, meters[p].over
            PROVE  today + 1 <= meters[p].reset + MeterLag
        <4>1. meters[p].reset \in Nat BY <1>0
        <4> QED BY <1>0, <3>1, <3>3, <4>1
      <3> QED BY <3>1, <3>2, <3>3 DEF UseMeters, NoLongerThanNeeded
    <2>10. CASE UNCHANGED usageVars BY <2>10 DEF usageVars, UseMeters, NoLongerThanNeeded
    <2> QED BY <2>1, <2>2, <2>3, <2>4, <2>5, <2>6, <2>7, <2>8, <2>9, <2>10 DEF UsageNext
  <1> QED BY <1>1, <1>2, PTL DEF UseSpec

(* The wait never outlasts the need of the pool it waits for.              *)
THEOREM SleepIsShort ==
  ASSUME MeterLag <= Grace PROVE UseSpec => []SleepsNoLongerThanNeeded
  <1>1. UseInv => SleepsNoLongerThanNeeded BY DEF UseInv
  <1> QED BY <1>1, UseInductive, PTL

-----------------------------------------------------------------------------
(*                              the report                                 *)

StSpec == StatusInit /\ [][StatusNext]_stVars

(* What a read has to say of an issue that has not moved since: the row of *)
(* each listing, and the state of its pull request.                        *)
Inside(i) == stHub[i].open /\ Within(i, stScope.label)
InQueues(i) == IF Inside(i) THEN QueueRow(i) ELSE "absent"
InOutside(i) == IF stHub[i].open /\ ~Inside(i) THEN OutsideRow(i) ELSE "absent"
InPRs(i) ==
    IF Listed(i) /\ stHub[i].pr = "OPEN"
    THEN {"to read", "past the cap", "not read", stHub[i].view} ELSE {"absent"}
AfterListing == {"outside", "parks", "prs", "views", "docs", "printed"}
AfterOutside == {"parks", "prs", "views", "docs", "printed"}
AfterPRs == {"views", "docs", "printed"}
Unmoved == StIssues \ stHist.touched

StCells == {"absent", "to read", "past the cap", "not read", "fine", "human", "pending", "fix"}
StTypes ==
    /\ stPc \in {"rest", "scope", "list", "outside", "parks", "prs", "views", "docs", "printed",
                 "failed"}
    /\ stCall.strict \in BOOLEAN /\ (stPc # "rest" => stCall.label \in {"none", "gate", "other"})
    /\ stScope.label \in {"none", "gate", "other"}
    /\ stPc # "rest" => stHub \in [StIssues -> StIssue]
    /\ stPRs \in [StIssues -> StCells]
ListsAgree ==
    /\ stPc \in AfterListing => \A i \in Unmoved : stQueues[i] = InQueues(i)
    /\ stPc \in AfterOutside => \A i \in Unmoved : stOutside[i] = InOutside(i)
    /\ stPc \in {"rest", "scope", "list", "outside"} =>
          \A i \in StIssues : stOutside[i] = "absent"
PRsAgree ==
    /\ stPc \in AfterPRs => \A i \in Unmoved : stPRs[i] \in InPRs(i)
    /\ stPc \in {"docs", "printed"} => ToRead = {}
    /\ IsFiniteSet(Detailed) /\ Cardinality(Detailed) <= StatusPRs
    /\ stPc \notin AfterPRs => Detailed = {}
ParksAgree ==
    /\ stPc \in {"rest", "scope", "list", "outside", "parks"} =>
          \A i \in StIssues : stParks[i] = "unread"
    /\ \A i \in StIssues : stQueues[i] = "absent" => stParks[i] = "unread"
DocsAgree ==
    /\ stPc # "printed" => stDocs = NoDocs
    /\ DoneIsDone
StInv == StTypes /\ ListsAgree /\ PRsAgree /\ ParksAgree /\ DocsAgree

(* What the assumption says of the bounds, and of room for one row more.   *)
LEMMA StatusBounds ==
  /\ StIssues \in SUBSET (Nat \ {0}) /\ "" \notin StDocs /\ StatusPRs \in Nat
  BY StatusAssumption
LEMMA RoomLeft == \A a, b \in Nat : (a < b => a + 1 <= b) /\ 0 <= a OBVIOUS

(* The row of an issue says how it is labelled and what holds it back.     *)
LEMMA QueueRowIs ==
  ASSUME NEW i \in StIssues, stHub \in [StIssues -> StIssue]
  PROVE  /\ QueueRow(i) # "absent"
         /\ stHub[i].kids = "some" => QueueRow(i) = "unfinished"
         /\ stHub[i].kids = "all" /\ {"needs-human", "proposed"} \cap stHub[i].labels = {} =>
               QueueRow(i) = "finished epic"
         /\ stHub[i].kids = "all" /\ {"needs-human", "proposed"} \cap stHub[i].labels # {} =>
               QueueRow(i) = "held epic"
         /\ stHub[i].kids = "none" /\ "needs-human" \in stHub[i].labels =>
               QueueRow(i) \in {"parked", "parked design"}
         /\ stHub[i].kids = "none" /\ Holds \cap stHub[i].labels # {}
            /\ "needs-human" \notin stHub[i].labels =>
               QueueRow(i) \in {"proposed", "design", "blocked"}
         /\ stHub[i].kids = "none" /\ Holds \cap stHub[i].labels = {} =>
               QueueRow(i) = IF Blockers(i) = {} THEN "ready" ELSE "heldBack"
  <1> DEFINE L == stHub[i].labels
             row == RowIn(i)
  <1>1. stHub[i].kids \in {"none", "some", "all"} BY DEF StIssue
  <1>2. CASE stHub[i].kids # "none"
    <2>1. row = "containers" BY <1>2 DEF RowIn
    <2> QED BY <1>1, <1>2, <2>1 DEF QueueRow
  <1>3. CASE stHub[i].kids = "none" /\ "needs-human" \in L
    <2>1. row = "parked" BY <1>3 DEF RowIn
    <2> QED BY <1>3, <2>1 DEF QueueRow, Holds
  <1>4. CASE stHub[i].kids = "none" /\ "needs-human" \notin L /\ "proposed" \in L
    <2>1. {"needs-human", "proposed"} \cap L = {"proposed"} BY <1>4
    <2>2. row = "proposed" BY <1>4, <2>1 DEF RowIn
    <2> QED BY <1>4, <2>2 DEF QueueRow, Holds
  <1>5. CASE stHub[i].kids = "none" /\ "needs-human" \notin L /\ "proposed" \notin L
             /\ "design" \in L
    <2>1. {"needs-human", "proposed", "design"} \cap L = {"design"} BY <1>5
    <2>2. {"needs-human", "proposed"} \cap L = {} BY <1>5
    <2>3. row = "design" BY <1>5, <2>1, <2>2 DEF RowIn
    <2> QED BY <1>5, <2>3 DEF QueueRow, Holds
  <1>6. CASE stHub[i].kids = "none" /\ {"needs-human", "proposed", "design"} \cap L = {}
    <2>1. /\ "needs-human" \notin L /\ {"needs-human", "proposed"} \cap L # {"proposed"}
          /\ {"needs-human", "proposed", "design"} \cap L # {"design"}
      BY <1>6
    <2>2. CASE "awaiting-answer" \in L
      <3>1. row = "blocked" BY <1>6, <2>1, <2>2 DEF RowIn
      <3> QED BY <1>6, <2>1, <2>2, <3>1 DEF QueueRow, Holds
    <2>3. CASE "awaiting-answer" \notin L
      <3>1. row = IF Blockers(i) = {} THEN "ready" ELSE "heldBack"
        BY <1>6, <2>1, <2>3 DEF RowIn
      <3> QED BY <1>6, <2>1, <2>3, <3>1 DEF QueueRow, Holds
    <2> QED BY <2>2, <2>3
  <1> QED BY <1>1, <1>2, <1>3, <1>4, <1>5, <1>6

(* Outside the gate, what no shift will take is left to a person only when *)
(* it is a proposal or a design request.                                   *)
LEMMA OutsideRowIs ==
  ASSUME NEW i \in StIssues, stHub \in [StIssues -> StIssue]
  PROVE  /\ OutsideRow(i) \in {"outside", "ungated", "design", "counted"}
         /\ OutsideRow(i) \in {"ungated", "design"} <=>
               /\ stHub[i].kids = "none" /\ "needs-human" \notin stHub[i].labels
               /\ {"proposed", "design"} \cap stHub[i].labels # {}
  <1> DEFINE L == stHub[i].labels
             row == RowIn(i)
  <1>1. stHub[i].kids \in {"none", "some", "all"} BY DEF StIssue
  <1>2. CASE stHub[i].kids # "none"
    <2>1. row = "containers" BY <1>2 DEF RowIn
    <2> QED BY <1>2, <2>1 DEF OutsideRow
  <1>3. CASE stHub[i].kids = "none" /\ "needs-human" \in L
    <2>1. row = "parked" BY <1>3 DEF RowIn
    <2> QED BY <1>3, <2>1 DEF OutsideRow
  <1>4. CASE stHub[i].kids = "none" /\ "needs-human" \notin L /\ "proposed" \in L
    <2>1. {"needs-human", "proposed"} \cap L = {"proposed"} BY <1>4
    <2>2. row = "proposed" BY <1>4, <2>1 DEF RowIn
    <2> QED BY <1>4, <2>2 DEF OutsideRow
  <1>5. CASE stHub[i].kids = "none" /\ "needs-human" \notin L /\ "proposed" \notin L
             /\ "design" \in L
    <2>1. {"needs-human", "proposed", "design"} \cap L = {"design"} BY <1>5
    <2>2. {"needs-human", "proposed"} \cap L = {} BY <1>5
    <2>3. row = "design" BY <1>5, <2>1, <2>2 DEF RowIn
    <2> QED BY <1>5, <2>3 DEF OutsideRow
  <1>6. CASE stHub[i].kids = "none" /\ {"needs-human", "proposed", "design"} \cap L = {}
    <2>1. /\ "needs-human" \notin L /\ {"needs-human", "proposed"} \cap L # {"proposed"}
          /\ {"needs-human", "proposed", "design"} \cap L # {"design"}
      BY <1>6
    <2>2. row \in {"blocked", "ready", "heldBack"} BY <1>6, <2>1 DEF RowIn
    <2>3. {"proposed", "design"} \cap L = {} BY <1>6
    <2> QED BY <1>6, <2>2, <2>3 DEF OutsideRow
  <1> QED BY <1>1, <1>2, <1>3, <1>4, <1>5, <1>6

(* The lowest issue of a row is one of them.                               *)
LEMMA LowestInIs ==
  ASSUME NEW S \in SUBSET StIssues
  PROVE  /\ S = {} => LowestIn(S) = 0
         /\ S # {} => LowestIn(S) \in S /\ \A j \in S : LowestIn(S) <= j
  <1>1. CASE S = {} BY <1>1 DEF LowestIn
  <1>2. CASE S # {}
    <2>1. S \in SUBSET Nat BY StatusBounds
    <2>2. \E i \in S : \A j \in S : i <= j BY <1>2, <2>1, Smallest
    <2> QED BY <1>2, <2>2 DEF LowestIn
  <1> QED BY <1>1, <1>2

(* A report whose cells agree with what GitHub holds says what is: the     *)
(* five things SaysWhatIs asks, for one issue that has not moved.          *)
LEMMA AgreedReportHolds ==
  ASSUME StTypes, ListsAgree, PRsAgree PROVE SaysWhatIs
  <1> SUFFICES ASSUME stPc = "printed", NEW i \in Unmoved
               PROVE  /\ Cardinality(RowsOf(i)) = IF stHub[i].open THEN 1 ELSE 0
                      /\ (NeedsYou(i) \ LeftByAnEpic(i) # {} => ~ShiftMoves(i))
                      /\ (stHub[i].open /\ ~ShiftMoves(i) /\ ~WaitsOnOthers(i)
                            /\ stPRs[i] \notin {"not read", "past the cap"}) => NeedsYou(i) # {}
                      /\ (NextIn = i /\ stHub[i].pr = "none") =>
                            NextLine # "waits on its pull request"
                      /\ (stHist.touched = {} /\ stHub[i].open /\ ShiftMoves(i)
                            /\ stHub[i].kids = "none") =>
                               NextIn # 0 /\ (stCall.strict => NextIn <= i)
    BY DEF SaysWhatIs, Unmoved
  <1> DEFINE L == stHub[i].labels
  <1>1. i \in StIssues /\ i \in Nat \ {0} BY StatusBounds DEF Unmoved
  <1>2. stHub \in [StIssues -> StIssue] /\ stHub[i] \in StIssue BY <1>1 DEF StTypes
  <1>3. stQueues[i] = InQueues(i) /\ stOutside[i] = InOutside(i)
    BY DEF ListsAgree, AfterListing, AfterOutside
  <1>4. stPRs[i] \in InPRs(i) /\ stPRs[i] # "to read"
    BY <1>1 DEF PRsAgree, AfterPRs, ToRead
  <1>5. /\ stHub[i].kids \in {"none", "some", "all"} /\ stHub[i].open \in BOOLEAN
        /\ stHub[i].view \in {"fine", "human", "pending", "fix"}
    BY <1>2 DEF StIssue
  <1>6. /\ Inside(i) => stQueues[i] = QueueRow(i) /\ stOutside[i] = "absent"
        /\ stHub[i].open /\ ~Inside(i) =>
              stQueues[i] = "absent" /\ stOutside[i] = OutsideRow(i)
        /\ ~stHub[i].open => stQueues[i] = "absent" /\ stOutside[i] = "absent"
    BY <1>3 DEF InQueues, InOutside, Inside
  <1>7. QueueRow(i) # "absent" /\ OutsideRow(i) \in {"outside", "ungated", "design", "counted"}
    BY <1>1, <1>2, QueueRowIs, OutsideRowIs
  <1>8. /\ stHub[i].pr = "OPEN" /\ Listed(i) =>
              stPRs[i] \in {"past the cap", "not read", stHub[i].view}
        /\ ~(stHub[i].pr = "OPEN" /\ Listed(i)) => stPRs[i] = "absent"
    BY <1>4 DEF InPRs
  <1>9. Cardinality(RowsOf(i)) = IF stHub[i].open THEN 1 ELSE 0
    <2>1. ~stHub[i].open => RowsOf(i) = {} BY <1>6 DEF RowsOf
    <2>2. stHub[i].open => \E r : RowsOf(i) = {r}
      <3>1. CASE Inside(i)
        <4>1. RowsOf(i) = {QueueRow(i)} BY <1>6, <1>7, <3>1 DEF RowsOf
        <4> QED BY <4>1
      <3>2. CASE stHub[i].open /\ ~Inside(i)
        <4>1. RowsOf(i) = {OutsideRow(i)} BY <1>6, <1>7, <3>2 DEF RowsOf
        <4> QED BY <4>1
      <3> QED BY <3>1, <3>2
    <2> QED BY <2>1, <2>2, <1>5, FS_EmptySet, FS_Singleton
  <1>10. ASSUME NeedsYou(i) \ LeftByAnEpic(i) # {}, ShiftMoves(i) PROVE FALSE
    <2>1. Within(i, stScope.label) BY <1>10 DEF ShiftMoves
    <2>2. CASE stHub[i].kids = "all" /\ {"needs-human", "proposed"} \cap L = {}
      <3>1. stQueues[i] \in {"finished epic", "absent"}
        BY <1>1, <1>2, <1>6, <2>2, QueueRowIs DEF Inside
      <3>2. stOutside[i] = "absent" BY <1>6, <2>1 DEF Inside
      <3>3. NeedsYou(i) \subseteq {"merge", "approve"}
        BY <3>1, <3>2 DEF NeedsYou, RowsOf
      <3> QED BY <1>10, <2>2, <3>3 DEF LeftByAnEpic
    <2>3. CASE /\ stHub[i].kids = "none" /\ Holds \cap L = {} /\ Blockers(i) = {}
               /\ stHub[i].pr = "OPEN" => stHub[i].view \in {"fix", "pending"}
      <3>1. stQueues[i] \in {"ready", "absent"}
        BY <1>1, <1>2, <1>6, <2>3, QueueRowIs DEF Inside
      <3>2. stOutside[i] = "absent" BY <1>6, <2>1 DEF Inside
      <3>3. stPRs[i] \notin {"fine", "human"} BY <1>8, <2>3
      <3>4. NeedsYou(i) = {} BY <3>1, <3>2, <3>3 DEF NeedsYou, RowsOf
      <3> QED BY <1>10, <3>4
    <2> QED BY <1>10, <2>2, <2>3 DEF ShiftMoves
  <1>11. ASSUME stHub[i].open, ~ShiftMoves(i), ~WaitsOnOthers(i),
                stPRs[i] \notin {"not read", "past the cap"}
         PROVE  NeedsYou(i) # {}
    <2>1. stHub[i].kids # "some" BY <1>11 DEF WaitsOnOthers
    <2>2. CASE ~Within(i, stScope.label)
      <3>1. /\ {"proposed", "design"} \cap L # {} /\ stHub[i].kids = "none"
            /\ "needs-human" \notin L
        BY <1>11, <2>2 DEF WaitsOnOthers
      <3>2. stOutside[i] \in {"ungated", "design"}
        BY <1>1, <1>2, <1>6, <1>11, <2>2, <3>1, OutsideRowIs DEF Inside
      <3>3. CASE stOutside[i] = "ungated"
        <4>1. "curate and gate" \in NeedsYou(i) BY <3>3 DEF NeedsYou
        <4> QED BY <4>1
      <3>4. CASE stOutside[i] = "design"
        <4>1. "design" \in NeedsYou(i) BY <3>4 DEF NeedsYou, RowsOf
        <4> QED BY <4>1
      <3> QED BY <3>2, <3>3, <3>4
    <2>3. CASE Within(i, stScope.label)
      <3>1. Inside(i) /\ stQueues[i] = QueueRow(i) BY <1>6, <1>11, <2>3 DEF Inside
      <3>2. CASE stHub[i].kids = "all"
        <4>1. stQueues[i] = "held epic"
          BY <1>1, <1>2, <1>11, <2>3, <3>1, <3>2, QueueRowIs DEF ShiftMoves
        <4>2. "close" \in NeedsYou(i) BY <4>1 DEF NeedsYou
        <4> QED BY <4>2
      <3>3. CASE stHub[i].kids = "none" /\ Holds \cap L = {}
        <4>1. Blockers(i) = {} BY <1>11, <3>3 DEF WaitsOnOthers
        <4>2. stHub[i].pr = "OPEN" /\ stHub[i].view \in {"fine", "human"}
          BY <1>5, <1>11, <2>3, <3>3, <4>1 DEF ShiftMoves
        <4>3. Listed(i) BY <1>7, <3>1 DEF Listed
        <4>4. stPRs[i] \in {"fine", "human"} BY <1>8, <1>11, <4>2, <4>3
        <4>5. "merge" \in NeedsYou(i) \/ "approve" \in NeedsYou(i)
          <5>1. CASE stPRs[i] = "fine" BY <5>1 DEF NeedsYou
          <5>2. CASE stPRs[i] = "human" BY <5>2 DEF NeedsYou
          <5> QED BY <4>4, <5>1, <5>2
        <4> QED BY <4>5
      <3>4. CASE stHub[i].kids = "none" /\ Holds \cap L # {} /\ "needs-human" \in L
        <4>1. stQueues[i] \in {"parked", "parked design"} BY <1>1, <1>2, <3>1, <3>4, QueueRowIs
        <4>2. ParkClause(i) \in NeedsYou(i) BY <4>1 DEF NeedsYou
        <4> QED BY <4>2
      <3>5. CASE stHub[i].kids = "none" /\ Holds \cap L # {} /\ "needs-human" \notin L
        <4>1. stQueues[i] \in {"proposed", "design", "blocked"}
          BY <1>1, <1>2, <3>1, <3>5, QueueRowIs
        <4>2. CASE stQueues[i] = "proposed"
          <5>1. "curate" \in NeedsYou(i) BY <4>2 DEF NeedsYou
          <5> QED BY <5>1
        <4>3. CASE stQueues[i] = "design"
          <5>1. "design" \in NeedsYou(i) BY <4>3 DEF NeedsYou, RowsOf
          <5> QED BY <5>1
        <4>4. CASE stQueues[i] = "blocked"
          <5>1. "reply" \in NeedsYou(i) BY <4>4 DEF NeedsYou
          <5> QED BY <5>1
        <4> QED BY <4>1, <4>2, <4>3, <4>4
      <3> QED BY <1>5, <2>1, <3>2, <3>3, <3>4, <3>5
    <2> QED BY <2>2, <2>3
  <1>12. ASSUME NextIn = i, stHub[i].pr = "none"
         PROVE  NextLine # "waits on its pull request"
    <2>1. stPRs[i] = "absent" BY <1>8, <1>12
    <2>2. CASE stQueues[i] = "blocked" BY <1>1, <1>12, <2>1, <2>2 DEF NextLine
    <2>3. CASE stQueues[i] # "blocked" BY <1>1, <1>12, <2>1, <2>3 DEF NextLine
    <2> QED BY <2>2, <2>3
  <1>13. ASSUME stHub[i].open, ShiftMoves(i), stHub[i].kids = "none"
         PROVE  NextIn # 0 /\ (stCall.strict => NextIn <= i)
    <2>1. Inside(i) /\ Holds \cap L = {} /\ Blockers(i) = {}
      BY <1>13 DEF ShiftMoves, Inside
    <2>2. i \in InRow("ready") BY <1>1, <1>2, <1>6, <1>13, <2>1, QueueRowIs DEF InRow
    <2>3. /\ InRow("ready") \in SUBSET StIssues
          /\ InRow("ready") \cup InRow("blocked") \in SUBSET StIssues
          /\ 0 \notin StIssues
      BY StatusBounds DEF InRow
    <2>4. LowestIn(InRow("ready")) \in StIssues BY <2>2, <2>3, LowestInIs
    <2>5. /\ LowestIn(InRow("ready") \cup InRow("blocked")) \in StIssues
          /\ LowestIn(InRow("ready") \cup InRow("blocked")) <= i
      <3>1. i \in InRow("ready") \cup InRow("blocked") BY <2>2
      <3> HIDE <2>2
      <3> QED BY <2>3, <3>1, LowestInIs
    <2> QED BY <2>2, <2>3, <2>4, <2>5 DEF NextIn
  <1> QED BY <1>9, <1>10, <1>11, <1>12, <1>13

(* What moves on GitHub leaves the issues that did not move as they were,  *)
(* and with the same issues in front of them.                              *)
LEMMA MoveSpares ==
  ASSUME NEW k \in StIssues, NEW is \in StIssue, StMoves(k, is),
         stHub \in [StIssues -> StIssue], is.behind = stHub[k].behind
  PROVE  /\ stHub' \in [StIssues -> StIssue]
         /\ \A i \in Unmoved' :
               i \in Unmoved /\ stHub'[i] = stHub[i] /\ Blockers(i)' = Blockers(i)
  <1>1. stHub' = [stHub EXCEPT ![k] = is] /\ stHub' \in [StIssues -> StIssue] BY DEF StMoves
  <1>2. stHist'.touched = stHist.touched \cup {k} \cup {j \in StIssues : k \in stHub[j].behind}
    BY DEF StMoves
  <1>3. ASSUME NEW i \in Unmoved'
        PROVE  i \in Unmoved /\ stHub'[i] = stHub[i] /\ Blockers(i)' = Blockers(i)
    <2>1. i \in StIssues /\ i \notin stHist.touched /\ i # k /\ k \notin stHub[i].behind
      BY <1>2, <1>3 DEF Unmoved
    <2>2. stHub'[i] = stHub[i] BY <1>1, <2>1
    <2>3. stHub[i].behind \subseteq StIssues BY <2>1 DEF StIssue
    <2>4. \A b \in stHub[i].behind : stHub'[b] = stHub[b] BY <1>1, <2>1, <2>3
    <2>5. Blockers(i)' = {b \in stHub[i].behind : stHub'[b].open} BY <2>2 DEF Blockers
    <2>6. Blockers(i) = {b \in stHub[i].behind : stHub[b].open} BY DEF Blockers
    <2>7. Blockers(i)' = Blockers(i) BY <2>4, <2>5, <2>6
    <2> QED BY <2>1, <2>2, <2>7 DEF Unmoved
  <1> QED BY <1>1, <1>3

LEMMA MoveKeepsInv ==
  ASSUME StInv, NEW k \in StIssues, NEW is \in StIssue, StMoves(k, is),
         is.behind = stHub[k].behind
  PROVE  StInv'
  <1>1. /\ stPc \notin {"rest", "failed", "printed"}
        /\ UNCHANGED <<stPc, stCall, stScope, stQueues, stOutside, stParks, stPRs, stDocs>>
    BY DEF StMoves
  <1>2. stHub \in [StIssues -> StIssue] BY <1>1 DEF StInv, StTypes
  <1>3. /\ stHub' \in [StIssues -> StIssue]
        /\ \A i \in Unmoved' :
              i \in Unmoved /\ stHub'[i] = stHub[i] /\ Blockers(i)' = Blockers(i)
    BY <1>2, MoveSpares
  <1>4. StTypes' BY <1>1, <1>3 DEF StInv, StTypes
  <1>5. ASSUME NEW i \in Unmoved'
        PROVE  /\ InQueues(i)' = InQueues(i) /\ InOutside(i)' = InOutside(i)
               /\ InPRs(i)' = InPRs(i)
    <2>1. stHub'[i] = stHub[i] /\ Blockers(i)' = Blockers(i) BY <1>3
    <2>2. RowIn(i)' = RowIn(i) BY <2>1 DEF RowIn
    <2>3. Inside(i)' <=> Inside(i) BY <1>1, <2>1 DEF Inside, Within
    <2>4. QueueRow(i)' = QueueRow(i) BY <2>1, <2>2 DEF QueueRow
    <2>5. OutsideRow(i)' = OutsideRow(i) BY <2>2 DEF OutsideRow
    <2>6. Listed(i)' <=> Listed(i) BY <1>1 DEF Listed
    <2>7. InQueues(i)' = InQueues(i) BY <2>3, <2>4 DEF InQueues
    <2>8. InOutside(i)' = InOutside(i) BY <2>1, <2>3, <2>5 DEF InOutside
    <2>9. InPRs(i)' = InPRs(i) BY <2>1, <2>6 DEF InPRs
    <2> QED BY <2>7, <2>8, <2>9
  <1>6. ListsAgree' BY <1>1, <1>3, <1>5 DEF StInv, ListsAgree
  <1>7. ToRead' = ToRead /\ Detailed' = Detailed BY <1>1 DEF ToRead, Detailed
  <1>8. PRsAgree' BY <1>1, <1>3, <1>5, <1>7 DEF StInv, PRsAgree
  <1>9. ParksAgree' BY <1>1 DEF StInv, ParksAgree
  <1>10. DocsAgree' BY <1>1 DEF StInv, DocsAgree, DoneIsDone
  <1> QED BY <1>4, <1>6, <1>8, <1>9, <1>10 DEF StInv

(* A read of one pull request takes a detailed row only while there is     *)
(* room for one.                                                           *)
LEMMA ViewsKeepPRs ==
  ASSUME StInv, StatusViews PROVE StTypes' /\ PRsAgree'
  <1>0. /\ stPc = "views" /\ UNCHANGED <<stCall, stHub, stHist, stScope, stQueues, stOutside>>
        /\ StTypes /\ PRsAgree
    BY DEF StatusViews, StAt, StInv
  <1>1. ASSUME NEW i \in StIssues PROVE InPRs(i)' = InPRs(i)
    <2>1. Listed(i)' <=> Listed(i) BY <1>0 DEF Listed
    <2> QED BY <1>0, <2>1 DEF InPRs
  <1>2. CASE ToRead = {}
    <2>1. stPc' = "docs" /\ UNCHANGED stPRs BY <1>2 DEF StatusViews
    <2>2. ToRead' = {} /\ Detailed' = Detailed BY <1>2, <2>1 DEF ToRead, Detailed
    <2>3. StTypes' BY <1>0, <2>1 DEF StTypes
    <2>4. \A i \in Unmoved' : stPRs'[i] \in InPRs(i)'
      BY <1>0, <1>1, <2>1 DEF PRsAgree, AfterPRs, Unmoved
    <2> QED BY <1>0, <2>1, <2>2, <2>3, <2>4 DEF PRsAgree, AfterPRs
  <1>3. CASE ToRead # {}
    <2> DEFINE k == LowestIn(ToRead)
    <2>1. k \in StIssues /\ stPRs[k] = "to read"
      <3>1. ToRead \in SUBSET StIssues BY DEF ToRead
      <3>2. k \in ToRead BY <1>3, <3>1, LowestInIs
      <3> QED BY <3>2 DEF ToRead
    <2>2. /\ UNCHANGED stPc
          /\ \E cell \in IF RoomForDetail THEN {stHub[k].view, "not read"} ELSE {"past the cap"} :
                stPRs' = [stPRs EXCEPT ![k] = cell]
      BY <1>3 DEF StatusViews
    <2> HIDE DEF k
    <2>3. PICK cell \in IF RoomForDetail THEN {stHub[k].view, "not read"} ELSE {"past the cap"} :
             stPRs' = [stPRs EXCEPT ![k] = cell]
      BY <2>2
    <2>4. stHub[k].view \in {"fine", "human", "pending", "fix"}
      BY <1>0, <2>1 DEF StTypes, StIssue
    <2>5. stPRs \in [StIssues -> StCells] BY <1>0 DEF StTypes
    <2>6. cell \in StCells /\ cell \notin {"absent", "to read"} BY <2>3, <2>4 DEF StCells
    <2>7. StTypes' BY <1>0, <2>2, <2>3, <2>5, <2>6 DEF StTypes
    <2>8. ASSUME NEW i \in Unmoved PROVE stPRs'[i] \in InPRs(i)
      <3>1. i \in StIssues /\ stPRs[i] \in InPRs(i) BY <1>0 DEF Unmoved, PRsAgree, AfterPRs
      <3>2. CASE i = k
        <4>1. Listed(k) /\ stHub[k].pr = "OPEN" BY <2>1, <3>1, <3>2 DEF InPRs
        <4>2. stPRs'[i] = cell BY <2>3, <2>5, <3>1, <3>2
        <4>3. cell \in {"past the cap", "not read", stHub[k].view} BY <2>3
        <4> QED BY <3>2, <4>1, <4>2, <4>3 DEF InPRs
      <3>3. CASE i # k BY <2>3, <2>5, <3>1, <3>3
      <3> QED BY <3>2, <3>3
    <2>9. IsFiniteSet(Detailed') /\ Cardinality(Detailed') <= StatusPRs
      <3>1. IsFiniteSet(Detailed) /\ Cardinality(Detailed) <= StatusPRs BY <1>0 DEF PRsAgree
      <3>2. CASE RoomForDetail
        <4>1. cell # "past the cap" BY <2>3, <2>4, <3>2
        <4>2. Detailed' = Detailed \cup {k} BY <2>1, <2>3, <2>5, <2>6, <4>1 DEF Detailed
        <4>3. k \notin Detailed BY <2>1 DEF Detailed
        <4>4. IsFiniteSet(Detailed') /\ Cardinality(Detailed') = Cardinality(Detailed) + 1
          BY <3>1, <4>2, <4>3, FS_AddElement
        <4>5. Cardinality(Detailed) \in Nat BY <3>1, FS_CardinalityType
        <4>6. Cardinality(Detailed) < StatusPRs /\ StatusPRs \in Nat
          BY <3>2, StatusBounds DEF RoomForDetail
        <4>7. Cardinality(Detailed) + 1 <= StatusPRs BY <4>5, <4>6, RoomLeft
        <4> QED BY <4>4, <4>7
      <3>3. CASE ~RoomForDetail
        <4>1. cell = "past the cap" BY <2>3, <3>3
        <4>2. Detailed' = Detailed BY <2>1, <2>3, <2>5, <4>1 DEF Detailed
        <4> QED BY <3>1, <4>2
      <3> QED BY <3>2, <3>3
    <2>10. \A i \in Unmoved' : stPRs'[i] \in InPRs(i)' BY <1>0, <1>1, <2>8 DEF Unmoved
    <2> QED BY <1>0, <2>2, <2>7, <2>9, <2>10 DEF PRsAgree, AfterPRs
  <1> QED BY <1>2, <1>3

(* A document is done only when the issues that name it are all closed.    *)
LEMMA DocsReadAreDone ==
  ASSUME StInv, StatusReadsDocs PROVE DocsAgree'
  <1>1. /\ stPc = "docs" /\ stPc' = "printed" /\ UNCHANGED <<stCall, stHub, stHist>>
        /\ stDocs = NoDocs
    BY DEF StatusReadsDocs, StAt, StInv, DocsAgree
  <1>2. ASSUME NEW d \in StDocs, MoveDoc(d)', ~stDocs'.cut
        PROVE  /\ \E i \in StIssues : stHub[i].doc = d
               /\ \A i \in StIssues \ stHist.touched : stHub[i].doc = d => ~stHub[i].open
    <2>1. stDocs'.state[d] = "done" BY <1>2 DEF MoveDoc
    <2>2. ~UNCHANGED stDocs BY <1>1, <2>1 DEF NoDocs
    <2> DEFINE named(page) == {i \in page : stHub[i].doc = d}
    <2>3. PICK page \in SearchReturns(Stamped) :
             stDocs' = [cut |-> page # Stamped, state |-> [e \in StDocs |->
                   CASE ~stCall.checkout ->
                          IF {i \in page : stHub[i].doc = e} = {} THEN "absent"
                          ELSE DocState({i \in page : stHub[i].doc = e})
                     [] stCall.checkout /\ stCall.where[e] = "designs" ->
                          DocState({i \in page : stHub[i].doc = e})
                     [] stCall.checkout /\ stCall.where[e] = "done" -> "archived"
                     [] OTHER ->
                          IF {i \in page : stHub[i].doc = e} = {} THEN "absent" ELSE "gone"]]
      BY <2>2 DEF StatusReadsDocs
    <2>4. page = Stamped BY <1>2, <2>3
    <2>5. stDocs'.state[d] =
             CASE ~stCall.checkout ->
                    IF named(page) = {} THEN "absent" ELSE DocState(named(page))
               [] stCall.checkout /\ stCall.where[d] = "designs" -> DocState(named(page))
               [] stCall.checkout /\ stCall.where[d] = "done" -> "archived"
               [] OTHER -> IF named(page) = {} THEN "absent" ELSE "gone"
      BY <2>3
    <2> HIDE DEF named
    <2>6. DocState(named(page)) = "done" BY <2>1, <2>5
    <2>7. named(page) # {} /\ {i \in named(page) : stHub[i].open} = {}
      BY <2>6 DEF DocState
    <2>8. named(page) = {i \in StIssues : stHub[i].doc = d}
      BY <2>4, StatusBounds DEF named, Stamped
    <2> QED BY <2>7, <2>8
  <1>3. DoneIsDone' BY <1>1, <1>2 DEF DoneIsDone
  <1> QED BY <1>1, <1>3 DEF DocsAgree

(* Reads that answer, or fail, or say nothing: every step of status keeps  *)
(* its report in agreement with what has not moved (status.go:386, 849).   *)
THEOREM StInductive == StSpec => []StInv
  <1>1. StatusInit => StInv
    <2> SUFFICES ASSUME StatusInit PROVE StInv
      OBVIOUS
    <2> USE DEF StatusInit, NotListed
    <2>1. StTypes BY DEF StTypes, NoScope, StCells
    <2>2. ListsAgree BY DEF ListsAgree, AfterListing, AfterOutside
    <2>3. PRsAgree
      <3>1. Detailed = {} BY DEF Detailed
      <3> QED BY <3>1, FS_EmptySet, StatusBounds, RoomLeft DEF PRsAgree, AfterPRs
    <2>4. ParksAgree BY DEF ParksAgree
    <2>5. DocsAgree BY DEF DocsAgree, DoneIsDone
    <2> QED BY <2>1, <2>2, <2>3, <2>4, <2>5 DEF StInv
  <1>2. StInv /\ [StatusNext]_stVars => StInv'
    <2> SUFFICES ASSUME StInv, [StatusNext]_stVars PROVE StInv'
      OBVIOUS
    <2> USE DEF StInv
    <2>1. CASE StatusCalled
      <3>1. /\ stPc = "rest" /\ stPc' = "scope"
            /\ UNCHANGED <<stScope, stQueues, stOutside, stParks, stPRs, stDocs, stHist>>
        BY <2>1 DEF StatusCalled
      <3>2. PICK c \in StCalls : stCall' = c.call /\ stHub' = [i \in StIssues |-> c.issues[i]]
        BY <2>1 DEF StatusCalled
      <3>3. ToRead' = ToRead /\ Detailed' = Detailed BY <3>1 DEF ToRead, Detailed
      <3>4. StTypes' BY <3>1, <3>2, StatusAssumption DEF StTypes
      <3>5. ListsAgree' BY <3>1 DEF ListsAgree, AfterListing, AfterOutside
      <3>6. PRsAgree' BY <3>1, <3>3 DEF PRsAgree, AfterPRs
      <3>7. ParksAgree' BY <3>1 DEF ParksAgree
      <3>8. DocsAgree' BY <3>1 DEF DocsAgree, DoneIsDone
      <3> QED BY <3>4, <3>5, <3>6, <3>7, <3>8
    <2>2. CASE StatusScopes
      <3>1. /\ stPc = "scope" /\ stPc' = "list"
            /\ UNCHANGED <<stCall, stHub, stHist, stQueues, stOutside, stParks, stPRs, stDocs>>
        BY <2>2 DEF StatusScopes, StAt
      <3>2. stScope'.label \in {"none", "gate", "other"}
        <4>1. \/ stScope'.label = stCall.label \/ stScope'.label = "gate"
              \/ stScope'.label = "none"
          <5>1. CASE \E notes \in {{}, Undefined} :
                       stScope' = [label |-> stCall.label, source |-> stCall.from, notes |-> notes]
            BY <5>1
          <5>2. CASE stScope' = [label |-> "gate", source |-> "github", notes |-> {}]
            BY <5>2
          <5>3. CASE \E notes \in {{}, Unscoped}, read \in BOOLEAN :
                       stScope' = [NoScope EXCEPT !.notes = notes \cup
                          (IF read /\ stCall.marked > 1 THEN {"ambiguous mark"} ELSE {})]
            BY <5>3 DEF NoScope
          <5> QED BY <2>2, <5>1, <5>2, <5>3 DEF StatusScopes
        <4> QED BY <3>1, <4>1 DEF StTypes
      <3>3. ToRead' = ToRead /\ Detailed' = Detailed BY <3>1 DEF ToRead, Detailed
      <3>4. StTypes' BY <3>1, <3>2 DEF StTypes
      <3>5. ListsAgree' BY <3>1 DEF ListsAgree, AfterListing, AfterOutside
      <3>6. PRsAgree' BY <3>1, <3>3 DEF PRsAgree, AfterPRs
      <3>7. ParksAgree' BY <3>1 DEF ParksAgree
      <3>8. DocsAgree' BY <3>1 DEF DocsAgree, DoneIsDone
      <3> QED BY <3>4, <3>5, <3>6, <3>7, <3>8
    <2>3. CASE StatusLists
      <3>1. /\ stPc = "list" /\ stPc' \in {"failed", "parks", "outside"}
            /\ UNCHANGED <<stCall, stHub, stHist, stScope, stOutside, stParks, stPRs, stDocs>>
        BY <2>3 DEF StatusLists, StAt, StFails
      <3>2. stPc' = "failed" => UNCHANGED stQueues BY <2>3 DEF StatusLists
      <3>3. stPc' # "failed" =>
               /\ stPc' = IF stScope.label = "none" THEN "parks" ELSE "outside"
               /\ \A i \in StIssues : stQueues'[i] = InQueues(i)
        BY <2>3 DEF StatusLists, StFails, InQueues, Inside
      <3>4. ToRead' = ToRead /\ Detailed' = Detailed BY <3>1 DEF ToRead, Detailed
      <3>5. StTypes' BY <3>1 DEF StTypes
      <3>6. ListsAgree'
        <4>1. ASSUME NEW i \in StIssues PROVE InQueues(i)' = InQueues(i)
          BY <3>1 DEF InQueues, Inside, Within, QueueRow, RowIn, Blockers
        <4>2. ASSUME stPc' = "parks", NEW i \in StIssues PROVE InOutside(i)' = "absent"
          <5>1. stScope.label = "none" BY <3>3, <4>2
          <5>2. stScope'.label = "none" BY <3>1, <5>1
          <5>3. stHub'[i].open => Inside(i)' BY <5>2 DEF Inside, Within
          <5> QED BY <5>3 DEF InOutside
        <4>3. \A i \in StIssues : stOutside'[i] = "absent"
          BY <3>1 DEF ListsAgree, AfterOutside
        <4>4. stPc' \in AfterListing =>
                 \A i \in Unmoved' : stQueues'[i] = InQueues(i)'
          BY <3>3, <4>1 DEF AfterListing, Unmoved
        <4>5. stPc' \in AfterOutside => stPc' = "parks" BY <3>1 DEF AfterOutside
        <4>6. stPc' \in AfterOutside => \A i \in Unmoved' : stOutside'[i] = InOutside(i)'
          BY <4>2, <4>3, <4>5 DEF Unmoved
        <4> QED BY <4>3, <4>4, <4>6 DEF ListsAgree
      <3>7. PRsAgree' BY <3>1, <3>4 DEF PRsAgree, AfterPRs
      <3>8. ParksAgree' BY <3>1, <3>2 DEF ParksAgree
      <3>9. DocsAgree' BY <3>1 DEF DocsAgree, DoneIsDone
      <3> QED BY <3>5, <3>6, <3>7, <3>8, <3>9
    <2>4. CASE StatusListsOutside
      <3>1. /\ stPc = "outside" /\ stPc' \in {"failed", "parks"}
            /\ UNCHANGED <<stCall, stHub, stHist, stScope, stQueues, stParks, stPRs, stDocs>>
        BY <2>4 DEF StatusListsOutside, StAt, StFails
      <3>2. stPc' = "failed" => UNCHANGED stOutside BY <2>4 DEF StatusListsOutside
      <3>3. stPc' = "parks" => \A i \in StIssues : stOutside'[i] = InOutside(i)
        BY <2>4 DEF StatusListsOutside, StFails, InOutside, Inside
      <3>4. ToRead' = ToRead /\ Detailed' = Detailed BY <3>1 DEF ToRead, Detailed
      <3>5. StTypes' BY <3>1 DEF StTypes
      <3>6. ListsAgree'
        <4>1. ASSUME NEW i \in StIssues
              PROVE  InQueues(i)' = InQueues(i) /\ InOutside(i)' = InOutside(i)
          BY <3>1 DEF InQueues, InOutside, Inside, Within, QueueRow, OutsideRow, RowIn, Blockers
        <4>2. stPc' \in AfterListing => \A i \in Unmoved' : stQueues'[i] = InQueues(i)'
          BY <3>1, <4>1 DEF ListsAgree, AfterListing, Unmoved
        <4>3. stPc' \in AfterOutside => \A i \in Unmoved' : stOutside'[i] = InOutside(i)'
          BY <3>1, <3>3, <4>1 DEF AfterOutside, Unmoved
        <4> QED BY <3>1, <4>2, <4>3 DEF ListsAgree
      <3>7. PRsAgree' BY <3>1, <3>4 DEF PRsAgree, AfterPRs
      <3>8. ParksAgree' BY <3>1 DEF ParksAgree
      <3>9. DocsAgree' BY <3>1 DEF DocsAgree, DoneIsDone
      <3> QED BY <3>5, <3>6, <3>7, <3>8, <3>9
    <2> DEFINE SameLists ==
          /\ UNCHANGED <<stHub, stHist, stScope, stQueues, stOutside>>
          /\ stPc \in AfterOutside /\ stPc' \in AfterOutside \cup {"failed"}
    <2>5. ASSUME SameLists, stPc' # "failed"
          PROVE  /\ ListsAgree'
                 /\ \A i \in StIssues : InPRs(i)' = InPRs(i)
      <3>1. ASSUME NEW i \in StIssues
            PROVE  /\ InQueues(i)' = InQueues(i) /\ InOutside(i)' = InOutside(i)
                   /\ InPRs(i)' = InPRs(i)
        <4>1. InQueues(i)' = InQueues(i) /\ InOutside(i)' = InOutside(i)
          BY <2>5 DEF InQueues, InOutside, Inside, Within, QueueRow, OutsideRow, RowIn, Blockers
        <4>2. InPRs(i)' = InPRs(i) BY <2>5 DEF InPRs, Listed
        <4> QED BY <4>1, <4>2
      <3>2. ListsAgree' BY <2>5, <3>1 DEF ListsAgree, AfterListing, AfterOutside, Unmoved
      <3> QED BY <3>1, <3>2
    <2>6. CASE StatusParks
      <3>1. /\ stPc = "parks" /\ stPc' = "prs"
            /\ UNCHANGED <<stCall, stHub, stHist, stScope, stQueues, stOutside, stPRs, stDocs>>
        BY <2>6 DEF StatusParks, StAt
      <3>2. SameLists BY <3>1 DEF AfterOutside
      <3>3. ListsAgree' BY <2>5, <3>1, <3>2
      <3>4. ToRead' = ToRead /\ Detailed' = Detailed BY <3>1 DEF ToRead, Detailed
      <3>5. StTypes' BY <3>1 DEF StTypes
      <3>6. PRsAgree' BY <3>1, <3>4 DEF PRsAgree, AfterPRs
      <3>7. ASSUME NEW i \in StIssues, stQueues[i] = "absent" PROVE stParks'[i] = "unread"
        <4>1. i \notin InRow("parked") \cup InRow("parked design") BY <3>7 DEF InRow
        <4>2. CASE UNCHANGED stParks BY <3>7, <4>2 DEF ParksAgree
        <4>3. CASE ~UNCHANGED stParks
          <5>1. PICK read \in SUBSET (InRow("parked") \cup InRow("parked design")) :
                   stParks' = [j \in StIssues |->
                      IF j \in read THEN stHub[j].park
                      ELSE IF j \in InRow("parked") \cup InRow("parked design")
                           THEN "hand" ELSE "unread"]
            BY <2>6, <4>3 DEF StatusParks
          <5> QED BY <4>1, <5>1
        <4> QED BY <4>2, <4>3
      <3>8. ParksAgree' BY <3>1, <3>7 DEF ParksAgree
      <3>9. DocsAgree' BY <3>1 DEF DocsAgree, DoneIsDone
      <3> QED BY <3>3, <3>5, <3>6, <3>8, <3>9
    <2>7. CASE StatusListsPRs
      <3>1. /\ stPc = "prs" /\ stPc' \in {"failed", "views"}
            /\ UNCHANGED <<stCall, stHub, stHist, stScope, stQueues, stOutside, stParks, stDocs>>
        BY <2>7 DEF StatusListsPRs, StAt, StFails
      <3>2. stPc' = "failed" => UNCHANGED stPRs BY <2>7 DEF StatusListsPRs
      <3>3. stPc' = "views" => stPRs' = [i \in StIssues |->
               IF Listed(i) /\ stHub[i].pr = "OPEN" THEN "to read" ELSE "absent"]
        BY <2>7 DEF StatusListsPRs, StFails
      <3>4. SameLists BY <3>1 DEF AfterOutside
      <3>5. StTypes' BY <3>1, <3>2, <3>3 DEF StTypes, StCells
      <3>6. ParksAgree' BY <3>1 DEF ParksAgree
      <3>7. DocsAgree' BY <3>1 DEF DocsAgree, DoneIsDone
      <3>8. CASE stPc' = "views"
        <4>1. ListsAgree' /\ \A i \in StIssues : InPRs(i)' = InPRs(i) BY <2>5, <3>4, <3>8
        <4>2. Detailed' = {} BY <3>3, <3>8 DEF Detailed
        <4>3. \A i \in StIssues : stPRs'[i] \in InPRs(i) BY <3>3, <3>8 DEF InPRs
        <4>4. \A i \in Unmoved' : stPRs'[i] \in InPRs(i)' BY <4>1, <4>3 DEF Unmoved
        <4>5. IsFiniteSet(Detailed') /\ Cardinality(Detailed') <= StatusPRs
          BY <4>2, FS_EmptySet, StatusBounds, RoomLeft
        <4>6. PRsAgree' BY <3>8, <4>4, <4>5 DEF PRsAgree, AfterPRs
        <4> QED BY <3>5, <3>6, <3>7, <4>1, <4>6
      <3>9. CASE stPc' = "failed"
        <4>1. Detailed' = Detailed BY <3>2, <3>9 DEF Detailed
        <4>2. Detailed = {} BY <3>1 DEF PRsAgree, AfterPRs
        <4>3. PRsAgree' BY <3>9, <4>1, <4>2 DEF PRsAgree, AfterPRs
        <4>4. ListsAgree' BY <3>9 DEF ListsAgree, AfterOutside, AfterListing
        <4> QED BY <3>5, <3>6, <3>7, <4>3, <4>4
      <3> QED BY <3>1, <3>8, <3>9
    <2>8. CASE StatusViews
      <3>1. /\ stPc = "views" /\ stPc' \in {"views", "docs"}
            /\ UNCHANGED <<stCall, stHub, stHist, stScope, stQueues, stOutside, stParks, stDocs>>
        BY <2>8 DEF StatusViews, StAt
      <3>2. SameLists BY <3>1 DEF AfterOutside
      <3>3. ListsAgree' BY <2>5, <3>1, <3>2
      <3>4. StTypes' /\ PRsAgree' BY <2>8, ViewsKeepPRs
      <3>5. ParksAgree' BY <3>1 DEF ParksAgree
      <3>6. DocsAgree' BY <3>1 DEF DocsAgree, DoneIsDone
      <3> QED BY <3>3, <3>4, <3>5, <3>6
    <2>9. CASE StatusReadsDocs
      <3>1. /\ stPc = "docs" /\ stPc' = "printed"
            /\ UNCHANGED <<stCall, stHub, stHist, stScope, stQueues, stOutside, stParks, stPRs>>
        BY <2>9 DEF StatusReadsDocs, StAt
      <3>2. SameLists BY <3>1 DEF AfterOutside
      <3>3. ListsAgree' /\ \A i \in StIssues : InPRs(i)' = InPRs(i) BY <2>5, <3>1, <3>2
      <3>4. ToRead' = ToRead /\ Detailed' = Detailed BY <3>1 DEF ToRead, Detailed
      <3>5. StTypes' BY <3>1 DEF StTypes
      <3>6. PRsAgree'
        <4>1. \A i \in Unmoved' : stPRs'[i] \in InPRs(i)'
          BY <3>1, <3>3 DEF PRsAgree, AfterPRs, Unmoved
        <4> QED BY <3>1, <3>4, <4>1 DEF PRsAgree, AfterPRs
      <3>7. ParksAgree' BY <3>1 DEF ParksAgree
      <3>8. DocsAgree' BY <2>9, DocsReadAreDone
      <3> QED BY <3>3, <3>5, <3>6, <3>7, <3>8
    <2>10. CASE IssueRelabelled \/ IssueCloses \/ PRMoves
      <3>1. stPc # "rest" => stHub \in [StIssues -> StIssue] BY DEF StTypes
      <3>2. CASE IssueRelabelled
        <4>1. PICK i \in StIssues, l \in {"gate", "proposed", "needs-human", "awaiting-answer"} :
                 StMoves(i, [stHub[i] EXCEPT !.labels = (@ \ {l}) \cup ({l} \ @)])
          BY <3>2 DEF IssueRelabelled
        <4>2. stHub[i] \in StIssue BY <3>1, <4>1 DEF StMoves
        <4> DEFINE is == [stHub[i] EXCEPT !.labels = (@ \ {l}) \cup ({l} \ @)]
        <4>3. is \in StIssue /\ is.behind = stHub[i].behind BY <4>2 DEF StIssue, StLabels
        <4>4. StMoves(i, is) BY <4>1
        <4> HIDE DEF is
        <4> QED BY <4>3, <4>4, MoveKeepsInv
      <3>3. CASE IssueCloses
        <4>1. PICK i \in StIssues :
                 StMoves(i, [stHub[i] EXCEPT !.open = FALSE,
                                             !.pr = IF @ = "OPEN" THEN "MERGED" ELSE @])
          BY <3>3 DEF IssueCloses
        <4>2. stHub[i] \in StIssue BY <3>1, <4>1 DEF StMoves
        <4> DEFINE is == [stHub[i] EXCEPT !.open = FALSE,
                                          !.pr = IF @ = "OPEN" THEN "MERGED" ELSE @]
        <4>3. is \in StIssue /\ is.behind = stHub[i].behind BY <4>2 DEF StIssue
        <4>4. StMoves(i, is) BY <4>1
        <4> HIDE DEF is
        <4> QED BY <4>3, <4>4, MoveKeepsInv
      <3>4. CASE PRMoves
        <4>1. PICK i \in StIssues, pr \in {"OPEN", "CLOSED"}, view \in {"fine", "fix"} :
                 StMoves(i, [stHub[i] EXCEPT !.pr = pr, !.view = view])
          BY <3>4 DEF PRMoves
        <4>2. stHub[i] \in StIssue BY <3>1, <4>1 DEF StMoves
        <4> DEFINE is == [stHub[i] EXCEPT !.pr = pr, !.view = view]
        <4>3. is \in StIssue /\ is.behind = stHub[i].behind BY <4>2 DEF StIssue
        <4>4. StMoves(i, is) BY <4>1
        <4> HIDE DEF is
        <4> QED BY <4>3, <4>4, MoveKeepsInv
      <3> QED BY <2>10, <3>2, <3>3, <3>4
    <2>11. CASE UNCHANGED stVars
      <3>1. UNCHANGED <<stPc, stCall, stHub, stScope, stQueues, stOutside, stParks, stPRs,
                        stDocs, stHist>>
        BY <2>11 DEF stVars
      <3>2. StTypes' BY <3>1 DEF StTypes
      <3>3. ListsAgree'
        <4>1. ASSUME NEW i \in StIssues
              PROVE  InQueues(i)' = InQueues(i) /\ InOutside(i)' = InOutside(i)
          BY <3>1 DEF InQueues, InOutside, Inside, Within, QueueRow, OutsideRow, RowIn, Blockers
        <4> QED BY <3>1, <4>1 DEF ListsAgree, Unmoved
      <3>4. PRsAgree' BY <3>1 DEF PRsAgree, Unmoved, InPRs, Listed, ToRead, Detailed
      <3>5. ParksAgree' BY <3>1 DEF ParksAgree
      <3>6. DocsAgree' BY <3>1 DEF DocsAgree, DoneIsDone, MoveDoc
      <3> QED BY <3>2, <3>3, <3>4, <3>5, <3>6
    <2> QED BY <2>1, <2>2, <2>3, <2>4, <2>6, <2>7, <2>8, <2>9, <2>10, <2>11 DEF StatusNext
  <1> QED BY <1>1, <1>2, PTL DEF StSpec

(* The report that is printed holds of every issue that did not move while *)
(* it was put together, and of every document whose search was not cut.    *)
THEOREM StatusStands == StSpec => []ReportStands
  <1>1. StInv => ReportStands
    BY AgreedReportHolds DEF StInv, DocsAgree, ReportStands
  <1> QED BY <1>1, StInductive, PTL

-----------------------------------------------------------------------------
(*               the types that take more than the invariants             *)

(* The pass counts among what it labelled only rows it had listed, and     *)
(* people move as often as the bound says.                                 *)
LabelledInv ==
    /\ intakePass.labelled \subseteq intakePass.created
    /\ intakePc \in IntStarts \cup {"run", "name", "pass"} => intakePass.labelled = {}
    /\ intakeHist.moves \in 0..IntakeMoves

LEMMA LabelledKeeps ==
  IntInv /\ LabelledInv /\ [IntakeNext]_intakeVars => LabelledInv'
  <1> SUFFICES ASSUME IntInv, LabelledInv, [IntakeNext]_intakeVars PROVE LabelledInv'
    OBVIOUS
  <1> DEFINE PassTypes == [created : SUBSET DOMAIN backlog, labelled : SUBSET Nat, failures : Nat,
                        unlisted : BOOLEAN, title : BOOLEAN]
  <1>1. /\ intakePass \in PassTypes
        /\ intakePc \in IntStarts \cup {"run"} \cup IntLeaves \cup {"end"}
        /\ intakeRow.n # NoRow => intakeRow.n \in intakePass.created
        /\ intakeHist \in IntHists
    BY DEF IntInv, IntTypes
  <1>2. IntakeMoves \in Nat BY IntakeAssumption
  <1> USE DEF LabelledInv, IntStarts, IntLeaves
  <1>3. CASE IntakeCalled \/ RunFilesIssue \/ IntakeRunEnds \/ IntakeLeaves
    BY <1>3 DEF IntakeCalled, RunFilesIssue, IntakeRunEnds, IntakeLeaves, IntakeAt, IntakeStays,
                Returns
  <1>11. CASE IntakeSnapshots
    <2>1. intakePc = "snapshot" /\ intakePc' \in {"end", "run"} /\ UNCHANGED intakePass
      BY <1>11 DEF IntakeSnapshots, IntakeAt, Returns
    <2>2. intakeHist'.moves = intakeHist.moves
      BY <1>1, <1>11 DEF IntakeSnapshots, IntHists
    <2> QED BY <2>1, <2>2
  <1>4. CASE IntakePreflight \/ NamesMilestone
    <2>1. PICK t : intakePass' = intakePass \/ intakePass' = [intakePass EXCEPT !.title = t]
      BY <1>4 DEF IntakePreflight, NamesMilestone
    <2>2. /\ intakePass'.labelled = intakePass.labelled
          /\ intakePass'.created = intakePass.created
      BY <1>1, <2>1
    <2>3. UNCHANGED intakeHist /\ intakePc \in {"preflight", "name"}
      BY <1>4 DEF IntakePreflight, NamesMilestone, IntakeAt, IntakeStays
    <2> QED BY <1>1, <2>2, <2>3
  <1>5. CASE PassLists
    <2>1. intakePc = "pass" /\ UNCHANGED intakeHist /\ intakePc' \in {"row", "traces"}
      BY <1>5 DEF PassLists, IntakeAt
    <2>2. PICK c : \/ intakePass' = [intakePass EXCEPT !.unlisted = TRUE]
                   \/ intakePass' = [intakePass EXCEPT !.created = c]
      BY <1>5 DEF PassLists
    <2>3. intakePass'.labelled = {} BY <1>1, <2>1, <2>2
    <2> QED BY <2>1, <2>3
  <1>6. CASE PassTakes
    BY <1>6 DEF PassTakes, IntakeAt
  <1>7. CASE Strips \/ AddsProposed \/ Attaches
    <2>1. intakePc = "row" /\ intakePc' = "row" /\ UNCHANGED intakeHist
      BY <1>7 DEF Strips, AddsProposed, Attaches, RowStep, IntakeAt
    <2>2. intakePass' = intakePass \/ intakePass' = [intakePass EXCEPT !.failures = @ + 1]
      BY <1>7 DEF Strips, AddsProposed, Attaches, EditFails, Edited
    <2>3. /\ intakePass'.labelled = intakePass.labelled
          /\ intakePass'.created = intakePass.created
      BY <1>1, <2>2
    <2> QED BY <2>1, <2>3
  <1>8. CASE RowDone
    <2>1. intakePc = "row" /\ intakePc' = "row" /\ UNCHANGED intakeHist /\ intakeRow.n # NoRow
      BY <1>8 DEF RowDone, RowStep, IntakeAt
    <2>2. PICK l : /\ l = intakePass.labelled \/ l = intakePass.labelled \cup {intakeRow.n}
                   /\ intakePass' = [intakePass EXCEPT !.labelled = l]
      BY <1>8 DEF RowDone
    <2>3. intakePass'.labelled = l /\ intakePass'.created = intakePass.created
      BY <1>1, <2>2
    <2> QED BY <1>1, <2>1, <2>2, <2>3
  <1>9. CASE PersonFiles \/ PersonLabels \/ PersonShuts \/ PersonReopens
    <2>1. PICK n, r : IntakeMove(n, r)
      BY <1>9 DEF PersonFiles, PersonLabels, PersonShuts, PersonReopens
    <2>2. /\ intakeHist.moves < IntakeMoves /\ intakeHist'.moves = intakeHist.moves + 1
          /\ UNCHANGED <<intakePc, intakePass>>
      BY <1>1, <2>1 DEF IntakeMove, IntHists
    <2>3. intakeHist.moves \in Nat BY <1>1 DEF IntHists
    <2> QED BY <1>1, <1>2, <2>2, <2>3
  <1>10. CASE UNCHANGED intakeVars BY <1>10 DEF intakeVars
  <1> QED BY <1>3, <1>4, <1>5, <1>6, <1>7, <1>8, <1>9, <1>10, <1>11 DEF IntakeNext

(* Every field the label pass keeps has its type.                          *)
LEMMA IntakeTypeCorrect == IntSpec => []IntakeTypeOK
  <1>1. IntakeInit => LabelledInv
    BY IntakeAssumption DEF IntakeInit, LabelledInv, NoPass
  <1>2. IntInv /\ LabelledInv => IntakeTypeOK
    <2> SUFFICES ASSUME IntInv, LabelledInv PROVE IntakeTypeOK
      OBVIOUS
    <2>1. /\ intakePc \in {"rest", "preflight", "snapshot", "run", "name", "pass", "row",
                           "traces", "end"}
      BY DEF IntInv, IntTypes, IntStarts, IntLeaves
    <2>2. ASSUME NEW n \in DOMAIN backlog
          PROVE  backlog[n].labels \subseteq StrayLabels \cup {"proposed"}
      <3>1. backlog[n] \in IntIssues BY DEF IntInv, IntTypes
      <3> QED BY <3>1 DEF IntIssues, IntLabels
    <2>3. before.seen \subseteq DOMAIN backlog BY DEF IntInv, IntTypes
    <2>4. intakePass.created \subseteq DOMAIN backlog BY DEF IntInv, IntTypes
    <2>5. DOMAIN intakeTodo \subseteq DOMAIN backlog BY <2>4 DEF IntInv, IntTypes
    <2> QED BY <2>1, <2>2, <2>3, <2>5 DEF LabelledInv, IntakeTypeOK
  <1> QED BY <1>1, <1>2, LabelledKeeps, IntInductive, PTL DEF IntSpec

(* What a run gets comes from a cell, a label or nowhere.                  *)
PolicySources == {"none", "inherit", "flag", "remediation", "label", "epic", "size"}
LEMMA PolicyTypeCorrect == PolicySpec => []PolicyTypeOK
  <1> DEFINE Sourced == policyRun.source \in PolicySources
  <1>1. PolicyInit => Sourced
    <2>1. NoRunYet.source \in PolicySources BY DEF NoRunYet, PolicySources
    <2> QED BY <2>1 DEF PolicyInit
  <1>2. PolicyInv /\ Sourced /\ [PolicyNext]_policyVars => Sourced'
    <2> SUFFICES ASSUME PolicyInv, Sourced, [PolicyNext]_policyVars PROVE Sourced'
      OBVIOUS
    <2>1. CASE Dispatches
      <3>1. PICK r \in Remediations \cup Implementations :
               policyRun' = [reason |-> r, value |-> Choose(r).value, source |-> Choose(r).source]
        BY <2>1 DEF Dispatches
      <3>2. ASSUME NEW label, NEW re PROVE Pick(label, re).source \in PolicySources
        BY DEF Pick, PolicySources
      <3>3. ASSUME NEW cur, NEW label, NEW re, cur.source \in PolicySources
            PROVE  BySize(cur, label, re).source \in PolicySources
        BY <3>3 DEF BySize, PolicySources
      <3>4. Choose(r).source \in PolicySources BY <3>2, <3>3 DEF Choose
      <3> QED BY <3>1, <3>4
    <2>2. CASE LegEndsForPolicy
      <3>1. policyRun' = NoRunYet BY <2>2 DEF LegEndsForPolicy
      <3> QED BY <3>1 DEF NoRunYet, PolicySources
    <2>3. CASE IssueComes \/ PicksUp \/ UNCHANGED policyVars
      BY <2>3 DEF IssueComes, PicksUp, policyVars
    <2> QED BY <2>1, <2>2, <2>3 DEF PolicyNext
  <1>3. PolicyInv /\ Sourced => PolicyTypeOK BY DEF PolicyInv, PolicyTypeOK, PolicySources
  <1> QED BY <1>1, <1>2, <1>3, PolicyInitInv, PolicyNextInv, PTL DEF PolicySpec

(* A dry run notes gates and nothing else; a call writes two things.       *)
LEMMA PreTypeCorrect == PreSpec => []PreTypeOK
  <1> DEFINE Gates == {"queue", "label", "effort", "skew"}
             Noted == preNotes \subseteq Gates /\ preWrote \subseteq {"shift log", "label"}
  <1>1. PreInit => Noted BY DEF PreInit
  <1>2. Noted /\ [PreNext]_preVars => Noted'
    <2> SUFFICES ASSUME Noted, [PreNext]_preVars PROVE Noted'
      OBVIOUS
    <2>1. ASSUME NEW shut, NEW gate \in Gates, NEW pc, RefuseOrNote(shut, gate, pc),
                 UNCHANGED preWrote
          PROVE  Noted'
      BY <2>1 DEF RefuseOrNote, PreGoes, Refuses
    <2>2. CASE QueueGate BY <2>1, <2>2 DEF QueueGate
    <2>3. CASE LabelGate
      <3>1. CASE UNCHANGED <<preNotes, preWrote>> BY <3>1
      <3> QED BY <2>1, <2>3, <3>1 DEF LabelGate
    <2>4. CASE EffortGate BY <2>1, <2>4 DEF EffortGate
    <2>5. CASE SkewGate BY <2>1, <2>5 DEF SkewGate
    <2>6. CASE PreReads \/ Declares
      BY <2>6 DEF PreReads, Declares
    <2>7. CASE PreCalled \/ ReadsVersions \/ Starts \/ DryRuns \/ UNCHANGED preVars
      <3>1. CASE PreCalled BY <3>1 DEF PreCalled
      <3>2. CASE ReadsVersions BY <3>2 DEF ReadsVersions
      <3>3. CASE Starts \/ DryRuns
        <4>1. UNCHANGED <<preNotes, preWrote>> BY <3>3, Zenon DEF Starts, DryRuns
        <4> QED BY <4>1
      <3> QED BY <2>7, <3>1, <3>2, <3>3 DEF preVars
    <2> QED BY <2>2, <2>3, <2>4, <2>5, <2>6, <2>7 DEF PreNext
  <1>3. PreInv /\ Noted => PreTypeOK BY DEF PreInv, PreSteps, PreTypeOK
  <1> QED BY <1>1, <1>2, <1>3, PreInitInv, PreNextInv, PTL DEF PreSpec

(* Only what is in the worktree is staged, and only what is wanted is      *)
(* proposed.                                                               *)
StagedInv ==
    /\ setHome.staged \subseteq setHome.tree
    /\ setCall.proposed \subseteq setCall.want
    /\ setPc \in {"labels", "ask"} => setCall.proposed = {}
LEMMA StagedKeeps == SetInv /\ StagedInv /\ [SetupNext]_setVars => StagedInv'
  <1> SUFFICES ASSUME SetInv, StagedInv, [SetupNext]_setVars PROVE StagedInv'
    OBVIOUS
  <1>1. setCall \in SetCalls /\ setHome \in SetHomes BY DEF SetInv, SetTypes
  <1> USE DEF StagedInv
  <1>2. CASE SetupReads
    BY <1>2 DEF SetupReads, NoCall
  <1>3. CASE SetupLabels
    <2>1. setPc = "labels" /\ UNCHANGED <<setCall, setHome>>
      BY <1>3 DEF SetupLabels, SetAt
    <2> QED BY <2>1
  <1>4. CASE SetupAsks
    <2>1. PICK want : setCall' = [setCall EXCEPT !.want = want] BY <1>4 DEF SetupAsks
    <2>2. setPc' \in {"end", "look"} /\ setPc = "ask" /\ UNCHANGED setHome
      BY <1>4 DEF SetupAsks, SetGoes, SetAt
    <2>3. setCall'.proposed = {} BY <1>1, <2>1, <2>2 DEF SetCalls
    <2> QED BY <2>2, <2>3
  <1>5. CASE SetupLooks \/ SetupPushes \/ SetupCreates \/ SetupDies
    BY <1>5 DEF SetupLooks, SetupPushes, SetupCreates, SetupDies, SetGoes, Stops
  <1>6. CASE SetupFetches
    <2>1. PICK b : setCall' = setCall \/ setCall' = [setCall EXCEPT !.base = b]
      BY <1>6 DEF SetupFetches
    <2>2. setCall'.proposed = setCall.proposed /\ setCall'.want = setCall.want
      BY <1>1, <2>1 DEF SetCalls
    <2>3. setPc' \notin {"labels", "ask"} /\ UNCHANGED setHome
      BY <1>6 DEF SetupFetches, Stops, SetGoes
    <2> QED BY <2>2, <2>3
  <1>7. CASE SetupOpensTree
    <2>1. PICK t : setCall' = setCall \/ setCall' = [setCall EXCEPT !.todo = t]
      BY <1>7 DEF SetupOpensTree
    <2>2. setCall'.proposed = setCall.proposed /\ setCall'.want = setCall.want
      BY <1>1, <2>1 DEF SetCalls
    <2>3. setPc' \notin {"labels", "ask"} /\ setHome' \in {setHome, SetupWorktree}
      BY <1>7 DEF SetupOpensTree, Stops, SetGoes
    <2>4. SetupWorktree = setHome \/ SetupWorktree.staged = {}
      BY <1>1 DEF SetupWorktree, SetHomes
    <2>5. setHome'.staged \subseteq setHome'.tree BY <2>3, <2>4
    <2> QED BY <2>2, <2>3, <2>5
  <1>8. CASE SetupWrites
    <2>1. PICK t : setCall' = setCall \/ setCall' = [setCall EXCEPT !.todo = t]
      BY <1>8 DEF SetupWrites
    <2>2. setCall'.proposed = setCall.proposed /\ setCall'.want = setCall.want
      BY <1>1, <2>1 DEF SetCalls
    <2>3. PICK x : setHome' = setHome \/ setHome' = [setHome EXCEPT !.tree = @ \cup {x}]
      BY <1>8 DEF SetupWrites
    <2>4. setHome'.staged \subseteq setHome'.tree BY <1>1, <2>3 DEF SetHomes
    <2>5. setPc' \notin {"labels", "ask"} BY <1>8 DEF SetupWrites, SetAt, SetGoes
    <2> QED BY <2>2, <2>4, <2>5
  <1>9. CASE SetupStages
    <2>1. PICK t, w : setCall' = setCall \/ setCall' = [setCall EXCEPT !.todo = t, !.wrote = w]
      BY <1>9 DEF SetupStages
    <2>2. setCall'.proposed = setCall.proposed /\ setCall'.want = setCall.want
      BY <1>1, <2>1 DEF SetCalls
    <2>3. \/ setHome' = setHome
          \/ setHome' = [setHome EXCEPT !.staged = @ \cup {NextItem}]
      BY <1>9 DEF SetupStages
    <2>4. NextItem \in setHome.tree BY <1>9 DEF SetInv, WantInv, SetupStages, SetAt
    <2>5. setHome'.staged \subseteq setHome'.tree
      <3> PICK x : x = NextItem OBVIOUS
      <3> QED BY <1>1, <2>3, <2>4 DEF SetHomes
    <2>6. setPc' \notin {"labels", "ask"} BY <1>9 DEF SetupStages, Stops, SetGoes
    <2> QED BY <2>2, <2>5, <2>6
  <1>10. CASE SetupCommits
    <2>1. PICK h : setHome' = setHome
                   \/ setHome' = [setHome EXCEPT !.head = h, !.staged = {}, !.ahead = TRUE]
      BY <1>10 DEF SetupCommits
    <2>2. setHome'.staged \subseteq setHome'.tree BY <1>1, <2>1 DEF SetHomes
    <2>3. setPc' \notin {"labels", "ask"} /\ UNCHANGED setCall BY <1>10 DEF SetupCommits, Stops, SetGoes
    <2> QED BY <2>2, <2>3
  <1>11. CASE SetupCounts
    <2>1. \/ setCall' = setCall
          \/ setCall' = [setCall EXCEPT !.proposed = setCall.want \cap Differs]
      BY <1>11 DEF SetupCounts
    <2>2. setCall'.proposed \subseteq setCall'.want BY <1>1, <2>1 DEF SetCalls
    <2>3. setPc' \notin {"labels", "ask"} /\ UNCHANGED setHome BY <1>11 DEF SetupCounts, Stops, SetGoes
    <2> QED BY <2>2, <2>3
  <1>12. CASE PersonMergesSetup
    <2>1. PICK a : setHome' = [setHome EXCEPT !.ahead = a]
      BY <1>12 DEF PersonMergesSetup
    <2>2. setHome'.staged = setHome.staged /\ setHome'.tree = setHome.tree
      BY <1>1, <2>1 DEF SetHomes
    <2>3. UNCHANGED <<setPc, setCall>> BY <1>12 DEF PersonMergesSetup, Moves
    <2> QED BY <2>2, <2>3
  <1>13. CASE PersonPulls
    <2>1. PICK a : setHome' = [setHome EXCEPT !.dir = a] BY <1>13 DEF PersonPulls
    <2>2. setHome'.staged = setHome.staged /\ setHome'.tree = setHome.tree
      BY <1>1, <2>1 DEF SetHomes
    <2>3. UNCHANGED <<setPc, setCall>> BY <1>13 DEF PersonPulls, Moves
    <2> QED BY <2>2, <2>3
  <1>14. CASE PersonRemovesTree
    <2>1. setHome'.staged = {} BY <1>1, <1>14 DEF PersonRemovesTree, SetHomes
    <2>2. UNCHANGED <<setPc, setCall>> BY <1>14 DEF PersonRemovesTree, Moves
    <2> QED BY <2>1, <2>2
  <1>15. CASE PersonClosesSetup \/ PersonDropsItem \/ PersonMakesGate
    BY <1>15 DEF PersonClosesSetup, PersonDropsItem, PersonMakesGate, Moves
  <1>16. CASE UNCHANGED setVars BY <1>16 DEF setVars
  <1> QED
    BY <1>2, <1>3, <1>4, <1>5, <1>6, <1>7, <1>8, <1>9, <1>10, <1>11, <1>12, <1>13, <1>14,
       <1>15, <1>16 DEF SetupNext

(* What setup has written, staged, wanted and proposed keeps its type.     *)
LEMMA SetupTypeCorrect == SetSpec => []SetupTypeOK
  <1>1. SetupInit => StagedInv BY DEF SetupInit, StagedInv, NoCall
  <1>2. SetInv /\ StagedInv => SetupTypeOK
    <2> SUFFICES ASSUME SetInv, StagedInv PROVE SetupTypeOK
      OBVIOUS
    <2>1. setCall \in SetCalls /\ setHome \in SetHomes BY DEF SetInv, SetTypes
    <2>2. setCall.want \subseteq Items /\ setHome.tree \subseteq Items
      BY <2>1 DEF SetCalls, SetHomes
    <2>3. \A i \in DOMAIN setRows : setRows[i] \in SetRowStates BY DEF SetInv, SetTypes
    <2>4. setPc \in {"rest", "labels", "ask", "look", "fetch", "tree", "write", "stage", "count",
                     "push", "create", "end"}
      BY DEF SetInv, SetTypes, SetUnderWay, SetBuilds, SetOffers
    <2> QED BY <2>2, <2>3, <2>4 DEF StagedInv, SetupTypeOK, SetRowStates
  <1> QED BY <1>1, <1>2, StagedKeeps, SetInductive, PTL DEF SetSpec

(* An etag that is kept was served before; the loops go through threads    *)
(* that are waited on.                                                     *)
WatchInv ==
    /\ waitMode \in [one : BOOLEAN, peek : BOOLEAN]
    /\ threads \in [Waiting -> [replied : BOOLEAN, bots : Nat, version : Nat]]
    /\ watches \in [Waiting -> [etag : Nat, off : BOOLEAN, mine : BOOLEAN]]
    /\ \A i \in Waiting : watches[i].etag <= threads[i].version
    /\ waitTodo \subseteq Waiting /\ waitWoke \subseteq Waiting
    /\ waitAnswer \in Waiting \cup {0}

LEMMA FirstIsIn == ASSUME NEW s \in SUBSET Waiting, s # {} PROVE First(s) \in s
  <1>1. s \in SUBSET Nat BY WaitAssumption
  <1>2. \E i \in s : \A j \in s : i <= j BY <1>1, Smallest
  <1> QED BY <1>2 DEF First

LEMMA WatchedAreWaiting == Watched \subseteq Waiting
  <1>1. First(Waiting) \in Waiting BY WaitAssumption, FirstIsIn
  <1> QED BY <1>1 DEF Watched, First

LEMMA WatchKeeps == WaitTypes /\ WatchInv /\ [WaitNext]_waitVars => WatchInv'
  <1> SUFFICES ASSUME WaitTypes, WatchInv, [WaitNext]_waitVars PROVE WatchInv'
    OBVIOUS
  <1> DEFINE Watches == [etag : Nat, off : BOOLEAN, mine : BOOLEAN]
             Threads == [replied : BOOLEAN, bots : Nat, version : Nat]
  <1> USE DEF WatchInv
  <1>1. ASSUME watches' \in [Waiting -> Watches],
               \A i \in Waiting : \/ watches'[i].etag = watches[i].etag
                                  \/ watches'[i].etag = threads[i].version,
               UNCHANGED threads
        PROVE  \A i \in Waiting : watches'[i].etag <= threads'[i].version
    BY <1>1
  <1>2. ASSUME NEW i \in Waiting, UNCHANGED threads,
               Kept(i) \/ NotAnswered \/ SwitchedOff(i)
        PROVE  /\ watches' \in [Waiting -> Watches]
               /\ \A j \in Waiting : watches'[j].etag <= threads'[j].version
    <2>1. threads[i] \in Threads /\ watches[i] \in Watches OBVIOUS
    <2>2. CASE Kept(i)
      <3>1. [watches[i] EXCEPT !.etag = threads[i].version] \in Watches
            /\ [watches[i] EXCEPT !.etag = threads[i].version].etag = threads[i].version
        BY <2>1
      <3>2. watches' = [watches EXCEPT ![i] = [watches[i] EXCEPT !.etag = threads[i].version]]
        BY <2>2 DEF Kept
      <3> QED BY <1>1, <1>2, <3>1, <3>2
    <2>3. CASE SwitchedOff(i)
      <3>1. [watches[i] EXCEPT !.off = TRUE] \in Watches
            /\ [watches[i] EXCEPT !.off = TRUE].etag = watches[i].etag
        BY <2>1
      <3>2. watches' = [watches EXCEPT ![i] = [watches[i] EXCEPT !.off = TRUE]]
        BY <2>3 DEF SwitchedOff
      <3> QED BY <1>1, <1>2, <3>1, <3>2
    <2>4. CASE NotAnswered BY <1>2, <2>4 DEF NotAnswered
    <2> QED BY <1>2, <2>2, <2>3, <2>4
  <1>3. CASE WaitBegins
    <2>1. /\ waitMode' \in [one : BOOLEAN, peek : BOOLEAN]
          /\ watches' \in [Waiting -> [etag : {NoEtag}, off : {FALSE}, mine : BOOLEAN]]
          /\ UNCHANGED <<threads, waitTodo, waitWoke, waitAnswer>>
      BY <1>3 DEF WaitBegins
    <2>2. watches' \in [Waiting -> Watches]
      <3>1. ASSUME NEW r \in [etag : {NoEtag}, off : {FALSE}, mine : BOOLEAN]
            PROVE  r \in Watches
        <4>1. r = [etag |-> r.etag, off |-> r.off, mine |-> r.mine] OBVIOUS
        <4>2. r.etag \in Nat BY DEF NoEtag
        <4>3. r.off \in BOOLEAN /\ r.mine \in BOOLEAN BY Zenon
        <4> QED BY <4>1, <4>2, <4>3, Zenon
      <3> HIDE DEF Watches
      <3> QED BY <2>1, <3>1
    <2>3. ASSUME NEW i \in Waiting PROVE watches'[i].etag <= threads'[i].version
      <3>1. watches'[i].etag = 0 /\ threads[i].version \in Nat BY <2>1 DEF NoEtag
      <3> QED BY <2>1, <3>1
    <2> QED BY <2>1, <2>2, <2>3
  <1>4. CASE WaitCalled
    <2> DEFINE strangers == {i \in Waiting : ~watches[i].mine}
    <2>1. UNCHANGED <<waitMode, threads, watches>> /\ waitWoke' = {} BY <1>4 DEF WaitCalled
    <2>2. \/ strangers # {} /\ waitAnswer' = First(strangers) /\ waitTodo' = {}
          \/ waitTodo' = Watched /\ UNCHANGED waitAnswer
      BY <1>4 DEF WaitCalled
    <2>3. strangers # {} => First(strangers) \in Waiting
      <3>1. strangers \in SUBSET Waiting OBVIOUS
      <3> HIDE DEF strangers
      <3> QED BY <3>1, FirstIsIn
    <2> QED BY <2>1, <2>2, <2>3, WatchedAreWaiting
  <1>5. CASE Primes
    <2> DEFINE bare == {i \in waitTodo : watches[i].etag = NoEtag /\ ~watches[i].off}
    <2>1. UNCHANGED <<waitMode, threads, waitWoke, waitAnswer>>
      BY <1>5 DEF Primes, WaitStays
    <2>2. \/ waitTodo' = {} /\ UNCHANGED watches
          \/ /\ bare # {} /\ waitTodo' = waitTodo \ {First(bare)}
             /\ Kept(First(bare)) \/ NotAnswered \/ SwitchedOff(First(bare))
      BY <1>5, Zenon DEF Primes
    <2>3. bare \in SUBSET Waiting OBVIOUS
    <2> HIDE DEF bare
    <2>4. CASE waitTodo' = {} /\ UNCHANGED watches BY <2>1, <2>4
    <2>5. CASE bare # {} /\ waitTodo' = waitTodo \ {First(bare)}
               /\ (Kept(First(bare)) \/ NotAnswered \/ SwitchedOff(First(bare)))
      <3>1. First(bare) \in Waiting BY <2>3, <2>5, FirstIsIn
      <3>2. /\ watches' \in [Waiting -> Watches]
            /\ \A j \in Waiting : watches'[j].etag <= threads'[j].version
        BY <1>2, <2>1, <2>5, <3>1
      <3> QED BY <2>1, <2>5, <3>2
    <2> QED BY <2>2, <2>4, <2>5
  <1>6. CASE Sleeps
    <2>1. UNCHANGED <<waitMode, threads, watches, waitAnswer>> /\ waitWoke' = {}
      BY <1>6 DEF Sleeps, WaitStays
    <2>2. waitTodo' = {} \/ waitTodo' = Watched BY <1>6, Zenon DEF Sleeps
    <2> QED BY <2>1, <2>2, WatchedAreWaiting
  <1>7. CASE Peeks
    <2>1. UNCHANGED <<waitMode, threads, waitAnswer>> BY <1>7 DEF Peeks, WaitStays
    <2>2. CASE waitTodo # {}
      <3>1. PICK i : i = First(waitTodo) OBVIOUS
      <3>2. i \in Waiting BY <2>2, <3>1, FirstIsIn
      <3>3. /\ waitTodo' = waitTodo \ {i} /\ (Kept(i) \/ NotAnswered \/ SwitchedOff(i))
            /\ waitWoke' = waitWoke \/ waitWoke' = waitWoke \cup {i}
        BY <1>7, <2>2, <3>1, Zenon DEF Peeks
      <3>4. /\ watches' \in [Waiting -> Watches]
            /\ \A j \in Waiting : watches'[j].etag <= threads'[j].version
        BY <1>2, <2>1, <3>2, <3>3
      <3> QED BY <2>1, <3>2, <3>3, <3>4
    <2>3. CASE waitTodo = {}
      <3>1. waitTodo' = waitWoke /\ UNCHANGED <<watches, waitWoke>>
        BY <1>7, <2>3, Zenon DEF Peeks
      <3> QED BY <2>1, <3>1
    <2> QED BY <2>2, <2>3
  <1>8. CASE FullCheck BY <1>8, WatchedAreWaiting DEF FullCheck
  <1>9. CASE Reads
    <2>1. UNCHANGED <<waitMode, threads, watches, waitWoke>> /\ waitTodo # {}
      BY <1>9 DEF Reads
    <2>2. PICK i : i = First(waitTodo) OBVIOUS
    <2>3. i \in Waiting BY <2>1, <2>2, FirstIsIn
    <2>4. waitTodo' = waitTodo \ {i} /\ waitAnswer' \in {waitAnswer, i}
      BY <1>9, <2>2 DEF Reads
    <2> QED BY <2>1, <2>3, <2>4
  <1>10. CASE GoesOn
    <2>1. UNCHANGED <<waitMode, threads, watches, waitWoke, waitAnswer>> BY <1>10 DEF GoesOn
    <2>2. waitTodo' = {} \/ waitTodo' = Watched BY <1>10, Zenon DEF GoesOn
    <2> QED BY <2>1, <2>2, WatchedAreWaiting
  <1>11. CASE RunFolds
    <2>1. UNCHANGED <<waitMode, waitTodo, waitWoke>> /\ waitAnswer' = 0 BY <1>11 DEF RunFolds
    <2>2. PICK a : a = waitAnswer OBVIOUS
    <2>3. /\ threads' = [threads EXCEPT ![a].replied = FALSE, ![a].bots = 0]
          /\ watches' = [watches EXCEPT ![a].mine = TRUE]
      BY <1>11, <2>2 DEF RunFolds
    <2>4. CASE a \notin Waiting
      <3>1. UNCHANGED <<threads, watches>> BY <2>3, <2>4
      <3> QED BY <2>1, <3>1
    <2>5. CASE a \in Waiting
      <3>1. threads[a] \in Threads /\ watches[a] \in Watches BY <2>5
      <3>2. PICK r : r = [threads[a] EXCEPT !.replied = FALSE] OBVIOUS
      <3>3. r \in Threads /\ r.version = threads[a].version BY <3>1, <3>2
      <3>4. PICK t : t = [r EXCEPT !.bots = 0] OBVIOUS
      <3>5. t \in Threads /\ t.version = threads[a].version BY <3>3, <3>4
      <3>6. PICK w : w = [watches[a] EXCEPT !.mine = TRUE] OBVIOUS
      <3>7. w \in Watches /\ w.etag = watches[a].etag BY <3>1, <3>6
      <3>8. threads' = [threads EXCEPT ![a] = t]
        <4> DEFINE once == [threads EXCEPT ![a] = [threads[a] EXCEPT !.replied = FALSE]]
        <4>1. once[a] = r BY <2>5, <3>2
        <4>2. threads' = [once EXCEPT ![a] = [once[a] EXCEPT !.bots = 0]] BY <2>3
        <4>3. threads' = [once EXCEPT ![a] = t] BY <3>4, <4>1, <4>2, Zenon
        <4> QED BY <4>3
      <3>9. watches' = [watches EXCEPT ![a] = w] BY <2>3, <3>6
      <3> QED BY <2>1, <2>5, <3>5, <3>7, <3>8, <3>9
    <2> QED BY <2>4, <2>5
  <1>12. CASE PersonReplies \/ BotComments \/ PersonEditsIssue
    <2>1. ASSUME NEW i \in Waiting, NEW t \in Threads, t.version = threads[i].version,
                 ThreadMoves(i, t)
          PROVE  WatchInv'
      <3>1. PICK u : u = [replied |-> t.replied, bots |-> t.bots, version |-> t.version + 1]
        OBVIOUS
      <3>2. u \in Threads /\ u.version = threads[i].version + 1 BY <2>1, <3>1
      <3>3. threads' = [threads EXCEPT ![i] = u]
        <4>1. threads' = [threads EXCEPT ![i] = [t EXCEPT !.version = t.version + 1]]
          BY <2>1 DEF ThreadMoves
        <4>2. [t EXCEPT !.version = t.version + 1] = u BY <2>1, <3>1
        <4> QED BY <4>1, <4>2
      <3>4. UNCHANGED <<waitMode, watches, waitTodo, waitWoke, waitAnswer>>
        BY <2>1 DEF ThreadMoves
      <3>5. ASSUME NEW j \in Waiting PROVE watches'[j].etag <= threads'[j].version
        <4>1. watches[j].etag \in Nat /\ threads[j].version \in Nat OBVIOUS
        <4>2. threads'[j].version = threads[j].version
              \/ threads'[j].version = threads[j].version + 1
          BY <3>2, <3>3
        <4> QED BY <3>4, <4>1, <4>2
      <3> QED BY <3>2, <3>3, <3>4, <3>5
    <2>2. ASSUME NEW i \in Waiting
          PROVE  /\ [threads[i] EXCEPT !.replied = TRUE] \in Threads
                 /\ [threads[i] EXCEPT !.replied = TRUE].version = threads[i].version
                 /\ [threads[i] EXCEPT !.bots = @ + 1] \in Threads
                 /\ [threads[i] EXCEPT !.bots = @ + 1].version = threads[i].version
                 /\ threads[i] \in Threads
      <3>1. threads[i] \in Threads OBVIOUS
      <3>2. /\ [threads[i] EXCEPT !.replied = TRUE] \in Threads
            /\ [threads[i] EXCEPT !.replied = TRUE].version = threads[i].version
        BY <3>1
      <3>3. [threads[i] EXCEPT !.bots = @ + 1].version = threads[i].version BY <3>1
      <3>4. [threads[i] EXCEPT !.bots = @ + 1] \in Threads
        <4>1. [threads[i] EXCEPT !.bots = @ + 1]
                 = [replied |-> threads[i].replied, bots |-> threads[i].bots + 1,
                    version |-> threads[i].version]
          BY <3>1
        <4> QED BY <3>1, <4>1
      <3> QED BY <3>1, <3>2, <3>3, <3>4
    <2> QED BY <1>12, <2>1, <2>2 DEF PersonReplies, BotComments, PersonEditsIssue
  <1>13. CASE UNCHANGED waitVars BY <1>13 DEF waitVars
  <1> QED
    BY <1>3, <1>4, <1>5, <1>6, <1>7, <1>8, <1>9, <1>10, <1>11, <1>12, <1>13 DEF WaitNext

(* What the waits keep of the threads has its type.                        *)
LEMMA WaitTypeCorrect == WaitSpec => []WaitTypeOK
  <1>1. WaitInit => WatchInv BY DEF WaitInit, WatchInv, NoThread, NoEtag
  <1>2. WaitInv => WaitTypes BY DEF WaitInv
  <1>3. WaitInv /\ WatchInv => WaitTypeOK
    BY DEF WaitInv, WaitTypes, WatchInv, WaitTypeOK
  <1> QED BY <1>1, <1>2, <1>3, WatchKeeps, WaitInductive, PTL DEF WaitSpec

LEMMA DesignTypeCorrect == DesSpec => []DesignTypeOK
  <1>1. DesInv => DesignTypeOK
    <2> SUFFICES ASSUME DesInv PROVE DesignTypeOK
      OBVIOUS
    <2>1. ASSUME NEW n \in Requests PROVE desHub[n].labels \subseteq DesLabels
      <3>1. desHub[n] \in DesThreads BY DEF DesInv, DesTypes
      <3> QED BY <3>1 DEF DesThreads
    <2>2. desCall.issue \in Requests \cup {0} BY DEF DesInv, DesTypes
    <2>3. desHist.late \subseteq Requests /\ desHist.hands \subseteq Requests
      BY DEF DesInv, DesTypes
    <2>4. desPc \in {"rest", "file", "declare", "check", "look", "labels", "pickup", "run",
                     "answer", "supervise", "end"}
      BY DEF DesInv, DesTypes, DesLooked
    <2>5. desShift \in Requests \cup {0} BY DEF DesInv, DesTypes
    <2> QED BY <2>1, <2>2, <2>3, <2>4, <2>5 DEF DesignTypeOK, DesLabels
  <1> QED BY <1>1, DesInductive, PTL

LEMMA StatusTypeCorrect == StSpec => []StatusTypeOK
  <1>1. StInv => StatusTypeOK
    BY DEF StInv, StTypes, PRsAgree, ParksAgree, StatusTypeOK
  <1> QED BY <1>1, StInductive, PTL

-----------------------------------------------------------------------------
(*                        the verbs as one process                         *)

verbsVars ==
    <<verb, tidyVars, updateVars, unparkVars, intakeVars, waitVars, usageVars, policyVars,
      preVars, recVars, setVars, desVars, stVars>>
VerbsSpec == Init /\ [][Next]_verbsVars

(* A process is started as one verb and moves that verb's state alone      *)
(* (dispatchVerb): of each part it shows a behaviour, or a stutter.        *)
LEMMA EachPartRuns ==
  VerbsSpec => /\ TidySpec /\ UpdateSpec /\ UnparkSpec /\ IntSpec /\ WaitSpec /\ UseSpec
               /\ PolicySpec /\ PreSpec /\ RecSpec /\ SetSpec /\ DesSpec /\ StSpec
  <1>1. Init => /\ TidyInit /\ UpdateInit /\ UnparkInit /\ IntakeInit /\ WaitInit /\ UsageInit
               /\ PolicyInit /\ PreInit /\ RecInit /\ SetupInit /\ DesignInit /\ StatusInit
    BY DEF Init
  <1>2. [Next]_verbsVars => [TidyNext]_tidyVars BY DEF Next, verbsVars
  <1>3. [Next]_verbsVars => [UpdateNext]_updateVars BY DEF Next, verbsVars
  <1>4. [Next]_verbsVars => [UnparkNext]_unparkVars BY DEF Next, verbsVars
  <1>5. [Next]_verbsVars => [IntakeNext]_intakeVars BY DEF Next, verbsVars
  <1>6. [Next]_verbsVars => [WaitNext]_waitVars BY DEF Next, verbsVars
  <1>7. [Next]_verbsVars => [UsageNext]_usageVars BY DEF Next, verbsVars
  <1>8. [Next]_verbsVars => [PolicyNext]_policyVars BY DEF Next, verbsVars
  <1>9. [Next]_verbsVars => [PreNext]_preVars BY DEF Next, verbsVars
  <1>10. [Next]_verbsVars => [SetupNext]_setVars BY DEF Next, verbsVars
  <1>11. [Next]_verbsVars => [DesignNext]_desVars BY DEF Next, verbsVars
  <1>12. [Next]_verbsVars => [StatusNext]_stVars BY DEF Next, verbsVars
  <1>13. [Next]_verbsVars => [RecNext]_recVars BY DEF Next, verbsVars
  <1> QED
    BY <1>1, <1>2, <1>3, <1>4, <1>5, <1>6, <1>7, <1>8, <1>9, <1>10, <1>11, <1>12,
       <1>13, PTL
    DEF VerbsSpec, TidySpec, UpdateSpec, UnparkSpec, IntSpec, WaitSpec, UseSpec, PolicySpec,
        PreSpec, RecSpec, SetSpec, DesSpec, StSpec

(* So what is shown of the parts holds of the process that the command     *)
(* line starts: what the run of the verbs checks on one instance, for all  *)
(* (main.go, dispatchVerb).                                                *)
THEOREM VerbsKeepTheirWord ==
  VerbsSpec => /\ []TidyLosesNothingSeen /\ []GrantsMatchClears /\ []ReplyWaitsOnePoll
               /\ []StrongestVoice /\ []DryRunForesees /\ []NothingStranded
               /\ []CodeIsNotDesign /\ []ReportStands /\ []ReportsHold
               /\ HalvesInOrder /\ PassSparesTheRest
  BY EachPartRuns, NothingSeenIsLost, GrantsMatch, OnePollAtMost, StrongestWins,
     ForeseenByDryRun, NothingIsStranded, DesignIsNotCode, StatusStands, ReportsAreTrue,
     HalvesKept, PassSpares, PTL

(* Every variable of every part keeps its type, whatever the verb does.    *)
THEOREM VerbsTypesCorrect == VerbsSpec => []VerbsTypeOK
  <1>1. TidyInv => TidyTypeOK BY DEF TidyInv, TidyTypes, TidyTypeOK
  <1>2. UpdateInv => UpdateTypeOK BY DEF UpdateInv, UpdateTypes, UpdateTypeOK
  <1>3. UnparkInv => UnparkTypeOK BY DEF UnparkInv, UnparkTypes
  <1>4. UseInv => UsageTypeOK BY DEF UseInv
  <1>5. VerbsSpec => /\ []TidyTypeOK /\ []UpdateTypeOK /\ []UnparkTypeOK /\ []IntakeTypeOK
                     /\ []WaitTypeOK /\ []UsageTypeOK /\ []PolicyTypeOK /\ []PreTypeOK
                     /\ []RecTypeOK /\ []SetupTypeOK /\ []DesignTypeOK /\ []StatusTypeOK
    BY <1>1, <1>2, <1>3, <1>4, EachPartRuns, TidyInductive, UpdateInductive, UnparkInductive,
       UseInductive, IntakeTypeCorrect, WaitTypeCorrect, PolicyTypeCorrect, PreTypeCorrect,
       RecTypeCorrect, SetupTypeCorrect, DesignTypeCorrect, StatusTypeCorrect, PTL
  <1>6. /\ TidyTypeOK /\ UpdateTypeOK /\ UnparkTypeOK /\ IntakeTypeOK
        /\ WaitTypeOK /\ UsageTypeOK /\ PolicyTypeOK /\ PreTypeOK
        /\ RecTypeOK /\ SetupTypeOK /\ DesignTypeOK /\ StatusTypeOK
        => VerbsTypeOK
    BY DEF VerbsTypeOK
  <1> QED BY <1>5, <1>6, PTL

(* and the wait of the usage gate, while the grace covers the lag.         *)
THEOREM VerbsSleepShort ==
  ASSUME MeterLag <= Grace PROVE VerbsSpec => []SleepsNoLongerThanNeeded
  BY EachPartRuns, SleepIsShort, PTL
===============================================================================
